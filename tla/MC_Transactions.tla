-------------------------- MODULE MC_Transactions ---------------------------
(***************************************************************************)
(* Small instances of TransactionManager.  Accounts 1 and 2 are open when  *)
(* the clients start; account 3 is when a client opens it, or never.       *)
(***************************************************************************)
EXTENDS Displays

CONSTANTS t1, t2, t3

MCOwner == (1 :> 1) @@ (2 :> 1)

C(op, id, to, amount) == [op |-> op, id |-> id, to |-> to, amount |-> amount]

\* Two clients race for the money of two accounts.
MoneyScript ==
    (t1 :> << {C("deposit", 1, 0, 3)},
              {C("transfer", 1, 2, 2), C("transfer", 1, 3, 3),
               C("withdraw", 1, 0, 3), C("freeze", 1, 0, 0)},
              {C("transfer", 2, 1, 2), C("close", 1, 0, 0), C("unfreeze", 1, 0, 0)} >>)
 @@ (t2 :> << {C("deposit", 2, 0, 2), C("transfer", 1, 2, 2)},
              {C("transfer", 2, 1, 1), C("withdraw", 2, 0, 2), C("close", 1, 0, 0),
               C("openAccount", 7, 0, 0)},
              {C("getBalance", 1, 0, 0), C("getAccountState", 1, 0, 0),
               C("getAccountCustomerId", 2, 0, 0), C("close", 2, 0, 0),
               C("transfer", 1, 2, 1), C("deposit", 1, 0, 2),
               C("transfer", 1, 1, 1), C("transfer", 1, 3, 1), C("withdraw", 3, 0, 1),
               C("getAccountCustomerId", 3, 0, 0)} >>)

\* The clock is set to any time, forward or back, between any two records; the
\* records of two clients are then counted by window.
AnyTime == -MaxTime .. MaxTime

ClockScript ==
    (t1 :> << {C("deposit", 1, 0, 2)}, {C("transfer", 1, 2, 1), C("transfer", 2, 1, 1)},
              {C("transfer", 1, 2, 1), C("countTransactionsPerWindow", 2, 1, 0)} >>)
 @@ (t2 :> << {C("deposit", 1, 0, 2)}, {C("queryByAccount", 1, 0, 0)} >>)

\* Two clients write records of the same accounts and ask for them.
RecordsScript ==
    (t1 :> << {C("deposit", 1, 0, 3)},
              {C("transfer", 1, 2, 2), C("transfer", 1, 3, 1), C("transfer", 1, 2, 4)},
              {C("queryByAccount", 1, 0, 0), C("queryBySrc", 1, 0, 0),
               C("queryByDest", 2, 0, 0)} >>)
 @@ (t2 :> << {C("deposit", 2, 0, 2), C("deposit", 2, 0, 1), C("transfer", 1, 2, 1)},
              {C("transfer", 2, 1, 1), C("transfer", 2, 3, 1), C("withdraw", 2, 0, 9),
               C("openAccount", 7, 0, 0)},
              {C("getRecentTransactions", 0, 0, 2), C("queryByTime", 0, 1, 0)} >>)

\* Three clients want the same two accounts in opposite orders, with money in
\* them or without.
ProgressScript ==
    (t1 :> << {C("deposit", 1, 0, 2), C("transfer", 1, 2, 1)},
              {C("transfer", 1, 2, 1), C("withdraw", 2, 0, 1)} >>)
 @@ (t2 :> << {C("deposit", 2, 0, 2), C("transfer", 2, 1, 1)},
              {C("transfer", 2, 1, 1), C("freeze", 1, 0, 0)} >>)
 @@ (t3 :> << {C("queryByAccount", 1, 0, 0), C("withdraw", 2, 0, 1),
               C("openAccount", 7, 0, 0)} >>)

\* One client moves money while another names an account that does not exist.
DocumentedScript ==
    (t1 :> << {C("deposit", 1, 0, 3)},
              {C("transfer", 1, 2, 1), C("withdraw", 1, 0, 1), C("deposit", 3, 0, 2)},
              {C("queryByAccount", 1, 0, 0)} >>)
 @@ (t2 :> << {C("transfer", 1, 3, 1)} >>)
=============================================================================
