------------------------------ MODULE Displays ------------------------------
(***************************************************************************)
(* What the worker puts together for the dashboards from several calls of  *)
(* the bank, and what the dashboards add up.  One worker makes these calls *)
(* one after the other and nobody else calls the bank meanwhile, so each   *)
(* display is a function of one state of TransactionManager.               *)
(***************************************************************************)
EXTENDS TransactionProperties

Ask(op, a) == Verdict([op |-> op, id |-> a, to |-> 0, amount |-> 0])

\* A customer lists its accounts in the order in which they were opened.
AccountsOf(c) ==
    LET own == {a \in DOMAIN accounts : accounts[a].customer_id = c}
    IN  CHOOSE list \in [1 .. Cardinality(own) -> own] :
          /\ Range(list) = own
          /\ \A i, j \in DOMAIN list : i < j => list[i] < list[j]

-----------------------------------------------------------------------------
\* A customer's transactions: the histories of its accounts one after the other,
\* without the records already seen (they are then sorted, the newest first).

\* Bug variant: nothing is remembered of the records already there.
AddUnseen_Always(all, id) == Append(all, id)

AddUnseen(all, id) == IF Contains(all, id) THEN all ELSE Append(all, id)

CustomerTransactions(c) ==
    LET accIds == AccountsOf(c)
        records == FlattenSeq([i \in DOMAIN accIds |-> QueryByAccount(accIds[i])])
        allRecords[n \in 0 .. Len(records)] ==
          IF n = 0 THEN << >> ELSE AddUnseen(allRecords[n - 1], records[n])
    IN  allRecords[Len(records)]

\* A customer's page lists every transaction of its accounts and no transaction
\* twice, although a transfer between two of its accounts is in the histories of
\* both (onRequestCustomerTransactions).
StatementIsComplete ==
    CanShare(record_mtx) =>
      \A c \in {accounts[a].customer_id : a \in DOMAIN accounts} :
        LET shown == CustomerTransactions(c)
            own == Range(AccountsOf(c))
        IN  /\ IsInjective(shown)
            /\ Range(shown) = {i \in Stored : transactions[i].src_id \in own
                                              \/ transactions[i].dest_id \in own}

-----------------------------------------------------------------------------
AccountDisplay(a) ==
    [balance |-> Ask("getBalance", a).value, state |-> Ask("getAccountState", a).status]

\* The rows of a customer's page, and those of the administrator's, which leaves
\* out accounts that are closed.
CustomerAccounts(c) == [a \in Range(AccountsOf(c)) |-> AccountDisplay(a)]
AllAccounts ==
    [a \in {b \in DOMAIN accounts : AccountDisplay(b).state # "CLOSED"} |-> AccountDisplay(a)]

Added(rows, states) ==
    SumFunctionOnSet([a \in DOMAIN rows |-> rows[a].balance],
                     {a \in DOMAIN rows : rows[a].state \in states})

\* Bug variant: the closed accounts count, too.
CountedForCustomer_All == {"PENDING", "ACTIVE", "FROZEN", "CLOSED"}

\* Which accounts "Total Balance" and "Total Deposits" count.
CountedForCustomer == {"PENDING", "ACTIVE", "FROZEN"}
CountedForAdmin == {"ACTIVE"}

TotalBalance(c) == Added(CustomerAccounts(c), CountedForCustomer)
TotalDeposits == Added(AllAccounts, CountedForAdmin)

\* The totals on the dashboards are the bank's money: what a customer sees is all
\* it has, although a closed account, whose balance is answered as -1, is one of
\* its rows; and what the administrator sees is all the bank holds but for the
\* accounts that are pending or frozen.
TotalsAddUp ==
    LET Money(ids) == SumFunctionOnSet([a \in DOMAIN accounts |-> accounts[a].balance], ids)
    IN  /\ \A c \in {accounts[a].customer_id : a \in DOMAIN accounts} :
             TotalBalance(c) = Money(Range(AccountsOf(c)))
        /\ TotalDeposits + Money({a \in DOMAIN accounts :
                                    accounts[a].state \in {"PENDING", "FROZEN"}})
             = Money(DOMAIN accounts)
=============================================================================
