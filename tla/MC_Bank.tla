------------------------------ MODULE MC_Bank ------------------------------
(***************************************************************************)
(* Small instances of the bank's registry.                                 *)
(***************************************************************************)
EXTENDS BankProperties, TLC

CONSTANTS t1, t2, t3

Al == <<65, 108>>           \* "Al"
Alb == <<97, 108, 98>>      \* "alb"
A == <<97>>
B == <<66, 97>>             \* "Ba"
Ali == Al \o <<195, 173>>   \* "Al" and an accented i, two bytes in UTF-8

C(op, name, id) == [op |-> op, name |-> name, id |-> id]
Ask(op, id) == C(op, << >>, id)

\* Three clients register the same national ids, open accounts and search.
RegistryScript ==
    (t1 :> << {C("registerCustomer", Al, 7), C("registerCustomer", B, 7)},
              {C("registerCustomer", A, 8), Ask("openAccount", 1)},
              {C("searchCustomerPrefix", A, 0), Ask("openAccount", 1),
               Ask("openAccount", 9)} >>)
 @@ (t2 :> << {C("registerCustomer", Alb, 7), C("registerCustomer", Alb, 9)},
              {C("searchCustomerPrefix", Al, 0), C("searchCustomerPrefix", << >>, 0),
               Ask("openAccount", 1)},
              {Ask("routed", 1), Ask("getCustomerAccountIDs", 1)} >>)
 @@ (t3 :> << {Ask("routed", 1), Ask("openAccount", 2),
               Ask("lookupCustomerByNationalID", 7), Ask("getCustomerInfo", 1)},
              {C("searchCustomerPrefix", A, 0), Ask("getAllAccountIDs", 0),
               Ask("getAllCustomerIDs", 0)} >>)

\* The letter after the prefix is outside ASCII.
NamesScript ==
    (t1 :> << {C("registerCustomer", Ali, 7)},
              {C("searchCustomerPrefix", Al, 0)} >>)
 @@ (t2 :> << {C("registerCustomer", Alb, 8)} >>)
=============================================================================
