------------------------------ MODULE Account ------------------------------
(***************************************************************************)
(* The Account class: a customer's balance and the state of the account.   *)
(* An account is a record; its methods are functions from the account and  *)
(* their argument to the account they leave behind.  They take no lock:    *)
(* TransactionManager calls them with the account's mutex held.            *)
(***************************************************************************)
EXTENDS Integers

CONSTANTS
    MinDeposit,     \* MINIMUM_PENDING_DEPOSIT
    IntMax          \* the largest balance an int64_t holds

ASSUME ConstantsAreAmounts ==
    /\ MinDeposit \in Nat \ {0}
    /\ IntMax \in Nat \ {0}
    /\ MinDeposit <= IntMax

AccountState == {"PENDING", "ACTIVE", "FROZEN", "CLOSED"}

Balances == -(IntMax + 1) .. IntMax

Accounts == [customer_id : Nat, balance : Balances, state : AccountState]

NewAccount(customer) ==
    [customer_id |-> customer, balance |-> 0, state |-> "PENDING"]

(***************************************************************************)
(* Signed overflow is undefined in C++; Account.cpp is a translation unit  *)
(* of its own, so its += compiles to a plain machine addition that wraps.  *)
(* The sum of a balance and a positive int64_t wraps at most once.         *)
(***************************************************************************)
Wrap(n) == IF n > IntMax THEN n - 2 * (IntMax + 1) ELSE n

Insufficient(account, amount) == account.balance < amount

\* debit() answers false, and changes nothing, unless this holds.
DebitSucceeds(account, amount) == amount > 0 /\ ~Insufficient(account, amount)

Debit(account, amount) ==
    IF DebitSucceeds(account, amount)
    THEN [account EXCEPT !.balance = @ - amount]
    ELSE account

Credit(account, amount) ==
    IF amount > 0
    THEN [account EXCEPT !.balance = Wrap(@ + amount)]
    ELSE account

Freeze(account) == [account EXCEPT !.state = "FROZEN"]
Unfreeze(account) == [account EXCEPT !.state = "ACTIVE"]
Close(account) == [account EXCEPT !.state = "CLOSED"]
=============================================================================
