----------------------------- MODULE AtomicBank -----------------------------
(***************************************************************************)
(* What the bank promises its callers: every call takes effect at a single *)
(* moment between its start and its answer, in full or not at all.  No     *)
(* locks, no records, no order of steps: one step per call, between the    *)
(* step that begins it and the step that returns from it.                  *)
(***************************************************************************)
EXTENDS Integers

CONSTANTS Threads, AccountIds, Owner, MinDeposit, Calls, NoCall

VARIABLES
    accounts,   \* what every account holds
    pending,    \* the call a thread is in, NoCall between calls
    answered    \* the answer the call in progress will give, "none" before it

vars == <<accounts, pending, answered>>

None == [status |-> "none", value |-> 0]

New(customer) == [customer_id |-> customer, balance |-> 0, state |-> "PENDING"]

Init ==
    /\ accounts = [a \in DOMAIN Owner |-> New(Owner[a])]
    /\ pending = [t \in Threads |-> NoCall]
    /\ answered = [t \in Threads |-> None]

Exists(a) == a \in DOMAIN accounts
State(a) == accounts[a].state
Balance(a) == accounts[a].balance

Answer(t, status, value) ==
    answered' = [answered EXCEPT ![t] = [status |-> status, value |-> value]]

Begin(t) ==
    /\ pending[t] = NoCall
    /\ \E c \in Calls : pending' = [pending EXCEPT ![t] = c]
    /\ answered' = [answered EXCEPT ![t] = None]
    /\ UNCHANGED accounts

-----------------------------------------------------------------------------
\* When each operation is allowed.
MayDeposit(c) ==
    /\ Exists(c.id)
    /\ c.amount > 0
    /\ State(c.id) # "CLOSED"
    /\ State(c.id) = "PENDING" => c.amount >= MinDeposit

MayWithdraw(c) ==
    /\ Exists(c.id)
    /\ c.amount > 0
    /\ State(c.id) = "ACTIVE"
    /\ c.amount <= Balance(c.id)

MayTransfer(c) ==
    /\ MayWithdraw(c)
    /\ Exists(c.to)
    /\ c.to # c.id
    /\ State(c.to) # "CLOSED"

MayFreeze(c) == Exists(c.id) /\ State(c.id) = "ACTIVE"
MayUnfreeze(c) == Exists(c.id) /\ State(c.id) = "FROZEN"
MayClose(c) ==
    /\ Exists(c.id)
    /\ State(c.id) \in {"ACTIVE", "FROZEN"}
    /\ Balance(c.id) = 0

May(c) ==
    CASE c.op = "deposit" -> MayDeposit(c)
      [] c.op = "withdraw" -> MayWithdraw(c)
      [] c.op = "transfer" -> MayTransfer(c)
      [] c.op = "freeze" -> MayFreeze(c)
      [] c.op = "unfreeze" -> MayUnfreeze(c)
      [] c.op = "close" -> MayClose(c)
      [] OTHER -> FALSE

Changes == {"deposit", "withdraw", "transfer", "freeze", "unfreeze", "close"}
Moves == {"deposit", "withdraw", "transfer"}

-----------------------------------------------------------------------------
\* What each operation leaves behind when it is allowed.
Gain(c, a) ==
    CASE c.op = "deposit" /\ a = c.id -> c.amount
      [] c.op = "transfer" /\ a = c.to -> c.amount
      [] c.op \in {"withdraw", "transfer"} /\ a = c.id -> -c.amount
      [] OTHER -> 0

NewState(c, a) ==
    IF a # c.id THEN State(a)
    ELSE CASE c.op = "deposit" /\ State(a) = "PENDING" -> "ACTIVE"
           [] c.op = "freeze" -> "FROZEN"
           [] c.op = "unfreeze" -> "ACTIVE"
           [] c.op = "close" -> "CLOSED"
           [] OTHER -> State(a)

Grant(t) ==
    LET c == pending[t]
    IN  /\ May(c)
        /\ accounts' = [a \in DOMAIN accounts |->
             [accounts[a] EXCEPT !.balance = @ + Gain(c, a),
                                 !.state = NewState(c, a)]]
        /\ Answer(t, IF c.op \in Moves THEN "SUCCESS" ELSE "OK", 0)

\* What each failure code says of a call: the reasons there may be to refuse it.
Refusals ==
    {"FAILED_INSUFFICIENT_FUNDS", "FAILED_ACCOUNT_NOT_FOUND", "FAILED_ACCOUNT_FROZEN",
     "FAILED_INVALID_STATE", "FAILED_INVALID_AMOUNT", "FAILED_ACCOUNT_PENDING",
     "FAILED_ACCOUNT_CLOSED", "FAILED_ACCOUNT_NOT_ACTIVE", "FAILED_SAME_ACCOUNT",
     "FAILED_BALANCE_NOT_ZERO", "FAILED_ALREADY_FROZEN", "FAILED_ALREADY_ACTIVE",
     "FAILED_ALREADY_CLOSED"}

Involved(c) == IF c.op = "transfer" THEN {c.id, c.to} ELSE {c.id}

InState(c, states) == Exists(c.id) /\ State(c.id) \in states

Reason(status, c) ==
    \/ status = "FAILED_ACCOUNT_NOT_FOUND" /\ \E a \in Involved(c) : ~Exists(a)
    \/ status = "FAILED_INVALID_AMOUNT" /\ c.op \in Moves /\ c.amount <= 0
    \/ status = "FAILED_SAME_ACCOUNT" /\ c.op = "transfer" /\ c.to = c.id
    \/ status = "FAILED_INSUFFICIENT_FUNDS" /\ c.op \in {"withdraw", "transfer"}
         /\ InState(c, {"ACTIVE"}) /\ c.amount > Balance(c.id)
    \/ status = "FAILED_BALANCE_NOT_ZERO" /\ c.op = "close"
         /\ InState(c, {"ACTIVE", "FROZEN"}) /\ Balance(c.id) # 0
    \/ status \in {"FAILED_ACCOUNT_PENDING", "FAILED_INVALID_STATE"}
         /\ InState(c, {"PENDING"})
    \/ status \in {"FAILED_ACCOUNT_FROZEN", "FAILED_ALREADY_FROZEN"}
         /\ InState(c, {"FROZEN"})
    \/ status = "FAILED_ALREADY_ACTIVE" /\ InState(c, {"ACTIVE"})
    \/ status = "FAILED_ACCOUNT_NOT_ACTIVE"
         /\ InState(c, {"PENDING", "FROZEN", "CLOSED"})
    \/ status \in {"FAILED_ACCOUNT_CLOSED", "FAILED_ALREADY_CLOSED"}
         /\ \E a \in Involved(c) : Exists(a) /\ State(a) = "CLOSED"

\* A refusal gives a failure code that is true at that moment and changes nothing.
Refuse(t) ==
    /\ pending[t].op \in Changes
    /\ ~May(pending[t])
    /\ \E status \in Refusals : Reason(status, pending[t]) /\ Answer(t, status, 0)
    /\ UNCHANGED accounts

\* A getter answers what the account holds at that moment.
Look(t) ==
    LET c == pending[t]
    IN  /\ CASE c.op = "getBalance" ->
                  Answer(t, "value", IF ~Exists(c.id) THEN 0
                                     ELSE IF State(c.id) = "CLOSED" THEN -1
                                     ELSE Balance(c.id))
             [] c.op = "getAccountState" ->
                  Answer(t, IF Exists(c.id) THEN State(c.id) ELSE "nullopt", 0)
             [] c.op = "getAccountCustomerId" ->
                  IF Exists(c.id) THEN Answer(t, "value", accounts[c.id].customer_id)
                                  ELSE Answer(t, "nullopt", 0)
             [] OTHER -> c.op \notin Changes \cup {"openAccount"} /\ Answer(t, "records", 0)
        /\ UNCHANGED accounts

\* A new account has an id nobody had, is pending and empty; or there is none,
\* because the customer is unknown (a customer is not part of this abstraction).
Open(t) ==
    /\ pending[t].op = "openAccount"
    /\ \/ \E a \in AccountIds \ DOMAIN accounts :
            /\ accounts' = [b \in DOMAIN accounts \cup {a} |->
                 IF b = a THEN New(pending[t].id) ELSE accounts[b]]
            /\ Answer(t, "value", a)
       \/ UNCHANGED accounts /\ Answer(t, "value", 0)

TakeEffect(t) ==
    /\ pending[t] # NoCall
    /\ answered[t] = None
    /\ Grant(t) \/ Refuse(t) \/ Look(t) \/ Open(t)
    /\ UNCHANGED pending

Finish(t) ==
    /\ pending[t] # NoCall
    /\ answered[t] # None
    /\ pending' = [pending EXCEPT ![t] = NoCall]
    /\ UNCHANGED <<accounts, answered>>

Next == \E t \in Threads : Begin(t) \/ TakeEffect(t) \/ Finish(t)

Spec == Init /\ [][Next]_vars
=============================================================================
