------------------------------ MODULE Desktop ------------------------------
(***************************************************************************)
(* The window and its worker.  The window's thread sends requests to the   *)
(* BackendWorker, whose thread serves them one at a time and sends answers *)
(* back: queued signals, first in first out both ways.  Every answer goes  *)
(* to both dashboards; the one that is not visible ignores it.             *)
(*                                                                         *)
(* A message box runs an event loop of its own inside the handler that     *)
(* shows it: answers go on being delivered, the user can only dismiss it,  *)
(* and the rest of the handler runs when the boxes above it are gone.      *)
(*                                                                         *)
(* The bank is seen from the worker's single thread, so each slot is one   *)
(* step.  Customers and accounts are numbered as they are made; what the   *)
(* rows say is a version that grows when the bank's data changes.          *)
(***************************************************************************)
EXTENDS Integers, Sequences, Functions

CONSTANT Script     \* Script[n]: what the user may do as the n-th click (bound)

Everybody == -1     \* whose rows the administrator asks for

Kinds == {"accounts", "customers", "transactions"}
Operations == {"register", "open", "manage", "transact"}

Clicks == [on : {"login", "admin", "logout", "refresh", "search", "invalid"}
                \cup Operations, id : Nat]
Requests == [op : {"lookup", "search"} \cup Operations, id : Nat]
              \cup [op : Kinds, id : Nat \cup {Everybody}]

\* ok: found, or done; id: the customer found, or whose rows; list: its accounts.
Answers == [to : {"lookup", "search", "operation"} \cup Kinds, ok : BOOLEAN,
            id : Nat \cup {Everybody}, list : Seq(Nat), version : Nat]

Sessions == [state : {"Login", "Admin", "Customer"}, customerId : Nat,
             accountIds : Seq(Nat)]
Rows == [whose : Nat \cup {Everybody}, version : Nat]

ASSUME UserScript == Script \in Seq(SUBSET Clicks)

VARIABLES
    requests, answers,                  \* posted to the worker, to the window
    session,                            \* SessionManager
    loginStatus, searchStatus, combo,   \* labels and the box of own accounts
    shown,                              \* the rows of each dashboard's models
    boxes,                              \* open message boxes, the top one first
    registered, filed, owners, version, \* the bank
    clicks

bank == <<registered, filed, owners, version>>
widgets == <<loginStatus, searchStatus, combo, shown, boxes>>
vars == <<requests, answers, session, widgets, bank, clicks>>

LoggedOut == [state |-> "Login", customerId |-> 0, accountIds |-> << >>]

Init ==
    /\ requests = << >>
    /\ answers = << >>
    /\ session = LoggedOut
    /\ loginStatus = "enter"
    /\ searchStatus = "enter"
    /\ combo = << >>
    /\ shown = [d \in {"Admin", "Customer"} |->
                 [k \in Kinds |-> [whose |-> 0, version |-> 0]]]
    /\ boxes = << >>
    /\ registered = << >>       \* the national id of each customer
    /\ filed = << >>            \* the account ids each customer lists
    /\ owners = << >>           \* the customer of each account
    /\ version = [k \in Kinds |-> 1]
    /\ clicks = 0

-----------------------------------------------------------------------------
(***************************************************************************)
(* Requests.  The signals of a dashboard, in the order of their            *)
(* connections.                                                            *)
(***************************************************************************)
Request(op, id) == [op |-> op, id |-> id]
Ask(list) == requests' = requests \o list

AllData == <<Request("accounts", Everybody), Request("customers", Everybody),
             Request("transactions", Everybody)>>
CustomerData(c) == <<Request("accounts", c), Request("transactions", c)>>

\* Bug variant: the accounts are added without clear().
PopulateAccountCombo_Adds(accountIds) == combo' = combo \o accountIds

PopulateAccountCombo(accountIds) == combo' = accountIds

\* onStateChanged brings a dashboard to the front and refreshes it.
ShowAdmin ==
    /\ session' = [LoggedOut EXCEPT !.state = "Admin"]
    /\ Ask(AllData)
    /\ UNCHANGED combo

ShowCustomer(c, accountIds) ==
    /\ session' = [state |-> "Customer", customerId |-> c, accountIds |-> accountIds]
    /\ PopulateAccountCombo(accountIds)
    /\ Ask(CustomerData(c))

-----------------------------------------------------------------------------
(***************************************************************************)
(* The user's clicks.  Under a message box nothing can be clicked but the  *)
(* box.                                                                    *)
(***************************************************************************)
Choices == IF clicks < Len(Script) THEN Script[clicks + 1] ELSE {}

Click(c, buttons, screens) ==
    /\ c.on \in buttons
    /\ session.state \in screens
    /\ boxes = << >>
    /\ clicks' = clicks + 1
    /\ UNCHANGED <<answers, shown, bank>>

EnterAdmin(c) ==
    /\ Click(c, {"admin"}, {"Login"})
    /\ ShowAdmin
    /\ UNCHANGED <<loginStatus, searchStatus, boxes>>

LoginAsCustomer(c) ==
    /\ Click(c, {"login"}, {"Login"})
    /\ loginStatus' = "logging in"
    /\ Ask(<<Request("lookup", c.id)>>)
    /\ UNCHANGED <<session, searchStatus, combo, boxes>>

\* Bug variant: the session keeps its customer.
Logout_KeepsCustomer(c) ==
    /\ Click(c, {"logout"}, {"Admin", "Customer"})
    /\ session' = [session EXCEPT !.state = "Login"]
    /\ UNCHANGED <<requests, loginStatus, searchStatus, combo, boxes>>

Logout(c) ==
    /\ Click(c, {"logout"}, {"Admin", "Customer"})
    /\ session' = LoggedOut
    /\ UNCHANGED <<requests, loginStatus, searchStatus, combo, boxes>>

RefreshData(c) ==
    /\ Click(c, {"refresh"}, {"Admin", "Customer"})
    /\ IF session.state = "Admin"
       THEN Ask(AllData) /\ UNCHANGED combo
       ELSE /\ PopulateAccountCombo(session.accountIds)
            /\ Ask(CustomerData(session.customerId))
    /\ UNCHANGED <<session, loginStatus, searchStatus, boxes>>

\* Registering a national id, opening an account for a customer, freezing,
\* unfreezing or closing ("manage") an account.
Operate(c) ==
    /\ Click(c, {"register", "open", "manage"}, {"Admin"})
    /\ Ask(<<Request(c.on, c.id)>>)
    /\ UNCHANGED <<session, loginStatus, searchStatus, combo, boxes>>

\* Deposit, withdraw or transfer: from an account of the box, or 0 if it is empty.
ExecuteTransaction(c) ==
    /\ Click(c, {"transact"}, {"Customer"})
    /\ \E a \in IF combo = << >> THEN {0} ELSE Range(combo) :
         Ask(<<Request("transact", a)>>)
    /\ UNCHANGED <<session, loginStatus, searchStatus, combo, boxes>>

\* A prefix, or 0 for an empty one.
SearchCustomer(c) ==
    /\ Click(c, {"search"}, {"Admin"})
    /\ IF c.id = 0 THEN searchStatus' = "enter" /\ UNCHANGED requests
       ELSE searchStatus' = "searching" /\ Ask(<<Request("search", c.id)>>)
    /\ UNCHANGED <<session, loginStatus, combo, boxes>>

\* Input that is not a number: a label on the login screen, a box elsewhere.
RejectInput(c) ==
    /\ Click(c, {"invalid"}, {"Login", "Admin", "Customer"})
    /\ IF session.state = "Login"
       THEN loginStatus' = "invalid" /\ UNCHANGED boxes
       ELSE /\ boxes' = <<[over |-> "Validation", success |-> FALSE]>>
            /\ UNCHANGED loginStatus
    /\ UNCHANGED <<requests, session, searchStatus, combo>>

UserClicks ==
    \E c \in Choices :
      \/ EnterAdmin(c) \/ LoginAsCustomer(c) \/ Logout(c) \/ RefreshData(c)
      \/ Operate(c) \/ ExecuteTransaction(c) \/ SearchCustomer(c) \/ RejectInput(c)

\* Bug variant: a successful operation is not followed by a refresh.
AfterBox_Nothing(box) == << >>

\* What a dashboard asks for when the box of an operation's result is gone.
AfterBox(box) ==
    IF ~box.success THEN << >>
    ELSE IF box.over = "Admin" THEN AllData
    ELSE CustomerData(session.customerId)

Dismiss ==
    /\ boxes # << >>
    /\ Ask(AfterBox(Head(boxes)))
    /\ boxes' = Tail(boxes)
    /\ UNCHANGED <<answers, session, loginStatus, searchStatus, combo, shown,
                   bank, clicks>>

-----------------------------------------------------------------------------
(***************************************************************************)
(* The worker: a request served, its answer posted.                        *)
(***************************************************************************)
\* Bug variant: an answer overtakes those already posted, as an event of a higher
\* priority does.
Post_Ahead(queue, answer) == <<answer>> \o queue

Post(queue, answer) == Append(queue, answer)

Answer(to, ok, id, list, v) ==
    answers' = Post(answers,
      [to |-> to, ok |-> ok, id |-> id, list |-> list, version |-> v])
Report(success) == Answer("operation", success, 0, << >>, 0)

Serving(ops) ==
    /\ requests # << >>
    /\ Head(requests).op \in ops
    /\ requests' = Tail(requests)
    /\ UNCHANGED <<session, widgets, clicks>>

\* The version of some kinds of data grows.
Changed(kinds) ==
    version' = [k \in Kinds |-> version[k] + (IF k \in kinds THEN 1 ELSE 0)]

LookupCustomer ==
    LET n == Head(requests).id
        found == {c \in DOMAIN registered : registered[c] = n}
    IN  /\ Serving({"lookup"})
        /\ \/ found = {} /\ Answer("lookup", FALSE, 0, << >>, 0)
           \/ \E c \in found : Answer("lookup", TRUE, c, filed[c], 0)
        /\ UNCHANGED bank

\* Success is reported for a national id that is taken, too.
RegisterCustomer ==
    LET n == Head(requests).id
    IN  /\ Serving({"register"})
        /\ IF n \in Range(registered) THEN UNCHANGED <<registered, filed, version>>
           ELSE /\ registered' = Append(registered, n)
                /\ filed' = Append(filed, << >>)
                /\ Changed({"customers"})
        /\ Report(TRUE)
        /\ UNCHANGED owners

OpenAccount ==
    LET c == Head(requests).id
        known == c \in DOMAIN registered
    IN  /\ Serving({"open"})
        /\ IF known
           THEN /\ owners' = Append(owners, c)
                /\ filed' = [filed EXCEPT ![c] = Append(@, Len(owners'))]
                /\ Changed({"accounts", "customers"})
           ELSE UNCHANGED <<filed, owners, version>>
        /\ Report(known)
        /\ UNCHANGED registered

\* A transaction, done or refused; most refusals are recorded.
Transact ==
    /\ Serving({"transact"})
    /\ \/ /\ Head(requests).id \in DOMAIN owners
          /\ Changed({"accounts", "transactions"}) /\ Report(TRUE)
       \/ Changed({"transactions"}) /\ Report(FALSE)
       \/ Changed({}) /\ Report(FALSE)
    /\ UNCHANGED <<registered, filed, owners>>

Manage ==
    /\ Serving({"manage"})
    /\ \/ /\ Head(requests).id \in DOMAIN owners
          /\ Changed({"accounts"}) /\ Report(TRUE)
       \/ Changed({}) /\ Report(FALSE)
    /\ UNCHANGED <<registered, filed, owners>>

Search ==
    /\ Serving({"search"})
    /\ Answer("search", TRUE, 0, << >>, 0)
    /\ UNCHANGED bank

\* The rows of everybody or of one customer.
SendRows ==
    /\ Serving(Kinds)
    /\ LET r == Head(requests) IN Answer(r.op, TRUE, r.id, << >>, version[r.op])
    /\ UNCHANGED bank

Worker ==
    \/ LookupCustomer \/ RegisterCustomer \/ OpenAccount \/ Transact \/ Manage
    \/ Search \/ SendRows

-----------------------------------------------------------------------------
(***************************************************************************)
(* The window: an answer delivered, under message boxes or not.            *)
(***************************************************************************)
\* Bug variant: a message box keeps answers from being delivered.
Runs_UnlessBox == boxes = << >>

\* The event loop, the window's own or that of the box on top, always runs.
Runs == TRUE

Receiving(kinds) ==
    /\ Runs
    /\ answers # << >>
    /\ Head(answers).to \in kinds
    /\ answers' = Tail(answers)
    /\ UNCHANGED <<searchStatus, bank, clicks>>

LookupResult ==
    LET r == Head(answers)
    IN  /\ Receiving({"lookup"})
        /\ IF r.ok THEN ShowCustomer(r.id, r.list) /\ UNCHANGED loginStatus
           ELSE loginStatus' = "not found" /\ UNCHANGED <<requests, session, combo>>
        /\ UNCHANGED <<shown, boxes>>

OperationResult ==
    /\ Receiving({"operation"})
    /\ boxes' = IF session.state = "Login" THEN boxes
                ELSE <<[over |-> session.state, success |-> Head(answers).ok]>> \o boxes
    /\ UNCHANGED <<requests, session, loginStatus, combo, shown>>

\* Bug variant: rows no newer than those shown are not drawn again.
Takes_IfNewer(r) ==
    /\ session.state # "Login"
    /\ r.to = "customers" => session.state = "Admin"
    /\ r.version > shown[session.state][r.to].version

\* The visible dashboard takes the rows; the customer's has no customers.
Takes(r) ==
    /\ session.state # "Login"
    /\ r.to = "customers" => session.state = "Admin"

RowsReady ==
    LET r == Head(answers)
    IN  /\ Receiving(Kinds)
        /\ shown' = IF ~Takes(r) THEN shown
                    ELSE [shown EXCEPT ![session.state][r.to] =
                            [whose |-> r.id, version |-> r.version]]
        /\ UNCHANGED <<requests, session, loginStatus, combo, boxes>>

SearchResults ==
    /\ Runs
    /\ answers # << >>
    /\ Head(answers).to = "search"
    /\ answers' = Tail(answers)
    /\ searchStatus' = IF session.state = "Admin" THEN "results" ELSE searchStatus
    /\ UNCHANGED <<requests, session, loginStatus, combo, shown, boxes, bank, clicks>>

Window == LookupResult \/ OperationResult \/ RowsReady \/ SearchResults

Next == UserClicks \/ Dismiss \/ Worker \/ Window

Spec == Init /\ [][Next]_vars

\* Both threads run their event loops; the user may stop at any time.
FairSpec == Spec /\ WF_vars(Worker) /\ WF_vars(Window)
=============================================================================
