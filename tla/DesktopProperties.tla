------------------------- MODULE DesktopProperties -------------------------
(***************************************************************************)
(* What the window must keep true however slow the worker is and whatever  *)
(* the user does in the meantime.                                          *)
(***************************************************************************)
EXTENDS Desktop

Boxes == [over : {"Admin", "Customer", "Validation"}, success : BOOLEAN]

\* Every variable holds a value of its type, and only a customer's session has
\* a customer.
TypeOK ==
    /\ requests \in Seq(Requests)
    /\ answers \in Seq(Answers)
    /\ session \in Sessions
    /\ session.state # "Customer" => session = [LoggedOut EXCEPT !.state = session.state]
    /\ loginStatus \in {"enter", "logging in", "not found", "invalid"}
    /\ searchStatus \in {"enter", "searching", "results"}
    /\ combo \in Seq(Nat)
    /\ shown \in [{"Admin", "Customer"} -> [Kinds -> Rows]]
    /\ boxes \in Seq(Boxes)
    /\ registered \in Seq(Nat)
    /\ filed \in [DOMAIN registered -> Seq(DOMAIN owners)]
    /\ owners \in Seq(DOMAIN registered)
    /\ version \in [Kinds -> Nat]
    /\ clicks \in 0 .. Len(Script)

\* Nothing is under way: no request, no answer, no box.
Quiet == requests = << >> /\ answers = << >> /\ boxes = << >>

\* The accounts a customer can choose to pay from are its own, whoever used the
\* window before and however many logins were under way (populateAccountCombo).
SelectableIsOwned ==
    session.state = "Customer" =>
      \A a \in Range(combo) : a \in DOMAIN owners /\ owners[a] = session.customerId

\* When nothing is under way the administrator sees all the data as it is: rows
\* that were requested for a customer who has logged out arrive by the same
\* signals and are taken, and never stay.
AdminSeesEverything ==
    Quiet /\ session.state = "Admin" =>
      \A k \in Kinds : shown["Admin"][k] = [whose |-> Everybody, version |-> version[k]]

\* When nothing is under way the balances on the visible dashboard are those of
\* the bank: every operation that succeeded was followed by a refresh, whatever
\* was closed, logged out or dismissed meanwhile.
BalancesAreCurrent ==
    Quiet /\ session.state # "Login" =>
      shown[session.state]["accounts"].version = version["accounts"]

\* No dashboard goes back to rows older than those it has shown, although they
\* say nothing of when they were asked for and may have been requested for
\* another session: a queued answer never overtakes another.
RowsNeverOlder ==
    [][\A d \in DOMAIN shown, k \in Kinds :
         shown[d][k].version <= shown'[d][k].version]_shown

\* Every login is answered, though others may be under way and a message box may
\* be open that nobody dismisses: a customer's by a session of that customer, a
\* stranger's by the label, unless it has been registered in the meantime.
Registered(n) == n \in Range(registered)
LookupUnderWay(n) ==
    \/ Request("lookup", n) \in Range(requests)
    \/ \E r \in Range(answers) : r.to = "lookup" /\ r.ok /\ registered[r.id] = n
InSession(n) == session.state = "Customer" /\ registered[session.customerId] = n
NationalIds == {c.id : c \in {d \in UNION Range(Script) : d.on = "login"}}

LoginAnswered ==
    \A n \in NationalIds :
      /\ Registered(n) /\ LookupUnderWay(n) ~> InSession(n)
      /\ ~Registered(n) /\ LookupUnderWay(n) ~>
           (loginStatus = "not found" \/ Registered(n))

\* When nothing is under way, "My Accounts" are the customer's (the title of the
\* dashboard's page, CustomerDashboard.cpp).
MyAccounts ==
    Quiet /\ session.state = "Customer" =>
      shown["Customer"]["accounts"].whose = session.customerId
=============================================================================
