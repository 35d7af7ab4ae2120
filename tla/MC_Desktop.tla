----------------------------- MODULE MC_Desktop -----------------------------
(***************************************************************************)
(* Small instances of the desktop: what the user may do, click by click.   *)
(***************************************************************************)
EXTENDS DesktopProperties

On(button, id) == [on |-> button, id |-> id]

\* An administrator registers customers and opens an account; customers log in,
\* some before the answer to an earlier click has arrived; the administrator
\* returns, before a customer's rows have arrived or after.
OfficeScript ==
    << {On("admin", 0)},
       {On("register", 7)},
       {On("register", 8), On("register", 7), On("search", 1)},
       {On("open", 1), On("invalid", 0)},
       {On("logout", 0), On("manage", 1), On("search", 0), On("refresh", 0)},
       {On("login", 7), On("logout", 0), On("invalid", 0)},
       {On("login", 8), On("transact", 0), On("admin", 0), On("logout", 0)},
       {On("transact", 0), On("refresh", 0), On("logout", 0), On("admin", 0)} >>

\* A login that is still under way when the user enters the admin panel again.
ImpatientScript ==
    << {On("admin", 0)}, {On("register", 7)}, {On("logout", 0)},
       {On("login", 7)}, {On("admin", 0)} >>
=============================================================================
