CONSTANTS
    Script <- OfficeScript
SPECIFICATION FairSpec
INVARIANTS TypeOK SelectableIsOwned AdminSeesEverything BalancesAreCurrent
PROPERTIES LoginAnswered RowsNeverOlder
\* The user may stop when the script is over.
CHECK_DEADLOCK FALSE
