CONSTANTS
    Script <- ImpatientScript
SPECIFICATION Spec
INVARIANTS MyAccounts
\* The user may stop when the script is over.
CHECK_DEADLOCK FALSE
