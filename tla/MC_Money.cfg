CONSTANTS
    t1 = t1
    t2 = t2
    t3 = t3
    Threads = {t1, t2}
    NoThread = NoThread
    NoCall = NoCall
    AccountIds = {1, 2, 3}
    MinDeposit = 2
    IntMax = 7
    MaxTime = 0
    ClockSteps = {0, 1}
    recent_capacity = 2
    Owner <- MCOwner
    Script <- MoneyScript
SPECIFICATION Spec
INVARIANTS DecisionStillRight MissingStaysMissing NoOverdraft CreditFits ClosedIsEmpty TotalsAddUp
PROPERTIES TakesEffectAtomically MoneyOnlyMoves Lifecycle
