CONSTANTS
    t1 = t1
    t2 = t2
    t3 = t3
    Threads = {t1, t2}
    NoThread = NoThread
    NoCall = NoCall
    AccountIds = {1, 2, 3}
    MinDeposit = 2
    IntMax = 100
    MaxTime = 1
    ClockSteps = {0, 1}
    recent_capacity = 2
    Owner <- MCOwner
    Script <- DocumentedScript
SPECIFICATION Spec
INVARIANTS BooksBalance
