CONSTANTS
    t1 = t1
    t2 = t2
    t3 = t3
    Threads = {t1, t2, t3}
    NoThread = NoThread
    Script <- RegistryScript
SPECIFICATION Spec
INVARIANTS TypeOK NationalIdsUnique AccountsFiled SearchIsExact
PROPERTIES IteratorsStayValid RegistryIsAtomic
