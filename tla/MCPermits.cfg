CONSTANTS
    t1 = t1
    t2 = t2
    t3 = t3
    Takers <- ThreeTakers
    Counts <- ZeroToThree
    MaxCount = 4
    Initial = 2
SPECIFICATION Spec
INVARIANTS SleepersLackPermits
PROPERTY SemaphoreSpec
