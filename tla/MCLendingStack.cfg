CONSTANTS
    b1 = b1
    b2 = b2
    b3 = b3
    w1 = w1
    w2 = w2
    e1 = e1
    e2 = e2
    x = x
    Borrowers <- ThreeBorrowers
    Returners <- TwoReturners
    Elements <- TwoElements
    Foreign <- OneForeign
SPECIFICATION Spec
INVARIANTS NoLostWakeup
PROPERTY PoolSpec
