\* Every write of the queue file succeeds; no symmetry, as liveness needs none.
CONSTANTS
    n1 = n1
    n2 = n2
    tA = tA
    tB = tB
    Nodes = {n1, n2}
    Types = {tA, tB}
    TypeOf <- MCTypeOf
    Limits = {0, 1}
    MaxEvents = 3
    MaxHalts = 2
    SavesCanFail = FALSE
SPECIFICATION FairSpec
INVARIANT DeliveredInOrder
PROPERTY ImplementsContract
PROPERTY EventuallyGone
