SPECIFICATION ListSpec
CONSTANTS
    Threads = {t1, t2}
    Values = {1, 2, 3}
    Nodes = {1, 2, 3}
    Orders <- SomeOrders
    Extras <- SomeLists
    Free = Free
    Stuck = Stuck
SYMMETRY Perm
INVARIANTS RingIsSound OnlySortStrands
PROPERTIES ImplementsDeque
CHECK_DEADLOCK FALSE
