SPECIFICATION IterSpec
CONSTANTS
    Keys = {"k1", "k2", "k4"}
    Values = {"v", "w"}
    Hash <- SomeHashes
    MinCapacity = 2
    FixedCapacities = {1, 2}
    AllocMayFail = TRUE
    None = None
INVARIANTS EntriesInPlace SizeIsExact ServedAsSequence VisitsOnce Covers
PROPERTIES ImplementsFiniteMap
VIEW AllButRet
