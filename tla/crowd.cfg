SPECIFICATION Spec
CONSTANTS
    Clients = {c1, c2, c3, c4}
    Words = {"cat"}
    Unparsable = {}
    Defined = {"cat"}
    Quoted = {}
    Hash <- NoCollision
    MinCapacity = 2
    Backlog = 2
    Count = 4
    NoFile = 5
    Faults = {"rst"}
    Listener = Listener
    Closed = Closed
    Kept = Kept
    NoWord = NoWord
    Stack = Stack
SYMMETRY Perm
INVARIANTS TableMatchesKernel MaxIsHighest CountIsExact NoStaleEvent LeakOnlyBeyondTable WaitersAreHeard
PROPERTIES BatchesEnd
CHECK_DEADLOCK FALSE
