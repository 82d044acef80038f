SPECIFICATION Spec
CONSTANTS
    Clients = {c1, c2}
    Words = {"cat", "dog"}
    Unparsable = {}
    Defined = {"cat", "dog"}
    Quoted = {"dog"}
    Hash <- NoCollision
    MinCapacity = 2
    Backlog = 1
    Count = 3
    NoFile = 3
    Faults = {}
    Listener = Listener
    Closed = Closed
    Kept = Kept
    NoWord = NoWord
    Stack = Stack
SYMMETRY Perm
INVARIANTS AnsweredIsDurable
