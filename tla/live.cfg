SPECIFICATION FairSpec
CONSTANTS
    Clients = {c1, c2, c3}
    Words = {"cat", "x"}
    Unparsable = {"x"}
    Defined = {"cat"}
    Quoted = {}
    Hash <- NoCollision
    MinCapacity = 2
    Backlog = 2
    Count = 3
    NoFile = 3
    Faults = {"accept", "net", "write", "kill"}
    Listener = Listener
    Closed = Closed
    Kept = Kept
    NoWord = NoWord
    Stack = Stack
PROPERTIES EveryRequestEnds EveryWordIsLearned
