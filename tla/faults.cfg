SPECIFICATION Spec
CONSTANTS
    Clients = {c1, c2}
    Words = {"cat", "dog", "gnu", "x"}
    Unparsable = {"x"}
    Defined = {"cat", "dog"}
    Quoted = {"dog"}
    Hash <- Collision
    MinCapacity = 2
    Backlog = 1
    Count = 3
    NoFile = 3
    Faults = {"accept", "epoll", "db", "net", "write", "kill", "rst"}
    Listener = Listener
    Closed = Closed
    Kept = Kept
    NoWord = NoWord
    Stack = Stack
SYMMETRY Perm
INVARIANTS AnswerHashMatches
CONSTRAINT RowsBound
