SPECIFICATION Spec
CONSTANTS
    Clients = {c1, c2}
    Words = {"cat", "dog", "emu", "x"}
    Unparsable = {"x"}
    Defined = {"cat", "dog", "emu"}
    Quoted = {}
    Hash <- NoCollision
    MinCapacity = 2
    Backlog = 1
    Count = 3
    NoFile = 3
    Faults = {"accept", "kill", "rst", "net", "write", "epoll"}
    Listener = Listener
    Closed = Closed
    Kept = Kept
    NoWord = NoWord
    Stack = Stack
SYMMETRY Perm
INVARIANTS IInv AnswerIsForTheWord RowsAreCached NoDuplicateRows AnsweredIsDurable
PROPERTIES FetchOnlyIfUnknown StoredIsNotDenied AnswersAreStable ImplementsDictService
