SPECIFICATION CallsSpec
CONSTANTS
    Arguments <- AllCalls
    Base = 2
    WordRoom = 3
    Highest = 50
    Decrement = 6
    Width = 8
    Shifts = 3
    Allocated = 16
INVARIANTS SearchFindsFirst CaseSearchIsSound SplitJoins EscapeReadsBack MimeReadsBack RequestIsTheWord NothingIsLeftOpen TableWithinLimit RoundsUp
CHECK_DEADLOCK FALSE
