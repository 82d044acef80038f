SPECIFICATION Spec
CONSTANTS
    Count = 2
    NoFile = 3
    Callbacks = {f, g}
    Connections = 3
SYMMETRY Perm
INVARIANTS TableIsSound
PROPERTIES CallsAreCurrent
CHECK_DEADLOCK FALSE
