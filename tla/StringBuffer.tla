---------------------------- MODULE StringBuffer ----------------------------
(***************************************************************************)
(* The growable buffer of aostr.c, in any sequence of calls: how many bytes *)
(* it holds before the terminator, the capacity it keeps account of, and    *)
(* the room that is really allocated.  The three part company after a copy, *)
(* and after a growth that failed or was cut short, whose result nobody     *)
(* looks at.  What the bytes are makes no difference here: Strings has the  *)
(* functions about that.  Lengths are those of texts that are in memory, so *)
(* that no sum of two exceeds a size_t.                                     *)
(***************************************************************************)
EXTENDS Integers

CONSTANTS
    Growth,         \* the least a buffer grows by: 256
    PutRoom,        \* what aoStrPutChar asks room for: 100
    Slack,          \* what aoStrAlloc adds to the capacity asked for: 10
    FormatRoom,     \* what aoStrCatPrintf allocates for its text: 512, or more
    UIntSize,       \* 2^32: aoStrExtendBuffer takes an unsigned int
    Lengths,        \* the lengths and capacities callers ask for
    AllocMayFail    \* realloc, or the second malloc of a call, may return NULL

ASSUME BufferAssumption ==
    /\ PutRoom \in Nat \ {0} /\ Growth \in Nat /\ PutRoom <= Growth
    /\ Slack \in Nat \ {0} /\ FormatRoom \in Nat /\ UIntSize \in Nat /\ Growth < UIntSize
    /\ Lengths \subseteq Nat /\ AllocMayFail \in BOOLEAN

VARIABLES
    len, capacity,  \* the fields of struct aoStr
    room,           \* the bytes allocated for buf->data
    copied,         \* history: the buffer is the result of aoStrDup or aoStrDupRaw
    short           \* history: a growth was refused, or was less than was asked for

bufferVars == <<len, capacity, room, copied, short>>

Longer(m, n) == IF m > n THEN m ELSE n

BufferInit ==
    /\ \E size \in Lengths : capacity = size + Slack /\ room = size + Slack
    /\ len = 0 /\ copied = FALSE /\ short = FALSE

\* Another buffer takes the place of the one that was looked at.
aoStrAlloc(size) ==
    /\ len' = 0 /\ capacity' = size + Slack /\ room' = size + Slack
    /\ copied' = FALSE /\ short' = FALSE

\* The capacity of the copy is set to what was asked for, so that it no longer
\* counts the slack, and may leave no byte for the terminator.
aoStrDupRaw(n, size) ==
    /\ n <= size
    /\ len' = n /\ capacity' = size /\ room' = size + Slack
    /\ copied' = TRUE /\ short' = FALSE

aoStrDup == aoStrDupRaw(len, len)

\* The caller has a size_t, of which the parameter keeps what an unsigned int holds.
aoStrExtendBuffer(additional) ==
    LET more == additional % UIntSize IN
    \/ /\ more > 0
       /\ capacity' = capacity + more /\ room' = capacity + more
       /\ short' = (short \/ more # additional)
    \/ /\ more > 0 /\ AllocMayFail /\ short' = TRUE
       /\ UNCHANGED <<capacity, room>>
    \/ /\ more = 0 /\ short' = (short \/ additional # 0)
       /\ UNCHANGED <<capacity, room>>

\* Mutant: the byte of the terminator is not counted.
aoStrExtendBufferIfNeededMutant(additional) ==
    IF len + additional > capacity
    THEN aoStrExtendBuffer(Longer(additional, Growth))
    ELSE UNCHANGED <<capacity, room, short>>

aoStrExtendBufferIfNeeded(additional) ==
    IF len + 1 + additional >= capacity
    THEN aoStrExtendBuffer(Longer(additional, Growth))
    ELSE UNCHANGED <<capacity, room, short>>

aoStrPutChar ==
    /\ aoStrExtendBufferIfNeeded(PutRoom)
    /\ len' = len + 1 /\ UNCHANGED copied

aoStrUnPutChar ==
    /\ len > 0 /\ len' = len - 1
    /\ UNCHANGED <<capacity, room, copied, short>>

aoStrCatLen(n) ==
    /\ aoStrExtendBufferIfNeeded(n)
    /\ len' = len + n /\ UNCHANGED copied

\* The text is written over what the buffer held, from its start.
aoStrWrite(n) ==
    /\ aoStrExtendBufferIfNeeded(n)
    /\ len' = n /\ UNCHANGED copied

\* A text of n bytes that fills the first buffer is formatted again from an argument
\* list that has been used up: what comes of it is anybody's guess.
aoStrCatPrintf(n) ==
    \/ aoStrCatLen(n)
    \/ /\ n + 2 > FormatRoom
       /\ \/ \E m \in Lengths : aoStrCatLen(m)
          \/ AllocMayFail /\ UNCHANGED bufferVars

\* Callers cut a buffer with these, they do not lengthen it.
aoStrSetLen(n) ==
    /\ n <= len /\ len' = n
    /\ UNCHANGED <<capacity, room, copied, short>>

aoStrSlice(from, size) ==
    /\ from + size <= len /\ len' = size
    /\ UNCHANGED <<capacity, room, copied, short>>

-----------------------------------------------------------------------------
BufferNext ==
    \/ aoStrDup \/ aoStrPutChar \/ aoStrUnPutChar
    \/ \E n \in Lengths :
          \/ aoStrAlloc(n)
          \/ aoStrExtendBuffer(n) /\ UNCHANGED <<len, copied>>
          \/ aoStrCatLen(n) \/ aoStrWrite(n) \/ aoStrCatPrintf(n) \/ aoStrSetLen(n)
          \/ \E size \in Lengths : aoStrDupRaw(n, size) \/ aoStrSlice(n, size)

BufferSpec == BufferInit /\ [][BufferNext]_bufferVars

-----------------------------------------------------------------------------
\* Unless a growth was refused, or cut to what an unsigned int holds, every byte that is
\* written lies inside the allocation; and so does the terminator, except that of a
\* copy, which may lie just behind it.
Fits == ~short => len <= room /\ (len = room => copied)

\* Unless a growth was refused or cut, a buffer never believes in more room than it has,
\* and leaves a byte for the terminator until it is copied.
BufferInv ==
    /\ len \in Nat /\ capacity \in Nat /\ room \in Nat
    /\ copied \in BOOLEAN /\ short \in BOOLEAN
    /\ ~short =>
          /\ capacity <= room /\ len <= capacity
          /\ ~copied => len < capacity

=============================================================================
