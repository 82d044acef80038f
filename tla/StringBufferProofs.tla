------------------------- MODULE StringBufferProofs -------------------------
(***************************************************************************)
(* The bytes of a buffer lie inside its allocation, for every way of        *)
(* growing and every sequence of calls, until a growth falls short.         *)
(***************************************************************************)
EXTENDS StringBuffer, TLAPS

LEMMA SizesOf ==
    /\ PutRoom \in Nat /\ PutRoom >= 1 /\ Growth \in Nat /\ Growth >= PutRoom
    /\ Slack \in Nat /\ Slack >= 1 /\ UIntSize \in Nat /\ UIntSize > Growth
BY BufferAssumption

LEMMA LengthIsNat == ASSUME NEW n \in Lengths PROVE n \in Nat
BY BufferAssumption

\* A growth takes at least what was asked for, and no less than Growth.
LEMMA LongerIs ==
    ASSUME NEW m \in Nat, NEW n \in Nat
    PROVE  Longer(m, n) \in Nat /\ Longer(m, n) >= m /\ Longer(m, n) >= n
BY DEF Longer

\* A growth that does not fall short is the one that was asked for.
LEMMA ExtendGives ==
    ASSUME BufferInv, NEW n \in Nat, aoStrExtendBuffer(n)
    PROVE  /\ capacity' \in Nat /\ room' \in Nat /\ short' \in BOOLEAN /\ (short => short')
           /\ ~short' => \/ capacity' = capacity + n /\ room' = capacity + n
                         \/ n = 0 /\ capacity' = capacity /\ room' = room
<1>1. PICK more \in Nat : more = n % UIntSize
  BY SizesOf
<1>2. \/ capacity' = capacity + more /\ room' = capacity + more /\ short' = (short \/ more # n)
      \/ capacity' = capacity /\ room' = room /\ short' = TRUE
      \/ more = 0 /\ capacity' = capacity /\ room' = room /\ short' = (short \/ n # 0)
  BY <1>1, Zenon DEF aoStrExtendBuffer
<1>3. capacity \in Nat /\ room \in Nat /\ short \in BOOLEAN
  BY DEF BufferInv
<1>4. CASE capacity' = capacity + more /\ room' = capacity + more /\ short' = (short \/ more # n)
  <2>1. short' \in BOOLEAN /\ (short => short') /\ (~short' => more = n)
    BY <1>3, <1>4, Zenon
  <2> QED BY <1>3, <1>4, <2>1
<1>5. CASE capacity' = capacity /\ room' = room /\ short' = TRUE
  BY <1>3, <1>5
<1>6. CASE capacity' = capacity /\ room' = room /\ short' = (short \/ n # 0)
  <2>1. short' \in BOOLEAN /\ (short => short') /\ (~short' => n = 0)
    BY <1>3, <1>6, Zenon
  <2> QED BY <1>3, <1>6, <2>1
<1> QED BY <1>2, <1>4, <1>5, <1>6

\* After aoStrExtendBufferIfNeeded(n) there is room for n bytes more, unless the
\* growth fell short; and for a terminator after them, unless the buffer is a copy.
LEMMA ExtendMakesRoom ==
    ASSUME BufferInv, NEW n \in Nat, aoStrExtendBufferIfNeeded(n)
    PROVE  /\ capacity' \in Nat /\ room' \in Nat /\ short' \in BOOLEAN
           /\ short => short'
           /\ ~short' =>
                 /\ capacity' <= room' /\ len + n <= capacity' /\ len <= capacity'
                 /\ n <= capacity'
                 /\ ~copied => len + n < capacity'
                 /\ ~copied => n < capacity'
<1> USE SizesOf
<1>1. CASE len + 1 + n >= capacity
  <2> DEFINE more == Longer(n, Growth)
  <2>1. more \in Nat /\ more >= n /\ more >= Growth
    BY LongerIs, SizesOf
  <2>2. aoStrExtendBuffer(more)
    BY <1>1 DEF aoStrExtendBufferIfNeeded
  <2> HIDE DEF more
  <2>3. more > 0 /\ more # 0
    BY <2>1, SizesOf
  <2>4. /\ capacity' \in Nat /\ room' \in Nat /\ short' \in BOOLEAN /\ (short => short')
        /\ ~short' => capacity' = capacity + more /\ room' = capacity + more
    BY <2>1, <2>2, <2>3, ExtendGives
  <2>5. CASE short' = TRUE
    BY <2>4, <2>5
  <2>6. CASE short' = FALSE
    <3>1. short = FALSE /\ capacity' = capacity + more /\ room' = capacity + more
      BY <2>4, <2>6 DEF BufferInv
    <3>2. len \in Nat /\ capacity \in Nat /\ len <= capacity /\ (~copied => len < capacity)
      BY <3>1 DEF BufferInv
    <3>3. /\ capacity' <= room' /\ len + n <= capacity' /\ len <= capacity' /\ n <= capacity'
          /\ ~copied => len + n < capacity'
          /\ ~copied => n < capacity'
      BY <2>1, <3>1, <3>2
    <3> QED BY <2>4, <2>6, <3>3
  <2> QED  BY <2>4, <2>5, <2>6
<1>2. CASE ~(len + 1 + n >= capacity)
  <2>1. UNCHANGED <<capacity, room, short>>
    BY <1>2 DEF aoStrExtendBufferIfNeeded
  <2> QED  BY <1>2, <2>1 DEF BufferInv
<1> QED  BY <1>1, <1>2

LEMMA InitBuffer == BufferInit => BufferInv
<1> SUFFICES ASSUME BufferInit PROVE BufferInv
  OBVIOUS
<1>1. PICK size \in Lengths : capacity = size + Slack /\ room = size + Slack
  BY DEF BufferInit
<1>2. size \in Nat
  BY LengthIsNat
<1>3. len = 0 /\ copied = FALSE /\ short = FALSE
  BY DEF BufferInit
<1>4. capacity \in Nat /\ room \in Nat /\ capacity <= room /\ 0 < capacity
  BY <1>1, <1>2, SizesOf
<1>5. len \in Nat /\ len <= capacity /\ len < capacity
  BY <1>3, <1>4
<1> QED  BY <1>3, <1>4, <1>5, Zenon DEF BufferInv

LEMMA CatKeeps ==
    ASSUME BufferInv, NEW n \in Nat, aoStrCatLen(n)
    PROVE  BufferInv'
<1>1. aoStrExtendBufferIfNeeded(n) /\ len' = len + n /\ copied' = copied
  BY DEF aoStrCatLen
<1> QED  BY <1>1, ExtendMakesRoom DEF BufferInv

LEMMA WriteKeeps ==
    ASSUME BufferInv, NEW n \in Nat, aoStrWrite(n)
    PROVE  BufferInv'
<1>1. aoStrExtendBufferIfNeeded(n) /\ len' = n /\ copied' = copied
  BY DEF aoStrWrite
<1> QED  BY <1>1, ExtendMakesRoom DEF BufferInv

\* aoStrPutChar asks for more room than the character it puts.
LEMMA PutCharKeeps ==
    ASSUME BufferInv, aoStrPutChar
    PROVE  BufferInv'
<1>1. aoStrExtendBufferIfNeeded(PutRoom) /\ len' = len + 1 /\ copied' = copied
  BY DEF aoStrPutChar
<1>2. PutRoom \in Nat /\ PutRoom >= 1
  BY SizesOf
<1> QED  BY <1>1, <1>2, ExtendMakesRoom DEF BufferInv

\* A copy has the slack beyond what it counts, so that the terminator fits.
LEMMA DupRawKeeps ==
    ASSUME NEW n \in Nat, NEW size \in Nat, aoStrDupRaw(n, size)
    PROVE  BufferInv'
<1>1. n <= size /\ len' = n /\ capacity' = size /\ room' = size + Slack
  BY DEF aoStrDupRaw
<1>2. copied' = TRUE /\ short' = FALSE
  BY DEF aoStrDupRaw
<1>3. len' \in Nat /\ capacity' \in Nat /\ room' \in Nat /\ capacity' <= room' /\ len' <= capacity'
  BY <1>1, SizesOf
<1> QED  BY <1>2, <1>3, Zenon DEF BufferInv

LEMMA NextBuffer == BufferInv /\ [BufferNext]_bufferVars => BufferInv'
<1> SUFFICES ASSUME BufferInv, [BufferNext]_bufferVars PROVE BufferInv'
  OBVIOUS
<1> USE SizesOf
<1>1. CASE aoStrDup
  <2>1. aoStrDupRaw(len, len) /\ len \in Nat
    BY <1>1 DEF aoStrDup, BufferInv
  <2> QED  BY <2>1, DupRawKeeps
<1>2. CASE aoStrPutChar
  BY <1>2, PutCharKeeps
<1>3. CASE aoStrUnPutChar
  BY <1>3 DEF aoStrUnPutChar, BufferInv
<1>4. ASSUME NEW n \in Lengths, aoStrAlloc(n) PROVE BufferInv'
  <2>1. n \in Nat
    BY LengthIsNat
  <2>2. len' = 0 /\ capacity' = n + Slack /\ room' = n + Slack /\ copied' = FALSE /\ short' = FALSE
    BY <1>4 DEF aoStrAlloc
  <2>3. len' \in Nat /\ capacity' \in Nat /\ room' \in Nat
    BY <2>1, <2>2
  <2>4. capacity' <= room' /\ len' <= capacity' /\ len' < capacity'
    BY <2>1, <2>2
  <2> QED  BY <2>2, <2>3, <2>4, Zenon DEF BufferInv
<1>5. ASSUME NEW n \in Lengths, aoStrExtendBuffer(n), UNCHANGED <<len, copied>> PROVE BufferInv'
  <2>1. n \in Nat
    BY LengthIsNat
  <2>2. /\ capacity' \in Nat /\ room' \in Nat /\ short' \in BOOLEAN /\ (short => short')
        /\ ~short' => \/ capacity' = capacity + n /\ room' = capacity + n
                      \/ n = 0 /\ capacity' = capacity /\ room' = room
    BY <1>5, <2>1, ExtendGives
  <2>3. len' = len /\ copied' = copied
    BY <1>5
  <2>4. CASE short' = TRUE
    BY <2>2, <2>3, <2>4 DEF BufferInv
  <2>5. CASE short' = FALSE
    <3>1. /\ short = FALSE
          /\ \/ capacity' = capacity + n /\ room' = capacity + n
             \/ n = 0 /\ capacity' = capacity /\ room' = room
      BY <2>2, <2>5 DEF BufferInv
    <3>2. /\ len \in Nat /\ capacity \in Nat /\ capacity <= room /\ len <= capacity
          /\ ~copied => len < capacity
      BY <3>1 DEF BufferInv
    <3>3. capacity' <= room' /\ len' <= capacity' /\ (~copied' => len' < capacity')
      <4>1. CASE capacity' = capacity + n /\ room' = capacity + n
        BY <2>1, <2>3, <3>2, <4>1
      <4>2. CASE n = 0 /\ capacity' = capacity /\ room' = room
        BY <2>3, <3>2, <4>2
      <4> QED BY <3>1, <4>1, <4>2
    <3> QED BY <2>2, <2>3, <2>5, <3>3 DEF BufferInv
  <2> QED  BY <2>2, <2>4, <2>5
<1>6. ASSUME NEW n \in Lengths, aoStrCatLen(n) PROVE BufferInv'
  BY <1>6, LengthIsNat, CatKeeps
<1>7. ASSUME NEW n \in Lengths, aoStrWrite(n) PROVE BufferInv'
  BY <1>7, LengthIsNat, WriteKeeps
<1>8. ASSUME NEW n \in Lengths, aoStrCatPrintf(n) PROVE BufferInv'
  <2>1. CASE UNCHANGED bufferVars
    BY <2>1 DEF BufferInv, bufferVars
  <2> QED  BY <1>6, <1>8, <2>1 DEF aoStrCatPrintf
<1>9. ASSUME NEW n \in Lengths, aoStrSetLen(n) PROVE BufferInv'
  <2>1. n \in Nat
    BY LengthIsNat
  <2> QED  BY <1>9, <2>1 DEF aoStrSetLen, BufferInv
<1>10. ASSUME NEW n \in Lengths, NEW size \in Lengths, aoStrDupRaw(n, size) PROVE BufferInv'
  <2>1. n \in Nat /\ size \in Nat
    BY LengthIsNat
  <2> QED  BY <1>10, <2>1, DupRawKeeps
<1>11. ASSUME NEW n \in Lengths, NEW size \in Lengths, aoStrSlice(n, size) PROVE BufferInv'
  <2>1. n \in Nat /\ size \in Nat
    BY LengthIsNat
  <2> QED  BY <1>11, <2>1 DEF aoStrSlice, BufferInv
<1>12. CASE UNCHANGED bufferVars
  BY <1>12 DEF BufferInv, bufferVars
<1> QED
  BY <1>1, <1>2, <1>3, <1>4, <1>5, <1>6, <1>7, <1>8, <1>9, <1>10, <1>11, <1>12 DEF BufferNext

\* The strengthened invariant of the buffer.
THEOREM BufferInvariance == BufferSpec => []BufferInv
BY InitBuffer, NextBuffer, PTL DEF BufferSpec

\* Whatever is called, a buffer writes its bytes inside its allocation, and the terminator
\* of all but copies, as long as no growth was refused or asked for with a length that
\* an unsigned int does not hold.
THEOREM BufferFits == BufferSpec => []Fits
<1>1. BufferInv => Fits
  BY DEF BufferInv, Fits
<1> QED  BY <1>1, BufferInvariance, PTL

=============================================================================
