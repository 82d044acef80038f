------------------------------- MODULE Strings -------------------------------
(***************************************************************************)
(* The functions of aostr.c that look at the bytes of a buffer: search,     *)
(* splitting, escaping, and decoding.  A character is its code in a signed  *)
(* char, -128 .. 127; a text is the sequence of a buffer's characters.      *)
(***************************************************************************)
EXTENDS Integers, SequencesExt

Chars == -128 .. 127
NUL == 0

\* What a function that stops at the terminator sees of a text.
CString(text) ==
    IF NUL \in ToSet(text) THEN SubSeq(text, 1, SelectInSeq(text, LAMBDA c : c = NUL) - 1)
    ELSE text

-----------------------------------------------------------------------------
(* Search: the matcher of Knuth, Morris and Pratt.                          *)

Same == [c \in Chars |-> c]
tolower == [c \in Chars |-> IF c \in 65 .. 90 THEN c + 32 ELSE c]

\* How much of the pattern is matched once c has been read after its first q
\* characters: the table is followed until c goes on from there.
Matched(pattern, table, fold, c, matched) ==
    LET back[q \in 0 .. Len(table) - 1] ==
            IF q > 0 /\ fold[pattern[q + 1]] # fold[c] THEN back[table[q]] ELSE q
        q == back[matched]
    IN IF fold[pattern[q + 1]] = fold[c] THEN q + 1 ELSE q

Lengthened(pattern, table, c) ==
    Append(table, IF table = <<>> THEN 0 ELSE Matched(pattern, table, Same, c, Last(table)))

\* Mutant: a prefix that matches is not lengthened.
aoStrComputePrefixTableMutant(pattern) == [i \in DOMAIN pattern |-> 0]

\* For each prefix, the length of its longest proper prefix that is its suffix too.
aoStrComputePrefixTable(pattern) ==
    LET table[n \in 0 .. Len(pattern)] ==
            IF n = 0 THEN <<>> ELSE Lengthened(pattern, table[n - 1], pattern[n])
    IN table[Len(pattern)]

\* One character more is read, unless the pattern has been found.
ReadOn(pattern, table, fold, s, c) ==
    IF s.q = Len(pattern) THEN s
    ELSE [q |-> Matched(pattern, table, fold, c, s.q), i |-> s.i + 1]

\* Where the pattern begins in the text, from 0; -1 when it is not there.
Search(text, table, pattern, fold) ==
    LET str == CString(text)
        after[n \in 0 .. Len(str)] ==
            IF n = 0 THEN [q |-> 0, i |-> 0]
            ELSE ReadOn(pattern, table, fold, after[n - 1], str[n])
        end == after[Len(str)]
    IN IF pattern # <<>> /\ end.q = Len(pattern) THEN end.i - Len(pattern) ELSE -1

aoStrContainsPattern(text, pattern) ==
    Search(text, aoStrComputePrefixTable(pattern), pattern, Same)

\* Mutant: the pattern's case counts.
aoStrContainsCasePatternMutant(text, pattern) ==
    Search(text, aoStrComputePrefixTable(pattern), pattern, Same)

\* The table is that of the search that tells the cases apart.
aoStrContainsCasePattern(text, pattern) ==
    Search(text, aoStrComputePrefixTable(pattern), pattern, tolower)

-----------------------------------------------------------------------------
(* Splitting.                                                               *)

\* Mutant: every leading delimiter is skipped.
SkippedMutant(text, delimiter) ==
    IF \A c \in ToSet(text) : c = delimiter THEN <<>>
    ELSE SubSeq(text, SelectInSeq(text, LAMBDA c : c # delimiter), Len(text))

\* One delimiter at the start does not count.
Skipped(text, delimiter) ==
    IF text # <<>> /\ text[1] = delimiter THEN Tail(text) ELSE text

\* A delimiter ends a part; anything else belongs to the last one.
PartsWith(parts, c, delimiter) ==
    IF c = delimiter THEN Append(parts, <<>>) ELSE [parts EXCEPT ![Len(parts)] = Append(@, c)]

aoStrSplit(text, delimiter) ==
    LET str == Skipped(CString(text), delimiter)
        parts[n \in 0 .. Len(str)] ==
            IF n = 0 THEN << <<>> >> ELSE PartsWith(parts[n - 1], str[n], delimiter)
    IN parts[Len(str)]

-----------------------------------------------------------------------------
(* Escaping.                                                                *)

Backslash == 92
Quote == 34
Letters == [c \in 8 .. 13 |-> <<98, 116, 110, 118, 102, 114>>[c - 7]]

HexDigit(n) == IF n < 10 THEN 48 + n ELSE 87 + n

\* Mutant: the width is that of a byte.
HexMutant(c) ==
    LET u == c % 256 IN <<HexDigit(u \div 16), HexDigit(u % 16)>>

\* %04x of (unsigned int) c: a negative char gives all eight digits.
Hex(c) ==
    LET u == c % 256 IN
    (IF c < 0 THEN <<102, 102, 102, 102, 102, 102>> ELSE <<48, 48>>)
        \o <<HexDigit(u \div 16), HexDigit(u % 16)>>

EscapeChar(c) ==
    IF c > 31 /\ c \notin {Quote, Backslash} THEN <<c>>
    ELSE <<Backslash>> \o (IF c \in {Quote, Backslash} THEN <<c>>
                           ELSE IF c \in DOMAIN Letters THEN <<Letters[c]>>
                           ELSE <<117>> \o Hex(c))

aoStrEscapeString(text) ==
    LET str == CString(text)
        out[n \in 0 .. Len(str)] == IF n = 0 THEN <<>> ELSE out[n - 1] \o EscapeChar(str[n])
    IN out[Len(str)]

-----------------------------------------------------------------------------
(* Reading.                                                                 *)

At(str, i) == IF i <= Len(str) THEN str[i] ELSE NUL

\* What is read of a text when at each position it is known which character begins
\* there and how many, up to six, it is written with.
Transcribed(reads) ==
    LET from[i \in 1 .. Len(reads) + 6] ==
            IF i > Len(reads) THEN <<>> ELSE <<reads[i].char>> \o from[i + reads[i].used]
    IN from[1]

-----------------------------------------------------------------------------
(* Mime-encoded words: =?utf-8?Q? ... ?=                                     *)

Equals == 61
Prefix == <<61, 63, 117, 116, 102, 45, 56, 63, 81, 63>>
Suffix == <<63, 61>>

hexToInt(c) ==
    CASE c \in 48 .. 57 -> c - 48
      [] c \in 65 .. 70 -> c - 55
      [] c \in 97 .. 102 -> c - 87
      [] OTHER -> -1

\* The prefix and the suffix may share characters.
aoStrIsMimeEncoded(text) == IsPrefix(Prefix, text) /\ IsSuffix(Suffix, text)

SignedChar(n) == IF n > 127 THEN n - 256 ELSE n

\* Mutant: the decoded character's digits are looked at again.
DecodedMutant(str, i) ==
    IF str[i] = Equals /\ hexToInt(At(str, i + 1)) # -1 /\ hexToInt(At(str, i + 2)) # -1
    THEN [char |-> SignedChar(hexToInt(At(str, i + 1)) * 16 + hexToInt(At(str, i + 2))), used |-> 1]
    ELSE [char |-> str[i], used |-> 1]

\* =XY, with two hexadecimal digits, stands for the byte of that code.
Decoded(str, i) ==
    IF str[i] = Equals /\ hexToInt(At(str, i + 1)) # -1 /\ hexToInt(At(str, i + 2)) # -1
    THEN [char |-> SignedChar(hexToInt(At(str, i + 1)) * 16 + hexToInt(At(str, i + 2))), used |-> 3]
    ELSE [char |-> str[i], used |-> 1]

decodeMimeEncoded(str) == Transcribed([i \in DOMAIN str |-> Decoded(str, i)])

\* The bytes aoStrSlice is told to move: unsigned, so that they had better not be
\* negative.
Enclosed(text) == Len(text) - Len(Prefix) - Len(Suffix)

aoStrDecodeMimeEncodedInplace(text) ==
    decodeMimeEncoded(CString(SubSeq(text, Len(Prefix) + 1, Len(text) - Len(Suffix))))

=============================================================================
