-------------------------------- MODULE Calls --------------------------------
(***************************************************************************)
(* The functions that compute something without keeping state, each called  *)
(* once, with any of the arguments a run gives it.                          *)
(***************************************************************************)
EXTENDS Strings, ClientMessage, Sockets, RoundUp

CONSTANT Arguments      \* a set of records with the function's name in fn

ASSUME ArgumentsAssumption ==
    \A a \in Arguments :
        /\ a.fn \in {"search", "casesearch"} => a.text \in Seq(Chars) /\ a.pattern \in Seq(Chars)
        /\ a.fn = "split" => a.text \in Seq(Chars) /\ a.delimiter \in Chars \ {NUL}
        /\ a.fn \in {"escape", "decode"} => a.text \in Seq(Chars)
        /\ a.fn = "message" => a.word \in Seq(Nat) /\ a.received \in 0 .. Len(clientMessage(a.word))
        /\ a.fn = "limit" => a.current \in Nat /\ a.hard \in Nat /\ a.current <= a.hard
        /\ a.fn = "roundup" => a.num \in Unsigned
        /\ a.fn \in DOMAIN CallsOf => a.fails \in Seq(STRING)

VARIABLES call, result  \* result: <<>>, then the sequence of what was returned

callVars == <<call, result>>

CallsInit == call \in Arguments /\ result = <<>>

\* What the client wrote arrives up to a byte: msg is what one read returns.
Arrived == SubSeq(clientMessage(call.word), 1, call.received)

Returned(fn) ==
    CASE fn = "search" -> aoStrContainsPattern(call.text, call.pattern)
      [] fn = "casesearch" -> aoStrContainsCasePattern(call.text, call.pattern)
      [] fn = "split" -> aoStrSplit(call.text, call.delimiter)
      [] fn = "escape" -> aoStrEscapeString(call.text)
      [] fn = "decode" -> IF aoStrIsMimeEncoded(call.text) /\ Enclosed(call.text) >= 0
                          THEN aoStrDecodeMimeEncodedInplace(call.text) ELSE call.text
      [] fn = "message" -> serverReadClientMessage(Arrived)
      [] fn = "limit" -> serverSetFileDescriptorLimit(call.current, call.hard)
      [] fn = "roundup" -> [capacity |-> roundup32bit(call.num), mask |-> Mask(call.num)]
      [] OTHER -> Opened(fn, call.fails)

Return == result = <<>> /\ result' = <<Returned(call.fn)>> /\ UNCHANGED call

CallsSpec == CallsInit /\ [][Return]_callVars

Of(fn) == call.fn = fn /\ result # <<>>

-----------------------------------------------------------------------------
Occurs(text, pattern, fold, at) ==
    /\ at + Len(pattern) <= Len(text)
    /\ \A j \in DOMAIN pattern : fold[text[at + j]] = fold[pattern[j]]

\* aoStrContainsPattern gives the first occurrence of the pattern before the
\* terminator, -1 when there is none, and -1 for the empty pattern.
SearchFindsFirst ==
    Of("search") =>
        LET places == {i \in 0 .. Len(call.text) :
                          Occurs(CString(call.text), call.pattern, Same, i)}
        IN IF call.pattern = <<>> \/ places = {} THEN result[1] = -1
           ELSE result[1] \in places /\ \A i \in places : result[1] <= i

\* What aoStrContainsCasePattern finds is there, in whatever case; and it misses
\* nothing as long as the letters of the pattern are all of one case.
CaseSearchIsSound ==
    Of("casesearch") =>
        LET places == {i \in 0 .. Len(call.text) :
                          Occurs(CString(call.text), call.pattern, tolower, i)}
            oneCase == \A c, d \in ToSet(call.pattern) : tolower[c] = tolower[d] => c = d
        IN IF call.pattern = <<>> \/ places = {} THEN result[1] = -1
           ELSE /\ result[1] \in places \union {-1}
                /\ oneCase => result[1] \in places /\ \A i \in places : result[1] <= i

\* The parts one after the other.
Together(parts) ==
    LET first[n \in 0 .. Len(parts)] == IF n = 0 THEN <<>> ELSE first[n - 1] \o parts[n]
    IN first[Len(parts)]

\* The parts with the delimiter between them.
Joined(parts, delimiter) ==
    LET with[n \in 1 .. Len(parts)] ==
            IF n = 1 THEN parts[1] ELSE with[n - 1] \o <<delimiter>> \o parts[n]
    IN with[Len(parts)]

\* The parts aoStrSplit gives are the text's, between its delimiters: put together
\* again they give the text, but for one delimiter at its start.
SplitJoins ==
    Of("split") =>
        LET parts == result[1]
            joined == Joined(parts, call.delimiter)
        IN /\ joined \in {CString(call.text)} \union
                  {Tail(s) : s \in {CString(call.text)} \ {<<>>}}
           /\ joined = CString(call.text) <=> CString(call.text) = <<>> \/ call.text[1] # call.delimiter
           /\ \A i \in DOMAIN parts : call.delimiter \notin ToSet(parts[i])

\* A reader of escapes: what follows a backslash stands for one character.
Unicode(s, i) ==
    ((hexToInt(At(s, i)) * 16 + hexToInt(At(s, i + 1))) * 16 + hexToInt(At(s, i + 2))) * 16
        + hexToInt(At(s, i + 3))
Letter(c) == IF c \in Range(Letters) THEN CHOOSE d \in DOMAIN Letters : Letters[d] = c ELSE c
Unescape(s, i) ==
    IF s[i] # Backslash THEN [char |-> s[i], used |-> 1]
    ELSE IF At(s, i + 1) = 117 THEN [char |-> Unicode(s, i + 2), used |-> 6]
    ELSE [char |-> Letter(At(s, i + 1)), used |-> 2]
Unescaped(s) == Transcribed([i \in DOMAIN s |-> Unescape(s, i)])

\* aoStrEscapeString can be undone, for texts of seven bits; of any other character it
\* makes eight hexadecimal digits, where a reader looks for four.
EscapeReadsBack ==
    Of("escape") =>
        (Unescaped(result[1]) = CString(call.text)
            <=> \A c \in ToSet(CString(call.text)) : c >= 0)

\* The encodings of a character: as itself, or by its code, in either case.
HexDigits == 48 .. 57 \union 65 .. 70 \union 97 .. 102
Encodings(c) ==
    {s \in {<<c>>} : c # Equals} \union
    {s \in {<<Equals, high, low>> : high, low \in HexDigits} :
        hexToInt(s[2]) * 16 + hexToInt(s[3]) = c % 256}
Encodes(text, plain, parts) ==
    /\ plain \in Seq(Chars \ {NUL}) /\ parts \in Seq(Seq(Chars)) /\ Len(parts) = Len(plain)
    /\ \A i \in DOMAIN parts : parts[i] \in Encodings(plain[i])
    /\ text = Prefix \o Together(parts) \o Suffix

\* However each character of a text has been encoded, decoding gives the text back; and
\* the part between prefix and suffix has a length, unless the two share a character.
MimeReadsBack ==
    Of("decode") =>
        /\ aoStrIsMimeEncoded(call.text) => Enclosed(call.text) >= 0 \/ Len(call.text) = Len(Prefix) + 1
        /\ Encodes(call.text, call.plain, call.parts) => result[1] = call.plain

\* A word the two loops run over: all that the second looks at, behind a colon or
\* behind the first WordRoom characters, are digits of the word itself.
RunsOver(word) ==
    \E i \in 1 .. WordRoom + 1 :
        /\ i + WordRoom <= Len(word)
        /\ i = WordRoom + 1 \/ word[i] = Colon
        /\ \A j \in 1 .. i - 1 : word[j] # Colon
        /\ \A j \in 1 .. WordRoom : word[i + j] \in Digits

\* The server takes a whole message for its word, or refuses a word with a colon and one
\* that does not fit; but not a word it runs over, for which anything may happen.  A
\* word that just fits ends up right, with a zero written behind the buffer.  A word
\* that fits is safe however its message is cut, and a cut message makes a prefix of it.
RequestIsTheWord ==
    Of("message") =>
        LET word == call.word
            whole == call.received = Len(clientMessage(word))
            fits == Len(word) <= WordRoom /\ Colon \notin ToSet(word)
        IN /\ whole => result[1] = IF fits THEN Read(word, Len(word) = WordRoom)
                                   ELSE IF RunsOver(word) THEN Undefined ELSE Refused
           /\ fits => result[1] # Undefined
           /\ result[1] \notin {Refused, Undefined} => IsPrefix(result[1].word, word)

\* A function that gives a socket holds nothing else, and one that fails holds nothing;
\* except inetConnect, when the socket cannot be made non-blocking.
NothingIsLeftOpen ==
    call.fn \in DOMAIN CallsOf /\ result # <<>> =>
        \/ result[1].held = IF result[1].ok THEN Socket ELSE {}
        \/ call.fn = "inetConnectNonBlocking" /\ "nonblock" \in ToSet(call.fails) /\ ~result[1].ok

\* The loop's table never has more slots than the process may have descriptors, and
\* falls short of them, or of the 10024 it is meant to have, by less than one step.
TableWithinLimit ==
    Of("limit") =>
        LET possible == IF call.hard < Highest THEN call.hard ELSE Highest IN
        /\ result[1].maxclients <= result[1].limit
        /\ result[1].maxclients > possible - Decrement

\* roundup32bit gives the least power of two that is large enough, and 0 when there
\* is none or nothing is asked for; and a map asked for no more than the buckets that
\* are allocated finds one of them for every hash: the hash modulo its capacity.
RoundsUp ==
    Of("roundup") =>
        LET capacity == result[1].capacity
            mask == result[1].mask
        IN IF call.num \in 1 .. Power[Width - 1]
           THEN /\ call.num <= capacity /\ capacity < 2 * call.num
                /\ \E i \in 0 .. Width - 1 : capacity = Power[i]
                /\ call.num <= Allocated => \A hash \in Unsigned : Bucket(hash, mask) = hash % capacity
           ELSE capacity = 0

=============================================================================
