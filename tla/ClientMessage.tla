---------------------------- MODULE ClientMessage ----------------------------
(***************************************************************************)
(* What passes between client.c and server.c: the client writes its word,   *)
(* a colon and the word's length, and the server takes whatever one read    *)
(* gives it for the whole message.  Digits are the numbers below Base.      *)
(***************************************************************************)
EXTENDS Integers, SequencesExt

CONSTANTS
    Base,       \* 10
    WordRoom    \* sizeof(tmpword), sizeof(strnum): 200

\* The length of a word that fits leaves room in strnum.
ASSUME MessageAssumption == Base \in Nat \ {0, 1} /\ WordRoom \in Nat \ 0 .. 2

Digits == 0 .. Base - 1
Colon == Base

\* What snprintf makes of a length, and atoi of that.
Decimal(n) ==
    LET digits[m \in 0 .. n] ==
            IF m < Base THEN <<m>> ELSE Append(digits[m \div Base], m % Base)
    IN digits[n]
atoi(digits) ==
    LET value[n \in 0 .. Len(digits)] == IF n = 0 THEN 0 ELSE value[n - 1] * Base + digits[n]
    IN value[Len(digits)]

clientMessage(word) == word \o <<Colon>> \o Decimal(Len(word))

\* The word, and whether a zero was written behind tmpword; or nothing; or whatever
\* comes of reading behind strnum or tmpword, or of a number that is no int.
Read(word, overrun) == [ok |-> TRUE, word |-> word, overrun |-> overrun]
Refused == [ok |-> FALSE]
Undefined == [ok |-> TRUE]

\* What the first loop copies: up to the colon, and no more than there is room for.
BeforeColon(msg) ==
    LET end == SelectInSeq(msg, LAMBDA c : c = Colon) IN
    SubSeq(msg, 1, IF end \in 1 .. WordRoom THEN end - 1
                   ELSE IF Len(msg) < WordRoom THEN Len(msg) ELSE WordRoom)

\* Mutant: the colon is not skipped.
NumberMutant(msg, tmpword) == SubSeq(msg, Len(tmpword) + 1, Len(msg))

\* What the second loop copies: it starts behind the character the first stopped at,
\* whatever that is, and copies no more than there is room for.
Number(msg, tmpword) ==
    LET skipped == Len(tmpword) + 1 IN
    SubSeq(msg, skipped + 1, IF Len(msg) < skipped + WordRoom THEN Len(msg) ELSE skipped + WordRoom)

\* atoi looks for the end of strnum, which is not there when strnum is full; and a
\* number above WordRoom has memcpy copy what is behind tmpword, if it is an int at all.
serverReadClientMessage(msg) ==
    LET tmpword == BeforeColon(msg)
        strnum == Number(msg, tmpword)
        len == atoi(strnum)
    IN IF Len(tmpword) = Len(msg) \/ ToSet(strnum) \ Digits # {} THEN Refused
       ELSE IF Len(strnum) = WordRoom \/ len > WordRoom THEN Undefined
       ELSE Read(SubSeq(tmpword, 1, IF len < Len(tmpword) THEN len ELSE Len(tmpword)),
                 len = WordRoom)

=============================================================================
