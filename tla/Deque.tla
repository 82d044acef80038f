-------------------------------- MODULE Deque --------------------------------
(***************************************************************************)
(* What list.h promises: a sequence that threads add to and take from at    *)
(* both ends, each call taking effect at one moment between its start and   *)
(* its return.                                                              *)
(***************************************************************************)
EXTENDS Integers, SequencesExt

CONSTANTS
    Threads,
    Calls,      \* [fn, v]: a function, and the value or the order it is given
    Orders,     \* the relations lists are sorted by
    Extras      \* the lists that are appended

VARIABLES items, asked, given

NoCall == [fn |-> "none", v |-> 0]

SameElements(s, t) == \E f \in Bijection(DOMAIN t, DOMAIN s) : \A i \in DOMAIN t : t[i] = s[f[i]]

IsOrder(leq, S) ==
    /\ \A x, y \in S : <<x, y>> \in leq \/ <<y, x>> \in leq
    /\ \A x, y, z \in S : <<x, y>> \in leq /\ <<y, z>> \in leq => <<x, z>> \in leq

\* A list is sorted by what is an order, and otherwise rearranged.
Sorted(s, leq) ==
    {t \in [DOMAIN s -> ToSet(s)] : SameElements(s, t) /\
        (IsOrder(leq, ToSet(s)) => \A i, j \in DOMAIN t : i < j => <<t[i], t[j]>> \in leq)}

\* What a call may make of a sequence, and return; 0 is NULL.
Outcomes(c, s) ==
    CASE c.fn = "addHead" -> {<< <<c.v>> \o s, 0>>}
      [] c.fn = "addTail" -> {<<Append(s, c.v), 0>>}
      [] c.fn = "removeHead" -> {IF s = <<>> THEN <<s, 0>> ELSE <<Tail(s), Head(s)>>}
      [] c.fn = "removeTail" -> {IF s = <<>> THEN <<s, 0>> ELSE <<Front(s), Last(s)>>}
      [] c.fn = "find" -> {<<s, IF c.v \in ToSet(s) THEN c.v ELSE 0>>}
      [] c.fn = "sort" -> {<<t, 0>> : t \in IF c.v = 0 THEN {s} ELSE Sorted(s, Orders[c.v])}

Init ==
    /\ items = <<>>
    /\ asked = [t \in Threads |-> NoCall] /\ given = [t \in Threads |-> <<>>]

Call(t) ==
    /\ asked[t] = NoCall
    /\ \E c \in Calls : asked' = [asked EXCEPT ![t] = c]
    /\ UNCHANGED <<items, given>>

TakeEffect(t) ==
    /\ asked[t] # NoCall /\ given[t] = <<>>
    /\ \E o \in Outcomes(asked[t], items) :
          items' = o[1] /\ given' = [given EXCEPT ![t] = <<o[2]>>]
    /\ UNCHANGED asked

Return(t) ==
    /\ given[t] # <<>>
    /\ asked' = [asked EXCEPT ![t] = NoCall] /\ given' = [given EXCEPT ![t] = <<>>]
    /\ UNCHANGED items

\* A thread that is alone with the list.
CallAlone(t) ==
    /\ \A u \in Threads : asked[u] = NoCall
    /\ \E c \in Calls : \E o \in Outcomes(c, items) :
          /\ asked' = [asked EXCEPT ![t] = c]
          /\ items' = o[1] /\ given' = [given EXCEPT ![t] = <<o[2]>>]

Replace ==
    /\ \A u \in Threads : asked[u] = NoCall
    /\ items' \in {<<>>} \union {items \o s : s \in Extras}
    /\ UNCHANGED <<asked, given>>

Next ==
    \/ \E t \in Threads : Call(t) \/ TakeEffect(t) \/ Return(t) \/ CallAlone(t)
    \/ Replace

Spec == Init /\ [][Next]_<<items, asked, given>>

=============================================================================
