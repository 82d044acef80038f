----------------------------- MODULE DictService -----------------------------
(***************************************************************************)
(* What the daemon is to its clients: a set of words whose definitions are  *)
(* stored, which only grows, and an answer for each client that asks.  How  *)
(* it is provided, by a loop, a cache, a site and a table, is DictServer's. *)
(***************************************************************************)
CONSTANTS
    Clients, Words,
    Unparsable,     \* what no request is read from
    Defined,        \* the words that have a definition
    NoWord

VARIABLES
    asked,          \* the word a client is waiting for, or NoWord
    answer,         \* what it has been given: "none", its word's definition, ...
    stored          \* the words whose definition has been stored

Init ==
    /\ asked = [c \in Clients |-> NoWord]
    /\ answer = [c \in Clients |-> "none"]
    /\ stored = {}

Ask(c) ==
    /\ asked[c] = NoWord /\ answer[c] = "none"
    /\ \E w \in Words : asked' = [asked EXCEPT ![c] = w]
    /\ UNCHANGED <<answer, stored>>

\* A word is learned because somebody asks for it, once.
Learn(w) ==
    /\ w \notin stored /\ \E c \in Clients : asked[c] = w
    /\ stored' = stored \union {w}
    /\ UNCHANGED <<asked, answer>>

Give(c, what) ==
    /\ answer[c] = "none"
    /\ answer' = [answer EXCEPT ![c] = what]
    /\ UNCHANGED <<asked, stored>>

\* The definition of the word asked for, which is stored by then.
Define(c) == asked[c] \in stored /\ Give(c, asked[c])

\* "Failed to find word", or what is left of it, for a word that is not stored.
NotFound(c) ==
    /\ asked[c] \in Words \ (Unparsable \union stored)
    /\ \E what \in {"notfound", "partial", "eof"} : Give(c, what)

\* End of file, for what no request can be read from.
Refuse(c) == asked[c] \in Unparsable /\ Give(c, "eof")

\* The client has its answer and is done.
Done(c) ==
    /\ answer[c] # "none"
    /\ asked' = [asked EXCEPT ![c] = NoWord]
    /\ answer' = [answer EXCEPT ![c] = "none"]
    /\ UNCHANGED stored

\* Connections end: the clients of broken learn it, those of gone had left.  One
\* of the former may have received part of a definition that is stored.
HangUp(broken, gone) ==
    /\ \A c \in broken \union gone : answer[c] = "none"
    /\ asked' = [c \in Clients |-> IF c \in gone THEN NoWord ELSE asked[c]]
    /\ \/ answer' = [c \in Clients |-> IF c \in broken THEN "reset" ELSE answer[c]]
       \/ \E d \in broken :
            /\ asked[d] \in stored
            /\ answer' = [c \in Clients |-> IF c = d THEN "partial"
                                            ELSE IF c \in broken THEN "reset" ELSE answer[c]]
    /\ UNCHANGED stored

Next ==
    \/ \E c \in Clients : Ask(c) \/ Define(c) \/ NotFound(c) \/ Refuse(c) \/ Done(c)
    \/ \E w \in Defined : Learn(w)
    \/ \E broken \in SUBSET Clients : \E gone \in SUBSET (Clients \ broken) :
          HangUp(broken, gone)

serviceVars == <<asked, answer, stored>>

Spec == Init /\ [][Next]_serviceVars

=============================================================================
