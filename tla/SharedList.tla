----------------------------- MODULE SharedList -----------------------------
(***************************************************************************)
(* The circular list of list.c, node by node, with its lock.  The functions *)
(* whose names begin with listTS, and listQSort, take the lock; the others  *)
(* are for a thread that is alone with the list.                            *)
(***************************************************************************)
EXTENDS Integers, SequencesExt

CONSTANTS
    Threads, Values,
    Nodes,      \* the memory for nodes: the length a list may have
    Orders,     \* the relations listQSort is given; 0, NULL, is none of them
    Extras,     \* the lists that are appended
    Free, Stuck \* of the lock: not held; held by a call that has returned

ASSUME ListAssumption ==
    /\ Values \subseteq Nat \ {0} /\ Nodes \subseteq Nat \ {0} /\ IsFiniteSet(Nodes)
    /\ Extras \subseteq Seq(Values) /\ {Free, Stuck} \intersect Threads = {} /\ Free # Stuck

VARIABLES
    list,       \* root and len of struct list, next, prev and data of every node
    lock,       \* l->lock
    asked,      \* the call each thread is in
    stage,      \* where in it: at pthread_mutex_lock, before the body, after it
    given       \* what it is about to return

listVars == <<list, lock, asked, stage, given>>

Nil == 0
NoCall == [fn |-> "none", v |-> 0]
Calls ==
    [fn : {"addHead", "addTail", "find"}, v : Values]
        \union [fn : {"removeHead", "removeTail"}, v : {0}]
        \union [fn : {"sort"}, v : {0} \union DOMAIN Orders]

Empty == [root |-> Nil, len |-> 0, next |-> [n \in Nodes |-> Nil],
          prev |-> [n \in Nodes |-> Nil], data |-> [n \in Nodes |-> 0]]

-----------------------------------------------------------------------------
(* The bodies of the functions.                                             *)

Unused(l) == {n \in Nodes : l.next[n] = Nil}

\* Mutant: the old tail goes on pointing to the old head.
LinkedMutant(l, n, v) ==
    IF l.root = Nil
    THEN [l EXCEPT !.root = n, !.len = 1, !.next[n] = n, !.prev[n] = n, !.data[n] = v]
    ELSE [l EXCEPT !.len = @ + 1, !.data[n] = v, !.next[n] = l.root,
                   !.prev = [@ EXCEPT ![n] = l.prev[l.root], ![l.root] = n]]

\* A new node between the tail and the head.
Linked(l, n, v) ==
    LET tail == l.prev[l.root] IN
    IF l.root = Nil
    THEN [l EXCEPT !.root = n, !.len = 1, !.next[n] = n, !.prev[n] = n, !.data[n] = v]
    ELSE [l EXCEPT !.len = @ + 1, !.data[n] = v,
                   !.next = [@ EXCEPT ![n] = l.root, ![tail] = n],
                   !.prev = [@ EXCEPT ![n] = tail, ![l.root] = n]]

listAddTail(l, v) == Linked(l, Min(Unused(l)), v)
listAddHead(l, v) == [listAddTail(l, v) EXCEPT !.root = Min(Unused(l))]

\* The list without a node; the memory of the node is free again.
Removed(l, n) ==
    [root |-> IF l.len = 1 THEN Nil ELSE IF n = l.root THEN l.next[n] ELSE l.root,
     len |-> l.len - 1,
     next |-> [l.next EXCEPT ![l.prev[n]] = l.next[n], ![n] = Nil],
     prev |-> [l.prev EXCEPT ![l.next[n]] = l.prev[n], ![n] = Nil],
     data |-> [l.data EXCEPT ![n] = 0]]

\* The nodes that the pointer to the next leads to, from one on.
Walk(l, from) ==
    LET nth[n \in 0 .. l.len] == IF n = 0 THEN from ELSE l.next[nth[n - 1]] IN nth

\* The nodes in the order listFind looks at them.
Visited(l) == [i \in 1 .. l.len |-> Walk(l, l.root)[i - 1]]

Swapped(data, i, j) == [data EXCEPT ![i] = data[j], ![j] = data[i]]

\* From low up to high, what is no greater than the data of high is swapped to the
\* front, up to where i then is.
Looped(l, data, low, high, leq) ==
    LET j == Walk(l, low)
        steps == CHOOSE n \in 0 .. l.len : j[n] = high /\ \A m \in 0 .. n - 1 : j[m] # high
        turn(x, k) == LET i == l.next[x.i] IN
            IF <<x.data[k], data[high]>> \in leq THEN [data |-> Swapped(x.data, i, k), i |-> i] ELSE x
        loop[n \in 0 .. steps] ==
            IF n = 0 THEN [data |-> data, i |-> l.prev[low]] ELSE turn(loop[n - 1], j[n - 1])
    IN loop[steps]

\* Then the data of high is swapped behind that.
listQSortPivot(l, data, low, high, leq) ==
    LET x == Looped(l, data, low, high, leq)
        i == l.next[x.i]
    IN [data |-> Swapped(x.data, i, high), pivot |-> i]

\* What mboxQSortHelper is called with.
Parts == [data : [Nodes -> Values \union {0}], low : Nodes, high : Nodes, count : 0 .. 1]
Part(data, low, high) == [data |-> data, low |-> low, high |-> high, count |-> 1]

\* Empty is a part whose low node comes after its high one; count is 0 for the whole
\* list, whose head comes after its tail, and 1 for a part.
NoneToSort(l, p) == p.low = p.high \/ (p.count = 1 /\ p.low = l.next[p.high])

\* Mutant: the part behind the pivot is left as it is.
DividesMutant(l, leq, helped) ==
    [p \in Parts |->
        IF NoneToSort(l, p) THEN p.data
        ELSE LET q == listQSortPivot(l, p.data, p.low, p.high, leq)
             IN helped[Part(q.data, p.low, l.prev[q.pivot])]]

\* The data after each call, when helped is the data after those it makes.
Divides(l, leq, helped) ==
    [p \in Parts |->
        IF NoneToSort(l, p) THEN p.data
        ELSE LET q == listQSortPivot(l, p.data, p.low, p.high, leq)
                 left == helped[Part(q.data, p.low, l.prev[q.pivot])]
             IN helped[Part(left, l.next[q.pivot], p.high)]]

\* The calls are never as deep as the list is long.
mboxQSortHelper(l, leq) ==
    LET helper[depth \in 0 .. l.len] ==
            IF depth = 0 THEN [p \in Parts |-> p.data] ELSE Divides(l, leq, helper[depth - 1])
    IN helper[l.len]

listQSort(l, leq) ==
    [l EXCEPT !.data = mboxQSortHelper(l, leq)[
        [data |-> l.data, low |-> l.root, high |-> l.prev[l.root], count |-> 0]]]

\* listQSort returns early, and keeps the lock.
SortsNothing(c) == c.fn = "sort" /\ (list.len <= 1 \/ c.v = 0)

HasRoom(c) == c.fn \in {"addHead", "addTail"} => Unused(list) # {}

\* The list after a call, and what the call returns.
After(c) ==
    CASE c.fn = "addHead" -> listAddHead(list, c.v)
      [] c.fn = "addTail" -> listAddTail(list, c.v)
      [] c.fn = "removeHead" -> IF list.len = 0 THEN list ELSE Removed(list, list.root)
      [] c.fn = "removeTail" -> IF list.len = 0 THEN list ELSE Removed(list, list.prev[list.root])
      [] c.fn = "find" -> list
      [] c.fn = "sort" -> IF SortsNothing(c) THEN list
                          ELSE listQSort(list, Orders[c.v])
Result(c) ==
    CASE c.fn = "removeHead" -> IF list.len = 0 THEN 0 ELSE list.data[list.root]
      [] c.fn = "removeTail" -> IF list.len = 0 THEN 0 ELSE list.data[list.prev[list.root]]
      [] c.fn = "find" -> IF \E i \in 1 .. list.len : list.data[Visited(list)[i]] = c.v
                          THEN c.v ELSE 0
      [] OTHER -> 0

\* The list aux, built from the values s, on the tail of list.
listAppendListTail(s) ==
    LET built[i \in 0 .. Len(s)] ==
            IF i = 0 THEN [list EXCEPT !.root = Nil, !.len = 0] ELSE listAddTail(built[i - 1], s[i])
        aux == built[Len(s)]
        tail == list.prev[list.root]
        auxtail == aux.prev[aux.root]
    IN IF aux.len = 0 THEN list
       ELSE IF list.len = 0 THEN aux
       ELSE [root |-> list.root, len |-> list.len + aux.len, data |-> aux.data,
             prev |-> [aux.prev EXCEPT ![aux.root] = tail, ![list.root] = auxtail],
             next |-> [aux.next EXCEPT ![tail] = aux.root, ![auxtail] = list.root]]

-----------------------------------------------------------------------------
(* The threads.                                                             *)

ListInit ==
    /\ list = Empty /\ lock = Free
    /\ asked = [t \in Threads |-> NoCall] /\ stage = [t \in Threads |-> "idle"]
    /\ given = [t \in Threads |-> <<>>]

Call(t) ==
    /\ stage[t] = "idle" /\ stage' = [stage EXCEPT ![t] = "lock"]
    /\ \E c \in Calls : asked' = [asked EXCEPT ![t] = c]
    /\ UNCHANGED <<list, lock, given>>

Lock(t) ==
    /\ stage[t] = "lock" /\ lock = Free
    /\ lock' = t /\ stage' = [stage EXCEPT ![t] = "body"]
    /\ UNCHANGED <<list, asked, given>>

\* Mutant: a removal that finds nothing returns early, too, and keeps the lock.
BodyMutant(t) ==
    /\ stage[t] = "body" /\ HasRoom(asked[t])
    /\ list' = After(asked[t])
    /\ given' = [given EXCEPT ![t] = <<Result(asked[t])>>]
    /\ lock' = IF SortsNothing(asked[t]) THEN Stuck ELSE lock
    /\ stage' = [stage EXCEPT ![t] =
                    IF SortsNothing(asked[t]) \/ (asked[t].fn = "removeHead" /\ list.len = 0)
                    THEN "alone" ELSE "unlock"]
    /\ UNCHANGED asked

Body(t) ==
    /\ stage[t] = "body" /\ HasRoom(asked[t])
    /\ list' = After(asked[t])
    /\ given' = [given EXCEPT ![t] = <<Result(asked[t])>>]
    /\ lock' = IF SortsNothing(asked[t]) THEN Stuck ELSE lock
    /\ stage' = [stage EXCEPT ![t] = IF SortsNothing(asked[t]) THEN "alone" ELSE "unlock"]
    /\ UNCHANGED asked

Return(t) ==
    /\ stage[t] \in {"unlock", "alone"}
    /\ lock' = IF stage[t] = "unlock" THEN Free ELSE lock
    /\ stage' = [stage EXCEPT ![t] = "idle"]
    /\ asked' = [asked EXCEPT ![t] = NoCall] /\ given' = [given EXCEPT ![t] = <<>>]
    /\ UNCHANGED list

Alone == \A t \in Threads : stage[t] = "idle"

\* A function without the lock, by a thread that knows itself alone.
CallAlone(t) ==
    /\ Alone
    /\ \E c \in {d \in Calls : d.fn # "sort" /\ HasRoom(d)} :
          /\ asked' = [asked EXCEPT ![t] = c]
          /\ list' = After(c) /\ given' = [given EXCEPT ![t] = <<Result(c)>>]
    /\ stage' = [stage EXCEPT ![t] = "alone"]
    /\ UNCHANGED lock

AppendAlone ==
    /\ Alone
    /\ \E s \in Extras : Len(s) <= Cardinality(Unused(list)) /\ list' = listAppendListTail(s)
    /\ UNCHANGED <<lock, asked, stage, given>>

\* Removes the head until the list is empty; then listNew makes another one.
listRelease ==
    /\ Alone
    /\ LET left[i \in 0 .. list.len] ==
               IF i = 0 THEN list ELSE Removed(left[i - 1], left[i - 1].root)
       IN list' = left[list.len]
    /\ lock' = Free
    /\ UNCHANGED <<asked, stage, given>>

Step(t) == Lock(t) \/ Body(t) \/ Return(t)

ListNext ==
    \/ \E t \in Threads : Call(t) \/ Step(t) \/ CallAlone(t)
    \/ AppendAlone \/ listRelease

ListSpec == ListInit /\ [][ListNext]_listVars

-----------------------------------------------------------------------------
\* next and prev are inverse to each other and form one ring of len nodes, with the
\* root in it; every other node is free.
RingIsSound ==
    LET ring == ToSet(Visited(list)) IN
    /\ Cardinality(ring) = list.len /\ Unused(list) = Nodes \ ring
    /\ (list.root = Nil) = (list.len = 0)
    /\ \A n \in ring : list.next[n] \in ring /\ list.prev[list.next[n]] = n

\* In a call that cannot take a step.
Waits(t) == stage[t] = "lock" /\ lock # Free

\* Whoever is in a call gets on, or waits for someone who does: only a sort that had
\* nothing to sort leaves the lock to nobody.
OnlySortStrands ==
    lock # Stuck /\ (\E t \in Threads : stage[t] # "idle")
        => \E t \in Threads : stage[t] # "idle" /\ ~Waits(t)

\* Each call does to the ring what it would do to a sequence, at one moment.
Contents == [i \in 1 .. list.len |-> list.data[Visited(list)[i]]]
D == INSTANCE Deque WITH items <- Contents
ImplementsDeque == D!Spec

=============================================================================
