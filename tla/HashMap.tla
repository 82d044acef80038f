------------------------------- MODULE HashMap -------------------------------
(***************************************************************************)
(* The chained hash map of hmap.c: buckets, expansion and deletion.  A     *)
(* chain is the sequence of its entries, from the bucket's head on.         *)
(* Keys are compared as hmapStrCmp does; that the server's keys may change  *)
(* under the map is modelled in DictServer.                                 *)
(***************************************************************************)
EXTENDS Integers, SequencesExt

CONSTANTS
    Keys, Values,
    Hash,               \* hashString
    MinCapacity,        \* HM_MIN_CAPACITY
    FixedCapacities,    \* what hmapCreateFixed makes of the capacity asked for
    AllocMayFail,       \* malloc and calloc may return NULL
    None

ASSUME HashMapAssumption ==
    /\ Hash \in [Keys -> Nat] /\ MinCapacity \in Nat \ {0}
    /\ FixedCapacities \subseteq 1 .. MinCapacity
    /\ AllocMayFail \in BOOLEAN
    /\ None \notin Keys \union Values

VARIABLES
    table,      \* hm->entries: a chain for each of capacity buckets, <<>> without a map
    size,       \* hm->size
    fixedsize,  \* hm->fixedsize
    ret,        \* the last call and its result
    order       \* history: the entries in the order DictServer keeps them

vars == <<table, size, fixedsize, ret, order>>

Capacity(t) == Cardinality(DOMAIN t)
Bucket(t, h) == h % Capacity(t)
Entries == [key : Keys, value : Values, hash : Nat]
EntriesOf(t) == UNION {ToSet(t[b]) : b \in DOMAIN t}
KeysOf(t) == {e.key : e \in EntriesOf(t)}
Exists == table # <<>>

\* hmapKeycmp, along the chain of the key's bucket.
InChain(t, k) == \E i \in DOMAIN t[Bucket(t, Hash[k])] : t[Bucket(t, Hash[k])][i].key = k
FirstOf(s, k) == SelectInSeq(s, LAMBDA e : e.key = k)
Position(t, k) == FirstOf(t[Bucket(t, Hash[k])], k)
Entry(t, k) == t[Bucket(t, Hash[k])][Position(t, k)]

Empty(cap) == [b \in 0 .. cap - 1 |-> <<>>]

Init ==
    /\ table = <<>> /\ size = 0 /\ fixedsize = FALSE
    /\ ret = <<>> /\ order = <<>>

-----------------------------------------------------------------------------
(* Creation and release. *)

hmapCreate ==
    /\ ~Exists /\ table' = Empty(MinCapacity)
    /\ fixedsize' = FALSE
    /\ UNCHANGED <<size, ret, order>>

hmapCreateFixed(cap) ==
    /\ ~Exists /\ table' = Empty(cap)
    /\ fixedsize' = TRUE
    /\ UNCHANGED <<size, ret, order>>

\* Of the entries, those in the first size buckets are freed; memory is not
\* modelled.
hmapRelease ==
    /\ Exists /\ table' = <<>> /\ size' = 0 /\ fixedsize' = FALSE
    /\ ret' = <<>> /\ order' = <<>>

-----------------------------------------------------------------------------
(* Expansion. *)

Threshold(cap) == (67 * cap) \div 100

ShouldRebuild == size >= Threshold(Capacity(table)) /\ ~fixedsize

\* The entries of the first c buckets, by their places.
PlacesBelow(t, c) == UNION {{b} \X DOMAIN t[b] : b \in 0 .. c - 1}

\* The loop over the old buckets ends once it has moved size entries.
Reached(b) == \A c \in 0 .. b : Cardinality(PlacesBelow(table, c)) # size

\* Mutant: an entry goes to the end of its new chain.
PushedMutant(chain, cap, b) ==
    LET new[i \in 0 .. Len(chain)] ==
            IF i = 0 THEN <<>>
            ELSE IF chain[i].hash % cap = b THEN new[i - 1] \o <<chain[i]>>
            ELSE new[i - 1]
    IN new[Len(chain)]

\* What an old chain contributes to the bucket b of cap: each of its entries, from
\* its head on, becomes the head of its new chain.
Pushed(chain, cap, b) ==
    LET new[i \in 0 .. Len(chain)] ==
            IF i = 0 THEN <<>>
            ELSE IF chain[i].hash % cap = b THEN <<chain[i]>> \o new[i - 1]
            ELSE new[i - 1]
    IN new[Len(chain)]

\* _hmapExpand.
Expanded ==
    LET old == Capacity(table) IN
    [b \in 0 .. 2 * old - 1 |->
        IF Reached(b % old) THEN Pushed(table[b % old], 2 * old, b) ELSE <<>>]

\* The table, and the history, that _hmapGetIndex goes on with.  A failed
\* expansion is ignored.
Rebuilds(t, o) ==
    \/ ShouldRebuild /\ t = Expanded /\ o = Reverse(order)
    \/ (~ShouldRebuild \/ AllocMayFail) /\ t = table /\ o = order

-----------------------------------------------------------------------------
(* The operations. *)

hmapGet(k) ==
    /\ Exists
    /\ ret' = <<"get", k, IF InChain(table, k) THEN Entry(table, k).value ELSE None>>
    /\ UNCHANGED <<table, size, fixedsize, order>>

hmapContains(k) ==
    /\ Exists
    /\ \E t \in {table, Expanded} : \E o \in {order, Reverse(order)} :
          /\ Rebuilds(t, o) /\ table' = t /\ order' = o
          /\ ret' = <<"contains", k, IF InChain(t, k) THEN "found" ELSE "none">>
    /\ UNCHANGED <<size, fixedsize>>

\* Mutant: the bucket is computed before the table is expanded.
LinkedMutant(t, e) == [t EXCEPT ![Bucket(table, e.hash)] = <<e>> \o @]

\* The new entry becomes the head of its chain.
Linked(t, e) == [t EXCEPT ![Bucket(t, e.hash)] = <<e>> \o @]

hmapAdd(k, v) ==
    /\ Exists
    /\ \E t \in {table, Expanded} : \E o \in {order, Reverse(order)} :
          /\ Rebuilds(t, o)
          /\ LET new == [key |-> k, value |-> v, hash |-> Hash[k]] IN
             \/ /\ InChain(t, k) /\ ret' = <<"add", k, "found">>
                /\ table' = t /\ order' = o /\ size' = size
             \/ /\ ~InChain(t, k) /\ AllocMayFail /\ ret' = <<"add", k, "err">>
                /\ table' = t /\ order' = o /\ size' = size
             \/ /\ ~InChain(t, k) /\ ret' = <<"add", k, "ok">>
                /\ table' = Linked(t, new) /\ order' = <<new>> \o o /\ size' = size + 1
    /\ UNCHANGED fixedsize

\* Mutant: the size is counted down whether or not the key is found.
hmapDeleteMutant(k) ==
    /\ Exists /\ size' = size - 1
    /\ \/ /\ InChain(table, k) /\ ret' = <<"delete", k, Entry(table, k).value>>
          /\ table' = [table EXCEPT ![Bucket(table, Hash[k])] = RemoveAt(@, Position(table, k))]
          /\ order' = RemoveAt(order, FirstOf(order, k))
       \/ /\ ~InChain(table, k) /\ ret' = <<"delete", k, None>>
          /\ UNCHANGED <<table, order>>
    /\ UNCHANGED fixedsize

\* The entry goes to the caller, who frees it.
hmapDelete(k) ==
    /\ Exists
    /\ \/ /\ InChain(table, k) /\ ret' = <<"delete", k, Entry(table, k).value>>
          /\ table' = [table EXCEPT ![Bucket(table, Hash[k])] = RemoveAt(@, Position(table, k))]
          /\ order' = RemoveAt(order, FirstOf(order, k))
          /\ size' = size - 1
       \/ /\ ~InChain(table, k) /\ ret' = <<"delete", k, None>>
          /\ UNCHANGED <<table, order, size>>
    /\ UNCHANGED fixedsize

-----------------------------------------------------------------------------
Next ==
    \/ hmapCreate \/ hmapRelease
    \/ \E cap \in FixedCapacities : hmapCreateFixed(cap)
    \/ \E k \in Keys : \/ hmapGet(k) \/ hmapContains(k) \/ hmapDelete(k)
                       \/ \E v \in Values : hmapAdd(k, v)

Spec == Init /\ [][Next]_vars

-----------------------------------------------------------------------------
TypeOK ==
    /\ Exists => Capacity(table) \in Nat \ {0} /\ table \in [0 .. Capacity(table) - 1 -> Seq(Entries)]
    /\ size \in Nat /\ fixedsize \in BOOLEAN
    /\ order \in Seq(Entries)

\* An entry is in the bucket its stored hash and the present mask give, and no
\* key has two entries, after whatever expansions came between.
EntriesInPlace ==
    \A b, c \in DOMAIN table : \A i \in DOMAIN table[b], j \in DOMAIN table[c] :
        /\ Bucket(table, table[b][i].hash) = b /\ table[b][i].hash = Hash[table[b][i].key]
        /\ table[b][i].key = table[c][j].key => b = c /\ i = j

\* size is the number of entries in the chains; _hmapExpand stops by it.
SizeIsExact == size = Cardinality(PlacesBelow(table, Capacity(table)))

\* Each chain is the part of one sequence that falls into its bucket, where a new
\* entry comes first and an expansion reverses everything.
ChainsAreOrder ==
    /\ ToSet(order) = EntriesOf(table) /\ IsInjective(order)
    /\ \A b \in DOMAIN table : \A i, j \in DOMAIN table[b], m, n \in DOMAIN order :
          order[m] = table[b][i] /\ order[n] = table[b][j] /\ i < j => m < n

\* The first of M's entries along s.
FirstIn(s, M) == {s[i] : i \in {j \in DOMAIN s : s[j] \in M /\ \A h \in 1 .. j - 1 : s[h] \notin M}}

\* DictServer may keep its cache as one sequence: size, by which hmapAdd decides to
\* expand, is its length; and whichever entries of a hash a comparison of keys takes
\* for equal, the walk along the chain stops at the one that comes first in it.
ServedAsSequence ==
    Exists =>
        /\ size = Len(order)
        /\ \A h \in Range(Hash) : \A M \in SUBSET {e \in EntriesOf(table) : e.hash = h} :
              FirstIn(table[Bucket(table, h)], M) = FirstIn(order, M)

\* hmap.h's functions give what a finite map gives.
Contents == [k \in Keys |-> IF Exists /\ InChain(table, k) THEN Entry(table, k).value ELSE None]
FM == INSTANCE FiniteMap WITH map <- Contents
ImplementsFiniteMap == FM!Spec

=============================================================================
