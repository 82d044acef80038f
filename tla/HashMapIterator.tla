--------------------------- MODULE HashMapIterator ---------------------------
(***************************************************************************)
(* The iterator of hmap.c, with a user who goes on adding, looking up and   *)
(* deleting while it is in use.  The iterator keeps a bucket number and a   *)
(* pointer to an entry, and is told nothing.                                *)
(***************************************************************************)
EXTENDS HashMap

VARIABLES
    idx, cur,   \* the fields of struct hmapIterator; cur is the entry's key
    using,      \* whether there is an iterator
    seen,       \* history: the entries it has given that are still there
    twice,      \* history: it has given one of them again
    since,      \* history: the entries there all along
    moved,      \* history: the table was expanded while it was in use
    ended       \* history: it has returned HM_ERR

iterVars == <<idx, cur, using, seen, twice, since, moved, ended>>

IterInit ==
    /\ Init
    /\ idx = 0 /\ cur = None /\ using = FALSE
    /\ seen = {} /\ twice = FALSE /\ since = {} /\ moved = FALSE /\ ended = FALSE

hmapIteratorCreate ==
    /\ Exists /\ ~using /\ using' = TRUE
    /\ since' = KeysOf(table)
    /\ UNCHANGED <<vars, idx, cur, seen, twice, moved, ended>>

hmapIteratorRelease ==
    /\ using /\ using' = FALSE
    /\ idx' = 0 /\ cur' = None
    /\ seen' = {} /\ twice' = FALSE /\ since' = {} /\ moved' = FALSE /\ ended' = FALSE
    /\ UNCHANGED vars

\* Mutant: a chain is not followed.
AfterCurMutant == None

\* The key of cur->next.
AfterCur ==
    LET chain == table[Bucket(table, Hash[cur])] IN
    IF cur = None \/ Position(table, cur) = Len(chain) THEN None
    ELSE chain[Position(table, cur) + 1].key

\* The buckets from idx on that have an entry.
Ahead == {b \in idx .. Capacity(table) - 1 : table[b] # <<>>}

Visit(k) ==
    /\ cur' = k /\ ended' = ended
    /\ seen' = seen \union {k} /\ twice' = (twice \/ k \in seen)

\* Mutant: idx stays at the bucket whose head is given.
NextBucketMutant ==
    /\ AfterCur = None
    /\ \E b \in Ahead : (\A c \in Ahead : b <= c) /\ Visit(Head(table[b]).key) /\ idx' = b

NextBucket ==
    /\ AfterCur = None
    /\ \E b \in Ahead : (\A c \in Ahead : b <= c) /\ Visit(Head(table[b]).key) /\ idx' = b + 1

\* Nothing is given once idx is the capacity, though the last chain may go on.
NoMore ==
    /\ idx = Capacity(table) \/ (AfterCur = None /\ Ahead = {})
    /\ idx' = Capacity(table) /\ ended' = TRUE /\ UNCHANGED <<cur, seen, twice>>

\* The next entry of the chain, else the head of the next chain.
hmapIteratorGetNext ==
    /\ using /\ ~ended
    /\ \/ idx < Capacity(table) /\ AfterCur # None /\ Visit(AfterCur) /\ idx' = idx
       \/ NextBucket
       \/ NoMore
    /\ UNCHANGED <<vars, using, since, moved>>

\* The user calls the map.  It does not free what the iterator points to: the
\* current entry, or the map.
MapStep ==
    /\ Next
    /\ using => table' # <<>> /\ cur \in KeysOf(table') \union {None}
    /\ moved' = (using /\ (moved \/ Capacity(table') # Capacity(table)))
    /\ seen' = seen \intersect KeysOf(table')
    /\ since' = since \intersect KeysOf(table')
    /\ UNCHANGED <<idx, cur, using, twice, ended>>

IterNext ==
    \/ MapStep
    \/ hmapIteratorCreate \/ hmapIteratorGetNext \/ hmapIteratorRelease

IterSpec == IterInit /\ [][IterNext]_<<vars, iterVars>>

-----------------------------------------------------------------------------
\* Unless the table is expanded meanwhile, the iterator gives no entry twice.
VisitsOnce == ~moved => ~twice

\* Unless the table is expanded meanwhile, what was there all along has been
\* given by the end, but for entries of the last bucket.
Covers ==
    ended /\ ~moved =>
        \A k \in since \ seen : Bucket(table, Hash[k]) = Capacity(table) - 1

=============================================================================
