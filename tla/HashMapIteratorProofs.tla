------------------------ MODULE HashMapIteratorProofs ------------------------
(***************************************************************************)
(* Proofs about the hash map's iterator, whatever its user does to the map  *)
(* meanwhile.                                                               *)
(***************************************************************************)
EXTENDS HashMapIterator, HashMapProofs

\* The iterator has come past k when it stands at c: k is in an earlier bucket, or no
\* further down the same chain.
Passed(t, c, k) ==
    /\ c # None
    /\ \/ Bucket(t, Hash[k]) < Bucket(t, Hash[c])
       \/ Bucket(t, Hash[k]) = Bucket(t, Hash[c]) /\ Position(t, k) <= Position(t, c)

\* What it has given is what it has come past, except for what was added behind it.
Progress(t, i, c, s, a) ==
    /\ i = IF c = None THEN 0 ELSE Bucket(t, Hash[c]) + 1
    /\ \A k \in s : Passed(t, c, k)
    /\ \A k \in a : Passed(t, c, k) => k \in s

IterInv ==
    /\ ~using => /\ idx = 0 /\ cur = None /\ seen = {} /\ since = {}
                 /\ ~twice /\ ~moved /\ ~ended
    /\ using => Exists
    /\ idx \in Nat /\ cur \in KeysOf(table) \union {None}
    /\ seen \subseteq KeysOf(table) /\ since \subseteq KeysOf(table)
    /\ ~moved /\ ~ended => Progress(table, idx, cur, seen, since)
    /\ VisitsOnce /\ Covers

-----------------------------------------------------------------------------
(* Keys and their places.                                                   *)

\* A key of the table has one place, in the bucket of its hash.
LEMMA PlaceOf ==
    ASSUME NEW t, Typed(t), InPlace(t), NEW k \in KeysOf(t)
    PROVE  /\ k \in Keys /\ Bucket(t, Hash[k]) \in DOMAIN t
           /\ Position(t, k) \in DOMAIN t[Bucket(t, Hash[k])]
           /\ t[Bucket(t, Hash[k])][Position(t, k)].key = k
<1>1. PICK e \in EntriesOf(t) : k = e.key
  BY DEF KeysOf
<1>2. k \in Keys
  BY <1>1, Chains DEF Entries
<1>3. InChain(t, k)
  BY <1>1, <1>2, Lookup
<1> QED BY <1>2, <1>3, Lookup DEF Entry

\* And every place is that of its key.
LEMMA PlaceIs ==
    ASSUME NEW t, Typed(t), InPlace(t), NEW b \in DOMAIN t, NEW i \in DOMAIN t[b]
    PROVE  /\ t[b][i].key \in KeysOf(t)
           /\ Bucket(t, Hash[t[b][i].key]) = b /\ Position(t, t[b][i].key) = i
<1> DEFINE k == t[b][i].key
           c == Bucket(t, Hash[k])
           j == Position(t, k)
<1>1. t[b][i] \in EntriesOf(t)
  BY Chains
<1>2. k \in KeysOf(t)
  BY <1>1 DEF KeysOf
<1> HIDE DEF k
<1>3. c \in DOMAIN t /\ j \in DOMAIN t[c] /\ t[c][j].key = k
  BY <1>2, PlaceOf
<1> HIDE DEF c, j
<1>4. c = b /\ j = i
  <2>1. t[b][i].key = t[c][j].key
    BY <1>3 DEF k
  <2> QED BY <1>3, <2>1 DEF InPlace
<1> QED BY <1>2, <1>4 DEF k, c, j

\* The buckets and positions of keys are numbers, in their ranges.
LEMMA PlaceRanges ==
    ASSUME NEW t, Typed(t), InPlace(t), NEW k \in KeysOf(t)
    PROVE  /\ Bucket(t, Hash[k]) \in 0 .. Capacity(t) - 1 /\ Capacity(t) \in Nat \ {0}
           /\ Len(t[Bucket(t, Hash[k])]) \in Nat
           /\ Position(t, k) \in 1 .. Len(t[Bucket(t, Hash[k])])
<1> DEFINE b == Bucket(t, Hash[k])
<1>1. b \in DOMAIN t /\ Position(t, k) \in DOMAIN t[b]
  BY PlaceOf
<1>2. Capacity(t) \in Nat \ {0}
  BY DEF Typed
<1> HIDE DEF b
<1>3. DOMAIN t = 0 .. Capacity(t) - 1 /\ Len(t[b]) \in Nat /\ DOMAIN t[b] = 1 .. Len(t[b])
  BY <1>1, Chains
<1> QED BY <1>1, <1>2, <1>3 DEF b

\* u has the capacity of t and, of two keys of one bucket, the same one first.
SameOrder(t, u) ==
    /\ Capacity(u) = Capacity(t)
    /\ \A k, l \in KeysOf(t) \intersect KeysOf(u) :
          Bucket(t, Hash[k]) = Bucket(t, Hash[l]) =>
              (Position(t, k) <= Position(t, l) <=> Position(u, k) <= Position(u, l))

\* hmapAdd keeps the order of the other keys.
LEMMA LinkedSameOrder ==
    ASSUME NEW t, Typed(t), InPlace(t), NEW e \in Entries, e.hash = Hash[e.key],
           \A f \in EntriesOf(t) : f.key # e.key
    PROVE  SameOrder(t, Linked(t, e))
<1> DEFINE u == Linked(t, e)
           b == Bucket(t, e.hash)
           shift(c, i) == IF c = b THEN i + 1 ELSE i
<1>1. /\ Typed(u) /\ Capacity(u) = Capacity(t) /\ DOMAIN u = DOMAIN t /\ InPlace(u) /\ b \in DOMAIN t
      /\ \A c \in DOMAIN t : c # b => u[c] = t[c]
      /\ DOMAIN u[b] = 1 .. Len(t[b]) + 1
      /\ \A i \in DOMAIN t[b] : u[b][i + 1] = t[b][i]
  BY LinkedProperties, LinkedInPlace
<1> HIDE DEF u, b
<1>2. \A c \in DOMAIN t : DOMAIN t[c] = 1 .. Len(t[c]) /\ Len(t[c]) \in Nat
  BY Chains
<1>3. \A c \in DOMAIN t : \A i \in DOMAIN t[c] : shift(c, i) \in DOMAIN u[c] /\ u[c][shift(c, i)] = t[c][i]
  BY <1>1, <1>2
<1> HIDE DEF shift
<1>4. ASSUME NEW k \in KeysOf(t)
      PROVE  Position(u, k) = shift(Bucket(t, Hash[k]), Position(t, k)) /\ Position(t, k) \in Nat
  <2> DEFINE c == Bucket(t, Hash[k])
             i == Position(t, k)
  <2>1. c \in DOMAIN t /\ i \in DOMAIN t[c] /\ t[c][i].key = k
    BY PlaceOf
  <2> HIDE DEF c, i
  <2>2. u[c][shift(c, i)].key = k /\ shift(c, i) \in DOMAIN u[c] /\ c \in DOMAIN u
    BY <1>1, <1>3, <2>1
  <2>3. Position(u, k) = shift(c, i)
    BY <1>1, <2>2, PlaceIs
  <2> QED BY <1>2, <2>1, <2>3 DEF c, i
<1>5. ASSUME NEW k \in KeysOf(t), NEW l \in KeysOf(t), Bucket(t, Hash[k]) = Bucket(t, Hash[l])
      PROVE  Position(t, k) <= Position(t, l) <=> Position(u, k) <= Position(u, l)
  BY <1>4, <1>5 DEF shift
<1> QED BY <1>1, <1>5 DEF SameOrder, u

\* So does hmapDelete.
LEMMA DeletedSameOrder ==
    ASSUME NEW t, Typed(t), InPlace(t), NEW k \in Keys, InChain(t, k)
    PROVE  SameOrder(t, Deleted(t, k))
<1> DEFINE u == Deleted(t, k)
           b == Bucket(t, Hash[k])
           p == Position(t, k)
           shift(c, i) == IF c = b THEN Shifted(i, p) ELSE i
<1>1. /\ Typed(u) /\ Capacity(u) = Capacity(t) /\ DOMAIN u = DOMAIN t /\ InPlace(u) /\ b \in DOMAIN t
      /\ \A c \in DOMAIN t : c # b => u[c] = t[c]
      /\ p \in DOMAIN t[b]
      /\ \A i \in DOMAIN u[b] : Shifted(i, p) \in DOMAIN t[b] /\ u[b][i] = t[b][Shifted(i, p)]
  BY DeletedProperties, DeletedInPlace
<1> HIDE DEF u, b, p
<1>2. /\ \A c \in DOMAIN t : DOMAIN t[c] = 1 .. Len(t[c]) /\ Len(t[c]) \in Nat
      /\ \A c \in DOMAIN u : DOMAIN u[c] = 1 .. Len(u[c]) /\ Len(u[c]) \in Nat
  BY <1>1, Chains
<1>3. \A c \in DOMAIN u : \A i \in DOMAIN u[c] : shift(c, i) \in DOMAIN t[c] /\ u[c][i] = t[c][shift(c, i)]
  BY <1>1
<1> HIDE DEF shift
<1>4. ASSUME NEW l \in KeysOf(u)
      PROVE  Position(t, l) = shift(Bucket(u, Hash[l]), Position(u, l)) /\ Position(u, l) \in Nat
  <2> DEFINE c == Bucket(u, Hash[l])
             i == Position(u, l)
  <2>1. c \in DOMAIN u /\ i \in DOMAIN u[c] /\ u[c][i].key = l
    BY <1>1, PlaceOf
  <2> HIDE DEF c, i
  <2>2. t[c][shift(c, i)].key = l /\ shift(c, i) \in DOMAIN t[c] /\ c \in DOMAIN t
    BY <1>1, <1>3, <2>1
  <2>3. Position(t, l) = shift(c, i)
    BY <2>2, PlaceIs
  <2> QED BY <1>2, <2>1, <2>3 DEF c, i
<1>5. ASSUME NEW l \in KeysOf(u), NEW m \in KeysOf(u), Bucket(t, Hash[l]) = Bucket(t, Hash[m])
      PROVE  Position(t, l) <= Position(t, m) <=> Position(u, l) <= Position(u, m)
  <2>1. Bucket(u, Hash[l]) = Bucket(u, Hash[m])
    BY <1>1, <1>5 DEF Bucket
  <2>2. p \in Nat
    BY <1>1, <1>2
  <2>3. CASE Bucket(u, Hash[l]) = b
    <3>1. Position(t, l) = Shifted(Position(u, l), p) /\ Position(t, m) = Shifted(Position(u, m), p)
      BY <1>4, <2>1, <2>3 DEF shift
    <3> QED BY <1>4, <2>2, <3>1 DEF Shifted
  <2>4. CASE Bucket(u, Hash[l]) # b
    <3>1. Position(t, l) = Position(u, l) /\ Position(t, m) = Position(u, m)
      BY <1>4, <2>1, <2>4 DEF shift
    <3> QED BY <3>1
  <2> QED BY <2>3, <2>4
<1> QED BY <1>1, <1>5 DEF SameOrder, u

LEMMA SameOrderRefl == \A t : SameOrder(t, t)
BY DEF SameOrder

\* A call of the map either doubles its capacity or keeps the order of the keys.
LEMMA StepSameOrder ==
    ASSUME Inv, Exists, Next, table' # <<>>, Capacity(table') = Capacity(table)
    PROVE  SameOrder(table, table')
<1>1. Typed(table) /\ InPlace(table) /\ Counted(table, size)
  BY DEF Inv
<1>2. Capacity(Expanded) # Capacity(table)
  BY <1>1, ExpandedProperties DEF Typed
<1>3. CASE hmapCreate
  BY <1>3 DEF hmapCreate
<1>4. CASE \E cap \in FixedCapacities : hmapCreateFixed(cap)
  BY <1>4 DEF hmapCreateFixed
<1>5. CASE hmapRelease
  BY <1>5 DEF hmapRelease
<1>6. ASSUME NEW k \in Keys, hmapGet(k) PROVE SameOrder(table, table')
  BY <1>6, SameOrderRefl DEF hmapGet
<1>7. ASSUME NEW k \in Keys, hmapContains(k) PROVE SameOrder(table, table')
  <2>1. table' = table \/ table' = Expanded
    BY <1>7 DEF hmapContains
  <2> QED BY <1>2, <2>1, SameOrderRefl
<1>8. ASSUME NEW k \in Keys, hmapDelete(k) PROVE SameOrder(table, table')
  <2>1. table' = table \/ (InChain(table, k) /\ table' = Deleted(table, k))
    BY <1>8 DEF hmapDelete, Deleted
  <2> QED BY <1>1, <2>1, DeletedSameOrder, SameOrderRefl
<1>9. ASSUME NEW k \in Keys, NEW v \in Values, hmapAdd(k, v) PROVE SameOrder(table, table')
  <2> DEFINE e == NewEntry(k, v)
  <2>1. PICK t, o : /\ Rebuilds(t, o)
                    /\ table' = t \/ (~InChain(t, k) /\ table' = Linked(t, e))
    BY <1>9 DEF hmapAdd, NewEntry
  <2>2. Typed(t) /\ InPlace(t)
    BY <2>1, Rebuilt
  <2>3. e \in Entries /\ e.hash = Hash[e.key] /\ e.key = k
    BY HashNat DEF NewEntry, Entries
  <2> HIDE DEF e
  <2>4. CASE table' = t
    <3>1. t = table
      BY <1>2, <2>1, <2>4 DEF Rebuilds
    <3> QED BY <2>4, <3>1, SameOrderRefl
  <2>5. CASE ~InChain(t, k) /\ table' = Linked(t, e)
    <3>1. \A f \in EntriesOf(t) : f.key # e.key
      BY <2>2, <2>3, <2>5, Lookup
    <3>2. Capacity(table') = Capacity(t)
      BY <2>2, <2>3, <2>5, <3>1, LinkedProperties
    <3>3. t = table
      BY <1>2, <2>1, <3>2 DEF Rebuilds
    <3> QED BY <1>1, <2>3, <2>5, <3>1, <3>3, LinkedSameOrder
  <2> QED BY <2>1, <2>4, <2>5
<1> QED BY <1>3, <1>4, <1>5, <1>6, <1>7, <1>8, <1>9 DEF Next, Exists

\* What the iterator has come past stays behind it.
LEMMA PassedKept ==
    ASSUME NEW t, NEW u, SameOrder(t, u), NEW k \in KeysOf(t) \intersect KeysOf(u),
           NEW c \in (KeysOf(t) \intersect KeysOf(u)) \union {None}
    PROVE  Passed(t, c, k) <=> Passed(u, c, k)
BY DEF Passed, SameOrder, Bucket

-----------------------------------------------------------------------------
(* The steps.                                                               *)

LEMMA IterMapStep ==
    ASSUME Inv, IterInv, MapStep
    PROVE  IterInv'
<1>1. CASE ~using
  BY <1>1 DEF IterInv, MapStep, Progress, VisitsOnce, Covers, Passed
<1>2. CASE using
  <2>1. Exists /\ table' # <<>> /\ Next /\ cur' = cur /\ cur \in KeysOf(table') \union {None}
    BY <1>2 DEF IterInv, MapStep
  <2>2. /\ seen' = seen \intersect KeysOf(table') /\ since' = since \intersect KeysOf(table')
        /\ seen \subseteq KeysOf(table) /\ since \subseteq KeysOf(table)
        /\ cur \in KeysOf(table) \union {None}
        /\ UNCHANGED <<idx, cur, using, twice, ended>>
    BY <1>2 DEF IterInv, MapStep
  <2>3. ASSUME ~moved'
        PROVE  /\ ~moved /\ SameOrder(table, table') /\ ~twice
               /\ ~ended => Progress(table', idx, cur, seen', since')
               /\ Covers'
    <3>1. ~moved /\ Capacity(table') = Capacity(table)
      BY <1>2, <2>3 DEF MapStep
    <3>2. SameOrder(table, table')
      BY <2>1, <3>1, StepSameOrder
    <3>3. ~twice
      BY <3>1 DEF IterInv, VisitsOnce
    <3>4. ASSUME ~ended PROVE Progress(table', idx, cur, seen', since')
      <4>1. Progress(table, idx, cur, seen, since)
        BY <3>1, <3>4 DEF IterInv
      <4>2. idx = IF cur = None THEN 0 ELSE Bucket(table', Hash[cur]) + 1
        BY <3>1, <4>1 DEF Progress, Bucket
      <4>3. ASSUME NEW k \in seen' PROVE Passed(table', cur, k)
        BY <2>1, <2>2, <3>2, <4>1, PassedKept DEF Progress
      <4>4. ASSUME NEW k \in since', Passed(table', cur, k) PROVE k \in seen'
        BY <2>1, <2>2, <3>2, <4>1, <4>4, PassedKept DEF Progress
      <4> QED BY <4>2, <4>3, <4>4 DEF Progress
    <3>5. Covers'
      <4>1. Covers
        BY DEF IterInv
      <4>2. \A k \in since' \ seen' : k \in since \ seen
        BY <2>2
      <4> QED BY <2>2, <3>1, <4>1, <4>2 DEF Covers, Bucket
    <3> QED BY <3>1, <3>2, <3>3, <3>4, <3>5
  <2>4. VisitsOnce' /\ Covers' /\ (~moved' /\ ~ended' => Progress(table, idx, cur, seen, since)')
    BY <2>2, <2>3 DEF VisitsOnce, Covers
  <2>5. using' /\ Exists'
    BY <1>2, <2>1, <2>2 DEF Exists
  <2> QED BY <2>1, <2>2, <2>4, <2>5 DEF IterInv
<1> QED BY <1>1, <1>2

LEMMA IterCreateStep ==
    ASSUME Inv, IterInv, hmapIteratorCreate
    PROVE  IterInv'
<1>1. idx = 0 /\ cur = None /\ seen = {} /\ ~twice /\ ~moved /\ ~ended
  BY DEF IterInv, hmapIteratorCreate
<1>2. Exists /\ using' /\ since' = KeysOf(table) /\ UNCHANGED <<vars, idx, cur, seen, twice, moved, ended>>
  BY DEF hmapIteratorCreate
<1> QED BY <1>1, <1>2 DEF IterInv, Progress, Passed, VisitsOnce, Covers, vars, Exists

LEMMA IterReleaseStep ==
    ASSUME Inv, IterInv, hmapIteratorRelease
    PROVE  IterInv'
BY DEF IterInv, hmapIteratorRelease, Progress, Passed, VisitsOnce, Covers, vars, Exists

\* The next entry of the chain is the first one not come past.
LEMMA ChainStep ==
    ASSUME Inv, IterInv, using, ~ended, ~moved, AfterCur # None, Visit(AfterCur), idx' = idx,
           UNCHANGED <<table, since>>
    PROVE  /\ cur' \in KeysOf(table) /\ cur' \notin seen
           /\ Progress(table, idx', cur', seen', since)
<1> DEFINE b == Bucket(table, Hash[cur])
           p == Position(table, cur)
           n == table[b][p + 1].key
<1>1. Typed(table) /\ InPlace(table) /\ Progress(table, idx, cur, seen, since)
  BY DEF Inv, IterInv
<1>2. cur # None /\ p # Len(table[b]) /\ AfterCur = n
  BY DEF AfterCur
<1>3. cur \in KeysOf(table) /\ seen \subseteq KeysOf(table) /\ since \subseteq KeysOf(table)
  BY <1>2 DEF IterInv
<1>4. b \in DOMAIN table /\ p \in 1 .. Len(table[b]) /\ Len(table[b]) \in Nat /\ b \in Nat
  BY <1>1, <1>3, PlaceOf, PlaceRanges
<1>5. DOMAIN table[b] = 1 .. Len(table[b])
  <2> HIDE DEF b
  <2> QED BY <1>1, <1>4, Chains
<1> HIDE DEF b, p
<1>6. p + 1 \in DOMAIN table[b]
  <2>1. p + 1 \in 1 .. Len(table[b])
    BY <1>2, <1>4
  <2> QED BY <1>5, <2>1, Zenon
<1>7. n \in KeysOf(table) /\ Bucket(table, Hash[n]) = b /\ Position(table, n) = p + 1
  BY <1>1, <1>4, <1>6, PlaceIs
<1>8. n # None
  BY <1>1, <1>7, PlaceOf, HashMapAssumption
<1> HIDE DEF n
<1>9. \A k \in KeysOf(table) : Passed(table, cur, k) \/ k = n <=> Passed(table, n, k)
  <2>1. ASSUME NEW k \in KeysOf(table) PROVE Passed(table, cur, k) \/ k = n <=> Passed(table, n, k)
    <3>1. Position(table, k) \in Nat /\ Bucket(table, Hash[k]) \in Nat
      BY <1>1, PlaceRanges
    <3>2. ASSUME Bucket(table, Hash[k]) = b, Position(table, k) = p + 1 PROVE k = n
      BY <1>1, <3>2, PlaceOf DEF n
    <3>3. Passed(table, cur, k) <=>
              Bucket(table, Hash[k]) < b \/ (Bucket(table, Hash[k]) = b /\ Position(table, k) <= p)
      BY <1>2 DEF Passed, b, p
    <3>4. Passed(table, n, k) <=>
              Bucket(table, Hash[k]) < b \/ (Bucket(table, Hash[k]) = b /\ Position(table, k) <= p + 1)
      BY <1>7, <1>8 DEF Passed
    <3> QED BY <1>4, <1>7, <3>1, <3>2, <3>3, <3>4
  <2> QED BY <2>1
<1>10. ~Passed(table, cur, n)
  BY <1>4, <1>7 DEF Passed, b, p
<1>11. n \notin seen
  BY <1>1, <1>10 DEF Progress
<1>12. cur' = n /\ seen' = seen \union {n}
  BY <1>2 DEF Visit
<1>13. Progress(table, idx', n, seen', since)
  <2>1. idx' = Bucket(table, Hash[n]) + 1
    BY <1>1, <1>2, <1>7 DEF Progress, b
  <2>2. \A k \in seen' : Passed(table, n, k)
    BY <1>1, <1>3, <1>7, <1>9, <1>12 DEF Progress
  <2>3. \A k \in since : Passed(table, n, k) => k \in seen'
    BY <1>1, <1>3, <1>9, <1>12 DEF Progress
  <2> QED BY <1>8, <2>1, <2>2, <2>3 DEF Progress
<1> QED BY <1>7, <1>11, <1>12, <1>13

\* At the end of a chain, everything in the buckets before idx has been come past.
LEMMA ChainEnds ==
    ASSUME Inv, IterInv, using, ~ended, ~moved, AfterCur = None, NEW k \in KeysOf(table),
           Bucket(table, Hash[k]) < idx
    PROVE  Passed(table, cur, k)
<1> DEFINE b == Bucket(table, Hash[cur])
           p == Position(table, cur)
<1>1. Typed(table) /\ InPlace(table) /\ Progress(table, idx, cur, seen, since)
  BY DEF Inv, IterInv
<1>2. Bucket(table, Hash[k]) \in Nat /\ Position(table, k) \in 1 .. Len(table[Bucket(table, Hash[k])])
  BY <1>1, PlaceRanges
<1>3. cur # None
  BY <1>1, <1>2 DEF Progress
<1>4. cur \in KeysOf(table)
  BY <1>3 DEF IterInv
<1>5. b \in DOMAIN table /\ p \in 1 .. Len(table[b]) /\ Len(table[b]) \in Nat /\ b \in Nat
  BY <1>1, <1>4, PlaceOf, PlaceRanges
<1>6. DOMAIN table[b] = 1 .. Len(table[b])
  <2> HIDE DEF b
  <2> QED BY <1>1, <1>5, Chains
<1>7. p = Len(table[b])
  <2>1. ASSUME p # Len(table[b]) PROVE FALSE
    <3>1. AfterCur = table[b][p + 1].key
      BY <1>3, <2>1 DEF AfterCur
    <3> HIDE DEF b, p
    <3>2. p + 1 \in DOMAIN table[b]
      <4>1. p + 1 \in 1 .. Len(table[b])
        BY <1>5, <2>1
      <4> QED BY <1>6, <4>1, Zenon
    <3>3. table[b][p + 1].key \in KeysOf(table)
      BY <1>1, <1>5, <3>2, PlaceIs
    <3>4. table[b][p + 1].key \in Keys
      BY <1>1, <3>3, PlaceOf
    <3> QED BY <3>1, <3>4, HashMapAssumption
  <2> QED BY <2>1
<1>8. Bucket(table, Hash[k]) < b \/ Bucket(table, Hash[k]) = b
  <2>1. idx = b + 1
    BY <1>1, <1>3 DEF Progress
  <2> HIDE DEF b
  <2> QED BY <1>2, <1>5, <2>1
<1>9. Bucket(table, Hash[k]) = b => Position(table, k) <= p
  BY <1>2, <1>5, <1>7
<1> QED BY <1>3, <1>8, <1>9 DEF Passed

\* The head of the next chain is the first entry not come past.
LEMMA BucketStep ==
    ASSUME Inv, IterInv, using, ~ended, ~moved, NextBucket, UNCHANGED <<table, since>>
    PROVE  /\ cur' \in KeysOf(table) /\ cur' \notin seen
           /\ Progress(table, idx', cur', seen', since)
<1>1. Typed(table) /\ InPlace(table) /\ Progress(table, idx, cur, seen, since) /\ AfterCur = None
  BY DEF Inv, IterInv, NextBucket
<1>2. PICK b \in Ahead : (\A c \in Ahead : b <= c) /\ Visit(Head(table[b]).key) /\ idx' = b + 1
  BY DEF NextBucket
<1>3. b \in idx .. Capacity(table) - 1 /\ table[b] # <<>>
  BY <1>2 DEF Ahead
<1>4. idx \in Nat
  BY DEF IterInv
<1>5. b \in DOMAIN table /\ b \in Nat /\ Capacity(table) \in Nat
  <2>1. Capacity(table) \in Nat
    BY <1>1 DEF Typed
  <2> QED BY <1>1, <1>3, <1>4, <2>1, Chains
<1>6. table[b] \in Seq(Entries) /\ DOMAIN table[b] = 1 .. Len(table[b])
  BY <1>1, <1>5, Chains
<1>7. 1 \in DOMAIN table[b] /\ Head(table[b]) = table[b][1]
  <2>1. Len(table[b]) \in Nat /\ Len(table[b]) # 0
    BY <1>3, <1>6, EmptySeq, LenProperties
  <2> QED BY <1>6, <2>1
<1> DEFINE n == table[b][1].key
<1>8. n \in KeysOf(table) /\ Bucket(table, Hash[n]) = b /\ Position(table, n) = 1
  BY <1>1, <1>5, <1>7, PlaceIs
<1>9. n # None
  BY <1>1, <1>8, PlaceOf, HashMapAssumption
<1>10. cur' = n /\ seen' = seen \union {n}
  BY <1>2, <1>7 DEF Visit
<1>11. ~Passed(table, cur, n)
  <2>1. ASSUME Passed(table, cur, n) PROVE FALSE
    <3>1. cur # None /\ (b < Bucket(table, Hash[cur]) \/ b = Bucket(table, Hash[cur]))
      BY <1>8, <2>1 DEF Passed
    <3>2. cur \in KeysOf(table) /\ idx = Bucket(table, Hash[cur]) + 1
      BY <1>1, <3>1 DEF IterInv, Progress
    <3>3. Bucket(table, Hash[cur]) \in Nat
      BY <1>1, <3>2, PlaceRanges
    <3> QED BY <1>3, <1>4, <1>5, <3>1, <3>2, <3>3
  <2> QED BY <2>1
<1>12. n \notin seen
  BY <1>1, <1>11 DEF Progress
<1> HIDE DEF n
<1>13. ASSUME NEW k \in KeysOf(table), Passed(table, n, k)
       PROVE  k = n \/ Passed(table, cur, k)
  <2> DEFINE c == Bucket(table, Hash[k])
  <2>1. /\ c \in DOMAIN table /\ Position(table, k) \in DOMAIN table[c]
        /\ table[c][Position(table, k)].key = k
    BY <1>1, PlaceOf
  <2>2. c \in 0 .. Capacity(table) - 1 /\ Position(table, k) \in 1 .. Len(table[c]) /\ Len(table[c]) \in Nat
    BY <1>1, PlaceRanges
  <2>3. CASE c < idx
    BY <1>1, <2>3, ChainEnds
  <2>4. CASE c >= idx
    <3>1. table[c] # <<>>
      BY <2>2
    <3> HIDE DEF c
    <3>2. c \in Ahead
      BY <1>4, <1>5, <2>2, <2>4, <3>1 DEF Ahead
    <3>3. b <= c
      BY <1>2, <3>2
    <3>4. c < b \/ (c = b /\ Position(table, k) <= 1)
      BY <1>8, <1>13 DEF Passed, c
    <3>5. c = b /\ Position(table, k) = 1
      BY <1>5, <2>2, <3>3, <3>4
    <3> QED BY <2>1, <3>5 DEF n
  <2> QED BY <1>4, <1>5, <2>2, <2>3, <2>4
<1>14. ASSUME NEW k \in KeysOf(table), Passed(table, cur, k)
       PROVE  Passed(table, n, k)
  <2> DEFINE c == Bucket(table, Hash[k])
             d == Bucket(table, Hash[cur])
  <2>1. cur # None /\ (c < d \/ c = d) /\ c \in Nat
    BY <1>1, <1>14, PlaceRanges DEF Passed
  <2>2. cur \in KeysOf(table) /\ idx = d + 1
    BY <1>1, <2>1 DEF IterInv, Progress
  <2>3. d \in Nat
    BY <1>1, <2>2, PlaceRanges
  <2> HIDE DEF c, d
  <2>4. c < b
    BY <1>3, <1>4, <1>5, <2>1, <2>2, <2>3
  <2> QED BY <1>8, <1>9, <2>4 DEF Passed, c
<1>15. Progress(table, idx', n, seen', since)
  <2>1. seen \subseteq KeysOf(table) /\ since \subseteq KeysOf(table)
    BY DEF IterInv
  <2>2. Passed(table, n, n)
    BY <1>8, <1>9 DEF Passed
  <2>3. \A k \in seen' : Passed(table, n, k)
    BY <1>1, <1>10, <1>14, <2>1, <2>2 DEF Progress
  <2>4. \A k \in since : Passed(table, n, k) => k \in seen'
    BY <1>1, <1>10, <1>13, <2>1 DEF Progress
  <2> QED BY <1>2, <1>8, <1>9, <2>3, <2>4 DEF Progress
<1> QED BY <1>8, <1>10, <1>12, <1>15 DEF n

\* At the end only the rest of the last chain has not been come past.
LEMMA EndStep ==
    ASSUME Inv, IterInv, using, ~ended, ~moved, NoMore
    PROVE  \A k \in since \ seen : Bucket(table, Hash[k]) = Capacity(table) - 1
<1>1. Typed(table) /\ InPlace(table) /\ Progress(table, idx, cur, seen, since)
  BY DEF Inv, IterInv
<1>2. ASSUME NEW k \in since \ seen PROVE Bucket(table, Hash[k]) = Capacity(table) - 1
  <2> DEFINE c == Bucket(table, Hash[k])
  <2>1. k \in KeysOf(table) /\ ~Passed(table, cur, k)
    BY <1>1 DEF IterInv, Progress
  <2>2. /\ c \in 0 .. Capacity(table) - 1 /\ Capacity(table) \in Nat
        /\ Position(table, k) \in 1 .. Len(table[c]) /\ Len(table[c]) \in Nat
    BY <1>1, <2>1, PlaceRanges
  <2>3. CASE AfterCur = None /\ Ahead = {}
    <3>1. ~(c < idx)
      BY <2>1, <2>3, ChainEnds
    <3>2. table[c] # <<>>
      BY <2>2
    <3>3. c \notin Ahead
      BY <2>3
    <3>4. idx \in Nat
      BY DEF IterInv
    <3> HIDE DEF c
    <3> QED BY <2>2, <3>1, <3>2, <3>3, <3>4 DEF Ahead
  <2>4. CASE idx = Capacity(table)
    <3>1. Capacity(table) # 0
      BY <2>2
    <3>2. cur # None
      BY <1>1, <2>4, <3>1 DEF Progress
    <3>3. Bucket(table, Hash[cur]) \in Nat
      BY <1>1, <3>2, PlaceRanges DEF IterInv
    <3>4. Bucket(table, Hash[cur]) = Capacity(table) - 1
      BY <1>1, <2>4, <3>2, <3>3 DEF Progress
    <3>5. ~(c < Bucket(table, Hash[cur]))
      BY <2>1, <3>2 DEF Passed
    <3> HIDE DEF c
    <3> QED BY <2>2, <3>4, <3>5 DEF c
  <2> QED BY <2>3, <2>4 DEF NoMore
<1> QED BY <1>2

\* What comes after cur is a key of the table, wherever the iterator has got to.
LEMMA AfterCurIsKey ==
    ASSUME Inv, IterInv, using, AfterCur # None
    PROVE  AfterCur \in KeysOf(table)
<1> DEFINE b == Bucket(table, Hash[cur])
           p == Position(table, cur)
<1>1. Typed(table) /\ InPlace(table)
  BY DEF Inv, IterInv
<1>2. cur # None /\ p # Len(table[b]) /\ AfterCur = table[b][p + 1].key
  BY DEF AfterCur
<1>3. cur \in KeysOf(table)
  BY <1>2 DEF IterInv
<1>4. b \in DOMAIN table /\ p \in 1 .. Len(table[b]) /\ Len(table[b]) \in Nat
  BY <1>1, <1>3, PlaceOf, PlaceRanges
<1> HIDE DEF b, p
<1>5. p + 1 \in 1 .. Len(table[b]) /\ DOMAIN table[b] = 1 .. Len(table[b])
  BY <1>1, <1>2, <1>4, Chains
<1>6. p + 1 \in DOMAIN table[b]
  BY <1>5, Zenon
<1> QED BY <1>1, <1>2, <1>4, <1>6, PlaceIs

\* So is the head of a bucket ahead.
LEMMA AheadIsKey ==
    ASSUME Inv, IterInv, using, NEW b \in Ahead
    PROVE  b \in DOMAIN table /\ Head(table[b]).key \in KeysOf(table)
<1>1. Typed(table) /\ InPlace(table) /\ idx \in Nat
  BY DEF Inv, IterInv
<1>2. b \in idx .. Capacity(table) - 1 /\ table[b] # <<>>
  BY DEF Ahead
<1>3. DOMAIN table = 0 .. Capacity(table) - 1 /\ Capacity(table) \in Nat
  BY <1>1, Chains DEF Typed
<1>4. b \in DOMAIN table
  BY <1>1, <1>2, <1>3
<1>5. table[b] \in Seq(Entries) /\ DOMAIN table[b] = 1 .. Len(table[b])
  BY <1>1, <1>4, Chains
<1>6. 1 \in DOMAIN table[b] /\ Head(table[b]) = table[b][1]
  <2>1. Len(table[b]) \in Nat /\ Len(table[b]) # 0
    BY <1>2, <1>5, EmptySeq, LenProperties
  <2> QED BY <1>5, <2>1
<1> QED BY <1>1, <1>4, <1>6, PlaceIs

LEMMA IterGetNextStep ==
    ASSUME Inv, IterInv, hmapIteratorGetNext
    PROVE  IterInv'
<1>1. using /\ ~ended /\ Exists /\ UNCHANGED <<vars, using, since, moved>>
  BY DEF hmapIteratorGetNext, IterInv
<1>2. UNCHANGED table /\ seen \subseteq KeysOf(table) /\ since \subseteq KeysOf(table)
  BY <1>1 DEF vars, IterInv
<1>3. ASSUME idx' \in Nat, cur' \in KeysOf(table), seen' = seen \union {cur'}, ended' = ended,
             twice' = (twice \/ cur' \in seen),
             ~moved => cur' \notin seen /\ Progress(table, idx', cur', seen', since)
      PROVE  IterInv'
  <2>1. ~moved' => ~twice'
    BY <1>1, <1>3 DEF IterInv, VisitsOnce
  <2>2. seen' \subseteq KeysOf(table)
    BY <1>2, <1>3
  <2> QED BY <1>1, <1>2, <1>3, <2>1, <2>2 DEF IterInv, VisitsOnce, Covers, Exists
<1>4. ASSUME NEW n, AfterCur # None, n = AfterCur, Visit(n), idx' = idx PROVE IterInv'
  <2>1. cur' = n /\ seen' = seen \union {n} /\ ended' = ended /\ twice' = (twice \/ n \in seen)
    BY <1>4 DEF Visit
  <2>2. ~moved => cur' \notin seen /\ Progress(table, idx', cur', seen', since)
    BY <1>1, <1>2, <1>4, ChainStep
  <2>3. cur' \in KeysOf(table)
    BY <1>1, <1>4, <2>1, AfterCurIsKey
  <2>4. idx' \in Nat
    BY <1>4 DEF IterInv
  <2> QED BY <1>3, <2>1, <2>2, <2>3, <2>4
<1>5. CASE NextBucket
  <2>1. PICK b \in Ahead : Visit(Head(table[b]).key) /\ idx' = b + 1
    BY <1>5 DEF NextBucket
  <2>2. /\ cur' = Head(table[b]).key /\ seen' = seen \union {cur'} /\ ended' = ended
        /\ twice' = (twice \/ cur' \in seen)
    BY <2>1 DEF Visit
  <2>3. ~moved => cur' \notin seen /\ Progress(table, idx', cur', seen', since)
    BY <1>1, <1>2, <1>5, BucketStep
  <2>4. cur' \in KeysOf(table)
    BY <1>1, <2>1, <2>2, AheadIsKey
  <2>5. idx' \in Nat
    <3>1. b \in DOMAIN table
      BY <1>1, AheadIsKey
    <3>2. Typed(table)
      BY <1>1 DEF Inv
    <3>3. DOMAIN table = 0 .. Capacity(table) - 1 /\ Capacity(table) \in Nat
      BY <3>2, Chains DEF Typed
    <3>4. b \in Nat
      BY <3>1, <3>3
    <3> QED BY <2>1, <3>4
  <2> QED BY <1>3, <2>2, <2>3, <2>4, <2>5
<1>6. CASE NoMore
  <2>1. ended' /\ UNCHANGED <<cur, seen, twice>>
    BY <1>6 DEF NoMore
  <2>2. Covers'
    BY <1>1, <1>2, <1>6, <2>1, EndStep DEF Covers
  <2>3. idx' \in Nat
    BY <1>1, <1>6 DEF NoMore, Inv, Typed
  <2> QED BY <1>1, <1>2, <2>1, <2>2, <2>3 DEF IterInv, VisitsOnce, Exists
<1> QED BY <1>4, <1>5, <1>6 DEF hmapIteratorGetNext

LEMMA IterInductive == Inv /\ IterInv /\ [IterNext]_<<vars, iterVars>> => IterInv'
<1> SUFFICES ASSUME Inv, IterInv, [IterNext]_<<vars, iterVars>> PROVE IterInv'
  OBVIOUS
<1>1. CASE UNCHANGED <<vars, iterVars>>
  BY <1>1 DEF IterInv, Progress, Passed, VisitsOnce, Covers, vars, iterVars, Exists
<1> QED BY <1>1, IterMapStep, IterCreateStep, IterReleaseStep, IterGetNextStep DEF IterNext

\* With its iterator the map is still the map.
LEMMA IterSpecIsSpec == IterSpec => Spec
<1>1. [IterNext]_<<vars, iterVars>> => [Next]_vars
  BY DEF IterNext, MapStep, hmapIteratorCreate, hmapIteratorGetNext, hmapIteratorRelease, vars
<1> QED BY <1>1, PTL DEF IterSpec, IterInit, Spec

LEMMA IterInvariance == IterSpec => []IterInv
<1>1. IterInit => IterInv
  BY DEF IterInit, Init, IterInv, VisitsOnce, Covers, Progress, Passed
<1> QED BY <1>1, IterInductive, IterSpecIsSpec, Invariance, PTL DEF IterSpec

\* As long as the table is not expanded meanwhile, the iterator gives no entry twice,
\* whatever its user adds and deletes but the entry it stands at.
THEOREM IteratorVisitsOnce == IterSpec => []VisitsOnce
BY IterInvariance, PTL DEF IterInv

\* And by its end it has given every entry that was there all along, except for the
\* rest of the last bucket's chain (hmapIteratorGetNext stops at idx = capacity).
THEOREM IteratorCovers == IterSpec => []Covers
BY IterInvariance, PTL DEF IterInv

\* The map the iterator's user calls gives what a finite map gives, all the time.
THEOREM FiniteMapUnderIterator == IterSpec => ImplementsFiniteMap
BY IterSpecIsSpec, FiniteMapImplemented, PTL

=============================================================================
