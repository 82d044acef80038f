---------------------------- MODULE HashMapProofs ----------------------------
(***************************************************************************)
(* The hash map implements a finite map, for any keys, hash function and    *)
(* capacities, through expansions and failed allocations; and its chains    *)
(* and its size are right.                                                  *)
(***************************************************************************)
EXTENDS HashMap, FiniteSetTheorems, FunctionTheorems, SequenceTheorems, TLAPS

-----------------------------------------------------------------------------
(* Numbers.                                                                 *)

\* A set of natural numbers that is not empty has a least element.
LEMMA LeastNatural ==
    ASSUME NEW S \in SUBSET Nat, S # {}
    PROVE  \E m \in S : \A n \in S : m <= n
<1>1. PICK m \in S : \A n \in S : ~ (<<n, m>> \in OpToRel(<, Nat))
  BY NatLessThanWellFounded, WFMin
<1>2. ASSUME NEW n \in S PROVE m <= n
  <2>1. <<n, m>> \notin OpToRel(<, Nat)
    BY <1>1
  <2>2. <<n, m>> \in Nat \X Nat
    OBVIOUS
  <2>3. ~(n < m)
    BY <2>1, <2>2 DEF OpToRel
  <2> QED BY <2>3
<1> QED BY <1>2

\* A remainder is the only number of its range that leaves a multiple.
LEMMA RemainderUnique ==
    ASSUME NEW h \in Nat, NEW c \in Nat \ {0}, NEW q \in Int, NEW r \in 0 .. c - 1, h = q * c + r
    PROVE  h % c = r
<1>1. h = c * (h \div c) + (h % c) /\ h % c \in 0 .. c - 1 /\ h \div c \in Int
  OBVIOUS
<1> DEFINE d == q - (h \div c)
<1>2. d \in Int /\ d * c = (h % c) - r
  BY <1>1
<1>3. d * c < c /\ d * c > -c
  BY <1>1, <1>2
<1>4. ~(d >= 1)
  <2>1. SUFFICES ASSUME d >= 1 PROVE FALSE
    OBVIOUS
  <2>2. (d - 1) * c >= 0 /\ (d - 1) * c = d * c - c
    BY <1>2, <2>1
  <2> QED BY <1>2, <1>3, <2>2
<1>5. ~(d <= -1)
  <2>1. SUFFICES ASSUME d <= -1 PROVE FALSE
    OBVIOUS
  <2>2. (-1 - d) * c >= 0 /\ (-1 - d) * c = -c - d * c
    BY <1>2, <2>1
  <2> QED BY <1>2, <1>3, <2>2
<1>6. d = 0
  BY <1>2, <1>4, <1>5
<1> QED BY <1>1, <1>2, <1>6

\* Division with remainder.
LEMMA DivMod ==
    ASSUME NEW h \in Nat, NEW c \in Nat \ {0}
    PROVE  h = c * (h \div c) + (h % c) /\ h % c \in 0 .. c - 1 /\ h \div c \in Int
OBVIOUS

\* A hash falls into one of the buckets, and doubling their number sends it to one
\* of the two with the same remainder as before.
LEMMA BucketOfDouble ==
    ASSUME NEW h \in Nat, NEW c \in Nat \ {0}
    PROVE  /\ h % c \in 0 .. c - 1 /\ h % (2 * c) \in 0 .. 2 * c - 1
           /\ (h % (2 * c)) % c = h % c
<1> DEFINE C == 2 * c
           r == h % C
           p == h \div C
<1>1. C \in Nat \ {0}
  OBVIOUS
<1>2. r \in 0 .. C - 1 /\ h = C * p + r /\ p \in Int
  <2> HIDE DEF C
  <2> QED BY <1>1, DivMod
<1>3. r \in Nat /\ r = c * (r \div c) + (r % c) /\ r % c \in 0 .. c - 1 /\ r \div c \in Int
  <2>1. r \in Nat
    <3> HIDE DEF r, C
    <3> QED BY <1>1, <1>2
  <2> HIDE DEF r
  <2> QED BY <2>1, DivMod
<1> DEFINE d == r \div c
           q == 2 * p + d
<1>4. q \in Int /\ h = q * c + (r % c)
  <2> HIDE DEF r, p, d
  <2>1. h = (2 * c) * p + (c * d + (r % c)) /\ p \in Int /\ d \in Int /\ r % c \in Int
    BY <1>2, <1>3 DEF d
  <2>2. (2 * c) * p = (2 * p) * c /\ (2 * p + d) * c = (2 * p) * c + c * d
    BY <2>1
  <2> QED BY <2>1, <2>2
<1>5. h % c = r % c
  <2> HIDE DEF r, q
  <2> QED BY <1>3, <1>4, RemainderUnique
<1> QED BY <1>2, <1>5, DivMod

-----------------------------------------------------------------------------
(* Sequences.                                                               *)

\* A new head.
LEMMA ConsProperties ==
    ASSUME NEW S, NEW e \in S, NEW s \in Seq(S)
    PROVE  /\ <<e>> \o s \in Seq(S) /\ Len(<<e>> \o s) = Len(s) + 1
           /\ (<<e>> \o s)[1] = e
           /\ \A i \in 1 .. Len(s) : (<<e>> \o s)[i + 1] = s[i]
<1>1. <<e>> \in Seq(S) /\ Len(<<e>>) = 1 /\ <<e>>[1] = e
  OBVIOUS
<1>2. Len(s) \in Nat
  BY LenProperties
<1> QED BY <1>1, <1>2, ConcatProperties

\* The sequence without one of its elements.
LEMMA RemoveAtProperties ==
    ASSUME NEW S, NEW s \in Seq(S), NEW p \in 1 .. Len(s)
    PROVE  /\ RemoveAt(s, p) \in Seq(S) /\ Len(RemoveAt(s, p)) = Len(s) - 1
           /\ \A i \in 1 .. Len(s) - 1 :
                 RemoveAt(s, p)[i] = IF i < p THEN s[i] ELSE s[i + 1]
<1>1. Len(s) \in Nat /\ \A i \in 1 .. Len(s) : s[i] \in S
  BY LenProperties, ElementOfSeq
<1> DEFINE front == SubSeq(s, 1, p - 1)
           back == SubSeq(s, p + 1, Len(s))
<1>2. /\ front \in Seq(S) /\ Len(front) = p - 1
      /\ \A i \in 1 .. p - 1 : front[i] = s[i]
  BY <1>1, SubSeqProperties
<1>3. /\ back \in Seq(S) /\ Len(back) = Len(s) - p
      /\ \A i \in 1 .. Len(s) - p : back[i] = s[p + i]
  BY <1>1, SubSeqProperties
<1>4. RemoveAt(s, p) = front \o back
  BY DEF RemoveAt
<1>5. /\ front \o back \in Seq(S) /\ Len(front \o back) = Len(s) - 1
      /\ \A i \in 1 .. Len(s) - 1 :
            (front \o back)[i] = IF i <= p - 1 THEN front[i] ELSE back[i - (p - 1)]
  <2> HIDE DEF front, back
  <2> QED BY <1>1, <1>2, <1>3, ConcatProperties
<1>6. ASSUME NEW i \in 1 .. Len(s) - 1
      PROVE  (front \o back)[i] = IF i < p THEN s[i] ELSE s[i + 1]
  <2> HIDE DEF front, back
  <2>1. CASE i < p
    BY <1>1, <1>2, <1>5, <2>1
  <2>2. CASE ~(i < p)
    <3>1. i - (p - 1) \in 1 .. Len(s) - p /\ p + (i - (p - 1)) = i + 1
      BY <1>1, <2>2
    <3> QED BY <1>1, <1>3, <1>5, <2>2, <3>1
  <2> QED BY <2>1, <2>2
<1> QED BY <1>4, <1>5, <1>6

\* The sequence backwards.
LEMMA ReverseProperties ==
    ASSUME NEW S, NEW s \in Seq(S)
    PROVE  /\ Reverse(s) \in Seq(S) /\ Len(Reverse(s)) = Len(s)
           /\ \A i \in 1 .. Len(s) : Reverse(s)[i] = s[(Len(s) - i) + 1]
<1>1. Len(s) \in Nat /\ \A i \in 1 .. Len(s) : s[i] \in S
  BY LenProperties, ElementOfSeq
<1>2. \A i \in 1 .. Len(s) : (Len(s) - i) + 1 \in 1 .. Len(s)
  BY <1>1
<1>3. Reverse(s) \in [1 .. Len(s) -> S]
  BY <1>1, <1>2 DEF Reverse
<1>4. Reverse(s) \in Seq(S)
  BY <1>1, <1>3
<1>5. Len(Reverse(s)) = Len(s)
  BY <1>1, <1>3, <1>4, LenProperties
<1> QED BY <1>4, <1>5 DEF Reverse

\* The first place of a key is a place of the key.
LEMMA FirstOfProperties ==
    ASSUME NEW s \in Seq(Entries), NEW k, NEW j \in 1 .. Len(s), s[j].key = k
    PROVE  FirstOf(s, k) \in 1 .. Len(s) /\ s[FirstOf(s, k)].key = k
<1> DEFINE I == {i \in 1 .. Len(s) : s[i].key = k}
<1>1. I \in SUBSET Nat /\ I # {}
  BY LenProperties
<1>2. Min(I) \in I
  <2>1. \E m \in I : \A n \in I : m <= n
    BY <1>1, LeastNatural
  <2> QED BY <2>1 DEF Min
<1>3. FirstOf(s, k) = IF I # {} THEN Min(I) ELSE 0
  BY DEF FirstOf, SelectInSeq
<1> QED BY <1>1, <1>2, <1>3

-----------------------------------------------------------------------------
(* What an expansion does to one chain.                                     *)

\* The recursion of Pushed, for the first n entries.
IsPushing(f, n, chain, cap, b) ==
    f = [i \in 0 .. n |->
            IF i = 0 THEN <<>>
            ELSE IF chain[i].hash % cap = b THEN <<chain[i]>> \o f[i - 1]
            ELSE f[i - 1]]

\* There is a function of that recursion.
LEMMA PushingExists ==
    ASSUME NEW chain, NEW cap, NEW b, NEW n \in Nat
    PROVE  \E f : IsPushing(f, n, chain, cap, b)
<1> DEFINE Bad == {m \in Nat : ~ \E f : IsPushing(f, m, chain, cap, b)}
<1>1. SUFFICES ASSUME Bad # {} PROVE FALSE
  OBVIOUS
<1>2. PICK m \in Bad : \A k \in Bad : m <= k
  BY <1>1, LeastNatural
<1>3. m \in Nat /\ ~ \E f : IsPushing(f, m, chain, cap, b)
  BY <1>2
<1>4. m # 0
  <2>1. IsPushing([i \in 0 .. 0 |-> <<>>], 0, chain, cap, b)
    BY DEF IsPushing
  <2> QED BY <1>3, <2>1
<1>5. m - 1 \in Nat /\ m - 1 \notin Bad
  BY <1>2, <1>3, <1>4
<1>6. PICK f : IsPushing(f, m - 1, chain, cap, b)
  BY <1>5
<1> DEFINE step(g, i) == IF i = 0 THEN <<>>
                         ELSE IF chain[i].hash % cap = b THEN <<chain[i]>> \o g[i - 1]
                         ELSE g[i - 1]
           next == [i \in 0 .. m |-> IF i < m THEN f[i] ELSE step(f, m)]
<1>7. ASSUME NEW i \in 0 .. m
      PROVE  next[i] = step(next, i)
  <2>1. CASE i = m
    <3>1. next[i] = step(f, m) /\ m - 1 \in 0 .. m /\ m - 1 < m
      BY <1>3, <1>4, <2>1
    <3>2. next[m - 1] = f[m - 1]
      BY <3>1
    <3> QED BY <1>4, <2>1, <3>1, <3>2
  <2>2. CASE i < m
    <3>1. next[i] = f[i] /\ i \in 0 .. m - 1
      BY <1>3, <2>2
    <3>2. f[i] = step(f, i)
      BY <1>6, <3>1 DEF IsPushing
    <3>3. i # 0 => next[i - 1] = f[i - 1]
      BY <1>3, <2>2
    <3> QED BY <3>1, <3>2, <3>3
  <2> QED BY <1>3, <2>1, <2>2
<1>8. IsPushing(next, m, chain, cap, b)
  <2>1. next = [i \in 0 .. m |-> step(next, i)]
    <3> HIDE DEF step
    <3> QED BY <1>7
  <2> QED BY <2>1 DEF IsPushing
<1> QED BY <1>3, <1>8

\* The sequence s holds those of the first n entries of the chain that belong in
\* bucket b, the last one first.
IsMoved(s, n, chain, cap, b) ==
    /\ s \in Seq(Entries)
    /\ \E pos \in [1 .. Len(s) -> 1 .. n] :
          /\ \A i \in 1 .. Len(s) : s[i] = chain[pos[i]] /\ chain[pos[i]].hash % cap = b
          /\ \A i, j \in 1 .. Len(s) : i < j => pos[i] > pos[j]
          /\ \A p \in 1 .. n : chain[p].hash % cap = b => \E i \in 1 .. Len(s) : pos[i] = p

\* One more entry.
LEMMA MovedStep ==
    ASSUME NEW chain \in Seq(Entries), NEW cap, NEW b, NEW n \in 1 .. Len(chain),
           NEW s, IsMoved(s, n - 1, chain, cap, b)
    PROVE  IsMoved(IF chain[n].hash % cap = b THEN <<chain[n]>> \o s ELSE s, n, chain, cap, b)
<1>1. s \in Seq(Entries) /\ Len(s) \in Nat /\ Len(chain) \in Nat /\ chain[n] \in Entries
  BY LenProperties, ElementOfSeq DEF IsMoved
<1>2. PICK pos \in [1 .. Len(s) -> 1 .. n - 1] :
          /\ \A i \in 1 .. Len(s) : s[i] = chain[pos[i]] /\ chain[pos[i]].hash % cap = b
          /\ \A i, j \in 1 .. Len(s) : i < j => pos[i] > pos[j]
          /\ \A p \in 1 .. n - 1 :
                chain[p].hash % cap = b => \E i \in 1 .. Len(s) : pos[i] = p
  BY DEF IsMoved
<1>3. CASE chain[n].hash % cap = b
  <2> DEFINE t == <<chain[n]>> \o s
             new == [i \in 1 .. Len(s) + 1 |-> IF i = 1 THEN n ELSE pos[i - 1]]
  <2>1. /\ t \in Seq(Entries) /\ Len(t) = Len(s) + 1 /\ t[1] = chain[n]
        /\ \A i \in 1 .. Len(s) : t[i + 1] = s[i]
    BY <1>1, ConsProperties
  <2> HIDE DEF t
  <2>2. \A i \in 2 .. Len(t) : i - 1 \in 1 .. Len(s) /\ t[i] = s[i - 1]
    <3>1. ASSUME NEW i \in 2 .. Len(t) PROVE i - 1 \in 1 .. Len(s) /\ t[i] = s[i - 1]
      <4>1. i - 1 \in 1 .. Len(s) /\ (i - 1) + 1 = i
        BY <1>1, <2>1
      <4>2. t[(i - 1) + 1] = s[i - 1]
        BY <2>1, <4>1
      <4> QED BY <4>1, <4>2
    <3> QED BY <3>1
  <2>3. new \in [1 .. Len(t) -> 1 .. n] /\ new[1] = n
    BY <1>1, <1>2, <2>1, <2>2
  <2>4. \A i \in 2 .. Len(t) : new[i] = pos[i - 1]
    BY <1>1, <2>1
  <2>5. \A i \in 1 .. Len(t) : t[i] = chain[new[i]] /\ chain[new[i]].hash % cap = b
    <3>1. ASSUME NEW i \in 1 .. Len(t)
          PROVE  t[i] = chain[new[i]] /\ chain[new[i]].hash % cap = b
      <4> HIDE DEF new
      <4>1. CASE i = 1
        BY <1>3, <2>1, <2>3, <4>1
      <4>2. CASE i \in 2 .. Len(t)
        BY <1>2, <2>2, <2>4, <4>2
      <4> QED BY <1>1, <2>1, <4>1, <4>2
    <3> QED BY <3>1
  <2>6. \A i, j \in 1 .. Len(t) : i < j => new[i] > new[j]
    <3>1. ASSUME NEW i \in 1 .. Len(t), NEW j \in 1 .. Len(t), i < j PROVE new[i] > new[j]
      <4> HIDE DEF new
      <4>1. j \in 2 .. Len(t) /\ new[j] = pos[j - 1] /\ pos[j - 1] \in 1 .. n - 1
        <5>1. j \in 2 .. Len(t)
          BY <1>1, <2>1, <3>1
        <5>2. j - 1 \in 1 .. Len(s) /\ new[j] = pos[j - 1]
          BY <2>2, <2>4, <5>1
        <5> QED BY <1>2, <5>1, <5>2
      <4>2. CASE i = 1
        BY <2>3, <4>1, <4>2
      <4>3. CASE i \in 2 .. Len(t)
        <5>1. new[i] = pos[i - 1] /\ i - 1 < j - 1 /\ i - 1 \in 1 .. Len(s) /\ j - 1 \in 1 .. Len(s)
          BY <2>2, <2>4, <3>1, <4>1, <4>3
        <5> QED BY <1>2, <4>1, <5>1
      <4> QED BY <1>1, <2>1, <4>2, <4>3
    <3> QED BY <3>1
  <2>7. \A p \in 1 .. n : chain[p].hash % cap = b => \E i \in 1 .. Len(t) : new[i] = p
    <3>1. ASSUME NEW p \in 1 .. n, chain[p].hash % cap = b PROVE \E i \in 1 .. Len(t) : new[i] = p
      <4> HIDE DEF new
      <4>1. CASE p = n
        BY <1>1, <2>1, <2>3, <4>1
      <4>2. CASE p \in 1 .. n - 1
        <5>1. PICK i \in 1 .. Len(s) : pos[i] = p
          BY <1>2, <3>1, <4>2
        <5>2. i + 1 \in 2 .. Len(t) /\ (i + 1) - 1 = i
          BY <1>1, <2>1
        <5>3. new[i + 1] = p
          BY <2>4, <5>1, <5>2
        <5> QED BY <1>1, <2>1, <5>2, <5>3
      <4> QED BY <4>1, <4>2
    <3> QED BY <3>1
  <2>8. IsMoved(t, n, chain, cap, b)
    <3> HIDE DEF new
    <3> QED BY <2>1, <2>3, <2>5, <2>6, <2>7 DEF IsMoved
  <2> QED BY <1>3, <2>8 DEF t
<1>4. CASE chain[n].hash % cap # b
  <2>1. pos \in [1 .. Len(s) -> 1 .. n]
    BY <1>2
  <2>2. \A p \in 1 .. n : chain[p].hash % cap = b => \E i \in 1 .. Len(s) : pos[i] = p
    BY <1>2, <1>4
  <2> QED BY <1>1, <1>2, <1>4, <2>1, <2>2 DEF IsMoved
<1> QED BY <1>3, <1>4

\* Pushed takes what belongs in the bucket, and turns it round.
LEMMA PushedProperties ==
    ASSUME NEW chain \in Seq(Entries), NEW cap, NEW b
    PROVE  IsMoved(Pushed(chain, cap, b), Len(chain), chain, cap, b)
<1>1. Len(chain) \in Nat
  BY LenProperties
<1> DEFINE new == CHOOSE f : IsPushing(f, Len(chain), chain, cap, b)
<1>2. IsPushing(new, Len(chain), chain, cap, b)
  BY <1>1, PushingExists
<1>3. Pushed(chain, cap, b) = new[Len(chain)]
  BY DEF Pushed, IsPushing
<1> HIDE DEF new
<1> DEFINE Bad == {n \in 0 .. Len(chain) : ~IsMoved(new[n], n, chain, cap, b)}
<1>4. SUFFICES ASSUME Bad # {} PROVE FALSE
  BY <1>1, <1>3
<1>5. PICK n \in Bad : \A k \in Bad : n <= k
  <2>1. Bad \in SUBSET Nat
    BY <1>1
  <2> HIDE DEF Bad
  <2> QED BY <1>4, <2>1, LeastNatural
<1>6. n \in 0 .. Len(chain) /\ ~IsMoved(new[n], n, chain, cap, b)
  BY <1>5
<1>7. n # 0
  <2>1. new[0] = <<>>
    BY <1>1, <1>2 DEF IsPushing
  <2>2. IsMoved(<<>>, 0, chain, cap, b)
    <3>1. <<>> \in Seq(Entries) /\ Len(<<>>) = 0 /\ 1 .. 0 = {}
      OBVIOUS
    <3>2. <<>> \in [1 .. Len(<<>>) -> 1 .. 0]
      OBVIOUS
    <3> QED BY <3>1, <3>2 DEF IsMoved
  <2> QED BY <1>6, <2>1, <2>2
<1>8. n \in 1 .. Len(chain) /\ n - 1 \in 0 .. Len(chain) /\ n - 1 \notin Bad
  BY <1>1, <1>5, <1>6, <1>7
<1>9. IsMoved(new[n - 1], n - 1, chain, cap, b)
  BY <1>8
<1>10. new[n] = IF chain[n].hash % cap = b THEN <<chain[n]>> \o new[n - 1] ELSE new[n - 1]
  BY <1>2, <1>6, <1>7 DEF IsPushing
<1> QED BY <1>6, <1>8, <1>9, <1>10, MovedStep

-----------------------------------------------------------------------------
(* Tables.                                                                  *)

Typed(t) == Capacity(t) \in Nat \ {0} /\ t \in [0 .. Capacity(t) - 1 -> Seq(Entries)]

InPlace(t) ==
    \A b, c \in DOMAIN t : \A i \in DOMAIN t[b], j \in DOMAIN t[c] :
        /\ Bucket(t, t[b][i].hash) = b /\ t[b][i].hash = Hash[t[b][i].key]
        /\ t[b][i].key = t[c][j].key => b = c /\ i = j

Counted(t, n) == IsFiniteSet(EntriesOf(t)) /\ n = Cardinality(EntriesOf(t))

Ordered(t, o) ==
    /\ o \in Seq(Entries) /\ ToSet(o) = EntriesOf(t) /\ IsInjective(o)
    /\ \A b \in DOMAIN t : \A i, j \in DOMAIN t[b], m, n \in DOMAIN o :
          o[m] = t[b][i] /\ o[n] = t[b][j] /\ i < j => m < n

\* A table over the first cap numbers has that capacity.
LEMMA CapacityIs ==
    ASSUME NEW cap \in Nat \ {0}, NEW t \in [0 .. cap - 1 -> Seq(Entries)]
    PROVE  Capacity(t) = cap /\ Typed(t) /\ t # <<>>
<1>1. Cardinality(0 .. cap - 1) = cap
  BY FS_Interval
<1>2. Capacity(t) = cap
  BY <1>1 DEF Capacity
<1>3. 0 \in DOMAIN t /\ DOMAIN <<>> = {}
  OBVIOUS
<1> QED BY <1>2, <1>3 DEF Typed

\* The chains of a table are sequences of entries with keys and hashes.
LEMMA Chains ==
    ASSUME NEW t, Typed(t)
    PROVE  /\ DOMAIN t = 0 .. Capacity(t) - 1
           /\ \A b \in DOMAIN t :
                 /\ t[b] \in Seq(Entries) /\ Len(t[b]) \in Nat /\ DOMAIN t[b] = 1 .. Len(t[b])
                 /\ \A i \in DOMAIN t[b] : t[b][i] \in Entries /\ t[b][i] \in EntriesOf(t)
           /\ \A e \in EntriesOf(t) : \E b \in DOMAIN t : \E i \in DOMAIN t[b] : e = t[b][i]
           /\ EntriesOf(t) \subseteq Entries
<1>1. DOMAIN t = 0 .. Capacity(t) - 1 /\ \A b \in DOMAIN t : t[b] \in Seq(Entries)
  BY DEF Typed
<1>2. \A b \in DOMAIN t : Len(t[b]) \in Nat /\ DOMAIN t[b] = 1 .. Len(t[b])
  BY <1>1, LenProperties
<1>3. \A b \in DOMAIN t : \A i \in DOMAIN t[b] : t[b][i] \in Entries
  BY <1>1, <1>2, ElementOfSeq
<1>4. \A b \in DOMAIN t : \A i \in DOMAIN t[b] : t[b][i] \in EntriesOf(t)
  BY DEF EntriesOf, ToSet
<1>5. \A e \in EntriesOf(t) : \E b \in DOMAIN t : \E i \in DOMAIN t[b] : e = t[b][i]
  BY DEF EntriesOf, ToSet
<1> QED BY <1>1, <1>2, <1>3, <1>4, <1>5

\* The bucket of a hash is one of the table's.
LEMMA BucketExists ==
    ASSUME NEW t, Typed(t), NEW h \in Nat
    PROVE  Bucket(t, h) \in DOMAIN t
<1>1. h % Capacity(t) \in 0 .. Capacity(t) - 1
  BY DivMod DEF Typed
<1> QED BY <1>1, Chains DEF Bucket

\* A key has a natural number for its hash.
LEMMA HashNat == \A k \in Keys : Hash[k] \in Nat
BY HashMapAssumption

\* What a look at one chain finds is what is in the table.
LEMMA Lookup ==
    ASSUME NEW t, Typed(t), InPlace(t), NEW k \in Keys
    PROVE  /\ Bucket(t, Hash[k]) \in DOMAIN t
           /\ InChain(t, k) <=> \E e \in EntriesOf(t) : e.key = k
           /\ InChain(t, k) =>
                 /\ Position(t, k) \in DOMAIN t[Bucket(t, Hash[k])]
                 /\ Entry(t, k) \in EntriesOf(t) /\ Entry(t, k).key = k
<1> DEFINE b == Bucket(t, Hash[k])
<1>1. b \in DOMAIN t
  BY HashNat, BucketExists
<1> HIDE DEF b
<1>2. /\ t[b] \in Seq(Entries) /\ DOMAIN t[b] = 1 .. Len(t[b])
      /\ \A i \in DOMAIN t[b] : t[b][i] \in EntriesOf(t)
  BY <1>1, Chains
<1>3. ASSUME NEW e \in EntriesOf(t), e.key = k PROVE InChain(t, k)
  <2>0. PICK c \in DOMAIN t : \E i \in DOMAIN t[c] : e = t[c][i]
    BY Chains
  <2>1. PICK i \in DOMAIN t[c] : e = t[c][i]
    BY <2>0
  <2>2. Bucket(t, e.hash) = c /\ e.hash = Hash[k]
    BY <1>3, <2>1 DEF InPlace
  <2> QED BY <1>3, <2>1, <2>2 DEF InChain, b
<1>4. ASSUME InChain(t, k)
      PROVE  /\ Position(t, k) \in DOMAIN t[b] /\ Entry(t, k) \in EntriesOf(t)
             /\ Entry(t, k).key = k
  <2>1. PICK i \in DOMAIN t[b] : t[b][i].key = k
    BY <1>4 DEF InChain, b
  <2>2. FirstOf(t[b], k) \in 1 .. Len(t[b]) /\ t[b][FirstOf(t[b], k)].key = k
    BY <1>2, <2>1, FirstOfProperties
  <2>3. Position(t, k) = FirstOf(t[b], k) /\ Entry(t, k) = t[b][FirstOf(t[b], k)]
    BY DEF Position, Entry, b
  <2> QED BY <1>2, <2>2, <2>3
<1> QED BY <1>1, <1>3, <1>4 DEF b

\* No two entries have a key in common.
LEMMA KeysDistinct ==
    ASSUME NEW t, Typed(t), InPlace(t), NEW e \in EntriesOf(t), NEW f \in EntriesOf(t),
           e.key = f.key
    PROVE  e = f
<1>1. /\ \E b \in DOMAIN t : \E i \in DOMAIN t[b] : e = t[b][i]
      /\ \E c \in DOMAIN t : \E j \in DOMAIN t[c] : f = t[c][j]
  BY Chains
<1>2. PICK b \in DOMAIN t, c \in DOMAIN t :
          (\E i \in DOMAIN t[b] : e = t[b][i]) /\ (\E j \in DOMAIN t[c] : f = t[c][j])
  BY <1>1
<1> QED BY <1>1, <1>2 DEF InPlace

\* The table of a map just created.
LEMMA EmptyProperties ==
    ASSUME NEW cap \in Nat \ {0}
    PROVE  /\ Typed(Empty(cap)) /\ Empty(cap) # <<>> /\ InPlace(Empty(cap))
           /\ EntriesOf(Empty(cap)) = {}
<1>1. Empty(cap) \in [0 .. cap - 1 -> Seq(Entries)]
  BY EmptySeq DEF Empty
<1>2. \A b \in DOMAIN Empty(cap) : Empty(cap)[b] = <<>>
  BY DEF Empty
<1>3. DOMAIN <<>> = {}
  OBVIOUS
<1> QED BY <1>1, <1>2, <1>3, CapacityIs DEF InPlace, EntriesOf, ToSet

-----------------------------------------------------------------------------
(* A new entry.                                                             *)

\* The new entry is the head of its chain; the other entries stay in their chains,
\* in their order.
LEMMA LinkedProperties ==
    ASSUME NEW t, Typed(t), InPlace(t), NEW e \in Entries, e.hash = Hash[e.key],
           \A f \in EntriesOf(t) : f.key # e.key
    PROVE  /\ Typed(Linked(t, e)) /\ Capacity(Linked(t, e)) = Capacity(t) /\ Linked(t, e) # <<>>
           /\ DOMAIN Linked(t, e) = DOMAIN t /\ Bucket(t, e.hash) \in DOMAIN t
           /\ \A c \in DOMAIN t : c # Bucket(t, e.hash) => Linked(t, e)[c] = t[c]
           /\ LET b == Bucket(t, e.hash) IN
              /\ DOMAIN Linked(t, e)[b] = 1 .. Len(t[b]) + 1 /\ Linked(t, e)[b][1] = e
              /\ \A i \in DOMAIN t[b] : Linked(t, e)[b][i + 1] = t[b][i]
              /\ \A i \in DOMAIN Linked(t, e)[b] :
                    i = 1 \/ (i - 1 \in DOMAIN t[b] /\ Linked(t, e)[b][i] = t[b][i - 1])
<1> DEFINE b == Bucket(t, e.hash)
           u == Linked(t, e)
<1>1. e.hash \in Nat /\ b \in DOMAIN t
  BY BucketExists DEF Entries
<1>2. t[b] \in Seq(Entries) /\ DOMAIN t[b] = 1 .. Len(t[b]) /\ Len(t[b]) \in Nat
  BY <1>1, Chains
<1>3. u = [t EXCEPT ![b] = <<e>> \o t[b]]
  BY DEF Linked
<1>4. /\ <<e>> \o t[b] \in Seq(Entries) /\ Len(<<e>> \o t[b]) = Len(t[b]) + 1
      /\ (<<e>> \o t[b])[1] = e
      /\ \A i \in 1 .. Len(t[b]) : (<<e>> \o t[b])[i + 1] = t[b][i]
  BY <1>2, ConsProperties
<1>5. DOMAIN (<<e>> \o t[b]) = 1 .. Len(t[b]) + 1
  BY <1>4, LenProperties
<1> HIDE DEF b, u
<1>6. u \in [0 .. Capacity(t) - 1 -> Seq(Entries)] /\ DOMAIN u = DOMAIN t
  BY <1>1, <1>3, <1>4, Chains DEF Typed
<1>7. Typed(u) /\ Capacity(u) = Capacity(t) /\ u # <<>>
  BY <1>6, CapacityIs DEF Typed
<1>8. u[b] = <<e>> \o t[b] /\ \A c \in DOMAIN t : c # b => u[c] = t[c]
  BY <1>1, <1>3
<1>9. ASSUME NEW i \in DOMAIN u[b], i # 1
      PROVE  i - 1 \in DOMAIN t[b] /\ u[b][i] = t[b][i - 1]
  <2>1. i - 1 \in 1 .. Len(t[b]) /\ (i - 1) + 1 = i
    BY <1>2, <1>5, <1>8, <1>9
  <2>2. (<<e>> \o t[b])[(i - 1) + 1] = t[b][i - 1]
    BY <1>4, <2>1
  <2> QED BY <1>2, <1>8, <2>1, <2>2
<1> QED BY <1>1, <1>2, <1>4, <1>5, <1>6, <1>7, <1>8, <1>9 DEF b, u

\* The new entry, and no other, is added.
LEMMA LinkedEntries ==
    ASSUME NEW t, Typed(t), InPlace(t), NEW e \in Entries, e.hash = Hash[e.key],
           \A f \in EntriesOf(t) : f.key # e.key
    PROVE  EntriesOf(Linked(t, e)) = EntriesOf(t) \union {e}
<1> DEFINE b == Bucket(t, e.hash)
           u == Linked(t, e)
<1>1. /\ Typed(u) /\ DOMAIN u = DOMAIN t /\ b \in DOMAIN t
      /\ \A c \in DOMAIN t : c # b => u[c] = t[c]
      /\ DOMAIN u[b] = 1 .. Len(t[b]) + 1 /\ u[b][1] = e
      /\ \A i \in DOMAIN t[b] : u[b][i + 1] = t[b][i]
      /\ \A i \in DOMAIN u[b] : i = 1 \/ (i - 1 \in DOMAIN t[b] /\ u[b][i] = t[b][i - 1])
  BY LinkedProperties
<1>2. DOMAIN t[b] = 1 .. Len(t[b]) /\ Len(t[b]) \in Nat
  BY <1>1, Chains
<1> HIDE DEF b, u
<1>3. ASSUME NEW f \in EntriesOf(u) PROVE f \in EntriesOf(t) \union {e}
  <2>1. PICK c \in DOMAIN u : \E i \in DOMAIN u[c] : f = u[c][i]
    BY <1>1, Chains
  <2>2. PICK i \in DOMAIN u[c] : f = u[c][i]
    BY <2>1
  <2>3. CASE c = b
    BY <1>1, <2>2, <2>3, Chains
  <2>4. CASE c # b
    BY <1>1, <2>2, <2>4, Chains
  <2> QED BY <2>3, <2>4
<1>4. ASSUME NEW f \in EntriesOf(t) PROVE f \in EntriesOf(u)
  <2>1. PICK c \in DOMAIN t : \E i \in DOMAIN t[c] : f = t[c][i]
    BY Chains
  <2>2. PICK i \in DOMAIN t[c] : f = t[c][i]
    BY <2>1
  <2>3. CASE c = b
    <3>1. i + 1 \in DOMAIN u[b] /\ u[b][i + 1] = f
      BY <1>1, <1>2, <2>2, <2>3
    <3> QED BY <1>1, <3>1, Chains
  <2>4. CASE c # b
    BY <1>1, <2>2, <2>4, Chains
  <2> QED BY <2>3, <2>4
<1>5. e \in EntriesOf(u)
  <2>1. 1 \in DOMAIN u[b]
    BY <1>1, <1>2
  <2> QED BY <1>1, <2>1, Chains
<1> QED BY <1>3, <1>4, <1>5 DEF u

\* Every entry is in its place.
LEMMA LinkedInPlace ==
    ASSUME NEW t, Typed(t), InPlace(t), NEW e \in Entries, e.hash = Hash[e.key],
           \A f \in EntriesOf(t) : f.key # e.key
    PROVE  InPlace(Linked(t, e))
<1> DEFINE b == Bucket(t, e.hash)
           u == Linked(t, e)
<1>1. /\ DOMAIN u = DOMAIN t /\ b \in DOMAIN t /\ Capacity(u) = Capacity(t)
      /\ \A c \in DOMAIN t : c # b => u[c] = t[c]
      /\ DOMAIN u[b] = 1 .. Len(t[b]) + 1 /\ u[b][1] = e
      /\ \A i \in DOMAIN u[b] : i = 1 \/ (i - 1 \in DOMAIN t[b] /\ u[b][i] = t[b][i - 1])
  BY LinkedProperties
<1>2. \A h : Bucket(u, h) = Bucket(t, h)
  BY <1>1 DEF Bucket
<1>h. DOMAIN t[b] = 1 .. Len(t[b]) /\ Len(t[b]) \in Nat
  BY <1>1, Chains
<1> HIDE DEF u
<1> SUFFICES ASSUME NEW c \in DOMAIN u, NEW d \in DOMAIN u,
                    NEW i \in DOMAIN u[c], NEW j \in DOMAIN u[d]
             PROVE  /\ Bucket(u, u[c][i].hash) = c /\ u[c][i].hash = Hash[u[c][i].key]
                    /\ u[c][i].key = u[d][j].key => c = d /\ i = j
  BY DEF InPlace, u
<1>3. \/ c = b /\ i = 1 /\ u[c][i] = e
      \/ \E p \in DOMAIN t[c] : u[c][i] = t[c][p] /\ i = IF c = b THEN p + 1 ELSE p
  <2>1. CASE c = b
    BY <1>1, <1>h, <2>1
  <2>2. CASE c # b
    BY <1>1, <2>2
  <2> QED BY <2>1, <2>2
<1>4. \/ d = b /\ j = 1 /\ u[d][j] = e
      \/ \E p \in DOMAIN t[d] : u[d][j] = t[d][p] /\ j = IF d = b THEN p + 1 ELSE p
  <2>1. CASE d = b
    BY <1>1, <1>h, <2>1
  <2>2. CASE d # b
    BY <1>1, <2>2
  <2> QED BY <2>1, <2>2
<1> HIDE DEF b
<1>5. \A f \in {u[c][i], u[d][j]} : f = e \/ f \in EntriesOf(t)
  BY <1>1, <1>3, <1>4, Chains
<1>6. Bucket(u, u[c][i].hash) = c /\ u[c][i].hash = Hash[u[c][i].key]
  <2>1. CASE c = b /\ i = 1 /\ u[c][i] = e
    BY <1>2, <2>1 DEF b
  <2>2. CASE \E p \in DOMAIN t[c] : u[c][i] = t[c][p]
    BY <1>1, <1>2, <2>2 DEF InPlace
  <2> QED BY <1>3, <2>1, <2>2
<1>7. ASSUME u[c][i].key = u[d][j].key PROVE c = d /\ i = j
  <2>1. CASE c = b /\ i = 1 /\ u[c][i] = e
    <3>1. ~ \E p \in DOMAIN t[d] : u[d][j] = t[d][p]
      BY <1>1, <1>7, <2>1, Chains
    <3> QED BY <1>4, <2>1, <3>1
  <2>2. CASE d = b /\ j = 1 /\ u[d][j] = e
    <3>1. ~ \E p \in DOMAIN t[c] : u[c][i] = t[c][p]
      BY <1>1, <1>7, <2>2, Chains
    <3> QED BY <1>3, <2>2, <3>1
  <2>3. CASE /\ \E p \in DOMAIN t[c] : u[c][i] = t[c][p] /\ i = IF c = b THEN p + 1 ELSE p
             /\ \E p \in DOMAIN t[d] : u[d][j] = t[d][p] /\ j = IF d = b THEN p + 1 ELSE p
    <3>1. PICK p \in DOMAIN t[c] : u[c][i] = t[c][p] /\ i = IF c = b THEN p + 1 ELSE p
      BY <2>3
    <3>2. PICK q \in DOMAIN t[d] : u[d][j] = t[d][q] /\ j = IF d = b THEN q + 1 ELSE q
      BY <2>3
    <3>3. c = d /\ p = q
      BY <1>1, <1>7, <3>1, <3>2 DEF InPlace
    <3> QED BY <3>1, <3>2, <3>3
  <2> QED BY <1>3, <1>4, <2>1, <2>2, <2>3
<1> QED BY <1>6, <1>7

\* The new entry comes first in the order, too.
LEMMA LinkedOrdered ==
    ASSUME NEW t, Typed(t), InPlace(t), NEW e \in Entries, e.hash = Hash[e.key],
           \A f \in EntriesOf(t) : f.key # e.key, NEW o, Ordered(t, o)
    PROVE  Ordered(Linked(t, e), <<e>> \o o)
<1> DEFINE b == Bucket(t, e.hash)
           u == Linked(t, e)
           s == <<e>> \o o
<1>1. /\ Typed(u) /\ DOMAIN u = DOMAIN t /\ b \in DOMAIN t
      /\ \A c \in DOMAIN t : c # b => u[c] = t[c]
      /\ DOMAIN u[b] = 1 .. Len(t[b]) + 1 /\ u[b][1] = e
      /\ \A i \in DOMAIN u[b] : i = 1 \/ (i - 1 \in DOMAIN t[b] /\ u[b][i] = t[b][i - 1])
  BY LinkedProperties
<1>h. DOMAIN t[b] = 1 .. Len(t[b]) /\ Len(t[b]) \in Nat
  BY <1>1, Chains
<1>2. o \in Seq(Entries) /\ Len(o) \in Nat /\ DOMAIN o = 1 .. Len(o)
  BY LenProperties DEF Ordered
<1>3. /\ s \in Seq(Entries) /\ Len(s) = Len(o) + 1 /\ s[1] = e
      /\ \A m \in 1 .. Len(o) : s[m + 1] = o[m]
  BY <1>2, ConsProperties
<1>4. DOMAIN s = 1 .. Len(o) + 1
  BY <1>3, LenProperties
<1> HIDE DEF s, u
<1>5. ASSUME NEW m \in DOMAIN s, m # 1
      PROVE  m - 1 \in DOMAIN o /\ s[m] = o[m - 1]
  <2>1. m - 1 \in 1 .. Len(o) /\ (m - 1) + 1 = m
    BY <1>2, <1>4, <1>5
  <2>2. s[(m - 1) + 1] = o[m - 1]
    BY <1>3, <2>1
  <2> QED BY <1>2, <2>1, <2>2
<1>6. \A m \in DOMAIN o : o[m] \in EntriesOf(t) /\ o[m] # e
  BY DEF Ordered, ToSet
<1>7. ToSet(s) = EntriesOf(u)
  <2>1. \A m \in DOMAIN o : m + 1 \in DOMAIN s /\ s[m + 1] = o[m]
    BY <1>2, <1>3, <1>4
  <2>2. ToSet(s) = ToSet(o) \union {e}
    <3>1. \A f \in ToSet(s) : f \in ToSet(o) \union {e}
      BY <1>3, <1>5 DEF ToSet
    <3>2. \A f \in ToSet(o) : f \in ToSet(s)
      BY <2>1 DEF ToSet
    <3>3. 1 \in DOMAIN s
      BY <1>2, <1>4
    <3>4. e \in ToSet(s)
      BY <1>3, <3>3 DEF ToSet
    <3> QED BY <3>1, <3>2, <3>4
  <2> QED BY <2>2, LinkedEntries DEF Ordered, u
<1>8. IsInjective(s)
  <2>1. ASSUME NEW m \in DOMAIN s, NEW n \in DOMAIN s, s[m] = s[n] PROVE m = n
    <3>1. CASE m = 1
      BY <1>3, <1>5, <1>6, <2>1, <3>1
    <3>2. CASE n = 1
      BY <1>3, <1>5, <1>6, <2>1, <3>2
    <3>3. CASE m # 1 /\ n # 1
      <4>1. m - 1 = n - 1
        BY <1>5, <2>1, <3>3 DEF Ordered, IsInjective
      <4> QED BY <1>2, <1>4, <4>1
    <3> QED BY <3>1, <3>2, <3>3
  <2> QED BY <2>1 DEF IsInjective
<1>9. ASSUME NEW c \in DOMAIN u, NEW i \in DOMAIN u[c], NEW j \in DOMAIN u[c],
             NEW m \in DOMAIN s, NEW n \in DOMAIN s, s[m] = u[c][i], s[n] = u[c][j], i < j
      PROVE  m < n
  <2> HIDE DEF b
  <2>1. CASE c # b
    <3>1. u[c][i] \in EntriesOf(t) /\ u[c][j] \in EntriesOf(t) /\ u[c] = t[c]
      BY <1>1, <2>1, Chains
    <3>2. m # 1 /\ n # 1
      BY <1>3, <1>9, <3>1
    <3>3. m - 1 < n - 1
      BY <1>1, <1>5, <1>9, <3>1, <3>2 DEF Ordered
    <3> QED BY <1>2, <1>4, <3>3
  <2>2. CASE c = b
    <3>1. j # 1 /\ j - 1 \in DOMAIN t[b] /\ u[b][j] = t[b][j - 1]
      BY <1>1, <1>h, <1>9, <2>2
    <3>2. u[b][j] \in EntriesOf(t) /\ n # 1
      BY <1>1, <1>3, <1>9, <2>2, <3>1, Chains
    <3>3. CASE i = 1
      <4>1. m = 1
        BY <1>1, <1>5, <1>6, <1>9, <2>2, <3>3
      <4> QED BY <1>2, <1>4, <3>2, <4>1
    <3>4. CASE i # 1
      <4>1. i - 1 \in DOMAIN t[b] /\ u[b][i] = t[b][i - 1] /\ i - 1 < j - 1
        BY <1>1, <1>h, <1>9, <2>2, <3>1, <3>4
      <4>2. u[b][i] \in EntriesOf(t) /\ m # 1
        BY <1>1, <1>3, <1>9, <2>2, <4>1, Chains
      <4>3. m - 1 < n - 1
        BY <1>1, <1>5, <1>9, <2>2, <3>1, <3>2, <4>1, <4>2 DEF Ordered
      <4> QED BY <1>2, <1>4, <4>3
    <3> QED BY <3>3, <3>4
  <2> QED BY <2>1, <2>2
<1> QED BY <1>3, <1>7, <1>8, <1>9 DEF Ordered, s, u

-----------------------------------------------------------------------------
(* A deleted entry.                                                         *)

Deleted(t, k) == [t EXCEPT ![Bucket(t, Hash[k])] = RemoveAt(@, Position(t, k))]

\* Where what follows the entry at p comes to be.
Shifted(i, p) == IF i < p THEN i ELSE i + 1

\* The entry leaves its chain; the others stay in their chains, in their order.
LEMMA DeletedProperties ==
    ASSUME NEW t, Typed(t), InPlace(t), NEW k \in Keys, InChain(t, k)
    PROVE  LET b == Bucket(t, Hash[k])
               p == Position(t, k)
               u == Deleted(t, k)
           IN /\ Typed(u) /\ Capacity(u) = Capacity(t) /\ u # <<>>
              /\ DOMAIN u = DOMAIN t /\ b \in DOMAIN t
              /\ \A c \in DOMAIN t : c # b => u[c] = t[c]
              /\ p \in DOMAIN t[b] /\ t[b][p] = Entry(t, k)
              /\ \A i \in DOMAIN u[b] :
                    Shifted(i, p) \in DOMAIN t[b] /\ u[b][i] = t[b][Shifted(i, p)]
              /\ \A q \in DOMAIN t[b] : q # p => \E i \in DOMAIN u[b] : q = Shifted(i, p)
<1> DEFINE b == Bucket(t, Hash[k])
           p == Position(t, k)
           u == Deleted(t, k)
           chain == RemoveAt(t[b], p)
<1>1. b \in DOMAIN t /\ p \in DOMAIN t[b] /\ t[b][p] = Entry(t, k)
  BY Lookup DEF Entry
<1>2. t[b] \in Seq(Entries) /\ DOMAIN t[b] = 1 .. Len(t[b]) /\ Len(t[b]) \in Nat
  BY <1>1, Chains
<1>3. u = [t EXCEPT ![b] = chain]
  BY DEF Deleted
<1> HIDE DEF b, p, u
<1>4. /\ chain \in Seq(Entries) /\ Len(chain) = Len(t[b]) - 1
      /\ \A i \in 1 .. Len(t[b]) - 1 : chain[i] = IF i < p THEN t[b][i] ELSE t[b][i + 1]
  BY <1>1, <1>2, RemoveAtProperties
<1>5. DOMAIN chain = 1 .. Len(t[b]) - 1
  BY <1>4, LenProperties
<1> HIDE DEF chain
<1>6. u \in [0 .. Capacity(t) - 1 -> Seq(Entries)] /\ DOMAIN u = DOMAIN t
  BY <1>1, <1>3, <1>4, Chains DEF Typed
<1>7. Typed(u) /\ Capacity(u) = Capacity(t) /\ u # <<>>
  BY <1>6, CapacityIs DEF Typed
<1>8. u[b] = chain /\ \A c \in DOMAIN t : c # b => u[c] = t[c]
  BY <1>1, <1>3
<1>9. ASSUME NEW i \in DOMAIN u[b]
      PROVE  Shifted(i, p) \in DOMAIN t[b] /\ u[b][i] = t[b][Shifted(i, p)]
  BY <1>1, <1>2, <1>4, <1>5, <1>8 DEF Shifted
<1>10. ASSUME NEW q \in DOMAIN t[b], q # p PROVE \E i \in DOMAIN u[b] : q = Shifted(i, p)
  <2>1. CASE q < p
    <3>1. q \in DOMAIN u[b] /\ Shifted(q, p) = q
      BY <1>1, <1>2, <1>5, <1>8, <2>1 DEF Shifted
    <3> QED BY <3>1
  <2>2. CASE q > p
    <3>1. q - 1 \in DOMAIN u[b] /\ Shifted(q - 1, p) = q
      BY <1>1, <1>2, <1>5, <1>8, <2>2 DEF Shifted
    <3> QED BY <3>1
  <2> QED BY <1>1, <1>2, <1>10, <2>1, <2>2
<1> QED BY <1>1, <1>6, <1>7, <1>8, <1>9, <1>10 DEF b, p, u

\* Shifting keeps the order of places.
LEMMA ShiftedMonotonic ==
    ASSUME NEW i \in Nat, NEW j \in Nat, NEW p \in Nat
    PROVE  (i < j <=> Shifted(i, p) < Shifted(j, p)) /\ (i = j <=> Shifted(i, p) = Shifted(j, p))
           /\ Shifted(i, p) # p
BY DEF Shifted

\* The entry of the key, and no other, goes.
LEMMA DeletedEntries ==
    ASSUME NEW t, Typed(t), InPlace(t), NEW k \in Keys, InChain(t, k)
    PROVE  /\ Entry(t, k) \in EntriesOf(t) /\ Entry(t, k).key = k
           /\ EntriesOf(Deleted(t, k)) = EntriesOf(t) \ {Entry(t, k)}
<1> DEFINE b == Bucket(t, Hash[k])
           p == Position(t, k)
           u == Deleted(t, k)
<1>1. /\ Typed(u) /\ DOMAIN u = DOMAIN t /\ b \in DOMAIN t
      /\ \A c \in DOMAIN t : c # b => u[c] = t[c]
      /\ p \in DOMAIN t[b] /\ t[b][p] = Entry(t, k)
      /\ \A i \in DOMAIN u[b] :
            Shifted(i, p) \in DOMAIN t[b] /\ u[b][i] = t[b][Shifted(i, p)]
      /\ \A q \in DOMAIN t[b] : q # p => \E i \in DOMAIN u[b] : q = Shifted(i, p)
  BY DeletedProperties
<1>2. Entry(t, k) \in EntriesOf(t) /\ Entry(t, k).key = k
  BY Lookup
<1>h. /\ DOMAIN t[b] = 1 .. Len(t[b]) /\ Len(t[b]) \in Nat
      /\ DOMAIN u[b] = 1 .. Len(u[b]) /\ Len(u[b]) \in Nat
  BY <1>1, Chains
<1> HIDE DEF b, p, u
<1>3. ASSUME NEW f \in EntriesOf(u) PROVE f \in EntriesOf(t) \ {Entry(t, k)}
  <2>1. PICK c \in DOMAIN u : \E i \in DOMAIN u[c] : f = u[c][i]
    BY <1>1, Chains
  <2>2. PICK i \in DOMAIN u[c] : f = u[c][i]
    BY <2>1
  <2>3. CASE c = b
    <3>1. Shifted(i, p) \in DOMAIN t[b] /\ f = t[b][Shifted(i, p)]
      BY <1>1, <2>2, <2>3
    <3>2. Shifted(i, p) # p
      BY <1>1, <1>h, <2>2, <2>3, ShiftedMonotonic
    <3>3. f # t[b][p]
      BY <1>1, <3>1, <3>2 DEF InPlace
    <3> QED BY <1>1, <3>1, <3>3, Chains
  <2>4. CASE c # b
    <3>1. c \in DOMAIN t /\ f = t[c][i] /\ i \in DOMAIN t[c]
      BY <1>1, <2>2, <2>4
    <3>2. f # t[b][p]
      BY <1>1, <2>4, <3>1 DEF InPlace
    <3> QED BY <1>1, <3>1, <3>2, Chains
  <2> QED BY <2>3, <2>4
<1>4. ASSUME NEW f \in EntriesOf(t), f # Entry(t, k) PROVE f \in EntriesOf(u)
  <2>1. PICK c \in DOMAIN t : \E i \in DOMAIN t[c] : f = t[c][i]
    BY Chains
  <2>2. PICK i \in DOMAIN t[c] : f = t[c][i]
    BY <2>1
  <2>3. CASE c = b
    <3>1. PICK j \in DOMAIN u[b] : i = Shifted(j, p)
      BY <1>1, <1>4, <2>2, <2>3
    <3> QED BY <1>1, <2>2, <2>3, <3>1, Chains
  <2>4. CASE c # b
    BY <1>1, <2>2, <2>4, Chains
  <2> QED BY <2>3, <2>4
<1> QED BY <1>2, <1>3, <1>4 DEF u

\* Every entry is in its place.
LEMMA DeletedInPlace ==
    ASSUME NEW t, Typed(t), InPlace(t), NEW k \in Keys, InChain(t, k)
    PROVE  InPlace(Deleted(t, k))
<1> DEFINE b == Bucket(t, Hash[k])
           p == Position(t, k)
           u == Deleted(t, k)
<1>1. /\ Typed(u) /\ DOMAIN u = DOMAIN t /\ b \in DOMAIN t /\ Capacity(u) = Capacity(t)
      /\ \A c \in DOMAIN t : c # b => u[c] = t[c]
      /\ p \in DOMAIN t[b]
      /\ \A i \in DOMAIN u[b] :
            Shifted(i, p) \in DOMAIN t[b] /\ u[b][i] = t[b][Shifted(i, p)]
  BY DeletedProperties
<1>2. \A h : Bucket(u, h) = Bucket(t, h)
  BY <1>1 DEF Bucket
<1>h. /\ DOMAIN t[b] = 1 .. Len(t[b]) /\ Len(t[b]) \in Nat
      /\ DOMAIN u[b] = 1 .. Len(u[b]) /\ Len(u[b]) \in Nat
  BY <1>1, Chains
<1> HIDE DEF b, p, u
<1> SUFFICES ASSUME NEW c \in DOMAIN u, NEW d \in DOMAIN u,
                    NEW i \in DOMAIN u[c], NEW j \in DOMAIN u[d]
             PROVE  /\ Bucket(u, u[c][i].hash) = c /\ u[c][i].hash = Hash[u[c][i].key]
                    /\ u[c][i].key = u[d][j].key => c = d /\ i = j
  BY DEF InPlace, u
<1> DEFINE before(a, n) == IF a = b THEN Shifted(n, p) ELSE n
<1>3. before(c, i) \in DOMAIN t[c] /\ u[c][i] = t[c][before(c, i)]
  BY <1>1
<1>4. before(d, j) \in DOMAIN t[d] /\ u[d][j] = t[d][before(d, j)]
  BY <1>1
<1>5. Bucket(u, u[c][i].hash) = c /\ u[c][i].hash = Hash[u[c][i].key]
  <2> HIDE DEF before
  <2> QED BY <1>1, <1>2, <1>3 DEF InPlace
<1>6. ASSUME u[c][i].key = u[d][j].key PROVE c = d /\ i = j
  <2>1. c = d /\ before(c, i) = before(d, j)
    <3> HIDE DEF before
    <3> QED BY <1>1, <1>3, <1>4, <1>6 DEF InPlace
  <2>2. CASE c = b
    BY <1>1, <1>h, <2>1, <2>2, ShiftedMonotonic
  <2>3. CASE c # b
    BY <2>1, <2>3
  <2> QED BY <2>1, <2>2, <2>3
<1> QED BY <1>5, <1>6

\* The entry leaves the order, too.
LEMMA DeletedOrdered ==
    ASSUME NEW t, Typed(t), InPlace(t), NEW k \in Keys, InChain(t, k), NEW o, Ordered(t, o)
    PROVE  Ordered(Deleted(t, k), RemoveAt(o, FirstOf(o, k)))
<1> DEFINE b == Bucket(t, Hash[k])
           p == Position(t, k)
           u == Deleted(t, k)
           f == FirstOf(o, k)
           s == RemoveAt(o, f)
<1>1. /\ Typed(u) /\ DOMAIN u = DOMAIN t /\ b \in DOMAIN t
      /\ \A c \in DOMAIN t : c # b => u[c] = t[c]
      /\ p \in DOMAIN t[b]
      /\ \A i \in DOMAIN u[b] :
            Shifted(i, p) \in DOMAIN t[b] /\ u[b][i] = t[b][Shifted(i, p)]
  BY DeletedProperties
<1>h. /\ DOMAIN t[b] = 1 .. Len(t[b]) /\ Len(t[b]) \in Nat
      /\ DOMAIN u[b] = 1 .. Len(u[b]) /\ Len(u[b]) \in Nat
  BY <1>1, Chains
<1>2. o \in Seq(Entries) /\ Len(o) \in Nat /\ DOMAIN o = 1 .. Len(o)
  BY LenProperties DEF Ordered
<1>3. f \in DOMAIN o /\ o[f] = Entry(t, k)
  <2>1. Entry(t, k) \in ToSet(o) /\ Entry(t, k).key = k
    BY DeletedEntries DEF Ordered
  <2>2. PICK m \in DOMAIN o : o[m] = Entry(t, k)
    BY <2>1 DEF ToSet
  <2>3. f \in DOMAIN o /\ o[f].key = k
    BY <1>2, <2>1, <2>2, FirstOfProperties
  <2>4. o[f] \in EntriesOf(t)
    BY <2>3 DEF Ordered, ToSet
  <2> QED BY <2>1, <2>3, <2>4, DeletedEntries, KeysDistinct
<1> HIDE DEF b, p, u, f
<1>4. /\ s \in Seq(Entries) /\ Len(s) = Len(o) - 1
      /\ \A i \in 1 .. Len(o) - 1 : s[i] = IF i < f THEN o[i] ELSE o[i + 1]
  BY <1>2, <1>3, RemoveAtProperties
<1>5. DOMAIN s = 1 .. Len(o) - 1
  BY <1>4, LenProperties
<1> HIDE DEF s
<1>6. \A m \in DOMAIN s : Shifted(m, f) \in DOMAIN o /\ s[m] = o[Shifted(m, f)]
  BY <1>2, <1>3, <1>4, <1>5 DEF Shifted
<1>7. \A m \in DOMAIN o : m # f => \E n \in DOMAIN s : m = Shifted(n, f)
  <2>1. ASSUME NEW m \in DOMAIN o, m # f PROVE \E n \in DOMAIN s : m = Shifted(n, f)
    <3>1. CASE m < f
      <4>1. m \in DOMAIN s /\ Shifted(m, f) = m
        BY <1>2, <1>3, <1>5, <3>1 DEF Shifted
      <4> QED BY <4>1
    <3>2. CASE m > f
      <4>1. m - 1 \in DOMAIN s /\ Shifted(m - 1, f) = m
        BY <1>2, <1>3, <1>5, <3>2 DEF Shifted
      <4> QED BY <4>1
    <3> QED BY <1>2, <1>3, <2>1, <3>1, <3>2
  <2> QED BY <2>1
<1>8. ToSet(s) = ToSet(o) \ {Entry(t, k)}
  <2>1. ASSUME NEW e \in ToSet(s) PROVE e \in ToSet(o) \ {Entry(t, k)}
    <3>1. PICK m \in DOMAIN s : e = s[m]
      BY DEF ToSet
    <3>2. Shifted(m, f) \in DOMAIN o /\ e = o[Shifted(m, f)] /\ Shifted(m, f) # f
      BY <1>2, <1>3, <1>5, <1>6, <3>1, ShiftedMonotonic
    <3> QED BY <1>3, <3>2 DEF ToSet, Ordered, IsInjective
  <2>2. ASSUME NEW e \in ToSet(o), e # Entry(t, k) PROVE e \in ToSet(s)
    <3>1. PICK m \in DOMAIN o : e = o[m]
      BY DEF ToSet
    <3>2. PICK n \in DOMAIN s : m = Shifted(n, f)
      BY <1>3, <1>7, <2>2, <3>1
    <3> QED BY <1>6, <3>1, <3>2 DEF ToSet
  <2> QED BY <2>1, <2>2
<1>9. ToSet(s) = EntriesOf(u)
  BY <1>8, DeletedEntries DEF Ordered, u
<1>10. IsInjective(s)
  <2>1. ASSUME NEW m \in DOMAIN s, NEW n \in DOMAIN s, s[m] = s[n] PROVE m = n
    <3>1. Shifted(m, f) = Shifted(n, f)
      BY <1>6, <2>1 DEF Ordered, IsInjective
    <3> QED BY <1>2, <1>3, <1>5, <3>1, ShiftedMonotonic
  <2> QED BY <2>1 DEF IsInjective
<1>11. ASSUME NEW c \in DOMAIN u, NEW i \in DOMAIN u[c], NEW j \in DOMAIN u[c],
              NEW m \in DOMAIN s, NEW n \in DOMAIN s, s[m] = u[c][i], s[n] = u[c][j], i < j
       PROVE  m < n
  <2> DEFINE before(a) == IF c = b THEN Shifted(a, p) ELSE a
  <2>1. /\ before(i) \in DOMAIN t[c] /\ u[c][i] = t[c][before(i)]
        /\ before(j) \in DOMAIN t[c] /\ u[c][j] = t[c][before(j)]
    BY <1>1
  <2>2. before(i) < before(j)
    BY <1>1, <1>h, <1>11, ShiftedMonotonic
  <2> HIDE DEF before
  <2>3. Shifted(m, f) < Shifted(n, f)
    BY <1>1, <1>6, <1>11, <2>1, <2>2 DEF Ordered
  <2> QED BY <1>2, <1>3, <1>5, <2>3, ShiftedMonotonic
<1> QED BY <1>4, <1>9, <1>10, <1>11 DEF Ordered, s, u, f

-----------------------------------------------------------------------------
(* Expansion.                                                               *)

\* There are as many places as entries.
LEMMA PlacesCount ==
    ASSUME NEW t, Typed(t), InPlace(t), IsFiniteSet(EntriesOf(t))
    PROVE  /\ IsFiniteSet(PlacesBelow(t, Capacity(t)))
           /\ Cardinality(PlacesBelow(t, Capacity(t))) = Cardinality(EntriesOf(t))
<1> DEFINE places == PlacesBelow(t, Capacity(t))
           f == [q \in places |-> t[q[1]][q[2]]]
<1>0. DOMAIN t = 0 .. Capacity(t) - 1
  BY Chains
<1>1. \A q \in places : q[1] \in DOMAIN t /\ q[2] \in DOMAIN t[q[1]] /\ q = <<q[1], q[2]>>
  <2>1. ASSUME NEW q \in places
        PROVE  q[1] \in DOMAIN t /\ q[2] \in DOMAIN t[q[1]] /\ q = <<q[1], q[2]>>
    <3>1. PICK b \in 0 .. Capacity(t) - 1 : q \in {b} \X DOMAIN t[b]
      BY Zenon DEF PlacesBelow
    <3>2. q[1] = b /\ q[2] \in DOMAIN t[b] /\ q = <<q[1], q[2]>>
      BY <3>1
    <3> QED BY <1>0, <3>2
  <2> QED BY <2>1
<1>2. \A b \in DOMAIN t : \A i \in DOMAIN t[b] : <<b, i>> \in places
  <2>1. ASSUME NEW b \in DOMAIN t, NEW i \in DOMAIN t[b] PROVE <<b, i>> \in places
    <3>1. <<b, i>> \in {b} \X DOMAIN t[b]
      OBVIOUS
    <3> QED BY <1>0, <3>1, Zenon DEF PlacesBelow
  <2> QED BY <2>1
<1> HIDE DEF places
<1>3. f \in [places -> EntriesOf(t)]
  BY <1>1, Chains
<1>4. IsInjective(f)
  <2>1. ASSUME NEW q \in places, NEW r \in places, f[q] = f[r] PROVE q = r
    BY <1>1, <2>1 DEF InPlace
  <2> QED BY <2>1 DEF IsInjective
<1>5. \A e \in EntriesOf(t) : \E q \in places : f[q] = e
  <2>1. ASSUME NEW e \in EntriesOf(t) PROVE \E q \in places : f[q] = e
    <3>1. PICK b \in DOMAIN t : \E i \in DOMAIN t[b] : e = t[b][i]
      BY Chains
    <3>2. PICK i \in DOMAIN t[b] : e = t[b][i]
      BY <3>1
    <3>3. <<b, i>> \in places
      BY <1>2
    <3>4. f[<<b, i>>] = e
      BY <3>2, <3>3
    <3> QED BY <3>3, <3>4
  <2> QED BY <2>1
<1>6. f \in Injection(places, EntriesOf(t)) /\ f \in Surjection(places, EntriesOf(t))
  <2> HIDE DEF f
  <2> QED BY <1>3, <1>4, <1>5 DEF Injection, Surjection
<1> HIDE DEF f
<1>7. IsFiniteSet(places) /\ Cardinality(places) = Cardinality(EntriesOf(t))
  BY <1>6, FS_Injection
<1> QED BY <1>7 DEF places

\* Every bucket that is not reached is empty.
LEMMA UnreachedIsEmpty ==
    ASSUME Typed(table), InPlace(table), Counted(table, size), NEW b \in DOMAIN table, ~Reached(b)
    PROVE  DOMAIN table[b] = {}
<1> DEFINE all == PlacesBelow(table, Capacity(table))
<1>1. DOMAIN table = 0 .. Capacity(table) - 1 /\ Capacity(table) \in Nat
  BY Chains DEF Typed
<1>2. IsFiniteSet(all) /\ Cardinality(all) = size
  BY PlacesCount DEF Counted
<1>3. PICK c \in 0 .. b : Cardinality(PlacesBelow(table, c)) = size
  BY DEF Reached
<1>4. PlacesBelow(table, c) \subseteq all
  BY <1>1 DEF PlacesBelow
<1>5. PlacesBelow(table, c) = all
  BY <1>2, <1>3, <1>4, FS_Subset
<1>6. ASSUME NEW i \in DOMAIN table[b] PROVE FALSE
  <2>1. <<b, i>> \in all
    BY <1>1 DEF PlacesBelow
  <2>2. \A q \in PlacesBelow(table, c) : q[1] \in 0 .. c - 1
    BY DEF PlacesBelow
  <2>3. b \in 0 .. c - 1
    BY <1>5, <2>1, <2>2
  <2> QED BY <1>1, <1>3, <2>3
<1> QED BY <1>6

\* Each new chain has what belongs in it of the old one it comes from, turned round.
LEMMA ExpandedProperties ==
    ASSUME Typed(table), InPlace(table), Counted(table, size)
    PROVE  /\ Typed(Expanded) /\ Capacity(Expanded) = 2 * Capacity(table) /\ Expanded # <<>>
           /\ \A b \in DOMAIN Expanded :
                 /\ b % Capacity(table) \in DOMAIN table
                 /\ IsMoved(Expanded[b], Len(table[b % Capacity(table)]),
                            table[b % Capacity(table)], 2 * Capacity(table), b)
<1> DEFINE old == Capacity(table)
           C == 2 * old
<1>1. DOMAIN table = 0 .. old - 1 /\ old \in Nat \ {0} /\ C \in Nat \ {0}
  BY Chains DEF Typed
<1>2. DOMAIN Expanded = 0 .. C - 1
  BY DEF Expanded
<1>3. ASSUME NEW b \in 0 .. C - 1
      PROVE  /\ b % old \in DOMAIN table
             /\ IsMoved(Expanded[b], Len(table[b % old]), table[b % old], C, b)
  <2>1. b % old \in DOMAIN table
    <3>1. b \in Nat
      BY <1>1
    <3> HIDE DEF old, C
    <3> QED BY <1>1, <3>1, DivMod
  <2>2. table[b % old] \in Seq(Entries)
    BY <2>1, Chains
  <2>3. CASE Reached(b % old)
    <3>1. Expanded[b] = Pushed(table[b % old], C, b)
      BY <2>3 DEF Expanded
    <3> QED BY <2>1, <2>2, <3>1, PushedProperties
  <2>4. CASE ~Reached(b % old)
    <3>1. Expanded[b] = <<>>
      BY <2>4 DEF Expanded
    <3>2. Len(table[b % old]) \in Nat /\ 1 .. Len(table[b % old]) = {}
      BY <2>1, <2>4, UnreachedIsEmpty, Chains
    <3>3. IsMoved(<<>>, Len(table[b % old]), table[b % old], C, b)
      <4> HIDE DEF C, old
      <4>1. <<>> \in Seq(Entries) /\ Len(<<>>) = 0
        OBVIOUS
      <4>2. <<>> \in [1 .. Len(<<>>) -> 1 .. Len(table[b % old])]
        OBVIOUS
      <4> QED BY <3>2, <4>1, <4>2 DEF IsMoved
    <3> QED BY <2>1, <3>1, <3>3
  <2> QED BY <2>3, <2>4
<1>4. Expanded \in [0 .. C - 1 -> Seq(Entries)]
  <2>1. Expanded = [b \in 0 .. C - 1 |-> Expanded[b]]
    BY DEF Expanded
  <2>2. \A b \in 0 .. C - 1 : Expanded[b] \in Seq(Entries)
    BY <1>3 DEF IsMoved
  <2> HIDE DEF C
  <2> QED BY <2>1, <2>2
<1>5. Typed(Expanded) /\ Capacity(Expanded) = C /\ Expanded # <<>>
  <2> HIDE DEF C
  <2> QED BY <1>1, <1>4, CapacityIs
<1> QED BY <1>2, <1>3, <1>5

\* A new chain is a part of one old chain, in the reverse order.
LEMMA ExpandedFrom ==
    ASSUME Typed(table), InPlace(table), Counted(table, size), NEW b \in DOMAIN Expanded
    PROVE  /\ b % Capacity(table) \in DOMAIN table
           /\ \E pos \in [DOMAIN Expanded[b] -> DOMAIN table[b % Capacity(table)]] :
                 /\ \A i \in DOMAIN Expanded[b] :
                       /\ Expanded[b][i] = table[b % Capacity(table)][pos[i]]
                       /\ Expanded[b][i].hash % (2 * Capacity(table)) = b
                 /\ \A i, j \in DOMAIN Expanded[b] : i < j => pos[i] > pos[j]
<1> DEFINE c == b % Capacity(table)
           u == Expanded
<1>1. c \in DOMAIN table /\ IsMoved(u[b], Len(table[c]), table[c], 2 * Capacity(table), b)
  BY ExpandedProperties
<1>2. Typed(u)
  BY ExpandedProperties
<1>3. DOMAIN u[b] = 1 .. Len(u[b]) /\ DOMAIN table[c] = 1 .. Len(table[c])
  <2> HIDE DEF u, c
  <2>1. b \in DOMAIN u
    BY DEF u
  <2> QED BY <1>1, <1>2, <2>1, Chains
<1> HIDE DEF u, c
<1>4. PICK pos \in [1 .. Len(u[b]) -> 1 .. Len(table[c])] :
          /\ \A i \in 1 .. Len(u[b]) :
                u[b][i] = table[c][pos[i]] /\ table[c][pos[i]].hash % (2 * Capacity(table)) = b
          /\ \A i, j \in 1 .. Len(u[b]) : i < j => pos[i] > pos[j]
  BY <1>1 DEF IsMoved
<1>5. \A i \in DOMAIN u[b] : u[b][i] = table[c][pos[i]] /\ u[b][i].hash % (2 * Capacity(table)) = b
  BY <1>3, <1>4
<1>6. pos \in [DOMAIN u[b] -> DOMAIN table[c]]
  BY <1>3, <1>4
<1> QED BY <1>1, <1>3, <1>4, <1>5, <1>6 DEF u, c

\* No entry is left behind.
LEMMA ExpandedTo ==
    ASSUME Typed(table), InPlace(table), Counted(table, size),
           NEW c \in DOMAIN table, NEW p \in DOMAIN table[c]
    PROVE  \E b \in DOMAIN Expanded : \E i \in DOMAIN Expanded[b] : Expanded[b][i] = table[c][p]
<1> DEFINE old == Capacity(table)
           u == Expanded
           h == table[c][p].hash
           b == h % (2 * old)
<1>1. h \in Nat /\ h % old = c /\ old \in Nat \ {0}
  BY Chains DEF Typed, InPlace, Bucket, Entries
<1>2. Typed(u) /\ Capacity(u) = 2 * old
  BY ExpandedProperties
<1>3. DOMAIN u = 0 .. 2 * old - 1
  <2> HIDE DEF u, old
  <2> QED BY <1>2, Chains
<1>4. b \in DOMAIN u /\ b % old = c
  <2> HIDE DEF u, old, h
  <2> QED BY <1>1, <1>3, BucketOfDouble DEF b
<1>5. IsMoved(u[b], Len(table[c]), table[c], 2 * old, b)
  BY <1>4, ExpandedProperties
<1>6. DOMAIN u[b] = 1 .. Len(u[b]) /\ DOMAIN table[c] = 1 .. Len(table[c])
  <2> HIDE DEF u, b
  <2> QED BY <1>2, <1>4, Chains
<1> HIDE DEF u, b, old
<1>7. PICK pos \in [1 .. Len(u[b]) -> 1 .. Len(table[c])] :
          /\ \A i \in 1 .. Len(u[b]) : u[b][i] = table[c][pos[i]]
          /\ \A q \in 1 .. Len(table[c]) :
                table[c][q].hash % (2 * old) = b => \E i \in 1 .. Len(u[b]) : pos[i] = q
  BY <1>5 DEF IsMoved
<1>8. PICK i \in 1 .. Len(u[b]) : pos[i] = p
  BY <1>6, <1>7 DEF b
<1>9. i \in DOMAIN u[b] /\ u[b][i] = table[c][p]
  BY <1>6, <1>7, <1>8
<1> QED BY <1>4, <1>9 DEF u

\* An expansion keeps the entries.
LEMMA ExpandedEntries ==
    ASSUME Typed(table), InPlace(table), Counted(table, size)
    PROVE  EntriesOf(Expanded) = EntriesOf(table)
<1>1. Typed(Expanded)
  BY ExpandedProperties
<1>2. ASSUME NEW e \in EntriesOf(Expanded) PROVE e \in EntriesOf(table)
  <2>1. PICK b \in DOMAIN Expanded : \E i \in DOMAIN Expanded[b] : e = Expanded[b][i]
    BY <1>1, Chains
  <2>2. PICK i \in DOMAIN Expanded[b] : e = Expanded[b][i]
    BY <2>1
  <2>3. b % Capacity(table) \in DOMAIN table
    BY ExpandedFrom
  <2>4. \E q \in DOMAIN table[b % Capacity(table)] : e = table[b % Capacity(table)][q]
    BY <2>2, ExpandedFrom
  <2> QED BY <2>3, <2>4, Chains
<1>3. ASSUME NEW e \in EntriesOf(table) PROVE e \in EntriesOf(Expanded)
  <2>1. PICK c \in DOMAIN table : \E p \in DOMAIN table[c] : e = table[c][p]
    BY Chains
  <2>2. PICK p \in DOMAIN table[c] : e = table[c][p]
    BY <2>1
  <2>3. PICK b \in DOMAIN Expanded : \E i \in DOMAIN Expanded[b] : Expanded[b][i] = e
    BY <2>2, ExpandedTo
  <2> QED BY <1>1, <2>3, Chains
<1> QED BY <1>2, <1>3

\* No key has two entries in a chain.
LEMMA KeysInChain ==
    ASSUME NEW t, InPlace(t), NEW b \in DOMAIN t
    PROVE  \A i, j \in DOMAIN t[b] : t[b][i].key = t[b][j].key => i = j
<1>1. \A c \in DOMAIN t : \A i \in DOMAIN t[b], j \in DOMAIN t[c] :
          t[b][i].key = t[c][j].key => b = c /\ i = j
  BY DEF InPlace
<1> QED BY <1>1, Zenon

\* An expansion puts every entry into its new bucket.
LEMMA ExpandedInPlace ==
    ASSUME Typed(table), InPlace(table), Counted(table, size)
    PROVE  InPlace(Expanded)
<1> DEFINE u == Expanded
           old == Capacity(table)
<1>1. Typed(u) /\ Capacity(u) = 2 * old
  BY ExpandedProperties
<1>2. ASSUME NEW b \in DOMAIN u, NEW c \in DOMAIN u, NEW i \in DOMAIN u[b], NEW j \in DOMAIN u[c]
      PROVE  /\ Bucket(u, u[b][i].hash) = b /\ u[b][i].hash = Hash[u[b][i].key]
             /\ u[b][i].key = u[c][j].key => b = c /\ i = j
  <2>1. b % old \in DOMAIN table /\ c % old \in DOMAIN table
    BY ExpandedFrom
  <2>2. PICK f \in [DOMAIN u[b] -> DOMAIN table[b % old]] :
            /\ \A m \in DOMAIN u[b] : u[b][m] = table[b % old][f[m]] /\ u[b][m].hash % (2 * old) = b
            /\ \A m, n \in DOMAIN u[b] : m < n => f[m] > f[n]
    BY ExpandedFrom
  <2>3. PICK g \in [DOMAIN u[c] -> DOMAIN table[c % old]] :
            /\ \A m \in DOMAIN u[c] : u[c][m] = table[c % old][g[m]] /\ u[c][m].hash % (2 * old) = c
            /\ \A m, n \in DOMAIN u[c] : m < n => g[m] > g[n]
    BY ExpandedFrom
  <2> HIDE DEF u, old
  <2>4. f[i] \in DOMAIN table[b % old] /\ u[b][i] = table[b % old][f[i]]
    BY <2>2
  <2>5. g[j] \in DOMAIN table[c % old] /\ u[c][j] = table[c % old][g[j]]
    BY <2>3
  <2>6. Bucket(u, u[b][i].hash) = b
    BY <1>1, <2>2 DEF Bucket
  <2>7. u[b][i].hash = Hash[u[b][i].key]
    BY <2>1, <2>4 DEF InPlace
  <2>8. ASSUME u[b][i].key = u[c][j].key PROVE b = c /\ i = j
    <3>1. b % old = c % old /\ f[i] = g[j]
      BY <2>1, <2>4, <2>5, <2>8 DEF InPlace
    <3>2. u[b][i] = u[c][j]
      BY <2>4, <2>5, <3>1
    <3>3. b = c
      BY <2>2, <2>3, <3>2
    <3>4. DOMAIN u[b] = 1 .. Len(u[b]) /\ Len(u[b]) \in Nat /\ DOMAIN table[b % old] = 1 .. Len(table[b % old])
      BY <1>1, <2>1, Chains
    <3>5. i = j
      <4>1. u[b][j] = table[b % old][f[j]] /\ u[b][j] = u[b][i] /\ f[j] \in DOMAIN table[b % old]
        BY <2>2, <3>2, <3>3
      <4>2. f[i] = f[j]
        <5>1. table[b % old][f[i]].key = table[b % old][f[j]].key
          BY <2>4, <4>1
        <5>2. \A x, y \in DOMAIN table[b % old] :
                  table[b % old][x].key = table[b % old][y].key => x = y
          BY ONLY InPlace(table), <2>1, KeysInChain
        <5> QED BY ONLY <2>4, <4>1, <5>1, <5>2, Zenon
      <4>3. i \in DOMAIN u[b] /\ j \in DOMAIN u[b]
        BY <3>3
      <4>4. f[i] \in Nat /\ f[j] \in Nat /\ i \in Nat /\ j \in Nat
        BY <2>4, <3>4, <4>1, <4>3
      <4>5. (i < j => f[i] > f[j]) /\ (j < i => f[j] > f[i])
        BY <2>2, <4>3
      <4> QED BY <4>2, <4>4, <4>5
    <3> QED BY <3>3, <3>5
  <2> QED BY <2>6, <2>7, <2>8
<1> QED BY <1>2 DEF InPlace

\* An expansion turns the order of every chain round.
LEMMA ExpandedOrdered ==
    ASSUME Typed(table), InPlace(table), Counted(table, size), NEW o, Ordered(table, o)
    PROVE  Ordered(Expanded, Reverse(o))
<1> DEFINE u == Expanded
           r == Reverse(o)
           L == Len(o)
           old == Capacity(table)
<1>1. o \in Seq(Entries) /\ ToSet(o) = EntriesOf(table) /\ IsInjective(o)
  BY DEF Ordered
<1>2. r \in Seq(Entries) /\ Len(r) = L /\ L \in Nat /\ \A m \in 1 .. L : r[m] = o[(L - m) + 1]
  BY <1>1, ReverseProperties, LenProperties
<1>3. DOMAIN o = 1 .. L /\ DOMAIN r = 1 .. L
  BY <1>1, <1>2, LenProperties
<1>4. Typed(u)
  BY ExpandedProperties
<1> HIDE DEF r, L
<1>5. \A m \in 1 .. L : (L - m) + 1 \in 1 .. L /\ (L - ((L - m) + 1)) + 1 = m
  BY <1>2
<1>6. ToSet(r) = ToSet(o)
  <2>1. ASSUME NEW m \in 1 .. L PROVE r[m] \in ToSet(o)
    BY <1>2, <1>3, <1>5 DEF ToSet
  <2>2. ASSUME NEW m \in 1 .. L PROVE o[m] \in ToSet(r)
    <3>1. r[(L - m) + 1] = o[m] /\ (L - m) + 1 \in DOMAIN r
      BY <1>2, <1>3, <1>5
    <3> QED BY <3>1 DEF ToSet
  <2> QED BY <1>3, <2>1, <2>2 DEF ToSet
<1>7. ToSet(r) = EntriesOf(u)
  BY <1>1, <1>6, ExpandedEntries
<1>8. IsInjective(r)
  <2>1. ASSUME NEW m \in DOMAIN r, NEW n \in DOMAIN r, r[m] = r[n] PROVE m = n
    <3>1. (L - m) + 1 \in DOMAIN o /\ (L - n) + 1 \in DOMAIN o /\ o[(L - m) + 1] = o[(L - n) + 1]
      BY <1>2, <1>3, <1>5, <2>1
    <3>2. (L - m) + 1 = (L - n) + 1
      BY <1>1, <3>1 DEF IsInjective
    <3> QED BY <1>2, <1>3, <3>2
  <2> QED BY <2>1 DEF IsInjective
<1>9. ASSUME NEW b \in DOMAIN u, NEW i \in DOMAIN u[b], NEW j \in DOMAIN u[b],
             NEW m \in DOMAIN r, NEW n \in DOMAIN r, r[m] = u[b][i], r[n] = u[b][j], i < j
      PROVE  m < n
  <2>1. b % old \in DOMAIN table
    BY ExpandedFrom
  <2>2. PICK f \in [DOMAIN u[b] -> DOMAIN table[b % old]] :
            /\ \A k \in DOMAIN u[b] : u[b][k] = table[b % old][f[k]]
            /\ \A k, l \in DOMAIN u[b] : k < l => f[k] > f[l]
    BY ExpandedFrom
  <2>3. DOMAIN table[b % old] = 1 .. Len(table[b % old])
    BY <2>1, Chains
  <2> HIDE DEF u, old
  <2>4. f[i] \in DOMAIN table[b % old] /\ f[j] \in DOMAIN table[b % old] /\ f[j] < f[i]
    BY <1>9, <2>2, <2>3
  <2>5. /\ (L - m) + 1 \in DOMAIN o /\ o[(L - m) + 1] = table[b % old][f[i]]
        /\ (L - n) + 1 \in DOMAIN o /\ o[(L - n) + 1] = table[b % old][f[j]]
    BY <1>2, <1>3, <1>5, <1>9, <2>2
  <2>6. (L - n) + 1 < (L - m) + 1
    BY <2>1, <2>4, <2>5 DEF Ordered
  <2> QED BY <1>2, <1>3, <2>6
<1> QED BY <1>2, <1>7, <1>8, <1>9 DEF Ordered, r, u

-----------------------------------------------------------------------------
(* The inductive invariant.                                                 *)

\* The four parts hold of the table together: size must be exact for an expansion to
\* keep every entry, entries must be in place for a look at one chain to decide
\* whether a key is new, and keys must be distinct for the history to be followed.
Inv ==
    /\ Exists => Typed(table)
    /\ InPlace(table) /\ Counted(table, size) /\ Ordered(table, order)
    /\ fixedsize \in BOOLEAN

\* Without a map there are no entries.
LEMMA NoTable ==
    /\ DOMAIN <<>> = {} /\ EntriesOf(<<>>) = {} /\ InPlace(<<>>)
    /\ Counted(<<>>, 0) /\ Ordered(<<>>, <<>>)
<1>1. DOMAIN <<>> = {}
  OBVIOUS
<1>2. EntriesOf(<<>>) = {} /\ InPlace(<<>>)
  BY <1>1 DEF EntriesOf, InPlace
<1>3. Counted(<<>>, 0)
  BY <1>2, FS_EmptySet DEF Counted
<1>4. <<>> \in Seq(Entries) /\ ToSet(<<>>) = {} /\ IsInjective(<<>>)
  BY <1>1 DEF ToSet, IsInjective
<1>5. Ordered(<<>>, <<>>)
  BY <1>1, <1>2, <1>4 DEF Ordered
<1> QED BY <1>1, <1>2, <1>3, <1>5

\* And the size and the history say so.
LEMMA NoOrder ==
    ASSUME NEW n, NEW o, Counted(<<>>, n), Ordered(<<>>, o)
    PROVE  n = 0 /\ o = <<>>
<1>1. n = 0
  BY NoTable, FS_EmptySet DEF Counted
<1>2. o \in Seq(Entries) /\ ToSet(o) = {}
  BY NoTable DEF Ordered
<1>3. DOMAIN o = 1 .. Len(o) /\ Len(o) \in Nat
  BY <1>2, LenProperties
<1>4. Len(o) = 0
  <2>1. ASSUME Len(o) # 0 PROVE FALSE
    <3>1. 1 \in DOMAIN o
      BY <1>3, <2>1
    <3> QED BY <1>2, <3>1 DEF ToSet
  <2> QED BY <2>1
<1>5. o = <<>>
  BY <1>2, <1>4, EmptySeq
<1> QED BY <1>1, <1>5

\* A new map has none either.
LEMMA NewTable ==
    ASSUME NEW cap \in Nat \ {0}
    PROVE  /\ Typed(Empty(cap)) /\ InPlace(Empty(cap)) /\ EntriesOf(Empty(cap)) = {}
           /\ Counted(Empty(cap), 0) /\ Ordered(Empty(cap), <<>>)
<1> DEFINE t == Empty(cap)
<1>1. Typed(t) /\ InPlace(t) /\ EntriesOf(t) = {}
  BY EmptyProperties
<1>2. Counted(t, 0)
  BY <1>1, FS_EmptySet DEF Counted
<1>3. <<>> \in Seq(Entries) /\ ToSet(<<>>) = {} /\ IsInjective(<<>>) /\ DOMAIN <<>> = {}
  BY NoTable DEF ToSet, IsInjective
<1> HIDE DEF t
<1>4. Ordered(t, <<>>)
  BY <1>1, <1>3 DEF Ordered
<1> QED BY <1>1, <1>2, <1>4 DEF t

\* What hmapAdd and hmapContains go on with, after an expansion or without one.
LEMMA Rebuilt ==
    ASSUME Exists, Inv, NEW t, NEW o, Rebuilds(t, o)
    PROVE  /\ Typed(t) /\ InPlace(t) /\ EntriesOf(t) = EntriesOf(table) /\ t # <<>>
           /\ Counted(t, size) /\ Ordered(t, o)
<1>1. CASE t = table /\ o = order
  BY <1>1 DEF Inv, Exists
<1>2. CASE t = Expanded /\ o = Reverse(order)
  <2>1. Typed(table) /\ InPlace(table) /\ Counted(table, size) /\ Ordered(table, order)
    BY DEF Inv
  <2>2. EntriesOf(t) = EntriesOf(table) /\ InPlace(t) /\ Ordered(t, o)
    BY <1>2, <2>1, ExpandedEntries, ExpandedInPlace, ExpandedOrdered
  <2>3. Typed(t) /\ t # <<>>
    BY <1>2, <2>1, ExpandedProperties
  <2> QED BY <2>1, <2>2, <2>3 DEF Counted
<1> QED BY <1>1, <1>2 DEF Rebuilds

\* hmapAdd with a key that is not there.
LEMMA LinkedCounted ==
    ASSUME NEW t, Typed(t), InPlace(t), NEW n, Counted(t, n), NEW e \in Entries,
           e.hash = Hash[e.key], \A f \in EntriesOf(t) : f.key # e.key
    PROVE  Counted(Linked(t, e), n + 1)
<1>1. EntriesOf(Linked(t, e)) = EntriesOf(t) \union {e}
  BY LinkedEntries
<1>2. e \notin EntriesOf(t)
  OBVIOUS
<1> QED BY <1>1, <1>2, FS_AddElement DEF Counted

\* hmapDelete with a key that is.
LEMMA DeletedCounted ==
    ASSUME NEW t, Typed(t), InPlace(t), NEW n, Counted(t, n), NEW k \in Keys, InChain(t, k)
    PROVE  Counted(Deleted(t, k), n - 1)
<1>1. EntriesOf(Deleted(t, k)) = EntriesOf(t) \ {Entry(t, k)} /\ Entry(t, k) \in EntriesOf(t)
  BY DeletedEntries
<1> QED BY <1>1, FS_RemoveElement DEF Counted

\* The steps of hmapAdd.
NewEntry(k, v) == [key |-> k, value |-> v, hash |-> Hash[k]]

LEMMA AddStep ==
    ASSUME Inv, NEW k \in Keys, NEW v \in Values, hmapAdd(k, v)
    PROVE  Inv'
<1> DEFINE e == NewEntry(k, v)
<1>1. PICK t, o : /\ Rebuilds(t, o)
                  /\ \/ table' = t /\ order' = o /\ size' = size
                     \/ /\ ~InChain(t, k)
                        /\ table' = Linked(t, e) /\ order' = <<e>> \o o /\ size' = size + 1
  BY DEF hmapAdd, NewEntry
<1>2. Exists /\ fixedsize' \in BOOLEAN
  BY DEF hmapAdd, Inv
<1>3. Typed(t) /\ InPlace(t) /\ Counted(t, size) /\ Ordered(t, o)
  BY <1>1, <1>2, Rebuilt
<1>4. CASE table' = t /\ order' = o /\ size' = size
  BY <1>2, <1>3, <1>4 DEF Inv
<1>5. CASE /\ ~InChain(t, k)
           /\ table' = Linked(t, e) /\ order' = <<e>> \o o /\ size' = size + 1
  <2>1. e \in Entries /\ e.hash = Hash[e.key] /\ e.key = k
    BY HashNat DEF NewEntry, Entries
  <2> HIDE DEF e
  <2>2. \A f \in EntriesOf(t) : f.key # e.key
    BY <1>3, <1>5, <2>1, Lookup
  <2>3. Typed(table') /\ InPlace(table') /\ Ordered(table', order')
    BY <1>3, <1>5, <2>1, <2>2, LinkedProperties, LinkedInPlace, LinkedOrdered
  <2>4. Counted(table', size')
    BY <1>3, <1>5, <2>1, <2>2, LinkedCounted
  <2> QED BY <1>2, <2>3, <2>4 DEF Inv
<1> QED BY <1>1, <1>4, <1>5

LEMMA DeleteStep ==
    ASSUME Inv, NEW k \in Keys, hmapDelete(k)
    PROVE  Inv'
<1>1. Typed(table) /\ InPlace(table) /\ Counted(table, size) /\ Ordered(table, order)
  BY DEF hmapDelete, Inv
<1>2. CASE /\ InChain(table, k) /\ table' = Deleted(table, k)
           /\ order' = RemoveAt(order, FirstOf(order, k)) /\ size' = size - 1
  <2>1. Typed(table') /\ InPlace(table') /\ Ordered(table', order')
    BY <1>1, <1>2, DeletedProperties, DeletedInPlace, DeletedOrdered
  <2>2. Counted(table', size')
    BY <1>1, <1>2, DeletedCounted
  <2> QED BY <2>1, <2>2 DEF Inv, hmapDelete
<1>3. CASE UNCHANGED <<table, order, size>>
  BY <1>3 DEF Inv, hmapDelete, Exists
<1> QED BY <1>2, <1>3 DEF hmapDelete, Deleted

LEMMA Inductive == Inv /\ [Next]_vars => Inv'
<1> SUFFICES ASSUME Inv, [Next]_vars PROVE Inv'
  OBVIOUS
<1>1. CASE hmapCreate
  <2>1. Counted(Empty(MinCapacity), 0) /\ Ordered(Empty(MinCapacity), <<>>)
        /\ Typed(Empty(MinCapacity)) /\ InPlace(Empty(MinCapacity))
    BY HashMapAssumption, NewTable
  <2>2. table = <<>> /\ size = 0 /\ order = <<>>
    BY <1>1, NoOrder DEF hmapCreate, Exists, Inv
  <2> QED BY <1>1, <2>1, <2>2 DEF hmapCreate, Inv
<1>2. ASSUME NEW cap \in FixedCapacities, hmapCreateFixed(cap) PROVE Inv'
  <2>1. cap \in Nat \ {0}
    BY HashMapAssumption
  <2>2. Counted(Empty(cap), 0) /\ Ordered(Empty(cap), <<>>) /\ Typed(Empty(cap)) /\ InPlace(Empty(cap))
    BY <2>1, NewTable
  <2>3. table = <<>> /\ size = 0 /\ order = <<>>
    BY <1>2, NoOrder DEF hmapCreateFixed, Exists, Inv
  <2> QED BY <1>2, <2>2, <2>3 DEF hmapCreateFixed, Inv
<1>3. CASE hmapRelease
  BY <1>3, NoTable DEF hmapRelease, Inv, Exists
<1>4. ASSUME NEW k \in Keys, hmapGet(k) PROVE Inv'
  BY <1>4 DEF hmapGet, Inv, Exists
<1>5. ASSUME NEW k \in Keys, hmapContains(k) PROVE Inv'
  <2>1. PICK t, o : Rebuilds(t, o) /\ table' = t /\ order' = o
    BY <1>5 DEF hmapContains
  <2>2. Exists /\ UNCHANGED <<size, fixedsize>>
    BY <1>5 DEF hmapContains
  <2>3. Typed(t) /\ InPlace(t) /\ Counted(t, size) /\ Ordered(t, o)
    BY <2>1, <2>2, Rebuilt
  <2> QED BY <2>1, <2>2, <2>3 DEF Inv
<1>6. ASSUME NEW k \in Keys, hmapDelete(k) PROVE Inv'
  BY <1>6, DeleteStep
<1>7. ASSUME NEW k \in Keys, NEW v \in Values, hmapAdd(k, v) PROVE Inv'
  BY <1>7, AddStep
<1>8. CASE UNCHANGED vars
  BY <1>8 DEF vars, Inv, Exists
<1> QED BY <1>1, <1>2, <1>3, <1>4, <1>5, <1>6, <1>7, <1>8 DEF Next

LEMMA Invariance == Spec => []Inv
<1>1. Init => Inv
  BY NoTable DEF Init, Inv, Exists
<1> QED BY <1>1, Inductive, PTL DEF Spec

\* Every call leaves a table of at least one chain of entries, or none, and the other
\* fields what their types say.
THEOREM TypeCorrect == Spec => []TypeOK
<1>1. Inv => TypeOK
  <2> SUFFICES ASSUME Inv PROVE TypeOK
    OBVIOUS
  <2>1. size \in Nat
    BY FS_CardinalityType DEF Inv, Counted
  <2> QED BY <2>1 DEF Inv, TypeOK, Typed, Ordered
<1> QED BY <1>1, Invariance, PTL

\* However many expansions, additions and deletions there were, an entry is in the
\* bucket its hash gives, and no key has two (hmap.c's _hmapExpand, hmapAdd,
\* hmapDelete).
THEOREM EveryEntryInPlace == Spec => []EntriesInPlace
<1>1. Inv => EntriesInPlace
  BY DEF Inv, InPlace, EntriesInPlace
<1> QED BY <1>1, Invariance, PTL

\* hm->size is the number of entries in the chains, so that the loop of _hmapExpand,
\* which stops after size entries, leaves none behind.
THEOREM SizeCounts == Spec => []SizeIsExact
<1>1. Inv => SizeIsExact
  <2> SUFFICES ASSUME Inv PROVE SizeIsExact
    OBVIOUS
  <2>1. CASE Exists
    BY <2>1, PlacesCount DEF Inv, SizeIsExact, Counted
  <2>2. CASE table = <<>>
    <3>1. size = 0
      BY <2>2, NoOrder DEF Inv
    <3>2. Capacity(table) = 0
      BY <2>2, NoTable, FS_EmptySet DEF Capacity
    <3>3. 0 .. 0 - 1 = {}
      OBVIOUS
    <3>4. PlacesBelow(table, Capacity(table)) = {}
      BY <3>2, <3>3 DEF PlacesBelow
    <3> QED BY <3>1, <3>4, FS_EmptySet DEF SizeIsExact
  <2> QED BY <2>1, <2>2 DEF Exists
<1> QED BY <1>1, Invariance, PTL

\* A chain has its entries in the order in which the server's history keeps them, an
\* order that an addition extends at the front and an expansion turns round.
THEOREM ChainsFollowOrder == Spec => []ChainsAreOrder
<1>1. Inv => ChainsAreOrder
  BY DEF Inv, Ordered, ChainsAreOrder
<1> QED BY <1>1, Invariance, PTL

\* The first of some entries in the chain is the first of them in the history's order.
LEMMA FirstInChain ==
    ASSUME NEW t, Typed(t), InPlace(t), NEW o, Ordered(t, o), NEW h \in Nat,
           NEW M \in SUBSET EntriesOf(t), \A e \in M : e.hash = h
    PROVE  FirstIn(t[Bucket(t, h)], M) = FirstIn(o, M)
<1> PICK b : b = Bucket(t, h)
  OBVIOUS
<1>1. b \in DOMAIN t /\ DOMAIN t[b] = 1 .. Len(t[b]) /\ Len(t[b]) \in Nat
  BY BucketExists, Chains
<1>2. DOMAIN o = 1 .. Len(o) /\ Len(o) \in Nat
  BY DEF Ordered
<1>3. \A i \in DOMAIN t[b] : \E n \in DOMAIN o : o[n] = t[b][i]
  <2>1. \A i \in DOMAIN t[b] : t[b][i] \in EntriesOf(t)
    BY <1>1, Chains
  <2> QED BY <2>1 DEF Ordered, ToSet
<1>4. ASSUME NEW e \in M PROVE \E i \in DOMAIN t[b] : t[b][i] = e
  <2>1. PICK c \in DOMAIN t : \E i \in DOMAIN t[c] : e = t[c][i]
    BY Chains
  <2>2. PICK i \in DOMAIN t[c] : e = t[c][i]
    BY <2>1
  <2>3. c = b
    BY <2>2 DEF InPlace
  <2> QED BY <2>2, <2>3
<1>5. \A i, j \in DOMAIN t[b], m, n \in DOMAIN o :
          o[m] = t[b][i] /\ o[n] = t[b][j] /\ i < j => m < n
  BY <1>1 DEF Ordered
<1>6. \A m, n \in DOMAIN o : o[m] = o[n] => m = n
  BY DEF Ordered, IsInjective
<1>7. ASSUME NEW i \in DOMAIN t[b], t[b][i] \in M, \A j \in 1 .. i - 1 : t[b][j] \notin M
      PROVE  t[b][i] \in FirstIn(o, M)
  <2>1. PICK n \in DOMAIN o : o[n] = t[b][i]
    BY <1>3
  <2>2. ASSUME NEW m \in 1 .. n - 1, o[m] \in M PROVE FALSE
    <3>1. PICK j \in DOMAIN t[b] : t[b][j] = o[m]
      BY <1>4, <2>2
    <3>2. m \in DOMAIN o /\ m < n
      BY <1>2
    <3>3. ~(i < j)
      BY <1>2, <1>5, <2>1, <3>1, <3>2
    <3>4. ~(j < i)
      BY <1>1, <1>7, <2>2, <3>1
    <3>5. i # j
      BY <1>2, <1>6, <2>1, <3>1, <3>2
    <3> QED BY <1>1, <3>3, <3>4, <3>5
  <2> QED BY <1>7, <2>1, <2>2 DEF FirstIn
<1>8. ASSUME NEW n \in DOMAIN o, o[n] \in M, \A m \in 1 .. n - 1 : o[m] \notin M
      PROVE  o[n] \in FirstIn(t[b], M)
  <2>1. PICK i \in DOMAIN t[b] : t[b][i] = o[n]
    BY <1>4, <1>8
  <2>2. ASSUME NEW j \in 1 .. i - 1, t[b][j] \in M PROVE FALSE
    <3>1. j \in DOMAIN t[b] /\ j < i
      BY <1>1
    <3>2. PICK m \in DOMAIN o : o[m] = t[b][j]
      BY <1>3, <3>1
    <3>3. m < n
      BY <1>5, <2>1, <3>1, <3>2
    <3> QED BY <1>2, <1>8, <2>2, <3>2, <3>3
  <2> QED BY <1>8, <2>1, <2>2 DEF FirstIn
<1>9. FirstIn(t[b], M) \subseteq FirstIn(o, M)
  BY <1>7 DEF FirstIn
<1>10. FirstIn(o, M) \subseteq FirstIn(t[b], M)
  BY <1>8 DEF FirstIn
<1> QED BY <1>9, <1>10

\* A sequence without repetitions is as long as it has entries.
LEMMA LengthCounts ==
    ASSUME NEW S, NEW o \in Seq(S), IsInjective(o)
    PROVE  Len(o) = Cardinality(ToSet(o))
<1>1. Len(o) \in Nat /\ DOMAIN o = 1 .. Len(o) /\ \A i \in 1 .. Len(o) : o[i] \in ToSet(o)
  BY DEF ToSet
<1>2. o \in Bijection(1 .. Len(o), ToSet(o))
  <2>1. o \in [1 .. Len(o) -> ToSet(o)]
    BY <1>1
  <2>2. \A i, j \in 1 .. Len(o) : o[i] = o[j] => i = j
    BY <1>1 DEF IsInjective
  <2>3. \A e \in ToSet(o) : \E i \in 1 .. Len(o) : o[i] = e
    BY <1>1 DEF ToSet
  <2> QED BY <2>1, <2>2, <2>3, Fun_IsBij
<1>3. IsFiniteSet(1 .. Len(o)) /\ Cardinality(1 .. Len(o)) = Len(o)
  BY <1>1, FS_Interval
<1>4. ExistsBijection(1 .. Len(o), ToSet(o))
  BY <1>2 DEF ExistsBijection
<1> QED BY ONLY <1>3, <1>4, FS_Bijection

\* The dictionary server's model may keep its cache as the history does, as a sequence:
\* an addition expands when the sequence is long enough, and a lookup, whatever its
\* comparison of keys, gives the first entry of the sequence that compares equal.
THEOREM SequenceServes == Spec => []ServedAsSequence
<1>1. Inv => ServedAsSequence
  <2> SUFFICES ASSUME Inv, Exists PROVE ServedAsSequence
    BY DEF ServedAsSequence
  <2>1. Typed(table) /\ InPlace(table) /\ Ordered(table, order) /\ Counted(table, size)
    BY DEF Inv
  <2>2. size = Len(order)
    BY <2>1, LengthCounts DEF Ordered, Counted
  <2>3. ASSUME NEW h \in Range(Hash), NEW M \in SUBSET {e \in EntriesOf(table) : e.hash = h}
        PROVE  FirstIn(table[Bucket(table, h)], M) = FirstIn(order, M)
    <3>1. h \in Nat
      BY HashMapAssumption DEF Range
    <3>2. M \in SUBSET EntriesOf(table) /\ \A e \in M : e.hash = h
      OBVIOUS
    <3> QED BY <2>1, <3>1, <3>2, FirstInChain
  <2> QED BY <2>2, <2>3 DEF ServedAsSequence
<1> QED BY <1>1, Invariance, PTL

-----------------------------------------------------------------------------
(* The hash map implements the finite map.                                  *)

ContentsOf(t) == [k \in Keys |-> IF t # <<>> /\ InChain(t, k) THEN Entry(t, k).value ELSE None]

\* What a key has is decided by the entries, whatever the chains they are in.
LEMMA ContentsProperties ==
    ASSUME NEW t, Typed(t), InPlace(t), t # <<>>, NEW k \in Keys
    PROVE  /\ \A e \in EntriesOf(t) : e.key = k => ContentsOf(t)[k] = e.value
           /\ (\A e \in EntriesOf(t) : e.key # k) => ContentsOf(t)[k] = None
           /\ InChain(t, k) <=> ContentsOf(t)[k] # None
<1>1. InChain(t, k) <=> \E e \in EntriesOf(t) : e.key = k
  BY Lookup
<1>2. InChain(t, k) => Entry(t, k) \in EntriesOf(t) /\ Entry(t, k).key = k
  BY Lookup
<1>3. ContentsOf(t)[k] = IF InChain(t, k) THEN Entry(t, k).value ELSE None
  BY DEF ContentsOf
<1>4. ASSUME NEW e \in EntriesOf(t), e.key = k PROVE ContentsOf(t)[k] = e.value
  <2>1. InChain(t, k)
    BY <1>1, <1>4
  <2>2. Entry(t, k) = e
    BY <1>2, <1>4, <2>1, KeysDistinct
  <2> QED BY <1>3, <2>1, <2>2
<1>5. InChain(t, k) => ContentsOf(t)[k] # None
  <2> SUFFICES ASSUME InChain(t, k) PROVE Entry(t, k).value # None
    BY <1>3
  <2>1. Entry(t, k) \in Entries
    BY <1>2, Chains
  <2> QED BY <2>1, HashMapAssumption DEF Entries
<1> QED BY <1>1, <1>3, <1>4, <1>5

\* Two tables with the same entries have the same contents.
LEMMA SameContents ==
    ASSUME NEW t, Typed(t), InPlace(t), t # <<>>,
           NEW u, Typed(u), InPlace(u), u # <<>>, EntriesOf(t) = EntriesOf(u)
    PROVE  ContentsOf(t) = ContentsOf(u)
<1>1. ASSUME NEW k \in Keys PROVE ContentsOf(t)[k] = ContentsOf(u)[k]
  BY ContentsProperties
<1> QED BY <1>1, Zenon DEF ContentsOf

\* hmapAdd gives the key its value and changes nothing else.
LEMMA LinkedContents ==
    ASSUME NEW t, Typed(t), InPlace(t), t # <<>>, NEW k \in Keys, NEW v \in Values, ~InChain(t, k)
    PROVE  ContentsOf(Linked(t, NewEntry(k, v))) = [ContentsOf(t) EXCEPT ![k] = v]
<1> DEFINE e == NewEntry(k, v)
           u == Linked(t, e)
<1>1. e \in Entries /\ e.hash = Hash[e.key] /\ e.key = k /\ e.value = v
  BY HashNat DEF NewEntry, Entries
<1> HIDE DEF e
<1>2. \A f \in EntriesOf(t) : f.key # e.key
  BY <1>1, Lookup
<1>3. Typed(u) /\ InPlace(u) /\ u # <<>> /\ EntriesOf(u) = EntriesOf(t) \union {e}
  BY <1>1, <1>2, LinkedProperties, LinkedInPlace, LinkedEntries
<1> HIDE DEF u
<1>4. ASSUME NEW j \in Keys PROVE ContentsOf(u)[j] = IF j = k THEN v ELSE ContentsOf(t)[j]
  <2>1. CASE j = k
    BY <1>1, <1>3, <2>1, ContentsProperties
  <2>2. CASE j # k
    <3>1. CASE \E f \in EntriesOf(t) : f.key = j
      <4>1. PICK f \in EntriesOf(t) : f.key = j
        BY <3>1
      <4>2. ContentsOf(t)[j] = f.value /\ ContentsOf(u)[j] = f.value
        BY <1>3, <4>1, ContentsProperties
      <4> QED BY <2>2, <4>2
    <3>2. CASE \A f \in EntriesOf(t) : f.key # j
      <4>1. \A f \in EntriesOf(u) : f.key # j
        BY <1>1, <1>3, <2>2, <3>2
      <4>2. ContentsOf(t)[j] = None /\ ContentsOf(u)[j] = None
        BY <1>3, <3>2, <4>1, ContentsProperties
      <4> QED BY <2>2, <4>2
    <3> QED BY <3>1, <3>2
  <2> QED BY <2>1, <2>2
<1>5. ContentsOf(u) = [j \in Keys |-> ContentsOf(u)[j]] /\ DOMAIN ContentsOf(t) = Keys
  BY DEF ContentsOf
<1>6. [ContentsOf(t) EXCEPT ![k] = v] = [j \in Keys |-> IF j = k THEN v ELSE ContentsOf(t)[j]]
  BY <1>5
<1> QED BY <1>4, <1>5, <1>6 DEF u, e

\* hmapDelete takes the key's value away and changes nothing else.
LEMMA DeletedContents ==
    ASSUME NEW t, Typed(t), InPlace(t), t # <<>>, NEW k \in Keys, InChain(t, k)
    PROVE  ContentsOf(Deleted(t, k)) = [ContentsOf(t) EXCEPT ![k] = None]
<1> DEFINE e == Entry(t, k)
           u == Deleted(t, k)
<1>1. e \in EntriesOf(t) /\ e.key = k
  BY DeletedEntries
<1>2. Typed(u) /\ InPlace(u) /\ u # <<>> /\ EntriesOf(u) = EntriesOf(t) \ {e}
  BY DeletedProperties, DeletedInPlace, DeletedEntries
<1> HIDE DEF u, e
<1>3. ASSUME NEW j \in Keys PROVE ContentsOf(u)[j] = IF j = k THEN None ELSE ContentsOf(t)[j]
  <2>1. CASE j = k
    <3>1. \A f \in EntriesOf(u) : f.key # k
      BY <1>1, <1>2, KeysDistinct
    <3> QED BY <1>2, <2>1, <3>1, ContentsProperties
  <2>2. CASE j # k
    <3>1. CASE \E f \in EntriesOf(t) : f.key = j
      <4>1. PICK f \in EntriesOf(t) : f.key = j
        BY <3>1
      <4>2. f \in EntriesOf(u)
        BY <1>1, <1>2, <2>2, <4>1
      <4>3. ContentsOf(t)[j] = f.value /\ ContentsOf(u)[j] = f.value
        BY <1>2, <4>1, <4>2, ContentsProperties
      <4> QED BY <2>2, <4>3
    <3>2. CASE \A f \in EntriesOf(t) : f.key # j
      <4>1. ContentsOf(t)[j] = None /\ ContentsOf(u)[j] = None
        BY <1>2, <3>2, ContentsProperties
      <4> QED BY <2>2, <4>1
    <3> QED BY <3>1, <3>2
  <2> QED BY <2>1, <2>2
<1>4. ContentsOf(u) = [j \in Keys |-> ContentsOf(u)[j]] /\ DOMAIN ContentsOf(t) = Keys
  BY DEF ContentsOf
<1>5. [ContentsOf(t) EXCEPT ![k] = None] = [j \in Keys |-> IF j = k THEN None ELSE ContentsOf(t)[j]]
  BY <1>4
<1> QED BY <1>3, <1>4, <1>5 DEF u

\* An empty table, or none, has nothing.
LEMMA NoContents ==
    ASSUME NEW t, t = <<>> \/ \E cap \in Nat \ {0} : t = Empty(cap)
    PROVE  ContentsOf(t) = [k \in Keys |-> None]
<1>1. CASE t = <<>>
  BY <1>1 DEF ContentsOf
<1>2. CASE \E cap \in Nat \ {0} : t = Empty(cap)
  <2>1. Typed(t) /\ InPlace(t) /\ t # <<>> /\ EntriesOf(t) = {}
    BY <1>2, EmptyProperties
  <2>2. ASSUME NEW k \in Keys PROVE ContentsOf(t)[k] = None
    BY <2>1, ContentsProperties
  <2>3. ContentsOf(t) = [k \in Keys |-> ContentsOf(t)[k]]
    BY DEF ContentsOf
  <2> QED BY <2>2, <2>3
<1> QED BY <1>1, <1>2

\* The table after each call has the contents the finite map has.
LEMMA RefinesNext == Inv /\ [Next]_vars => [FM!Next]_<<Contents, ret>>
<1> DEFINE Goal == [FM!Next]_<<Contents, ret>>
<1> SUFFICES ASSUME Inv, [Next]_vars PROVE Goal
  OBVIOUS
<1>1. Contents = ContentsOf(table) /\ Contents' = ContentsOf(table')
  BY DEF Contents, ContentsOf, Exists
<1>2. ASSUME Exists
      PROVE  /\ Typed(table) /\ InPlace(table) /\ table # <<>>
             /\ \A k \in Keys : Contents[k] # None <=> InChain(table, k)
  BY <1>1, <1>2, ContentsProperties DEF Inv, Exists
<1>3. ASSUME Exists, NEW t, NEW o, Rebuilds(t, o)
      PROVE  /\ Typed(t) /\ InPlace(t) /\ t # <<>> /\ ContentsOf(t) = Contents
             /\ \A k \in Keys : Contents[k] # None <=> InChain(t, k)
  <2>1. Typed(t) /\ InPlace(t) /\ t # <<>> /\ EntriesOf(t) = EntriesOf(table)
    BY <1>3, Rebuilt
  <2>2. ContentsOf(t) = Contents
    BY <1>1, <1>2, <1>3, <2>1, SameContents
  <2> QED BY <2>1, <2>2, ContentsProperties
<1>4. ASSUME table = <<>>, ret' = ret, NEW cap \in Nat \ {0}, table' = Empty(cap) PROVE Goal
  <2>1. Contents' = Contents
    BY <1>1, <1>4, NoContents
  <2> QED BY <1>4, <2>1
<1>5. CASE hmapCreate
  BY <1>4, <1>5, HashMapAssumption DEF hmapCreate, Exists
<1>6. ASSUME NEW cap \in FixedCapacities, hmapCreateFixed(cap) PROVE Goal
  BY <1>4, <1>6, HashMapAssumption DEF hmapCreateFixed, Exists
<1>7. CASE hmapRelease
  <2>1. Contents' = [k \in Keys |-> None] /\ ret' = <<>>
    BY <1>1, <1>7, NoContents DEF hmapRelease
  <2> QED BY <2>1 DEF FM!Next, FM!Clear
<1>8. ASSUME NEW k \in Keys, hmapGet(k) PROVE Goal
  <2>1. Contents' = Contents
    BY <1>1, <1>8 DEF hmapGet
  <2>2. ret' = <<"get", k, Contents[k]>>
    BY <1>8 DEF hmapGet, Contents
  <2> QED BY <2>1, <2>2 DEF FM!Next, FM!Get
<1>9. ASSUME NEW k \in Keys, hmapContains(k) PROVE Goal
  <2>1. PICK t, o : /\ Rebuilds(t, o) /\ table' = t
                    /\ ret' = <<"contains", k, IF InChain(t, k) THEN "found" ELSE "none">>
    BY <1>9 DEF hmapContains
  <2>2. ContentsOf(t) = Contents /\ (Contents[k] # None <=> InChain(t, k))
    BY <1>3, <1>9, <2>1 DEF hmapContains
  <2>3. Contents' = Contents /\ ret' = <<"contains", k, IF Contents[k] # None THEN "found" ELSE "none">>
    BY <1>1, <2>1, <2>2
  <2> QED BY <2>3 DEF FM!Next, FM!Contains
<1>10. ASSUME NEW k \in Keys, hmapDelete(k) PROVE Goal
  <2>1. Exists /\ Typed(table) /\ InPlace(table) /\ table # <<>>
    BY <1>2, <1>10 DEF hmapDelete
  <2>2. CASE InChain(table, k) /\ ret' = <<"delete", k, Entry(table, k).value>> /\ table' = Deleted(table, k)
    <3>1. Contents' = [Contents EXCEPT ![k] = None]
      BY <1>1, <2>1, <2>2, DeletedContents
    <3>2. ret' = <<"delete", k, Contents[k]>>
      BY <2>1, <2>2 DEF Contents
    <3> QED BY <3>1, <3>2 DEF FM!Next, FM!Delete
  <2>3. CASE ~InChain(table, k) /\ ret' = <<"delete", k, None>> /\ table' = table
    <3>1. Contents[k] = None /\ Contents' = Contents
      BY <1>1, <1>2, <2>1, <2>3
    <3>2. [Contents EXCEPT ![k] = None] = Contents
      BY <3>1 DEF Contents
    <3> QED BY <2>3, <3>1, <3>2 DEF FM!Next, FM!Delete
  <2> QED BY <1>10, <2>2, <2>3 DEF hmapDelete, Deleted
<1>11. ASSUME NEW k \in Keys, NEW v \in Values, hmapAdd(k, v) PROVE Goal
  <2>1. PICK t, o :
            /\ Rebuilds(t, o)
            /\ \/ InChain(t, k) /\ ret' = <<"add", k, "found">> /\ table' = t
               \/ ~InChain(t, k) /\ AllocMayFail /\ ret' = <<"add", k, "err">> /\ table' = t
               \/ /\ ~InChain(t, k) /\ ret' = <<"add", k, "ok">>
                  /\ table' = Linked(t, NewEntry(k, v))
    BY <1>11 DEF hmapAdd, NewEntry
  <2>2. /\ Typed(t) /\ InPlace(t) /\ t # <<>> /\ ContentsOf(t) = Contents
        /\ Contents[k] # None <=> InChain(t, k)
    BY <1>3, <1>11, <2>1 DEF hmapAdd
  <2>3. CASE \/ InChain(t, k) /\ ret' = <<"add", k, "found">> /\ table' = t
             \/ ~InChain(t, k) /\ AllocMayFail /\ ret' = <<"add", k, "err">> /\ table' = t
    BY <1>1, <2>2, <2>3 DEF FM!Next, FM!Add
  <2>4. CASE /\ ~InChain(t, k) /\ ret' = <<"add", k, "ok">>
             /\ table' = Linked(t, NewEntry(k, v))
    <3>1. Contents' = [Contents EXCEPT ![k] = v]
      BY <1>1, <2>2, <2>4, LinkedContents
    <3> QED BY <2>2, <2>4, <3>1 DEF FM!Next, FM!Add
  <2> QED BY <2>1, <2>3, <2>4
<1>12. CASE UNCHANGED vars
  <2>1. Contents' = Contents /\ ret' = ret
    BY <1>1, <1>12 DEF vars
  <2> QED BY <2>1
<1> QED BY <1>5, <1>6, <1>7, <1>8, <1>9, <1>10, <1>11, <1>12 DEF Next

\* hmap.h's functions give what a finite map gives, through every collision, expansion
\* and failed allocation: hmapAdd adds a key once and leaves the value of a key that is
\* there, hmapGet and hmapContains tell what was added, hmapDelete gives it back.
THEOREM FiniteMapImplemented == Spec => ImplementsFiniteMap
<1>1. Init => FM!Init
  <2> SUFFICES ASSUME Init PROVE FM!Init
    OBVIOUS
  <2>1. Contents = ContentsOf(<<>>)
    BY DEF Init, Contents, ContentsOf, Exists
  <2> QED BY <2>1, NoContents DEF Init, FM!Init
<1> QED BY <1>1, RefinesNext, Invariance, PTL DEF Spec, ImplementsFiniteMap, FM!Spec

=============================================================================
