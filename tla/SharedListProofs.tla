-------------------------- MODULE SharedListProofs --------------------------
(***************************************************************************)
(* The list of list.c is a ring, whatever calls come together, and does for *)
(* every number of threads and nodes what a sequence would do.              *)
(***************************************************************************)
EXTENDS SharedList, FiniteSetTheorems, SequenceTheorems, TLAPS

-----------------------------------------------------------------------------
(* Numbers and recursion.                                                   *)

\* A set of natural numbers that is not empty has a least element.
LEMMA LeastNatural ==
    ASSUME NEW S \in SUBSET Nat, S # {}
    PROVE  \E m \in S : \A n \in S : m <= n
<1>1. PICK m \in S : \A n \in S : ~ (<<n, m>> \in OpToRel(<, Nat))
  BY NatLessThanWellFounded, WFMin
<1>2. ASSUME NEW n \in S PROVE m <= n
  <2>1. <<n, m>> \notin OpToRel(<, Nat)
    BY <1>1
  <2>2. <<n, m>> \in Nat \X Nat
    OBVIOUS
  <2>3. ~(n < m)
    BY <2>1, <2>2 DEF OpToRel
  <2> QED BY <2>3
<1> QED BY <1>2

\* What holds of 0, and of each number when it holds of the one before, holds of all.
LEMMA UpTo ==
    ASSUME NEW n \in Nat, NEW P, 0 \in P, \A i \in 1 .. n : i - 1 \in P => i \in P
    PROVE  \A i \in 0 .. n : i \in P
<1> DEFINE Bad == {i \in 0 .. n : i \notin P}
<1>1. SUFFICES ASSUME Bad # {} PROVE FALSE
  OBVIOUS
<1>2. PICK m \in Bad : \A k \in Bad : m <= k
  <2>1. Bad \in SUBSET Nat
    OBVIOUS
  <2> HIDE DEF Bad
  <2> QED BY <1>1, <2>1, LeastNatural
<1>3. m \in 0 .. n /\ m \notin P /\ m # 0
  BY <1>2
<1>4. m \in 1 .. n /\ m - 1 \in 0 .. n /\ m - 1 \notin Bad
  BY <1>2, <1>3
<1> QED BY <1>3, <1>4

\* A function that repeats a step n times.
Repeats(f, n, a, G) == f = [i \in 0 .. n |-> IF i = 0 THEN a ELSE G[<<i, f[i - 1]>>]]

LEMMA RepeatsExists ==
    ASSUME NEW n \in Nat, NEW a, NEW G
    PROVE  \E f : Repeats(f, n, a, G)
<1> DEFINE P == {i \in 0 .. n : \E f : Repeats(f, i, a, G)}
<1>1. 0 \in P
  <2>1. Repeats([i \in 0 .. 0 |-> a], 0, a, G)
    BY DEF Repeats
  <2> QED BY <2>1
<1>2. ASSUME NEW m \in 1 .. n, m - 1 \in P PROVE m \in P
  <2>1. PICK f : Repeats(f, m - 1, a, G)
    BY <1>2
  <2> DEFINE g == [i \in 0 .. m |-> IF i < m THEN f[i] ELSE G[<<m, f[m - 1]>>]]
  <2>2. ASSUME NEW i \in 0 .. m PROVE g[i] = IF i = 0 THEN a ELSE G[<<i, g[i - 1]>>]
    <3>1. CASE i = m
      <4>1. g[m - 1] = f[m - 1] /\ g[m] = G[<<m, f[m - 1]>>]
        OBVIOUS
      <4> QED BY <3>1, <4>1
    <3>2. CASE i < m
      <4>1. i \in 0 .. m - 1 /\ g[i] = f[i]
        BY <3>2
      <4>2. f[i] = IF i = 0 THEN a ELSE G[<<i, f[i - 1]>>]
        BY <2>1, <4>1 DEF Repeats
      <4>3. i # 0 => g[i - 1] = f[i - 1]
        BY <3>2
      <4> QED BY <4>1, <4>2, <4>3
    <3> QED BY <3>1, <3>2
  <2>3. g = [i \in 0 .. m |-> IF i = 0 THEN a ELSE G[<<i, g[i - 1]>>]]
    BY <2>2
  <2> HIDE DEF g
  <2>4. Repeats(g, m, a, G)
    BY <2>3 DEF Repeats
  <2> QED BY <2>4
<1> HIDE DEF P
<1>3. n \in P
  BY <1>1, <1>2, UpTo
<1> QED BY <1>3 DEF P

\* When the step goes from one set to the next, so does the function.
LEMMA RepeatsWithin ==
    ASSUME NEW n \in Nat, NEW a, NEW G, NEW S, <<0, a>> \in S,
           \A i \in 1 .. n : \A x : <<i - 1, x>> \in S => <<i, G[<<i, x>>]>> \in S,
           NEW f, Repeats(f, n, a, G)
    PROVE  \A i \in 0 .. n : <<i, f[i]>> \in S
<1> DEFINE P == {i \in 0 .. n : <<i, f[i]>> \in S}
<1>1. f[0] = a /\ \A i \in 1 .. n : f[i] = G[<<i, f[i - 1]>>]
  BY DEF Repeats
<1>2. 0 \in P
  BY <1>1
<1>3. ASSUME NEW i \in 1 .. n, i - 1 \in P PROVE i \in P
  <2>1. <<i - 1, f[i - 1]>> \in S
    BY <1>3
  <2>2. <<i, f[i]>> \in S
    BY <1>1, <2>1
  <2> QED BY <2>2
<1> HIDE DEF P
<1>4. \A i \in 0 .. n : i \in P
  BY <1>2, <1>3, UpTo
<1> QED BY <1>4 DEF P

-----------------------------------------------------------------------------
(* Rings.                                                                   *)

Pointers == [Nodes -> Nodes \union {Nil}]
Lists == [root : Nodes \union {Nil}, len : Nat, next : Pointers, prev : Pointers,
          data : [Nodes -> Values \union {0}]]

\* The nodes of l are s[1], s[2], and so on round, each pointing to its neighbours.
Ring(l, s) ==
    /\ l \in Lists /\ s \in [1 .. l.len -> Nodes] /\ IsInjective(s)
    /\ l.root = IF l.len = 0 THEN Nil ELSE s[1]
    /\ \A i \in 1 .. l.len :
          /\ l.next[s[i]] = s[IF i = l.len THEN 1 ELSE i + 1]
          /\ l.prev[s[i]] = s[IF i = 1 THEN l.len ELSE i - 1]

\* And no other node is used.
Whole(l, s) == Ring(l, s) /\ Unused(l) = Nodes \ Range(s)

LEMMA NilIsNoNode == Nil \notin Nodes
BY ListAssumption DEF Nil

LEMMA RingFacts ==
    ASSUME NEW l, NEW s, Ring(l, s)
    PROVE  /\ l.len \in Nat /\ DOMAIN s = 1 .. l.len
           /\ l.next \in Pointers /\ l.prev \in Pointers /\ l.data \in [Nodes -> Values \union {0}]
           /\ \A i \in 1 .. l.len : s[i] \in Nodes /\ s[i] \in Range(s) /\ s[i] # Nil
           /\ \A i, j \in 1 .. l.len : s[i] = s[j] => i = j
           /\ \A n \in Range(s) : \E i \in 1 .. l.len : n = s[i]
           /\ Range(s) \subseteq Nodes
<1>1. DOMAIN s = 1 .. l.len
  BY DEF Ring
<1> QED BY <1>1, NilIsNoNode DEF Ring, Lists, Range, IsInjective

\* The walk of listFind and listQSortPivot.
LEMMA WalkIs ==
    ASSUME NEW l, NEW s, Ring(l, s), NEW a \in 1 .. l.len
    PROVE  Walk(l, s[a]) =
               [n \in 0 .. l.len |-> s[IF a + n <= l.len THEN a + n ELSE a + n - l.len]]
<1> DEFINE N == l.len
           next == l.next
           at(n) == IF a + n <= N THEN a + n ELSE a + n - N
           step(f) == [i \in 0 .. N |-> IF i = 0 THEN s[a] ELSE next[f[i - 1]]]
           f == [n \in 0 .. N |-> s[at(n)]]
           w == CHOOSE g : g = step(g)
<1>1. N \in Nat /\ a \in 1 .. N
  BY RingFacts
<1>2. \A i \in 1 .. N : next[s[i]] = s[IF i = N THEN 1 ELSE i + 1]
  BY DEF Ring
<1>3. Walk(l, s[a]) = w
  BY DEF Walk
<1> HIDE DEF N, next
<1>4. ASSUME NEW n \in 1 .. N PROVE next[f[n - 1]] = f[n]
  <2>1. f[n - 1] = s[at(n - 1)] /\ f[n] = s[at(n)]
    BY <1>1
  <2>2. at(n - 1) \in 1 .. N /\ at(n) = IF at(n - 1) = N THEN 1 ELSE at(n - 1) + 1
    BY <1>1
  <2> HIDE DEF at
  <2> QED BY <1>2, <2>1, <2>2
<1>5. f[0] = s[a]
  BY <1>1
<1>6. f = step(f)
  <2>1. \A i \in 0 .. N : f[i] = IF i = 0 THEN s[a] ELSE next[f[i - 1]]
    <3> SUFFICES ASSUME NEW i \in 0 .. N PROVE f[i] = IF i = 0 THEN s[a] ELSE next[f[i - 1]]
      OBVIOUS
    <3>1. CASE i = 0
      BY <3>1, <1>5
    <3>2. CASE i # 0
      <4>1. i \in 1 .. N
        BY <3>2
      <4> HIDE DEF f
      <4> QED BY <4>1, <3>2, <1>4
    <3> QED BY <3>1, <3>2
  <2>2. f = [i \in 0 .. N |-> f[i]]
    OBVIOUS
  <2> HIDE DEF f
  <2> QED BY <2>1, <2>2
<1> HIDE DEF f
<1>7. w = step(w)
  BY <1>6
<1> HIDE DEF w
<1>8. /\ w = [i \in 0 .. N |-> w[i]]
      /\ w[0] = s[a] /\ \A i \in 1 .. N : w[i] = next[w[i - 1]]
  BY <1>1, <1>7
<1> DEFINE P == {n \in 0 .. N : w[n] = f[n]}
<1>9. 0 \in P
  BY <1>1, <1>5, <1>8
<1>10. ASSUME NEW n \in 1 .. N, n - 1 \in P PROVE n \in P
  <2>1. w[n - 1] = f[n - 1] /\ n \in 0 .. N
    BY <1>1, <1>10
  <2>2. w[n] = next[w[n - 1]] /\ next[f[n - 1]] = f[n]
    BY <1>4, <1>8
  <2> QED BY <2>1, <2>2
<1> HIDE DEF P
<1>11. \A n \in 0 .. N : n \in P
  BY <1>1, <1>9, <1>10, UpTo
<1>12. \A n \in 0 .. N : w[n] = f[n]
  BY <1>11 DEF P
<1>13. w = [n \in 0 .. N |-> s[at(n)]]
  <2>1. \A n \in 0 .. N : f[n] = s[at(n)]
    BY DEF f
  <2> QED BY <1>8, <1>12, <2>1
<1> QED BY <1>3, <1>13 DEF N

LEMMA VisitedIs ==
    ASSUME NEW l, NEW s, Ring(l, s)
    PROVE  Visited(l) = s
<1>1. l.len \in Nat /\ s = [i \in 1 .. l.len |-> s[i]]
  BY RingFacts DEF Ring
<1>2. CASE l.len = 0
  BY <1>1, <1>2 DEF Visited
<1>3. CASE l.len # 0
  <2>1. 1 \in 1 .. l.len /\ l.root = s[1]
    BY <1>1, <1>3 DEF Ring
  <2>2. ASSUME NEW i \in 1 .. l.len PROVE Walk(l, l.root)[i - 1] = s[i]
    <3>1. i - 1 \in 0 .. l.len /\ 1 + (i - 1) = i /\ i <= l.len
      BY <1>1
    <3>2. Walk(l, s[1]) = [n \in 0 .. l.len |-> s[IF 1 + n <= l.len THEN 1 + n ELSE 1 + n - l.len]]
      BY <2>1, WalkIs
    <3> QED BY <2>1, <3>1, <3>2
  <2> QED BY <1>1, <2>2 DEF Visited
<1> QED BY <1>2, <1>3

LEMMA RingSize ==
    ASSUME NEW l, NEW s, Ring(l, s)
    PROVE  IsFiniteSet(Range(s)) /\ Cardinality(Range(s)) = l.len
<1>1. l.len \in Nat /\ s \in [1 .. l.len -> Nodes] /\ IsInjective(s) /\ DOMAIN s = 1 .. l.len
  BY RingFacts DEF Ring
<1>2. s \in Bijection(1 .. l.len, Range(s))
  BY <1>1 DEF Bijection, Injection, Surjection, Range, IsInjective
<1>3. IsFiniteSet(1 .. l.len) /\ Cardinality(1 .. l.len) = l.len
  BY <1>1, FS_Interval
<1> QED BY <1>2, <1>3, FS_Bijection DEF ExistsBijection

LEMMA WholeIsSound ==
    ASSUME NEW s, Whole(list, s)
    PROVE  RingIsSound
<1>1. Ring(list, s) /\ Unused(list) = Nodes \ Range(s)
  BY DEF Whole
<1>2. Visited(list) = s /\ ToSet(s) = Range(s)
  BY <1>1, VisitedIs DEF ToSet, Range
<1>3. (list.root = Nil) = (list.len = 0)
  <2>1. CASE list.len = 0
    BY <1>1, <2>1 DEF Ring
  <2>2. CASE list.len # 0
    <3>1. 1 \in 1 .. list.len
      BY <1>1, <2>2, RingFacts
    <3>2. list.root = s[1]
      BY <1>1, <2>2 DEF Ring
    <3> QED BY <1>1, <2>2, <3>1, <3>2, RingFacts
  <2> QED BY <2>1, <2>2
<1>4. ASSUME NEW n \in Range(s) PROVE list.next[n] \in Range(s) /\ list.prev[list.next[n]] = n
  <2>1. PICK i \in 1 .. list.len : n = s[i]
    BY <1>1, RingFacts
  <2> DEFINE j == IF i = list.len THEN 1 ELSE i + 1
  <2>2. j \in 1 .. list.len /\ i = IF j = 1 THEN list.len ELSE j - 1
    BY <1>1, RingFacts
  <2>3. list.next[n] = s[j] /\ list.prev[s[j]] = s[IF j = 1 THEN list.len ELSE j - 1]
    BY <1>1, <2>1, <2>2 DEF Ring
  <2> HIDE DEF j
  <2> QED BY <1>1, <2>1, <2>2, <2>3, RingFacts
<1> QED BY <1>1, <1>2, <1>3, <1>4, RingSize DEF RingIsSound

-----------------------------------------------------------------------------
(* A node more.                                                             *)

\* The nodes of a ring that n has joined behind the N there were.
Joined(s, N, n) == [i \in 1 .. N + 1 |-> IF i = N + 1 THEN n ELSE s[i]]

LEMMA LinkedFields ==
    ASSUME NEW l, NEW s, Ring(l, s), NEW n \in Nodes \ Range(s), NEW v \in Values,
           NEW m, m = Linked(l, n, v)
    PROVE  /\ m \in Lists /\ m.len = l.len + 1 /\ m.data = [l.data EXCEPT ![n] = v]
           /\ l.len = 0 => /\ m.root = n
                           /\ m.next = [l.next EXCEPT ![n] = n] /\ m.prev = [l.prev EXCEPT ![n] = n]
           /\ l.len # 0 => /\ m.root = s[1] /\ s[1] \in Nodes /\ s[l.len] \in Nodes
                           /\ m.next = [l.next EXCEPT ![n] = s[1], ![s[l.len]] = n]
                           /\ m.prev = [l.prev EXCEPT ![n] = s[l.len], ![s[1]] = n]
<1>1. l \in Lists /\ l.len \in Nat
  BY RingFacts DEF Ring
<1>2. CASE l.len = 0
  <2>1. l.root = Nil
    BY <1>2 DEF Ring
  <2>2. m = [l EXCEPT !.root = n, !.len = 1, !.next[n] = n, !.prev[n] = n, !.data[n] = v]
    BY <2>1 DEF Linked
  <2>3. /\ m.root = n /\ m.len = 1 /\ m.data = [l.data EXCEPT ![n] = v]
        /\ m.next = [l.next EXCEPT ![n] = n] /\ m.prev = [l.prev EXCEPT ![n] = n]
    BY <1>1, <2>2 DEF Lists
  <2>4. m = [root |-> m.root, len |-> m.len, next |-> m.next, prev |-> m.prev, data |-> m.data]
    BY <1>1, <2>2 DEF Lists
  <2>5. m.next \in Pointers /\ m.prev \in Pointers /\ m.data \in [Nodes -> Values \union {0}]
    BY <1>1, <2>3 DEF Lists, Pointers
  <2>6. m \in Lists
    BY <1>1, <2>3, <2>4, <2>5 DEF Lists
  <2> QED BY <1>2, <2>3, <2>6
<1>3. CASE l.len # 0
  <2>1. 1 \in 1 .. l.len /\ l.len \in 1 .. l.len
    BY <1>1, <1>3
  <2>2. s[1] \in Nodes /\ s[1] # Nil /\ s[l.len] \in Nodes
    BY <2>1, RingFacts
  <2>3. l.root = s[1] /\ l.prev[s[1]] = s[l.len]
    BY <1>3, <2>1 DEF Ring
  <2>4. m = [l EXCEPT !.len = @ + 1, !.data[n] = v,
                      !.next = [@ EXCEPT ![n] = s[1], ![s[l.len]] = n],
                      !.prev = [@ EXCEPT ![n] = s[l.len], ![s[1]] = n]]
    BY <2>2, <2>3 DEF Linked
  <2>5. /\ m.root = l.root /\ m.len = l.len + 1 /\ m.data = [l.data EXCEPT ![n] = v]
        /\ m.next = [l.next EXCEPT ![n] = s[1], ![s[l.len]] = n]
        /\ m.prev = [l.prev EXCEPT ![n] = s[l.len], ![s[1]] = n]
    BY <1>1, <2>4 DEF Lists
  <2>6. m = [root |-> m.root, len |-> m.len, next |-> m.next, prev |-> m.prev, data |-> m.data]
    BY <1>1, <2>4 DEF Lists
  <2>7. m.next \in Pointers /\ m.prev \in Pointers /\ m.data \in [Nodes -> Values \union {0}]
    BY <1>1, <2>2, <2>5 DEF Lists, Pointers
  <2>8. m \in Lists
    BY <1>1, <2>5, <2>6, <2>7 DEF Lists
  <2> QED BY <1>3, <2>2, <2>3, <2>5, <2>8
<1> QED BY <1>2, <1>3

\* Linked puts the node between the last one and the first, and leaves the others alone.
LEMMA LinkedIs ==
    ASSUME NEW l, NEW s, Ring(l, s), NEW n \in Nodes \ Range(s), NEW v \in Values,
           NEW m, m = Linked(l, n, v)
    PROVE  /\ Ring(m, Joined(s, l.len, n)) /\ m.len = l.len + 1
           /\ m.data = [l.data EXCEPT ![n] = v]
           /\ \A x \in Nodes \ (Range(s) \union {n}) : m.next[x] = l.next[x] /\ m.prev[x] = l.prev[x]
           /\ Range(Joined(s, l.len, n)) = Range(s) \union {n}
<1> DEFINE N == l.len
           z == Joined(s, l.len, n)
           up(i) == IF i = N + 1 THEN 1 ELSE i + 1
           down(i) == IF i = 1 THEN N + 1 ELSE i - 1
<1>1. /\ N \in Nat /\ \A i \in 1 .. N : s[i] \in Nodes /\ s[i] # n
      /\ \A i, j \in 1 .. N : s[i] = s[j] => i = j
      /\ l.next \in Pointers /\ l.prev \in Pointers /\ DOMAIN s = 1 .. N
  BY RingFacts
<1>2. /\ m \in Lists /\ m.len = N + 1 /\ m.data = [l.data EXCEPT ![n] = v]
      /\ N = 0 => /\ m.root = n
                  /\ m.next = [l.next EXCEPT ![n] = n] /\ m.prev = [l.prev EXCEPT ![n] = n]
      /\ N # 0 => /\ m.root = s[1]
                  /\ m.next = [l.next EXCEPT ![n] = s[1], ![s[N]] = n]
                  /\ m.prev = [l.prev EXCEPT ![n] = s[N], ![s[1]] = n]
  BY LinkedFields
<1>3. /\ z \in [1 .. N + 1 -> Nodes] /\ z[N + 1] = n
      /\ \A i \in 1 .. N : z[i] = s[i]
  BY <1>1 DEF Joined
<1>4. \A i \in 1 .. N : /\ l.next[s[i]] = s[IF i = N THEN 1 ELSE i + 1]
                        /\ l.prev[s[i]] = s[IF i = 1 THEN N ELSE i - 1]
  BY DEF Ring
<1> HIDE DEF z, N
<1>5. IsInjective(z)
  <2>1. DOMAIN z = 1 .. N + 1
    BY <1>3
  <2>2. ASSUME NEW i \in 1 .. N + 1, NEW j \in 1 .. N + 1, z[i] = z[j] PROVE i = j
    BY <1>1, <1>3, <2>2
  <2> QED BY <2>1, <2>2 DEF IsInjective
<1>6. m.root = z[1]
  BY <1>1, <1>2, <1>3
<1>7. ASSUME NEW i \in 1 .. N + 1 PROVE m.next[z[i]] = z[up(i)]
  <2>1. CASE N = 0
    BY <1>2, <1>3, <2>1, <1>1 DEF Pointers
  <2>2. CASE N # 0
    <3>1. 1 \in 1 .. N /\ N \in 1 .. N /\ z[1] = s[1]
      BY <1>1, <1>3, <2>2
    <3>2. CASE i = N + 1
      BY <1>1, <1>2, <1>3, <2>2, <3>1, <3>2 DEF Pointers
    <3>3. CASE i = N
      <4>1. z[i] = s[N] /\ up(i) = N + 1
        BY <3>1, <3>3, <1>3, <1>1
      <4> QED BY <1>1, <1>2, <1>3, <2>2, <3>1, <4>1 DEF Pointers
    <3>4. CASE i < N
      <4>1. i \in 1 .. N /\ i # N /\ i + 1 \in 1 .. N /\ up(i) = i + 1
        BY <1>1, <3>4
      <4>2. z[i] = s[i] /\ z[i + 1] = s[i + 1] /\ s[i] # s[N] /\ s[i] # n
        BY <1>1, <1>3, <3>1, <4>1
      <4>3. m.next[s[i]] = l.next[s[i]]
        BY <1>1, <1>2, <2>2, <4>1, <4>2 DEF Pointers
      <4> QED BY <1>4, <4>1, <4>2, <4>3
    <3> QED BY <1>1, <3>2, <3>3, <3>4
  <2> QED BY <2>1, <2>2
<1>8. ASSUME NEW i \in 1 .. N + 1 PROVE m.prev[z[i]] = z[down(i)]
  <2>1. CASE N = 0
    BY <1>2, <1>3, <2>1, <1>1 DEF Pointers
  <2>2. CASE N # 0
    <3>1. 1 \in 1 .. N /\ N \in 1 .. N /\ z[1] = s[1] /\ z[N] = s[N]
      BY <1>1, <1>3, <2>2
    <3>2. CASE i = N + 1
      <4>1. down(i) = N
        BY <1>1, <3>2, <2>2
      <4> QED BY <1>1, <1>2, <1>3, <2>2, <3>1, <3>2, <4>1 DEF Pointers
    <3>3. CASE i = 1
      <4>1. z[i] = s[1] /\ down(i) = N + 1
        BY <3>1, <3>3
      <4> QED BY <1>1, <1>2, <1>3, <2>2, <3>1, <4>1 DEF Pointers
    <3>4. CASE i # N + 1 /\ i # 1
      <4>1. i \in 1 .. N /\ i # 1 /\ i - 1 \in 1 .. N /\ down(i) = i - 1
        BY <1>1, <3>4
      <4>2. z[i] = s[i] /\ z[i - 1] = s[i - 1] /\ s[i] # s[1] /\ s[i] # n
        BY <1>1, <1>3, <3>1, <4>1
      <4>3. m.prev[s[i]] = l.prev[s[i]]
        BY <1>1, <1>2, <2>2, <4>1, <4>2 DEF Pointers
      <4> QED BY <1>4, <4>1, <4>2, <4>3
    <3> QED BY <3>2, <3>3, <3>4
  <2> QED BY <2>1, <2>2
<1>9. Ring(m, z)
  <2>1. m.len # 0
    BY <1>1, <1>2
  <2>2. z \in [1 .. m.len -> Nodes]
    BY <1>2, <1>3
  <2>3. \A i \in 1 .. m.len : /\ m.next[z[i]] = z[IF i = m.len THEN 1 ELSE i + 1]
                              /\ m.prev[z[i]] = z[IF i = 1 THEN m.len ELSE i - 1]
    BY <1>2, <1>7, <1>8
  <2> QED BY <1>2, <1>5, <1>6, <2>1, <2>2, <2>3 DEF Ring
<1>10. ASSUME NEW x \in Nodes \ (Range(s) \union {n}) PROVE m.next[x] = l.next[x] /\ m.prev[x] = l.prev[x]
  <2>1. N # 0 => 1 \in 1 .. N /\ N \in 1 .. N
    BY <1>1
  <2>2. N # 0 => s[1] # x /\ s[N] # x
    BY <1>1, <2>1 DEF Range
  <2> QED BY <1>1, <1>2, <2>2 DEF Pointers
<1>11. Range(z) = Range(s) \union {n}
  <2>1. DOMAIN z = 1 .. N + 1 /\ DOMAIN s = 1 .. N
    BY <1>1, <1>3
  <2>2. ASSUME NEW x \in Range(z) PROVE x \in Range(s) \union {n}
    <3>1. PICK i \in 1 .. N + 1 : x = z[i]
      BY <2>1 DEF Range
    <3> QED BY <1>1, <1>3, <2>1, <3>1 DEF Range
  <2>3. ASSUME NEW x \in Range(s) PROVE x \in Range(z)
    <3>1. PICK i \in 1 .. N : x = s[i]
      BY <2>1 DEF Range
    <3> QED BY <1>1, <1>3, <2>1, <3>1 DEF Range
  <2>4. n \in Range(z)
    BY <1>1, <1>3, <2>1 DEF Range
  <2> QED BY <2>2, <2>3, <2>4
<1> QED BY <1>2, <1>9, <1>10, <1>11 DEF z, N

LEMMA MinUnused ==
    ASSUME NEW l, Unused(l) # {}
    PROVE  Min(Unused(l)) \in Unused(l)
<1>1. Unused(l) \in SUBSET Nat
  BY ListAssumption DEF Unused
<1>2. \E x \in Unused(l) : \A y \in Unused(l) : x <= y
  BY <1>1, LeastNatural
<1> QED BY <1>2 DEF Min

\* A ring of which every node is used leaves the new one's node to be taken.
LEMMA UsedOnRing ==
    ASSUME NEW l, NEW s, Ring(l, s), NEW i \in 1 .. l.len
    PROVE  s[i] \notin Unused(l)
<1> DEFINE j == IF i = l.len THEN 1 ELSE i + 1
<1>1. l.next[s[i]] = s[j]
  BY DEF Ring
<1>2. j \in 1 .. l.len
  BY RingFacts
<1> HIDE DEF j
<1>3. s[j] # Nil
  BY <1>2, RingFacts
<1> QED BY <1>1, <1>3 DEF Unused

LEMMA LinkedUnused ==
    ASSUME NEW l, NEW s, Ring(l, s), NEW n \in Unused(l), NEW v \in Values,
           NEW m, m = Linked(l, n, v)
    PROVE  /\ n \in Nodes \ Range(s)
           /\ Unused(m) = Unused(l) \ {n}
<1> DEFINE z == Joined(s, l.len, n)
<1>1. n \in Nodes \ Range(s)
  BY UsedOnRing, RingFacts DEF Unused
<1>2. /\ Ring(m, z) /\ Range(z) = Range(s) \union {n}
      /\ \A x \in Nodes \ (Range(s) \union {n}) : m.next[x] = l.next[x]
  <2>1. /\ Ring(m, Joined(s, l.len, n)) /\ m.len = l.len + 1
        /\ m.data = [l.data EXCEPT ![n] = v]
        /\ \A x \in Nodes \ (Range(s) \union {n}) : m.next[x] = l.next[x] /\ m.prev[x] = l.prev[x]
        /\ Range(Joined(s, l.len, n)) = Range(s) \union {n}
    BY <1>1, LinkedIs
  <2> QED BY <2>1
<1> HIDE DEF z
<1>3. \A x \in Range(z) : x \notin Unused(m)
  BY <1>2, UsedOnRing, RingFacts
<1>4. \A x \in Range(s) : x \notin Unused(l)
  BY UsedOnRing, RingFacts
<1>5. ASSUME NEW x \in Nodes PROVE x \in Unused(m) <=> x \in Unused(l) \ {n}
  <2>1. CASE x \in Range(z)
    BY <1>2, <1>3, <1>4, <2>1
  <2>2. CASE x \notin Range(z)
    BY <1>2, <2>2 DEF Unused
  <2> QED BY <2>1, <2>2
<1>6. Unused(m) \subseteq Nodes /\ Unused(l) \subseteq Nodes
  BY DEF Unused
<1>7. Unused(m) = Unused(l) \ {n}
  BY <1>5, <1>6
<1> QED BY <1>1, <1>7

\* listAddTail: the ring is whole again, with one node more at its end.
LEMMA AddTailIs ==
    ASSUME NEW l, NEW s, Whole(l, s), Unused(l) # {}, NEW v \in Values,
           NEW n, n = Min(Unused(l)), NEW m, m = listAddTail(l, v)
    PROVE  /\ Whole(m, Joined(s, l.len, n)) /\ m.len = l.len + 1 /\ n \in Nodes \ Range(s)
           /\ m.data = [l.data EXCEPT ![n] = v]
<1>1. Ring(l, s) /\ n \in Unused(l) /\ m = Linked(l, n, v)
  BY MinUnused DEF Whole, listAddTail
<1>2. n \in Nodes \ Range(s) /\ Unused(m) = Unused(l) \ {n}
  BY <1>1, LinkedUnused
<1>3. /\ Ring(m, Joined(s, l.len, n)) /\ m.len = l.len + 1 /\ m.data = [l.data EXCEPT ![n] = v]
      /\ Range(Joined(s, l.len, n)) = Range(s) \union {n}
  BY <1>1, <1>2, LinkedIs
<1>4. Unused(m) = Nodes \ Range(Joined(s, l.len, n))
  BY <1>2, <1>3 DEF Whole
<1> QED BY <1>2, <1>3, <1>4 DEF Whole

\* A ring seen from its last node.
Turned(s, N) == [i \in 1 .. N |-> IF i = 1 THEN s[N] ELSE s[i - 1]]

LEMMA TurnedIs ==
    ASSUME NEW l, NEW s, Whole(l, s), l.len # 0, NEW m, m = [l EXCEPT !.root = s[l.len]]
    PROVE  Whole(m, Turned(s, l.len)) /\ m.len = l.len /\ m.data = l.data
<1> DEFINE N == l.len
           z == Turned(s, l.len)
<1>1. /\ N \in Nat \ {0} /\ \A i \in 1 .. N : s[i] \in Nodes
      /\ \A i, j \in 1 .. N : s[i] = s[j] => i = j
      /\ DOMAIN s = 1 .. N /\ N \in 1 .. N
  BY RingFacts DEF Whole
<1>2. /\ l \in Lists /\ \A i \in 1 .. N : /\ l.next[s[i]] = s[IF i = N THEN 1 ELSE i + 1]
                                          /\ l.prev[s[i]] = s[IF i = 1 THEN N ELSE i - 1]
  BY DEF Whole, Ring
<1>3. /\ m \in Lists /\ m.root = s[N] /\ m.len = N
      /\ m.next = l.next /\ m.prev = l.prev /\ m.data = l.data
  BY <1>1, <1>2 DEF Lists
<1>4. z \in [1 .. N -> Nodes] /\ z[1] = s[N] /\ \A i \in 1 .. N : i # 1 => z[i] = s[i - 1]
  BY <1>1 DEF Turned
<1> HIDE DEF N, z
<1>5. \A i, j \in 1 .. N : z[i] = z[j] => i = j
  <2>1. \A i \in 1 .. N : i # 1 => i - 1 \in 1 .. N /\ i - 1 # N
    BY <1>1
  <2>2. ASSUME NEW i \in 1 .. N, NEW j \in 1 .. N, z[i] = z[j] PROVE i = j
    <3>1. CASE i = 1
      BY <1>1, <1>4, <2>1, <2>2, <3>1
    <3>2. CASE j = 1
      BY <1>1, <1>4, <2>1, <2>2, <3>2
    <3>3. CASE i # 1 /\ j # 1
      <4>1. i - 1 = j - 1
        BY <1>1, <1>4, <2>1, <2>2, <3>3
      <4> QED BY <4>1
    <3> QED BY <3>1, <3>2, <3>3
  <2> QED BY <2>2
<1>6. ASSUME NEW i \in 1 .. N
      PROVE  l.next[z[i]] = z[IF i = N THEN 1 ELSE i + 1] /\ l.prev[z[i]] = z[IF i = 1 THEN N ELSE i - 1]
  <2>1. CASE i = 1
    <3>1. N # 1 => 2 \in 1 .. N /\ z[2] = s[1] /\ N - 1 \in 1 .. N /\ z[N] = s[N - 1]
      BY <1>1, <1>4
    <3>2. l.next[s[N]] = s[1] /\ l.prev[s[N]] = s[IF N = 1 THEN N ELSE N - 1]
      BY <1>1, <1>2
    <3>3. z[i] = s[N]
      BY <1>4, <2>1
    <3>4. CASE N = 1
      BY <2>1, <3>2, <3>3, <3>4
    <3>5. CASE N # 1
      BY <2>1, <3>1, <3>2, <3>3, <3>5
    <3> QED BY <3>4, <3>5
  <2>2. CASE i # 1
    <3>1. i - 1 \in 1 .. N /\ i - 1 # N /\ (i - 1) + 1 = i /\ z[i] = s[i - 1]
      BY <1>1, <1>4, <2>2
    <3>2. l.next[s[i - 1]] = s[i] /\ l.prev[s[i - 1]] = s[IF i - 1 = 1 THEN N ELSE (i - 1) - 1]
      BY <1>2, <3>1
    <3>3. z[IF i = N THEN 1 ELSE i + 1] = s[i]
      <4>1. CASE i = N
        BY <4>1, <1>4
      <4>2. CASE i # N
        <5>1. i + 1 \in 1 .. N /\ i + 1 # 1 /\ (i + 1) - 1 = i
          BY <1>1, <4>2
        <5> QED BY <4>2, <5>1, <1>4
      <4> QED BY <4>1, <4>2
    <3>4. z[i - 1] = s[IF i - 1 = 1 THEN N ELSE (i - 1) - 1]
      BY <1>4, <3>1
    <3> QED BY <2>2, <3>1, <3>2, <3>3, <3>4
  <2> QED BY <2>1, <2>2
<1>7. DOMAIN z = 1 .. N
  BY <1>4
<1>8. Ring(m, z)
  <2>1. IsInjective(z)
    BY <1>5, <1>7 DEF IsInjective
  <2>2. m.root = IF m.len = 0 THEN Nil ELSE z[1]
    BY <1>1, <1>3, <1>4
  <2>3. \A i \in 1 .. m.len : /\ m.next[z[i]] = z[IF i = m.len THEN 1 ELSE i + 1]
                              /\ m.prev[z[i]] = z[IF i = 1 THEN m.len ELSE i - 1]
    BY <1>3, <1>6
  <2>4. z \in [1 .. m.len -> Nodes]
    BY <1>3, <1>4
  <2> QED BY <1>3, <2>1, <2>2, <2>3, <2>4 DEF Ring
<1>9. Range(z) = Range(s)
  <2>1. ASSUME NEW i \in 1 .. N PROVE z[i] \in Range(s)
    <3>1. CASE i = 1
      BY <1>1, <1>4, <3>1 DEF Range
    <3>2. CASE i # 1
      <4>1. i - 1 \in 1 .. N /\ z[i] = s[i - 1]
        BY <1>1, <1>4, <3>2
      <4> QED BY <1>1, <4>1 DEF Range
    <3> QED BY <3>1, <3>2
  <2>2. ASSUME NEW i \in 1 .. N PROVE s[i] \in Range(z)
    <3>1. CASE i = N
      <4>1. 1 \in 1 .. N
        BY <1>1
      <4> QED BY <1>4, <1>7, <3>1, <4>1 DEF Range
    <3>2. CASE i # N
      <4>1. i + 1 \in 1 .. N /\ i + 1 # 1 /\ (i + 1) - 1 = i
        BY <1>1, <3>2
      <4>2. z[i + 1] = s[i]
        BY <1>4, <4>1
      <4> QED BY <1>7, <4>1, <4>2 DEF Range
    <3> QED BY <3>1, <3>2
  <2>3. Range(z) \subseteq Range(s)
    BY <1>7, <2>1 DEF Range
  <2>4. Range(s) \subseteq Range(z)
    BY <1>1, <2>2 DEF Range
  <2> QED BY <2>3, <2>4
<1>10. Unused(m) = Unused(l)
  BY <1>3 DEF Unused
<1> QED BY <1>3, <1>8, <1>9, <1>10 DEF Whole, N, z

\* listAddHead: the same with the new node first.
LEMMA AddHeadIs ==
    ASSUME NEW l, NEW s, Whole(l, s), Unused(l) # {}, NEW v \in Values,
           NEW n, n = Min(Unused(l)), NEW m, m = listAddHead(l, v)
    PROVE  /\ Whole(m, Turned(Joined(s, l.len, n), l.len + 1)) /\ m.len = l.len + 1
           /\ n \in Nodes \ Range(s)
           /\ m.data = [l.data EXCEPT ![n] = v]
<1> DEFINE k == listAddTail(l, v)
           z == Joined(s, l.len, n)
<1>1. /\ Whole(k, z) /\ k.len = l.len + 1 /\ n \in Nodes \ Range(s)
      /\ k.data = [l.data EXCEPT ![n] = v]
  BY AddTailIs
<1>2. l.len \in Nat
  BY RingFacts DEF Whole
<1>3. z[k.len] = n
  BY <1>1, <1>2 DEF Joined
<1>4. m = [k EXCEPT !.root = n]
  BY DEF listAddHead
<1> HIDE DEF k, z
<1>5. Whole(m, Turned(z, k.len)) /\ m.len = k.len /\ m.data = k.data
  <2>1. k.len # 0
    BY <1>1, <1>2
  <2> QED BY <1>1, <1>3, <1>4, <2>1, TurnedIs
<1> QED BY <1>1, <1>5 DEF z

-----------------------------------------------------------------------------
(* A node less.                                                             *)

\* The nodes of a ring that the k-th of N has left.
Without(s, N, k) == [i \in 1 .. N - 1 |-> IF i < k THEN s[i] ELSE s[i + 1]]

LEMMA RemovedFields ==
    ASSUME NEW l, NEW s, Ring(l, s), NEW k \in 1 .. l.len, NEW p, NEW q,
           p = s[IF k = 1 THEN l.len ELSE k - 1], q = s[IF k = l.len THEN 1 ELSE k + 1],
           NEW m, m = Removed(l, s[k])
    PROVE  /\ m \in Lists /\ m.len = l.len - 1 /\ m.data = [l.data EXCEPT ![s[k]] = 0]
           /\ m.next = [l.next EXCEPT ![p] = q, ![s[k]] = Nil]
           /\ m.prev = [l.prev EXCEPT ![q] = p, ![s[k]] = Nil]
           /\ m.root = IF l.len = 1 THEN Nil ELSE IF k = 1 THEN q ELSE s[1]
<1>1. l \in Lists /\ l.next[s[k]] = q /\ l.prev[s[k]] = p
  BY DEF Ring
<1>2. /\ l.len \in Nat \ {0} /\ s[k] \in Nodes
      /\ (IF k = 1 THEN l.len ELSE k - 1) \in 1 .. l.len
      /\ (IF k = l.len THEN 1 ELSE k + 1) \in 1 .. l.len
  BY RingFacts
<1>3. p \in Nodes /\ q \in Nodes /\ s[1] \in Nodes
  BY <1>2, RingFacts
<1>4. l.root = s[1] /\ (s[k] = l.root <=> k = 1)
  <2>1. 1 \in 1 .. l.len
    BY <1>2
  <2>2. l.root = s[1]
    BY <1>2 DEF Ring
  <2> QED BY <2>1, <2>2, RingFacts
<1>5. m = [root |-> IF l.len = 1 THEN Nil ELSE IF k = 1 THEN q ELSE s[1],
           len |-> l.len - 1,
           next |-> [l.next EXCEPT ![p] = q, ![s[k]] = Nil],
           prev |-> [l.prev EXCEPT ![q] = p, ![s[k]] = Nil],
           data |-> [l.data EXCEPT ![s[k]] = 0]]
  BY <1>1, <1>4 DEF Removed
<1>6. /\ [l.next EXCEPT ![p] = q, ![s[k]] = Nil] \in Pointers
      /\ [l.prev EXCEPT ![q] = p, ![s[k]] = Nil] \in Pointers
      /\ [l.data EXCEPT ![s[k]] = 0] \in [Nodes -> Values \union {0}]
  BY <1>1, <1>2, <1>3 DEF Lists, Pointers
<1>7. m \in Lists
  BY <1>2, <1>3, <1>5, <1>6 DEF Lists
<1> QED BY <1>5, <1>7

\* Removed takes the node out of the ring and closes it.
LEMMA RemovedIs ==
    ASSUME NEW l, NEW s, Whole(l, s), NEW k \in 1 .. l.len, k = 1 \/ k = l.len,
           NEW m, m = Removed(l, s[k])
    PROVE  /\ Whole(m, Without(s, l.len, k)) /\ m.len = l.len - 1
           /\ m.data = [l.data EXCEPT ![s[k]] = 0]
<1> DEFINE N == l.len
           z == Without(s, N, k)
           p == s[IF k = 1 THEN N ELSE k - 1]
           q == s[IF k = N THEN 1 ELSE k + 1]
<1>0. Ring(l, s)
  BY DEF Whole
<1>1. /\ N \in Nat \ {0} /\ \A i \in 1 .. N : s[i] \in Nodes
      /\ \A i, j \in 1 .. N : s[i] = s[j] => i = j
      /\ l.next \in Pointers /\ l.prev \in Pointers /\ DOMAIN s = 1 .. N
  BY <1>0, RingFacts
<1>2. /\ m \in Lists /\ m.len = N - 1 /\ m.data = [l.data EXCEPT ![s[k]] = 0]
      /\ m.next = [l.next EXCEPT ![p] = q, ![s[k]] = Nil]
      /\ m.prev = [l.prev EXCEPT ![q] = p, ![s[k]] = Nil]
      /\ m.root = IF N = 1 THEN Nil ELSE IF k = 1 THEN q ELSE s[1]
  BY <1>0, RemovedFields
<1>3. \A i \in 1 .. N : /\ l.next[s[i]] = s[IF i = N THEN 1 ELSE i + 1]
                        /\ l.prev[s[i]] = s[IF i = 1 THEN N ELSE i - 1]
  BY <1>0 DEF Ring
<1> DEFINE at(i) == IF i < k THEN i ELSE i + 1
<1>4. /\ \A i \in 1 .. N - 1 : z[i] = s[at(i)] /\ at(i) \in 1 .. N /\ at(i) # k
      /\ z \in [1 .. N - 1 -> Nodes]
  BY <1>1 DEF Without
<1> HIDE DEF z, p, q
<1>5. /\ \A i \in 1 .. N : s[i] # p /\ s[i] # s[k] => m.next[s[i]] = l.next[s[i]]
      /\ \A i \in 1 .. N : s[i] # q /\ s[i] # s[k] => m.prev[s[i]] = l.prev[s[i]]
      /\ p # s[k] => m.next[p] = q
      /\ q # s[k] => m.prev[q] = p
  <2>1. (IF k = 1 THEN N ELSE k - 1) \in 1 .. N /\ (IF k = N THEN 1 ELSE k + 1) \in 1 .. N
    BY <1>1
  <2>2. p \in Nodes /\ q \in Nodes
    BY <1>1, <2>1 DEF p, q
  <2> QED BY <1>1, <1>2, <2>2 DEF Pointers
<1> DEFINE Closed == /\ m.root = IF N = 1 THEN Nil ELSE z[1]
                     /\ \A i \in 1 .. N - 1 : /\ m.next[z[i]] = z[IF i = N - 1 THEN 1 ELSE i + 1]
                                              /\ m.prev[z[i]] = z[IF i = 1 THEN N - 1 ELSE i - 1]
<1>6. ASSUME k = N PROVE Closed
  <2>1. \A i \in 1 .. N - 1 : z[i] = s[i] /\ i \in 1 .. N /\ i # k
    BY <1>1, <1>4, <1>6
  <2>2. N # 1 => p = s[N - 1] /\ q = s[1] /\ p # s[k] /\ q # s[k]
    BY <1>1, <1>6 DEF p, q
  <2>3. ASSUME NEW i \in 1 .. N - 1 PROVE m.next[z[i]] = z[IF i = N - 1 THEN 1 ELSE i + 1]
    <3>1. CASE i = N - 1
      BY <1>1, <1>5, <2>1, <2>2, <3>1
    <3>2. CASE i # N - 1
      <4>1. i + 1 \in 1 .. N - 1 /\ i \in 1 .. N /\ i # N /\ N - 1 \in 1 .. N
        BY <1>1, <3>2
      <4>2. s[i] # p /\ s[i] # s[k]
        BY <1>1, <1>6, <2>2, <3>2, <4>1
      <4>3. m.next[s[i]] = s[i + 1]
        BY <1>3, <1>5, <4>1, <4>2
      <4> QED BY <2>1, <3>2, <4>1, <4>3
    <3> QED BY <3>1, <3>2
  <2>4. ASSUME NEW i \in 1 .. N - 1 PROVE m.prev[z[i]] = z[IF i = 1 THEN N - 1 ELSE i - 1]
    <3>1. CASE i = 1
      <4>1. N - 1 \in 1 .. N - 1 /\ N # 1
        BY <1>1, <3>1
      <4> QED BY <1>5, <2>1, <2>2, <3>1, <4>1
    <3>2. CASE i # 1
      <4>1. i - 1 \in 1 .. N - 1 /\ i \in 1 .. N /\ 1 \in 1 .. N /\ N # 1
        BY <1>1, <3>2
      <4>2. s[i] # q /\ s[i] # s[k]
        BY <1>1, <1>6, <2>1, <2>2, <3>2, <4>1
      <4>3. m.prev[s[i]] = s[i - 1]
        BY <1>3, <1>5, <3>2, <4>1, <4>2
      <4> QED BY <2>1, <3>2, <4>1, <4>3
    <3> QED BY <3>1, <3>2
  <2>5. m.root = IF N = 1 THEN Nil ELSE z[1]
    <3>1. CASE N = 1
      BY <1>2, <3>1
    <3>2. CASE N # 1
      <4>1. 1 \in 1 .. N - 1 /\ k # 1
        BY <1>1, <1>6, <3>2
      <4> QED BY <1>2, <2>1, <3>2, <4>1
    <3> QED BY <3>1, <3>2
  <2> QED BY <2>3, <2>4, <2>5
<1>7. ASSUME k = 1 /\ N # 1 PROVE Closed
  <2>1. \A i \in 1 .. N - 1 : z[i] = s[i + 1] /\ i + 1 \in 1 .. N /\ i + 1 # 1
    BY <1>1, <1>4, <1>7
  <2>2. p = s[N] /\ q = s[2] /\ 2 \in 1 .. N /\ 1 \in 1 .. N /\ N \in 1 .. N /\ p # s[k] /\ q # s[k]
    BY <1>1, <1>7 DEF p, q
  <2>3. ASSUME NEW i \in 1 .. N - 1 PROVE m.next[z[i]] = z[IF i = N - 1 THEN 1 ELSE i + 1]
    <3>1. CASE i = N - 1
      <4>1. 1 \in 1 .. N - 1 /\ i + 1 = N
        BY <1>1, <1>7, <3>1
      <4> QED BY <1>5, <2>1, <2>2, <3>1, <4>1
    <3>2. CASE i # N - 1
      <4>1. i + 1 \in 1 .. N - 1 /\ i + 1 \in 1 .. N /\ i + 1 # N /\ i + 1 # 1
        BY <1>1, <3>2
      <4>2. s[i + 1] # p /\ s[i + 1] # s[k]
        BY <1>1, <1>7, <2>2, <4>1
      <4>3. m.next[s[i + 1]] = s[(i + 1) + 1]
        BY <1>3, <1>5, <4>1, <4>2
      <4> QED BY <2>1, <3>2, <4>1, <4>3
    <3> QED BY <3>1, <3>2
  <2>4. ASSUME NEW i \in 1 .. N - 1 PROVE m.prev[z[i]] = z[IF i = 1 THEN N - 1 ELSE i - 1]
    <3>1. CASE i = 1
      <4>1. N - 1 \in 1 .. N - 1 /\ (N - 1) + 1 = N /\ 1 + 1 = 2
        BY <1>1, <1>7
      <4> QED BY <1>5, <2>1, <2>2, <3>1, <4>1
    <3>2. CASE i # 1
      <4>1. i - 1 \in 1 .. N - 1 /\ (i - 1) + 1 = i /\ (i + 1) - 1 = i /\ i + 1 \in 1 .. N /\ i + 1 # 2 /\ i + 1 # 1
        BY <1>1, <3>2
      <4>2. s[i + 1] # q /\ s[i + 1] # s[k]
        BY <1>1, <1>7, <2>2, <4>1
      <4>3. m.prev[s[i + 1]] = s[(i + 1) - 1]
        BY <1>3, <1>5, <4>1, <4>2
      <4> QED BY <2>1, <3>2, <4>1, <4>3
    <3> QED BY <3>1, <3>2
  <2>5. m.root = z[1]
    <3>1. 1 \in 1 .. N - 1 /\ 1 + 1 = 2
      BY <1>1, <1>7
    <3> QED BY <1>2, <1>7, <2>1, <2>2, <3>1
  <2> QED BY <1>7, <2>3, <2>4, <2>5
<1>8. Ring(m, z)
  <2>0. Closed
    <3>1. k = N \/ (k = 1 /\ N # 1)
      OBVIOUS
    <3> HIDE DEF Closed
    <3> QED BY <1>6, <1>7, <3>1
  <2>1. IsInjective(z)
    <3>1. DOMAIN z = 1 .. N - 1
      BY <1>4
    <3>2. ASSUME NEW i \in 1 .. N - 1, NEW j \in 1 .. N - 1, z[i] = z[j] PROVE i = j
      <4>1. at(i) = at(j)
        BY <1>1, <1>4, <3>2
      <4> QED BY <1>1, <4>1
    <3> QED BY <3>1, <3>2 DEF IsInjective
  <2>2. m.root = IF N - 1 = 0 THEN Nil ELSE z[1]
    BY <1>1, <2>0
  <2>3. \A i \in 1 .. m.len : /\ m.next[z[i]] = z[IF i = m.len THEN 1 ELSE i + 1]
                              /\ m.prev[z[i]] = z[IF i = 1 THEN m.len ELSE i - 1]
    BY <1>2, <2>0
  <2> QED BY <1>2, <1>4, <2>1, <2>2, <2>3 DEF Ring
<1>9. \A x \in Nodes : x \in Range(z) <=> x \in Range(s) \ {s[k]}
  <2>1. DOMAIN z = 1 .. N - 1
    BY <1>4
  <2>2. ASSUME NEW i \in 1 .. N - 1 PROVE z[i] \in Range(s) \ {s[k]}
    <3>1. z[i] # s[k] /\ z[i] = s[at(i)] /\ at(i) \in DOMAIN s
      BY <1>1, <1>4
    <3> QED BY <3>1 DEF Range
  <2>3. ASSUME NEW i \in 1 .. N, s[i] # s[k] PROVE s[i] \in Range(z)
    <3> DEFINE j == IF i < k THEN i ELSE i - 1
    <3>1. j \in 1 .. N - 1 /\ at(j) = i
      BY <1>1, <2>3
    <3>2. z[j] = s[i] /\ j \in DOMAIN z
      BY <1>4, <2>1, <3>1
    <3> QED BY <3>2 DEF Range
  <2>4. Range(z) = {z[i] : i \in 1 .. N - 1} /\ Range(s) = {s[i] : i \in 1 .. N}
    BY <1>1, <2>1 DEF Range
  <2> QED BY <2>2, <2>3, <2>4
<1>10. \A x \in Nodes : x \in Unused(m) <=> x \notin Range(z)
  <2> SUFFICES ASSUME NEW x \in Nodes PROVE x \in Unused(m) <=> x \notin Range(z)
    OBVIOUS
  <2>1. CASE x \in Range(z)
    BY <1>8, <2>1, UsedOnRing, RingFacts
  <2>2. CASE x = s[k]
    <3>1. m.next[x] = Nil
      BY <1>1, <1>2, <2>2 DEF Pointers
    <3>2. x \notin Range(z)
      BY <1>9, <2>2
    <3> QED BY <3>1, <3>2 DEF Unused
  <2>3. CASE x \notin Range(s)
    <3>1. (IF k = 1 THEN N ELSE k - 1) \in 1 .. N
      BY <1>1
    <3>2. x # p /\ x # s[k]
      BY <1>1, <2>3, <3>1 DEF p, Range
    <3>3. m.next[x] = l.next[x]
      BY <1>1, <1>2, <3>2 DEF Pointers
    <3>4. l.next[x] = Nil
      BY <2>3 DEF Whole, Unused
    <3> QED BY <1>9, <2>3, <3>3, <3>4 DEF Unused
  <2> QED BY <1>9, <2>1, <2>2, <2>3
<1>11. Unused(m) = Nodes \ Range(z)
  BY <1>10 DEF Unused
<1> QED BY <1>2, <1>8, <1>11 DEF Whole, z, N

LEMMA RemoveHeadIs ==
    ASSUME NEW l, NEW s, Whole(l, s), l.len # 0, NEW m, m = Removed(l, l.root)
    PROVE  /\ Whole(m, Without(s, l.len, 1)) /\ m.len = l.len - 1
           /\ m.data = [l.data EXCEPT ![s[1]] = 0]
           /\ l.root = s[1] /\ 1 \in 1 .. l.len
<1>1. 1 \in 1 .. l.len
  BY RingFacts DEF Whole
<1>2. l.root = s[1]
  BY DEF Whole, Ring
<1>3. m = Removed(l, s[1])
  BY <1>2
<1>4. /\ Whole(m, Without(s, l.len, 1)) /\ m.len = l.len - 1
      /\ m.data = [l.data EXCEPT ![s[1]] = 0]
  BY <1>1, <1>3, RemovedIs
<1> QED BY <1>1, <1>2, <1>4

LEMMA RemoveTailIs ==
    ASSUME NEW l, NEW s, Whole(l, s), l.len # 0, NEW m, m = Removed(l, l.prev[l.root])
    PROVE  /\ Whole(m, Without(s, l.len, l.len)) /\ m.len = l.len - 1
           /\ m.data = [l.data EXCEPT ![s[l.len]] = 0]
           /\ l.prev[l.root] = s[l.len] /\ l.len \in 1 .. l.len
<1>1. 1 \in 1 .. l.len /\ l.len \in 1 .. l.len
  BY RingFacts DEF Whole
<1>2. l.prev[l.root] = s[l.len]
  BY <1>1 DEF Whole, Ring
<1>3. m = Removed(l, s[l.len])
  BY <1>2
<1>4. /\ Whole(m, Without(s, l.len, l.len)) /\ m.len = l.len - 1
      /\ m.data = [l.data EXCEPT ![s[l.len]] = 0]
  BY <1>1, <1>3, RemovedIs
<1> QED BY <1>1, <1>2, <1>4

-----------------------------------------------------------------------------
(* Lists as a whole.                                                        *)

\* listRelease takes the head until there is none.
LEMMA ReleaseIs ==
    ASSUME NEW l, NEW s, Whole(l, s), NEW left,
           left = CHOOSE f : f = [i \in 0 .. l.len |->
                      IF i = 0 THEN l ELSE Removed(f[i - 1], f[i - 1].root)]
    PROVE  left[l.len].len = 0 /\ \E z : Whole(left[l.len], z)
<1> DEFINE N == l.len
           G == [p \in (1 .. N) \X Lists |-> Removed(p[2], p[2].root)]
           Sized(n) == {x \in Lists : x.len = n /\ \E z : Whole(x, z)}
           S == {p \in (0 .. N) \X Lists : p[2] \in Sized(N - p[1])}
           step(f) == [i \in 0 .. N |-> IF i = 0 THEN l ELSE Removed(f[i - 1], f[i - 1].root)]
<1>1. N \in Nat /\ l \in Lists
  BY RingFacts DEF Whole, Ring
<1> HIDE DEF N
<1>2. <<0, l>> \in S
  <2>1. l \in Sized(N - 0)
    BY <1>1 DEF N
  <2> HIDE DEF Sized
  <2> QED BY <1>1, <2>1
<1>3. \A i \in 1 .. N : \A x : <<i - 1, x>> \in S =>
          <<i, Removed(x, x.root)>> \in S /\ G[<<i, x>>] = Removed(x, x.root)
  <2> SUFFICES ASSUME NEW i \in 1 .. N, NEW x, <<i - 1, x>> \in S
               PROVE  <<i, Removed(x, x.root)>> \in S /\ G[<<i, x>>] = Removed(x, x.root)
    OBVIOUS
  <2>0. x \in Sized(N - (i - 1))
    <3> HIDE DEF Sized
    <3> QED OBVIOUS
  <2>1. x \in Lists /\ x.len = N - (i - 1)
    BY <2>0
  <2>2. PICK z : Whole(x, z)
    BY <2>0
  <2>3. x.len # 0
    BY <1>1, <2>1
  <2> HIDE DEF S
  <2> PICK m : m = Removed(x, x.root)
    OBVIOUS
  <2>5. m.len = x.len - 1 /\ \E y : Whole(m, y)
    BY <2>2, <2>3, RemoveHeadIs
  <2> USE DEF S
  <2>6. m \in Lists
    BY <2>5 DEF Whole, Ring
  <2>7. m.len = N - i /\ i \in 0 .. N
    BY <1>1, <2>1, <2>5
  <2>8. <<i, m>> \in S
    <3>1. m \in Sized(N - i)
      BY <2>5, <2>6, <2>7
    <3> HIDE DEF Sized
    <3> QED BY <2>6, <2>7, <3>1
  <2>9. G[<<i, x>>] = Removed(x, x.root)
    BY <2>1
  <2> HIDE DEF S, G
  <2> QED BY <2>8, <2>9
<1> HIDE DEF S, G
<1>4. PICK f : Repeats(f, N, l, G)
  BY <1>1, RepeatsExists
<1>5. \A i \in 0 .. N : <<i, f[i]>> \in S
  <2>1. \A i \in 1 .. N : \A x : <<i - 1, x>> \in S => <<i, G[<<i, x>>]>> \in S
    BY <1>3
  <2> QED BY <1>1, <1>2, <1>4, <2>1, RepeatsWithin
<1>6. f = step(f)
  <2>1. \A i \in 1 .. N : G[<<i, f[i - 1]>>] = Removed(f[i - 1], f[i - 1].root)
    <3> SUFFICES ASSUME NEW i \in 1 .. N PROVE G[<<i, f[i - 1]>>] = Removed(f[i - 1], f[i - 1].root)
      OBVIOUS
    <3>1. i - 1 \in 0 .. N
      BY <1>1
    <3> QED BY <1>3, <1>5, <3>1
  <2>2. f = [i \in 0 .. N |-> IF i = 0 THEN l ELSE G[<<i, f[i - 1]>>]]
    BY <1>4 DEF Repeats
  <2> QED BY <2>1, <2>2
<1>7. left = step(left)
  <2>1. left = CHOOSE g : g = step(g)
    BY DEF N
  <2> HIDE DEF step
  <2> QED BY <1>6, <2>1
<1>8. left[0] = l /\ \A i \in 1 .. N : left[i] = Removed(left[i - 1], left[i - 1].root)
  <2>1. \A i \in 0 .. N : left[i] = IF i = 0 THEN l ELSE Removed(left[i - 1], left[i - 1].root)
    BY <1>7, Zenon
  <2> QED BY <1>1, <2>1
<1> DEFINE P == {i \in 0 .. N : <<i, left[i]>> \in S}
<1>9. 0 \in P
  BY <1>1, <1>2, <1>8
<1>10. ASSUME NEW i \in 1 .. N, i - 1 \in P PROVE i \in P
  <2>1. <<i - 1, left[i - 1]>> \in S
    BY <1>10
  <2>2. <<i, left[i]>> \in S
    BY <1>3, <1>8, <2>1
  <2> QED BY <2>2
<1> HIDE DEF P
<1>11. N \in P
  BY <1>1, <1>9, <1>10, UpTo
<1>12. <<N, left[N]>> \in S
  BY <1>11 DEF P
<1>13. left[N].len = N - N /\ \E z : Whole(left[N], z)
  <2>1. left[N] \in Sized(N - N)
    <3> HIDE DEF Sized
    <3> QED BY <1>12 DEF S
  <2> QED BY <2>1
<1>14. N - N = 0
  BY <1>1
<1>15. left[N].len = 0 /\ \E z : Whole(left[N], z)
  BY <1>13, <1>14, Zenon
<1> QED BY <1>15, Zenon DEF N

-----------------------------------------------------------------------------
(* What the lists hold.                                                     *)

Things == Values \union {0}
ItemsOf(l, s) == [i \in 1 .. l.len |-> l.data[s[i]]]

LEMMA ItemsAre ==
    ASSUME NEW l, NEW s, Ring(l, s)
    PROVE  /\ ItemsOf(l, s) \in Seq(Things) /\ Len(ItemsOf(l, s)) = l.len
           /\ \A i \in 1 .. l.len : ItemsOf(l, s)[i] = l.data[s[i]] /\ l.data[s[i]] \in Things
           /\ l.len \in Nat
<1>1. l.len \in Nat /\ \A i \in 1 .. l.len : l.data[s[i]] \in Things
  BY RingFacts DEF Things
<1>2. ItemsOf(l, s) \in [1 .. l.len -> Things]
  BY <1>1 DEF ItemsOf
<1>3. ItemsOf(l, s) \in Seq(Things) /\ Len(ItemsOf(l, s)) = l.len
  BY <1>1, <1>2
<1> QED BY <1>1, <1>3 DEF ItemsOf

LEMMA ContentsAre ==
    ASSUME NEW s, Ring(list, s)
    PROVE  Contents = ItemsOf(list, s)
BY VisitedIs DEF Contents, ItemsOf

\* A function on 1 .. n into a set is a sequence; equal ones have equal elements.
LEMMA SameItems ==
    ASSUME NEW l, NEW s, Ring(l, s), NEW t \in Seq(Things), Len(t) = l.len,
           \A i \in 1 .. l.len : l.data[s[i]] = t[i]
    PROVE  ItemsOf(l, s) = t
<1>1. /\ ItemsOf(l, s) \in Seq(Things) /\ Len(ItemsOf(l, s)) = l.len
      /\ \A i \in 1 .. l.len : ItemsOf(l, s)[i] = l.data[s[i]]
  BY ItemsAre
<1>2. Len(ItemsOf(l, s)) = Len(t) /\ \A i \in 1 .. Len(ItemsOf(l, s)) : ItemsOf(l, s)[i] = t[i]
  BY <1>1
<1> HIDE DEF ItemsOf
<1> QED BY <1>1, <1>2, SeqEqual

LEMMA AddTailItems ==
    ASSUME NEW l, NEW s, Whole(l, s), Unused(l) # {}, NEW v \in Values,
           NEW m, m = listAddTail(l, v)
    PROVE  \E z : Whole(m, z) /\ ItemsOf(m, z) = Append(ItemsOf(l, s), v)
<1> PICK n : n = Min(Unused(l))
  OBVIOUS
<1> DEFINE z == Joined(s, l.len, n)
           t == Append(ItemsOf(l, s), v)
<1>1. /\ Whole(m, z) /\ m.len = l.len + 1 /\ n \in Nodes \ Range(s)
      /\ m.data = [l.data EXCEPT ![n] = v]
  BY AddTailIs
<1>2. /\ ItemsOf(l, s) \in Seq(Things) /\ Len(ItemsOf(l, s)) = l.len
      /\ \A i \in 1 .. l.len : ItemsOf(l, s)[i] = l.data[s[i]] /\ l.data[s[i]] \in Things
      /\ l.len \in Nat
  BY ItemsAre DEF Whole
<1>3. /\ l.data \in [Nodes -> Things] /\ \A i \in 1 .. l.len : s[i] \in Nodes /\ s[i] \in Range(s)
  BY RingFacts DEF Whole, Things
<1> HIDE DEF ItemsOf
<1>4. /\ t \in Seq(Things) /\ Len(t) = l.len + 1
      /\ \A i \in 1 .. l.len : t[i] = l.data[s[i]]
      /\ t[l.len + 1] = v
  <2>1. v \in Things
    BY DEF Things
  <2> QED BY <1>2, <2>1, AppendProperties
<1> HIDE DEF t
<1>5. z[l.len + 1] = n /\ \A i \in 1 .. l.len : z[i] = s[i]
  BY <1>2 DEF Joined
<1> HIDE DEF z
<1>6. ASSUME NEW i \in 1 .. m.len PROVE m.data[z[i]] = t[i]
  <2>1. CASE i = l.len + 1
    BY <1>1, <1>3, <1>4, <1>5, <2>1
  <2>2. CASE i # l.len + 1
    <3>1. i \in 1 .. l.len
      BY <1>1, <1>2, <2>2
    <3>2. z[i] = s[i] /\ s[i] # n /\ t[i] = l.data[s[i]]
      BY <1>1, <1>3, <1>4, <1>5, <3>1
    <3> QED BY <1>1, <1>3, <3>1, <3>2
  <2> QED BY <2>1, <2>2
<1>7. Ring(m, z)
  BY <1>1 DEF Whole
<1>8. ItemsOf(m, z) = t
  <2>1. t \in Seq(Things) /\ Len(t) = m.len
    BY <1>1, <1>4
  <2>2. \A i \in 1 .. m.len : m.data[z[i]] = t[i]
    BY <1>6
  <2> QED BY <1>7, <2>1, <2>2, SameItems
<1> QED BY <1>1, <1>8 DEF t

LEMMA AddHeadItems ==
    ASSUME NEW l, NEW s, Whole(l, s), Unused(l) # {}, NEW v \in Values,
           NEW m, m = listAddHead(l, v)
    PROVE  \E z : Whole(m, z) /\ ItemsOf(m, z) = <<v>> \o ItemsOf(l, s)
<1> PICK n : n = Min(Unused(l))
  OBVIOUS
<1> DEFINE z == Turned(Joined(s, l.len, n), l.len + 1)
           t == <<v>> \o ItemsOf(l, s)
<1>1. /\ Whole(m, z) /\ m.len = l.len + 1 /\ n \in Nodes \ Range(s)
      /\ m.data = [l.data EXCEPT ![n] = v]
  BY AddHeadIs
<1>2. /\ ItemsOf(l, s) \in Seq(Things) /\ Len(ItemsOf(l, s)) = l.len
      /\ \A i \in 1 .. l.len : ItemsOf(l, s)[i] = l.data[s[i]] /\ l.data[s[i]] \in Things
      /\ l.len \in Nat
  BY ItemsAre DEF Whole
<1>3. /\ l.data \in [Nodes -> Things] /\ \A i \in 1 .. l.len : s[i] \in Nodes /\ s[i] \in Range(s)
  BY RingFacts DEF Whole, Things
<1> HIDE DEF ItemsOf
<1>4. /\ t \in Seq(Things) /\ Len(t) = l.len + 1 /\ t[1] = v
      /\ \A i \in 2 .. l.len + 1 : t[i] = l.data[s[i - 1]]
  <2>1. v \in Things
    BY DEF Things
  <2>2. <<v>> \in Seq(Things) /\ Len(<<v>>) = 1 /\ <<v>>[1] = v
    BY <2>1
  <2>3. /\ t \in Seq(Things) /\ Len(t) = 1 + l.len
        /\ \A i \in 1 .. 1 + l.len : t[i] = IF i <= 1 THEN <<v>>[i] ELSE ItemsOf(l, s)[i - 1]
    BY <1>2, <2>2, ConcatProperties
  <2> HIDE DEF t
  <2>4. ASSUME NEW i \in 2 .. l.len + 1 PROVE t[i] = l.data[s[i - 1]]
    <3>1. i \in 1 .. 1 + l.len /\ ~(i <= 1) /\ i - 1 \in 1 .. l.len
      BY <1>2
    <3> QED BY <1>2, <2>3, <3>1
  <2> QED BY <1>2, <2>2, <2>3, <2>4
<1> HIDE DEF t
<1>5. z[1] = n /\ \A i \in 2 .. l.len + 1 : z[i] = s[i - 1]
  BY <1>2 DEF Joined, Turned
<1> HIDE DEF z
<1>6. ASSUME NEW i \in 1 .. m.len PROVE m.data[z[i]] = t[i]
  <2>1. CASE i = 1
    BY <1>1, <1>3, <1>4, <1>5, <2>1
  <2>2. CASE i # 1
    <3>1. i \in 2 .. l.len + 1 /\ i - 1 \in 1 .. l.len
      BY <1>1, <1>2, <2>2
    <3>2. z[i] = s[i - 1] /\ s[i - 1] # n /\ t[i] = l.data[s[i - 1]]
      BY <1>1, <1>3, <1>4, <1>5, <3>1
    <3> QED BY <1>1, <1>3, <3>1, <3>2
  <2> QED BY <2>1, <2>2
<1>7. Ring(m, z)
  BY <1>1 DEF Whole
<1>8. ItemsOf(m, z) = t
  <2>1. t \in Seq(Things) /\ Len(t) = m.len
    BY <1>1, <1>2, <1>4
  <2>2. \A i \in 1 .. m.len : m.data[z[i]] = t[i]
    BY <1>6
  <2> QED BY <1>7, <2>1, <2>2, SameItems
<1> QED BY <1>1, <1>8 DEF t

LEMMA RemoveHeadItems ==
    ASSUME NEW l, NEW s, Whole(l, s), l.len # 0, NEW m, m = Removed(l, l.root)
    PROVE  /\ \E z : Whole(m, z) /\ ItemsOf(m, z) = Tail(ItemsOf(l, s))
           /\ ItemsOf(l, s) # <<>> /\ l.data[l.root] = Head(ItemsOf(l, s))
<1> DEFINE z == Without(s, l.len, 1)
           t == ItemsOf(l, s)
<1>1. /\ Whole(m, z) /\ m.len = l.len - 1 /\ m.data = [l.data EXCEPT ![s[1]] = 0]
      /\ l.root = s[1] /\ 1 \in 1 .. l.len
  BY RemoveHeadIs
<1>2. /\ t \in Seq(Things) /\ Len(t) = l.len
      /\ \A i \in 1 .. l.len : t[i] = l.data[s[i]] /\ l.data[s[i]] \in Things
      /\ l.len \in Nat
  BY ItemsAre DEF Whole
<1>3. /\ l.data \in [Nodes -> Things] /\ \A i \in 1 .. l.len : s[i] \in Nodes
      /\ \A i, j \in 1 .. l.len : s[i] = s[j] => i = j
  BY RingFacts DEF Whole, Things
<1>4. \A i \in 1 .. l.len - 1 : z[i] = s[i + 1]
  BY <1>2 DEF Without
<1> HIDE DEF t, z
<1>5. t # <<>>
  BY <1>2
<1>6. /\ Tail(t) \in Seq(Things) /\ Len(Tail(t)) = l.len - 1
      /\ \A i \in 1 .. l.len - 1 : Tail(t)[i] = t[i + 1]
  BY <1>2, <1>5, HeadTailProperties
<1>7. ASSUME NEW i \in 1 .. m.len PROVE m.data[z[i]] = Tail(t)[i]
  <2>1. i \in 1 .. l.len - 1 /\ i + 1 \in 1 .. l.len /\ i + 1 # 1
    BY <1>1, <1>2
  <2>2. z[i] = s[i + 1] /\ s[i + 1] # s[1] /\ Tail(t)[i] = l.data[s[i + 1]]
    BY <1>1, <1>2, <1>3, <1>4, <1>6, <2>1
  <2> QED BY <1>1, <1>3, <2>1, <2>2
<1>8. Ring(m, z)
  BY <1>1 DEF Whole
<1>9. ItemsOf(m, z) = Tail(t)
  <2>1. Tail(t) \in Seq(Things) /\ Len(Tail(t)) = m.len
    BY <1>1, <1>6
  <2>2. \A i \in 1 .. m.len : m.data[z[i]] = Tail(t)[i]
    BY <1>7
  <2> QED BY <1>8, <2>1, <2>2, SameItems
<1>10. l.data[l.root] = Head(t)
  BY <1>1, <1>2
<1> QED BY <1>1, <1>5, <1>9, <1>10 DEF t

LEMMA RemoveTailItems ==
    ASSUME NEW l, NEW s, Whole(l, s), l.len # 0, NEW m, m = Removed(l, l.prev[l.root])
    PROVE  /\ \E z : Whole(m, z) /\ ItemsOf(m, z) = Front(ItemsOf(l, s))
           /\ ItemsOf(l, s) # <<>> /\ l.data[l.prev[l.root]] = Last(ItemsOf(l, s))
<1> DEFINE z == Without(s, l.len, l.len)
           t == ItemsOf(l, s)
<1>1. /\ Whole(m, z) /\ m.len = l.len - 1 /\ m.data = [l.data EXCEPT ![s[l.len]] = 0]
      /\ l.prev[l.root] = s[l.len] /\ l.len \in 1 .. l.len
  BY RemoveTailIs
<1>2. /\ t \in Seq(Things) /\ Len(t) = l.len
      /\ \A i \in 1 .. l.len : t[i] = l.data[s[i]] /\ l.data[s[i]] \in Things
      /\ l.len \in Nat
  BY ItemsAre DEF Whole
<1>3. /\ l.data \in [Nodes -> Things] /\ \A i \in 1 .. l.len : s[i] \in Nodes
      /\ \A i, j \in 1 .. l.len : s[i] = s[j] => i = j
  BY RingFacts DEF Whole, Things
<1>4. \A i \in 1 .. l.len - 1 : z[i] = s[i]
  BY <1>2 DEF Without
<1> HIDE DEF t, z
<1>5. t # <<>>
  BY <1>1, <1>2
<1>6. /\ Front(t) \in Seq(Things) /\ Len(Front(t)) = l.len - 1
      /\ \A i \in 1 .. l.len - 1 : Front(t)[i] = t[i]
  <2>1. \A i \in 1 .. l.len - 1 : t[i] \in Things
    BY <1>2
  <2>2. /\ SubSeq(t, 1, l.len - 1) \in Seq(Things)
        /\ Len(SubSeq(t, 1, l.len - 1)) = IF 1 <= l.len - 1 THEN (l.len - 1) - 1 + 1 ELSE 0
        /\ \A i \in 1 .. (l.len - 1) - 1 + 1 : SubSeq(t, 1, l.len - 1)[i] = t[1 + i - 1]
    BY <1>2, <2>1, SubSeqProperties
  <2> QED BY <1>1, <1>2, <2>2 DEF Front
<1>7. ASSUME NEW i \in 1 .. m.len PROVE m.data[z[i]] = Front(t)[i]
  <2>1. i \in 1 .. l.len - 1 /\ i \in 1 .. l.len /\ i # l.len
    BY <1>1, <1>2
  <2>2. z[i] = s[i] /\ s[i] # s[l.len] /\ Front(t)[i] = l.data[s[i]]
    BY <1>1, <1>2, <1>3, <1>4, <1>6, <2>1
  <2> QED BY <1>1, <1>3, <2>1, <2>2
<1>8. Ring(m, z)
  BY <1>1 DEF Whole
<1>9. ItemsOf(m, z) = Front(t)
  <2>1. Front(t) \in Seq(Things) /\ Len(Front(t)) = m.len
    BY <1>1, <1>6
  <2>2. \A i \in 1 .. m.len : m.data[z[i]] = Front(t)[i]
    BY <1>7
  <2> QED BY <1>8, <2>1, <2>2, SameItems
<1>10. l.data[l.prev[l.root]] = Last(t)
  BY <1>1, <1>2 DEF Last
<1> QED BY <1>1, <1>5, <1>9, <1>10 DEF t

-----------------------------------------------------------------------------
(* A list on the tail of a list.                                            *)

\* The ring t of x holds the first n of the values vs, beside the ring s of l.
Beside(l, s, vs, n, x, t) ==
    /\ Ring(x, t) /\ x.len = n /\ Range(t) \intersect Range(s) = {}
    /\ Unused(x) = Unused(l) \ Range(t)
    /\ \A i \in 1 .. l.len : /\ x.next[s[i]] = l.next[s[i]] /\ x.prev[s[i]] = l.prev[s[i]]
                             /\ x.data[s[i]] = l.data[s[i]]
    /\ \A i \in 1 .. n : x.data[t[i]] = vs[i]
    /\ Cardinality(Unused(x)) = Cardinality(Unused(l)) - n

LEMMA BesideFirst ==
    ASSUME NEW l, NEW s, Ring(l, s), NEW vs, NEW x, x = [l EXCEPT !.root = Nil, !.len = 0]
    PROVE  \E t : Beside(l, s, vs, 0, x, t)
<1> PICK t : t = [i \in 1 .. 0 |-> Nil]
  OBVIOUS
<1>1. l \in Lists
  BY DEF Ring
<1>2. /\ x \in Lists /\ x.root = Nil /\ x.len = 0
      /\ x.next = l.next /\ x.prev = l.prev /\ x.data = l.data
  BY <1>1 DEF Lists
<1>3. t \in [1 .. 0 -> Nodes] /\ IsInjective(t) /\ Range(t) = {}
  BY DEF IsInjective, Range
<1>4. Ring(x, t)
  BY <1>2, <1>3 DEF Ring
<1>5. Unused(x) = Unused(l) /\ IsFiniteSet(Unused(l))
  BY <1>2, FS_Subset, ListAssumption DEF Unused
<1>6. Cardinality(Unused(l)) \in Nat
  BY <1>5, FS_CardinalityType
<1>7. /\ Range(t) \intersect Range(s) = {} /\ Unused(x) = Unused(l) \ Range(t)
      /\ Cardinality(Unused(x)) = Cardinality(Unused(l)) - 0
  BY <1>3, <1>5, <1>6
<1>8. \A i \in 1 .. 0 : x.data[t[i]] = vs[i]
  OBVIOUS
<1> QED BY <1>2, <1>4, <1>7, <1>8 DEF Beside

LEMMA BesideNext ==
    ASSUME NEW l, NEW s, Ring(l, s), NEW vs \in Seq(Values),
           Len(vs) <= Cardinality(Unused(l)),
           NEW n \in 1 .. Len(vs), NEW x, NEW t, Beside(l, s, vs, n - 1, x, t),
           NEW m, m = listAddTail(x, vs[n])
    PROVE  \E z : Beside(l, s, vs, n, m, z)
<1> PICK k : k = Min(Unused(x))
  OBVIOUS
<1> PICK z : z = Joined(t, x.len, k)
  OBVIOUS
<1>1. /\ Ring(x, t) /\ x.len = n - 1 /\ Range(t) \intersect Range(s) = {}
      /\ Unused(x) = Unused(l) \ Range(t)
      /\ \A i \in 1 .. l.len : /\ x.next[s[i]] = l.next[s[i]] /\ x.prev[s[i]] = l.prev[s[i]]
                               /\ x.data[s[i]] = l.data[s[i]]
      /\ \A i \in 1 .. n - 1 : x.data[t[i]] = vs[i]
      /\ Cardinality(Unused(x)) = Cardinality(Unused(l)) - (n - 1)
  BY DEF Beside
<1>2. Len(vs) \in Nat /\ n \in Nat /\ vs[n] \in Values
  OBVIOUS
<1>3. IsFiniteSet(Unused(l)) /\ IsFiniteSet(Unused(x))
  BY FS_Subset, ListAssumption DEF Unused
<1>4. Cardinality(Unused(l)) \in Nat /\ Cardinality(Unused(x)) \in Nat
  BY <1>3, FS_CardinalityType
<1>5. Unused(x) # {}
  <2>1. Cardinality(Unused(x)) # 0
    BY <1>1, <1>2, <1>4
  <2> QED BY <2>1, FS_EmptySet
<1>6. k \in Unused(x) /\ k \in Unused(l) /\ m = Linked(x, k, vs[n])
  BY <1>1, <1>5, MinUnused DEF listAddTail
<1> PICK v \in Values : v = vs[n]
  BY <1>2
<1>7. Ring(x, t) /\ m = Linked(x, k, v) /\ k \in Nodes \ Range(t) /\ Unused(m) = Unused(x) \ {k}
  <2>1. Ring(x, t) /\ m = Linked(x, k, v) /\ k \in Unused(x)
    BY <1>1, <1>6
  <2> QED BY <2>1, LinkedUnused
<1>8. /\ Ring(m, z) /\ m.len = x.len + 1 /\ m.data = [x.data EXCEPT ![k] = vs[n]]
      /\ \A y \in Nodes \ (Range(t) \union {k}) : m.next[y] = x.next[y] /\ m.prev[y] = x.prev[y]
      /\ Range(z) = Range(t) \union {k}
  <2>1. /\ Ring(m, Joined(t, x.len, k)) /\ m.len = x.len + 1 /\ m.data = [x.data EXCEPT ![k] = v]
        /\ \A y \in Nodes \ (Range(t) \union {k}) : m.next[y] = x.next[y] /\ m.prev[y] = x.prev[y]
        /\ Range(Joined(t, x.len, k)) = Range(t) \union {k}
    BY <1>7, LinkedIs
  <2> QED BY <2>1
<1>9. k \notin Range(s)
  BY <1>6, UsedOnRing, RingFacts
<1>10. /\ x.data \in [Nodes -> Values \union {0}]
       /\ \A i \in 1 .. x.len : t[i] \in Range(t) /\ t[i] \in Nodes
  BY <1>1, RingFacts
<1>11. ASSUME NEW i \in 1 .. l.len
       PROVE  /\ m.next[s[i]] = l.next[s[i]] /\ m.prev[s[i]] = l.prev[s[i]]
              /\ m.data[s[i]] = l.data[s[i]]
  <2>1. s[i] \in Nodes /\ s[i] \in Range(s)
    BY RingFacts
  <2>2. s[i] \in Nodes \ (Range(t) \union {k})
    BY <1>1, <1>9, <2>1
  <2>3. m.data[s[i]] = x.data[s[i]]
    BY <1>8, <1>9, <1>10, <2>1
  <2> QED BY <1>1, <1>8, <2>2, <2>3
<1>12. ASSUME NEW i \in 1 .. n PROVE m.data[z[i]] = vs[i]
  <2>1. CASE i = n
    <3>1. z[i] = k
      BY <1>1, <1>2, <2>1 DEF Joined
    <3> QED BY <1>7, <1>8, <1>10, <2>1, <3>1
  <2>2. CASE i # n
    <3>1. i \in 1 .. n - 1 /\ i \in 1 .. x.len
      BY <1>1, <1>2, <2>2
    <3>2. z[i] = t[i] /\ t[i] # k
      BY <1>1, <1>2, <1>7, <1>10, <3>1 DEF Joined
    <3>3. m.data[t[i]] = x.data[t[i]]
      BY <1>8, <1>10, <3>1, <3>2
    <3> QED BY <1>1, <3>1, <3>2, <3>3
  <2> QED BY <2>1, <2>2
<1>13. Cardinality(Unused(m)) = Cardinality(Unused(l)) - n
  <2>1. Cardinality(Unused(m)) = Cardinality(Unused(x)) - 1
    BY <1>3, <1>6, <1>7, FS_RemoveElement
  <2> QED BY <1>1, <1>2, <1>4, <2>1
<1>14. /\ Unused(m) = Unused(l) \ Range(z) /\ Range(z) \intersect Range(s) = {} /\ m.len = n
  <2>1. m.len = n
    BY <1>1, <1>2, <1>8
  <2>2. Range(z) \intersect Range(s) = {}
    BY <1>1, <1>8, <1>9
  <2>3. Unused(m) = Unused(l) \ Range(z)
    BY <1>1, <1>7, <1>8
  <2> QED BY <2>1, <2>2, <2>3
<1> QED BY <1>8, <1>11, <1>12, <1>13, <1>14 DEF Beside

\* The list that is built before it is appended.
LEMMA BuiltIs ==
    ASSUME NEW l, NEW s, Ring(l, s), NEW vs \in Seq(Values),
           Len(vs) <= Cardinality(Unused(l)), NEW built,
           built = CHOOSE f : f = [i \in 0 .. Len(vs) |->
               IF i = 0 THEN [l EXCEPT !.root = Nil, !.len = 0] ELSE listAddTail(f[i - 1], vs[i])]
    PROVE  \E t : Beside(l, s, vs, Len(vs), built[Len(vs)], t)
<1> DEFINE N == Len(vs)
           a == [l EXCEPT !.root = Nil, !.len = 0]
           G == [p \in (1 .. N) \X Lists |-> listAddTail(p[2], vs[p[1]])]
           Sized(n) == {x \in Lists : \E t : Beside(l, s, vs, n, x, t)}
           S == {p \in (0 .. N) \X Lists : p[2] \in Sized(p[1])}
           step(f) == [i \in 0 .. N |-> IF i = 0 THEN a ELSE listAddTail(f[i - 1], vs[i])]
<1>1. N \in Nat
  OBVIOUS
<1>0. \A x, t, n : Beside(l, s, vs, n, x, t) => x \in Lists
  BY DEF Beside, Ring
<1>2. <<0, a>> \in S
  <2> PICK x : x = a
    OBVIOUS
  <2>1. \E t : Beside(l, s, vs, 0, x, t)
    BY BesideFirst
  <2>2. x \in Sized(0)
    BY <1>0, <2>1
  <2>3. x \in Lists
    BY <1>0, <2>1
  <2> HIDE DEF Sized, N
  <2> QED BY <1>1, <2>2, <2>3
<1>3. \A i \in 1 .. N : \A x : <<i - 1, x>> \in S =>
          <<i, listAddTail(x, vs[i])>> \in S /\ G[<<i, x>>] = listAddTail(x, vs[i])
  <2> SUFFICES ASSUME NEW i \in 1 .. N, NEW x, <<i - 1, x>> \in S
               PROVE  <<i, listAddTail(x, vs[i])>> \in S /\ G[<<i, x>>] = listAddTail(x, vs[i])
    OBVIOUS
  <2>0. x \in Lists /\ x \in Sized(i - 1)
    <3> HIDE DEF Sized
    <3> QED OBVIOUS
  <2>1. PICK t : Beside(l, s, vs, i - 1, x, t)
    BY <2>0
  <2> HIDE DEF S
  <2> PICK m : m = listAddTail(x, vs[i])
    OBVIOUS
  <2>2. \E z : Beside(l, s, vs, i, m, z)
    BY <2>1, BesideNext
  <2>3. m \in Sized(i) /\ m \in Lists
    BY <1>0, <2>2
  <2>4. <<i, m>> \in S
    <3> HIDE DEF Sized
    <3>1. i \in 0 .. N
      BY <1>1
    <3> QED BY <2>3, <3>1 DEF S
  <2>5. G[<<i, x>>] = listAddTail(x, vs[i])
    BY <2>0
  <2> HIDE DEF S, G
  <2> QED BY <2>4, <2>5
<1> HIDE DEF S, G, a, N
<1>4. PICK f : Repeats(f, N, a, G)
  BY <1>1, RepeatsExists
<1>5. \A i \in 0 .. N : <<i, f[i]>> \in S
  <2>1. \A i \in 1 .. N : \A x : <<i - 1, x>> \in S => <<i, G[<<i, x>>]>> \in S
    BY <1>3
  <2> QED BY <1>1, <1>2, <1>4, <2>1, RepeatsWithin
<1>6. f = step(f)
  <2>1. \A i \in 1 .. N : G[<<i, f[i - 1]>>] = listAddTail(f[i - 1], vs[i])
    <3> SUFFICES ASSUME NEW i \in 1 .. N PROVE G[<<i, f[i - 1]>>] = listAddTail(f[i - 1], vs[i])
      OBVIOUS
    <3>1. i - 1 \in 0 .. N
      BY <1>1
    <3> QED BY <1>3, <1>5, <3>1
  <2>2. f = [i \in 0 .. N |-> IF i = 0 THEN a ELSE G[<<i, f[i - 1]>>]]
    BY <1>4 DEF Repeats
  <2>3. \A i \in 0 .. N : i # 0 => i \in 1 .. N
    BY <1>1
  <2>4. \A i \in 0 .. N : (IF i = 0 THEN a ELSE G[<<i, f[i - 1]>>])
                              = IF i = 0 THEN a ELSE listAddTail(f[i - 1], vs[i])
    BY <2>1, <2>3, Zenon
  <2> QED BY ONLY <2>2, <2>4, Zenon
<1>7. built = step(built)
  <2>1. built = CHOOSE g : g = step(g)
    BY DEF N, a
  <2> HIDE DEF step
  <2> QED BY <1>6, <2>1
<1>8. built[0] = a /\ \A i \in 1 .. N : built[i] = listAddTail(built[i - 1], vs[i])
  <2>1. \A i \in 0 .. N : built[i] = IF i = 0 THEN a ELSE listAddTail(built[i - 1], vs[i])
    BY <1>7, Zenon
  <2> QED BY <1>1, <2>1
<1> DEFINE P == {i \in 0 .. N : <<i, built[i]>> \in S}
<1>9. 0 \in P
  BY <1>1, <1>2, <1>8
<1>10. ASSUME NEW i \in 1 .. N, i - 1 \in P PROVE i \in P
  <2>1. <<i - 1, built[i - 1]>> \in S
    BY <1>10
  <2>2. <<i, built[i]>> \in S
    BY <1>3, <1>8, <2>1
  <2> QED BY <2>2
<1> HIDE DEF P
<1>11. N \in P
  <2>1. \A i \in 0 .. N : i \in P
    BY <1>1, <1>9, <1>10, UpTo
  <2> QED BY ONLY <1>1, <2>1
<1>12. <<N, built[N]>> \in S
  BY <1>11 DEF P
<1>13. built[N] \in Sized(N)
  <2> HIDE DEF Sized
  <2> QED BY <1>12 DEF S
<1>14. \E t : Beside(l, s, vs, N, built[N], t)
  BY <1>13
<1> QED BY <1>14, Zenon DEF N

\* The nodes of a ring of N followed by those of one of K.
Chained(s, N, t, K) == [i \in 1 .. N + K |-> IF i <= N THEN s[i] ELSE t[i - N]]

ChainedLists(l, s, x, t, K) ==
    [root |-> s[1], len |-> l.len + K, data |-> x.data,
     prev |-> [x.prev EXCEPT ![t[1]] = s[l.len], ![s[1]] = t[K]],
     next |-> [x.next EXCEPT ![s[l.len]] = t[1], ![t[K]] = s[1]]]

LEMMA ChainedIs ==
    ASSUME NEW l, NEW s, Whole(l, s), l.len # 0,
           NEW vs, NEW K \in Nat \ {0}, NEW x, NEW t, Beside(l, s, vs, K, x, t),
           NEW m, m = ChainedLists(l, s, x, t, K)
    PROVE  Whole(m, Chained(s, l.len, t, K)) /\ m.len = l.len + K
<1> DEFINE N == l.len
           z == Chained(s, N, t, K)
<1>0. Ring(l, s) /\ Ring(x, t)
  BY DEF Whole, Beside
<1>1. /\ N \in Nat \ {0} /\ \A i \in 1 .. N : s[i] \in Nodes /\ s[i] \in Range(s)
      /\ \A i, j \in 1 .. N : s[i] = s[j] => i = j
      /\ DOMAIN s = 1 .. N
  BY <1>0, RingFacts
<1>2. /\ x.len = K /\ Range(t) \intersect Range(s) = {} /\ Unused(x) = Unused(l) \ Range(t)
      /\ \A i \in 1 .. N : x.next[s[i]] = l.next[s[i]] /\ x.prev[s[i]] = l.prev[s[i]]
  BY DEF Beside
<1>3. /\ \A i \in 1 .. K : t[i] \in Nodes /\ t[i] \in Range(t)
      /\ \A i, j \in 1 .. K : t[i] = t[j] => i = j
      /\ x.next \in Pointers /\ x.prev \in Pointers /\ DOMAIN t = 1 .. K
      /\ x.data \in [Nodes -> Values \union {0}]
  BY <1>0, <1>2, RingFacts
<1>4. \A i \in 1 .. N : /\ x.next[s[i]] = s[IF i = N THEN 1 ELSE i + 1]
                        /\ x.prev[s[i]] = s[IF i = 1 THEN N ELSE i - 1]
  <2>1. \A i \in 1 .. N : /\ l.next[s[i]] = s[IF i = N THEN 1 ELSE i + 1]
                          /\ l.prev[s[i]] = s[IF i = 1 THEN N ELSE i - 1]
    BY <1>0 DEF Ring
  <2> QED BY <1>2, <2>1
<1>5. \A i \in 1 .. K : /\ x.next[t[i]] = t[IF i = K THEN 1 ELSE i + 1]
                        /\ x.prev[t[i]] = t[IF i = 1 THEN K ELSE i - 1]
  BY <1>0, <1>2 DEF Ring
<1>6. \A i \in 1 .. N : \A j \in 1 .. K : s[i] # t[j]
  BY <1>1, <1>2, <1>3
<1> HIDE DEF N, z
<1>7. 1 \in 1 .. N /\ N \in 1 .. N /\ 1 \in 1 .. K /\ K \in 1 .. K
  BY <1>1
<1>8. /\ m.root = s[1] /\ m.len = N + K
      /\ m.prev = [x.prev EXCEPT ![t[1]] = s[N], ![s[1]] = t[K]]
      /\ m.next = [x.next EXCEPT ![s[N]] = t[1], ![t[K]] = s[1]]
      /\ m \in Lists
  <2>1. /\ [x.prev EXCEPT ![t[1]] = s[N], ![s[1]] = t[K]] \in Pointers
        /\ [x.next EXCEPT ![s[N]] = t[1], ![t[K]] = s[1]] \in Pointers
    BY <1>1, <1>3, <1>7 DEF Pointers
  <2>2. N + K \in Nat /\ s[1] \in Nodes
    BY <1>1, <1>7
  <2> QED BY <1>3, <2>1, <2>2 DEF Lists, N, ChainedLists
<1>9. /\ m.next[s[N]] = t[1] /\ m.next[t[K]] = s[1]
      /\ m.prev[t[1]] = s[N] /\ m.prev[s[1]] = t[K]
      /\ \A i \in 1 .. N : i # N => m.next[s[i]] = x.next[s[i]]
      /\ \A i \in 1 .. N : i # 1 => m.prev[s[i]] = x.prev[s[i]]
      /\ \A i \in 1 .. K : i # K => m.next[t[i]] = x.next[t[i]]
      /\ \A i \in 1 .. K : i # 1 => m.prev[t[i]] = x.prev[t[i]]
  <2>1. m.next[s[N]] = t[1] /\ m.next[t[K]] = s[1] /\ m.prev[t[1]] = s[N] /\ m.prev[s[1]] = t[K]
    BY <1>1, <1>3, <1>6, <1>7, <1>8 DEF Pointers
  <2>2. ASSUME NEW i \in 1 .. N PROVE i # N => m.next[s[i]] = x.next[s[i]]
    BY <1>1, <1>3, <1>6, <1>7, <1>8 DEF Pointers
  <2>3. ASSUME NEW i \in 1 .. N PROVE i # 1 => m.prev[s[i]] = x.prev[s[i]]
    BY <1>1, <1>3, <1>6, <1>7, <1>8 DEF Pointers
  <2>4. ASSUME NEW i \in 1 .. K PROVE i # K => m.next[t[i]] = x.next[t[i]]
    BY <1>1, <1>3, <1>6, <1>7, <1>8 DEF Pointers
  <2>5. ASSUME NEW i \in 1 .. K PROVE i # 1 => m.prev[t[i]] = x.prev[t[i]]
    BY <1>1, <1>3, <1>6, <1>7, <1>8 DEF Pointers
  <2> QED BY <2>1, <2>2, <2>3, <2>4, <2>5
<1>10. /\ DOMAIN z = 1 .. N + K /\ \A i \in 1 .. N : z[i] = s[i]
       /\ \A i \in 1 .. N + K : i > N => i - N \in 1 .. K /\ z[i] = t[i - N]
       /\ z \in [1 .. N + K -> Nodes]
  BY <1>1, <1>3 DEF z, Chained
<1>11. IsInjective(z)
  <2>1. ASSUME NEW i \in 1 .. N + K, NEW j \in 1 .. N + K, z[i] = z[j] PROVE i = j
    <3>1. CASE i <= N /\ j <= N
      <4>1. i \in 1 .. N /\ j \in 1 .. N
        BY <1>1, <3>1
      <4> QED BY <1>1, <1>10, <2>1, <4>1
    <3>2. CASE i <= N /\ ~(j <= N)
      <4>1. i \in 1 .. N /\ j - N \in 1 .. K /\ z[j] = t[j - N]
        BY <1>1, <1>10, <3>2
      <4> QED BY <1>6, <1>10, <2>1, <4>1
    <3>3. CASE ~(i <= N) /\ j <= N
      <4>1. j \in 1 .. N /\ i - N \in 1 .. K /\ z[i] = t[i - N]
        BY <1>1, <1>10, <3>3
      <4> QED BY <1>6, <1>10, <2>1, <4>1
    <3>4. CASE ~(i <= N) /\ ~(j <= N)
      <4>1. i - N \in 1 .. K /\ z[i] = t[i - N] /\ j - N \in 1 .. K /\ z[j] = t[j - N]
        BY <1>1, <1>10, <3>4
      <4>2. i - N = j - N
        BY <1>3, <2>1, <4>1
      <4> QED BY <1>1, <4>2
    <3> QED BY <3>1, <3>2, <3>3, <3>4
  <2> QED BY <1>10, <2>1 DEF IsInjective
<1>12. ASSUME NEW i \in 1 .. N + K PROVE m.next[z[i]] = z[IF i = N + K THEN 1 ELSE i + 1]
  <2>1. CASE i < N
    <3>1. i \in 1 .. N /\ i # N /\ i + 1 \in 1 .. N /\ i # N + K
      BY <1>1, <2>1
    <3> QED BY <1>4, <1>9, <1>10, <3>1
  <2>2. CASE i = N
    <3>1. N + 1 \in 1 .. N + K /\ N + 1 > N /\ (N + 1) - N = 1 /\ N # N + K
      BY <1>1
    <3>2. z[N + 1] = t[1]
      BY <1>10, <3>1
    <3> QED BY <1>7, <1>9, <1>10, <2>2, <3>1, <3>2
  <2>3. CASE N < i /\ i # N + K
    <3>1. i - N \in 1 .. K /\ i - N # K /\ i + 1 \in 1 .. N + K /\ i + 1 > N /\ (i + 1) - N = (i - N) + 1
      BY <1>1, <2>3
    <3>2. z[i] = t[i - N] /\ z[i + 1] = t[(i - N) + 1]
      BY <1>1, <1>10, <2>3, <3>1
    <3>3. m.next[t[i - N]] = t[(i - N) + 1]
      BY <1>5, <1>9, <3>1
    <3> QED BY <2>3, <3>2, <3>3
  <2>4. CASE i = N + K
    <3>1. N + K > N /\ (N + K) - N = K /\ 1 \in 1 .. N
      BY <1>1
    <3> QED BY <1>9, <1>10, <2>4, <3>1
  <2> QED BY <1>1, <2>1, <2>2, <2>3, <2>4
<1>13. ASSUME NEW i \in 1 .. N + K PROVE m.prev[z[i]] = z[IF i = 1 THEN N + K ELSE i - 1]
  <2>1. CASE i = 1
    <3>1. N + K \in 1 .. N + K /\ N + K > N /\ (N + K) - N = K /\ 1 \in 1 .. N
      BY <1>1
    <3>2. z[N + K] = t[K] /\ z[1] = s[1]
      BY <1>10, <3>1
    <3> QED BY <1>9, <2>1, <3>2
  <2>2. CASE i # 1 /\ i <= N
    <3>1. i \in 1 .. N /\ i - 1 \in 1 .. N
      BY <1>1, <2>2
    <3> QED BY <1>4, <1>9, <1>10, <2>2, <3>1
  <2>3. CASE i = N + 1
    <3>1. i - N = 1 /\ i > N /\ i - 1 = N /\ i # 1
      BY <1>1, <2>3
    <3>2. z[i] = t[1] /\ z[N] = s[N]
      BY <1>7, <1>10, <3>1
    <3> QED BY <1>9, <3>1, <3>2
  <2>4. CASE i > N + 1
    <3>1. i - N \in 1 .. K /\ i - N # 1 /\ i > N /\ i - 1 \in 1 .. N + K /\ i - 1 > N /\ (i - 1) - N = (i - N) - 1 /\ i # 1
      BY <1>1, <2>4
    <3>2. z[i] = t[i - N] /\ z[i - 1] = t[(i - N) - 1]
      BY <1>1, <1>10, <3>1
    <3>3. m.prev[t[i - N]] = t[(i - N) - 1]
      BY <1>5, <1>9, <3>1
    <3> QED BY <3>1, <3>2, <3>3
  <2> QED BY <1>1, <2>1, <2>2, <2>3, <2>4
<1>14. Ring(m, z)
  <2>1. m.len # 0 /\ m.root = z[1]
    BY <1>1, <1>7, <1>8, <1>10
  <2>2. \A i \in 1 .. m.len : /\ m.next[z[i]] = z[IF i = m.len THEN 1 ELSE i + 1]
                              /\ m.prev[z[i]] = z[IF i = 1 THEN m.len ELSE i - 1]
    BY <1>8, <1>12, <1>13
  <2> QED BY <1>8, <1>10, <1>11, <2>1, <2>2 DEF Ring
<1>15. ASSUME NEW y \in Nodes PROVE y \in Range(z) <=> y \in Range(s) \union Range(t)
  <2>1. ASSUME NEW i \in 1 .. N + K PROVE z[i] \in Range(s) \union Range(t)
    <3>1. CASE i <= N
      <4>1. i \in 1 .. N
        BY <1>1, <3>1
      <4> QED BY <1>1, <1>10, <4>1
    <3>2. CASE ~(i <= N)
      <4>1. i - N \in 1 .. K /\ z[i] = t[i - N]
        BY <1>1, <1>10, <3>2
      <4> QED BY <1>3, <4>1
    <3> QED BY <3>1, <3>2
  <2>2. ASSUME NEW i \in 1 .. N PROVE s[i] \in Range(z)
    <3>1. i \in 1 .. N + K /\ z[i] = s[i]
      BY <1>1, <1>10
    <3> QED BY <1>10, <3>1 DEF Range
  <2>3. ASSUME NEW i \in 1 .. K PROVE t[i] \in Range(z)
    <3>1. N + i \in 1 .. N + K /\ N + i > N /\ (N + i) - N = i
      BY <1>1
    <3>2. z[N + i] = t[i]
      BY <1>10, <3>1
    <3> QED BY <1>10, <3>1, <3>2 DEF Range
  <2>4. /\ Range(z) = {z[i] : i \in 1 .. N + K} /\ Range(s) = {s[i] : i \in 1 .. N}
        /\ Range(t) = {t[i] : i \in 1 .. K}
    BY <1>1, <1>3, <1>10 DEF Range
  <2> QED BY <2>1, <2>2, <2>3, <2>4
<1>16. ASSUME NEW y \in Nodes PROVE y \in Unused(m) <=> y \notin Range(z)
  <2>1. CASE y \in Range(z)
    BY <1>14, <2>1, UsedOnRing, RingFacts
  <2>2. CASE y \notin Range(z)
    <3>1. y \notin Range(s) /\ y \notin Range(t)
      BY <1>15, <2>2
    <3>2. y # s[N] /\ y # t[K]
      BY <1>1, <1>3, <1>7, <3>1
    <3>3. m.next[y] = x.next[y]
      BY <1>3, <1>8, <3>2 DEF Pointers
    <3>4. y \in Unused(x)
      <4>1. y \in Unused(l)
        BY <3>1 DEF Whole
      <4> QED BY <1>2, <3>1, <4>1
    <3> QED BY <2>2, <3>3, <3>4 DEF Unused
  <2> QED BY <2>1, <2>2
<1>17. Unused(m) = Nodes \ Range(z)
  BY <1>16 DEF Unused
<1> QED BY <1>8, <1>14, <1>17 DEF Whole, z, N

\* listAppendListTail: the values come behind those of the list.
LEMMA AppendIs ==
    ASSUME NEW s, Whole(list, s), NEW vs \in Seq(Values),
           Len(vs) <= Cardinality(Unused(list))
    PROVE  \E z : /\ Whole(listAppendListTail(vs), z)
                  /\ ItemsOf(listAppendListTail(vs), z) = ItemsOf(list, s) \o vs
<1> PICK K : K = Len(vs)
  OBVIOUS
<1> PICK m : m = listAppendListTail(vs)
  OBVIOUS
<1> DEFINE joined(x) ==
        IF x.len = 0 THEN list
        ELSE IF list.len = 0 THEN x
        ELSE [root |-> list.root, len |-> list.len + x.len, data |-> x.data,
              prev |-> [x.prev EXCEPT ![x.root] = list.prev[list.root],
                                      ![list.root] = x.prev[x.root]],
              next |-> [x.next EXCEPT ![list.prev[list.root]] = x.root,
                                      ![x.prev[x.root]] = list.root]]
<1>1. \E aux : m = joined(aux) /\ \E t : Beside(list, s, vs, K, aux, t)
  <2> DEFINE built == CHOOSE f : f = [i \in 0 .. Len(vs) |->
                       IF i = 0 THEN [list EXCEPT !.root = Nil, !.len = 0]
                       ELSE listAddTail(f[i - 1], vs[i])]
  <2>1. m = joined(built[Len(vs)])
    <3>1. listAppendListTail(vs) = joined(built[Len(vs)])
      BY ONLY Zenon DEF listAppendListTail
    <3> HIDE DEF joined, built
    <3> QED BY ONLY m = listAppendListTail(vs), <3>1
  <2>2. \E t : Beside(list, s, vs, Len(vs), built[Len(vs)], t)
    BY BuiltIs DEF Whole
  <2> HIDE DEF joined, built
  <2> QED BY <2>1, <2>2, Zenon
<1> HIDE DEF joined
<1> PICK aux : m = joined(aux) /\ \E t : Beside(list, s, vs, K, aux, t)
  BY <1>1
<1>2. PICK t : Beside(list, s, vs, K, aux, t)
  OBVIOUS
<1>3. /\ Ring(aux, t) /\ aux.len = K /\ Unused(aux) = Unused(list) \ Range(t)
      /\ Range(t) \intersect Range(s) = {}
      /\ \A i \in 1 .. list.len : aux.data[s[i]] = list.data[s[i]]
      /\ \A i \in 1 .. K : aux.data[t[i]] = vs[i]
  BY <1>2 DEF Beside
<1>4. /\ ItemsOf(list, s) \in Seq(Things) /\ Len(ItemsOf(list, s)) = list.len
      /\ \A i \in 1 .. list.len : ItemsOf(list, s)[i] = list.data[s[i]]
      /\ list.len \in Nat /\ Ring(list, s)
  BY ItemsAre DEF Whole
<1>5. vs \in Seq(Things) /\ K \in Nat
  BY DEF Things
<1> HIDE DEF ItemsOf
<1>6. CASE K = 0
  <2>1. vs = <<>>
    BY <1>6, EmptySeq
  <2>2. ItemsOf(list, s) \o vs = ItemsOf(list, s)
    BY <1>4, <2>1, ConcatEmptySeq
  <2>3. m = list
    BY <1>3, <1>6 DEF joined
  <2> QED BY <2>2, <2>3
<1>7. CASE K # 0 /\ list.len = 0
  <2>1. m = aux
    BY <1>3, <1>7 DEF joined
  <2>2. Range(s) = {}
    BY <1>4, <1>7, RingFacts
  <2>3. Whole(aux, t)
    BY <1>3, <2>2 DEF Whole
  <2>4. Len(vs) = aux.len /\ \A i \in 1 .. aux.len : aux.data[t[i]] = vs[i]
    BY <1>3
  <2>5. ItemsOf(aux, t) = vs
    BY <1>3, <1>5, <2>4, SameItems
  <2>6. ItemsOf(list, s) = <<>>
    BY <1>4, <1>7
  <2>7. ItemsOf(list, s) \o vs = vs
    BY <1>5, <2>6, ConcatEmptySeq
  <2> QED BY <2>1, <2>3, <2>5, <2>7
<1>8. CASE K # 0 /\ list.len # 0
  <2> PICK z : z = Chained(s, list.len, t, K)
    OBVIOUS
  <2>1. list.root = s[1] /\ list.prev[s[1]] = s[list.len]
    <3>1. 1 \in 1 .. list.len
      BY <1>4, <1>8
    <3> QED BY <1>4, <1>8, <3>1 DEF Ring
  <2>2. aux.root = t[1] /\ aux.prev[t[1]] = t[K]
    <3>1. 1 \in 1 .. aux.len
      BY <1>3, <1>5, <1>8
    <3> QED BY <1>3, <1>8, <3>1 DEF Ring
  <2>3. m = ChainedLists(list, s, aux, t, K)
    BY <1>3, <1>8, <2>1, <2>2 DEF joined, ChainedLists
  <2>4. Whole(m, z) /\ m.len = list.len + K
    <3>1. K \in Nat \ {0}
      BY <1>5, <1>8
    <3>2. Whole(m, Chained(s, list.len, t, K)) /\ m.len = list.len + K
      BY <1>2, <1>8, <2>3, <3>1, ChainedIs
    <3> QED BY <3>2
  <2>5. m.data = aux.data
    BY <2>3 DEF ChainedLists
  <2> PICK all : all = ItemsOf(list, s) \o vs
    OBVIOUS
  <2>6. /\ all \in Seq(Things) /\ Len(all) = list.len + K
        /\ \A i \in 1 .. list.len + K :
               all[i] = IF i <= list.len THEN ItemsOf(list, s)[i] ELSE vs[i - list.len]
    <3>1. /\ all \in Seq(Things) /\ Len(all) = Len(ItemsOf(list, s)) + Len(vs)
          /\ \A i \in 1 .. Len(ItemsOf(list, s)) + Len(vs) : all[i] =
                 IF i <= Len(ItemsOf(list, s)) THEN ItemsOf(list, s)[i] ELSE vs[i - Len(ItemsOf(list, s))]
      BY <1>4, <1>5, ConcatProperties
    <3> QED BY <1>4, <3>1
  <2>7. ASSUME NEW i \in 1 .. m.len PROVE m.data[z[i]] = all[i]
    <3>1. CASE i <= list.len
      <4>1. i \in 1 .. list.len /\ z[i] = s[i]
        BY <1>4, <1>5, <2>4, <3>1 DEF Chained
      <4> QED BY <1>3, <1>4, <2>4, <2>5, <2>6, <3>1, <4>1
    <3>2. CASE ~(i <= list.len)
      <4>1. i - list.len \in 1 .. K /\ z[i] = t[i - list.len]
        BY <1>4, <1>5, <2>4, <3>2 DEF Chained
      <4> QED BY <1>3, <2>4, <2>5, <2>6, <3>2, <4>1
    <3> QED BY <3>1, <3>2
  <2>8. Ring(m, z) /\ Len(all) = m.len
    BY <2>4, <2>6 DEF Whole
  <2>9. \A i \in 1 .. m.len : m.data[z[i]] = all[i]
    BY <2>7
  <2>10. ItemsOf(m, z) = all
    BY <2>6, <2>8, <2>9, SameItems
  <2> QED BY <2>4, <2>10
<1> QED BY <1>6, <1>7, <1>8

-----------------------------------------------------------------------------
(* Rearranging.                                                             *)

Datas == [Nodes -> Things]
Span(s, a, b) == {s[i] : i \in a .. b}

\* f moves nodes of S only, and never two of them to one place.
Permutes(f, S) ==
    /\ f \in [Nodes -> Nodes]
    /\ \A m, n \in Nodes : f[m] = f[n] => m = n
    /\ \A n \in Nodes : \E m \in Nodes : f[m] = n
    /\ \A n \in Nodes \ S : f[n] = n

Moved(d, f) == [n \in Nodes |-> d[f[n]]]
Rearranged(d, e, S) == \E f : Permutes(f, S) /\ e = Moved(d, f)

LEMMA RearrangedSame ==
    ASSUME NEW d \in Datas, NEW S
    PROVE  Rearranged(d, d, S)
<1> PICK f : f = [n \in Nodes |-> n]
  OBVIOUS
<1>1. Permutes(f, S)
  BY DEF Permutes
<1>2. d = Moved(d, f)
  BY DEF Datas, Moved
<1> QED BY <1>1, <1>2 DEF Rearranged

LEMMA RearrangedTwice ==
    ASSUME NEW d, NEW e, NEW g, NEW S, Rearranged(d, e, S), Rearranged(e, g, S)
    PROVE  Rearranged(d, g, S)
<1> PICK f1 : Permutes(f1, S) /\ e = Moved(d, f1)
  BY DEF Rearranged
<1> PICK f2 : Permutes(f2, S) /\ g = Moved(e, f2)
  BY DEF Rearranged
<1> PICK f : f = [n \in Nodes |-> f1[f2[n]]]
  OBVIOUS
<1>1. f1 \in [Nodes -> Nodes] /\ f2 \in [Nodes -> Nodes]
  BY DEF Permutes
<1>2. Permutes(f, S)
  <2>1. f \in [Nodes -> Nodes] /\ \A n \in Nodes : f[n] = f1[f2[n]]
    BY <1>1
  <2>2. \A m, n \in Nodes : f[m] = f[n] => m = n
    BY <1>1, <2>1 DEF Permutes
  <2>3. ASSUME NEW n \in Nodes PROVE \E m \in Nodes : f[m] = n
    <3>1. PICK k \in Nodes : f1[k] = n
      BY DEF Permutes
    <3>2. PICK m \in Nodes : f2[m] = k
      BY DEF Permutes
    <3> QED BY <2>1, <3>1, <3>2
  <2>4. \A n \in Nodes \ S : f[n] = n
    BY <2>1 DEF Permutes
  <2> QED BY <2>1, <2>2, <2>3, <2>4 DEF Permutes
<1>3. g = Moved(d, f)
  <2>1. \A n \in Nodes : e[f2[n]] = d[f1[f2[n]]]
    BY <1>1 DEF Moved
  <2> QED BY <2>1 DEF Moved
<1>4. \E h : Permutes(h, S) /\ g = Moved(d, h)
  BY <1>2, <1>3, Zenon
<1> QED BY <1>4, Zenon DEF Rearranged

LEMMA RearrangedMore ==
    ASSUME NEW d, NEW e, NEW S, NEW T, S \subseteq T, Rearranged(d, e, S)
    PROVE  Rearranged(d, e, T)
BY DEF Rearranged, Permutes

LEMMA RearrangedFacts ==
    ASSUME NEW d \in Datas, NEW e, NEW S, Rearranged(d, e, S)
    PROVE  /\ e \in Datas /\ \A n \in Nodes \ S : e[n] = d[n]
           /\ \A n \in Nodes : n \in S => \E k \in Nodes : k \in S /\ e[n] = d[k]
<1> PICK f : Permutes(f, S) /\ e = Moved(d, f)
  BY DEF Rearranged
<1>1. f \in [Nodes -> Nodes] /\ d \in [Nodes -> Things]
  BY DEF Permutes, Datas
<1>2. e \in [Nodes -> Things] /\ \A n \in Nodes : e[n] = d[f[n]]
  BY <1>1 DEF Moved
<1>3. \A n \in Nodes \ S : e[n] = d[n]
  BY <1>2 DEF Permutes
<1>4. ASSUME NEW n \in Nodes, n \in S PROVE f[n] \in S
  <2> SUFFICES ASSUME f[n] \notin S PROVE FALSE
    OBVIOUS
  <2>1. f[n] \in Nodes /\ f[f[n]] = f[n]
    BY <1>1 DEF Permutes
  <2>2. f[n] = n
    BY <2>1 DEF Permutes
  <2> QED BY <1>4, <2>2
<1> QED BY <1>1, <1>2, <1>3, <1>4 DEF Datas

LEMMA SwappedIs ==
    ASSUME NEW d \in Datas, NEW i \in Nodes, NEW j \in Nodes, NEW S, i \in S, j \in S,
           NEW e, e = Swapped(d, i, j)
    PROVE  /\ e \in Datas /\ e[i] = d[j] /\ e[j] = d[i]
           /\ \A n \in Nodes : n # i /\ n # j => e[n] = d[n]
           /\ Rearranged(d, e, S)
<1>1. /\ e \in Datas /\ e[i] = d[j] /\ e[j] = d[i]
      /\ \A n \in Nodes : n # i /\ n # j => e[n] = d[n]
  BY DEF Swapped, Datas
<1>2. Rearranged(d, e, S)
  <2> PICK f : f = [n \in Nodes |-> IF n = i THEN j ELSE IF n = j THEN i ELSE n]
    OBVIOUS
  <2>1. Permutes(f, S)
    <3>1. f \in [Nodes -> Nodes] /\ \A n \in Nodes \ S : f[n] = n
      OBVIOUS
    <3>2. \A m, n \in Nodes : f[m] = f[n] => m = n
      OBVIOUS
    <3>3. \A n \in Nodes : f[n] \in Nodes /\ f[f[n]] = n
      OBVIOUS
    <3> QED BY <3>1, <3>2, <3>3 DEF Permutes
  <2>2. \A n \in Nodes : e[n] = d[f[n]]
    BY <1>1
  <2>3. e = [n \in Nodes |-> e[n]]
    BY <1>1 DEF Datas
  <2>4. e = Moved(d, f)
    BY <2>2, <2>3 DEF Moved
  <2> QED BY <2>1, <2>4 DEF Rearranged
<1> QED BY <1>1, <1>2

-----------------------------------------------------------------------------
(* One partition of the quicksort.                                          *)

\* The node before the c-th, which for the first is the last.
Before(s, N, c) == IF c = 0 THEN s[N] ELSE s[c]

\* When the loop of listQSortPivot has looked at n nodes, those from the a-th to the
\* c-th hold what is no greater than the pivot v, and the rest of them what is.
Parted(l, s, d, a, b, leq, n, x, c) ==
    /\ x.i = Before(s, l.len, c) /\ Rearranged(d, x.data, Span(s, a, b - 1))
    /\ \A k \in a .. c : <<x.data[s[k]], d[s[b]]>> \in leq
    /\ \A k \in c + 1 .. a + n - 1 : <<x.data[s[k]], d[s[b]]>> \notin leq

Splits == [data : Datas, i : Nodes]

LEMMA SpanFacts ==
    ASSUME NEW l, NEW s, Ring(l, s), NEW a \in 1 .. l.len, NEW b \in 1 .. l.len
    PROVE  /\ \A k \in 1 .. l.len : s[k] \in Span(s, a, b) <=> k \in a .. b
           /\ \A n \in Span(s, a, b) : \E k \in a .. b : n = s[k]
           /\ Span(s, a, b) \subseteq Nodes
<1>1. /\ l.len \in Nat /\ \A i, j \in 1 .. l.len : s[i] = s[j] => i = j
      /\ \A i \in 1 .. l.len : s[i] \in Nodes
  BY RingFacts
<1>2. a .. b \subseteq 1 .. l.len
  BY <1>1
<1> QED BY <1>1, <1>2 DEF Span

LEMMA PartedFirst ==
    ASSUME NEW l, NEW s, Ring(l, s), NEW d \in Datas, NEW leq,
           NEW a \in 1 .. l.len, NEW b \in 1 .. l.len, a < b,
           NEW x, x = [data |-> d, i |-> l.prev[s[a]]]
    PROVE  x \in Splits /\ \E c \in a - 1 .. a - 1 : Parted(l, s, d, a, b, leq, 0, x, c)
<1>1. l.len \in Nat /\ \A i \in 1 .. l.len : s[i] \in Nodes
  BY RingFacts
<1>2. l.prev[s[a]] = s[IF a = 1 THEN l.len ELSE a - 1]
  BY DEF Ring
<1>3. (IF a = 1 THEN l.len ELSE a - 1) \in 1 .. l.len
  BY <1>1
<1>4. x.i = Before(s, l.len, a - 1) /\ x.i \in Nodes
  BY <1>1, <1>2, <1>3 DEF Before
<1>5. x.data = d /\ Rearranged(d, x.data, Span(s, a, b - 1))
  BY RearrangedSame
<1>6. Parted(l, s, d, a, b, leq, 0, x, a - 1)
  BY <1>1, <1>4, <1>5 DEF Parted
<1>7. x \in Splits
  BY <1>4, <1>5 DEF Splits
<1> QED BY <1>1, <1>6, <1>7

LEMMA PartedNext ==
    ASSUME NEW l, NEW s, Ring(l, s), NEW d \in Datas, NEW leq,
           NEW a \in 1 .. l.len, NEW b \in 1 .. l.len, a < b,
           NEW n \in 1 .. b - a, NEW x \in Splits, NEW c \in a - 1 .. a + n - 2,
           Parted(l, s, d, a, b, leq, n - 1, x, c),
           NEW k, k = a + n - 1, NEW y,
           y = IF <<x.data[s[k]], d[s[b]]>> \in leq
               THEN [data |-> Swapped(x.data, l.next[x.i], s[k]), i |-> l.next[x.i]]
               ELSE x
    PROVE  y \in Splits /\ \E e \in a - 1 .. a + n - 1 : Parted(l, s, d, a, b, leq, n, y, e)
<1>1. /\ l.len \in Nat /\ \A i \in 1 .. l.len : s[i] \in Nodes
      /\ \A i, j \in 1 .. l.len : s[i] = s[j] => i = j
  BY RingFacts
<1>2. a \in Int /\ b \in Int /\ n \in Int /\ c \in Int /\ k \in Int
  BY <1>1
<1>3. /\ k \in 1 .. l.len /\ k \in a .. b - 1 /\ c + 1 \in a .. k /\ c + 1 \in 1 .. l.len
      /\ b - 1 \in 1 .. l.len
  BY <1>1, <1>2
<1>4. /\ x.i = Before(s, l.len, c) /\ Rearranged(d, x.data, Span(s, a, b - 1))
      /\ \A j \in a .. c : <<x.data[s[j]], d[s[b]]>> \in leq
      /\ \A j \in c + 1 .. k - 1 : <<x.data[s[j]], d[s[b]]>> \notin leq
  <2>1. a + (n - 1) - 1 = k - 1
    BY <1>2
  <2> QED BY <2>1 DEF Parted
<1>5. x.data \in Datas /\ x.i \in Nodes
  BY DEF Splits
<1>6. CASE <<x.data[s[k]], d[s[b]]>> \in leq
  <2>1. l.next[x.i] = s[c + 1]
    <3>1. CASE c = 0
      <4>1. l.len \in 1 .. l.len
        BY ONLY <1>1, <1>3
      <4>2. l.next[s[l.len]] = s[1]
        BY ONLY <4>1, Ring(l, s) DEF Ring
      <4> QED BY ONLY <1>4, <3>1, <4>2 DEF Before
    <3>2. CASE c # 0
      <4>1. c \in 1 .. l.len /\ c # l.len
        BY <1>1, <1>2, <1>3, <3>2
      <4>2. l.next[s[c]] = s[c + 1]
        BY <4>1 DEF Ring
      <4> QED BY <1>4, <3>2, <4>2 DEF Before
    <3> QED BY <3>1, <3>2
  <2> PICK e : e = Swapped(x.data, s[c + 1], s[k])
    OBVIOUS
  <2>2. y.data = e /\ y.i = s[c + 1] /\ y = [data |-> e, i |-> s[c + 1]]
    BY <1>6, <2>1
  <2>3. /\ e \in Datas /\ e[s[c + 1]] = x.data[s[k]] /\ e[s[k]] = x.data[s[c + 1]]
        /\ \A j \in 1 .. l.len : j # c + 1 /\ j # k => e[s[j]] = x.data[s[j]]
        /\ Rearranged(x.data, e, Span(s, a, b - 1))
    <3>1. s[c + 1] \in Nodes /\ s[k] \in Nodes
      BY <1>1, <1>3
    <3>2. s[c + 1] \in Span(s, a, b - 1) /\ s[k] \in Span(s, a, b - 1)
      BY <1>2, <1>3 DEF Span
    <3>3. /\ e \in Datas /\ e[s[c + 1]] = x.data[s[k]] /\ e[s[k]] = x.data[s[c + 1]]
          /\ \A m \in Nodes : m # s[c + 1] /\ m # s[k] => e[m] = x.data[m]
          /\ Rearranged(x.data, e, Span(s, a, b - 1))
      <4> PICK f : f = x.data
        OBVIOUS
      <4> PICK i : i = s[c + 1]
        OBVIOUS
      <4> PICK j : j = s[k]
        OBVIOUS
      <4>1. f \in Datas /\ i \in Nodes /\ j \in Nodes /\ e = Swapped(f, i, j)
        BY <1>5, <3>1
      <4> PICK S : S = Span(s, a, b - 1)
        OBVIOUS
      <4>2. i \in S /\ j \in S
        BY <3>2
      <4>3. /\ e \in Datas /\ e[i] = f[j] /\ e[j] = f[i]
            /\ \A m \in Nodes : m # i /\ m # j => e[m] = f[m]
            /\ Rearranged(f, e, S)
        BY ONLY <4>1, <4>2, SwappedIs
      <4> QED BY <4>3
    <3> QED BY <1>1, <1>3, <3>3
  <2>4. Rearranged(d, e, Span(s, a, b - 1))
    BY <1>4, <2>3, RearrangedTwice
  <2>5. \A j \in a .. c + 1 : <<e[s[j]], d[s[b]]>> \in leq
    <3> SUFFICES ASSUME NEW j \in a .. c + 1 PROVE <<e[s[j]], d[s[b]]>> \in leq
      OBVIOUS
    <3>1. CASE j = c + 1
      BY <1>6, <2>3, <3>1
    <3>2. CASE j # c + 1
      <4>1. j \in a .. c /\ j \in 1 .. l.len /\ j # k
        BY <1>1, <1>2, <1>3, <3>2
      <4> QED BY <1>4, <2>3, <3>2, <4>1
    <3> QED BY <3>1, <3>2
  <2>6. \A j \in c + 2 .. k : <<e[s[j]], d[s[b]]>> \notin leq
    <3> SUFFICES ASSUME NEW j \in c + 2 .. k PROVE <<e[s[j]], d[s[b]]>> \notin leq
      OBVIOUS
    <3>1. CASE j = k
      <4>1. c + 1 \in c + 1 .. k - 1
        BY <1>2, <1>3, <3>1
      <4> QED BY <1>4, <2>3, <3>1, <4>1
    <3>2. CASE j # k
      <4>1. j \in c + 1 .. k - 1 /\ j \in 1 .. l.len /\ j # c + 1
        BY <1>1, <1>2, <1>3, <3>2
      <4> QED BY <1>4, <2>3, <3>2, <4>1
    <3> QED BY <3>1, <3>2
  <2>7. Parted(l, s, d, a, b, leq, n, y, c + 1)
    <3>1. y.i = Before(s, l.len, c + 1)
      BY <1>2, <1>3, <2>2 DEF Before
    <3>2. a + n - 1 = k /\ (c + 1) + 1 = c + 2
      BY <1>2
    <3> QED BY <2>2, <2>4, <2>5, <2>6, <3>1, <3>2 DEF Parted
  <2>8. c + 1 \in a - 1 .. a + n - 1
    BY <1>2, <1>3
  <2>9. y \in Splits
    BY <1>1, <1>3, <2>2, <2>3 DEF Splits
  <2> QED BY <2>7, <2>8, <2>9
<1>7. CASE <<x.data[s[k]], d[s[b]]>> \notin leq
  <2>1. y = x
    BY <1>7
  <2>2. \A j \in c + 1 .. k : <<x.data[s[j]], d[s[b]]>> \notin leq
    <3> SUFFICES ASSUME NEW j \in c + 1 .. k PROVE <<x.data[s[j]], d[s[b]]>> \notin leq
      OBVIOUS
    <3>1. CASE j = k
      BY <1>7, <3>1
    <3>2. CASE j # k
      <4>1. j \in c + 1 .. k - 1
        BY <1>2, <3>2
      <4> QED BY <1>4, <4>1
    <3> QED BY <3>1, <3>2
  <2>3. a + n - 1 = k /\ c \in a - 1 .. a + n - 1
    BY <1>2
  <2>4. Parted(l, s, d, a, b, leq, n, y, c)
    BY <1>4, <2>1, <2>2, <2>3 DEF Parted
  <2> QED BY <2>1, <2>3, <2>4
<1> QED BY <1>6, <1>7

\* listQSortPivot divides the part at the node it returns.
Divided(s, d, e, a, b, p, leq) ==
    /\ e \in Datas /\ Rearranged(d, e, Span(s, a, b))
    /\ \A k \in a .. p - 1 : <<e[s[k]], e[s[p]]>> \in leq
    /\ \A k \in p + 1 .. b : <<e[s[k]], e[s[p]]>> \notin leq

\* After the last swap the pivot, at the p-th node, divides the part.
LEMMA PartedLast ==
    ASSUME NEW l, NEW s, Ring(l, s), NEW d \in Datas, NEW leq,
           NEW a \in 1 .. l.len, NEW b \in 1 .. l.len, a < b,
           NEW x \in Splits, NEW c \in a - 1 .. b - 1,
           Parted(l, s, d, a, b, leq, b - a, x, c),
           NEW e, e = Swapped(x.data, l.next[x.i], s[b])
    PROVE  \E p \in a .. b : l.next[x.i] = s[p] /\ Divided(s, d, e, a, b, p, leq)
<1>1. /\ l.len \in Nat /\ \A i \in 1 .. l.len : s[i] \in Nodes
      /\ \A i, j \in 1 .. l.len : s[i] = s[j] => i = j
  BY RingFacts
<1>2. a \in Int /\ b \in Int /\ c \in Int
  BY <1>1
<1>3. /\ c + 1 \in a .. b /\ c + 1 \in 1 .. l.len /\ b - 1 \in 1 .. l.len
  BY <1>1, <1>2
<1>4. /\ x.i = Before(s, l.len, c) /\ Rearranged(d, x.data, Span(s, a, b - 1))
      /\ \A j \in a .. c : <<x.data[s[j]], d[s[b]]>> \in leq
      /\ \A j \in c + 1 .. b - 1 : <<x.data[s[j]], d[s[b]]>> \notin leq
  <2>1. a + (b - a) - 1 = b - 1
    BY <1>2
  <2> QED BY <2>1 DEF Parted
<1>5. x.data \in Datas /\ x.i \in Nodes
  BY DEF Splits
<1>6. l.next[x.i] = s[c + 1]
  <2>1. CASE c = 0
    <3>1. l.len \in 1 .. l.len /\ l.next[s[l.len]] = s[1]
      BY <1>1, <1>3 DEF Ring
    <3> QED BY <1>4, <2>1, <3>1 DEF Before
  <2>2. CASE c # 0
    <3>1. c \in 1 .. l.len /\ c # l.len
      BY <1>1, <1>2, <1>3, <2>2
    <3>2. l.next[s[c]] = s[c + 1]
      BY <3>1 DEF Ring
    <3> QED BY <1>4, <2>2, <3>2 DEF Before
  <2> QED BY <2>1, <2>2
<1>7. x.data[s[b]] = d[s[b]]
  <2>1. s[b] \in Nodes /\ s[b] \notin Span(s, a, b - 1)
    <3>1. b \notin a .. b - 1
      BY <1>2
    <3> QED BY <1>1, <1>3, <3>1, SpanFacts
  <2> QED BY <1>4, <2>1, RearrangedFacts
<1>8. /\ e \in Datas /\ e[s[c + 1]] = d[s[b]] /\ e[s[b]] = x.data[s[c + 1]]
      /\ \A j \in 1 .. l.len : j # c + 1 /\ j # b => e[s[j]] = x.data[s[j]]
      /\ Rearranged(x.data, e, Span(s, a, b))
  <2>1. s[c + 1] \in Nodes /\ s[b] \in Nodes
    BY <1>1, <1>3
  <2>2. s[c + 1] \in Span(s, a, b) /\ s[b] \in Span(s, a, b)
    BY <1>2, <1>3 DEF Span
  <2>3. e = Swapped(x.data, s[c + 1], s[b])
    BY <1>6
  <2>4. /\ e \in Datas /\ e[s[c + 1]] = x.data[s[b]] /\ e[s[b]] = x.data[s[c + 1]]
        /\ \A m \in Nodes : m # s[c + 1] /\ m # s[b] => e[m] = x.data[m]
        /\ Rearranged(x.data, e, Span(s, a, b))
    <3> PICK f : f = x.data
      OBVIOUS
    <3> PICK i : i = s[c + 1]
      OBVIOUS
    <3> PICK j : j = s[b]
      OBVIOUS
    <3>1. f \in Datas /\ i \in Nodes /\ j \in Nodes /\ e = Swapped(f, i, j)
      BY <1>5, <2>1, <2>3
    <3> PICK S : S = Span(s, a, b)
      OBVIOUS
    <3>2. i \in S /\ j \in S
      BY <2>2
    <3>3. /\ e \in Datas /\ e[i] = f[j] /\ e[j] = f[i]
          /\ \A m \in Nodes : m # i /\ m # j => e[m] = f[m]
          /\ Rearranged(f, e, S)
      BY ONLY <3>1, <3>2, SwappedIs
    <3> QED BY <3>3
  <2> QED BY <1>1, <1>3, <1>7, <2>4
<1>9. Rearranged(d, e, Span(s, a, b))
  <2>1. Span(s, a, b - 1) \subseteq Span(s, a, b)
    BY <1>2 DEF Span
  <2>2. Rearranged(d, x.data, Span(s, a, b))
    BY <1>4, <2>1, RearrangedMore
  <2> QED BY <1>8, <2>2, RearrangedTwice
<1>10. ASSUME NEW k \in a .. c PROVE <<e[s[k]], e[s[c + 1]]>> \in leq
  <2>1. k \in 1 .. l.len /\ k # c + 1 /\ k # b
    BY <1>1, <1>2, <1>3
  <2> QED BY <1>4, <1>8, <2>1
<1>11. ASSUME NEW k \in c + 2 .. b PROVE <<e[s[k]], e[s[c + 1]]>> \notin leq
  <2>1. CASE k = b
    <3>1. c + 1 \in c + 1 .. b - 1
      BY <1>2, <2>1
    <3> QED BY <1>4, <1>8, <2>1, <3>1
  <2>2. CASE k # b
    <3>1. k \in c + 1 .. b - 1 /\ k \in 1 .. l.len /\ k # c + 1
      BY <1>1, <1>2, <1>3, <2>2
    <3> QED BY <1>4, <1>8, <2>2, <3>1
  <2> QED BY <2>1, <2>2
<1>12. (c + 1) - 1 = c /\ (c + 1) + 1 = c + 2
  BY <1>2
<1>13. Divided(s, d, e, a, b, c + 1, leq)
  BY <1>8, <1>9, <1>10, <1>11, <1>12 DEF Divided
<1> QED BY <1>3, <1>6, <1>13

\* The loop leaves the walk where it meets high.
LEMMA StepsAre ==
    ASSUME NEW l, NEW s, Ring(l, s), NEW a \in 1 .. l.len, NEW b \in 1 .. l.len, a < b,
           NEW w, w = Walk(l, s[a]), NEW N, N = b - a
    PROVE  /\ \A n \in 0 .. N : w[n] = s[a + n]
           /\ (CHOOSE n \in 0 .. l.len : w[n] = s[b] /\ \A m \in 0 .. n - 1 : w[m] # s[b]) = N
<1>1. /\ l.len \in Nat /\ \A i, j \in 1 .. l.len : s[i] = s[j] => i = j
      /\ N \in 0 .. l.len
  BY RingFacts
<1>2. \A n \in 0 .. N : w[n] = s[a + n] /\ a + n \in 1 .. l.len
  <2>1. w = [n \in 0 .. l.len |-> s[IF a + n <= l.len THEN a + n ELSE a + n - l.len]]
    BY WalkIs
  <2>2. \A n \in 0 .. N : n \in 0 .. l.len /\ a + n <= l.len /\ a + n \in 1 .. l.len
    BY <1>1
  <2> QED BY <2>1, <2>2
<1> DEFINE Q(n) == w[n] = s[b] /\ \A m \in 0 .. n - 1 : w[m] # s[b]
<1>3. Q(N)
  <2>1. w[N] = s[b]
    <3>1. N \in 0 .. N /\ a + N = b
      BY <1>1
    <3> QED BY <1>2, <3>1
  <2>2. ASSUME NEW m \in 0 .. N - 1 PROVE w[m] # s[b]
    <3>1. m \in 0 .. N /\ a + m # b
      BY <1>1
    <3> QED BY <1>1, <1>2, <3>1
  <2> QED BY <2>1, <2>2
<1>4. ASSUME NEW n \in 0 .. l.len, Q(n) PROVE n = N
  <2>1. ~(n < N)
    <3> SUFFICES ASSUME n < N PROVE FALSE
      OBVIOUS
    <3>1. n \in 0 .. N - 1
      BY <1>1
    <3> QED BY <1>3, <1>4, <3>1
  <2>2. ~(N < n)
    <3> SUFFICES ASSUME N < n PROVE FALSE
      OBVIOUS
    <3>1. N \in 0 .. n - 1
      BY <1>1
    <3> QED BY <1>3, <1>4, <3>1
  <2> QED BY <1>1, <2>1, <2>2
<1> HIDE DEF Q
<1>5. (CHOOSE n \in 0 .. l.len : Q(n)) = N
  BY <1>1, <1>3, <1>4
<1> QED BY <1>2, <1>5, Zenon DEF Q

LEMMA LoopIs ==
    ASSUME NEW l, NEW s, Ring(l, s), NEW d \in Datas, NEW leq,
           NEW a \in 1 .. l.len, NEW b \in 1 .. l.len, a < b,
           NEW y, y = Looped(l, d, s[a], s[b], leq)
    PROVE  y \in Splits /\ \E c \in a - 1 .. b - 1 : Parted(l, s, d, a, b, leq, b - a, y, c)
<1> DEFINE first == [data |-> d, i |-> l.prev[s[a]]]
           turn(x, k) == LET i == l.next[x.i] IN
               IF <<x.data[k], d[s[b]]>> \in leq THEN [data |-> Swapped(x.data, i, k), i |-> i] ELSE x
           w == Walk(l, s[a])
           N == b - a
           one(n, x) == turn(x, w[n - 1])
           G == [p \in (1 .. N) \X Splits |-> one(p[1], p[2])]
           Sized(n) == {x \in Splits : \E c \in a - 1 .. a + n - 1 : Parted(l, s, d, a, b, leq, n, x, c)}
           S == {p \in (0 .. N) \X Splits : p[2] \in Sized(p[1])}
           step(f) == [i \in 0 .. N |-> IF i = 0 THEN first ELSE one(i, f[i - 1])]
           loop == CHOOSE g : g = step(g)
<1>0. y = loop[N] /\ \A n \in 0 .. N : w[n] = s[a + n]
  <2> DEFINE steps == CHOOSE n \in 0 .. l.len : w[n] = s[b] /\ \A m \in 0 .. n - 1 : w[m] # s[b]
             lp(k) == CHOOSE g : g = [n \in 0 .. k |-> IF n = 0 THEN first ELSE turn(g[n - 1], w[n - 1])]
  <2>1. y = lp(steps)[steps]
    BY Zenon DEF Looped
  <2>2. (\A n \in 0 .. N : w[n] = s[a + n]) /\ steps = N
    BY StepsAre
  <2>3. lp(N) = loop
    OBVIOUS
  <2> HIDE DEF lp, steps, w, loop, N
  <2> QED BY <2>1, <2>2, <2>3
<1> HIDE DEF loop, w
<1>1. N \in Nat /\ a \in Int /\ b \in Int
  BY RingFacts
<1>2. <<0, first>> \in S
  <2> PICK x : x = first
    OBVIOUS
  <2>1. x \in Splits /\ \E c \in a - 1 .. a - 1 : Parted(l, s, d, a, b, leq, 0, x, c)
    BY PartedFirst
  <2>2. a - 1 .. a + 0 - 1 = a - 1 .. a - 1
    BY <1>1
  <2>3. x \in Sized(0)
    BY <2>1, <2>2
  <2> HIDE DEF Sized, first
  <2> QED BY <1>1, <2>1, <2>3
<1>3. \A i \in 1 .. N : \A x : <<i - 1, x>> \in S => <<i, one(i, x)>> \in S /\ G[<<i, x>>] = one(i, x)
  <2> SUFFICES ASSUME NEW i \in 1 .. N, NEW x, <<i - 1, x>> \in S
               PROVE  <<i, one(i, x)>> \in S /\ G[<<i, x>>] = one(i, x)
    OBVIOUS
  <2>0. x \in Splits /\ x \in Sized(i - 1)
    <3> HIDE DEF Sized
    <3> QED OBVIOUS
  <2>1. PICK c \in a - 1 .. a + i - 2 : Parted(l, s, d, a, b, leq, i - 1, x, c)
    <3>1. a - 1 .. a + (i - 1) - 1 = a - 1 .. a + i - 2
      BY <1>1
    <3> QED BY <2>0, <3>1
  <2> HIDE DEF S
  <2> PICK m : m = one(i, x)
    OBVIOUS
  <2> PICK k : k = a + i - 1
    OBVIOUS
  <2>2. w[i - 1] = s[k]
    <3>1. i - 1 \in 0 .. b - a /\ a + (i - 1) = k
      BY <1>1
    <3> QED BY <1>0, <3>1
  <2>3. m = IF <<x.data[s[k]], d[s[b]]>> \in leq
            THEN [data |-> Swapped(x.data, l.next[x.i], s[k]), i |-> l.next[x.i]]
            ELSE x
    BY <2>2
  <2>4. m \in Splits /\ \E e \in a - 1 .. a + i - 1 : Parted(l, s, d, a, b, leq, i, m, e)
    BY <2>0, <2>1, <2>3, PartedNext
  <2>5. m \in Sized(i)
    BY <2>4
  <2>6. <<i, m>> \in S
    <3> HIDE DEF Sized
    <3>1. i \in 0 .. N
      BY <1>1
    <3> QED BY <2>4, <2>5, <3>1 DEF S
  <2>7. G[<<i, x>>] = one(i, x)
    <3> HIDE DEF one
    <3> QED BY <2>0
  <2> HIDE DEF S, G, one
  <2> QED BY <2>6, <2>7
<1> HIDE DEF S, G, first, one
<1>4. PICK f : Repeats(f, N, first, G)
  BY <1>1, RepeatsExists
<1>5. \A i \in 0 .. N : <<i, f[i]>> \in S
  <2>1. \A i \in 1 .. N : \A x : <<i - 1, x>> \in S => <<i, G[<<i, x>>]>> \in S
    BY <1>3
  <2> QED BY <1>1, <1>2, <1>4, <2>1, RepeatsWithin
<1>6. f = step(f)
  <2>1. \A i \in 1 .. N : G[<<i, f[i - 1]>>] = one(i, f[i - 1])
    <3> SUFFICES ASSUME NEW i \in 1 .. N PROVE G[<<i, f[i - 1]>>] = one(i, f[i - 1])
      OBVIOUS
    <3>1. i - 1 \in 0 .. N
      BY <1>1
    <3> QED BY <1>3, <1>5, <3>1
  <2>2. f = [i \in 0 .. N |-> IF i = 0 THEN first ELSE G[<<i, f[i - 1]>>]]
    BY <1>4 DEF Repeats
  <2> HIDE DEF N
  <2> QED BY <2>1, <2>2
<1>7. loop = step(loop)
  <2>1. loop = CHOOSE g : g = step(g)
    BY DEF loop
  <2> HIDE DEF step
  <2> QED BY <1>6, <2>1
<1>8. loop[0] = first /\ \A i \in 1 .. N : loop[i] = one(i, loop[i - 1])
  <2>1. \A i \in 0 .. N : loop[i] = IF i = 0 THEN first ELSE one(i, loop[i - 1])
    BY <1>7, Zenon
  <2> QED BY <1>1, <2>1
<1> DEFINE P == {i \in 0 .. N : <<i, loop[i]>> \in S}
<1>9. 0 \in P
  BY <1>1, <1>2, <1>8
<1>10. ASSUME NEW i \in 1 .. N, i - 1 \in P PROVE i \in P
  <2>1. <<i - 1, loop[i - 1]>> \in S
    BY <1>10
  <2>2. <<i, loop[i]>> \in S
    BY <1>3, <1>8, <2>1
  <2> QED BY <2>2
<1> HIDE DEF P
<1>11. N \in P
  <2>1. \A i \in 0 .. N : i \in P
    <3> HIDE DEF N
    <3> QED BY <1>1, <1>9, <1>10, UpTo
  <2> QED BY <1>1, <2>1
<1>12. <<N, loop[N]>> \in S
  BY <1>11 DEF P
<1>13. loop[N] \in Sized(N)
  <2> HIDE DEF Sized
  <2> QED BY <1>12 DEF S
<1>14. a - 1 .. a + N - 1 = a - 1 .. b - 1 /\ y = loop[N]
  BY <1>0, <1>1
<1>15. loop[N] \in Splits /\ \E c \in a - 1 .. a + N - 1 : Parted(l, s, d, a, b, leq, N, loop[N], c)
  BY <1>13
<1> QED BY <1>14, <1>15, Zenon

LEMMA PivotIs ==
    ASSUME NEW l, NEW s, Ring(l, s), NEW d \in Datas, NEW leq,
           NEW a \in 1 .. l.len, NEW b \in 1 .. l.len, a < b,
           NEW q, q = listQSortPivot(l, d, s[a], s[b], leq)
    PROVE  \E p \in a .. b : q.pivot = s[p] /\ Divided(s, d, q.data, a, b, p, leq)
<1> PICK x : x = Looped(l, d, s[a], s[b], leq)
  OBVIOUS
<1> PICK e : e = Swapped(x.data, l.next[x.i], s[b])
  OBVIOUS
<1>1. q.data = e /\ q.pivot = l.next[x.i]
  BY DEF listQSortPivot
<1>2. x \in Splits /\ \E c \in a - 1 .. b - 1 : Parted(l, s, d, a, b, leq, b - a, x, c)
  BY LoopIs
<1> PICK c \in a - 1 .. b - 1 : Parted(l, s, d, a, b, leq, b - a, x, c)
  BY <1>2
<1>3. \E p \in a .. b : l.next[x.i] = s[p] /\ Divided(s, d, e, a, b, p, leq)
  <2>1. x \in Splits
    BY <1>2
  <2> QED BY <2>1, PartedLast
<1> QED BY <1>1, <1>3

-----------------------------------------------------------------------------
(* The quicksort.                                                           *)

\* What the calls do, by their depth.
Helps(l, leq, h) ==
    /\ h[0] = [p \in Parts |-> p.data]
    /\ \A i \in 1 .. l.len : h[i] = Divides(l, leq, h[i - 1])

\* mboxQSortHelper is what Divides makes, as often as the list is long.
LEMMA HelperIs ==
    ASSUME NEW l, l.len \in Nat, NEW leq
    PROVE  \E h : mboxQSortHelper(l, leq) = h[l.len] /\ Helps(l, leq, h)
<1> DEFINE N == l.len
           none == [p \in Parts |-> p.data]
           step(f, n) == [i \in 0 .. n |-> IF i = 0 THEN none ELSE Divides(l, leq, f[i - 1])]
           helper == CHOOSE g : g = step(g, N)
           P == {n \in 0 .. N : \E f : f = step(f, n)}
<1>0. mboxQSortHelper(l, leq) = helper[N]
  BY Zenon DEF mboxQSortHelper
<1>1. N \in Nat
  OBVIOUS
<1> HIDE DEF none, helper, N
<1>2. 0 \in P
  <2> PICK f : f = [i \in 0 .. 0 |-> none]
    OBVIOUS
  <2>1. f = step(f, 0)
    OBVIOUS
  <2> HIDE DEF step
  <2> QED BY <1>1, <2>1
<1>3. ASSUME NEW m \in 1 .. N, m - 1 \in P PROVE m \in P
  <2>1. PICK f : f = step(f, m - 1)
    BY <1>3
  <2> PICK last : last = Divides(l, leq, f[m - 1])
    OBVIOUS
  <2> PICK g : g = [i \in 0 .. m |-> IF i < m THEN f[i] ELSE last]
    OBVIOUS
  <2>2. ASSUME NEW i \in 0 .. m PROVE g[i] = IF i = 0 THEN none ELSE Divides(l, leq, g[i - 1])
    <3>1. CASE i = m
      <4>1. g[m - 1] = f[m - 1] /\ g[m] = last
        BY <1>1
      <4> QED BY <1>1, <3>1, <4>1
    <3>2. CASE i < m
      <4>1. i \in 0 .. m - 1 /\ g[i] = f[i]
        BY <3>2
      <4>2. f[i] = IF i = 0 THEN none ELSE Divides(l, leq, f[i - 1])
        BY <2>1, <4>1
      <4>3. i # 0 => g[i - 1] = f[i - 1]
        BY <3>2
      <4> QED BY <4>1, <4>2, <4>3
    <3> QED BY <3>1, <3>2
  <2>3. g = step(g, m)
    BY <2>2
  <2> HIDE DEF step
  <2> QED BY <1>1, <2>3
<1> HIDE DEF P
<1>4. \E f : f = step(f, N)
  <2>1. N \in P
    BY <1>1, <1>2, <1>3, UpTo
  <2> HIDE DEF step
  <2> QED BY <2>1 DEF P
<1>5. helper = step(helper, N)
  <2>1. helper = CHOOSE g : g = step(g, N)
    BY DEF helper
  <2> HIDE DEF step
  <2> QED BY <1>4, <2>1
<1>6. helper[0] = none /\ \A i \in 1 .. N : helper[i] = Divides(l, leq, helper[i - 1])
  <2>1. \A i \in 0 .. N : helper[i] = IF i = 0 THEN none ELSE Divides(l, leq, helper[i - 1])
    BY <1>5, Zenon
  <2> QED BY <1>1, <2>1
<1> QED BY <1>0, <1>6 DEF none, N, Helps

\* From the a-th node to the b-th the data is rearranged and, by an order, sorted.
Ordered(s, e, a, b, leq) ==
    \A i, j \in a .. b : i < j => <<e[s[i]], e[s[j]]>> \in leq
Orderly(s, d, a, b, leq) == D!IsOrder(leq, {d[s[k]] : k \in a .. b})
Done(s, d, e, a, b, leq) ==
    /\ Rearranged(d, e, Span(s, a, b))
    /\ Orderly(s, d, a, b, leq) => Ordered(s, e, a, b, leq)

LEMMA SpanRearranged ==
    ASSUME NEW l, NEW s, Ring(l, s), NEW d \in Datas, NEW e,
           NEW a \in Int, NEW b \in Int, 1 <= a, b <= l.len, Rearranged(d, e, Span(s, a, b))
    PROVE  /\ e \in Datas
           /\ \A k \in a .. b : \E j \in a .. b : e[s[k]] = d[s[j]]
           /\ \A k \in 1 .. l.len : k \notin a .. b => e[s[k]] = d[s[k]]
<1>1. /\ l.len \in Nat /\ \A i, j \in 1 .. l.len : s[i] = s[j] => i = j
      /\ \A i \in 1 .. l.len : s[i] \in Nodes
  BY RingFacts
<1>2. a .. b \subseteq 1 .. l.len
  BY <1>1
<1> PICK S : S = Span(s, a, b)
  OBVIOUS
<1>3. /\ e \in Datas /\ \A n \in Nodes \ S : e[n] = d[n]
      /\ \A n \in Nodes : n \in S => \E k \in Nodes : k \in S /\ e[n] = d[k]
  BY RearrangedFacts
<1>4. ASSUME NEW k \in a .. b PROVE \E j \in a .. b : e[s[k]] = d[s[j]]
  <2>1. s[k] \in Nodes /\ s[k] \in S
    BY <1>1, <1>2 DEF Span
  <2>2. PICK m \in Nodes : m \in S /\ e[s[k]] = d[m]
    BY <1>3, <2>1
  <2>3. \E j \in a .. b : m = s[j]
    BY <2>2 DEF Span
  <2> QED BY <2>2, <2>3
<1>5. ASSUME NEW k \in 1 .. l.len, k \notin a .. b PROVE e[s[k]] = d[s[k]]
  <2>1. s[k] \in Nodes /\ s[k] \notin S
    BY <1>1, <1>2, <1>5 DEF Span
  <2> QED BY <1>3, <2>1
<1> QED BY <1>3, <1>4, <1>5

LEMMA OrderOfLess ==
    ASSUME NEW leq, NEW V, NEW W \in SUBSET V, D!IsOrder(leq, V)
    PROVE  D!IsOrder(leq, W)
BY DEF D!IsOrder

\* Parts that are done make up what is done, on either side of a pivot.
LEMMA DoneTogether ==
    ASSUME NEW l, NEW s, Ring(l, s), NEW d \in Datas, NEW leq,
           NEW a \in 1 .. l.len, NEW b \in 1 .. l.len, NEW p \in a .. b,
           NEW e, Divided(s, d, e, a, b, p, leq),
           NEW f, Done(s, e, f, a, p - 1, leq),
           NEW g, Done(s, f, g, p + 1, b, leq)
    PROVE  g \in Datas /\ Done(s, d, g, a, b, leq)
<1>1. l.len \in Nat /\ a \in Int /\ b \in Int /\ p \in Int
  BY RingFacts
<1>2. /\ e \in Datas /\ \A k \in a .. b : \E j \in a .. b : e[s[k]] = d[s[j]]
      /\ \A k \in a .. p - 1 : <<e[s[k]], e[s[p]]>> \in leq
      /\ \A k \in p + 1 .. b : <<e[s[k]], e[s[p]]>> \notin leq
      /\ Rearranged(d, e, Span(s, a, b))
  <2>1. Rearranged(d, e, Span(s, a, b))
    BY DEF Divided
  <2>2. \A k \in a .. b : \E j \in a .. b : e[s[k]] = d[s[j]]
    BY <1>1, <2>1, SpanRearranged
  <2> QED BY <2>1, <2>2 DEF Divided
<1>3. /\ f \in Datas /\ \A k \in a .. p - 1 : \E j \in a .. p - 1 : f[s[k]] = e[s[j]]
      /\ \A k \in 1 .. l.len : k \notin a .. p - 1 => f[s[k]] = e[s[k]]
  <2>1. Rearranged(e, f, Span(s, a, p - 1))
    BY DEF Done
  <2> PICK c \in Int : c = p - 1
    BY <1>1
  <2>2. Rearranged(e, f, Span(s, a, c)) /\ 1 <= a /\ c <= l.len
    BY <1>1, <2>1
  <2>3. /\ f \in Datas /\ \A k \in a .. c : \E j \in a .. c : f[s[k]] = e[s[j]]
        /\ \A k \in 1 .. l.len : k \notin a .. c => f[s[k]] = e[s[k]]
    BY <1>1, <1>2, <2>2, SpanRearranged
  <2> QED BY <2>3
<1>4. /\ g \in Datas /\ \A k \in p + 1 .. b : \E j \in p + 1 .. b : g[s[k]] = f[s[j]]
      /\ \A k \in 1 .. l.len : k \notin p + 1 .. b => g[s[k]] = f[s[k]]
  <2>1. Rearranged(f, g, Span(s, p + 1, b))
    BY DEF Done
  <2> PICK c \in Int : c = p + 1
    BY <1>1
  <2>2. Rearranged(f, g, Span(s, c, b)) /\ 1 <= c /\ b <= l.len
    BY <1>1, <2>1
  <2>3. /\ g \in Datas /\ \A k \in c .. b : \E j \in c .. b : g[s[k]] = f[s[j]]
        /\ \A k \in 1 .. l.len : k \notin c .. b => g[s[k]] = f[s[k]]
    BY <1>1, <1>3, <2>2, SpanRearranged
  <2> QED BY <2>3
<1>5. Rearranged(d, g, Span(s, a, b))
  <2>1. Span(s, a, p - 1) \subseteq Span(s, a, b) /\ Span(s, p + 1, b) \subseteq Span(s, a, b)
    BY <1>1 DEF Span
  <2>2. Rearranged(e, f, Span(s, a, b)) /\ Rearranged(f, g, Span(s, a, b))
    BY <2>1, RearrangedMore DEF Done
  <2>3. Rearranged(d, f, Span(s, a, b))
    BY <1>2, <2>2, RearrangedTwice
  <2> QED BY <2>2, <2>3, RearrangedTwice
<1>6. ASSUME Orderly(s, d, a, b, leq) PROVE Ordered(s, g, a, b, leq)
  <2> DEFINE V == {d[s[k]] : k \in a .. b}
  <2>1. D!IsOrder(leq, V)
    BY <1>6 DEF Orderly
  <2>2. \A k \in a .. b : e[s[k]] \in V
    BY <1>2
  <2>3. \A k \in p + 1 .. b : f[s[k]] = e[s[k]] /\ k \in a .. b
    BY <1>1, <1>3
  <2>4. \A k \in a .. p - 1 : g[s[k]] = f[s[k]] /\ k \in a .. b
    BY <1>1, <1>4
  <2>5. g[s[p]] = e[s[p]]
    BY <1>1, <1>3, <1>4
  <2> HIDE DEF V
  <2>6. Ordered(s, f, a, p - 1, leq)
    <3> PICK W : W = {e[s[k]] : k \in a .. p - 1}
      OBVIOUS
    <3>1. W \in SUBSET V
      BY <2>2, <2>4
    <3>2. D!IsOrder(leq, W)
      BY <2>1, <3>1, OrderOfLess
    <3> QED BY <3>2 DEF Orderly, Done
  <2>7. Ordered(s, g, p + 1, b, leq)
    <3> PICK W : W = {f[s[k]] : k \in p + 1 .. b}
      OBVIOUS
    <3>1. W \in SUBSET V
      BY <2>2, <2>3
    <3>2. D!IsOrder(leq, W)
      BY <2>1, <3>1, OrderOfLess
    <3> QED BY <3>2 DEF Orderly, Done
  <2>8. \A x, y \in V : <<x, y>> \in leq \/ <<y, x>> \in leq
    BY <2>1 DEF D!IsOrder
  <2>9. \A x, y, z \in V : <<x, y>> \in leq /\ <<y, z>> \in leq => <<x, z>> \in leq
    BY <2>1 DEF D!IsOrder
  <2> PICK u : u = e[s[p]]
    OBVIOUS
  <2>10. u \in V
    BY <2>2
  <2>11. ASSUME NEW k \in a .. p - 1 PROVE g[s[k]] \in V /\ <<g[s[k]], u>> \in leq
    <3>1. PICK j \in a .. p - 1 : f[s[k]] = e[s[j]]
      BY <1>3
    <3> QED BY <1>2, <2>2, <2>4, <3>1
  <2>12. ASSUME NEW k \in p + 1 .. b PROVE g[s[k]] \in V /\ <<u, g[s[k]]>> \in leq
    <3>1. PICK j \in p + 1 .. b : g[s[k]] = f[s[j]]
      BY <1>4
    <3>2. g[s[k]] = e[s[j]] /\ e[s[j]] \in V
      BY <2>2, <2>3, <3>1
    <3>3. <<e[s[j]], u>> \notin leq
      BY <1>2
    <3> QED BY <2>8, <2>10, <3>2, <3>3
  <2> SUFFICES ASSUME NEW i \in a .. b, NEW j \in a .. b, i < j
               PROVE  <<g[s[i]], g[s[j]]>> \in leq
    BY DEF Ordered
  <2>13. CASE j < p
    <3>1. i \in a .. p - 1 /\ j \in a .. p - 1
      BY <1>1, <2>13
    <3> QED BY <2>4, <2>6, <3>1 DEF Ordered
  <2>14. CASE p < i
    <3>1. i \in p + 1 .. b /\ j \in p + 1 .. b
      BY <1>1, <2>14
    <3> QED BY <2>7, <3>1 DEF Ordered
  <2>15. CASE j = p
    <3>1. i \in a .. p - 1
      BY <1>1, <2>15
    <3> QED BY <2>5, <2>11, <2>15, <3>1
  <2>16. CASE i = p
    <3>1. j \in p + 1 .. b
      BY <1>1, <2>16
    <3> QED BY <2>5, <2>12, <2>16, <3>1
  <2>17. CASE i < p /\ p < j
    <3>1. i \in a .. p - 1 /\ j \in p + 1 .. b
      BY <1>1, <2>17
    <3> QED BY <2>9, <2>10, <2>11, <2>12, <3>1
  <2>18. i < p \/ i = p \/ p < i
    BY <1>1
  <2>19. j < p \/ j = p \/ p < j
    BY <1>1
  <2> QED BY <2>13, <2>14, <2>15, <2>16, <2>17, <2>18, <2>19
<1> QED BY <1>4, <1>5, <1>6 DEF Done

LEMMA HelpsNone ==
    ASSUME NEW l, l.len \in Nat, NEW leq, NEW h, Helps(l, leq, h), NEW n \in 0 .. l.len,
           NEW p \in Parts, NoneToSort(l, p)
    PROVE  h[n][p] = p.data
<1>1. CASE n = 0
  BY <1>1 DEF Helps
<1>2. CASE n # 0
  <2>1. n \in 1 .. l.len
    BY <1>2
  <2>2. h[n] = Divides(l, leq, h[n - 1])
    BY <2>1 DEF Helps
  <2>3. Divides(l, leq, h[n - 1])[p] = p.data
    BY DEF Divides
  <2> QED BY <2>2, <2>3
<1> QED BY <1>1, <1>2

LEMMA HelpsSome ==
    ASSUME NEW l, l.len \in Nat, NEW leq, NEW h, Helps(l, leq, h), NEW n \in 1 .. l.len,
           NEW p \in Parts, ~NoneToSort(l, p),
           NEW q, q = listQSortPivot(l, p.data, p.low, p.high, leq),
           NEW left, left = h[n - 1][Part(q.data, p.low, l.prev[q.pivot])]
    PROVE  h[n][p] = h[n - 1][Part(left, l.next[q.pivot], p.high)]
<1>1. h[n] = Divides(l, leq, h[n - 1])
  BY DEF Helps
<1> PICK g : g = h[n - 1]
  OBVIOUS
<1>2. Divides(l, leq, g)[p] = g[Part(left, l.next[q.pivot], p.high)]
  BY DEF Divides
<1> QED BY <1>1, <1>2

\* What is called with the a-th node up to the b-th, which are not all the nodes
\* unless it is the first call.
Called(l, s, d, a, b, c) ==
    /\ d \in Datas /\ a \in 1 .. l.len /\ b \in 1 .. l.len /\ a <= b /\ c \in 0 .. 1
    /\ c = 1 => a = b \/ a # 1 \/ b # l.len
PartOf(s, d, a, b, c) == [data |-> d, low |-> s[a], high |-> s[b], count |-> c]

LEMMA CalledIs ==
    ASSUME NEW l, NEW s, Ring(l, s), NEW d, NEW a, NEW b, NEW c, Called(l, s, d, a, b, c)
    PROVE  /\ PartOf(s, d, a, b, c) \in Parts
           /\ NoneToSort(l, PartOf(s, d, a, b, c)) <=> a = b
<1>1. /\ l.len \in Nat /\ \A i, j \in 1 .. l.len : s[i] = s[j] => i = j
      /\ \A i \in 1 .. l.len : s[i] \in Nodes
  BY RingFacts
<1>2. /\ d \in Datas /\ a \in 1 .. l.len /\ b \in 1 .. l.len /\ a <= b /\ c \in 0 .. 1
      /\ c = 1 => a = b \/ a # 1 \/ b # l.len
  BY DEF Called
<1>3. PartOf(s, d, a, b, c) \in Parts
  BY <1>1, <1>2 DEF PartOf, Parts, Datas, Things
<1>4. s[a] = s[b] <=> a = b
  BY <1>1, <1>2
<1>5. l.next[s[b]] = s[IF b = l.len THEN 1 ELSE b + 1]
  BY <1>2 DEF Ring
<1>6. s[a] = l.next[s[b]] <=> a = IF b = l.len THEN 1 ELSE b + 1
  <2>1. (IF b = l.len THEN 1 ELSE b + 1) \in 1 .. l.len
    BY <1>1, <1>2
  <2> QED BY <1>1, <1>2, <1>5, <2>1
<1>7. c = 1 /\ s[a] = l.next[s[b]] => a = b
  BY <1>1, <1>2, <1>6
<1> QED BY <1>3, <1>4, <1>7 DEF PartOf, NoneToSort

\* A part on one side of the pivot: the calls for it leave it done, or it is empty.
LEMMA SideDone ==
    ASSUME NEW l, NEW s, Ring(l, s), NEW leq, NEW h, Helps(l, leq, h),
           NEW n \in 0 .. l.len,
           \A d, a, b, c : Called(l, s, d, a, b, c) /\ b - a <= n
               => Done(s, d, h[n][PartOf(s, d, a, b, c)], a, b, leq),
           NEW e \in Datas, NEW a \in Int, NEW b \in Int, 1 <= a, b <= l.len,
           a <= b => a # 1 \/ b # l.len, b - a <= n,
           NEW low \in Nodes, NEW high \in Nodes,
           IF a <= b THEN low = s[a] /\ high = s[b] ELSE low = l.next[high],
           NEW f, f = h[n][Part(e, low, high)]
    PROVE  Done(s, e, f, a, b, leq)
<1>1. l.len \in Nat
  BY RingFacts
<1>2. CASE a <= b
  <2>1. Called(l, s, e, a, b, 1)
    BY <1>1, <1>2 DEF Called
  <2>2. Part(e, low, high) = PartOf(s, e, a, b, 1)
    BY <1>2 DEF Part, PartOf
  <2>3. Done(s, e, h[n][PartOf(s, e, a, b, 1)], a, b, leq)
    BY <2>1
  <2> QED BY <2>2, <2>3
<1>3. CASE ~(a <= b)
  <2> PICK p : p = Part(e, low, high)
    OBVIOUS
  <2>1. p \in Parts /\ p.data = e
    BY DEF Part, Parts, Datas, Things
  <2>2. NoneToSort(l, p)
    BY <1>3 DEF NoneToSort, Part
  <2>3. f = e
    BY <1>1, <2>1, <2>2, HelpsNone
  <2>4. Ordered(s, e, a, b, leq)
    BY <1>3 DEF Ordered
  <2>5. Rearranged(e, e, Span(s, a, b))
    BY RearrangedSame
  <2> QED BY <2>3, <2>4, <2>5 DEF Done
<1> QED BY <1>2, <1>3

LEMMA HelpsAre ==
    ASSUME NEW l, NEW s, Ring(l, s), NEW leq, NEW h, Helps(l, leq, h)
    PROVE  \A n \in 0 .. l.len : \A d, a, b, c : Called(l, s, d, a, b, c) /\ b - a <= n
               => Done(s, d, h[n][PartOf(s, d, a, b, c)], a, b, leq)
<1>1. /\ l.len \in Nat /\ \A i, j \in 1 .. l.len : s[i] = s[j] => i = j
      /\ \A i \in 1 .. l.len : s[i] \in Nodes
  BY RingFacts
<1> DEFINE Holds(n) == \A d, a, b, c : Called(l, s, d, a, b, c) /\ b - a <= n
               => Done(s, d, h[n][PartOf(s, d, a, b, c)], a, b, leq)
           P == {n \in 0 .. l.len : Holds(n)}
<1>2. ASSUME NEW n \in 0 .. l.len, NEW d, NEW a, NEW b, NEW c, Called(l, s, d, a, b, c), a = b
      PROVE  Done(s, d, h[n][PartOf(s, d, a, b, c)], a, b, leq)
  <2> PICK p : p = PartOf(s, d, a, b, c)
    OBVIOUS
  <2>1. p \in Parts /\ NoneToSort(l, p) /\ p.data = d
    BY <1>2, CalledIs DEF PartOf
  <2>2. h[n][p] = d
    BY <1>1, <2>1, HelpsNone
  <2>3. d \in Datas /\ a \in Int
    BY <1>2 DEF Called
  <2>4. Rearranged(d, d, Span(s, a, b))
    BY <2>3, RearrangedSame
  <2>5. Ordered(s, d, a, b, leq)
    BY <1>2, <2>3 DEF Ordered
  <2> QED BY <2>2, <2>4, <2>5 DEF Done
<1>3. 0 \in P
  <2> SUFFICES ASSUME NEW d, NEW a, NEW b, NEW c, Called(l, s, d, a, b, c), b - a <= 0
               PROVE  Done(s, d, h[0][PartOf(s, d, a, b, c)], a, b, leq)
    BY <1>1
  <2>1. a = b
    BY DEF Called
  <2>2. 0 \in 0 .. l.len
    BY <1>1
  <2> QED BY <1>2, <2>1, <2>2
<1>4. ASSUME NEW n \in 1 .. l.len, n - 1 \in P PROVE n \in P
  <2> PICK m : m = n - 1
    OBVIOUS
  <2>0. m \in 0 .. l.len /\ n \in 0 .. l.len
    BY <1>1
  <2>1. \A d, a, b, c : Called(l, s, d, a, b, c) /\ b - a <= m
            => Done(s, d, h[m][PartOf(s, d, a, b, c)], a, b, leq)
    BY <1>4
  <2> SUFFICES ASSUME NEW d, NEW a, NEW b, NEW c, Called(l, s, d, a, b, c), b - a <= n
               PROVE  Done(s, d, h[n][PartOf(s, d, a, b, c)], a, b, leq)
    BY <2>0
  <2> HIDE DEF P, Holds
  <2>2. d \in Datas /\ a \in 1 .. l.len /\ b \in 1 .. l.len /\ a <= b
    BY DEF Called
  <2>3. CASE a = b
    BY <1>2, <2>0, <2>3
  <2>4. CASE a # b
    <3>1. a < b
      BY <2>2, <2>4
    <3> PICK p : p = PartOf(s, d, a, b, c)
      OBVIOUS
    <3>2. /\ p \in Parts /\ ~NoneToSort(l, p)
          /\ p.data = d /\ p.low = s[a] /\ p.high = s[b]
      BY <2>4, CalledIs DEF PartOf
    <3> PICK q : q = listQSortPivot(l, d, s[a], s[b], leq)
      OBVIOUS
    <3> PICK e : e = q.data
      OBVIOUS
    <3>3. PICK k \in a .. b : q.pivot = s[k] /\ Divided(s, d, e, a, b, k, leq)
      <4>1. \E k \in a .. b : q.pivot = s[k] /\ Divided(s, d, q.data, a, b, k, leq)
        BY <2>2, <3>1, PivotIs
      <4> QED BY <4>1
    <3>4. k \in 1 .. l.len /\ k \in Int /\ a \in Int /\ b \in Int /\ e \in Datas
      BY <1>1, <2>2, <3>3 DEF Divided
    <3> PICK low : low = l.next[s[k]]
      OBVIOUS
    <3> PICK high : high = l.prev[s[k]]
      OBVIOUS
    <3>5. /\ low = s[IF k = l.len THEN 1 ELSE k + 1] /\ low \in Nodes
          /\ high = s[IF k = 1 THEN l.len ELSE k - 1] /\ high \in Nodes
          /\ l.next[high] = s[k]
      <4>1. /\ low = s[IF k = l.len THEN 1 ELSE k + 1]
            /\ high = s[IF k = 1 THEN l.len ELSE k - 1]
        BY <3>4 DEF Ring
      <4> PICK j : j = IF k = 1 THEN l.len ELSE k - 1
        OBVIOUS
      <4>2. /\ j \in 1 .. l.len /\ (IF k = l.len THEN 1 ELSE k + 1) \in 1 .. l.len
            /\ k = IF j = l.len THEN 1 ELSE j + 1
        BY <1>1, <3>4
      <4>3. l.next[s[j]] = s[IF j = l.len THEN 1 ELSE j + 1]
        BY <4>2 DEF Ring
      <4> QED BY <1>1, <4>1, <4>2, <4>3
    <3> PICK f : f = h[m][Part(e, s[a], high)]
      OBVIOUS
    <3> PICK g : g = h[m][Part(f, low, s[b])]
      OBVIOUS
    <3>6. h[n][p] = g
      <4> l.len \in Nat
        BY <1>1
      <4>1. q = listQSortPivot(l, p.data, p.low, p.high, leq)
        BY <3>2
      <4>2. f = h[n - 1][Part(q.data, p.low, l.prev[q.pivot])]
        BY <3>2, <3>3
      <4>3. h[n][p] = h[n - 1][Part(f, l.next[q.pivot], p.high)]
        <5>1. p \in Parts /\ ~NoneToSort(l, p)
          BY <3>2
        <5> QED BY ONLY l.len \in Nat, Helps(l, leq, h), n \in 1 .. l.len, <4>1, <4>2, <5>1, HelpsSome
      <4> QED BY <3>2, <3>3, <4>3
    <3>7. s[a] \in Nodes /\ s[b] \in Nodes
      BY <1>1, <2>2
    <3>8. Done(s, e, f, a, k - 1, leq)
      <4> PICK j \in Int : j = k - 1
        BY <3>4
      <4>1. 1 <= a /\ j <= l.len /\ (a <= j => a # 1 \/ j # l.len) /\ j - a <= m
        BY <1>1, <2>2, <3>3, <3>4
      <4>2. IF a <= j THEN s[a] = s[a] /\ high = s[j] ELSE s[a] = l.next[high]
        BY <2>2, <3>3, <3>4, <3>5
      <4>3. Done(s, e, f, a, j, leq)
        <5> PICK lo : lo = s[a]
          OBVIOUS
        <5>1. /\ lo \in Nodes /\ high \in Nodes /\ a \in Int /\ e \in Datas
              /\ f = h[m][Part(e, lo, high)]
          BY <3>4, <3>5, <3>7
        <5>2. IF a <= j THEN lo = s[a] /\ high = s[j] ELSE lo = l.next[high]
          BY <4>2
        <5> QED BY ONLY <2>0, <2>1, <4>1, <5>1, <5>2, j \in Int, Ring(l, s), Helps(l, leq, h), SideDone,
                       SMTT(30)
      <4> QED BY <4>3
    <3>9. f \in Datas
      BY <3>4, <3>8, RearrangedFacts DEF Done
    <3>10. Done(s, f, g, k + 1, b, leq)
      <4> PICK j \in Int : j = k + 1
        BY <3>4
      <4>1. 1 <= j /\ b <= l.len /\ (j <= b => j # 1 \/ b # l.len) /\ b - j <= m
        BY <1>1, <2>2, <3>3, <3>4
      <4>2. IF j <= b THEN low = s[j] /\ s[b] = s[b] ELSE low = l.next[s[b]]
        <5>1. CASE k = b
          BY <3>4, <5>1
        <5>2. CASE k # b
          <6>1. j <= b /\ k # l.len
            BY <1>1, <2>2, <3>4, <5>2
          <6> QED BY <3>5, <6>1
        <5> QED BY <5>1, <5>2
      <4>3. Done(s, f, g, j, b, leq)
        <5> PICK hi : hi = s[b]
          OBVIOUS
        <5>1. /\ low \in Nodes /\ hi \in Nodes /\ b \in Int /\ f \in Datas
              /\ g = h[m][Part(f, low, hi)]
          BY <3>4, <3>5, <3>7, <3>9
        <5>2. IF j <= b THEN low = s[j] /\ hi = s[b] ELSE low = l.next[hi]
          BY <4>2
        <5> QED BY ONLY <2>0, <2>1, <4>1, <5>1, <5>2, j \in Int, Ring(l, s), Helps(l, leq, h), SideDone,
                       SMTT(30)
      <4> QED BY <4>3
    <3>11. Done(s, d, g, a, b, leq)
      <4>1. Divided(s, d, e, a, b, k, leq)
        BY <3>3
      <4> QED BY ONLY Ring(l, s), <2>2, k \in a .. b, <4>1, <3>8, <3>10, DoneTogether
    <3> QED BY <3>6, <3>11
  <2> QED BY <2>3, <2>4
<1>5. \A n \in 0 .. l.len : n \in P
  <2> HIDE DEF P
  <2> QED BY <1>1, <1>3, <1>4, UpTo
<1> QED BY <1>5

\* The rearranging of the nodes, as one of the places in the list.
LEMMA PlacesChange ==
    ASSUME NEW l, NEW s, Ring(l, s), NEW f, Permutes(f, Range(s)), NEW N, N = l.len
    PROVE  \E g \in Bijection(1 .. N, 1 .. N) : \A i \in 1 .. N : s[g[i]] = f[s[i]]
<1>1. /\ N \in Nat /\ \A i, j \in 1 .. N : s[i] = s[j] => i = j
      /\ \A i \in 1 .. N : s[i] \in Nodes /\ s[i] \in Range(s)
      /\ \A n \in Range(s) : \E i \in 1 .. N : n = s[i]
  BY RingFacts
<1>2. /\ f \in [Nodes -> Nodes] /\ \A m, n \in Nodes : f[m] = f[n] => m = n
      /\ \A n \in Nodes : \E m \in Nodes : f[m] = n
      /\ \A n \in Nodes : n \notin Range(s) => f[n] = n
  BY DEF Permutes
<1> PICK g : g = [i \in 1 .. N |-> CHOOSE j \in 1 .. N : s[j] = f[s[i]]]
  OBVIOUS
<1>3. ASSUME NEW i \in 1 .. N PROVE g[i] \in 1 .. N /\ s[g[i]] = f[s[i]]
  <2>1. f[s[i]] \in Range(s)
    <3> SUFFICES ASSUME f[s[i]] \notin Range(s) PROVE FALSE
      OBVIOUS
    <3>1. f[s[i]] \in Nodes /\ f[f[s[i]]] = f[s[i]]
      BY <1>1, <1>2
    <3>2. f[s[i]] = s[i]
      BY <1>1, <1>2, <3>1
    <3> QED BY <1>1, <3>2
  <2>2. \E j \in 1 .. N : s[j] = f[s[i]]
    BY <1>1, <2>1
  <2> QED BY <2>2
<1>4. g \in [1 .. N -> 1 .. N]
  BY <1>3
<1>5. ASSUME NEW i \in 1 .. N, NEW j \in 1 .. N, g[i] = g[j] PROVE i = j
  <2>1. f[s[i]] = s[g[i]] /\ f[s[j]] = s[g[j]]
    BY <1>3
  <2>2. f[s[i]] = f[s[j]]
    BY <1>5, <2>1
  <2> QED BY <1>1, <1>2, <2>2
<1>6. ASSUME NEW k \in 1 .. N PROVE \E i \in 1 .. N : g[i] = k
  <2>1. PICK m \in Nodes : f[m] = s[k]
    BY <1>1, <1>2
  <2>2. m \in Range(s)
    BY <1>1, <1>2, <2>1
  <2>3. PICK i \in 1 .. N : m = s[i]
    BY <1>1, <2>2
  <2>4. s[g[i]] = s[k] /\ g[i] \in 1 .. N
    BY <1>3, <2>1, <2>3
  <2> QED BY <1>1, <2>4
<1>7. g \in Injection(1 .. N, 1 .. N)
  BY <1>4, <1>5 DEF Injection, IsInjective
<1>8. g \in Surjection(1 .. N, 1 .. N)
  BY <1>4, <1>6 DEF Surjection
<1>9. g \in Bijection(1 .. N, 1 .. N)
  BY <1>7, <1>8 DEF Bijection
<1> QED BY <1>3, <1>9

\* listQSort leaves the ring as it is and sorts what it holds.
LEMMA SortIs ==
    ASSUME NEW l, NEW s, Whole(l, s), l.len > 1, NEW leq, NEW m, m = listQSort(l, leq)
    PROVE  Whole(m, s) /\ ItemsOf(m, s) \in D!Sorted(ItemsOf(l, s), leq)
<1> PICK N : N = l.len
  OBVIOUS
<1>1. /\ Ring(l, s) /\ N \in Nat /\ l \in Lists /\ \A i \in 1 .. N : s[i] \in Nodes
      /\ DOMAIN s = 1 .. N
  BY RingFacts DEF Whole, Ring
<1>2. 1 \in 1 .. N /\ N \in 1 .. N /\ l.root = s[1] /\ l.prev[s[1]] = s[N]
  <2>1. 1 \in 1 .. N /\ N \in 1 .. N
    BY <1>1
  <2> QED BY <1>1, <2>1 DEF Ring
<1> PICK d : d = l.data
  OBVIOUS
<1>3. d \in Datas
  BY <1>1 DEF Lists, Datas, Things
<1>4. m = [l EXCEPT !.data = mboxQSortHelper(l, leq)[PartOf(s, d, 1, N, 0)]]
  BY <1>2 DEF listQSort, PartOf
<1> PICK e : e = mboxQSortHelper(l, leq)[PartOf(s, d, 1, N, 0)]
  OBVIOUS
<1>5. m.data = e /\ m = [l EXCEPT !.data = e]
  BY <1>1, <1>4 DEF Lists
<1>6. Done(s, d, e, 1, N, leq)
  <2>1. PICK h : mboxQSortHelper(l, leq) = h[l.len] /\ Helps(l, leq, h)
    BY <1>1, HelperIs
  <2>2. Called(l, s, d, 1, N, 0) /\ N - 1 <= N /\ N \in 0 .. l.len
    BY <1>1, <1>2, <1>3 DEF Called
  <2>3. \A n \in 0 .. l.len : \A a, b, c : Called(l, s, d, a, b, c) /\ b - a <= n
            => Done(s, d, h[n][PartOf(s, d, a, b, c)], a, b, leq)
    BY <1>1, <2>1, HelpsAre
  <2>4. Done(s, d, h[N][PartOf(s, d, 1, N, 0)], 1, N, leq)
    BY <2>2, <2>3
  <2> QED BY <2>1, <2>4
<1>7. Range(s) = Span(s, 1, N)
  BY <1>1 DEF Range, Span
<1>8. e \in Datas /\ \A k \in 1 .. N : \E j \in 1 .. N : e[s[k]] = d[s[j]]
  <2>0. PICK a \in Int : a = 1
    OBVIOUS
  <2>1. Rearranged(d, e, Span(s, a, N)) /\ N \in Int /\ 1 <= a /\ N <= l.len
    BY <1>1, <1>6, <2>0 DEF Done
  <2>2. e \in Datas /\ \A k \in a .. N : \E j \in a .. N : e[s[k]] = d[s[j]]
    <3>1. Ring(l, s) /\ N \in Int
      BY <1>1
    <3> QED BY ONLY <1>3, <2>1, <3>1, SpanRearranged
  <2> QED BY <2>0, <2>2
<1>9. Whole(m, s)
  <2>1. /\ m \in Lists /\ m.root = l.root /\ m.len = l.len /\ m.next = l.next /\ m.prev = l.prev
    BY <1>1, <1>5, <1>8 DEF Lists, Datas, Things
  <2>2. Ring(m, s)
    BY <1>1, <2>1 DEF Ring
  <2>3. Unused(m) = Unused(l)
    BY <2>1 DEF Unused
  <2> QED BY <2>2, <2>3 DEF Whole
<1> PICK t : t = ItemsOf(m, s)
  OBVIOUS
<1> PICK u : u = ItemsOf(l, s)
  OBVIOUS
<1>10. /\ t = [i \in 1 .. N |-> e[s[i]]] /\ u = [i \in 1 .. N |-> d[s[i]]]
       /\ DOMAIN t = 1 .. N /\ DOMAIN u = 1 .. N
  <2>1. m.len = N
    BY <1>1, <1>5 DEF Lists
  <2> QED BY <1>5, <2>1 DEF ItemsOf
<1>11. ToSet(u) = {d[s[k]] : k \in 1 .. N}
  BY <1>10 DEF ToSet
<1>12. t \in [1 .. N -> ToSet(u)]
  <2>1. \A i \in 1 .. N : e[s[i]] \in ToSet(u)
    BY <1>8, <1>11
  <2>2. t = [i \in 1 .. N |-> e[s[i]]]
    BY <1>10
  <2> QED BY ONLY <2>1, <2>2
<1>13. D!SameElements(u, t)
  <2>1. PICK f : Permutes(f, Range(s)) /\ e = Moved(d, f)
    BY <1>6, <1>7 DEF Done, Rearranged
  <2>2. PICK g \in Bijection(1 .. N, 1 .. N) : \A i \in 1 .. N : s[g[i]] = f[s[i]]
    BY <1>1, <2>1, PlacesChange
  <2>3. \A i \in 1 .. N : g[i] \in 1 .. N
    BY DEF Bijection, Injection
  <2>4. \A i \in 1 .. N : t[i] = u[g[i]]
    <3> SUFFICES ASSUME NEW i \in 1 .. N PROVE t[i] = u[g[i]]
      OBVIOUS
    <3>1. t[i] = e[s[i]] /\ u[g[i]] = d[s[g[i]]]
      BY <1>10, <2>3
    <3>2. e[s[i]] = d[f[s[i]]]
      BY <1>1, <2>1 DEF Moved
    <3> QED BY <2>2, <3>1, <3>2
  <2>5. D!Bijection(1 .. N, 1 .. N) = Bijection(1 .. N, 1 .. N)
    BY DEF D!Bijection, D!Injection, D!Surjection, D!IsInjective,
           Bijection, Injection, Surjection, IsInjective
  <2> QED BY <1>10, <2>2, <2>4, <2>5 DEF D!SameElements
<1>14. ASSUME D!IsOrder(leq, ToSet(u))
       PROVE  \A i, j \in DOMAIN t : i < j => <<t[i], t[j]>> \in leq
  <2>1. Orderly(s, d, 1, N, leq)
    BY <1>11, <1>14 DEF Orderly
  <2>2. Ordered(s, e, 1, N, leq)
    BY <1>6, <2>1 DEF Done
  <2> QED BY <1>10, <2>2 DEF Ordered
<1>15. t \in D!Sorted(u, leq)
  <2>1. D!ToSet(u) = ToSet(u) /\ DOMAIN u = 1 .. N
    BY <1>10 DEF D!ToSet, ToSet
  <2> QED BY <1>12, <1>13, <1>14, <2>1 DEF D!Sorted
<1> QED BY <1>9, <1>15

-----------------------------------------------------------------------------
(* The calls.                                                               *)

LEMMA CallsAre ==
    ASSUME NEW c \in Calls
    PROVE  /\ c # NoCall /\ c # D!NoCall
           /\ \/ c.fn \in {"addHead", "addTail", "find"} /\ c.v \in Values
              \/ c.fn \in {"removeHead", "removeTail"}
              \/ c.fn = "sort" /\ c.v \in {0} \union DOMAIN Orders
BY DEF Calls, NoCall, D!NoCall

\* One thing or nothing is sorted as it is.
LEMMA ShortIsSorted ==
    ASSUME NEW u, NEW N \in 0 .. 1, u = [i \in 1 .. N |-> u[i]], NEW leq
    PROVE  u \in D!Sorted(u, leq)
<1>1. u \in [DOMAIN u -> D!ToSet(u)] /\ DOMAIN u = 1 .. N
  BY DEF D!ToSet
<1>2. D!SameElements(u, u)
  <2> PICK g : g = [i \in 1 .. N |-> i]
    OBVIOUS
  <2>1. g \in D!Bijection(1 .. N, 1 .. N)
    BY DEF D!Bijection, D!Injection, D!Surjection, D!IsInjective
  <2> QED BY <1>1, <2>1 DEF D!SameElements
<1>3. \A i, j \in DOMAIN u : i < j => <<u[i], u[j]>> \in leq
  BY <1>1
<1> QED BY <1>1, <1>2, <1>3 DEF D!Sorted

\* Each call keeps the list a ring, and does to what it holds, and returns, what
\* list.h promises.
LEMMA AfterIs ==
    ASSUME NEW s, Whole(list, s), NEW c \in Calls, HasRoom(c)
    PROVE  \E z : /\ Whole(After(c), z)
                  /\ <<ItemsOf(After(c), z), Result(c)>> \in D!Outcomes(c, ItemsOf(list, s))
<1> PICK u : u = ItemsOf(list, s)
  OBVIOUS
<1>1. /\ u \in Seq(Things) /\ Len(u) = list.len /\ list.len \in Nat
      /\ \A i \in 1 .. list.len : u[i] = list.data[s[i]]
      /\ Ring(list, s) /\ DOMAIN u = 1 .. list.len
  BY ItemsAre DEF Whole
<1>2. list.len = 0 <=> u = <<>>
  BY <1>1
<1> PICK m : m = After(c)
  OBVIOUS
<1> PICK r : r = Result(c)
  OBVIOUS
<1> SUFFICES \E z : Whole(m, z) /\ <<ItemsOf(m, z), r>> \in D!Outcomes(c, u)
  OBVIOUS
<1>3. CASE c.fn = "addHead"
  <2>1. c.v \in Values /\ Unused(list) # {}
    BY <1>3, CallsAre DEF HasRoom
  <2>2. m = listAddHead(list, c.v) /\ r = 0
    BY <1>3 DEF After, Result
  <2>3. \E z : Whole(m, z) /\ ItemsOf(m, z) = <<c.v>> \o u
    BY <2>1, <2>2, AddHeadItems
  <2>4. <<<<c.v>> \o u, r>> \in D!Outcomes(c, u)
    BY <1>3, <2>2 DEF D!Outcomes
  <2> QED BY <2>3, <2>4
<1>4. CASE c.fn = "addTail"
  <2>1. c.v \in Values /\ Unused(list) # {}
    BY <1>4, CallsAre DEF HasRoom
  <2>2. m = listAddTail(list, c.v) /\ r = 0
    BY <1>4 DEF After, Result
  <2>3. \E z : Whole(m, z) /\ ItemsOf(m, z) = Append(u, c.v)
    BY <2>1, <2>2, AddTailItems
  <2>4. <<Append(u, c.v), r>> \in D!Outcomes(c, u)
    BY <1>4, <2>2 DEF D!Outcomes
  <2> QED BY <2>3, <2>4
<1>5. CASE c.fn = "removeHead"
  <2>1. D!Outcomes(c, u) = {IF u = <<>> THEN <<u, 0>> ELSE <<Tail(u), Head(u)>>}
    BY <1>5 DEF D!Outcomes
  <2>2. CASE list.len = 0
    <3>1. m = list /\ r = 0
      BY <1>5, <2>2 DEF After, Result
    <3> QED BY <1>2, <2>1, <2>2, <3>1
  <2>3. CASE list.len # 0
    <3>1. m = Removed(list, list.root) /\ r = list.data[list.root]
      BY <1>5, <2>3 DEF After, Result
    <3>2. /\ \E z : Whole(m, z) /\ ItemsOf(m, z) = Tail(u)
          /\ list.data[list.root] = Head(u)
      BY <2>3, <3>1, RemoveHeadItems
    <3>3. <<Tail(u), r>> \in D!Outcomes(c, u)
      BY <1>2, <2>1, <2>3, <3>1, <3>2
    <3> QED BY <3>2, <3>3
  <2> QED BY <2>2, <2>3
<1>6. CASE c.fn = "removeTail"
  <2>1. D!Outcomes(c, u) = {IF u = <<>> THEN <<u, 0>> ELSE <<Front(u), Last(u)>>}
    BY <1>6 DEF D!Outcomes, D!Front, D!Last, Front, Last
  <2>2. CASE list.len = 0
    <3>1. m = list /\ r = 0
      BY <1>6, <2>2 DEF After, Result
    <3> QED BY <1>2, <2>1, <2>2, <3>1
  <2>3. CASE list.len # 0
    <3>1. m = Removed(list, list.prev[list.root]) /\ r = list.data[list.prev[list.root]]
      BY <1>6, <2>3 DEF After, Result
    <3>2. /\ \E z : Whole(m, z) /\ ItemsOf(m, z) = Front(u)
          /\ list.data[list.prev[list.root]] = Last(u)
      BY <2>3, <3>1, RemoveTailItems
    <3>3. <<Front(u), r>> \in D!Outcomes(c, u)
      BY <1>2, <2>1, <2>3, <3>1, <3>2
    <3> QED BY <3>2, <3>3
  <2> QED BY <2>2, <2>3
<1>7. CASE c.fn = "find"
  <2>1. m = list /\ r = IF \E i \in 1 .. list.len : list.data[Visited(list)[i]] = c.v THEN c.v ELSE 0
    BY <1>7 DEF After, Result
  <2>2. Visited(list) = s
    BY <1>1, VisitedIs
  <2>3. c.v \in D!ToSet(u) <=> \E i \in 1 .. list.len : list.data[s[i]] = c.v
    BY <1>1 DEF D!ToSet
  <2>4. <<u, r>> \in D!Outcomes(c, u)
    BY <1>7, <2>1, <2>2, <2>3 DEF D!Outcomes
  <2> QED BY <2>1, <2>4
<1>8. CASE c.fn = "sort"
  <2>1. r = 0
    BY <1>8 DEF Result
  <2>2. D!Outcomes(c, u) = {<<t, 0>> : t \in IF c.v = 0 THEN {u} ELSE D!Sorted(u, Orders[c.v])}
    BY <1>8 DEF D!Outcomes
  <2>3. CASE c.v = 0
    <3>1. m = list
      BY <1>8, <2>3 DEF After, SortsNothing
    <3> QED BY <2>1, <2>2, <2>3, <3>1
  <2>4. CASE c.v # 0 /\ list.len <= 1
    <3>1. m = list
      BY <1>8, <2>4 DEF After, SortsNothing
    <3> PICK N \in 0 .. 1 : N = list.len
      BY <1>1, <2>4
    <3>2. u = [i \in 1 .. N |-> u[i]]
      BY <1>1
    <3>3. u \in D!Sorted(u, Orders[c.v])
      BY <3>2, ShortIsSorted
    <3> QED BY <2>1, <2>2, <2>4, <3>1, <3>3
  <2>5. CASE c.v # 0 /\ ~(list.len <= 1)
    <3>1. m = listQSort(list, Orders[c.v])
      BY <1>8, <2>5 DEF After, SortsNothing
    <3>2. list.len > 1
      BY <1>1, <2>5
    <3> PICK leq : leq = Orders[c.v]
      OBVIOUS
    <3>3. Whole(m, s) /\ ItemsOf(m, s) \in D!Sorted(u, leq)
      BY <3>1, <3>2, SortIs
    <3> QED BY <2>1, <2>2, <2>5, <3>3
  <2> QED BY <2>3, <2>4, <2>5
<1> QED BY <1>3, <1>4, <1>5, <1>6, <1>7, <1>8, CallsAre

LEMMA ResultIs ==
    ASSUME NEW s, Whole(list, s), NEW c \in Calls
    PROVE  Result(c) \in Things
<1>1. Ring(list, s) /\ list \in Lists /\ list.len \in Nat
  BY RingFacts DEF Whole, Ring
<1>2. list.len # 0 => list.root \in Nodes /\ list.prev[list.root] \in Nodes
  <2> SUFFICES ASSUME list.len # 0 PROVE list.root \in Nodes /\ list.prev[list.root] \in Nodes
    OBVIOUS
  <2>1. 1 \in 1 .. list.len /\ list.len \in 1 .. list.len
    BY <1>1
  <2>2. list.root = s[1] /\ list.prev[s[1]] = s[list.len]
    BY <1>1, <2>1 DEF Ring
  <2> QED BY <1>1, <2>1, <2>2, RingFacts
<1>3. \A n \in Nodes : list.data[n] \in Things
  BY <1>1 DEF Lists, Things
<1>4. c.fn \in {"addHead", "addTail", "find"} => c.v \in Values
  BY CallsAre
<1> QED BY <1>2, <1>3, <1>4 DEF Result, Things

-----------------------------------------------------------------------------
(* The invariant.                                                           *)

\* The thread that holds the lock is the one that is between taking it and giving it
\* back; a call is under way, and has given its result, as far as it has come.
Threaded ==
    /\ stage \in [Threads -> {"idle", "lock", "body", "unlock", "alone"}]
    /\ asked \in [Threads -> Calls \union {NoCall}]
    /\ given \in [Threads -> {<<>>} \union {<<v>> : v \in Things}]
    /\ lock \in Threads \union {Free, Stuck}
    /\ \A t \in Threads :
          /\ stage[t] \in {"body", "unlock"} <=> lock = t
          /\ asked[t] = NoCall <=> stage[t] = "idle"
          /\ given[t] = <<>> <=> stage[t] \in {"idle", "lock", "body"}

Inv == Threaded /\ \E s : Whole(list, s)

LEMMA InitInv == ListInit => Inv
<1> SUFFICES ASSUME ListInit PROVE Inv
  OBVIOUS
<1>1. Threaded
  BY ListAssumption DEF ListInit, Threaded, NoCall
<1> PICK s : s = [i \in 1 .. 0 |-> Nil]
  OBVIOUS
<1>2. list = Empty /\ Empty \in Lists /\ Empty.len = 0 /\ Empty.root = Nil
  BY DEF ListInit, Empty, Lists, Pointers
<1>3. s \in [1 .. 0 -> Nodes] /\ IsInjective(s) /\ Range(s) = {}
  BY DEF IsInjective, Range
<1>4. Ring(list, s)
  BY <1>2, <1>3 DEF Ring
<1>5. Unused(list) = Nodes
  BY <1>2 DEF Unused, Empty
<1> QED BY <1>1, <1>3, <1>4, <1>5 DEF Inv, Whole

LEMMA ListReleased ==
    ASSUME NEW s, Whole(list, s), listRelease
    PROVE  \E z : Whole(list', z) /\ ItemsOf(list', z) = <<>>
<1> PICK left : left = CHOOSE f : f = [i \in 0 .. list.len |->
                    IF i = 0 THEN list ELSE Removed(f[i - 1], f[i - 1].root)]
  OBVIOUS
<1>1. list' = left[list.len]
  BY DEF listRelease
<1>2. left[list.len].len = 0 /\ \E z : Whole(left[list.len], z)
  BY ReleaseIs
<1>3. PICK z : Whole(list', z)
  BY <1>1, <1>2
<1>4. list'.len = 0
  BY <1>1, <1>2
<1>5. ItemsOf(list', z) = <<>>
  <2>1. ItemsOf(list', z) \in Seq(Things) /\ Len(ItemsOf(list', z)) = 0
    BY <1>3, <1>4, ItemsAre DEF Whole
  <2> QED BY <2>1, EmptySeq
<1> QED BY <1>3, <1>5

\* No step of a thread lets two of them hold the lock, or a call forget where it is.
LEMMA NextThreaded ==
    ASSUME Inv, [ListNext]_listVars
    PROVE  Threaded'
<1> USE DEF Threaded
<1>1. PICK s : Whole(list, s)
  BY DEF Inv
<1>2. Threaded
  BY DEF Inv
<1>3. \A c \in Calls : c # NoCall
  BY CallsAre
<1>4. \A c \in Calls : <<Result(c)>> \in {<<>>} \union {<<v>> : v \in Things} /\ <<Result(c)>> # <<>>
  BY <1>1, ResultIs
<1>5. Free \notin Threads /\ Stuck \notin Threads /\ Free # Stuck
  BY ListAssumption
<1>6. ASSUME NEW t \in Threads, Call(t) PROVE Threaded'
  BY <1>2, <1>3, <1>6 DEF Call
<1>7. ASSUME NEW t \in Threads, Lock(t) PROVE Threaded'
  BY <1>2, <1>5, <1>7 DEF Lock
<1>8. ASSUME NEW t \in Threads, Body(t) PROVE Threaded'
  <2>1. asked[t] \in Calls /\ lock = t
    BY <1>2, <1>8 DEF Body
  <2>2. \E r \in Things : given' = [given EXCEPT ![t] = <<r>>]
    BY <1>1, <1>8, <2>1, ResultIs DEF Body
  <2>3. CASE SortsNothing(asked[t])
    BY <1>2, <1>5, <1>8, <2>1, <2>2, <2>3 DEF Body
  <2>4. CASE ~SortsNothing(asked[t])
    BY <1>2, <1>5, <1>8, <2>1, <2>2, <2>4 DEF Body
  <2> QED BY <2>3, <2>4
<1>9. ASSUME NEW t \in Threads, Return(t) PROVE Threaded'
  BY <1>2, <1>5, <1>9 DEF Return
<1>10. ASSUME NEW t \in Threads, CallAlone(t) PROVE Threaded'
  <2>1. PICK c \in Calls : asked' = [asked EXCEPT ![t] = c] /\ given' = [given EXCEPT ![t] = <<Result(c)>>]
    BY <1>10 DEF CallAlone
  <2> PICK r : r = Result(c)
    OBVIOUS
  <2>2. r \in Things
    BY <1>1, ResultIs
  <2> QED BY <1>2, <1>3, <1>10, <2>1, <2>2 DEF CallAlone, Alone
<1>11. CASE AppendAlone
  BY <1>2, <1>11 DEF AppendAlone
<1>12. CASE listRelease
  BY <1>2, <1>5, <1>12 DEF listRelease, Alone
<1>13. CASE UNCHANGED listVars
  BY <1>2, <1>13 DEF listVars
<1> QED BY <1>6, <1>7, <1>8, <1>9, <1>10, <1>11, <1>12, <1>13 DEF ListNext, Step

\* Nor does any leave anything but a ring.
LEMMA NextWhole ==
    ASSUME Inv, [ListNext]_listVars
    PROVE  \E z : Whole(list', z)
<1>1. PICK s : Whole(list, s)
  BY DEF Inv
<1>2. Threaded
  BY DEF Inv
<1>3. ASSUME NEW t \in Threads, Body(t) PROVE \E z : Whole(list', z)
  <2>1. asked[t] \in Calls /\ HasRoom(asked[t]) /\ list' = After(asked[t])
    BY <1>2, <1>3 DEF Body, Threaded
  <2> QED BY <1>1, <2>1, AfterIs
<1>4. ASSUME NEW t \in Threads, CallAlone(t) PROVE \E z : Whole(list', z)
  <2>1. PICK c \in Calls : HasRoom(c) /\ list' = After(c)
    BY <1>4 DEF CallAlone
  <2> QED BY <1>1, <2>1, AfterIs
<1>5. CASE AppendAlone
  <2>1. PICK vs \in Extras : Len(vs) <= Cardinality(Unused(list)) /\ list' = listAppendListTail(vs)
    BY <1>5 DEF AppendAlone
  <2>2. vs \in Seq(Values)
    BY ListAssumption
  <2> QED BY <1>1, <2>1, <2>2, AppendIs
<1>6. CASE listRelease
  BY <1>1, <1>6, ListReleased
<1>7. CASE list' = list
  BY <1>1, <1>7
<1> QED BY <1>3, <1>4, <1>5, <1>6, <1>7 DEF ListNext, listVars, Call, Step, Lock, Return

\* The list is always a ring, the lock held by who is between taking it and giving it
\* back, and a call has given its result once it has done its work.
THEOREM ListInvariance == ListSpec => []Inv
<1>1. Inv /\ [ListNext]_listVars => Inv'
  BY NextThreaded, NextWhole DEF Inv
<1> QED BY <1>1, InitInv, PTL DEF ListSpec

\* Whatever calls come together, next and prev stay inverse to each other, over one ring
\* of len nodes with the root in it, and every other node is free: list.c loses no node.
THEOREM RingSound == ListSpec => []RingIsSound
<1>1. Inv => RingIsSound
  BY WholeIsSound DEF Inv
<1> QED BY <1>1, ListInvariance, PTL

\* No call waits for a lock that nobody will give back, unless listQSort has returned
\* early and kept it.
THEOREM OnlySortStrandsCalls == ListSpec => []OnlySortStrands
<1>1. Inv => OnlySortStrands
  <2> SUFFICES ASSUME Inv, lock # Stuck, NEW u \in Threads, stage[u] # "idle"
               PROVE  \E t \in Threads : stage[t] # "idle" /\ ~Waits(t)
    BY DEF OnlySortStrands
  <2>1. CASE lock = Free
    BY <2>1 DEF Waits
  <2>2. CASE lock \in Threads
    <3>1. stage[lock] \in {"body", "unlock"}
      BY <2>2 DEF Inv, Threaded
    <3> QED BY <2>2, <3>1 DEF Waits
  <2> QED BY <2>1, <2>2 DEF Inv, Threaded
<1> QED BY <1>1, ListInvariance, PTL

-----------------------------------------------------------------------------
(* The refinement.                                                          *)

LEMMA ContentsNext ==
    ASSUME NEW z, Ring(list', z)
    PROVE  Contents' = ItemsOf(list', z)
<1> PICK l : l = list'
  OBVIOUS
<1>1. Visited(l) = z
  BY VisitedIs
<1>2. Contents' = [i \in 1 .. l.len |-> l.data[Visited(l)[i]]]
  BY DEF Contents
<1> QED BY <1>1, <1>2 DEF ItemsOf

LEMMA InitIsDeque == ListInit => D!Init
<1> SUFFICES ASSUME ListInit PROVE D!Init
  OBVIOUS
<1>1. list.len = 0
  BY DEF ListInit, Empty
<1>2. Contents = <<>>
  BY <1>1 DEF Contents
<1> QED BY <1>2 DEF ListInit, D!Init, NoCall, D!NoCall

\* A call, wherever it is made, takes effect as that of a sequence.
LEMMA TakesEffect ==
    ASSUME Inv, NEW c \in Calls, HasRoom(c), list' = After(c)
    PROVE  <<Contents', Result(c)>> \in D!Outcomes(c, Contents)
<1>1. PICK s : Whole(list, s)
  BY DEF Inv
<1>2. PICK z : /\ Whole(After(c), z)
               /\ <<ItemsOf(After(c), z), Result(c)>> \in D!Outcomes(c, ItemsOf(list, s))
  BY <1>1, AfterIs
<1>3. Contents = ItemsOf(list, s)
  BY <1>1, ContentsAre DEF Whole
<1>4. Contents' = ItemsOf(list', z)
  BY <1>2, ContentsNext DEF Whole
<1> QED BY <1>2, <1>3, <1>4

LEMMA NextIsDeque ==
    ASSUME Inv, [ListNext]_listVars
    PROVE  [D!Next]_<<Contents, asked, given>>
<1> DEFINE Goal == D!Next \/ UNCHANGED <<Contents, asked, given>>
<1>1. Threaded
  BY DEF Inv
<1>2. \A c \in Calls \union {NoCall} : c = NoCall <=> c = D!NoCall
  BY DEF NoCall, D!NoCall
<1>3. list' = list => Contents' = Contents
  BY DEF Contents
<1>4. Alone => \A u \in Threads : asked[u] = D!NoCall
  BY <1>1, <1>2 DEF Alone, Threaded
<1>5. ASSUME NEW t \in Threads, Call(t) PROVE Goal
  <2>1. asked[t] = D!NoCall
    BY <1>1, <1>2, <1>5 DEF Call, Threaded
  <2>2. D!Call(t)
    BY <1>3, <1>5, <2>1 DEF Call, D!Call
  <2> QED BY <2>2 DEF D!Next
<1>6. ASSUME NEW t \in Threads, Lock(t) PROVE Goal
  BY <1>3, <1>6 DEF Lock
<1>7. ASSUME NEW t \in Threads, Body(t) PROVE Goal
  <2> PICK c : c = asked[t]
    OBVIOUS
  <2>1. c \in Calls /\ asked[t] # D!NoCall /\ given[t] = <<>>
    BY <1>1, <1>2, <1>7 DEF Body, Threaded
  <2>2. HasRoom(c) /\ list' = After(c) /\ given' = [given EXCEPT ![t] = <<Result(c)>>]
    BY <1>7 DEF Body
  <2>3. <<Contents', Result(c)>> \in D!Outcomes(c, Contents)
    BY <2>1, <2>2, TakesEffect
  <2> PICK o : o = <<Contents', Result(c)>>
    OBVIOUS
  <2>4. o \in D!Outcomes(asked[t], Contents) /\ o[1] = Contents' /\ o[2] = Result(c)
    BY <2>3
  <2>5. Contents' = o[1] /\ given' = [given EXCEPT ![t] = <<o[2]>>] /\ asked' = asked
    BY <1>7, <2>2, <2>4 DEF Body
  <2>6. D!TakeEffect(t)
    BY <2>1, <2>4, <2>5 DEF D!TakeEffect
  <2> QED BY <2>6 DEF D!Next
<1>8. ASSUME NEW t \in Threads, Return(t) PROVE Goal
  <2>1. given[t] # <<>>
    BY <1>1, <1>8 DEF Return, Threaded
  <2>2. D!Return(t)
    BY <1>3, <1>8, <2>1 DEF Return, D!Return, NoCall, D!NoCall
  <2> QED BY <2>2 DEF D!Next
<1>9. ASSUME NEW t \in Threads, CallAlone(t) PROVE Goal
  <2>1. PICK c \in Calls : /\ HasRoom(c) /\ asked' = [asked EXCEPT ![t] = c]
                           /\ list' = After(c) /\ given' = [given EXCEPT ![t] = <<Result(c)>>]
    BY <1>9 DEF CallAlone
  <2>2. <<Contents', Result(c)>> \in D!Outcomes(c, Contents)
    BY <2>1, TakesEffect
  <2> PICK o : o = <<Contents', Result(c)>>
    OBVIOUS
  <2>3. /\ o \in D!Outcomes(c, Contents)
        /\ Contents' = o[1] /\ given' = [given EXCEPT ![t] = <<o[2]>>]
    BY <2>1, <2>2
  <2>4. D!CallAlone(t)
    BY <1>4, <1>9, <2>1, <2>3 DEF CallAlone, D!CallAlone
  <2> QED BY <2>4 DEF D!Next
<1>10. CASE AppendAlone
  <2>1. PICK vs \in Extras : Len(vs) <= Cardinality(Unused(list)) /\ list' = listAppendListTail(vs)
    BY <1>10 DEF AppendAlone
  <2>2. PICK s : Whole(list, s)
    BY DEF Inv
  <2>3. vs \in Seq(Values)
    BY ListAssumption
  <2>4. PICK z : Whole(list', z) /\ ItemsOf(list', z) = ItemsOf(list, s) \o vs
    BY <2>1, <2>2, <2>3, AppendIs
  <2>5. Contents' = Contents \o vs
    BY <2>2, <2>4, ContentsAre, ContentsNext DEF Whole
  <2>6. D!Replace
    BY <1>4, <1>10, <2>5 DEF AppendAlone, D!Replace
  <2> QED BY <2>6 DEF D!Next
<1>11. CASE listRelease
  <2>1. PICK s : Whole(list, s)
    BY DEF Inv
  <2>2. PICK z : Whole(list', z) /\ ItemsOf(list', z) = <<>>
    BY <1>11, <2>1, ListReleased
  <2>3. Contents' = <<>>
    BY <2>2, ContentsNext DEF Whole
  <2>4. D!Replace
    BY <1>4, <1>11, <2>3 DEF listRelease, D!Replace
  <2> QED BY <2>4 DEF D!Next
<1>12. CASE UNCHANGED listVars
  BY <1>3, <1>12 DEF listVars
<1> QED BY <1>5, <1>6, <1>7, <1>8, <1>9, <1>10, <1>11, <1>12 DEF ListNext, Step

\* Each call of list.h, by however many threads, does at one moment between its start and
\* its return what it would do to a sequence; listQSort sorts by what is an order, and by
\* anything else only rearranges.
THEOREM DequeImplemented == ListSpec => ImplementsDeque
<1> QED BY InitIsDeque, NextIsDeque, ListInvariance, PTL DEF ListSpec, ImplementsDeque, D!Spec

=============================================================================
