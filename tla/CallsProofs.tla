---------------------------- MODULE CallsProofs ----------------------------
(***************************************************************************)
(* What the functions without state compute, for texts, patterns and limits *)
(* of any size.                                                             *)
(***************************************************************************)
EXTENDS Calls, FiniteSetTheorems, SequenceTheorems, TLAPS

-----------------------------------------------------------------------------
(* Numbers.                                                                 *)

\* A set of natural numbers that is not empty has a least element.
LEMMA LeastNatural ==
    ASSUME NEW S \in SUBSET Nat, S # {}
    PROVE  \E m \in S : \A n \in S : m <= n
<1>1. PICK m \in S : \A n \in S : ~ (<<n, m>> \in OpToRel(<, Nat))
  BY NatLessThanWellFounded, WFMin
<1>2. ASSUME NEW n \in S PROVE m <= n
  <2>1. <<n, m>> \notin OpToRel(<, Nat)
    BY <1>1
  <2>2. <<n, m>> \in Nat \X Nat
    OBVIOUS
  <2>3. ~(n < m)
    BY <2>1, <2>2 DEF OpToRel
  <2> QED BY <2>3
<1> QED BY <1>2

\* What holds of 0, and of each number when it holds of the one before, holds of all.
LEMMA UpTo ==
    ASSUME NEW n \in Nat, NEW P, 0 \in P, \A i \in 1 .. n : i - 1 \in P => i \in P
    PROVE  \A i \in 0 .. n : i \in P
<1> DEFINE Bad == {i \in 0 .. n : i \notin P}
<1>1. SUFFICES ASSUME Bad # {} PROVE FALSE
  OBVIOUS
<1>2. PICK m \in Bad : \A k \in Bad : m <= k
  <2>1. Bad \in SUBSET Nat
    OBVIOUS
  <2> HIDE DEF Bad
  <2> QED BY <1>1, <2>1, LeastNatural
<1>3. m \in 0 .. n /\ m \notin P /\ m # 0
  BY <1>2
<1>4. m \in 1 .. n /\ m - 1 \in 0 .. n /\ m - 1 \notin Bad
  BY <1>2, <1>3
<1> QED BY <1>3, <1>4

-----------------------------------------------------------------------------
(* Prefixes of a pattern at the end of a text.                              *)

\* The first k characters of p are the last k of the first i of x.
Ends(p, x, i, k, fold) ==
    /\ k \in 0 .. i
    /\ k <= Len(p)
    /\ \A j \in 1 .. k : fold[x[(i - k) + j]] = fold[p[j]]

\* Of the prefixes of p no longer than bound that end there, that of length q is longest.
Longest(p, x, i, q, bound, fold) == \A k \in 0 .. bound : Ends(p, x, i, k, fold) => k <= q

\* A prefix of a prefix that ends there ends there.
LEMMA EndsTrans ==
    ASSUME NEW p, NEW x, NEW fold, Len(p) \in Nat, NEW i \in Nat, NEW q \in Nat, NEW r \in Nat,
           Ends(p, x, i, q, fold), Ends(p, p, q, r, fold)
    PROVE  Ends(p, x, i, r, fold)
<1>1. q \in 0 .. i /\ r \in 0 .. q /\ r <= Len(p)
  BY DEF Ends
<1>2. ASSUME NEW j \in 1 .. r PROVE fold[x[(i - r) + j]] = fold[p[j]]
  <2>1. PICK d \in 1 .. q : d = (q - r) + j
    BY <1>1
  <2>2. fold[x[(i - q) + d]] = fold[p[d]]
    BY DEF Ends
  <2>3. fold[p[(q - r) + j]] = fold[p[j]]
    BY DEF Ends
  <2>4. (i - q) + d = (i - r) + j
    BY <1>1, <2>1
  <2> QED BY <2>1, <2>2, <2>3, <2>4
<1> QED BY <1>1, <1>2 DEF Ends

\* Of two prefixes that end there, the shorter ends the longer.
LEMMA EndsBack ==
    ASSUME NEW p, NEW x, NEW fold, Len(p) \in Nat, NEW i \in Nat, NEW q \in Nat, NEW r \in 0 .. q,
           Ends(p, x, i, q, fold), Ends(p, x, i, r, fold)
    PROVE  Ends(p, p, q, r, fold)
<1>1. q \in 0 .. i /\ r <= Len(p)
  BY DEF Ends
<1>2. ASSUME NEW j \in 1 .. r PROVE fold[p[(q - r) + j]] = fold[p[j]]
  <2>1. PICK d \in 1 .. q : d = (q - r) + j
    BY <1>1
  <2>2. fold[x[(i - q) + d]] = fold[p[d]]
    BY DEF Ends
  <2>3. fold[x[(i - r) + j]] = fold[p[j]]
    BY DEF Ends
  <2>4. (i - q) + d = (i - r) + j
    BY <1>1, <2>1
  <2> QED BY <2>1, <2>2, <2>3, <2>4
<1> QED BY <1>1, <1>2 DEF Ends

\* A prefix and one character more end one character later, when that is the next.
LEMMA EndsNext ==
    ASSUME NEW p, NEW x, NEW fold, Len(p) \in Nat, NEW i \in Nat, NEW k \in Nat,
           Ends(p, x, i, k, fold), k < Len(p), fold[x[i + 1]] = fold[p[k + 1]]
    PROVE  Ends(p, x, i + 1, k + 1, fold)
<1>1. k + 1 \in 0 .. i + 1 /\ k + 1 <= Len(p)
  BY DEF Ends
<1>2. ASSUME NEW j \in 1 .. k + 1 PROVE fold[x[((i + 1) - (k + 1)) + j]] = fold[p[j]]
  <2>1. ((i + 1) - (k + 1)) + j = (i - k) + j
    OBVIOUS
  <2>2. CASE j = k + 1
    <3>1. (i - k) + j = i + 1
      BY <2>2
    <3> QED BY <2>1, <2>2, <3>1
  <2>3. CASE j # k + 1
    <3>1. j \in 1 .. k
      BY <2>3
    <3>2. fold[x[(i - k) + j]] = fold[p[j]]
      BY <3>1 DEF Ends
    <3> QED BY <2>1, <3>2
  <2> QED BY <2>2, <2>3
<1> QED BY <1>1, <1>2 DEF Ends

\* A prefix that ends there, and goes on with the next character.
EndsAndGoesOn(p, x, i, k, fold) ==
    Ends(p, x, i, k, fold) /\ k < Len(p) /\ fold[x[i + 1]] = fold[p[k + 1]]

\* And the other way round.
LEMMA EndsBefore ==
    ASSUME NEW p, NEW x, NEW fold, Len(p) \in Nat, NEW i \in Nat, NEW k \in Nat,
           NEW next, next = i + 1, NEW longer, longer = k + 1, Ends(p, x, next, longer, fold)
    PROVE  EndsAndGoesOn(p, x, i, k, fold)
<1>1. k \in 0 .. i /\ k < Len(p)
  BY DEF Ends
<1>2. \A j \in 1 .. k + 1 : fold[x[((i + 1) - (k + 1)) + j]] = fold[p[j]]
  BY DEF Ends
<1>3. ASSUME NEW j \in 1 .. k PROVE fold[x[(i - k) + j]] = fold[p[j]]
  <2>1. ((i + 1) - (k + 1)) + j = (i - k) + j /\ j \in 1 .. k + 1
    BY <1>1
  <2> QED BY <1>2, <2>1
<1>4. fold[x[i + 1]] = fold[p[k + 1]]
  <2>1. ((i + 1) - (k + 1)) + (k + 1) = i + 1 /\ k + 1 \in 1 .. k + 1
    BY <1>1
  <2> QED BY <1>2, <2>1
<1> QED BY <1>1, <1>3, <1>4 DEF Ends, EndsAndGoesOn

\* Nothing ends anywhere; and a prefix ends itself.
LEMMA EndsAlways ==
    ASSUME NEW p, NEW x, NEW fold, Len(p) \in Nat, NEW i \in Nat
    PROVE  Ends(p, x, i, 0, fold) /\ (i <= Len(p) => Ends(p, p, i, i, fold))
<1>1. Ends(p, x, i, 0, fold)
  BY DEF Ends
<1>2. ASSUME i <= Len(p) PROVE Ends(p, p, i, i, fold)
  <2>1. ASSUME NEW j \in 1 .. i PROVE fold[p[(i - i) + j]] = fold[p[j]]
    <3>1. (i - i) + j = j
      OBVIOUS
    <3> QED BY <3>1
  <2> QED BY <1>2, <2>1 DEF Ends
<1> QED BY <1>1, <1>2

-----------------------------------------------------------------------------
(* The prefix table, and the step of the matcher.                           *)

\* The table gives for each prefix a shorter one that it ends with; with
\* LongestBorders, the longest.
Borders(p, t, fold) ==
    /\ Len(t) \in Nat
    /\ Len(t) <= Len(p)
    /\ \A i \in 1 .. Len(t) : t[i] \in 0 .. i - 1 /\ Ends(p, p, i, t[i], fold)
LongestBorders(p, t, fold) == \A i \in 1 .. Len(t) : Longest(p, p, i, t[i], i - 1, fold)

\* The function by which Matched follows the table.
Follows(b, n, p, t, fold, c) ==
    b = [q \in 0 .. n |-> IF q > 0 /\ fold[p[q + 1]] # fold[c] THEN b[t[q]] ELSE q]

LEMMA FollowsExists ==
    ASSUME NEW p, NEW t, NEW fold, NEW c, NEW n \in Nat,
           \A i \in 1 .. n : t[i] \in 0 .. i - 1
    PROVE  \E b : Follows(b, n, p, t, fold, c)
<1> DEFINE P == {i \in 0 .. n : \E b : Follows(b, i, p, t, fold, c)}
<1>1. 0 \in P
  <2>1. Follows([q \in 0 .. 0 |-> q], 0, p, t, fold, c)
    BY DEF Follows
  <2> QED BY <2>1
<1>2. ASSUME NEW m \in 1 .. n, m - 1 \in P PROVE m \in P
  <2>1. PICK f : Follows(f, m - 1, p, t, fold, c)
    BY <1>2
  <2> DEFINE body(g, q) == IF q > 0 /\ fold[p[q + 1]] # fold[c] THEN g[t[q]] ELSE q
             g == [q \in 0 .. m |-> IF q < m THEN f[q] ELSE body(f, m)]
  <2>2. ASSUME NEW q \in 0 .. m PROVE g[q] = body(g, q)
    <3>1. q > 0 => t[q] \in 0 .. q - 1
      OBVIOUS
    <3>2. q > 0 => g[t[q]] = f[t[q]]
      BY <3>1
    <3>3. CASE q = m
      BY <3>2, <3>3
    <3>4. CASE q < m
      <4>1. q \in 0 .. m - 1 /\ g[q] = f[q]
        BY <3>4
      <4>2. f[q] = body(f, q)
        BY <2>1, <4>1 DEF Follows
      <4> QED BY <3>2, <4>1, <4>2
    <3> QED BY <3>3, <3>4
  <2>3. g = [q \in 0 .. m |-> body(g, q)]
    <3>1. g = [q \in 0 .. m |-> g[q]]
      OBVIOUS
    <3> HIDE DEF g
    <3> QED BY <2>2, <3>1
  <2>4. Follows(g, m, p, t, fold, c)
    BY <2>3 DEF Follows
  <2>5. \E b : Follows(b, m, p, t, fold, c)
    BY <2>4
  <2> QED BY <2>5
<1> HIDE DEF P
<1>3. \A i \in 0 .. n : i \in P
  BY <1>1, <1>2, UpTo
<1>4. n \in P
  BY <1>3
<1> QED BY <1>4 DEF P

\* Where the table leads: a prefix that ends the one it starts from, and from which c
\* goes on unless it is empty.
Leads(p, fold, c, q, r) ==
    /\ r \in 0 .. q
    /\ Ends(p, p, q, r, fold)
    /\ r = 0 \/ fold[p[r + 1]] = fold[c]

\* No longer prefix that ends it goes on with c.
LeadsFar(p, fold, c, q, r) ==
    \A k \in 0 .. q : Ends(p, p, q, k, fold) /\ fold[p[k + 1]] = fold[c] => k <= r

LEMMA FollowsLeads ==
    ASSUME NEW p, NEW t, NEW fold, NEW c, NEW b, Len(p) \in Nat, Len(t) > 0,
           Borders(p, t, fold), Follows(b, Len(t) - 1, p, t, fold, c),
           NEW q \in 0 .. Len(t) - 1
    PROVE  /\ Leads(p, fold, c, q, b[q])
           /\ LongestBorders(p, t, fold) => LeadsFar(p, fold, c, q, b[q])
<1> DEFINE Good(i) == /\ Leads(p, fold, c, i, b[i])
                      /\ LongestBorders(p, t, fold) => LeadsFar(p, fold, c, i, b[i])
           n == Len(t) - 1
           P == {i \in 0 .. n : \A j \in 0 .. i : Good(j)}
<1>0. n \in Nat /\ Len(t) \in Nat /\ Len(t) <= Len(p)
  BY DEF Borders
<1>1. ASSUME NEW i \in 0 .. n
      PROVE b[i] = IF i > 0 /\ fold[p[i + 1]] # fold[c] THEN b[t[i]] ELSE i
  BY DEF Follows
<1>2. ASSUME NEW i \in 0 .. n, ~ (i > 0 /\ fold[p[i + 1]] # fold[c]) PROVE Good(i)
  <2>1. b[i] = i
    BY <1>1, <1>2
  <2>2. i \in Nat /\ i <= Len(p)
    BY <1>0
  <2>3. Ends(p, p, i, i, fold)
    BY <2>2, EndsAlways
  <2>4. Leads(p, fold, c, i, i)
    BY <1>2, <2>2, <2>3 DEF Leads
  <2>5. LeadsFar(p, fold, c, i, i)
    BY DEF LeadsFar
  <2> QED BY <2>1, <2>4, <2>5
<1>3. ASSUME NEW i \in 1 .. n, fold[p[i + 1]] # fold[c], Good(t[i]) PROVE Good(i)
  <2>1. PICK a : a = t[i]
    OBVIOUS
  <2>2. a \in 0 .. i - 1 /\ Ends(p, p, i, a, fold)
    BY <1>0, <2>1 DEF Borders
  <2>3. PICK r : r = b[i]
    OBVIOUS
  <2>4. r = b[a]
    BY <1>1, <1>3, <2>1, <2>3
  <2>5. Leads(p, fold, c, a, r) /\ (LongestBorders(p, t, fold) => LeadsFar(p, fold, c, a, r))
    BY <1>3, <2>1, <2>4
  <2>6. r \in 0 .. a /\ Ends(p, p, a, r, fold) /\ (r = 0 \/ fold[p[r + 1]] = fold[c])
    BY <2>5 DEF Leads
  <2>7. i \in Nat /\ a \in Nat /\ r \in Nat
    BY <2>2, <2>6
  <2>8. Ends(p, p, i, r, fold)
    BY ONLY EndsTrans, <2>2, <2>6, <2>7, Len(p) \in Nat
  <2>9. Leads(p, fold, c, i, r)
    BY <2>2, <2>6, <2>8 DEF Leads
  <2>10. ASSUME LongestBorders(p, t, fold) PROVE LeadsFar(p, fold, c, i, r)
    <3>1. SUFFICES ASSUME NEW k \in 0 .. i, Ends(p, p, i, k, fold), fold[p[k + 1]] = fold[c]
                   PROVE  k <= r
      BY DEF LeadsFar
    <3>2. k \in 0 .. i - 1
      BY <1>3, <3>1
    <3>3. Longest(p, p, i, a, i - 1, fold)
      BY <1>0, <2>1, <2>10 DEF LongestBorders
    <3>4. k \in 0 .. a
      BY <3>1, <3>2, <3>3, <2>2 DEF Longest
    <3>5. Ends(p, p, a, k, fold)
      BY ONLY EndsBack, <2>2, <2>7, <3>1, <3>4, Len(p) \in Nat
    <3>6. LeadsFar(p, fold, c, a, r)
      BY <2>5, <2>10
    <3> QED BY <3>1, <3>4, <3>5, <3>6 DEF LeadsFar
  <2> QED BY <2>3, <2>9, <2>10
<1>4. 0 \in P
  <2>1. Good(0)
    BY <1>0, <1>2
  <2> HIDE DEF Good, n
  <2> QED BY <1>0, <2>1
<1>5. ASSUME NEW m \in 1 .. n, m - 1 \in P PROVE m \in P
  <2>1. \A j \in 0 .. m - 1 : Good(j)
    BY <1>5
  <2>2. t[m] \in 0 .. m - 1
    BY <1>0 DEF Borders
  <2>3. Good(t[m])
    BY <2>1, <2>2
  <2>4. Good(m)
    <3>1. CASE fold[p[m + 1]] # fold[c]
      BY <1>3, <2>3, <3>1
    <3>2. CASE fold[p[m + 1]] = fold[c]
      BY <1>2, <3>2
    <3> QED BY <3>1, <3>2
  <2> HIDE DEF Good, n
  <2>5. ASSUME NEW j \in 0 .. m PROVE Good(j)
    <3>1. CASE j = m
      BY <2>4, <3>1
    <3>2. CASE j # m
      BY <2>1, <3>2
    <3> QED BY <3>1, <3>2
  <2> QED BY <1>0, <2>5
<1> HIDE DEF P, n
<1>6. \A i \in 0 .. n : i \in P
  BY <1>0, <1>4, <1>5, UpTo
<1>7. q \in 0 .. n
  BY DEF n
<1>8. q \in P
  BY <1>6, <1>7
<1> HIDE DEF Good
<1>9. Good(q)
  BY <1>0, <1>7, <1>8 DEF P
<1> QED BY <1>9 DEF Good

\* What is matched once c has been read goes one character on from where the table
\* leads, or is nothing.
MatchedFrom(p, t, fold, c, q, r) ==
    /\ Leads(p, fold, c, q, r)
    /\ LongestBorders(p, t, fold) => LeadsFar(p, fold, c, q, r)
    /\ Matched(p, t, fold, c, q) = IF fold[p[r + 1]] = fold[c] THEN r + 1 ELSE r

LEMMA MatchedLeads ==
    ASSUME NEW p, NEW t, NEW fold, NEW c, Len(p) \in Nat, Len(t) > 0, Borders(p, t, fold),
           NEW q \in 0 .. Len(t) - 1
    PROVE  \E r : MatchedFrom(p, t, fold, c, q, r)
<1> DEFINE n == Len(t) - 1
           back == CHOOSE b : b = [i \in 0 .. Len(t) - 1 |->
                                      IF i > 0 /\ fold[p[i + 1]] # fold[c] THEN b[t[i]] ELSE i]
<1>1. n \in Nat /\ \A i \in 1 .. n : t[i] \in 0 .. i - 1
  BY DEF Borders
<1>2. \E b : Follows(b, n, p, t, fold, c)
  <2> HIDE DEF n
  <2> QED BY <1>1, FollowsExists
<1>3. Follows(back, n, p, t, fold, c)
  BY <1>2 DEF Follows
<1>4. Matched(p, t, fold, c, q) = IF fold[p[back[q] + 1]] = fold[c] THEN back[q] + 1 ELSE back[q]
  BY DEF Matched
<1> HIDE DEF back
<1>5. /\ Leads(p, fold, c, q, back[q])
      /\ LongestBorders(p, t, fold) => LeadsFar(p, fold, c, q, back[q])
  BY <1>3, FollowsLeads
<1>6. MatchedFrom(p, t, fold, c, q, back[q])
  BY <1>4, <1>5 DEF MatchedFrom
<1> QED BY <1>6

\* One step of the matcher, over any text: what is matched ends where it now is; and is
\* the longest that does, if the table and what was matched before were.
LEMMA MatchedIs ==
    ASSUME NEW p, NEW t, NEW fold, NEW x, NEW i \in Nat, Len(p) \in Nat, Len(t) > 0,
           Borders(p, t, fold), NEW q \in 0 .. Len(t) - 1, Ends(p, x, i, q, fold)
    PROVE  \E r \in 0 .. q + 1 :
              /\ Matched(p, t, fold, x[i + 1], q) = r
              /\ Ends(p, x, i + 1, r, fold)
              /\ LongestBorders(p, t, fold) =>
                    \A bound \in 0 .. i :
                       Longest(p, x, i, q, bound, fold) => Longest(p, x, i + 1, r, bound + 1, fold)
<1>0. Len(t) \in Nat /\ Len(t) <= Len(p) /\ q \in Nat /\ i + 1 \in Nat
  BY DEF Borders
<1>1. PICK c : c = x[i + 1]
  OBVIOUS
<1>2. PICK r : /\ Leads(p, fold, c, q, r)
               /\ LongestBorders(p, t, fold) => LeadsFar(p, fold, c, q, r)
               /\ Matched(p, t, fold, c, q) = IF fold[p[r + 1]] = fold[c] THEN r + 1 ELSE r
  <2>1. \E r : MatchedFrom(p, t, fold, c, q, r)
    BY MatchedLeads
  <2> QED BY <2>1 DEF MatchedFrom
<1>3. r \in 0 .. q /\ Ends(p, p, q, r, fold) /\ (r = 0 \/ fold[p[r + 1]] = fold[c])
  BY <1>2 DEF Leads
<1>4. r \in Nat /\ r < Len(p)
  BY <1>0, <1>3
<1>5. Ends(p, x, i, r, fold)
  BY ONLY EndsTrans, <1>0, <1>3, <1>4, i \in Nat, Len(p) \in Nat, Ends(p, x, i, q, fold)
<1>6. PICK d : d = IF fold[p[r + 1]] = fold[c] THEN r + 1 ELSE r
  OBVIOUS
<1>7. d \in 0 .. q + 1 /\ Matched(p, t, fold, x[i + 1], q) = d
  BY <1>1, <1>2, <1>3, <1>6
<1>8. Ends(p, x, i + 1, d, fold)
  <2>1. CASE fold[p[r + 1]] = fold[c]
    <3>1. fold[x[i + 1]] = fold[p[r + 1]] /\ d = r + 1
      BY <1>1, <1>6, <2>1
    <3> QED BY <1>4, <1>5, <3>1, EndsNext
  <2>2. CASE fold[p[r + 1]] # fold[c]
    <3>1. d = 0
      BY <1>3, <1>6, <2>2
    <3> QED BY <1>0, <3>1, EndsAlways
  <2> QED BY <2>1, <2>2
<1>9. ASSUME LongestBorders(p, t, fold), NEW bound \in 0 .. i, Longest(p, x, i, q, bound, fold)
      PROVE  Longest(p, x, i + 1, d, bound + 1, fold)
  <2>1. SUFFICES ASSUME NEW k \in 0 .. bound + 1, Ends(p, x, i + 1, k, fold) PROVE k <= d
    BY DEF Longest
  <2>2. CASE k = 0
    BY <1>7, <2>2
  <2>3. CASE k # 0
    <3>1. PICK e \in 0 .. bound : k = e + 1
      BY <2>3
    <3>2. PICK next : next = i + 1
      OBVIOUS
    <3>3. Ends(p, x, i, e, fold) /\ e < Len(p) /\ fold[x[i + 1]] = fold[p[e + 1]]
      <4>1. e \in Nat /\ Ends(p, x, next, k, fold)
        BY <2>1, <3>1, <3>2
      <4>2. EndsAndGoesOn(p, x, i, e, fold)
        BY ONLY EndsBefore, <3>1, <3>2, <4>1, i \in Nat, Len(p) \in Nat
      <4> QED BY <4>2 DEF EndsAndGoesOn
    <3>4. e \in 0 .. q
      BY <1>9, <3>1, <3>3 DEF Longest
    <3>5. Ends(p, p, q, e, fold)
      BY ONLY EndsBack, <1>0, <3>3, <3>4, i \in Nat, Len(p) \in Nat, Ends(p, x, i, q, fold)
    <3>6. LeadsFar(p, fold, c, q, r)
      BY <1>2, <1>9
    <3>7. e <= r
      BY <1>1, <3>3, <3>4, <3>5, <3>6 DEF LeadsFar
    <3>8. fold[p[r + 1]] = fold[c]
      <4>1. CASE r = 0
        <5>1. e = r
          BY <3>4, <3>7, <4>1
        <5> QED BY <1>1, <3>3, <5>1
      <4>2. CASE r # 0
        BY <1>3, <4>2
      <4> QED BY <4>1, <4>2
    <3>9. d = r + 1
      BY <1>6, <3>8
    <3> QED BY <1>4, <3>1, <3>7, <3>9
  <2> QED BY <2>2, <2>3
<1> QED BY <1>7, <1>8, <1>9

\* The function that builds the table.
Builds(f, n, p) == f = [i \in 0 .. n |-> IF i = 0 THEN <<>> ELSE Lengthened(p, f[i - 1], p[i])]

LEMMA BuildsExists ==
    ASSUME NEW p, NEW n \in Nat
    PROVE  \E f : Builds(f, n, p)
<1> DEFINE P == {i \in 0 .. n : \E f : Builds(f, i, p)}
<1>1. 0 \in P
  <2>1. Builds([i \in 0 .. 0 |-> <<>>], 0, p)
    BY DEF Builds
  <2> QED BY <2>1
<1>2. ASSUME NEW m \in 1 .. n, m - 1 \in P PROVE m \in P
  <2>1. PICK f : Builds(f, m - 1, p)
    BY <1>2
  <2> DEFINE g == [i \in 0 .. m |-> IF i < m THEN f[i] ELSE Lengthened(p, f[m - 1], p[m])]
  <2>2. ASSUME NEW i \in 0 .. m
        PROVE  g[i] = IF i = 0 THEN <<>> ELSE Lengthened(p, g[i - 1], p[i])
    <3>1. CASE i = m
      <4>1. g[m - 1] = f[m - 1] /\ g[m] = Lengthened(p, f[m - 1], p[m])
        OBVIOUS
      <4> QED BY <3>1, <4>1
    <3>2. CASE i < m
      <4>1. i \in 0 .. m - 1 /\ g[i] = f[i]
        BY <3>2
      <4>2. f[i] = IF i = 0 THEN <<>> ELSE Lengthened(p, f[i - 1], p[i])
        BY <2>1, <4>1 DEF Builds
      <4>3. i # 0 => g[i - 1] = f[i - 1]
        BY <3>2
      <4> QED BY <4>1, <4>2, <4>3
    <3> QED BY <3>1, <3>2
  <2>3. g = [i \in 0 .. m |-> IF i = 0 THEN <<>> ELSE Lengthened(p, g[i - 1], p[i])]
    <3>1. g = [i \in 0 .. m |-> g[i]]
      OBVIOUS
    <3> HIDE DEF g
    <3> QED BY <2>2, <3>1
  <2>4. Builds(g, m, p)
    BY <2>3 DEF Builds
  <2>5. \E f1 : Builds(f1, m, p)
    BY <2>4
  <2> QED BY <2>5
<1> HIDE DEF P
<1>3. \A i \in 0 .. n : i \in P
  BY <1>1, <1>2, UpTo
<1>4. n \in P
  BY <1>3
<1> QED BY <1>4 DEF P

\* One entry more.
LEMMA LengthenedIs ==
    ASSUME NEW p \in Seq(Chars), NEW t \in Seq(Nat), Len(t) < Len(p),
           Borders(p, t, Same), LongestBorders(p, t, Same)
    PROVE  /\ Lengthened(p, t, p[Len(t) + 1]) \in Seq(Nat)
           /\ Len(Lengthened(p, t, p[Len(t) + 1])) = Len(t) + 1
           /\ Borders(p, Lengthened(p, t, p[Len(t) + 1]), Same)
           /\ LongestBorders(p, Lengthened(p, t, p[Len(t) + 1]), Same)
<1>0. PICK n : n = Len(t)
  OBVIOUS
<1>1. n \in Nat /\ Len(p) \in Nat /\ n < Len(p)
  BY <1>0
<1>2. PICK v \in 0 .. n : /\ Lengthened(p, t, p[n + 1]) = Append(t, v)
                          /\ Ends(p, p, n + 1, v, Same)
                          /\ Longest(p, p, n + 1, v, n, Same)
  <2>1. CASE t = <<>>
    <3>1. n = 0
      BY <1>0, <2>1
    <3>2. Lengthened(p, t, p[n + 1]) = Append(t, 0)
      BY <2>1 DEF Lengthened
    <3>3. Ends(p, p, n + 1, 0, Same)
      BY <1>1, EndsAlways
    <3>4. Longest(p, p, n + 1, 0, n, Same)
      BY <3>1 DEF Longest
    <3> QED BY <1>1, <3>2, <3>3, <3>4
  <2>2. CASE t # <<>>
    <3>1. n > 0 /\ Last(t) = t[n]
      BY <1>0, <2>2 DEF Last
    <3>2. PICK q : q = t[n]
      OBVIOUS
    <3>3. q \in 0 .. n - 1 /\ Ends(p, p, n, q, Same)
      BY <1>0, <1>1, <3>1, <3>2 DEF Borders
    <3>4. PICK r \in 0 .. q + 1 :
             /\ Matched(p, t, Same, p[n + 1], q) = r
             /\ Ends(p, p, n + 1, r, Same)
             /\ LongestBorders(p, t, Same) =>
                   \A bound \in 0 .. n :
                      Longest(p, p, n, q, bound, Same) => Longest(p, p, n + 1, r, bound + 1, Same)
      <4>1. q \in 0 .. Len(t) - 1 /\ Len(t) > 0 /\ Len(p) \in Nat /\ n \in Nat
        BY <1>0, <1>1, <3>1, <3>3
      <4> QED BY ONLY MatchedIs, <4>1, <3>3, Borders(p, t, Same)
    <3>5. Longest(p, p, n, q, n - 1, Same)
      BY <1>0, <1>1, <3>1, <3>2 DEF LongestBorders
    <3>6. PICK bound \in 0 .. n : bound = n - 1
      BY <1>1, <3>1
    <3>7. Longest(p, p, n + 1, r, bound + 1, Same)
      BY <3>4, <3>5, <3>6
    <3>8. bound + 1 = n
      BY <1>1, <3>6
    <3>9. Longest(p, p, n + 1, r, n, Same)
      BY <3>7, <3>8
    <3>10. Lengthened(p, t, p[n + 1]) = Append(t, r)
      BY <2>2, <3>1, <3>2, <3>4 DEF Lengthened
    <3>11. r \in 0 .. n
      BY <1>1, <3>3
    <3> QED BY <3>4, <3>9, <3>10, <3>11
  <2> QED BY <2>1, <2>2
<1>3. PICK s : s = Append(t, v)
  OBVIOUS
<1>4. /\ s \in Seq(Nat) /\ Len(s) = n + 1
      /\ \A i \in 1 .. n : s[i] = t[i]
      /\ s[n + 1] = v
  BY <1>0, <1>3, AppendProperties
<1>5. Borders(p, s, Same)
  <2>1. ASSUME NEW i \in 1 .. n + 1 PROVE s[i] \in 0 .. i - 1 /\ Ends(p, p, i, s[i], Same)
    <3>1. CASE i = n + 1
      BY <1>1, <1>2, <1>4, <3>1
    <3>2. CASE i # n + 1
      <4>1. i \in 1 .. n
        BY <1>1, <3>2
      <4> QED BY <1>0, <1>4, <4>1 DEF Borders
    <3> QED BY <3>1, <3>2
  <2> QED BY <1>1, <1>4, <2>1 DEF Borders
<1>6. LongestBorders(p, s, Same)
  <2>1. ASSUME NEW i \in 1 .. n + 1 PROVE Longest(p, p, i, s[i], i - 1, Same)
    <3>1. CASE i = n + 1
      <4>1. i - 1 = n
        BY <1>1, <3>1
      <4> QED BY <1>2, <1>4, <3>1, <4>1
    <3>2. CASE i # n + 1
      <4>1. i \in 1 .. n
        BY <1>1, <3>2
      <4> QED BY <1>0, <1>4, <4>1 DEF LongestBorders
    <3> QED BY <3>1, <3>2
  <2> QED BY <1>4, <2>1 DEF LongestBorders
<1>7. Lengthened(p, t, p[Len(t) + 1]) = s
  BY <1>0, <1>2, <1>3
<1> QED BY <1>0, <1>4, <1>5, <1>6, <1>7

\* The prefix table of aoStrComputePrefixTable gives the longest borders of the pattern's
\* prefixes.
LEMMA PrefixTableIs ==
    ASSUME NEW p \in Seq(Chars)
    PROVE  /\ aoStrComputePrefixTable(p) \in Seq(Nat)
           /\ Len(aoStrComputePrefixTable(p)) = Len(p)
           /\ Borders(p, aoStrComputePrefixTable(p), Same)
           /\ LongestBorders(p, aoStrComputePrefixTable(p), Same)
<1> DEFINE n == Len(p)
           table == CHOOSE f : f = [i \in 0 .. Len(p) |->
                                       IF i = 0 THEN <<>> ELSE Lengthened(p, f[i - 1], p[i])]
           Good(t, i) == t \in Seq(Nat) /\ Len(t) = i /\ Borders(p, t, Same) /\ LongestBorders(p, t, Same)
           P == {i \in 0 .. n : Good(table[i], i)}
<1>1. n \in Nat
  OBVIOUS
<1>2. \E f : Builds(f, n, p)
  <2> HIDE DEF n
  <2> QED BY <1>1, BuildsExists
<1>3. Builds(table, n, p)
  BY <1>2 DEF Builds
<1>4. aoStrComputePrefixTable(p) = table[n]
  BY DEF aoStrComputePrefixTable
<1> HIDE DEF table
<1>5. /\ table[0] = <<>>
      /\ \A i \in 1 .. n : table[i] = Lengthened(p, table[i - 1], p[i])
  BY <1>1, <1>3 DEF Builds
<1>6. 0 \in P
  <2>1. Good(<<>>, 0)
    <3>1. Len(<<>>) = 0 /\ <<>> \in Seq(Nat)
      OBVIOUS
    <3>2. Borders(p, <<>>, Same)
      BY <1>1, <3>1 DEF Borders
    <3>3. LongestBorders(p, <<>>, Same)
      BY <3>1 DEF LongestBorders
    <3> QED BY <3>1, <3>2, <3>3
  <2> HIDE DEF Good
  <2> QED BY <1>1, <1>5, <2>1
<1>7. ASSUME NEW m \in 1 .. n, m - 1 \in P PROVE m \in P
  <2>1. PICK t : t = table[m - 1]
    OBVIOUS
  <2>2. t \in Seq(Nat) /\ Len(t) = m - 1 /\ Borders(p, t, Same) /\ LongestBorders(p, t, Same)
    BY <1>7, <2>1
  <2>3. Len(t) + 1 = m /\ Len(t) < Len(p)
    BY <1>1, <2>2
  <2>4. Good(Lengthened(p, t, p[Len(t) + 1]), Len(t) + 1)
    BY <2>2, <2>3, LengthenedIs
  <2>5. table[m] = Lengthened(p, t, p[Len(t) + 1])
    BY <1>5, <2>1, <2>3
  <2> HIDE DEF Good
  <2>6. Good(table[m], m)
    BY <2>3, <2>4, <2>5
  <2> QED BY <1>1, <2>6
<1> HIDE DEF P, n
<1>8. \A i \in 0 .. n : i \in P
  BY <1>1, <1>6, <1>7, UpTo
<1>9. n \in P
  BY <1>1, <1>8
<1> HIDE DEF Good
<1>10. Good(table[n], n)
  BY <1>9 DEF P
<1> QED BY <1>4, <1>10 DEF Good, n

-----------------------------------------------------------------------------
(* Search.                                                                  *)

LEMMA LeastIs ==
    ASSUME NEW S \in SUBSET Nat, S # {}
    PROVE  Min(S) \in S /\ \A n \in S : Min(S) <= n
<1>1. \E m \in S : \A n \in S : m <= n
  BY LeastNatural
<1> QED BY <1>1 DEF Min

\* What a function sees of a text is the part of it before the first terminator.
LEMMA CStringIs ==
    ASSUME NEW text \in Seq(Chars)
    PROVE  /\ CString(text) \in Seq(Chars) /\ Len(CString(text)) <= Len(text)
           /\ CString(text) # <<>> => CString(text)[1] = text[1]
<1> DEFINE I == {i \in 1 .. Len(text) : text[i] = NUL}
<1>1. Len(text) \in Nat /\ DOMAIN text = 1 .. Len(text)
  OBVIOUS
<1>2. CASE NUL \in ToSet(text)
  <2>1. I # {} /\ I \in SUBSET Nat
    BY <1>1, <1>2 DEF ToSet
  <2>2. CString(text) = SubSeq(text, 1, Min(I) - 1)
    BY <1>2, <2>1 DEF CString, SelectInSeq
  <2>3. Min(I) \in I
    <3> HIDE DEF I
    <3> QED BY <2>1, LeastIs
  <2>4. PICK m \in 0 .. Len(text) - 1 : m = Min(I) - 1
    <3>1. PICK k : k = Min(I)
      OBVIOUS
    <3>2. k \in 1 .. Len(text)
      BY <2>3, <3>1
    <3> HIDE DEF I
    <3>3. k - 1 \in 0 .. Len(text) - 1 /\ k - 1 = Min(I) - 1
      BY <1>1, <3>1, <3>2
    <3> QED BY <3>3
  <2>5. CString(text) = SubSeq(text, 1, m)
    BY <2>2, <2>4
  <2> HIDE DEF I
  <2>6. /\ SubSeq(text, 1, m) \in Seq(Chars) /\ Len(SubSeq(text, 1, m)) = m
        /\ m # 0 => SubSeq(text, 1, m)[1] = text[1]
    <3>1. SubSeq(text, 1, m) \in Seq(Chars) /\ Len(SubSeq(text, 1, m)) = m
      BY <1>1, <2>4
    <3>2. ASSUME m # 0 PROVE SubSeq(text, 1, m)[1] = text[1]
      <4>1. 1 \in 1 .. m
        BY <3>2
      <4>2. \A j \in 1 .. m : SubSeq(text, 1, m)[j] = text[(1 + j) - 1]
        BY <1>1, <3>2
      <4>3. (1 + 1) - 1 = 1
        OBVIOUS
      <4> QED BY <4>1, <4>2, <4>3
    <3> QED BY <3>1, <3>2
  <2> QED BY <1>1, <2>4, <2>5, <2>6
<1>3. CASE NUL \notin ToSet(text)
  BY <1>1, <1>3 DEF CString
<1> QED BY <1>2, <1>3

\* The function that goes over the text.
Scans(f, n, p, t, fold, str) ==
    f = [i \in 0 .. n |-> IF i = 0 THEN [q |-> 0, i |-> 0] ELSE ReadOn(p, t, fold, f[i - 1], str[i])]

LEMMA ScansExists ==
    ASSUME NEW p, NEW t, NEW fold, NEW str, NEW n \in Nat
    PROVE  \E f : Scans(f, n, p, t, fold, str)
<1> DEFINE a == [q |-> 0, i |-> 0]
           P == {i \in 0 .. n : \E f : Scans(f, i, p, t, fold, str)}
<1>1. 0 \in P
  <2>1. Scans([i \in 0 .. 0 |-> a], 0, p, t, fold, str)
    BY DEF Scans
  <2> QED BY <2>1
<1>2. ASSUME NEW m \in 1 .. n, m - 1 \in P PROVE m \in P
  <2>1. PICK f : Scans(f, m - 1, p, t, fold, str)
    BY <1>2
  <2> DEFINE g == [i \in 0 .. m |-> IF i < m THEN f[i] ELSE ReadOn(p, t, fold, f[m - 1], str[m])]
  <2>2. ASSUME NEW i \in 0 .. m
        PROVE  g[i] = IF i = 0 THEN a ELSE ReadOn(p, t, fold, g[i - 1], str[i])
    <3>1. CASE i = m
      <4>1. g[m - 1] = f[m - 1] /\ g[m] = ReadOn(p, t, fold, f[m - 1], str[m])
        OBVIOUS
      <4> QED BY <3>1, <4>1
    <3>2. CASE i < m
      <4>1. i \in 0 .. m - 1 /\ g[i] = f[i]
        BY <3>2
      <4>2. f[i] = IF i = 0 THEN a ELSE ReadOn(p, t, fold, f[i - 1], str[i])
        BY <2>1, <4>1 DEF Scans
      <4>3. i # 0 => g[i - 1] = f[i - 1]
        BY <3>2
      <4> QED BY <4>1, <4>2, <4>3
    <3> QED BY <3>1, <3>2
  <2>3. g = [i \in 0 .. m |-> IF i = 0 THEN a ELSE ReadOn(p, t, fold, g[i - 1], str[i])]
    <3>1. g = [i \in 0 .. m |-> g[i]]
      OBVIOUS
    <3> HIDE DEF g
    <3> QED BY <2>2, <3>1
  <2>4. Scans(g, m, p, t, fold, str)
    BY <2>3 DEF Scans
  <2>5. \E f1 : Scans(f1, m, p, t, fold, str)
    BY <2>4
  <2> QED BY <2>5
<1> HIDE DEF P
<1>3. \A i \in 0 .. n : i \in P
  BY <1>1, <1>2, UpTo
<1>4. n \in P
  BY <1>3
<1> QED BY <1>4 DEF P

\* After n characters: the first s.i of them are read, all unless the pattern has been
\* found; what is matched ends there.
Scanned(p, str, fold, n, s) ==
    /\ s.i \in 0 .. n
    /\ s.q \in 0 .. Len(p)
    /\ s.q < Len(p) => s.i = n
    /\ Ends(p, str, s.i, s.q, fold)

\* It is the longest that ends there, and the pattern ends nowhere before.
ScannedAll(p, str, fold, s) ==
    /\ Longest(p, str, s.i, s.q, s.i, fold)
    /\ \A i \in 0 .. s.i - 1 : ~ Ends(p, str, i, Len(p), fold)

LEMMA ReadOnIs ==
    ASSUME NEW p \in Seq(Chars), p # <<>>, NEW t, Len(t) = Len(p), NEW fold, Borders(p, t, fold),
           NEW str, NEW n \in Nat, NEW s, Scanned(p, str, fold, n, s),
           NEW s1, s1 = ReadOn(p, t, fold, s, str[n + 1])
    PROVE  /\ Scanned(p, str, fold, n + 1, s1)
           /\ LongestBorders(p, t, fold) /\ ScannedAll(p, str, fold, s) => ScannedAll(p, str, fold, s1)
<1>1. PICK l \in Nat : l = Len(p) /\ l = Len(t) /\ l > 0
  <2>1. Len(p) \in Nat /\ Len(p) # 0
    BY EmptySeq
  <2> QED BY <2>1
<1>2. CASE s.q = l
  <2>1. s1 = s
    BY <1>1, <1>2 DEF ReadOn
  <2>2. Scanned(p, str, fold, n + 1, s)
    BY <1>1, <1>2 DEF Scanned
  <2> QED BY <2>1, <2>2
<1>3. CASE s.q # l
  <2>1. PICK q : q = s.q
    OBVIOUS
  <2>2. q \in 0 .. l - 1 /\ s.i = n /\ Ends(p, str, n, q, fold)
    BY <1>1, <1>3, <2>1 DEF Scanned
  <2>3. PICK r \in 0 .. q + 1 :
           /\ Matched(p, t, fold, str[n + 1], q) = r
           /\ Ends(p, str, n + 1, r, fold)
           /\ LongestBorders(p, t, fold) =>
                 \A bound \in 0 .. n :
                    Longest(p, str, n, q, bound, fold) => Longest(p, str, n + 1, r, bound + 1, fold)
    <3>1. q \in 0 .. Len(t) - 1 /\ Len(t) > 0 /\ Len(p) \in Nat
      BY <1>1, <2>2
    <3> QED BY ONLY MatchedIs, <3>1, <2>2, n \in Nat, Borders(p, t, fold)
  <2>4. s1 = [q |-> r, i |-> n + 1]
    BY <1>1, <1>3, <2>1, <2>2, <2>3 DEF ReadOn
  <2>5. s1.q = r /\ s1.i = n + 1
    BY <2>4
  <2>6. Scanned(p, str, fold, n + 1, s1)
    BY <1>1, <2>2, <2>3, <2>5 DEF Scanned
  <2>7. ASSUME LongestBorders(p, t, fold), ScannedAll(p, str, fold, s)
        PROVE  ScannedAll(p, str, fold, s1)
    <3>1. Longest(p, str, n, q, n, fold) /\ \A i \in 0 .. n - 1 : ~ Ends(p, str, i, l, fold)
      BY <1>1, <2>1, <2>2, <2>7 DEF ScannedAll
    <3>2. n \in 0 .. n
      OBVIOUS
    <3>3. Longest(p, str, n + 1, r, n + 1, fold)
      BY <2>3, <2>7, <3>1, <3>2
    <3>4. ~ Ends(p, str, n, l, fold)
      <4>1. SUFFICES ASSUME Ends(p, str, n, l, fold) PROVE FALSE
        OBVIOUS
      <4>2. l \in 0 .. n
        BY <4>1 DEF Ends
      <4>3. l <= q
        BY <3>1, <4>1, <4>2 DEF Longest
      <4> QED BY <1>1, <2>2, <4>3
    <3>5. ASSUME NEW i \in 0 .. (n + 1) - 1 PROVE ~ Ends(p, str, i, l, fold)
      <4>1. CASE i = n
        BY <3>4, <4>1
      <4>2. CASE i # n
        <5>1. i \in 0 .. n - 1
          BY <4>2
        <5> QED BY <3>1, <5>1
      <4> QED BY <4>1, <4>2
    <3> QED BY <1>1, <2>5, <3>3, <3>5 DEF ScannedAll
  <2> QED BY <2>6, <2>7
<1> QED BY <1>2, <1>3

\* Where the pattern has been found once the whole text is read.
LEMMA SearchScans ==
    ASSUME NEW text \in Seq(Chars), NEW p \in Seq(Chars), p # <<>>, NEW t, Len(t) = Len(p),
           NEW fold, Borders(p, t, fold)
    PROVE  \E s : /\ Scanned(p, CString(text), fold, Len(CString(text)), s)
                  /\ LongestBorders(p, t, fold) => ScannedAll(p, CString(text), fold, s)
                  /\ Search(text, t, p, fold) = IF s.q = Len(p) THEN s.i - Len(p) ELSE -1
<1>0. PICK str : str = CString(text)
  OBVIOUS
<1>1. PICK n \in Nat : n = Len(str)
  BY <1>0, CStringIs
<1> DEFINE after == CHOOSE f : f = [i \in 0 .. Len(CString(text)) |->
                                       IF i = 0 THEN [q |-> 0, i |-> 0]
                                       ELSE ReadOn(p, t, fold, f[i - 1], CString(text)[i])]
           Good(i, s) == /\ Scanned(p, str, fold, i, s)
                         /\ LongestBorders(p, t, fold) => ScannedAll(p, str, fold, s)
           P == {i \in 0 .. n : Good(i, after[i])}
<1>2. Scans(after, n, p, t, fold, str)
  <2>1. \E f : Scans(f, n, p, t, fold, str)
    BY ScansExists
  <2> QED BY <1>0, <1>1, <2>1 DEF Scans
<1>3. Search(text, t, p, fold) = IF after[n].q = Len(p) THEN after[n].i - Len(p) ELSE -1
  <2>1. Search(text, t, p, fold) = IF after[Len(CString(text))].q = Len(p)
                                   THEN after[Len(CString(text))].i - Len(p) ELSE -1
    BY DEF Search
  <2> HIDE DEF after
  <2> QED BY <1>0, <1>1, <2>1
<1> HIDE DEF after
<1>4. after[0] = [q |-> 0, i |-> 0] /\ \A i \in 1 .. n : after[i] = ReadOn(p, t, fold, after[i - 1], str[i])
  BY <1>2 DEF Scans
<1>5. 0 \in P
  <2>1. Ends(p, str, 0, 0, fold)
    BY EndsAlways
  <2>2. Scanned(p, str, fold, 0, [q |-> 0, i |-> 0])
    BY <2>1, EmptySeq DEF Scanned
  <2>3. ScannedAll(p, str, fold, [q |-> 0, i |-> 0])
    BY DEF ScannedAll, Longest
  <2>4. Good(0, [q |-> 0, i |-> 0])
    BY <2>2, <2>3
  <2> HIDE DEF Good
  <2> QED BY <1>4, <2>4
<1>6. ASSUME NEW m \in 1 .. n, m - 1 \in P PROVE m \in P
  <2>1. PICK k \in Nat : k = m - 1 /\ m = k + 1
    OBVIOUS
  <2>2. PICK s : s = after[k]
    OBVIOUS
  <2>3. PICK s1 : s1 = after[m]
    OBVIOUS
  <2>4. s1 = ReadOn(p, t, fold, s, str[k + 1])
    BY <1>4, <2>1, <2>2, <2>3
  <2>5. Scanned(p, str, fold, k, s) /\ (LongestBorders(p, t, fold) => ScannedAll(p, str, fold, s))
    BY <1>6, <2>1, <2>2
  <2>6. /\ Scanned(p, str, fold, k + 1, s1)
        /\ LongestBorders(p, t, fold) /\ ScannedAll(p, str, fold, s) => ScannedAll(p, str, fold, s1)
    BY <2>4, <2>5, ReadOnIs
  <2>7. Good(m, s1)
    BY <2>1, <2>5, <2>6
  <2> HIDE DEF Good
  <2> QED BY <2>3, <2>7
<1> HIDE DEF P
<1>7. \A i \in 0 .. n : i \in P
  BY <1>5, <1>6, UpTo
<1>8. n \in P
  BY <1>7
<1>9. Good(n, after[n])
  <2> HIDE DEF Good
  <2> QED BY <1>8 DEF P
<1> QED BY <1>0, <1>1, <1>3, <1>9

\* The pattern occurs where it ends, less its length.
LEMMA OccursEnds ==
    ASSUME NEW str \in Seq(Chars), NEW p \in Seq(Chars), NEW fold, NEW at \in Nat
    PROVE  Occurs(str, p, fold, at)
              <=> at + Len(p) <= Len(str) /\ Ends(p, str, at + Len(p), Len(p), fold)
<1>1. PICK l \in Nat : l = Len(p) /\ DOMAIN p = 1 .. l
  OBVIOUS
<1>2. PICK e \in Nat : e = at + l
  BY <1>1
<1>3. l \in 0 .. e /\ l <= Len(p) /\ e - l = at
  BY <1>1, <1>2
<1>4. Ends(p, str, e, l, fold) <=> \A j \in 1 .. l : fold[str[at + j]] = fold[p[j]]
  BY <1>3 DEF Ends
<1> QED BY <1>1, <1>2, <1>4 DEF Occurs

\* What was found is there.
LEMMA SearchSound ==
    ASSUME NEW text \in Seq(Chars), NEW p \in Seq(Chars), p # <<>>, NEW t, Len(t) = Len(p),
           NEW fold, Borders(p, t, fold), Search(text, t, p, fold) # -1
    PROVE  /\ Search(text, t, p, fold) \in 0 .. Len(text)
           /\ Occurs(CString(text), p, fold, Search(text, t, p, fold))
<1>1. PICK str \in Seq(Chars) : str = CString(text)
  BY CStringIs
<1>2. Len(str) \in Nat /\ Len(text) \in Nat /\ Len(str) <= Len(text) /\ Len(p) \in Nat
  BY <1>1, CStringIs
<1>3. PICK s : /\ Scanned(p, str, fold, Len(str), s)
               /\ Search(text, t, p, fold) = IF s.q = Len(p) THEN s.i - Len(p) ELSE -1
  BY <1>1, SearchScans
<1>4. s.q = Len(p) /\ Search(text, t, p, fold) = s.i - Len(p)
  BY <1>3
<1>5. s.i \in 0 .. Len(str) /\ Ends(p, str, s.i, Len(p), fold)
  BY <1>3, <1>4 DEF Scanned
<1>6. Len(p) \in 0 .. s.i
  BY <1>5 DEF Ends
<1>7. PICK at \in Nat : at = s.i - Len(p)
  BY <1>2, <1>5, <1>6
<1>8. at + Len(p) = s.i
  BY <1>2, <1>5, <1>7
<1>9. Occurs(str, p, fold, at)
  BY <1>2, <1>5, <1>8, OccursEnds
<1> QED BY <1>1, <1>2, <1>4, <1>5, <1>7, <1>8, <1>9

\* And with the longest borders it is what comes first.
LEMMA SearchComplete ==
    ASSUME NEW text \in Seq(Chars), NEW p \in Seq(Chars), p # <<>>, NEW t, Len(t) = Len(p),
           NEW fold, Borders(p, t, fold), LongestBorders(p, t, fold),
           NEW at \in Nat, Occurs(CString(text), p, fold, at)
    PROVE  Search(text, t, p, fold) # -1 /\ Search(text, t, p, fold) <= at
<1>1. PICK str \in Seq(Chars) : str = CString(text)
  BY CStringIs
<1>2. Len(str) \in Nat /\ Len(p) \in Nat
  OBVIOUS
<1>3. PICK s : /\ Scanned(p, str, fold, Len(str), s)
               /\ ScannedAll(p, str, fold, s)
               /\ Search(text, t, p, fold) = IF s.q = Len(p) THEN s.i - Len(p) ELSE -1
  BY <1>1, SearchScans
<1>4. PICK e \in Nat : e = at + Len(p)
  BY <1>2
<1>5. e <= Len(str) /\ Ends(p, str, e, Len(p), fold)
  BY <1>1, <1>4, OccursEnds
<1>6. s.i \in 0 .. Len(str) /\ s.q \in 0 .. Len(p) /\ (s.q < Len(p) => s.i = Len(str))
      /\ Ends(p, str, s.i, s.q, fold)
  BY <1>3 DEF Scanned
<1>7. /\ \A k \in 0 .. s.i : Ends(p, str, s.i, k, fold) => k <= s.q
      /\ \A i \in 0 .. s.i - 1 : ~ Ends(p, str, i, Len(p), fold)
  BY <1>3 DEF ScannedAll, Longest
<1>8. s.i <= e
  <2>1. e \notin 0 .. s.i - 1
    BY <1>5, <1>7
  <2> QED BY <1>6, <2>1
<1>9. s.q = Len(p)
  <2>1. SUFFICES ASSUME s.q < Len(p) PROVE FALSE
    BY <1>2, <1>6
  <2>2. s.i = e
    BY <1>2, <1>5, <1>6, <1>8, <2>1
  <2>3. Len(p) \in 0 .. s.i /\ Ends(p, str, s.i, Len(p), fold)
    BY <1>5, <2>2 DEF Ends
  <2>4. Len(p) <= s.q
    BY <1>7, <2>3
  <2> QED BY <1>2, <1>6, <2>1, <2>4
<1>10. Len(p) \in 0 .. s.i
  BY <1>6, <1>9 DEF Ends
<1> QED BY <1>2, <1>3, <1>4, <1>6, <1>8, <1>9, <1>10

\* A table of the pattern as it is written serves for a search that does not tell the
\* cases apart; and is as good as one of its own, if the pattern is of one case.
LEMMA ExactServes ==
    ASSUME NEW p \in Seq(Chars), NEW t, Borders(p, t, Same)
    PROVE  /\ Borders(p, t, tolower)
           /\ LongestBorders(p, t, Same) /\ (\A c, d \in ToSet(p) : tolower[c] = tolower[d] => c = d)
                 => LongestBorders(p, t, tolower)
<1>1. Len(p) \in Nat /\ DOMAIN p = 1 .. Len(p) /\ \A j \in 1 .. Len(p) : p[j] \in Chars
  OBVIOUS
<1>2. ASSUME NEW i \in 1 .. Len(p), NEW k \in 0 .. i - 1, NEW j \in 1 .. k
      PROVE  (i - k) + j \in 1 .. Len(p) /\ j \in 1 .. Len(p)
  BY <1>1
<1>3. ASSUME NEW i \in 1 .. Len(p), NEW k \in 0 .. i - 1, Ends(p, p, i, k, Same)
      PROVE  Ends(p, p, i, k, tolower)
  <2>1. ASSUME NEW j \in 1 .. k PROVE tolower[p[(i - k) + j]] = tolower[p[j]]
    <3>1. p[(i - k) + j] \in Chars /\ p[j] \in Chars
      BY <1>1, <1>2
    <3>2. Same[p[(i - k) + j]] = Same[p[j]]
      BY <1>3 DEF Ends
    <3>3. p[(i - k) + j] = p[j]
      BY <3>1, <3>2 DEF Same
    <3> QED BY <3>3
  <2> QED BY <1>3, <2>1 DEF Ends
<1>4. ASSUME \A c, d \in ToSet(p) : tolower[c] = tolower[d] => c = d,
             NEW i \in 1 .. Len(p), NEW k \in 0 .. i - 1, Ends(p, p, i, k, tolower)
      PROVE  Ends(p, p, i, k, Same)
  <2>1. ASSUME NEW j \in 1 .. k PROVE Same[p[(i - k) + j]] = Same[p[j]]
    <3>1. p[(i - k) + j] \in ToSet(p) /\ p[j] \in ToSet(p)
      BY <1>1, <1>2 DEF ToSet
    <3>2. tolower[p[(i - k) + j]] = tolower[p[j]]
      BY <1>4 DEF Ends
    <3> QED BY <1>4, <3>1, <3>2
  <2> QED BY <1>4, <2>1 DEF Ends
<1>5. Len(t) \in Nat /\ Len(t) <= Len(p)
  BY DEF Borders
<1>6. Borders(p, t, tolower)
  <2>1. ASSUME NEW i \in 1 .. Len(t) PROVE t[i] \in 0 .. i - 1 /\ Ends(p, p, i, t[i], tolower)
    <3>1. i \in 1 .. Len(p) /\ t[i] \in 0 .. i - 1 /\ Ends(p, p, i, t[i], Same)
      BY <1>1, <1>5 DEF Borders
    <3> QED BY <1>3, <3>1
  <2> QED BY <1>5, <2>1 DEF Borders
<1>7. ASSUME LongestBorders(p, t, Same), \A c, d \in ToSet(p) : tolower[c] = tolower[d] => c = d
      PROVE  LongestBorders(p, t, tolower)
  <2>1. SUFFICES ASSUME NEW i \in 1 .. Len(t), NEW k \in 0 .. i - 1, Ends(p, p, i, k, tolower)
                 PROVE  k <= t[i]
    BY DEF LongestBorders, Longest
  <2>2. i \in 1 .. Len(p)
    BY <1>1, <1>5
  <2>3. Ends(p, p, i, k, Same)
    BY <1>4, <1>7, <2>1, <2>2
  <2> QED BY <1>7, <2>3 DEF LongestBorders, Longest
<1> QED BY <1>6, <1>7

-----------------------------------------------------------------------------
(* The calls.                                                               *)

\* A call is one of the arguments, and what was returned is what the function gives.
CallsInv ==
    /\ call \in Arguments
    /\ result = <<>> \/ result = <<Returned(call.fn)>>

LEMMA CallsInvariance == CallsSpec => []CallsInv
<1>1. CallsInit => CallsInv
  BY DEF CallsInit, CallsInv
<1>2. CallsInv /\ [Return]_callVars => CallsInv'
  <2>1. SUFFICES ASSUME CallsInv, [Return]_callVars PROVE CallsInv'
    OBVIOUS
  <2>2. CASE Return
    <3>1. call' = call /\ result' = <<Returned(call.fn)>>
      BY <2>2 DEF Return
    <3>2. Returned(call.fn)' = Returned(call.fn)
      BY <3>1 DEF Returned, Arrived
    <3> QED BY <2>1, <3>1, <3>2 DEF CallsInv
  <2>3. CASE UNCHANGED callVars
    <3>1. call' = call /\ result' = result
      BY <2>3 DEF callVars
    <3>2. Returned(call.fn)' = Returned(call.fn)
      BY <3>1 DEF Returned, Arrived
    <3> QED BY <2>1, <3>1, <3>2 DEF CallsInv
  <2> QED BY <2>1, <2>2, <2>3
<1> QED BY <1>1, <1>2, PTL DEF CallsSpec

\* aoStrContainsPattern finds the first occurrence of every pattern in every text, and
\* nothing else: the prefix table never leads the matcher past one.
THEOREM SearchIsExact == CallsSpec => []SearchFindsFirst
<1>1. CallsInv => SearchFindsFirst
  <2>1. SUFFICES ASSUME CallsInv, Of("search")
                 PROVE  LET places == {i \in 0 .. Len(call.text) :
                                          Occurs(CString(call.text), call.pattern, Same, i)}
                        IN IF call.pattern = <<>> \/ places = {} THEN result[1] = -1
                           ELSE result[1] \in places /\ \A i \in places : result[1] <= i
    BY DEF SearchFindsFirst
  <2>2. PICK text \in Seq(Chars), p \in Seq(Chars) : text = call.text /\ p = call.pattern
    BY <2>1, ArgumentsAssumption DEF CallsInv, Of
  <2>3. PICK t : t = aoStrComputePrefixTable(p)
    OBVIOUS
  <2>4. Len(t) = Len(p) /\ Borders(p, t, Same) /\ LongestBorders(p, t, Same)
    BY <2>3, PrefixTableIs
  <2>5. result[1] = Search(text, t, p, Same)
    BY <2>1, <2>2, <2>3 DEF CallsInv, Of, Returned, aoStrContainsPattern
  <2> DEFINE places == {i \in 0 .. Len(text) : Occurs(CString(text), p, Same, i)}
  <2>6. CASE p = <<>>
    <3>1. Search(text, t, p, Same) = -1
      BY <2>6 DEF Search
    <3> QED BY <2>2, <2>5, <2>6, <3>1
  <2>7. CASE p # <<>>
    <3>1. Search(text, t, p, Same) # -1 => Search(text, t, p, Same) \in places
      BY <2>4, <2>7, SearchSound
    <3>2. ASSUME NEW i \in places
          PROVE  Search(text, t, p, Same) # -1 /\ Search(text, t, p, Same) <= i
      <4>1. i \in Nat /\ Occurs(CString(text), p, Same, i)
        OBVIOUS
      <4> QED BY <2>4, <2>7, <4>1, SearchComplete
    <3> HIDE DEF places
    <3>3. IF p = <<>> \/ places = {} THEN result[1] = -1
          ELSE result[1] \in places /\ \A i \in places : result[1] <= i
      BY <2>5, <2>7, <3>1, <3>2
    <3> QED BY <2>2, <3>3 DEF places
  <2> QED BY <2>6, <2>7
<1> QED BY <1>1, CallsInvariance, PTL

\* aoStrContainsCasePattern uses the prefix table of the search that tells the cases
\* apart.  Whatever the pattern, what it finds is there; and it misses nothing if no
\* letter of the pattern appears in both cases.
THEOREM CaseSearchFinds == CallsSpec => []CaseSearchIsSound
<1>1. CallsInv => CaseSearchIsSound
  <2>1. SUFFICES ASSUME CallsInv, Of("casesearch")
                 PROVE  LET places == {i \in 0 .. Len(call.text) :
                                          Occurs(CString(call.text), call.pattern, tolower, i)}
                            oneCase == \A c, d \in ToSet(call.pattern) : tolower[c] = tolower[d] => c = d
                        IN IF call.pattern = <<>> \/ places = {} THEN result[1] = -1
                           ELSE /\ result[1] \in places \union {-1}
                                /\ oneCase => result[1] \in places /\ \A i \in places : result[1] <= i
    BY DEF CaseSearchIsSound
  <2>2. PICK text \in Seq(Chars), p \in Seq(Chars) : text = call.text /\ p = call.pattern
    BY <2>1, ArgumentsAssumption DEF CallsInv, Of
  <2>3. PICK t : t = aoStrComputePrefixTable(p)
    OBVIOUS
  <2> DEFINE places == {i \in 0 .. Len(text) : Occurs(CString(text), p, tolower, i)}
             oneCase == \A c, d \in ToSet(p) : tolower[c] = tolower[d] => c = d
  <2>4. Len(t) = Len(p) /\ Borders(p, t, tolower) /\ (oneCase => LongestBorders(p, t, tolower))
    <3>1. Len(t) = Len(p) /\ Borders(p, t, Same) /\ LongestBorders(p, t, Same)
      BY <2>3, PrefixTableIs
    <3> QED BY <3>1, ExactServes
  <2>5. result[1] = Search(text, t, p, tolower)
    BY <2>1, <2>2, <2>3 DEF CallsInv, Of, Returned, aoStrContainsCasePattern
  <2> HIDE DEF oneCase
  <2>6. CASE p = <<>>
    <3>1. Search(text, t, p, tolower) = -1
      BY <2>6 DEF Search
    <3> QED BY <2>2, <2>5, <2>6, <3>1
  <2>7. CASE p # <<>>
    <3>1. Search(text, t, p, tolower) # -1 => Search(text, t, p, tolower) \in places
      BY <2>4, <2>7, SearchSound
    <3>2. ASSUME oneCase, NEW i \in places
          PROVE  Search(text, t, p, tolower) # -1 /\ Search(text, t, p, tolower) <= i
      <4>1. i \in Nat /\ Occurs(CString(text), p, tolower, i)
        OBVIOUS
      <4> QED BY <2>4, <2>7, <3>2, <4>1, SearchComplete
    <3> HIDE DEF places
    <3>3. IF p = <<>> \/ places = {} THEN result[1] = -1
          ELSE /\ result[1] \in places \union {-1}
               /\ oneCase => result[1] \in places /\ \A i \in places : result[1] <= i
      BY <2>5, <2>7, <3>1, <3>2
    <3> QED BY <2>2, <3>3 DEF places, oneCase
  <2> QED BY <2>6, <2>7
<1> QED BY <1>1, CallsInvariance, PTL

-----------------------------------------------------------------------------
(* The limit on descriptors.                                                *)

\* The limits that are tried, from m downwards.
Tries(f, m, current, hard) ==
    f = [t \in -Decrement .. m |-> IF t <= current \/ t <= hard THEN t ELSE f[t - Decrement]]

LEMMA TriesExists ==
    ASSUME NEW current \in Nat, NEW hard \in Nat
    PROVE  \E f : Tries(f, Highest, current, hard)
<1> DEFINE P == {i \in 0 .. Highest + Decrement : \E f : Tries(f, i - Decrement, current, hard)}
<1>0. Highest \in Nat /\ Decrement \in Nat \ {0}
  BY LimitAssumption
<1>1. 0 \in P
  <2> DEFINE f == [t \in -Decrement .. -Decrement |-> t]
  <2>1. Tries(f, -Decrement, current, hard)
    <3>1. \A t \in -Decrement .. -Decrement : t <= current /\ f[t] = t
      BY <1>0
    <3> QED BY <1>0, <3>1 DEF Tries
  <2>2. 0 - Decrement = -Decrement /\ 0 \in 0 .. Highest + Decrement
    BY <1>0
  <2>3. \E g : Tries(g, 0 - Decrement, current, hard)
    BY <2>1, <2>2
  <2> QED BY <2>2, <2>3
<1>2. ASSUME NEW i \in 1 .. Highest + Decrement, i - 1 \in P PROVE i \in P
  <2>1. PICK m \in Int : m = i - Decrement
    BY <1>0
  <2>2. m - 1 = (i - 1) - Decrement /\ m - 1 >= -Decrement
    BY <1>0, <2>1
  <2>3. PICK f : Tries(f, m - 1, current, hard)
    BY <1>2, <2>2
  <2> DEFINE body(h, t) == IF t <= current \/ t <= hard THEN t ELSE h[t - Decrement]
             g == [t \in -Decrement .. m |-> IF t < m THEN f[t] ELSE body(f, m)]
  <2>4. ASSUME NEW t \in -Decrement .. m PROVE g[t] = body(g, t)
    <3>1. ~ (t <= current \/ t <= hard) => t - Decrement \in -Decrement .. m - 1 /\ t - Decrement < m
      BY <1>0, <2>1
    <3>2. ~ (t <= current \/ t <= hard) => g[t - Decrement] = f[t - Decrement]
      BY <1>0, <2>1, <3>1
    <3>3. CASE t = m
      <4>1. g[m] = body(f, m)
        BY <1>0, <2>1
      <4> HIDE DEF g
      <4> QED BY <3>2, <3>3, <4>1
    <3>4. CASE t # m
      <4>1. t \in -Decrement .. m - 1 /\ t < m /\ g[t] = f[t]
        BY <1>0, <2>1, <3>4
      <4>2. f[t] = body(f, t)
        BY <2>3, <4>1 DEF Tries
      <4> QED BY <3>2, <4>1, <4>2
    <3> QED BY <3>3, <3>4
  <2>5. g = [t \in -Decrement .. m |-> body(g, t)]
    <3>1. g = [t \in -Decrement .. m |-> g[t]]
      OBVIOUS
    <3> HIDE DEF g
    <3> QED BY <2>4, <3>1
  <2>6. Tries(g, m, current, hard)
    BY <2>5 DEF Tries
  <2>7. \E h : Tries(h, m, current, hard)
    BY <2>6
  <2>8. i \in 0 .. Highest + Decrement
    BY <1>0
  <2> QED BY <2>1, <2>7, <2>8
<1>3. PICK n \in Nat : n = Highest + Decrement
  BY <1>0
<1>4. \A i \in 0 .. n : i \in P
  <2>1. \A i \in 1 .. n : i - 1 \in P => i \in P
    BY <1>2, <1>3
  <2> HIDE DEF P
  <2> QED BY <1>1, <2>1, UpTo
<1>5. n \in P /\ n - Decrement = Highest
  <2>1. n \in 0 .. n /\ n - Decrement = Highest
    BY <1>0, <1>3
  <2> HIDE DEF P
  <2> QED BY <1>4, <2>1
<1> QED BY <1>5

\* The first that is not above the hard limit is less than one step below it.
LEMMA TriedIs ==
    ASSUME NEW current \in Nat, NEW hard \in Nat, current <= hard, NEW f,
           Tries(f, Highest, current, hard)
    PROVE  /\ f[Highest] \in Int /\ f[Highest] <= hard
           /\ f[Highest] > (IF hard < Highest THEN hard ELSE Highest) - Decrement
<1>0. Highest \in Nat /\ Decrement \in Nat \ {0}
  BY LimitAssumption
<1> DEFINE Good(t) == f[t] \in Int /\ f[t] <= hard /\ f[t] > (IF hard < t THEN hard ELSE t) - Decrement
           P == {i \in 0 .. Highest : \A t \in 0 .. i : Good(t)}
<1>1. ASSUME NEW t \in 0 .. Highest, t <= hard PROVE Good(t)
  <2>1. t \in -Decrement .. Highest
    BY <1>0
  <2>2. f[t] = t
    BY <1>1, <2>1 DEF Tries
  <2> QED BY <1>0, <1>1, <2>2
<1>2. ASSUME NEW t \in 0 .. Highest, ~ t <= hard, t - Decrement >= 0 => Good(t - Decrement)
      PROVE  Good(t)
  <2>1. t \in -Decrement .. Highest /\ t - Decrement \in -Decrement .. Highest /\ ~ t <= current
    BY <1>0, <1>2
  <2>2. f[t] = f[t - Decrement]
    BY <1>2, <2>1 DEF Tries
  <2>3. PICK u \in Int : u = t - Decrement
    BY <1>0
  <2>4. CASE u <= hard
    <3>1. f[u] = u
      BY <2>1, <2>3, <2>4 DEF Tries
    <3> QED BY <1>0, <1>2, <2>2, <2>3, <2>4, <3>1
  <2>5. CASE ~ u <= hard
    <3>1. Good(u)
      BY <1>2, <2>3, <2>5
    <3> QED BY <1>0, <1>2, <2>2, <2>3, <2>5, <3>1
  <2> QED BY <2>4, <2>5
<1>3. 0 \in P
  <2>1. Good(0)
    BY <1>0, <1>1
  <2> HIDE DEF Good
  <2> QED BY <1>0, <2>1
<1>4. ASSUME NEW m \in 1 .. Highest, m - 1 \in P PROVE m \in P
  <2>1. \A t \in 0 .. m - 1 : Good(t)
    BY <1>4
  <2>2. m - Decrement >= 0 => m - Decrement \in 0 .. m - 1
    BY <1>0
  <2> HIDE DEF Good
  <2>3. Good(m)
    BY <1>1, <1>2, <2>1, <2>2
  <2>4. ASSUME NEW t \in 0 .. m PROVE Good(t)
    <3>1. CASE t = m
      BY <2>3, <3>1
    <3>2. CASE t # m
      BY <2>1, <3>2
    <3> QED BY <3>1, <3>2
  <2> QED BY <1>0, <2>4
<1> HIDE DEF P
<1>5. \A i \in 0 .. Highest : i \in P
  BY <1>0, <1>3, <1>4, UpTo
<1>6. Highest \in P /\ Highest \in 0 .. Highest
  BY <1>0, <1>5
<1> HIDE DEF Good
<1>7. Good(Highest)
  BY <1>6 DEF P
<1> QED BY <1>7 DEF Good

\* However many descriptors the process may have, the loop's table is never larger than
\* that, and falls short of it, or of what is asked for first, by less than one step.
THEOREM LimitIsMet == CallsSpec => []TableWithinLimit
<1>1. CallsInv => TableWithinLimit
  <2>1. SUFFICES ASSUME CallsInv, Of("limit")
                 PROVE  LET possible == IF call.hard < Highest THEN call.hard ELSE Highest IN
                        /\ result[1].maxclients <= result[1].limit
                        /\ result[1].maxclients > possible - Decrement
    BY DEF TableWithinLimit
  <2>2. PICK current \in Nat, hard \in Nat : current = call.current /\ hard = call.hard /\ current <= hard
    BY <2>1, ArgumentsAssumption DEF CallsInv, Of
  <2> DEFINE try == CHOOSE f : f = [t \in -Decrement .. Highest |->
                                      IF t <= current \/ t <= hard THEN t ELSE f[t - Decrement]]
  <2>3. Tries(try, Highest, current, hard)
    <3>1. \E f : Tries(f, Highest, current, hard)
      BY TriesExists
    <3> QED BY <3>1 DEF Tries
  <2>4. serverSetFileDescriptorLimit(current, hard) =
           [maxclients |-> try[Highest], limit |-> IF try[Highest] > current THEN try[Highest] ELSE current]
    BY DEF serverSetFileDescriptorLimit
  <2> HIDE DEF try
  <2>5. result[1] = serverSetFileDescriptorLimit(current, hard)
    BY <2>1, <2>2 DEF CallsInv, Of, Returned
  <2>6. /\ try[Highest] \in Int
        /\ try[Highest] > (IF hard < Highest THEN hard ELSE Highest) - Decrement
    BY <2>2, <2>3, TriedIs
  <2> QED BY <2>2, <2>4, <2>5, <2>6
<1> QED BY <1>1, CallsInvariance, PTL

-----------------------------------------------------------------------------
(* Sockets.                                                                 *)

\* Each function gives back everything it holds when one of its calls fails; except
\* inetConnect, when it is the socket's flag that cannot be set.
GivesBack(fn, calls) ==
    \A i \in 1 .. Len(calls) :
        \/ Socket \union Addresses(fn) \subseteq calls[i].givenBack
        \/ fn = "inetConnectNonBlocking" /\ calls[i].name = "nonblock"

LEMMA CallsGiveBack ==
    ASSUME NEW fn \in DOMAIN CallsOf
    PROVE  GivesBack(fn, CallsOf[fn])
<1> USE DEF GivesBack, Call, Both, Socket, Addresses
<1>1. fn \in {"inetCreateServerBlocking", "inetCreateServerNonBlocking", "inetConnect",
              "inetConnectNonBlocking", "inetCreateUnixServerSocket",
              "inetCreateUnixClientSocket", "inetAcceptBlocking", "inetAcceptNonBlocking"}
  BY DEF CallsOf
<1>2. CASE fn = "inetCreateServerBlocking"
  <2>1. CallsOf[fn] = inetCreateServer("block")
    BY <1>2 DEF CallsOf
  <2> QED BY <1>2, <2>1 DEF inetCreateServer, NonBlocking
<1>3. CASE fn = "inetCreateServerNonBlocking"
  <2>1. CallsOf[fn] = inetCreateServer("nonblock")
    BY <1>3 DEF CallsOf
  <2> QED BY <1>3, <2>1 DEF inetCreateServer, NonBlocking
<1>4. CASE fn = "inetConnect"
  <2>1. CallsOf[fn] = inetConnect("block")
    BY <1>4 DEF CallsOf
  <2> QED BY <1>4, <2>1 DEF inetConnect, NonBlocking
<1>5. CASE fn = "inetConnectNonBlocking"
  <2>1. CallsOf[fn] = inetConnect("nonblock")
    BY <1>5 DEF CallsOf
  <2> QED BY <1>5, <2>1 DEF inetConnect, NonBlocking
<1>6. CASE fn = "inetCreateUnixServerSocket"
  <2>1. CallsOf[fn] = inetCreateUnixServerSocket
    BY <1>6 DEF CallsOf
  <2> QED BY <1>6, <2>1 DEF inetCreateUnixServerSocket
<1>7. CASE fn = "inetCreateUnixClientSocket"
  <2>1. CallsOf[fn] = <<Call("connect", Socket)>>
    BY <1>7 DEF CallsOf
  <2> QED BY <1>7, <2>1
<1>8. CASE fn = "inetAcceptBlocking"
  <2>1. CallsOf[fn] = <<>>
    BY <1>8 DEF CallsOf
  <2> QED BY <2>1
<1>9. CASE fn = "inetAcceptNonBlocking"
  <2>1. CallsOf[fn] = NonBlocking("nonblock", Socket)
    BY <1>9 DEF CallsOf
  <2> QED BY <1>9, <2>1 DEF NonBlocking
<1> QED BY <1>1, <1>2, <1>3, <1>4, <1>5, <1>6, <1>7, <1>8, <1>9

\* What a function holds when it has returned, whichever of its calls fail for whichever
\* of the addresses it tries.
LEMMA OpenedHolds ==
    ASSUME NEW fn \in DOMAIN CallsOf, NEW fails \in Seq(STRING)
    PROVE  \/ Opened(fn, fails).held = IF Opened(fn, fails).ok THEN Socket ELSE {}
           \/ /\ fn = "inetConnectNonBlocking" /\ "nonblock" \in ToSet(fails)
              /\ ~Opened(fn, fails).ok
<1> DEFINE I == {i \in 1 .. Len(fails) : fails[i] # "socket"}
           tried == IF I # {} THEN Min(I) ELSE 0
           calls == CallsOf[fn]
           J == {i \in 1 .. Len(calls) : calls[i].name = fails[tried]}
           failing == IF J # {} THEN Min(J) ELSE 0
<1>1. Opened(fn, fails) =
         IF tried = 0 THEN [ok |-> FALSE, held |-> {}]
         ELSE IF failing = 0 THEN [ok |-> TRUE, held |-> Socket]
         ELSE [ok |-> FALSE, held |-> (Socket \union Addresses(fn)) \ calls[failing].givenBack]
  BY DEF Opened, SelectInSeq
<1>2. tried # 0 => tried \in 1 .. Len(fails)
  <2>1. I # {} => Min(I) \in I
    <3>1. I \in SUBSET Nat
      OBVIOUS
    <3> HIDE DEF I
    <3> QED BY <3>1, LeastIs
  <2> QED BY <2>1
<1> HIDE DEF tried
<1>3. failing # 0 => failing \in 1 .. Len(calls) /\ calls[failing].name = fails[tried]
  <2>1. J # {} => Min(J) \in J
    <3>1. J \in SUBSET Nat
      OBVIOUS
    <3> HIDE DEF J
    <3> QED BY <3>1, LeastIs
  <2> QED BY <2>1
<1> HIDE DEF failing, calls
<1>4. GivesBack(fn, calls)
  BY CallsGiveBack DEF calls
<1>5. CASE tried = 0
  BY <1>1, <1>5
<1>6. CASE tried # 0 /\ failing = 0
  BY <1>1, <1>6
<1>7. CASE tried # 0 /\ failing # 0
  <2>1. Opened(fn, fails) =
           [ok |-> FALSE, held |-> (Socket \union Addresses(fn)) \ calls[failing].givenBack]
    BY <1>1, <1>7
  <2>2. CASE Socket \union Addresses(fn) \subseteq calls[failing].givenBack
    BY <2>1, <2>2
  <2>3. CASE fn = "inetConnectNonBlocking" /\ calls[failing].name = "nonblock"
    <3>1. fails[tried] = "nonblock" /\ tried \in DOMAIN fails
      BY <1>2, <1>3, <1>7, <2>3
    <3>2. "nonblock" \in ToSet(fails)
      BY <3>1 DEF ToSet
    <3> QED BY <2>1, <2>3, <3>2
  <2> QED BY <1>3, <1>4, <1>7, <2>2, <2>3 DEF GivesBack
<1> QED BY <1>5, <1>6, <1>7

\* No function of inet.c leaves a socket or a list of addresses behind, whichever calls
\* fail, except that inetConnect does when it cannot make the socket non-blocking.
THEOREM SocketsAreClosed == CallsSpec => []NothingIsLeftOpen
<1>1. CallsInv => NothingIsLeftOpen
  <2>1. SUFFICES ASSUME CallsInv, call.fn \in DOMAIN CallsOf, result # <<>>
                 PROVE  \/ result[1].held = IF result[1].ok THEN Socket ELSE {}
                        \/ call.fn = "inetConnectNonBlocking" /\ "nonblock" \in ToSet(call.fails)
                           /\ ~result[1].ok
    BY DEF NothingIsLeftOpen
  <2>2. PICK fn \in DOMAIN CallsOf, fails \in Seq(STRING) : fn = call.fn /\ fails = call.fails
    BY <2>1, ArgumentsAssumption DEF CallsInv
  <2>3. fn \notin {"search", "casesearch", "split", "escape", "decode", "message", "limit", "roundup"}
    BY DEF CallsOf
  <2>4. Returned(fn) = Opened(fn, fails)
    BY <2>2, <2>3 DEF Returned
  <2>5. result[1] = Opened(fn, fails)
    BY <2>1, <2>2, <2>4 DEF CallsInv
  <2> QED BY <2>2, <2>5, OpenedHolds
<1> QED BY <1>1, CallsInvariance, PTL

-----------------------------------------------------------------------------
(* Splitting.                                                               *)

\* The functions of Joined and of aoStrSplit.
Glue(s, sep, t) == s \o sep \o t
Joins(f, n, parts, sep) ==
    f = [i \in 1 .. n |-> IF i = 1 THEN parts[1] ELSE Glue(f[i - 1], sep, parts[i])]
Splits(f, n, str, d) == f = [i \in 0 .. n |-> IF i = 0 THEN << <<>> >> ELSE PartsWith(f[i - 1], str[i], d)]

LEMMA GlueType ==
    ASSUME NEW s \in Seq(Chars), NEW sep \in Seq(Chars), NEW t \in Seq(Chars)
    PROVE  Glue(s, sep, t) \in Seq(Chars)
<1>1. s \o sep \in Seq(Chars)
  BY ConcatProperties
<1>2. (s \o sep) \o t \in Seq(Chars)
  BY <1>1, ConcatProperties
<1> QED BY <1>2 DEF Glue

Adds(t1, t, c) == t1 = Append(t, c)

LEMMA ConcatAssociates ==
    ASSUME NEW s \in Seq(Chars), NEW t \in Seq(Chars), NEW u \in Seq(Chars)
    PROVE  (s \o t) \o u = s \o (t \o u)
BY ConcatAssociative

LEMMA GlueAppend ==
    ASSUME NEW s \in Seq(Chars), NEW sep \in Seq(Chars), NEW t \in Seq(Chars), NEW c \in Chars,
           NEW t1, Adds(t1, t, c)
    PROVE  Adds(Glue(s, sep, t1), Glue(s, sep, t), c)
<1>1. PICK u \in Seq(Chars) : u = s \o sep
  <2>1. s \o sep \in Seq(Chars)
    BY ConcatProperties
  <2> QED BY <2>1
<1>2. u \o t \in Seq(Chars) /\ <<c>> \in Seq(Chars)
  OBVIOUS
<1>3. (u \o t) \o <<c>> = u \o (t \o <<c>>)
  <2> PICK d \in Seq(Chars) : d = <<c>>
    BY <1>2
  <2>1. (u \o t) \o d = u \o (t \o d)
    BY ONLY ConcatAssociates, Zenon
  <2> QED BY ONLY d = <<c>>, <2>1
<1>4. Append(t, c) = t \o <<c>> /\ Append(u \o t, c) = (u \o t) \o <<c>>
  <2>1. Append(t, c) = t \o <<c>>
    BY AppendIsConcat
  <2>2. PICK v \in Seq(Chars) : v = u \o t
    BY <1>2
  <2>3. Append(v, c) = v \o <<c>>
    BY AppendIsConcat
  <2> QED BY ONLY <2>1, <2>2, <2>3
<1> QED BY <1>1, <1>3, <1>4 DEF Glue, Adds

LEMMA GlueNothing ==
    ASSUME NEW s \in Seq(Chars), NEW c \in Chars, NEW sep, sep = <<c>>, NEW t, t = <<>>
    PROVE  Glue(s, sep, t) = Append(s, c)
<1>1. s \o <<c>> \in Seq(Chars)
  OBVIOUS
<1>2. (s \o <<c>>) \o <<>> = s \o <<c>> /\ Append(s, c) = s \o <<c>>
  BY <1>1, ConcatEmptySeq, AppendIsConcat
<1> QED BY <1>2 DEF Glue

LEMMA JoinsExists ==
    ASSUME NEW parts, NEW sep, NEW n \in Nat
    PROVE  \E f : Joins(f, n, parts, sep)
<1> DEFINE P == {i \in 0 .. n : \E f : Joins(f, i, parts, sep)}
<1>1. 0 \in P
  <2>1. Joins([i \in 1 .. 0 |-> parts], 0, parts, sep)
    BY DEF Joins
  <2> QED BY <2>1
<1>2. ASSUME NEW m \in 1 .. n, m - 1 \in P PROVE m \in P
  <2>1. PICK f : Joins(f, m - 1, parts, sep)
    BY <1>2
  <2> DEFINE g == [i \in 1 .. m |-> IF i < m THEN f[i] ELSE IF m = 1 THEN parts[1]
                                    ELSE Glue(f[m - 1], sep, parts[m])]
  <2>2. ASSUME NEW i \in 1 .. m
        PROVE  g[i] = IF i = 1 THEN parts[1] ELSE Glue(g[i - 1], sep, parts[i])
    <3>1. i # 1 => g[i - 1] = f[i - 1]
      OBVIOUS
    <3>2. CASE i = m
      <4>1. g[i] = IF i = 1 THEN parts[1] ELSE Glue(f[i - 1], sep, parts[i])
        BY <3>2
      <4> HIDE DEF g
      <4> QED BY <3>1, <4>1
    <3>3. CASE i < m
      <4>1. i \in 1 .. m - 1 /\ g[i] = f[i]
        BY <3>3
      <4>2. f[i] = IF i = 1 THEN parts[1] ELSE Glue(f[i - 1], sep, parts[i])
        BY <2>1, <4>1 DEF Joins
      <4> HIDE DEF g
      <4> QED BY <3>1, <4>1, <4>2
    <3> QED BY <3>2, <3>3
  <2>3. g = [i \in 1 .. m |-> IF i = 1 THEN parts[1] ELSE Glue(g[i - 1], sep, parts[i])]
    <3>1. g = [i \in 1 .. m |-> g[i]]
      OBVIOUS
    <3> HIDE DEF g
    <3> QED BY <2>2, <3>1
  <2>4. Joins(g, m, parts, sep)
    BY <2>3 DEF Joins
  <2>5. \E f1 : Joins(f1, m, parts, sep)
    BY <2>4
  <2> QED BY <2>5
<1> HIDE DEF P
<1>3. \A i \in 0 .. n : i \in P
  BY <1>1, <1>2, UpTo
<1>4. n \in P
  BY <1>3
<1> QED BY <1>4 DEF P

LEMMA SplitsExists ==
    ASSUME NEW str, NEW d, NEW n \in Nat
    PROVE  \E f : Splits(f, n, str, d)
<1> DEFINE P == {i \in 0 .. n : \E f : Splits(f, i, str, d)}
<1>1. 0 \in P
  <2>1. Splits([i \in 0 .. 0 |-> << <<>> >>], 0, str, d)
    BY DEF Splits
  <2> QED BY <2>1
<1>2. ASSUME NEW m \in 1 .. n, m - 1 \in P PROVE m \in P
  <2>1. PICK f : Splits(f, m - 1, str, d)
    BY <1>2
  <2> DEFINE g == [i \in 0 .. m |-> IF i < m THEN f[i] ELSE PartsWith(f[m - 1], str[m], d)]
  <2>2. ASSUME NEW i \in 0 .. m
        PROVE  g[i] = IF i = 0 THEN << <<>> >> ELSE PartsWith(g[i - 1], str[i], d)
    <3>1. CASE i = m
      <4>1. g[m - 1] = f[m - 1] /\ g[m] = PartsWith(f[m - 1], str[m], d)
        OBVIOUS
      <4> QED BY <3>1, <4>1
    <3>2. CASE i < m
      <4>1. i \in 0 .. m - 1 /\ g[i] = f[i]
        BY <3>2
      <4>2. f[i] = IF i = 0 THEN << <<>> >> ELSE PartsWith(f[i - 1], str[i], d)
        BY <2>1, <4>1 DEF Splits
      <4>3. i # 0 => g[i - 1] = f[i - 1]
        BY <3>2
      <4> QED BY <4>1, <4>2, <4>3
    <3> QED BY <3>1, <3>2
  <2>3. g = [i \in 0 .. m |-> IF i = 0 THEN << <<>> >> ELSE PartsWith(g[i - 1], str[i], d)]
    <3>1. g = [i \in 0 .. m |-> g[i]]
      OBVIOUS
    <3> HIDE DEF g
    <3> QED BY <2>2, <3>1
  <2>4. Splits(g, m, str, d)
    BY <2>3 DEF Splits
  <2>5. \E f1 : Splits(f1, m, str, d)
    BY <2>4
  <2> QED BY <2>5
<1> HIDE DEF P
<1>3. \A i \in 0 .. n : i \in P
  BY <1>1, <1>2, UpTo
<1>4. n \in P
  BY <1>3
<1> QED BY <1>4 DEF P

LEMMA JoinsFirst ==
    ASSUME NEW n \in Nat \ {0}, NEW parts, NEW sep, NEW f, Joins(f, n, parts, sep)
    PROVE  f[1] = parts[1]
<1>1. 1 \in 1 .. n
  OBVIOUS
<1> QED BY <1>1 DEF Joins

LEMMA JoinsNext ==
    ASSUME NEW n \in Nat, NEW parts, NEW sep, NEW f, Joins(f, n, parts, sep),
           NEW i \in 1 .. n, NEW h \in 1 .. n, i = h + 1
    PROVE  f[i] = Glue(f[h], sep, parts[i])
<1>1. i # 1 /\ i - 1 = h
  OBVIOUS
<1>2. f[i] = IF i = 1 THEN parts[1] ELSE Glue(f[i - 1], sep, parts[i])
  BY DEF Joins
<1> QED BY <1>1, <1>2

SameUpTo(k, f, g) == \A i \in 1 .. k : f[i] = g[i]

\* What is joined up to a part depends on no later one.
LEMMA JoinsAgree ==
    ASSUME NEW parts, NEW others, NEW sep, NEW m \in Nat, NEW n \in Nat, NEW f, NEW g,
           Joins(f, m, parts, sep), Joins(g, n, others, sep),
           NEW k \in Nat, k <= m, k <= n, SameUpTo(k, parts, others)
    PROVE  SameUpTo(k, f, g)
<1> DEFINE P == {i \in 0 .. k : i = 0 \/ f[i] = g[i]}
<1>1. 0 \in P
  OBVIOUS
<1>2. ASSUME NEW i \in 1 .. k, i - 1 \in P PROVE i \in P
  <2>1. parts[i] = others[i] /\ i \in 1 .. m /\ i \in 1 .. n
    BY DEF SameUpTo
  <2>2. CASE i = 1
    <3>1. f[1] = parts[1] /\ g[1] = others[1]
      <4>1. m \in Nat \ {0} /\ n \in Nat \ {0}
        BY <2>1
      <4> QED BY <4>1, JoinsFirst
    <3> QED BY <2>1, <2>2, <3>1
  <2>3. CASE i # 1
    <3>1. PICK h \in 1 .. k : i = h + 1 /\ h \in 1 .. m /\ h \in 1 .. n /\ h = i - 1
      BY <2>3
    <3>2. f[i] = Glue(f[h], sep, parts[i])
      BY ONLY <2>1, <3>1, m \in Nat, Joins(f, m, parts, sep), JoinsNext
    <3>3. g[i] = Glue(g[h], sep, others[i])
      BY ONLY <2>1, <3>1, n \in Nat, Joins(g, n, others, sep), JoinsNext
    <3>4. f[h] = g[h]
      BY <1>2, <3>1
    <3>5. f[i] = g[i]
      BY <2>1, <3>2, <3>3, <3>4
    <3> QED BY <3>5
  <2> QED BY <2>2, <2>3
<1> HIDE DEF P
<1>3. \A i \in 0 .. k : i \in P
  BY <1>1, <1>2, UpTo
<1> QED BY <1>3 DEF P, SameUpTo

JoinsAll(f, n, parts, sep, d) == Joins(f, n, parts, sep) /\ Joined(parts, d) = f[n]

LEMMA JoinedIs ==
    ASSUME NEW parts, NEW d, NEW n \in Nat, n = Len(parts), NEW sep, sep = <<d>>
    PROVE  \E f : JoinsAll(f, n, parts, sep, d)
<1> DEFINE with == CHOOSE f : f = [i \in 1 .. Len(parts) |->
                                     IF i = 1 THEN parts[1] ELSE f[i - 1] \o <<d>> \o parts[i]]
<1>1. Joins(with, n, parts, sep)
  <2>1. \E f : Joins(f, n, parts, sep)
    BY JoinsExists
  <2> QED BY <2>1 DEF Joins, Glue
<1>2. Joined(parts, d) = with[n]
  BY DEF Joined
<1> HIDE DEF with
<1>3. JoinsAll(with, n, parts, sep, d)
  BY <1>1, <1>2 DEF JoinsAll
<1> QED BY <1>3

\* What is joined is a text.
LEMMA JoinsType ==
    ASSUME NEW n \in Nat, NEW parts \in Seq(Seq(Chars)), n <= Len(parts), NEW sep \in Seq(Chars), NEW f,
           Joins(f, n, parts, sep)
    PROVE  \A i \in 1 .. n : f[i] \in Seq(Chars)
<1> DEFINE P == {i \in 0 .. n : i = 0 \/ f[i] \in Seq(Chars)}
<1>1. 0 \in P
  OBVIOUS
<1>2. ASSUME NEW i \in 1 .. n, i - 1 \in P PROVE i \in P
  <2>1. f[i] = IF i = 1 THEN parts[1] ELSE Glue(f[i - 1], sep, parts[i])
    BY DEF Joins
  <2>2. i # 1 => f[i - 1] \in Seq(Chars)
    BY <1>2
  <2>3. i \in 1 .. Len(parts) /\ parts[i] \in Seq(Chars) /\ parts[1] \in Seq(Chars)
    OBVIOUS
  <2>4. f[i] \in Seq(Chars)
    <3>1. CASE i = 1
      BY <2>1, <2>3, <3>1
    <3>2. CASE i # 1
      <4>1. f[i] = Glue(f[i - 1], sep, parts[i]) /\ f[i - 1] \in Seq(Chars)
        BY <2>1, <2>2, <3>2
      <4>2. PICK h \in Seq(Chars) : h = f[i - 1]
        BY <4>1
      <4> QED BY ONLY <2>3, <4>1, <4>2, sep \in Seq(Chars), GlueType
    <3> QED BY <3>1, <3>2
  <2> QED BY <2>4
<1> HIDE DEF P
<1>3. \A i \in 0 .. n : i \in P
  BY <1>1, <1>2, UpTo
<1> QED BY <1>3 DEF P

\* One character more: a delimiter is joined to what there was, and so is any other.
LEMMA JoinedPartsWith ==
    ASSUME NEW parts \in Seq(Seq(Chars)), parts # <<>>, NEW c \in Chars, NEW d \in Chars
    PROVE  /\ PartsWith(parts, c, d) \in Seq(Seq(Chars))
           /\ PartsWith(parts, c, d) # <<>>
           /\ Joined(PartsWith(parts, c, d), d) = Append(Joined(parts, d), c)
           /\ Joined(parts, d) \in Seq(Chars)
<1>1. PICK n \in Nat \ {0} : n = Len(parts)
  BY EmptySeq
<1>0. PICK sep \in Seq(Chars) : sep = <<d>>
  <2>1. <<d>> \in Seq(Chars)
    OBVIOUS
  <2> QED BY ONLY <2>1
<1>2. PICK f : Joins(f, n, parts, sep) /\ Joined(parts, d) = f[n]
  <2>1. n \in Nat
    OBVIOUS
  <2>2. PICK f : JoinsAll(f, n, parts, sep, d)
    BY ONLY <1>0, <1>1, <2>1, JoinedIs
  <2> QED BY ONLY <2>2 DEF JoinsAll
<1>3. \A i \in 1 .. n : f[i] \in Seq(Chars)
  <2>1. n \in Nat /\ n <= Len(parts)
    BY <1>1
  <2> QED BY ONLY <1>2, <2>1, parts \in Seq(Seq(Chars)), sep \in Seq(Chars), JoinsType, Zenon
<1>4. n \in 1 .. n /\ f[n] \in Seq(Chars) /\ (n > 1 => n - 1 \in 1 .. n /\ f[n - 1] \in Seq(Chars))
  <2>1. n \in 1 .. n /\ (n > 1 => n - 1 \in 1 .. n)
    OBVIOUS
  <2> QED BY <1>3, <2>1
<1>5. CASE c = d
  <2>1. PICK more : more = Append(parts, <<>>)
    OBVIOUS
  <2>2. PartsWith(parts, c, d) = more
    BY <1>5, <2>1 DEF PartsWith
  <2>3. /\ more \in Seq(Seq(Chars)) /\ Len(more) = n + 1 /\ more # <<>>
        /\ \A i \in 1 .. n : parts[i] = more[i]
        /\ more[n + 1] = <<>>
    <3>1. <<>> \in Seq(Chars)
      OBVIOUS
    <3>2. PICK last \in Seq(Chars) : last = <<>>
      BY ONLY <3>1
    <3>3. more = Append(parts, last)
      BY ONLY <2>1, <3>2
    <3>4. /\ more \in Seq(Seq(Chars)) /\ more # <<>> /\ Len(more) = Len(parts) + 1
          /\ \A i \in 1 .. Len(parts) : more[i] = parts[i]
          /\ more[Len(parts) + 1] = last
      BY ONLY <3>3, parts \in Seq(Seq(Chars)), last \in Seq(Chars), AppendProperties
    <3> QED BY ONLY <1>1, <3>2, <3>4
  <2>4. PICK m \in Nat \ {0} : m = n + 1
    OBVIOUS
  <2>5. PICK g : Joins(g, m, more, sep) /\ Joined(more, d) = g[m]
    <3>1. m = Len(more)
      BY <2>3, <2>4
    <3>2. PICK g : JoinsAll(g, m, more, sep, d)
      BY ONLY <1>0, <3>1, JoinedIs
    <3> QED BY ONLY <3>2 DEF JoinsAll
  <2>6. f[n] = g[n]
    <3>1. n \in Nat /\ m \in Nat /\ n <= m /\ n <= n
      BY <2>4
    <3>2. SameUpTo(n, parts, more)
      BY <2>3 DEF SameUpTo
    <3>3. SameUpTo(n, f, g)
      BY ONLY <1>2, <2>5, <3>1, <3>2, JoinsAgree
    <3> QED BY <1>4, <3>3 DEF SameUpTo
  <2>7. g[m] = Append(f[n], c)
    <3>1. m \in 1 .. m /\ n \in 1 .. m /\ m = n + 1 /\ m \in Nat
      BY <2>4
    <3>2. g[m] = Glue(g[n], sep, more[m])
      BY ONLY <2>5, <3>1, JoinsNext
    <3>3. g[m] = Glue(f[n], sep, more[m]) /\ more[m] = <<>>
      BY ONLY <2>3, <2>4, <2>6, <3>2
    <3> QED BY ONLY <1>0, <1>4, <1>5, <3>3, d \in Chars, GlueNothing
  <2> QED BY <1>2, <1>4, <2>2, <2>3, <2>5, <2>7
<1>6. CASE c # d
  <2>1. PICK last \in Seq(Chars) : last = parts[n]
    BY <1>1, <1>4
  <2>2. PICK more : more = [parts EXCEPT ![n] = Append(last, c)]
    OBVIOUS
  <2>3. PartsWith(parts, c, d) = more
    BY <1>1, <1>6, <2>1, <2>2 DEF PartsWith
  <2>4. /\ more \in Seq(Seq(Chars)) /\ Len(more) = n /\ more # <<>>
        /\ \A i \in 1 .. n : i # n => parts[i] = more[i]
        /\ more[n] = Append(last, c)
    <3>1. Append(last, c) \in Seq(Chars)
      OBVIOUS
    <3>2. /\ more \in Seq(Seq(Chars)) /\ Len(more) = n
          /\ \A i \in 1 .. n : more[i] = IF i = n THEN Append(last, c) ELSE parts[i]
      BY <1>1, <1>4, <2>2, <3>1, ExceptSeq
    <3> QED BY <1>4, <3>2, EmptySeq
  <2>5. PICK g : Joins(g, n, more, sep) /\ Joined(more, d) = g[n]
    <3>1. n = Len(more) /\ n \in Nat
      BY <2>4
    <3>2. PICK g : JoinsAll(g, n, more, sep, d)
      BY ONLY <1>0, <3>1, JoinedIs
    <3> QED BY ONLY <3>2 DEF JoinsAll
  <2>6. g[n] = Append(f[n], c)
    <3>1. CASE n = 1
      <4>1. f[1] = parts[1] /\ g[1] = more[1]
        BY <1>2, <2>5, JoinsFirst
      <4> QED BY <2>1, <2>4, <3>1, <4>1
    <3>2. CASE n # 1
      <4>1. PICK k \in 1 .. n : n = k + 1
        BY <3>2
      <4>2. n \in Nat /\ k \in Nat /\ k <= n /\ n \in 1 .. n
        BY <4>1
      <4>3. SameUpTo(k, f, g)
        <5>1. SameUpTo(k, parts, more)
          BY <2>4, <4>1 DEF SameUpTo
        <5> QED BY ONLY <1>2, <2>5, <4>2, <5>1, JoinsAgree
      <4>4. PICK h \in Seq(Chars) : h = f[k] /\ h = g[k]
        BY <1>3, <4>1, <4>3 DEF SameUpTo
      <4>5. f[n] = Glue(f[k], sep, parts[n])
        BY ONLY <1>2, <4>1, <4>2, JoinsNext
      <4>6. g[n] = Glue(g[k], sep, more[n])
        BY ONLY <2>5, <4>1, <4>2, JoinsNext
      <4>7. f[n] = Glue(h, sep, last) /\ g[n] = Glue(h, sep, more[n]) /\ more[n] = Append(last, c)
        <5>1. more[n] = Append(last, c)
          BY <2>4
        <5> QED BY ONLY <2>1, <4>4, <4>5, <4>6, <5>1
      <4>8. Glue(h, sep, more[n]) = Append(Glue(h, sep, last), c)
        <5>1. PICK t1 : t1 = more[n]
          OBVIOUS
        <5>2. Adds(t1, last, c)
          BY <4>7, <5>1 DEF Adds
        <5>3. Adds(Glue(h, sep, t1), Glue(h, sep, last), c)
          BY ONLY <5>2, h \in Seq(Chars), sep \in Seq(Chars), last \in Seq(Chars), c \in Chars,
             GlueAppend
        <5> QED BY <5>1, <5>3 DEF Adds
      <4> QED BY ONLY <4>7, <4>8
    <3> QED BY <3>1, <3>2
  <2> QED BY <1>2, <1>4, <2>3, <2>4, <2>5, <2>6
<1> QED BY <1>5, <1>6

\* No part has the delimiter in it.
Clean(parts, d) == \A i \in DOMAIN parts : d \notin ToSet(parts[i])

LEMMA CleanPartsWith ==
    ASSUME NEW parts \in Seq(Seq(Chars)), parts # <<>>, NEW c \in Chars, NEW d \in Chars,
           Clean(parts, d)
    PROVE  Clean(PartsWith(parts, c, d), d)
<1>1. PICK n \in Nat \ {0} : n = Len(parts) /\ DOMAIN parts = 1 .. n
  BY EmptySeq
<1>2. \A i \in 1 .. n : d \notin ToSet(parts[i])
  BY <1>1 DEF Clean
<1>3. CASE c = d
  <2>1. PICK more : more = PartsWith(parts, c, d)
    OBVIOUS
  <2>2. /\ DOMAIN more = 1 .. n + 1 /\ more[n + 1] = <<>>
        /\ \A i \in 1 .. n : more[i] = parts[i]
    <3>1. <<>> \in Seq(Chars)
      OBVIOUS
    <3>2. more = Append(parts, <<>>)
      BY <1>3, <2>1 DEF PartsWith
    <3> QED BY <1>1, <3>1, <3>2, AppendProperties
  <2>3. ASSUME NEW i \in 1 .. n + 1 PROVE d \notin ToSet(more[i])
    <3>1. CASE i = n + 1
      BY ONLY <2>2, <3>1 DEF ToSet
    <3>2. CASE i # n + 1
      <4>1. i \in 1 .. n
        BY <3>2
      <4> QED BY ONLY <1>2, <2>2, <4>1
    <3> QED BY <3>1, <3>2
  <2> QED BY ONLY <2>1, <2>2, <2>3 DEF Clean
<1>4. CASE c # d
  <2>1. PICK last \in Seq(Chars) : last = parts[n]
    BY <1>1
  <2>2. PICK more : more = [parts EXCEPT ![n] = Append(last, c)]
    OBVIOUS
  <2>3. PartsWith(parts, c, d) = more
    BY <1>1, <1>4, <2>1, <2>2 DEF PartsWith
  <2>4. DOMAIN more = 1 .. n /\ \A i \in 1 .. n : more[i] = IF i = n THEN Append(last, c) ELSE parts[i]
    BY ONLY <1>1, <2>2, n \in Nat \ {0}, parts \in Seq(Seq(Chars))
  <2>5. d \notin ToSet(Append(last, c))
    <3>1. d \notin ToSet(last)
      BY <1>2, <2>1
    <3>2. DOMAIN last = 1 .. Len(last) /\ DOMAIN Append(last, c) = 1 .. Len(last) + 1 /\ Len(last) \in Nat
      OBVIOUS
    <3>3. \A i \in 1 .. Len(last) + 1 : Append(last, c)[i] = IF i = Len(last) + 1 THEN c ELSE last[i]
      OBVIOUS
    <3>4. \A i \in 1 .. Len(last) : last[i] # d
      BY <3>1, <3>2 DEF ToSet
    <3>5. ASSUME NEW i \in 1 .. Len(last) + 1 PROVE Append(last, c)[i] # d
      BY ONLY <1>4, <3>2, <3>3, <3>4, i \in 1 .. Len(last) + 1
    <3> QED BY ONLY <3>2, <3>5 DEF ToSet
  <2>6. ASSUME NEW i \in 1 .. n PROVE d \notin ToSet(more[i])
    BY ONLY <1>2, <2>4, <2>5, i \in 1 .. n
  <2> QED BY ONLY <2>3, <2>4, <2>6 DEF Clean
<1> QED BY <1>3, <1>4

\* What has been split of a text.
SplitOf(parts, str, d, i) ==
    /\ parts \in Seq(Seq(Chars)) /\ parts # <<>>
    /\ Joined(parts, d) = SubSeq(str, 1, i)
    /\ Clean(parts, d)

LEMMA SplitNothing ==
    ASSUME NEW str \in Seq(Chars), NEW d \in Chars
    PROVE  SplitOf(<< <<>> >>, str, d, 0)
<1>1. PICK parts : parts = << <<>> >>
  OBVIOUS
<1>2. PICK n \in Nat \ {0} : n = 1
  OBVIOUS
<1>3. parts \in Seq(Seq(Chars)) /\ parts # <<>> /\ n = Len(parts)
  <2>1. <<>> \in Seq(Chars)
    OBVIOUS
  <2> QED BY <1>1, <1>2, <2>1
<1>4. PICK sep : sep = <<d>>
  OBVIOUS
<1>5. PICK f : Joins(f, n, parts, sep) /\ Joined(parts, d) = f[n]
  <2>1. n \in Nat
    OBVIOUS
  <2>2. PICK f : JoinsAll(f, n, parts, sep, d)
    BY ONLY <1>3, <1>4, <2>1, JoinedIs
  <2> QED BY ONLY <2>2 DEF JoinsAll
<1>6. Joined(parts, d) = <<>>
  <2>1. f[1] = parts[1]
    BY ONLY <1>5, n \in Nat \ {0}, JoinsFirst
  <2> QED BY <1>1, <1>2, <1>5, <2>1
<1>7. SubSeq(str, 1, 0) = <<>>
  BY SubSeqEmpty
<1>8. Clean(parts, d)
  BY <1>1 DEF Clean, ToSet
<1> QED BY ONLY <1>1, <1>3, <1>6, <1>7, <1>8 DEF SplitOf

LEMMA SplitMore ==
    ASSUME NEW str \in Seq(Chars), NEW d \in Chars, NEW i \in 1 .. Len(str), NEW h, h = i - 1,
           NEW parts, SplitOf(parts, str, d, h)
    PROVE  SplitOf(PartsWith(parts, str[i], d), str, d, i)
<1>1. /\ parts \in Seq(Seq(Chars)) /\ parts # <<>>
      /\ Joined(parts, d) = SubSeq(str, 1, h)
      /\ Clean(parts, d)
  BY DEF SplitOf
<1>2. PICK c \in Chars : c = str[i]
  OBVIOUS
<1>3. PICK more : more = PartsWith(parts, c, d)
  OBVIOUS
<1>4. more \in Seq(Seq(Chars)) /\ more # <<>>
  BY ONLY <1>1, <1>3, c \in Chars, d \in Chars, JoinedPartsWith
<1>5. Joined(more, d) = Append(Joined(parts, d), c)
  BY ONLY <1>1, <1>3, c \in Chars, d \in Chars, JoinedPartsWith
<1>6. Clean(more, d)
  BY ONLY <1>1, <1>3, c \in Chars, d \in Chars, CleanPartsWith
<1>7. Append(SubSeq(str, 1, h), c) = SubSeq(str, 1, i)
  <2>1. SubSeq(str, 1, i) = SubSeq(str, 1, i - 1) \o <<str[i]>>
    <3>1. 1 \in 1 .. Len(str) /\ i \in 1 .. Len(str)
      OBVIOUS
    <3> QED BY ONLY <3>1, str \in Seq(Chars), SubSeqRecursiveSecond
  <2>2. SubSeq(str, 1, h) \in Seq(Chars)
    OBVIOUS
  <2>3. Append(SubSeq(str, 1, h), c) = SubSeq(str, 1, h) \o <<c>>
    BY ONLY <2>2, c \in Chars, AppendIsConcat
  <2> QED BY ONLY <1>2, <2>1, <2>3, h = i - 1
<1> QED BY ONLY <1>1, <1>2, <1>3, <1>4, <1>5, <1>6, <1>7 DEF SplitOf

LEMMA SplitIs ==
    ASSUME NEW text \in Seq(Chars), NEW d \in Chars, NEW str, str = Skipped(CString(text), d)
    PROVE  str \in Seq(Chars) /\ SplitOf(aoStrSplit(text, d), str, d, Len(str))
<1>1. str \in Seq(Chars)
  BY CStringIs DEF Skipped
<1>2. PICK n \in Nat : n = Len(str)
  BY <1>1
<1> DEFINE parts == CHOOSE f : f = [i \in 0 .. Len(Skipped(CString(text), d)) |->
                                      IF i = 0 THEN << <<>> >>
                                      ELSE PartsWith(f[i - 1], Skipped(CString(text), d)[i], d)]
           P == {i \in 0 .. n : SplitOf(parts[i], str, d, i)}
<1>3. Splits(parts, n, str, d)
  <2>1. \E f : Splits(f, n, str, d)
    BY SplitsExists
  <2> QED BY <1>2, <2>1 DEF Splits
<1>4. aoStrSplit(text, d) = parts[n]
  <2>1. aoStrSplit(text, d) = parts[Len(Skipped(CString(text), d))]
    BY DEF aoStrSplit
  <2> HIDE DEF parts
  <2> QED BY <1>2, <2>1
<1> HIDE DEF parts
<1>5. parts[0] = << <<>> >> /\ \A i \in 1 .. n : parts[i] = PartsWith(parts[i - 1], str[i], d)
  <2>1. ASSUME NEW i \in 0 .. n
        PROVE  parts[i] = IF i = 0 THEN << <<>> >> ELSE PartsWith(parts[i - 1], str[i], d)
    BY <1>3, Zenon DEF Splits
  <2>2. parts[0] = << <<>> >>
    BY <2>1
  <2>3. ASSUME NEW i \in 1 .. n PROVE parts[i] = PartsWith(parts[i - 1], str[i], d)
    <3>1. i \in 0 .. n /\ i # 0
      OBVIOUS
    <3> QED BY <2>1, <3>1
  <2> QED BY <2>2, <2>3
<1>6. 0 \in P
  BY <1>1, <1>5, SplitNothing
<1>7. ASSUME NEW m \in 1 .. n, m - 1 \in P PROVE m \in P
  <2>1. PICK h \in Nat : h = m - 1
    OBVIOUS
  <2>2. PICK before : before = parts[h]
    OBVIOUS
  <2>3. SplitOf(before, str, d, h)
    BY <1>7, <2>1, <2>2
  <2>4. SplitOf(PartsWith(before, str[m], d), str, d, m)
    BY <1>1, <1>2, <2>1, <2>3, SplitMore
  <2> QED BY <1>5, <2>1, <2>2, <2>4
<1> HIDE DEF P
<1>8. \A i \in 0 .. n : i \in P
  BY <1>6, <1>7, UpTo
<1>9. n \in P
  BY <1>8
<1> QED BY <1>1, <1>2, <1>4, <1>9 DEF P

\* Splitting loses nothing: the parts put together again are the text, but for one
\* delimiter at its start, and none of them has a delimiter in it.
THEOREM SplitLosesNothing == CallsSpec => []SplitJoins
<1>1. CallsInv => SplitJoins
  <2>1. SUFFICES ASSUME CallsInv, Of("split")
                 PROVE  LET joined == Joined(result[1], call.delimiter)
                        IN /\ joined \in {CString(call.text)} \union
                                 {Tail(s) : s \in {CString(call.text)} \ {<<>>}}
                           /\ joined = CString(call.text)
                                 <=> CString(call.text) = <<>> \/ call.text[1] # call.delimiter
                           /\ \A i \in DOMAIN result[1] : call.delimiter \notin ToSet(result[1][i])
    BY DEF SplitJoins
  <2>2. PICK text \in Seq(Chars), d \in Chars : text = call.text /\ d = call.delimiter
    BY <2>1, ArgumentsAssumption DEF CallsInv, Of
  <2>3. PICK whole \in Seq(Chars) : whole = CString(text) /\ (whole # <<>> => whole[1] = text[1])
    BY CStringIs
  <2>4. PICK str : str = Skipped(whole, d)
    OBVIOUS
  <2>5. PICK parts : parts = aoStrSplit(text, d)
    OBVIOUS
  <2>6. result[1] = parts
    BY <2>1, <2>2, <2>5 DEF CallsInv, Of, Returned
  <2>7. str \in Seq(Chars) /\ SplitOf(parts, str, d, Len(str))
    BY <2>3, <2>4, <2>5, SplitIs
  <2>8. SubSeq(str, 1, Len(str)) = str
    BY <2>7, SubSeqFull
  <2>9. Joined(parts, d) = str /\ Clean(parts, d)
    BY ONLY <2>7, <2>8 DEF SplitOf
  <2>10. str \in {whole} \union {Tail(s) : s \in {whole} \ {<<>>}}
    BY <2>4 DEF Skipped
  <2>11. str = whole <=> whole = <<>> \/ text[1] # d
    <3>1. CASE whole = <<>> \/ text[1] # d
      BY <2>3, <2>4, <3>1 DEF Skipped
    <3>2. CASE whole # <<>> /\ text[1] = d
      <4>1. str = Tail(whole)
        BY <2>3, <2>4, <3>2 DEF Skipped
      <4>2. PICK k \in Nat : k = Len(whole) /\ Len(str) = k - 1
        BY <3>2, <4>1
      <4>3. str # whole
        <5>1. k # k - 1
          OBVIOUS
        <5> QED BY ONLY <4>2, <5>1
      <4> QED BY <3>2, <4>3
    <3> QED BY <3>1, <3>2
  <2> QED BY ONLY <2>2, <2>3, <2>6, <2>9, <2>10, <2>11 DEF Clean
<1> QED BY <1>1, CallsInvariance, PTL

-----------------------------------------------------------------------------
(* The message between client and server.                                   *)

\* A number and its last digit.
Divided(m, q, r) == q = m \div Base /\ r = m % Base /\ m = q * Base + r

LEMMA Division ==
    ASSUME NEW m \in Nat, ~ m < Base
    PROVE  \E q \in 0 .. m - 1, r \in Digits : Divided(m, q, r)
<1>1. PICK b \in Nat \ {0, 1} : b = Base
  BY MessageAssumption
<1>2. m = b * (m \div b) + (m % b) /\ m % b \in 0 .. b - 1 /\ m \div b \in Int
  OBVIOUS
<1>3. PICK q \in Int, r \in 0 .. b - 1 : q = m \div b /\ r = m % b /\ m = b * q + r
  BY <1>2
<1>4. q \in 0 .. m - 1
  <2>1. q >= 0
    <3>1. SUFFICES ASSUME NEW p \in Nat, q = -1 - p PROVE FALSE
      <4>1. q < 0 => -1 - q \in Nat /\ q = -1 - (-1 - q)
        OBVIOUS
      <4> QED BY <3>1, <4>1
    <3>2. b * p \in Nat /\ b * q = -b - b * p
      BY <3>1
    <3>3. PICK e \in Nat : e = b * p
      BY <3>2
    <3>4. m = (-b - e) + r
      BY <1>3, <3>2, <3>3
    <3> QED BY <3>4
  <2>2. q > 0
    BY <1>1, <1>3, <2>1
  <2>3. b * q >= 2 * q
    BY <2>2
  <2> QED BY <1>3, <2>2, <2>3
<1>5. b * q = q * b
  OBVIOUS
<1>6. r \in Digits /\ Divided(m, q, r)
  BY <1>1, <1>3, <1>5 DEF Digits, Divided
<1> QED BY <1>4, <1>6

\* The functions of atoi and Decimal.
Values(f, n, digits) == f = [i \in 0 .. n |-> IF i = 0 THEN 0 ELSE f[i - 1] * Base + digits[i]]
Decimals(f, n) == f = [m \in 0 .. n |-> IF m < Base THEN <<m>> ELSE Append(f[m \div Base], m % Base)]

LEMMA ValuesExists ==
    ASSUME NEW digits, NEW n \in Nat
    PROVE  \E f : Values(f, n, digits)
<1> DEFINE P == {i \in 0 .. n : \E f : Values(f, i, digits)}
<1>1. 0 \in P
  <2>1. Values([i \in 0 .. 0 |-> 0], 0, digits)
    BY DEF Values
  <2> QED BY <2>1
<1>2. ASSUME NEW m \in 1 .. n, m - 1 \in P PROVE m \in P
  <2>1. PICK f : Values(f, m - 1, digits)
    BY <1>2
  <2> DEFINE g == [i \in 0 .. m |-> IF i < m THEN f[i] ELSE f[m - 1] * Base + digits[m]]
  <2>2. ASSUME NEW i \in 0 .. m
        PROVE  g[i] = IF i = 0 THEN 0 ELSE g[i - 1] * Base + digits[i]
    <3>1. CASE i = m
      <4>1. g[m - 1] = f[m - 1] /\ g[m] = f[m - 1] * Base + digits[m]
        OBVIOUS
      <4> QED BY <3>1, <4>1
    <3>2. CASE i < m
      <4>1. i \in 0 .. m - 1 /\ g[i] = f[i]
        BY <3>2
      <4>2. f[i] = IF i = 0 THEN 0 ELSE f[i - 1] * Base + digits[i]
        BY <2>1, <4>1 DEF Values
      <4>3. i # 0 => g[i - 1] = f[i - 1]
        BY <3>2
      <4> QED BY <4>1, <4>2, <4>3
    <3> QED BY <3>1, <3>2
  <2>3. g = [i \in 0 .. m |-> IF i = 0 THEN 0 ELSE g[i - 1] * Base + digits[i]]
    <3>1. g = [i \in 0 .. m |-> g[i]]
      OBVIOUS
    <3> HIDE DEF g
    <3> QED BY <2>2, <3>1
  <2>4. Values(g, m, digits)
    BY <2>3 DEF Values
  <2>5. \E f1 : Values(f1, m, digits)
    BY <2>4
  <2> QED BY <2>5
<1> HIDE DEF P
<1>3. \A i \in 0 .. n : i \in P
  BY <1>1, <1>2, UpTo
<1>4. n \in P
  BY <1>3
<1> QED BY <1>4 DEF P

LEMMA DecimalsExists ==
    ASSUME NEW n \in Nat
    PROVE  \E f : Decimals(f, n)
<1> DEFINE P == {i \in 0 .. n : \E f : Decimals(f, i)}
           body(f, m) == IF m < Base THEN <<m>> ELSE Append(f[m \div Base], m % Base)
<1>1. 0 \in P
  <2>1. Decimals([i \in 0 .. 0 |-> <<i>>], 0)
    BY MessageAssumption DEF Decimals
  <2> QED BY <2>1
<1>2. ASSUME NEW m \in 1 .. n, m - 1 \in P PROVE m \in P
  <2>1. PICK f : Decimals(f, m - 1)
    BY <1>2
  <2> DEFINE g == [i \in 0 .. m |-> IF i < m THEN f[i] ELSE body(f, m)]
  <2>2. ASSUME NEW i \in 0 .. m PROVE g[i] = body(g, i)
    <3>1. ~ i < Base => g[i \div Base] = f[i \div Base]
      <4>1. ~ i < Base => i \div Base \in 0 .. i - 1
        BY Division DEF Divided
      <4> QED BY <4>1
    <3>2. g[i] = body(f, i)
      <4>1. CASE i = m
        BY <4>1
      <4>2. CASE i < m
        <5>1. i \in 0 .. m - 1 /\ g[i] = f[i]
          BY <4>2
        <5> QED BY <2>1, <5>1 DEF Decimals
      <4> QED BY <4>1, <4>2
    <3> HIDE DEF g
    <3> QED BY <3>1, <3>2
  <2>3. g = [i \in 0 .. m |-> body(g, i)]
    <3>1. g = [i \in 0 .. m |-> g[i]]
      OBVIOUS
    <3> HIDE DEF g
    <3> QED BY <2>2, <3>1
  <2>4. Decimals(g, m)
    BY <2>3 DEF Decimals
  <2>5. \E f1 : Decimals(f1, m)
    BY <2>4
  <2> QED BY <2>5
<1> HIDE DEF P
<1>3. \A i \in 0 .. n : i \in P
  BY <1>1, <1>2, UpTo
<1>4. n \in P
  BY <1>3
<1> QED BY <1>4 DEF P

LEMMA AtoiIs ==
    ASSUME NEW digits, NEW n \in Nat, n = Len(digits)
    PROVE  \E f : Values(f, n, digits) /\ atoi(digits) = f[n]
<1> DEFINE value == CHOOSE f : f = [i \in 0 .. Len(digits) |-> IF i = 0 THEN 0
                                                            ELSE f[i - 1] * Base + digits[i]]
<1>1. Values(value, n, digits)
  <2>1. \E f : Values(f, n, digits)
    BY ValuesExists
  <2> QED BY <2>1 DEF Values
<1>2. atoi(digits) = value[n]
  BY DEF atoi
<1> HIDE DEF value
<1> QED BY <1>1, <1>2

\* The value of a number depends on the digits it has.
LEMMA ValuesAgree ==
    ASSUME NEW s, NEW t, NEW m \in Nat, NEW n \in Nat, NEW f, NEW g,
           Values(f, m, s), Values(g, n, t), NEW k \in Nat, k <= m, k <= n, SameUpTo(k, s, t)
    PROVE  f[k] = g[k]
<1> DEFINE P == {i \in 0 .. k : f[i] = g[i]}
<1>1. 0 \in P
  BY DEF Values
<1>2. ASSUME NEW i \in 1 .. k, i - 1 \in P PROVE i \in P
  <2>1. i \in 1 .. m /\ i \in 1 .. n /\ s[i] = t[i]
    BY DEF SameUpTo
  <2>2. f[i] = f[i - 1] * Base + s[i]
    BY <2>1 DEF Values
  <2>3. g[i] = g[i - 1] * Base + t[i]
    BY <2>1 DEF Values
  <2>4. f[i - 1] = g[i - 1]
    BY <1>2
  <2>5. f[i] = g[i]
    BY <2>1, <2>2, <2>3, <2>4
  <2> QED BY <2>5
<1> HIDE DEF P
<1>3. \A i \in 0 .. k : i \in P
  BY <1>1, <1>2, UpTo
<1>4. k \in P
  BY <1>3
<1> QED BY <1>4 DEF P

LEMMA AtoiAppend ==
    ASSUME NEW s \in Seq(Nat), NEW d \in Nat, NEW t, Adds(t, s, d)
    PROVE  atoi(t) = atoi(s) * Base + d
<1>1. PICK n \in Nat : n = Len(s)
  OBVIOUS
<1>2. PICK m \in Nat : m = n + 1
  OBVIOUS
<1>3. m = Len(t) /\ (\A i \in 1 .. n : s[i] = t[i]) /\ t[m] = d
  BY <1>1, <1>2 DEF Adds
<1>4. PICK f : Values(f, n, s) /\ atoi(s) = f[n]
  BY <1>1, AtoiIs
<1>5. PICK g : Values(g, m, t) /\ atoi(t) = g[m]
  BY <1>3, AtoiIs
<1>6. f[n] = g[n]
  <2>1. SameUpTo(n, s, t) /\ n <= n /\ n <= m
    BY <1>2, <1>3 DEF SameUpTo
  <2> QED BY ONLY <1>4, <1>5, <2>1, n \in Nat, m \in Nat, ValuesAgree
<1>7. g[m] = g[n] * Base + d
  <2>1. m \in 0 .. m /\ m # 0 /\ m - 1 = n
    BY <1>2
  <2> QED BY <1>3, <1>5, <2>1 DEF Values
<1> QED BY <1>4, <1>5, <1>6, <1>7

\* A length is written in digits, not many, and read back as it was.
LEMMA DecimalReadsBack ==
    ASSUME NEW n \in Nat
    PROVE  Decimal(n) \in Seq(Digits) /\ atoi(Decimal(n)) = n /\ 2 * Len(Decimal(n)) <= n + 2
<1> DEFINE digits == CHOOSE f : f = [m \in 0 .. n |-> IF m < Base THEN <<m>>
                                                   ELSE Append(f[m \div Base], m % Base)]
           Good(m) == digits[m] \in Seq(Digits) /\ atoi(digits[m]) = m /\ 2 * Len(digits[m]) <= m + 2
           P == {i \in 0 .. n : \A m \in 0 .. i : Good(m)}
<1>1. Decimals(digits, n)
  <2>1. \E f : Decimals(f, n)
    BY DecimalsExists
  <2> QED BY <2>1 DEF Decimals
<1>2. Decimal(n) = digits[n]
  BY DEF Decimal
<1> HIDE DEF digits
<1>3. \A m \in 0 .. n : digits[m] = IF m < Base THEN <<m>> ELSE Append(digits[m \div Base], m % Base)
  BY <1>1 DEF Decimals
<1>4. ASSUME NEW m \in 0 .. n, m < Base PROVE Good(m)
  <2>1. m \in Digits /\ m \in Nat
    BY <1>4, MessageAssumption DEF Digits
  <2>2. PICK s : s = <<m>>
    OBVIOUS
  <2>3. digits[m] = s /\ s \in Seq(Digits)
    BY <1>3, <1>4, <2>1, <2>2
  <2>4. atoi(s) = m
    <3>1. PICK e \in Seq(Nat) : e = <<>>
      <4>1. <<>> \in Seq(Nat)
        OBVIOUS
      <4> QED BY ONLY <4>1
    <3>2. Adds(s, e, m)
      BY <2>2, <3>1 DEF Adds
    <3>3. atoi(s) = atoi(e) * Base + m
      BY ONLY <2>1, <3>2, e \in Seq(Nat), AtoiAppend
    <3>4. atoi(e) = 0
      <4>1. PICK z \in Nat : z = 0
        OBVIOUS
      <4>2. z = Len(e)
        BY <3>1, <4>1
      <4>3. PICK f : Values(f, z, e) /\ atoi(e) = f[z]
        BY ONLY <4>2, z \in Nat, AtoiIs
      <4> QED BY <4>1, <4>3 DEF Values
    <3> QED BY <2>1, <3>3, <3>4, MessageAssumption
  <2>5. Len(s) = 1
    BY <2>2
  <2> QED BY <2>1, <2>3, <2>4, <2>5
<1>5. ASSUME NEW m \in 0 .. n, ~ m < Base, Good(m \div Base) PROVE Good(m)
  <2>1. PICK q \in 0 .. m - 1, r \in Digits : q = m \div Base /\ r = m % Base /\ m = q * Base + r
    BY <1>5, Division DEF Divided
  <2>2. PICK s \in Seq(Digits) : s = digits[q] /\ atoi(s) = q /\ 2 * Len(s) <= q + 2
    BY <1>5, <2>1
  <2>3. PICK t : t = digits[m]
    OBVIOUS
  <2>4. t = Append(s, r)
    BY <1>3, <1>5, <2>1, <2>2, <2>3
  <2>5. t \in Seq(Digits)
    BY ONLY <2>4, s \in Seq(Digits), r \in Digits, AppendProperties
  <2>6. atoi(t) = atoi(s) * Base + r
    <3>1. s \in Seq(Nat) /\ r \in Nat
      BY MessageAssumption DEF Digits
    <3>2. Adds(t, s, r)
      BY ONLY <2>4 DEF Adds
    <3> QED BY ONLY <3>1, <3>2, AtoiAppend
  <2>7. 2 * Len(t) <= m + 2
    <3>1. PICK n0 \in Nat : n0 = Len(s)
      OBVIOUS
    <3>2. Len(t) = n0 + 1
      BY ONLY <2>4, <3>1, s \in Seq(Digits), r \in Digits, AppendProperties
    <3>3. m \in Nat /\ q \in Nat /\ r \in Nat /\ q >= 1 /\ q * Base >= 2 * q
      <4>1. PICK b \in Nat : b = Base /\ b >= 2
        BY MessageAssumption
      <4>2. m \in Nat /\ q \in Nat /\ r \in Nat /\ r < b
        BY <2>1, <4>1 DEF Digits
      <4>3. q # 0
        <5>1. SUFFICES ASSUME q = 0 PROVE FALSE
          OBVIOUS
        <5>2. m = 0 * b + r /\ ~ m < b
          BY <1>5, <2>1, <4>1, <5>1
        <5> QED BY ONLY <4>1, <4>2, <5>2
      <4>4. q * b >= 2 * q
        BY ONLY <4>1, <4>2
      <4> QED BY ONLY <4>1, <4>2, <4>3, <4>4
    <3>4. CASE q < Base
      <4>1. q \in 0 .. n
        BY <3>3, <2>1
      <4>2. digits[q] = <<q>>
        BY ONLY <1>3, <3>4, <4>1
      <4>3. n0 = 1
        BY ONLY <2>2, <3>1, <4>2
      <4>4. ~ m < Base /\ Base \in Nat /\ Base >= 2
        BY <1>5, MessageAssumption
      <4> QED BY ONLY <3>2, <3>3, <4>3, <4>4
    <3>5. CASE ~ q < Base
      <4>1. q >= 2
        BY <3>3, <3>5, MessageAssumption
      <4>2. PICK p \in Nat : p = q * Base
        BY <3>3, MessageAssumption
      <4>3. 2 * n0 <= q + 2
        BY ONLY <2>2, <3>1
      <4>4. m = p + r
        BY <2>1, <4>2
      <4>5. p >= 2 * q
        BY <3>3, <4>2
      <4>6. r \in Nat /\ q \in Nat /\ m \in Nat
        BY <3>3
      <4>7. 2 * (n0 + 1) <= m + 2
        BY ONLY <4>1, <4>3, <4>4, <4>5, <4>6, n0 \in Nat, p \in Nat
      <4> QED BY ONLY <3>2, <4>7
    <3> QED BY <3>4, <3>5
  <2> QED BY <2>1, <2>2, <2>3, <2>5, <2>6, <2>7
<1>6. 0 \in P
  <2>1. Good(0)
    BY <1>4, MessageAssumption
  <2> HIDE DEF Good
  <2> QED BY <2>1
<1>7. ASSUME NEW m \in 1 .. n, m - 1 \in P PROVE m \in P
  <2>1. \A i \in 0 .. m - 1 : Good(i)
    BY <1>7
  <2>2. ~ m < Base => m \div Base \in 0 .. m - 1
    BY Division DEF Divided
  <2> HIDE DEF Good
  <2>3. Good(m)
    BY <1>4, <1>5, <2>1, <2>2
  <2>4. ASSUME NEW i \in 0 .. m PROVE Good(i)
    <3>1. CASE i = m
      BY <2>3, <3>1
    <3>2. CASE i # m
      BY <2>1, <3>2
    <3> QED BY <3>1, <3>2
  <2> QED BY <2>4
<1> HIDE DEF P
<1>8. \A i \in 0 .. n : i \in P
  BY <1>6, <1>7, UpTo
<1>9. n \in P /\ n \in 0 .. n
  BY <1>8
<1> HIDE DEF Good
<1>10. Good(n)
  BY <1>9 DEF P
<1> QED BY <1>2, <1>10 DEF Good

LEMMA AtoiType ==
    ASSUME NEW s \in Seq(Nat)
    PROVE  atoi(s) \in Nat
<1>1. PICK n \in Nat : n = Len(s)
  OBVIOUS
<1>2. PICK f : Values(f, n, s) /\ atoi(s) = f[n]
  BY <1>1, AtoiIs
<1> DEFINE P == {i \in 0 .. n : f[i] \in Nat}
<1>3. 0 \in P
  BY <1>2 DEF Values
<1>4. ASSUME NEW i \in 1 .. n, i - 1 \in P PROVE i \in P
  <2>1. i \in 0 .. n /\ i # 0 /\ s[i] \in Nat /\ f[i - 1] \in Nat
    BY <1>1, <1>4
  <2>2. f[i] = f[i - 1] * Base + s[i]
    BY <1>2, <2>1 DEF Values
  <2>3. PICK a \in Nat, c \in Nat : a = f[i - 1] /\ c = s[i]
    BY <2>1
  <2>4. a * Base + c \in Nat
    BY ONLY a \in Nat, c \in Nat, MessageAssumption
  <2>5. f[i] \in Nat
    BY <2>2, <2>3, <2>4
  <2> QED BY <2>1, <2>5
<1> HIDE DEF P
<1>5. \A i \in 0 .. n : i \in P
  BY <1>3, <1>4, UpTo
<1>6. n \in P
  BY <1>5
<1> QED BY <1>2, <1>6 DEF P

\* The first digits of a number make no greater number.
LEMMA AtoiPrefix ==
    ASSUME NEW s \in Seq(Nat), NEW t \in Seq(Nat), NEW k \in Nat, NEW n \in Nat,
           k = Len(t), n = Len(s), k <= n, SameUpTo(k, t, s)
    PROVE  atoi(t) <= atoi(s)
<1>1. PICK f : Values(f, n, s) /\ atoi(s) = f[n]
  BY AtoiIs
<1>2. PICK g : Values(g, k, t) /\ atoi(t) = g[k]
  BY AtoiIs
<1>3. g[k] = f[k]
  <2>1. k <= k
    OBVIOUS
  <2> QED BY ONLY <1>1, <1>2, <2>1, k \in Nat, n \in Nat, k <= n, SameUpTo(k, t, s), ValuesAgree
<1>4. PICK v \in Nat : v = atoi(t)
  BY AtoiType
<1> DEFINE P == {i \in 0 .. n : f[i] \in Nat /\ (i >= k => v <= f[i])}
<1>5. 0 \in P
  <2>1. f[0] = 0
    BY <1>1 DEF Values
  <2> QED BY <1>2, <1>3, <1>4, <2>1
<1>6. ASSUME NEW i \in 1 .. n, i - 1 \in P PROVE i \in P
  <2>1. i \in 0 .. n /\ i # 0 /\ s[i] \in Nat
    OBVIOUS
  <2>2. f[i] = f[i - 1] * Base + s[i]
    BY <1>1, <2>1 DEF Values
  <2>3. f[i - 1] \in Nat /\ (i - 1 >= k => v <= f[i - 1])
    BY <1>6
  <2>4. PICK a \in Nat, c \in Nat : a = f[i - 1] /\ c = s[i]
    BY <2>1, <2>3
  <2>5. f[i] \in Nat /\ f[i] >= a
    <3>1. PICK b \in Nat : b = Base /\ b >= 2
      BY MessageAssumption
    <3>2. PICK p \in Nat : p = a * b /\ p >= a
      BY ONLY <3>1, a \in Nat, b \in Nat
    <3>3. f[i] = p + c
      BY ONLY <2>2, <2>4, <3>1, <3>2
    <3>4. p >= a
      BY <3>2
    <3> QED BY ONLY <3>3, <3>4, a \in Nat, c \in Nat, p \in Nat
  <2>6. ASSUME i >= k PROVE v <= f[i]
    <3>1. CASE i = k
      BY <1>2, <1>3, <1>4, <3>1
    <3>2. CASE i # k
      <4>1. i - 1 >= k
        BY <2>6, <3>2
      <4>2. v <= a
        BY ONLY <2>3, <2>4, <4>1
      <4> QED BY <2>5, <4>2
    <3> QED BY <3>1, <3>2
  <2> QED BY <2>1, <2>5, <2>6
<1> HIDE DEF P
<1>7. \A i \in 0 .. n : i \in P
  BY <1>5, <1>6, UpTo
<1>8. n \in P
  BY <1>7
<1> QED BY <1>1, <1>4, <1>8 DEF P

\* The part of a message that is copied: it has no colon in it, and ends because the
\* message does, there is no more room, or a colon comes next.
CopiedTo(msg, t) ==
    /\ t \in 0 .. Len(msg) /\ t <= WordRoom
    /\ \A i \in 1 .. t : msg[i] # Colon
    /\ t < Len(msg) /\ t < WordRoom => msg[t + 1] = Colon

LEMMA BeforeColonIs ==
    ASSUME NEW msg \in Seq(Nat)
    PROVE  \E t : CopiedTo(msg, t) /\ BeforeColon(msg) = SubSeq(msg, 1, t)
<1> DEFINE I == {i \in 1 .. Len(msg) : msg[i] = Colon}
           end == IF I # {} THEN Min(I) ELSE 0
           t == IF end \in 1 .. WordRoom THEN end - 1 ELSE IF Len(msg) < WordRoom THEN Len(msg) ELSE WordRoom
<1>1. BeforeColon(msg) = SubSeq(msg, 1, t)
  BY DEF BeforeColon, SelectInSeq
<1>2. PICK n \in Nat : n = Len(msg)
  OBVIOUS
<1>3. /\ end \in 0 .. n
      /\ end # 0 => msg[end] = Colon
      /\ \A i \in 1 .. n : msg[i] = Colon => end # 0 /\ end <= i
  <2>1. CASE I = {}
    BY <1>2, <2>1
  <2>2. CASE I # {}
    <3>1. I \in SUBSET Nat
      OBVIOUS
    <3>2. Min(I) \in I /\ \A i \in I : Min(I) <= i
      <4> HIDE DEF I
      <4> QED BY <2>2, <3>1, LeastIs
    <3>3. PICK m : m = Min(I)
      OBVIOUS
    <3>4. end = m
      BY <2>2, <3>3
    <3>5. m \in I /\ \A i \in I : m <= i
      BY <3>2, <3>3
    <3> HIDE DEF end
    <3> QED BY <1>2, <3>4, <3>5
  <2> QED BY <2>1, <2>2
<1> HIDE DEF end
<1>4. CopiedTo(msg, t)
  <2>1. WordRoom \in Nat
    BY MessageAssumption
  <2>2. t \in 0 .. n /\ t <= WordRoom
    BY <1>2, <1>3, <2>1
  <2>3. ASSUME NEW i \in 1 .. t PROVE msg[i] # Colon
    BY <1>2, <1>3, <2>1, <2>2
  <2>4. ASSUME t < n, t < WordRoom PROVE msg[t + 1] = Colon
    <3>1. t + 1 = end /\ end # 0
      BY <1>2, <1>3, <2>1, <2>4
    <3> QED BY <1>3, <3>1
  <2> HIDE DEF t
  <2> QED BY <1>2, <2>2, <2>3, <2>4 DEF CopiedTo
<1> QED BY <1>1, <1>4

\* What is written: the word, the colon, the digits.
Written(m, word, l) ==
    /\ m \in Seq(Nat) /\ Len(m) = l + 1 + Len(Decimal(l))
    /\ \A i \in 1 .. l : m[i] = word[i]
    /\ m[l + 1] = Colon
    /\ \A i \in 1 .. Len(Decimal(l)) : m[l + 1 + i] = Decimal(l)[i]

LEMMA WrittenIs ==
    ASSUME NEW word \in Seq(Nat), NEW l, l = Len(word), NEW m, m = clientMessage(word)
    PROVE  Written(m, word, l)
<1>1. l \in Nat /\ Colon \in Nat
  BY MessageAssumption DEF Colon
<1>2. PICK digits : digits = Decimal(l)
  OBVIOUS
<1>3. digits \in Seq(Nat)
  <2>1. digits \in Seq(Digits)
    BY <1>1, <1>2, DecimalReadsBack
  <2>2. Digits \subseteq Nat
    BY MessageAssumption DEF Digits
  <2> QED BY <2>1, <2>2, SeqMonotonic
<1>4. PICK c \in Nat : c = Colon
  BY <1>1
<1>5. PICK start : start = word \o <<c>>
  OBVIOUS
<1>6. /\ start \in Seq(Nat) /\ Len(start) = l + 1
      /\ \A i \in 1 .. l : start[i] = word[i]
      /\ start[l + 1] = c
  BY <1>1, <1>5
<1>7. m = start \o digits
  BY <1>2, <1>4, <1>5 DEF clientMessage
<1>8. /\ m \in Seq(Nat) /\ Len(m) = Len(start) + Len(digits)
      /\ \A i \in 1 .. Len(start) + Len(digits) : m[i] = IF i <= Len(start) THEN start[i] ELSE digits[i - Len(start)]
  <2>1. start \in Seq(Nat)
    BY <1>6
  <2> QED BY ONLY <1>3, <1>7, <2>1
<1>9. Len(digits) \in Nat
  BY <1>3
<1>10. ASSUME NEW i \in 1 .. Len(digits) PROVE m[l + 1 + i] = digits[i]
  <2>1. PICK j \in 1 .. Len(start) + Len(digits) : j = l + 1 + i /\ ~ j <= Len(start) /\ j - Len(start) = i
    BY <1>1, <1>6, <1>9
  <2> QED BY <1>8, <2>1
<1>11. ASSUME NEW i \in 1 .. l + 1 PROVE m[i] = start[i]
  <2>1. i \in 1 .. Len(start) + Len(digits) /\ i <= Len(start)
    BY <1>1, <1>6, <1>9
  <2> QED BY <1>8, <2>1
<1>12. \A i \in 1 .. l : m[i] = word[i]
  <2>1. \A i \in 1 .. l : i \in 1 .. l + 1
    BY <1>1
  <2> QED BY <1>6, <1>11, <2>1
<1>13. m[l + 1] = Colon
  <2>1. l + 1 \in 1 .. l + 1
    BY <1>1
  <2> QED BY <1>4, <1>6, <1>11, <2>1
<1> QED BY <1>2, <1>6, <1>8, <1>10, <1>12, <1>13 DEF Written

\* What is read as the length: what was received behind the character that is skipped,
\* and no more than there is room for.
NumberOf(strnum, m, t, received) ==
    /\ strnum \in Seq(Nat) /\ Len(strnum) <= WordRoom /\ Len(strnum) <= received - (t + 1)
    /\ Len(strnum) < WordRoom => Len(strnum) = received - (t + 1)
    /\ \A i \in 1 .. Len(strnum) : strnum[i] = m[t + 1 + i]

LEMMA NumberIs ==
    ASSUME NEW msg \in Seq(Nat), NEW m, NEW received \in Nat, received = Len(msg),
           \A i \in 1 .. received : msg[i] = m[i],
           NEW tmpword, NEW t \in Nat, t = Len(tmpword), t < received,
           NEW strnum, strnum = Number(msg, tmpword)
    PROVE  NumberOf(strnum, m, t, received)
<1>1. PICK room \in Nat : room = WordRoom /\ room > 2
  BY MessageAssumption
<1>2. PICK a \in Int, b \in Int : a = t + 2 /\ b = IF received < t + 1 + room THEN received ELSE t + 1 + room
  OBVIOUS
<1>3. strnum = SubSeq(msg, a, b)
  <2>1. strnum = SubSeq(msg, t + 1 + 1, IF received < t + 1 + room THEN received ELSE t + 1 + room)
    BY <1>1 DEF Number
  <2>2. a = t + 1 + 1
    BY ONLY <1>2, t \in Nat
  <2> QED BY ONLY <2>1, <2>2, <1>2
<1>4. \A i \in a .. b : msg[i] \in Nat
  BY <1>1, <1>2
<1>5. /\ strnum \in Seq(Nat) /\ Len(strnum) = IF a <= b THEN b - a + 1 ELSE 0
      /\ \A i \in 1 .. b - a + 1 : strnum[i] = msg[a + i - 1]
  BY ONLY <1>3, <1>4, a \in Int, b \in Int, SubSeqProperties
<1>6. PICK v \in Nat : v = Len(strnum)
  <2>1. strnum \in Seq(Nat)
    BY <1>5
  <2> QED BY ONLY <2>1
<1>7. v = b - a + 1 /\ v <= room /\ v <= received - (t + 1) /\ (v < room => v = received - (t + 1))
  <2>1. v = IF a <= b THEN b - a + 1 ELSE 0
    BY <1>5, <1>6
  <2>2. /\ a \in Int /\ b \in Int /\ room \in Nat /\ room > 2 /\ a = t + 2
        /\ b = IF received < t + 1 + room THEN received ELSE t + 1 + room
    BY <1>1, <1>2
  <2> QED BY ONLY <2>1, <2>2, t < received, t \in Nat, received \in Nat
<1>8. ASSUME NEW i \in 1 .. v PROVE strnum[i] = m[t + 1 + i]
  <2>1. i \in 1 .. b - a + 1
    BY <1>2, <1>7
  <2>2. PICK j \in 1 .. received : j = a + i - 1 /\ j = t + 1 + i
    BY <1>2, <1>7
  <2> QED BY <1>5, <2>1, <2>2
<1> QED BY ONLY <1>1, <1>5, <1>6, <1>7, <1>8 DEF NumberOf

\* What the server makes of a message of which it was sent the first part.
Received(word, received, r) ==
    LET whole == received = Len(clientMessage(word))
        fits == Len(word) <= WordRoom /\ Colon \notin ToSet(word)
    IN /\ whole => r = IF fits THEN Read(word, Len(word) = WordRoom)
                       ELSE IF RunsOver(word) THEN Undefined ELSE Refused
       /\ fits => r # Undefined
       /\ r \notin {Refused, Undefined} => IsPrefix(r.word, word)

\* The three outcomes are three.
LEMMA Outcomes ==
    ASSUME NEW w, NEW b
    PROVE  Read(w, b) # Undefined /\ Read(w, b) # Refused /\ Undefined # Refused
<1>1. Refused.ok = FALSE /\ Undefined.ok = TRUE /\ Read(w, b).ok = TRUE
  BY DEF Read, Refused, Undefined
<1>2. "word" \in DOMAIN Read(w, b) /\ "word" \notin DOMAIN Undefined
  BY DEF Read, Undefined
<1> QED BY <1>1, <1>2

\* Where the first loop stops in a word it does not copy.
Stops(word, t) ==
    /\ t \in Nat /\ t <= WordRoom /\ t < Len(word)
    /\ \A i \in 1 .. t : word[i] # Colon
    /\ t < WordRoom => word[t + 1] = Colon

LEMMA RunsOverIs ==
    ASSUME NEW word \in Seq(Nat), NEW t, Stops(word, t)
    PROVE  RunsOver(word) <=> /\ t + 1 + WordRoom <= Len(word)
                              /\ \A j \in 1 .. WordRoom : word[t + 1 + j] \in Digits
<1>1. PICK room \in Nat, l \in Nat : room = WordRoom /\ l = Len(word)
  BY MessageAssumption
<1>2. /\ t \in Nat /\ t <= room /\ t < l
      /\ \A i \in 1 .. t : word[i] # Colon
      /\ t < room => word[t + 1] = Colon
  BY <1>1 DEF Stops
<1>3. ASSUME RunsOver(word)
      PROVE  t + 1 + room <= l /\ \A j \in 1 .. room : word[t + 1 + j] \in Digits
  <2>1. PICK i \in 1 .. room + 1 :
            /\ i + room <= l
            /\ i = room + 1 \/ word[i] = Colon
            /\ \A j \in 1 .. i - 1 : word[j] # Colon
            /\ \A j \in 1 .. room : word[i + j] \in Digits
    BY <1>1, <1>3 DEF RunsOver
  <2>2. i \in Nat
    OBVIOUS
  <2>3. ~ i < t + 1
    <3>1. SUFFICES ASSUME i < t + 1 PROVE FALSE
      OBVIOUS
    <3>2. i \in 1 .. t /\ i # room + 1
      BY <1>2, <3>1
    <3> QED BY <1>2, <2>1, <3>2
  <2>4. ~ i > t + 1
    <3>1. SUFFICES ASSUME i > t + 1 PROVE FALSE
      OBVIOUS
    <3>2. t + 1 \in 1 .. i - 1 /\ t < room
      BY <1>2, <3>1
    <3> QED BY <1>2, <2>1, <3>2
  <2>5. i = t + 1
    BY <1>2, <2>2, <2>3, <2>4
  <2> QED BY <2>1, <2>5
<1>4. ASSUME t + 1 + room <= l, \A j \in 1 .. room : word[t + 1 + j] \in Digits
      PROVE  RunsOver(word)
  <2>1. PICK i \in 1 .. room + 1 : i = t + 1
    BY <1>2
  <2>2. i = room + 1 \/ word[i] = Colon
    BY <1>2, <2>1
  <2>3. \A j \in 1 .. i - 1 : word[j] # Colon
    BY <1>2, <2>1
  <2>4. i + room <= l /\ \A j \in 1 .. room : word[i + j] \in Digits
    BY <1>4, <2>1
  <2> QED BY <1>1, <2>2, <2>3, <2>4 DEF RunsOver
<1> QED BY <1>1, <1>3, <1>4

\* The length l, of k digits, at the end of a message.
LengthAt(m, l, k) == k = Len(Decimal(l)) /\ \A i \in 1 .. k : m[l + 1 + i] = Decimal(l)[i]

\* The length of a word that fits, or the first digits of it, is a number no greater.
LEMMA LengthRead ==
    ASSUME NEW l \in Nat, l <= WordRoom, NEW k, NEW m, LengthAt(m, l, k), NEW received \in Nat,
           received <= l + 1 + k, l < received, NEW strnum, NumberOf(strnum, m, l, received)
    PROVE  /\ ToSet(strnum) \subseteq Digits /\ Len(strnum) # WordRoom
           /\ atoi(strnum) \in Nat /\ atoi(strnum) <= l
           /\ received = l + 1 + k => atoi(strnum) = l
<1>1. PICK digits : digits = Decimal(l)
  OBVIOUS
<1>2. digits \in Seq(Digits) /\ atoi(digits) = l /\ 2 * Len(digits) <= l + 2
  BY <1>1, DecimalReadsBack
<1>3. digits \in Seq(Nat) /\ k \in Nat /\ k = Len(digits)
  <2>1. Digits \subseteq Nat
    BY MessageAssumption DEF Digits
  <2>2. digits \in Seq(Nat)
    BY <1>2, <2>1, SeqMonotonic
  <2> QED BY <1>1, <2>2 DEF LengthAt
<1>4. PICK room \in Nat : room = WordRoom /\ room > 2
  BY MessageAssumption
<1>5. PICK v \in Nat : v = Len(strnum) /\ strnum \in Seq(Nat)
  <2>1. strnum \in Seq(Nat)
    BY DEF NumberOf
  <2> QED BY ONLY <2>1
<1>6. /\ v <= room /\ v <= received - (l + 1) /\ (v < room => v = received - (l + 1))
      /\ \A i \in 1 .. v : strnum[i] = m[l + 1 + i]
  BY <1>4, <1>5 DEF NumberOf
<1>7. 2 * k <= l + 2 /\ l <= room
  BY <1>2, <1>3, <1>4
<1>8. v <= k /\ v < room /\ v = received - (l + 1)
  BY ONLY <1>3, <1>4, <1>6, <1>7, l \in Nat, received \in Nat, received <= l + 1 + k, v \in Nat, room \in Nat
<1>9. \A i \in 1 .. v : strnum[i] = digits[i] /\ digits[i] \in Digits
  <2>1. \A i \in 1 .. v : i \in 1 .. k
    BY <1>3, <1>8
  <2>2. \A i \in 1 .. k : m[l + 1 + i] = digits[i]
    BY <1>1 DEF LengthAt
  <2> QED BY <1>2, <1>3, <1>6, <2>1, <2>2
<1>10. ToSet(strnum) \subseteq Digits
  <2>1. DOMAIN strnum = 1 .. v
    BY <1>5
  <2> QED BY <1>9, <2>1 DEF ToSet
<1>11. atoi(strnum) \in Nat
  BY <1>5, AtoiType
<1>12. atoi(strnum) <= l
  <2>1. SameUpTo(v, strnum, digits)
    BY <1>9 DEF SameUpTo
  <2>2. atoi(strnum) <= atoi(digits)
    BY ONLY <1>3, <1>5, <1>8, <2>1, v \in Nat, AtoiPrefix
  <2> QED BY <1>2, <2>2
<1>13. ASSUME received = l + 1 + k PROVE atoi(strnum) = l
  <2>1. v = k
    BY <1>3, <1>8, <1>13
  <2>2. strnum = digits
    BY ONLY <1>3, <1>5, <1>9, <2>1, SeqEqual
  <2> QED BY <1>2, <2>2
<1> QED BY <1>4, <1>5, <1>8, <1>10, <1>11, <1>12, <1>13

\* What the server makes of the first part of a message.
LEMMA ReadIs ==
    ASSUME NEW word \in Seq(Nat), NEW m, m = clientMessage(word), NEW received \in 0 .. Len(m),
           NEW msg, msg = SubSeq(m, 1, received), NEW r, r = serverReadClientMessage(msg)
    PROVE  Received(word, received, r)
<1>1. PICK l \in Nat : l = Len(word) /\ DOMAIN word = 1 .. l
  OBVIOUS
<1>2. PICK k \in Nat : k = Len(Decimal(l))
  <2>1. Decimal(l) \in Seq(Digits)
    BY DecimalReadsBack
  <2> QED BY <2>1
<1>3. /\ m \in Seq(Nat) /\ Len(m) = l + 1 + k
      /\ \A i \in 1 .. l : m[i] = word[i]
      /\ m[l + 1] = Colon
      /\ \A i \in 1 .. k : m[l + 1 + i] = Decimal(l)[i]
  <2>1. l = Len(word)
    BY <1>1
  <2>2. Written(m, word, l)
    BY ONLY <2>1, word \in Seq(Nat), m = clientMessage(word), WrittenIs
  <2> QED BY <1>2, <2>2 DEF Written
<1>4. /\ msg \in Seq(Nat) /\ Len(msg) = received /\ received \in Nat
      /\ \A i \in 1 .. received : msg[i] = m[i]
  <2>1. received \in 0 .. Len(m) /\ m \in Seq(Nat)
    BY <1>3
  <2>2. PICK s : s = SubSeq(m, 1, received)
    OBVIOUS
  <2>3. s \in Seq(Nat) /\ Len(s) = received /\ received \in Nat /\ \A i \in 1 .. received : s[i] = m[i]
    BY ONLY <2>1, <2>2
  <2> QED BY <2>2, <2>3
<1>5. PICK t : CopiedTo(msg, t) /\ BeforeColon(msg) = SubSeq(msg, 1, t)
  BY <1>4, BeforeColonIs
<1>6. /\ t \in 0 .. received /\ t <= WordRoom
      /\ \A i \in 1 .. t : m[i] # Colon
      /\ t < received /\ t < WordRoom => m[t + 1] = Colon
  <2>1. t \in 0 .. received /\ t <= WordRoom
    BY <1>4, <1>5 DEF CopiedTo
  <2>2. ASSUME NEW i \in 1 .. t PROVE m[i] # Colon
    <3>1. i \in 1 .. received
      BY <2>1
    <3> QED BY <1>4, <1>5, <3>1 DEF CopiedTo
  <2>3. ASSUME t < received, t < WordRoom PROVE m[t + 1] = Colon
    <3>1. t + 1 \in 1 .. received
      BY <1>4, <2>1, <2>3
    <3> QED BY <1>4, <1>5, <2>3, <3>1 DEF CopiedTo
  <2> QED BY <2>1, <2>2, <2>3
<1>7. t <= l
  <2>1. SUFFICES ASSUME t > l PROVE FALSE
    BY <1>6
  <2>2. l + 1 \in 1 .. t
    BY <1>6, <2>1
  <2> QED BY <1>3, <1>6, <2>2
<1>8. PICK tmpword : tmpword = BeforeColon(msg)
  OBVIOUS
<1>9. tmpword \in Seq(Nat) /\ Len(tmpword) = t /\ \A i \in 1 .. t : tmpword[i] = word[i]
  <2>1. tmpword = SubSeq(msg, 1, t)
    BY <1>5, <1>8
  <2>2. tmpword \in Seq(Nat) /\ Len(tmpword) = t /\ \A i \in 1 .. t : tmpword[i] = msg[i]
    BY <1>4, <1>6, <2>1
  <2>3. \A i \in 1 .. t : i \in 1 .. received /\ i \in 1 .. l
    BY <1>4, <1>6, <1>7
  <2> QED BY <1>3, <1>4, <2>2, <2>3
<1>10. PICK strnum : strnum = Number(msg, tmpword)
  OBVIOUS
<1>11. PICK len : len = atoi(strnum)
  OBVIOUS
<1>12. PICK u : u = IF len < t THEN len ELSE t
  OBVIOUS
<1>13. r = IF t = received \/ ToSet(strnum) \ Digits # {} THEN Refused
           ELSE IF Len(strnum) = WordRoom \/ len > WordRoom THEN Undefined
           ELSE Read(SubSeq(tmpword, 1, u), len = WordRoom)
  BY <1>4, <1>8, <1>9, <1>10, <1>11, <1>12 DEF serverReadClientMessage
<1>14. ASSUME t < received PROVE NumberOf(strnum, m, t, received)
  <2>1. t \in Nat /\ t = Len(tmpword) /\ received = Len(msg) /\ received \in Nat
    BY <1>4, <1>6, <1>9
  <2> QED BY ONLY <1>4, <1>10, <1>14, <2>1, NumberIs
<1> DEFINE fits == l <= WordRoom /\ Colon \notin ToSet(word)
<1>15. ASSUME fits, t < received PROVE t = l
  <2>1. SUFFICES ASSUME t < l PROVE FALSE
    BY <1>6, <1>7
  <2>2. t < WordRoom /\ t + 1 \in 1 .. l
    BY <1>6, <1>15, <2>1, MessageAssumption
  <2>3. word[t + 1] = Colon
    BY <1>3, <1>6, <1>15, <2>2
  <2> QED BY <1>1, <1>15, <2>2, <2>3 DEF ToSet
<1>16. ASSUME fits, t < received
       PROVE  /\ ToSet(strnum) \ Digits = {} /\ Len(strnum) # WordRoom
              /\ len \in Nat /\ len <= l /\ (received = Len(m) => len = l)
  <2>1. NumberOf(strnum, m, l, received) /\ l < received /\ received \in Nat
    BY <1>4, <1>14, <1>15, <1>16
  <2>2. received <= l + 1 + k /\ l <= WordRoom
    BY <1>3, <1>16
  <2>3. LengthAt(m, l, k)
    BY <1>2, <1>3 DEF LengthAt
  <2>4. /\ ToSet(strnum) \subseteq Digits /\ Len(strnum) # WordRoom
        /\ atoi(strnum) \in Nat /\ atoi(strnum) <= l
        /\ received = l + 1 + k => atoi(strnum) = l
    BY ONLY <2>1, <2>2, <2>3, l \in Nat, LengthRead
  <2> QED BY <1>3, <1>11, <2>4
<1>17. ASSUME received = Len(m), fits PROVE r = Read(word, l = WordRoom)
  <2>1. t < received
    <3>1. t \in Nat /\ t <= l /\ received = l + 1 + k
      BY <1>3, <1>6, <1>7, <1>17
    <3> QED BY ONLY <3>1, l \in Nat, k \in Nat
  <2>2. t = l /\ len = l /\ u = l
    BY <1>12, <1>15, <1>16, <1>17, <2>1
  <2>3. SubSeq(tmpword, 1, u) = word
    <3>1. tmpword = word
      BY ONLY <1>1, <1>9, <2>2, word \in Seq(Nat), SeqEqual
    <3> QED BY <1>1, <2>2, <3>1, SubSeqFull
  <2>4. ~ len > WordRoom /\ (len = WordRoom) = (l = WordRoom)
    BY <1>17, <2>2, MessageAssumption
  <2>5. t # received
    BY <1>6, <2>1
  <2> QED BY <1>13, <1>16, <1>17, <2>1, <2>3, <2>4, <2>5
<1>18. ASSUME received = Len(m), ~ fits PROVE r = IF RunsOver(word) THEN Undefined ELSE Refused
  <2>1. t < l
    <3>1. SUFFICES ASSUME t = l PROVE FALSE
      BY <1>6, <1>7
    <3>2. l <= WordRoom /\ \A i \in 1 .. l : word[i] # Colon
      BY <1>3, <1>6, <3>1
    <3>3. Colon \notin ToSet(word)
      BY <1>1, <3>2 DEF ToSet
    <3> QED BY <1>18, <3>2, <3>3
  <2>2. t \in Nat /\ received = l + 1 + k /\ t < received /\ t # received
    BY <1>2, <1>3, <1>6, <1>18, <2>1
  <2>3. NumberOf(strnum, m, t, received)
    BY <1>14, <2>2
  <2>4. PICK room \in Nat : room = WordRoom
    BY MessageAssumption
  <2>5. PICK v \in Nat : v = Len(strnum) /\ strnum \in Seq(Nat)
    <3>1. strnum \in Seq(Nat)
      BY <2>3 DEF NumberOf
    <3> QED BY ONLY <3>1
  <2>6. /\ v <= room /\ (v < room => v = received - (t + 1))
        /\ \A i \in 1 .. v : strnum[i] = m[t + 1 + i]
    BY <2>3, <2>4, <2>5 DEF NumberOf
  <2>7. ToSet(strnum) \ Digits = {} <=> \A i \in 1 .. v : strnum[i] \in Digits
    <3>1. DOMAIN strnum = 1 .. v
      BY <2>5
    <3> QED BY <3>1 DEF ToSet
  <2>8. Stops(word, t)
    <3>1. \A i \in 1 .. t : word[i] # Colon
      BY <1>3, <1>6, <1>7
    <3>2. t < WordRoom => word[t + 1] = Colon
      BY <1>3, <1>6, <2>1, <2>2
    <3> QED BY <1>1, <1>6, <2>1, <2>2, <3>1, <3>2 DEF Stops
  <2>9. RunsOver(word) <=> t + 1 + room <= l /\ \A j \in 1 .. room : word[t + 1 + j] \in Digits
    BY ONLY <1>1, <2>4, <2>8, word \in Seq(Nat), RunsOverIs
  <2>10. CASE t + 1 + v > l
    <3>1. PICK i \in 1 .. v : t + 1 + i = l + 1
      <4>1. l - t \in 1 .. v /\ t + 1 + (l - t) = l + 1
        BY ONLY <2>1, <2>2, <2>10, l \in Nat, v \in Nat
      <4> QED BY ONLY <4>1
    <3>2. strnum[i] = Colon
      BY <1>3, <2>6, <3>1
    <3>3. Colon \notin Digits
      BY MessageAssumption DEF Colon, Digits
    <3>4. ToSet(strnum) \ Digits # {}
      BY <2>7, <3>2, <3>3
    <3>5. ~ RunsOver(word)
      <4>1. ~ (t + 1 + room <= l)
        BY ONLY <2>2, <2>6, <2>10, l \in Nat, v \in Nat, room \in Nat
      <4> QED BY ONLY <2>9, <4>1
    <3> QED BY <1>13, <3>4, <3>5
  <2>11. CASE ~ t + 1 + v > l
    <3>1. v = room /\ t + 1 + room <= l
      BY ONLY <1>2, <2>2, <2>6, <2>11, l \in Nat, v \in Nat, room \in Nat
    <3>2. ASSUME NEW i \in 1 .. v PROVE strnum[i] = word[t + 1 + i]
      <4>1. t + 1 + i \in 1 .. l
        BY <2>2, <3>1
      <4> QED BY <1>3, <2>6, <4>1
    <3>3. RunsOver(word) <=> ToSet(strnum) \ Digits = {}
      BY ONLY <2>7, <2>9, <3>1, <3>2
    <3>4. Len(strnum) = WordRoom
      BY <2>4, <2>5, <3>1
    <3> QED BY ONLY <1>13, <2>2, <3>3, <3>4
  <2> QED BY <2>10, <2>11
<1>19. ASSUME fits PROVE r # Undefined
  <2>1. CASE t = received
    BY <1>13, <2>1, Outcomes
  <2>2. CASE t # received
    <3>1. t < received
      BY <1>6, <2>2
    <3>2. ~ len > WordRoom
      BY <1>16, <1>19, <3>1, MessageAssumption
    <3>3. r = Read(SubSeq(tmpword, 1, u), len = WordRoom)
      BY <1>13, <1>16, <1>19, <2>2, <3>1, <3>2
    <3> QED BY <3>3, Outcomes
  <2> QED BY <2>1, <2>2
<1>20. ASSUME r \notin {Refused, Undefined} PROVE IsPrefix(r.word, word)
  <2>1. t # received /\ r = Read(SubSeq(tmpword, 1, u), len = WordRoom)
    BY <1>13, <1>20
  <2>2. r.word = SubSeq(tmpword, 1, u)
    BY <2>1 DEF Read
  <2>3. len \in Nat
    <3>1. t < received
      BY <1>6, <2>1
    <3>2. strnum \in Seq(Nat)
      BY <1>14, <3>1 DEF NumberOf
    <3> QED BY <1>11, <3>2, AtoiType
  <2>4. u \in 0 .. t
    BY <1>6, <1>12, <2>3
  <2>5. Len(r.word) = u /\ \A i \in 1 .. u : r.word[i] = word[i]
    <3>1. PICK w : w = r.word
      OBVIOUS
    <3>2. w = SubSeq(tmpword, 1, u)
      BY <2>2, <3>1
    <3>3. Len(w) = u /\ \A i \in 1 .. u : w[i] = word[i]
      BY ONLY <1>9, <2>4, <3>2
    <3> QED BY <3>1, <3>3
  <2>6. r.word \in Seq(Nat)
    <3>1. tmpword \in Seq(Nat) /\ u \in 0 .. Len(tmpword) /\ Len(tmpword) \in Nat
      BY <1>9, <2>4
    <3>2. PICK w : w = r.word
      OBVIOUS
    <3>3. w = SubSeq(tmpword, 1, u)
      BY <2>2, <3>2
    <3>4. w \in Seq(Nat)
      BY ONLY <3>1, <3>3
    <3> QED BY <3>2, <3>4
  <2>7. SubSeq(r.word, 1, u) = r.word
    BY ONLY <2>5, <2>6, SubSeqFull
  <2>8. SubSeq(word, 1, u) = r.word
    <3>1. u \in 0 .. l
      BY <1>6, <1>7, <2>4
    <3>2. /\ SubSeq(word, 1, u) \in Seq(Nat) /\ Len(SubSeq(word, 1, u)) = u
          /\ \A i \in 1 .. u : SubSeq(word, 1, u)[i] = word[i]
      BY <1>1, <3>1
    <3> QED BY ONLY <2>5, <2>6, <3>2, SeqEqual
  <2> QED BY <1>1, <1>6, <1>7, <2>4, <2>5, <2>7, <2>8 DEF IsPrefix
<1>21. fits = (Len(word) <= WordRoom /\ Colon \notin ToSet(word))
  BY <1>1
<1> HIDE DEF fits
<1> QED BY ONLY <1>1, <1>17, <1>18, <1>19, <1>20, <1>21, m = clientMessage(word) DEF Received

\* Whatever the word, the server takes the whole message for it, or refuses it because it
\* has a colon or does not fit; but what it does with a word its two loops run over is
\* undefined, and only then.  However its message is cut, a word that fits is safe, and
\* what the server takes, when it is defined, is a beginning of the word.
THEOREM RequestIsRead == CallsSpec => []RequestIsTheWord
<1>1. CallsInv => RequestIsTheWord
  <2>1. SUFFICES ASSUME CallsInv, Of("message")
                 PROVE  Received(call.word, call.received, result[1])
    BY DEF RequestIsTheWord, Received
  <2>2. PICK word \in Seq(Nat) : word = call.word
    BY <2>1, ArgumentsAssumption DEF CallsInv, Of
  <2>3. PICK m : m = clientMessage(word)
    OBVIOUS
  <2>4. PICK received \in 0 .. Len(m) : received = call.received
    BY <2>1, <2>2, <2>3, ArgumentsAssumption DEF CallsInv, Of
  <2>5. PICK r : r = serverReadClientMessage(SubSeq(m, 1, received))
    OBVIOUS
  <2>6. result[1] = r
    BY <2>1, <2>2, <2>3, <2>4, <2>5 DEF CallsInv, Of, Returned, Arrived
  <2>7. Received(word, received, r)
    BY ONLY <2>3, <2>5, word \in Seq(Nat), received \in 0 .. Len(m), ReadIs
  <2> QED BY ONLY <2>2, <2>4, <2>6, <2>7
<1> QED BY <1>1, CallsInvariance, PTL

-----------------------------------------------------------------------------
(* Reading back.                                                            *)

\* t with x put before it.
Puts(x, t) == <<x>> \o t

Begins(w, x, t) ==
    Len(w) = Len(t) + 1 /\ w[1] = x /\ \A j \in 1 .. Len(t) : w[j + 1] = t[j]

LEMMA PutsIs ==
    ASSUME NEW S, NEW x \in S, NEW t \in Seq(S), NEW w, w = Puts(x, t)
    PROVE  w \in Seq(S) /\ Begins(w, x, t)
BY DEF Puts, Begins

\* What is known at each position: a character, and how many it is written with.
ReadsIn(reads, n) == \A i \in 1 .. n : reads[i].char \in Int /\ reads[i].used \in 1 .. 6

\* The function Transcribed is made of, from a position on.
WalksFrom(f, a, n, reads) ==
    \A i \in a .. n + 6 :
        f[i] = IF i > n THEN <<>> ELSE Puts(reads[i].char, f[i + reads[i].used])

LEMMA WalksExists ==
    ASSUME NEW n \in Nat, NEW reads, ReadsIn(reads, n)
    PROVE  \E f : WalksFrom(f, 1, n, reads)
<1> DEFINE P == {m \in 0 .. n : \E f : WalksFrom(f, (n + 1) - m, n, reads)}
<1>1. 0 \in P
  <2>1. WalksFrom([i \in 1 .. n + 6 |-> <<>>], n + 1, n, reads)
    BY DEF WalksFrom
  <2>2. PICK a : a = (n + 1) - 0
    OBVIOUS
  <2>3. a = n + 1
    BY <2>2
  <2> QED BY <2>1, <2>2, <2>3
<1>2. ASSUME NEW m \in 1 .. n, m - 1 \in P PROVE m \in P
  <2>1. PICK k \in 1 .. n : k = (n + 1) - m
    OBVIOUS
  <2>2. PICK f : WalksFrom(f, k + 1, n, reads)
    <3>1. (n + 1) - (m - 1) = k + 1
      BY <2>1
    <3>2. \E f : WalksFrom(f, (n + 1) - (m - 1), n, reads)
      BY <1>2
    <3> QED BY <3>1, <3>2
  <2>3. PICK u \in 1 .. 6 : u = reads[k].used
    BY DEF ReadsIn
  <2> DEFINE g == [i \in 1 .. n + 6 |-> IF i = k THEN Puts(reads[k].char, f[k + u]) ELSE f[i]]
  <2>4. ASSUME NEW i \in k .. n + 6
        PROVE  g[i] = IF i > n THEN <<>> ELSE Puts(reads[i].char, g[i + reads[i].used])
    <3>1. CASE i = k
      <4>1. k + u \in 1 .. n + 6 /\ k + u # k
        BY <2>1
      <4>2. g[k + u] = f[k + u] /\ g[i] = Puts(reads[k].char, f[k + u])
        BY <3>1, <4>1
      <4> HIDE DEF g
      <4> QED BY <2>3, <3>1, <4>2
    <3>2. CASE i > k /\ i > n
      <4>1. i \in k + 1 .. n + 6 /\ i # k
        BY <3>2
      <4>2. g[i] = f[i]
        BY <4>1
      <4>3. f[i] = <<>>
        BY <2>2, <3>2, <4>1 DEF WalksFrom
      <4> HIDE DEF g
      <4> QED BY <3>2, <4>2, <4>3
    <3>3. CASE i > k /\ ~ i > n
      <4>1. i \in k + 1 .. n + 6 /\ i # k /\ i \in 1 .. n
        BY <3>3
      <4>2. PICK v \in 1 .. 6 : v = reads[i].used
        BY <4>1 DEF ReadsIn
      <4>3. i + v \in 1 .. n + 6 /\ i + v # k
        BY <3>3, <4>1
      <4>4. g[i] = f[i] /\ g[i + v] = f[i + v]
        BY <4>1, <4>3
      <4>5. f[i] = Puts(reads[i].char, f[i + v])
        BY <2>2, <3>3, <4>1, <4>2 DEF WalksFrom
      <4> HIDE DEF g
      <4> QED BY <3>3, <4>2, <4>4, <4>5
    <3> QED BY <3>1, <3>2, <3>3
  <2> HIDE DEF g
  <2>5. WalksFrom(g, k, n, reads)
    BY <2>4 DEF WalksFrom
  <2> QED BY <2>1, <2>5
<1> HIDE DEF P
<1>3. \A i \in 0 .. n : i \in P
  BY <1>1, <1>2, UpTo
<1>4. n \in P /\ (n + 1) - n = 1
  BY <1>3
<1> QED BY <1>4 DEF P

LEMMA TranscribedIs ==
    ASSUME NEW n \in Nat, NEW reads, n = Len(reads), ReadsIn(reads, n)
    PROVE  \E f : WalksFrom(f, 1, n, reads) /\ Transcribed(reads) = f[1]
<1> DEFINE from == CHOOSE g : g = [i \in 1 .. Len(reads) + 6 |->
               IF i > Len(reads) THEN <<>> ELSE <<reads[i].char>> \o g[i + reads[i].used]]
           body(g, i) == IF i > n THEN <<>> ELSE Puts(reads[i].char, g[i + reads[i].used])
<1>1. from = CHOOSE g : g = [i \in 1 .. n + 6 |-> body(g, i)]
  BY DEF Puts
<1>2. Transcribed(reads) = from[1]
  BY DEF Transcribed
<1>3. \E g : g = [i \in 1 .. n + 6 |-> body(g, i)]
  <2>1. PICK f : WalksFrom(f, 1, n, reads)
    BY WalksExists
  <2> DEFINE g == [i \in 1 .. n + 6 |-> f[i]]
  <2>2. ASSUME NEW i \in 1 .. n + 6 PROVE g[i] = body(g, i)
    <3>1. CASE i > n
      BY <2>1, <3>1 DEF WalksFrom
    <3>2. CASE ~ i > n
      <4>1. PICK v \in 1 .. 6 : v = reads[i].used
        BY <3>2 DEF ReadsIn
      <4>2. i + v \in 1 .. n + 6
        BY <3>2
      <4>3. g[i] = f[i] /\ g[i + v] = f[i + v]
        BY <4>2
      <4>4. f[i] = Puts(reads[i].char, f[i + v])
        BY <2>1, <3>2, <4>1 DEF WalksFrom
      <4> HIDE DEF g
      <4> QED BY <3>2, <4>1, <4>3, <4>4
    <3> QED BY <3>1, <3>2
  <2>3. g = [i \in 1 .. n + 6 |-> g[i]]
    OBVIOUS
  <2> HIDE DEF g
  <2>4. g = [i \in 1 .. n + 6 |-> body(g, i)]
    BY <2>2, <2>3
  <2> QED BY <2>4
<1> HIDE DEF from
<1>4. from = [i \in 1 .. n + 6 |-> body(from, i)]
  BY <1>1, <1>3
<1>5. WalksFrom(from, 1, n, reads)
  BY <1>4 DEF WalksFrom
<1> QED BY <1>2, <1>5

LEMMA WalksType ==
    ASSUME NEW n \in Nat, NEW reads, ReadsIn(reads, n), NEW f, WalksFrom(f, 1, n, reads)
    PROVE  \A i \in 1 .. n + 6 : f[i] \in Seq(Int)
<1> DEFINE P == {m \in 0 .. n : \A i \in (n + 1) - m .. n + 6 : f[i] \in Seq(Int)}
<1>1. 0 \in P
  <2>1. ASSUME NEW i \in (n + 1) - 0 .. n + 6 PROVE f[i] \in Seq(Int)
    <3>1. f[i] = <<>>
      BY DEF WalksFrom
    <3>2. PICK e : e = <<>>
      OBVIOUS
    <3>3. e \in Seq(Int)
      BY ONLY <3>2
    <3> QED BY <3>1, <3>2, <3>3
  <2> QED BY <2>1
<1>2. ASSUME NEW m \in 1 .. n, m - 1 \in P PROVE m \in P
  <2>1. PICK k \in 1 .. n : k = (n + 1) - m
    OBVIOUS
  <2>2. \A i \in k + 1 .. n + 6 : f[i] \in Seq(Int)
    <3>1. (n + 1) - (m - 1) = k + 1
      BY <2>1
    <3> QED BY <1>2, <3>1
  <2>3. PICK u \in 1 .. 6, x \in Int : u = reads[k].used /\ x = reads[k].char
    BY DEF ReadsIn
  <2>4. f[k] = Puts(x, f[k + u])
    BY <2>3 DEF WalksFrom
  <2>5. k + u \in k + 1 .. n + 6
    OBVIOUS
  <2>6. PICK t \in Seq(Int) : t = f[k + u]
    BY <2>2, <2>5
  <2>7. PICK w : w = f[k]
    OBVIOUS
  <2>8. w = Puts(x, t)
    BY <2>4, <2>6, <2>7
  <2>9. w \in Seq(Int)
    BY ONLY <2>8, x \in Int, t \in Seq(Int), PutsIs
  <2>10. \A i \in k .. n + 6 : i = k \/ i \in k + 1 .. n + 6
    OBVIOUS
  <2>11. \A i \in k .. n + 6 : f[i] \in Seq(Int)
    BY <2>2, <2>7, <2>9, <2>10
  <2> QED BY <2>1, <2>11
<1> HIDE DEF P
<1>3. \A i \in 0 .. n : i \in P
  BY <1>1, <1>2, UpTo
<1>4. n \in P /\ (n + 1) - n = 1
  BY <1>3
<1> QED BY <1>4 DEF P

\* The positions p are those a reader comes to, one after the other.
Visits(p, m, n, reads) ==
    /\ \A k \in 0 .. m : p[k] \in 1 .. n + 6
    /\ p[0] = 1
    /\ \A k \in 1 .. m : p[k - 1] <= n /\ p[k] = p[k - 1] + reads[p[k - 1]].used

\* So it reads the characters x, and nothing else if it ends there.
ReadsFirst(w, x, m, done) ==
    /\ w \in Seq(Int) /\ Len(w) >= m /\ (done => Len(w) = m)
    /\ \A j \in 1 .. m : w[j] = x[j]

ReadsLast(w, x, m, d, done) ==
    /\ w \in Seq(Int) /\ Len(w) >= d /\ (done => Len(w) = d)
    /\ \A j \in 1 .. d : w[j] = x[(m - d) + j]

LEMMA ReadsOneMore ==
    ASSUME NEW m \in Nat, NEW d \in 1 .. m, NEW c, c = d - 1, NEW done \in BOOLEAN, NEW x,
           NEW t, ReadsLast(t, x, m, c, done), NEW y \in Int, y = x[(m - d) + 1], NEW w, w = Puts(y, t)
    PROVE  ReadsLast(w, x, m, d, done)
<1>1. c \in Nat /\ d = c + 1 /\ t \in Seq(Int) /\ Len(t) >= c /\ (done => Len(t) = c)
  BY DEF ReadsLast
<1>2. /\ w \in Seq(Int) /\ Len(w) = Len(t) + 1 /\ w[1] = y
      /\ \A j \in 1 .. Len(t) : w[j + 1] = t[j]
  <2>1. w \in Seq(Int) /\ Begins(w, y, t)
    BY ONLY <1>1, y \in Int, w = Puts(y, t), PutsIs
  <2> QED BY <2>1 DEF Begins
<1>3. Len(t) \in Nat
  BY <1>1
<1>4. ASSUME NEW j \in 1 .. d PROVE w[j] = x[(m - d) + j]
  <2>1. CASE j = 1
    BY <1>2, <2>1
  <2>2. CASE j # 1
    <3>1. PICK i \in 1 .. c : j = i + 1
      BY <1>1, <2>2
    <3>2. i \in 1 .. Len(t)
      BY <1>1, <1>3
    <3>3. (m - c) + i = (m - d) + j
      BY <1>1, <3>1
    <3>4. t[i] = x[(m - c) + i]
      BY DEF ReadsLast
    <3>5. w[j] = t[i]
      BY <1>2, <3>1, <3>2
    <3> QED BY <3>3, <3>4, <3>5
  <2> QED BY <2>1, <2>2
<1>5. Len(w) >= d /\ (done => Len(w) = d)
  BY ONLY <1>1, <1>2, <1>3, done \in BOOLEAN
<1> QED BY <1>2, <1>4, <1>5 DEF ReadsLast

LEMMA TranscribedReads ==
    ASSUME NEW n \in Nat, NEW reads, n = Len(reads), ReadsIn(reads, n),
           NEW m \in Nat, NEW p, Visits(p, m, n, reads), NEW x,
           \A k \in 1 .. m : x[k] = reads[p[k - 1]].char
    PROVE  ReadsFirst(Transcribed(reads), x, m, p[m] = n + 1)
<1>1. PICK f : WalksFrom(f, 1, n, reads) /\ Transcribed(reads) = f[1]
  BY TranscribedIs
<1>2. \A i \in 1 .. n + 6 : f[i] \in Seq(Int)
  BY <1>1, WalksType
<1>3. PICK done \in BOOLEAN : done = (p[m] = n + 1)
  OBVIOUS
<1> DEFINE P == {d \in 0 .. m : ReadsLast(f[p[m - d]], x, m, d, done)}
<1>4. 0 \in P
  <2>1. PICK q \in 1 .. n + 6 : q = p[m] /\ q = p[m - 0]
    <3>1. m - 0 = m
      OBVIOUS
    <3> QED BY <3>1 DEF Visits
  <2>2. f[q] \in Seq(Int) /\ Len(f[q]) \in Nat
    BY <1>2
  <2>3. done => Len(f[q]) = 0
    <3>1. SUFFICES ASSUME done PROVE Len(f[q]) = 0
      OBVIOUS
    <3>2. q > n
      <4>1. p[m] = n + 1
        BY ONLY <1>3, <3>1, Zenon
      <4> QED BY <2>1, <4>1
    <3>3. f[q] = <<>>
      BY <1>1, <3>2 DEF WalksFrom
    <3> QED BY <3>3
  <2>4. ReadsLast(f[q], x, m, 0, done)
    BY <2>2, <2>3 DEF ReadsLast
  <2> QED BY <2>1, <2>4
<1>5. ASSUME NEW d \in 1 .. m, d - 1 \in P PROVE d \in P
  <2>1. PICK k \in 1 .. m, h \in 0 .. m - 1 : k = m - (d - 1) /\ h = m - d /\ k = h + 1 /\ k - 1 = h
    OBVIOUS
  <2>2. PICK c \in Nat : c = d - 1
    OBVIOUS
  <2>3. PICK q \in 1 .. n : q = p[h]
    <3>1. p[k - 1] <= n
      BY DEF Visits
    <3>2. h \in 0 .. m /\ p[h] <= n
      BY <2>1, <3>1
    <3> QED BY <3>2 DEF Visits
  <2>4. PICK u \in 1 .. 6, y \in Int : u = reads[q].used /\ y = reads[q].char
    BY DEF ReadsIn
  <2>5. p[k] = q + u
    BY <2>1, <2>3, <2>4 DEF Visits
  <2>6. y = x[(m - d) + 1]
    <3>1. (m - d) + 1 = k
      BY <2>1
    <3> QED BY <2>1, <2>3, <2>4, <3>1
  <2>7. PICK t : t = f[q + u]
    OBVIOUS
  <2>8. ReadsLast(t, x, m, c, done)
    BY <1>5, <2>1, <2>2, <2>5, <2>7
  <2>9. PICK w : w = f[q]
    OBVIOUS
  <2>10. w = Puts(y, t)
    BY <1>1, <2>4, <2>7, <2>9 DEF WalksFrom
  <2>11. ReadsLast(w, x, m, d, done)
    BY ONLY <2>2, <2>6, <2>8, <2>10, m \in Nat, d \in 1 .. m, done \in BOOLEAN, y \in Int, ReadsOneMore
  <2> QED BY <2>1, <2>3, <2>9, <2>11
<1> HIDE DEF P
<1>6. \A d \in 0 .. m : d \in P
  BY <1>4, <1>5, UpTo
<1>7. m \in P
  BY <1>6
<1>8. p[m - m] = 1
  <2>1. m - m = 0
    OBVIOUS
  <2> QED BY <2>1 DEF Visits
<1>9. PICK w : w = f[1] /\ ReadsLast(w, x, m, m, done)
  BY <1>7, <1>8 DEF P
<1>10. \A j \in 1 .. m : (m - m) + j = j
  OBVIOUS
<1>11. ReadsFirst(w, x, m, done)
  BY <1>9, <1>10 DEF ReadsLast, ReadsFirst
<1> QED BY <1>1, <1>3, <1>9, <1>11

\* Sequences laid one after the other: the k-th begins at p[k - 1] and ends before p[k].
Laid(s, p, n, e) ==
    /\ s \in Seq(Chars) /\ p[0] = 1 /\ p[n] = Len(s) + 1
    /\ \A k \in 0 .. n : p[k] \in 1 .. Len(s) + 1
    /\ \A k \in 1 .. n : /\ p[k] = p[k - 1] + Len(e[k])
                         /\ \A j \in 1 .. Len(e[k]) : s[(p[k - 1] + j) - 1] = e[k][j]

Pair(s, t) == s \o t
Chains(f, n, e) == f = [i \in 0 .. n |-> IF i = 0 THEN <<>> ELSE Pair(f[i - 1], e[i])]

Paired(w, s, t) ==
    /\ w \in Seq(Chars) /\ Len(w) = Len(s) + Len(t)
    /\ \A i \in 1 .. Len(s) : w[i] = s[i]
    /\ \A j \in 1 .. Len(t) : w[Len(s) + j] = t[j]

LEMMA PairIs ==
    ASSUME NEW s \in Seq(Chars), NEW t \in Seq(Chars), NEW w, w = Pair(s, t)
    PROVE  Paired(w, s, t)
BY DEF Pair, Paired

LEMMA ChainsExists ==
    ASSUME NEW e, NEW n \in Nat
    PROVE  \E f : Chains(f, n, e)
<1> DEFINE P == {i \in 0 .. n : \E f : Chains(f, i, e)}
           body(f, i) == IF i = 0 THEN <<>> ELSE Pair(f[i - 1], e[i])
<1>1. 0 \in P
  <2>1. Chains([i \in 0 .. 0 |-> <<>>], 0, e)
    BY DEF Chains
  <2> QED BY <2>1
<1>2. ASSUME NEW m \in 1 .. n, m - 1 \in P PROVE m \in P
  <2>1. PICK f : Chains(f, m - 1, e)
    BY <1>2
  <2> DEFINE g == [i \in 0 .. m |-> IF i < m THEN f[i] ELSE body(f, m)]
  <2>2. ASSUME NEW i \in 0 .. m PROVE g[i] = body(g, i)
    <3>1. CASE i = 0
      <4>1. g[i] = f[i] /\ i \in 0 .. m - 1
        BY <3>1
      <4>2. f[i] = <<>>
        BY <2>1, <3>1, <4>1 DEF Chains
      <4> HIDE DEF g
      <4> QED BY <3>1, <4>1, <4>2
    <3>2. CASE i # 0
      <4>1. PICK h \in 0 .. m - 1 : h = i - 1
        BY <3>2
      <4>2. g[h] = f[h]
        BY <4>1
      <4>3. g[i] = Pair(f[h], e[i])
        <5>1. CASE i = m
          BY <3>2, <4>1, <5>1
        <5>2. CASE i < m
          <6>1. i \in 0 .. m - 1 /\ g[i] = f[i]
            BY <5>2
          <6> HIDE DEF g
          <6> QED BY <2>1, <3>2, <4>1, <6>1 DEF Chains
        <5> QED BY <5>1, <5>2
      <4> HIDE DEF g
      <4> QED BY <3>2, <4>1, <4>2, <4>3
    <3> QED BY <3>1, <3>2
  <2>3. g = [i \in 0 .. m |-> g[i]]
    OBVIOUS
  <2> HIDE DEF g
  <2>4. g = [i \in 0 .. m |-> body(g, i)]
    BY <2>2, <2>3
  <2>5. Chains(g, m, e)
    BY <2>4 DEF Chains
  <2> QED BY <2>5
<1> HIDE DEF P
<1>3. \A i \in 0 .. n : i \in P
  BY <1>1, <1>2, UpTo
<1>4. n \in P
  BY <1>3
<1> QED BY <1>4 DEF P

LEMMA LaidOneMore ==
    ASSUME NEW s, NEW p, NEW h \in Nat, NEW e, Laid(s, p, h, e), NEW i, i = h + 1,
           NEW t \in Seq(Chars), t = e[i], NEW w, w = Pair(s, t), p[i] = Len(w) + 1
    PROVE  Laid(w, p, i, e)
<1>1. /\ s \in Seq(Chars) /\ p[0] = 1 /\ p[h] = Len(s) + 1
      /\ \A k \in 0 .. h : p[k] \in 1 .. Len(s) + 1
      /\ \A k \in 1 .. h : /\ p[k] = p[k - 1] + Len(e[k])
                           /\ \A j \in 1 .. Len(e[k]) : s[(p[k - 1] + j) - 1] = e[k][j]
  BY DEF Laid
<1>2. PICK a \in Nat, b \in Nat : a = Len(s) /\ b = Len(t)
  BY <1>1
<1>3. /\ w \in Seq(Chars) /\ Len(w) = a + b
      /\ \A j \in 1 .. a : w[j] = s[j]
      /\ \A j \in 1 .. b : w[a + j] = t[j]
  <2>1. s \in Seq(Chars)
    BY <1>1
  <2>2. Paired(w, s, t)
    BY ONLY <2>1, t \in Seq(Chars), w = Pair(s, t), PairIs
  <2> QED BY ONLY <1>2, <2>2 DEF Paired
<1>4. \A k \in 0 .. i : p[k] \in 1 .. Len(w) + 1
  <2>1. ASSUME NEW k \in 0 .. i PROVE p[k] \in 1 .. Len(w) + 1
    <3>1. CASE k = i
      BY <1>3, <3>1
    <3>2. CASE k # i
      <4>1. k \in 0 .. h
        BY <3>2
      <4>2. p[k] \in 1 .. a + 1
        BY <1>1, <1>2, <4>1
      <4> QED BY <1>3, <4>2
    <3> QED BY <3>1, <3>2
  <2> QED BY <2>1
<1>5. ASSUME NEW k \in 1 .. i
      PROVE  /\ p[k] = p[k - 1] + Len(e[k])
             /\ \A j \in 1 .. Len(e[k]) : w[(p[k - 1] + j) - 1] = e[k][j]
  <2>1. CASE k = i
    <3>1. p[k - 1] = a + 1 /\ Len(e[k]) = b /\ p[k] = (a + b) + 1
      <4>1. k - 1 = h
        BY <2>1
      <4> QED BY <1>1, <1>2, <1>3, <2>1, <4>1
    <3>2. ASSUME NEW j \in 1 .. b PROVE w[(p[k - 1] + j) - 1] = e[k][j]
      <4>1. (p[k - 1] + j) - 1 = a + j
        BY <3>1
      <4> QED BY <1>3, <2>1, <4>1
    <3> QED BY <3>1, <3>2
  <2>2. CASE k # i
    <3>1. k \in 1 .. h /\ k - 1 \in 0 .. h
      BY <2>2
    <3>2. PICK q, r, z : q = p[k - 1] /\ r = p[k] /\ z = Len(e[k])
      OBVIOUS
    <3>3. q \in 1 .. a + 1 /\ r \in 1 .. a + 1 /\ r = q + z
      BY <1>1, <1>2, <3>1, <3>2
    <3>4. ASSUME NEW j \in 1 .. z PROVE w[(q + j) - 1] = e[k][j]
      <4>1. s[(q + j) - 1] = e[k][j]
        BY <1>1, <3>1, <3>2
      <4>2. z \in Int
        BY <3>3, <3>2
      <4>3. (q + j) - 1 \in 1 .. a
        BY <3>3, <4>2
      <4> QED BY <1>3, <4>1, <4>3
    <3> QED BY <3>2, <3>3, <3>4
  <2> QED BY <2>1, <2>2
<1> QED BY <1>1, <1>3, <1>4, <1>5 DEF Laid

LEMMA ChainsLaid ==
    ASSUME NEW e, NEW n \in Nat, NEW f, Chains(f, n, e), \A i \in 1 .. n : e[i] \in Seq(Chars)
    PROVE  \E p : Laid(f[n], p, n, e)
<1> DEFINE p == [i \in 0 .. n |-> Len(f[i]) + 1]
           P == {i \in 0 .. n : Laid(f[i], p, i, e)}
<1>1. \A i \in 0 .. n : p[i] = Len(f[i]) + 1
  OBVIOUS
<1> HIDE DEF p
<1>2. 0 \in P
  <2>1. PICK s : s = f[0]
    OBVIOUS
  <2>2. s = <<>>
    BY <2>1 DEF Chains
  <2>3. s \in Seq(Chars) /\ Len(s) = 0
    BY ONLY <2>2
  <2>4. p[0] = 1
    BY <1>1, <2>1, <2>3
  <2>5. Laid(s, p, 0, e)
    BY <2>3, <2>4 DEF Laid
  <2> QED BY <2>1, <2>5
<1>3. ASSUME NEW i \in 1 .. n, i - 1 \in P PROVE i \in P
  <2>1. PICK h \in Nat : h = i - 1 /\ i = h + 1 /\ i \in 0 .. n /\ i # 0
    OBVIOUS
  <2>2. PICK s : s = f[h] /\ Laid(s, p, h, e)
    BY <1>3, <2>1
  <2>3. PICK t \in Seq(Chars) : t = e[i]
    OBVIOUS
  <2>4. PICK w : w = f[i]
    OBVIOUS
  <2>5. w = Pair(s, t)
    BY <2>1, <2>2, <2>3, <2>4 DEF Chains
  <2>6. p[i] = Len(w) + 1
    BY <1>1, <2>1, <2>4
  <2>7. Laid(w, p, i, e)
    BY ONLY <2>1, <2>2, <2>3, <2>5, <2>6, h \in Nat, t \in Seq(Chars), LaidOneMore
  <2> QED BY <2>1, <2>4, <2>7
<1> HIDE DEF P
<1>4. \A i \in 0 .. n : i \in P
  BY <1>2, <1>3, UpTo
<1>5. n \in P
  BY <1>4
<1> QED BY <1>5 DEF P

\* What is written for a character.
EscapedAs(c, w) ==
    /\ w \in Seq(Chars)
    /\ c > 31 /\ c \notin {Quote, Backslash} => Len(w) = 1 /\ w[1] = c
    /\ c \in {Quote, Backslash} => Len(w) = 2 /\ w[1] = Backslash /\ w[2] = c
    /\ c \in 8 .. 13 => Len(w) = 2 /\ w[1] = Backslash /\ w[2] = Letters[c]
    /\ c \in 0 .. 31 \ 8 .. 13 =>
          /\ Len(w) = 6 /\ w[1] = Backslash /\ w[2] = 117 /\ w[3] = 48 /\ w[4] = 48
          /\ w[5] = HexDigit(c \div 16) /\ w[6] = HexDigit(c % 16)
    /\ c < 0 =>
          /\ Len(w) = 10 /\ w[1] = Backslash /\ w[2] = 117
          /\ w[3] = 102 /\ w[4] = 102 /\ w[5] = 102 /\ w[6] = 102

LEMMA HexDigitIs ==
    ASSUME NEW n \in 0 .. 15
    PROVE  HexDigit(n) \in HexDigits /\ HexDigit(n) \in Chars /\ hexToInt(HexDigit(n)) = n
<1>1. HexDigit(n) \in 48 .. 57 \union 97 .. 102
  BY DEF HexDigit
<1>2. PICK d \in 48 .. 57 \union 97 .. 102 : d = HexDigit(n)
  BY <1>1
<1>3. n = IF d <= 57 THEN d - 48 ELSE d - 87
  BY <1>2 DEF HexDigit
<1>4. hexToInt(d) = IF d <= 57 THEN d - 48 ELSE d - 87
  <2>1. CASE d \in 48 .. 57
    BY <2>1 DEF hexToInt
  <2>2. CASE d \in 97 .. 102
    <3>1. ~ d <= 57 /\ d \notin 48 .. 57 /\ d \notin 65 .. 70
      BY <2>2
    <3> QED BY <2>2, <3>1 DEF hexToInt
  <2> QED BY <2>1, <2>2
<1> QED BY <1>2, <1>3, <1>4 DEF HexDigits, Chars

LEMMA LettersAre ==
    ASSUME NEW c \in 8 .. 13
    PROVE  /\ Letters[c] \in Chars /\ Letters[c] # 117 /\ Letters[c] \in Range(Letters)
           /\ Letter(Letters[c]) = c
<1>1. /\ DOMAIN Letters = 8 .. 13
      /\ Letters[8] = 98 /\ Letters[9] = 116 /\ Letters[10] = 110
      /\ Letters[11] = 118 /\ Letters[12] = 102 /\ Letters[13] = 114
  BY DEF Letters
<1>2. c \in {8, 9, 10, 11, 12, 13}
  OBVIOUS
<1>3. Letters[c] \in Chars /\ Letters[c] # 117
  BY <1>1, <1>2 DEF Chars
<1>4. Letters[c] \in Range(Letters)
  BY <1>1 DEF Range
<1>5. \A d \in 8 .. 13 : Letters[d] = Letters[c] => d = c
  <2>1. \A d \in 8 .. 13 : d \in {8, 9, 10, 11, 12, 13}
    OBVIOUS
  <2> QED BY <1>1, <1>2, <2>1
<1>6. (CHOOSE d \in DOMAIN Letters : Letters[d] = Letters[c]) = c
  BY <1>1, <1>5
<1> QED BY <1>3, <1>4, <1>6 DEF Letter

LEMMA EscapeCharIs ==
    ASSUME NEW c \in Chars
    PROVE  EscapedAs(c, EscapeChar(c))
<1>1. PICK w : w = EscapeChar(c)
  OBVIOUS
<1>2. CASE c > 31 /\ c \notin {Quote, Backslash}
  <2>1. w = <<c>>
    BY <1>1, <1>2 DEF EscapeChar
  <2>2. w \in Seq(Chars) /\ Len(w) = 1 /\ w[1] = c
    BY ONLY <2>1, c \in Chars
  <2>3. ~ c \in 8 .. 13 /\ ~ c \in 0 .. 31 /\ ~ c < 0
    BY <1>2 DEF Chars
  <2> QED BY <1>1, <1>2, <2>2, <2>3 DEF EscapedAs
<1>3. CASE c \in {Quote, Backslash}
  <2>1. w = <<Backslash>> \o <<c>>
    BY <1>1, <1>3 DEF EscapeChar
  <2>2. Backslash \in Chars
    BY DEF Backslash, Chars
  <2>3. w \in Seq(Chars) /\ Len(w) = 2 /\ w[1] = Backslash /\ w[2] = c
    BY ONLY <2>1, <2>2, c \in Chars
  <2>4. ~ c \in 8 .. 13 /\ ~ c \in 0 .. 31 /\ ~ c < 0
    BY <1>3 DEF Quote, Backslash
  <2> QED BY <1>1, <1>3, <2>3, <2>4 DEF EscapedAs
<1>4. CASE c \in 8 .. 13
  <2>1. c \in DOMAIN Letters /\ ~ c > 31 /\ c \notin {Quote, Backslash} /\ ~ c < 0
    BY <1>4 DEF Letters, Quote, Backslash
  <2>2. PICK l \in Chars : l = Letters[c]
    BY <1>4, LettersAre
  <2>3. w = <<Backslash>> \o <<l>>
    BY <1>1, <2>1, <2>2 DEF EscapeChar
  <2>4. Backslash \in Chars
    BY DEF Backslash, Chars
  <2>5. w \in Seq(Chars) /\ Len(w) = 2 /\ w[1] = Backslash /\ w[2] = l
    BY ONLY <2>3, <2>4, l \in Chars
  <2> QED BY <1>1, <1>4, <2>1, <2>2, <2>5 DEF EscapedAs
<1>5. CASE c < 0 \/ c \in 0 .. 31 \ 8 .. 13
  <2>1. ~ c > 31 /\ c \notin {Quote, Backslash} /\ c \notin 8 .. 13
    BY <1>5 DEF Quote, Backslash, Chars
  <2>2. c \notin DOMAIN Letters
    BY <2>1 DEF Letters
  <2>3. w = <<Backslash>> \o (<<117>> \o Hex(c))
    BY <1>1, <2>1, <2>2 DEF EscapeChar
  <2>4. c % 256 \in 0 .. 255 /\ (c \in 0 .. 31 => c % 256 = c)
    BY DEF Chars
  <2>5. PICK h \in 0 .. 15, l \in 0 .. 15 : h = (c % 256) \div 16 /\ l = (c % 256) % 16
    BY <2>4
  <2>6. PICK d \in Chars, f \in Chars : d = HexDigit(h) /\ f = HexDigit(l)
    BY HexDigitIs
  <2>7. Backslash \in Chars /\ 117 \in Chars /\ 102 \in Chars /\ 48 \in Chars
    BY DEF Backslash, Chars
  <2>8. CASE c < 0
    <3>1. Hex(c) = <<102, 102, 102, 102, 102, 102>> \o <<d, f>>
      BY <2>5, <2>6, <2>8 DEF Hex
    <3>2. PICK x, y : x = Hex(c) /\ y = <<117>> \o x /\ w = <<Backslash>> \o y
      BY <2>3
    <3>3. x \in Seq(Chars) /\ Len(x) = 8 /\ x[1] = 102 /\ x[2] = 102 /\ x[3] = 102 /\ x[4] = 102
      BY ONLY <2>7, <3>1, <3>2, d \in Chars, f \in Chars
    <3>4. y \in Seq(Chars) /\ Len(y) = 9 /\ y[1] = 117 /\ \A j \in 1 .. 8 : y[j + 1] = x[j]
      <4>1. PICK b \in Chars : b = 117
        BY <2>7
      <4>2. y = <<b>> \o x
        BY <3>2, <4>1
      <4>3. x \in Seq(Chars) /\ Len(x) = 8
        BY <3>3
      <4>4. y = Puts(b, x)
        BY <4>2 DEF Puts
      <4>5. y \in Seq(Chars) /\ Begins(y, b, x)
        BY ONLY <4>3, <4>4, b \in Chars, PutsIs
      <4> QED BY <4>1, <4>3, <4>5 DEF Begins
    <3>5. w \in Seq(Chars) /\ Len(w) = 10 /\ w[1] = Backslash /\ \A j \in 1 .. 9 : w[j + 1] = y[j]
      BY ONLY <2>7, <3>2, <3>4
    <3>6. /\ w[2] = y[1] /\ w[3] = y[2] /\ w[4] = y[3] /\ w[5] = y[4] /\ w[6] = y[5]
          /\ y[2] = x[1] /\ y[3] = x[2] /\ y[4] = x[3] /\ y[5] = x[4]
      BY ONLY <3>4, <3>5
    <3>7. /\ w \in Seq(Chars) /\ Len(w) = 10 /\ w[1] = Backslash /\ w[2] = 117
          /\ w[3] = 102 /\ w[4] = 102 /\ w[5] = 102 /\ w[6] = 102
      BY ONLY <3>3, <3>4, <3>5, <3>6
    <3>8. ~ c \in 0 .. 31
      BY <2>8
    <3> QED BY <1>1, <2>1, <3>7, <3>8 DEF EscapedAs
  <2>9. CASE c \in 0 .. 31 \ 8 .. 13
    <3>1. Hex(c) = <<48, 48>> \o <<d, f>>
      <4>1. ~ c < 0
        BY <2>9
      <4> QED BY <2>5, <2>6, <4>1 DEF Hex
    <3>2. PICK x, y : x = Hex(c) /\ y = <<117>> \o x /\ w = <<Backslash>> \o y
      BY <2>3
    <3>3. x \in Seq(Chars) /\ Len(x) = 4 /\ x[1] = 48 /\ x[2] = 48 /\ x[3] = d /\ x[4] = f
      BY ONLY <2>7, <3>1, <3>2, d \in Chars, f \in Chars
    <3>4. y \in Seq(Chars) /\ Len(y) = 5 /\ y[1] = 117 /\ \A j \in 1 .. 4 : y[j + 1] = x[j]
      <4>1. PICK b \in Chars : b = 117
        BY <2>7
      <4>2. y = <<b>> \o x
        BY <3>2, <4>1
      <4>3. x \in Seq(Chars) /\ Len(x) = 4
        BY <3>3
      <4>4. y = Puts(b, x)
        BY <4>2 DEF Puts
      <4>5. y \in Seq(Chars) /\ Begins(y, b, x)
        BY ONLY <4>3, <4>4, b \in Chars, PutsIs
      <4> QED BY <4>1, <4>3, <4>5 DEF Begins
    <3>5. w \in Seq(Chars) /\ Len(w) = 6 /\ w[1] = Backslash /\ \A j \in 1 .. 5 : w[j + 1] = y[j]
      BY ONLY <2>7, <3>2, <3>4
    <3>6. /\ w[2] = y[1] /\ w[3] = y[2] /\ w[4] = y[3] /\ w[5] = y[4] /\ w[6] = y[5]
          /\ y[2] = x[1] /\ y[3] = x[2] /\ y[4] = x[3] /\ y[5] = x[4]
      BY ONLY <3>4, <3>5
    <3>7. /\ w \in Seq(Chars) /\ Len(w) = 6 /\ w[1] = Backslash /\ w[2] = 117
          /\ w[3] = 48 /\ w[4] = 48 /\ w[5] = d /\ w[6] = f
      BY ONLY <3>3, <3>4, <3>5, <3>6
    <3>8. d = HexDigit(c \div 16) /\ f = HexDigit(c % 16)
      BY <2>4, <2>5, <2>6, <2>9
    <3>9. ~ c < 0
      BY <2>9
    <3> QED BY <1>1, <2>1, <2>9, <3>7, <3>8, <3>9 DEF EscapedAs
  <2> QED BY <1>5, <2>8, <2>9
<1> QED BY <1>2, <1>3, <1>4, <1>5 DEF Chars

\* The reader of escapes at the beginning of what was written for a character.
WrittenAt(s, i, w) ==
    /\ s \in Seq(Chars) /\ i \in 1 .. Len(s) /\ i + Len(w) <= Len(s) + 1
    /\ \A j \in 1 .. Len(w) : s[(i + j) - 1] = w[j]

LEMMA AtIs ==
    ASSUME NEW s, NEW i, NEW w \in Seq(Chars), WrittenAt(s, i, w), NEW j \in 1 .. Len(w),
           NEW k, k = (i + j) - 1
    PROVE  At(s, k) = w[j]
<1>1. Len(s) \in Nat /\ Len(w) \in Nat /\ i \in Nat
  BY DEF WrittenAt
<1>2. k <= Len(s)
  BY <1>1 DEF WrittenAt
<1> QED BY <1>2 DEF At, WrittenAt

UnescapedAs(u, c, w) ==
    /\ c < 0 => u.char = 65535 /\ u.used = 6
    /\ ~ c < 0 => u.char = c /\ u.used = Len(w)

LEMMA UnescapeIs ==
    ASSUME NEW c \in Chars, NEW w, w = EscapeChar(c), NEW s, NEW i, WrittenAt(s, i, w)
    PROVE  UnescapedAs(Unescape(s, i), c, w)
<1>1. EscapedAs(c, w)
  BY EscapeCharIs
<1>2. w \in Seq(Chars) /\ i \in Nat
  BY <1>1 DEF EscapedAs, WrittenAt
<1>3. \A j \in 1 .. Len(w) : At(s, (i + j) - 1) = w[j]
  <2>1. ASSUME NEW j \in 1 .. Len(w) PROVE At(s, (i + j) - 1) = w[j]
    <3>1. PICK k : k = (i + j) - 1
      OBVIOUS
    <3>2. At(s, k) = w[j]
      BY ONLY <1>2, <3>1, WrittenAt(s, i, w), j \in 1 .. Len(w), AtIs
    <3> QED BY <3>1, <3>2
  <2> QED BY <2>1
<1>4. Len(w) >= 1 => s[i] = w[1]
  <2>1. (i + 1) - 1 = i
    BY <1>2
  <2> QED BY <1>2, <2>1 DEF WrittenAt
<1>5. CASE c > 31 /\ c \notin {Quote, Backslash}
  <2>1. Len(w) = 1 /\ s[i] = c
    <3>1. Len(w) = 1 /\ w[1] = c
      BY <1>1, <1>5 DEF EscapedAs
    <3> QED BY ONLY <1>4, <3>1
  <2>2. ~ c < 0 /\ c # Backslash
    BY <1>5 DEF Chars
  <2> QED BY <2>1, <2>2 DEF Unescape, UnescapedAs
<1>6. CASE c \in {Quote, Backslash}
  <2>1. Len(w) = 2 /\ s[i] = Backslash /\ w[2] = c
    <3>1. Len(w) = 2 /\ w[1] = Backslash /\ w[2] = c
      BY <1>1, <1>6 DEF EscapedAs
    <3> QED BY ONLY <1>4, <3>1
  <2>2. At(s, i + 1) = c
    <3>1. (i + 2) - 1 = i + 1
      BY <1>2
    <3> QED BY <1>3, <2>1, <3>1
  <2>3. ~ c < 0 /\ c # 117 /\ c \notin {98, 116, 110, 118, 102, 114}
    BY <1>6 DEF Quote, Backslash
  <2>4. c \notin Range(Letters)
    BY <2>3 DEF Range, Letters
  <2>5. Letter(c) = c
    BY <2>4 DEF Letter
  <2> QED BY <2>1, <2>2, <2>3, <2>5 DEF Unescape, UnescapedAs
<1>7. CASE c \in 8 .. 13
  <2>1. Len(w) = 2 /\ s[i] = Backslash /\ w[2] = Letters[c]
    BY <1>1, <1>4, <1>7 DEF EscapedAs
  <2>2. At(s, i + 1) = Letters[c]
    <3>1. (i + 2) - 1 = i + 1
      BY <1>2
    <3> QED BY <1>3, <2>1, <3>1
  <2>3. ~ c < 0
    BY <1>7
  <2> QED BY <1>7, <2>1, <2>2, <2>3, LettersAre DEF Unescape, UnescapedAs
<1>8. CASE c < 0 \/ c \in 0 .. 31 \ 8 .. 13
  <2>1. /\ Len(w) \in {6, 10} /\ s[i] = Backslash /\ w[2] = 117
        /\ (c < 0 => w[3] = 102 /\ w[4] = 102 /\ w[5] = 102 /\ w[6] = 102)
        /\ (~ c < 0 => /\ Len(w) = 6 /\ w[3] = 48 /\ w[4] = 48
                       /\ w[5] = HexDigit(c \div 16) /\ w[6] = HexDigit(c % 16))
    BY <1>1, <1>4, <1>8 DEF EscapedAs
  <2>2. PICK k \in Nat : k = i + 2
    BY <1>2
  <2>3. /\ At(s, i + 1) = w[2] /\ At(s, k) = w[3] /\ At(s, k + 1) = w[4]
        /\ At(s, k + 2) = w[5] /\ At(s, k + 3) = w[6]
    <3>1. /\ 2 \in 1 .. Len(w) /\ 3 \in 1 .. Len(w) /\ 4 \in 1 .. Len(w)
          /\ 5 \in 1 .. Len(w) /\ 6 \in 1 .. Len(w)
      BY <2>1
    <3>2. /\ (i + 2) - 1 = i + 1 /\ (i + 3) - 1 = k /\ (i + 4) - 1 = k + 1
          /\ (i + 5) - 1 = k + 2 /\ (i + 6) - 1 = k + 3
      BY <1>2, <2>2
    <3> QED BY <1>3, <3>1, <3>2
  <2>4. Unescape(s, i) = [char |-> Unicode(s, k), used |-> 6]
    BY <2>1, <2>2, <2>3 DEF Unescape
  <2>5. PICK x1, x2, x3, x4 : /\ x1 = hexToInt(w[3]) /\ x2 = hexToInt(w[4])
                              /\ x3 = hexToInt(w[5]) /\ x4 = hexToInt(w[6])
    OBVIOUS
  <2>6. Unicode(s, k) = ((x1 * 16 + x2) * 16 + x3) * 16 + x4
    BY <2>3, <2>5 DEF Unicode
  <2>7. hexToInt(102) = 15 /\ hexToInt(48) = 0
    BY DEF hexToInt
  <2>8. CASE c < 0
    <3>1. x1 = 15 /\ x2 = 15 /\ x3 = 15 /\ x4 = 15
      BY <2>1, <2>5, <2>7, <2>8
    <3>2. Unicode(s, k) = 65535
      BY ONLY <2>6, <3>1
    <3> QED BY <2>4, <2>8, <3>2 DEF UnescapedAs
  <2>9. CASE ~ c < 0
    <3>1. c \in 0 .. 31
      BY <1>8, <2>9
    <3>2. PICK h \in 0 .. 15, l \in 0 .. 15 : h = c \div 16 /\ l = c % 16 /\ c = h * 16 + l
      BY <3>1
    <3>3. x1 = 0 /\ x2 = 0 /\ x3 = h /\ x4 = l
      BY <2>1, <2>5, <2>7, <2>9, <3>2, HexDigitIs
    <3>4. Unicode(s, k) = c
      BY ONLY <2>6, <3>2, <3>3, h \in 0 .. 15, l \in 0 .. 15
    <3>5. Len(w) = 6
      BY <2>1, <2>9
    <3> QED BY ONLY <2>4, <2>9, <3>4, <3>5 DEF UnescapedAs
  <2> QED BY <2>8, <2>9
<1> QED BY <1>5, <1>6, <1>7, <1>8 DEF Chars

\* A text of which each character is read as it was meant is read back whole.
LEMMA ReadsAll ==
    ASSUME NEW n \in Nat, NEW w, NEW x \in Seq(Int), n = Len(x), ReadsFirst(w, x, n, TRUE)
    PROVE  w = x
<1>1. w \in Seq(Int) /\ Len(w) = n /\ \A j \in 1 .. n : w[j] = x[j]
  BY DEF ReadsFirst
<1> QED BY ONLY <1>1, x \in Seq(Int), n = Len(x), SeqEqual

LEMMA EscapeLaid ==
    ASSUME NEW text \in Seq(Chars), NEW str, str = CString(text), NEW n \in Nat, n = Len(str)
    PROVE  \E p, e : /\ e = [k \in 1 .. n |-> EscapeChar(str[k])]
                     /\ Laid(aoStrEscapeString(text), p, n, e)
<1> DEFINE out == CHOOSE g : g = [i \in 0 .. Len(CString(text)) |->
                  IF i = 0 THEN <<>> ELSE g[i - 1] \o EscapeChar(CString(text)[i])]
           e == [k \in 1 .. n |-> EscapeChar(str[k])]
           step(g, i) == IF i = 0 THEN <<>> ELSE Pair(g[i - 1], EscapeChar(str[i]))
<1>1. str \in Seq(Chars)
  BY CStringIs
<1>2. out = CHOOSE g : g = [i \in 0 .. n |-> step(g, i)]
  BY DEF Pair
<1>3. aoStrEscapeString(text) = out[n]
  BY DEF aoStrEscapeString
<1> HIDE DEF out
<1>4. \A i \in 1 .. n : e[i] = EscapeChar(str[i]) /\ e[i] \in Seq(Chars)
  <2>1. ASSUME NEW i \in 1 .. n PROVE EscapeChar(str[i]) \in Seq(Chars)
    <3>1. str[i] \in Chars
      BY <1>1
    <3> QED BY <3>1, EscapeCharIs DEF EscapedAs
  <2> QED BY <2>1
<1> HIDE DEF e
<1>5. \E g : g = [i \in 0 .. n |-> step(g, i)]
  <2>1. PICK f : Chains(f, n, e)
    BY ChainsExists
  <2>2. \A i \in 0 .. n : f[i] = step(f, i)
    <3>1. ASSUME NEW i \in 0 .. n PROVE f[i] = step(f, i)
      <4>1. CASE i = 0
        BY <2>1, <4>1 DEF Chains
      <4>2. CASE i # 0
        <5>1. e[i] = EscapeChar(str[i])
          BY <1>4, <4>2
        <5>2. f[i] = Pair(f[i - 1], e[i])
          BY <2>1, <4>2 DEF Chains
        <5> QED BY <4>2, <5>1, <5>2
      <4> QED BY <4>1, <4>2
    <3> QED BY <3>1
  <2>3. f = [i \in 0 .. n |-> f[i]]
    BY <2>1 DEF Chains
  <2> HIDE DEF step
  <2>4. f = [i \in 0 .. n |-> step(f, i)]
    BY <2>2, <2>3
  <2> QED BY <2>4
<1>6. out = [i \in 0 .. n |-> step(out, i)]
  BY <1>2, <1>5
<1>7. Chains(out, n, e)
  <2>1. \A i \in 0 .. n : step(out, i) = IF i = 0 THEN <<>> ELSE Pair(out[i - 1], e[i])
    <3>1. \A i \in 0 .. n : i = 0 \/ e[i] = EscapeChar(str[i])
      BY <1>4
    <3> QED BY <3>1
  <2> HIDE DEF step
  <2> QED BY <1>6, <2>1 DEF Chains
<1>8. PICK p : Laid(out[n], p, n, e)
  BY <1>4, <1>7, ChainsLaid
<1>9. e = [k \in 1 .. n |-> EscapeChar(str[k])]
  BY DEF e
<1> QED BY <1>3, <1>8, <1>9

LEMMA CharsAre == \A c \in Chars : c \in Int /\ -128 <= c /\ c <= 127
BY DEF Chars

LEMMA AtType ==
    ASSUME NEW s \in Seq(Chars), NEW k \in Nat \ {0}
    PROVE  At(s, k) \in Int
<1>1. CASE k <= Len(s)
  <2>1. s[k] \in Chars
    BY <1>1
  <2> QED BY <1>1, <2>1, CharsAre DEF At
<1>2. CASE ~ k <= Len(s)
  BY <1>2 DEF At, NUL
<1> QED BY <1>1, <1>2

LEMMA HexToIntIs ==
    ASSUME NEW c \in Int
    PROVE  hexToInt(c) \in Int /\ (c \in HexDigits => hexToInt(c) \in 0 .. 15)
<1>1. CASE c \in 48 .. 57
  BY <1>1 DEF hexToInt
<1>2. CASE c \in 65 .. 70
  <2>1. c \notin 48 .. 57 /\ c \notin 97 .. 102
    BY <1>2
  <2> QED BY <1>2, <2>1 DEF hexToInt
<1>3. CASE c \in 97 .. 102
  <2>1. c \notin 48 .. 57 /\ c \notin 65 .. 70
    BY <1>3
  <2> QED BY <1>3, <2>1 DEF hexToInt
<1>4. CASE c \notin 48 .. 57 \union 65 .. 70 \union 97 .. 102
  BY <1>4 DEF hexToInt, HexDigits
<1> QED BY <1>1, <1>2, <1>3, <1>4

LEMMA ReadersType ==
    ASSUME NEW s \in Seq(Chars), NEW i \in 1 .. Len(s)
    PROVE  Unescape(s, i).char \in Int /\ Unescape(s, i).used \in 1 .. 6
<1>1. \A k \in Nat \ {0} : At(s, k) \in Int
  BY AtType
<1>2. \A c \in Int : hexToInt(c) \in Int
  BY HexToIntIs
<1>3. \A c \in Int : Letter(c) \in Int
  <2>1. ASSUME NEW c \in Int PROVE Letter(c) \in Int
    <3>1. CASE c \in Range(Letters)
      <4>1. \E d \in DOMAIN Letters : Letters[d] = c
        BY <3>1 DEF Range
      <4>2. (CHOOSE d \in DOMAIN Letters : Letters[d] = c) \in DOMAIN Letters
        BY <4>1
      <4>3. DOMAIN Letters \subseteq Int
        BY DEF Letters
      <4>4. Letter(c) \in DOMAIN Letters
        BY <3>1, <4>2 DEF Letter
      <4> QED BY <4>3, <4>4
    <3>2. CASE c \notin Range(Letters)
      BY <3>2 DEF Letter
    <3> QED BY <3>1, <3>2
  <2> QED BY <2>1
<1>4. s[i] \in Int /\ i \in Nat \ {0}
  <2>1. s[i] \in Chars
    OBVIOUS
  <2> QED BY <2>1, CharsAre
<1>5. CASE s[i] # Backslash
  BY <1>4, <1>5 DEF Unescape
<1>6. CASE s[i] = Backslash /\ At(s, i + 1) = 117
  <2>1. PICK k \in Nat \ {0} : k = i + 2
    BY <1>4
  <2>2. Unicode(s, k) \in Int
    <3>1. PICK x1 \in Int, x2 \in Int, x3 \in Int, x4 \in Int :
             /\ x1 = hexToInt(At(s, k)) /\ x2 = hexToInt(At(s, k + 1))
             /\ x3 = hexToInt(At(s, k + 2)) /\ x4 = hexToInt(At(s, k + 3))
      <4>1. k + 1 \in Nat \ {0} /\ k + 2 \in Nat \ {0} /\ k + 3 \in Nat \ {0}
        OBVIOUS
      <4> QED BY <1>1, <1>2, <4>1
    <3>2. Unicode(s, k) = ((x1 * 16 + x2) * 16 + x3) * 16 + x4
      BY <3>1 DEF Unicode
    <3> QED BY ONLY <3>2, x1 \in Int, x2 \in Int, x3 \in Int, x4 \in Int
  <2>3. Unescape(s, i) = [char |-> Unicode(s, k), used |-> 6]
    BY <1>6, <2>1 DEF Unescape
  <2> QED BY ONLY <2>2, <2>3
<1>7. CASE s[i] = Backslash /\ At(s, i + 1) # 117
  <2>1. Letter(At(s, i + 1)) \in Int
    <3>1. i + 1 \in Nat \ {0}
      OBVIOUS
    <3> QED BY <1>1, <1>3, <3>1
  <2>2. Unescape(s, i) = [char |-> Letter(At(s, i + 1)), used |-> 2]
    BY <1>7 DEF Unescape
  <2> QED BY ONLY <2>1, <2>2
<1> QED BY <1>5, <1>6, <1>7

\* The reader comes to the beginning of each character, up to the first that is
\* negative; that one it takes for another.
LEMMA EscapesRead ==
    ASSUME NEW text \in Seq(Chars), NEW str, str = CString(text), NEW n \in Nat, n = Len(str)
    PROVE  /\ (\A k \in 1 .. n : str[k] >= 0) => Unescaped(aoStrEscapeString(text)) = str
           /\ \A b \in 1 .. n : str[b] < 0 /\ (\A k \in 1 .. b - 1 : str[k] >= 0)
                 => Unescaped(aoStrEscapeString(text)) # str
<1>1. str \in Seq(Chars) /\ str \in Seq(Int)
  <2>1. str \in Seq(Chars)
    BY CStringIs
  <2>2. Chars \subseteq Int
    BY DEF Chars
  <2> QED BY <2>1, <2>2, SeqMonotonic
<1>2. PICK s : s = aoStrEscapeString(text)
  OBVIOUS
<1>3. PICK p, e : e = [k \in 1 .. n |-> EscapeChar(str[k])] /\ Laid(s, p, n, e)
  BY <1>2, EscapeLaid
<1>4. /\ s \in Seq(Chars) /\ p[0] = 1 /\ p[n] = Len(s) + 1
      /\ \A k \in 0 .. n : p[k] \in 1 .. Len(s) + 1
  BY <1>3 DEF Laid
<1>5. PICK l \in Nat : l = Len(s)
  BY <1>4
<1>6. PICK reads : reads = [i \in DOMAIN s |-> Unescape(s, i)]
  OBVIOUS
<1>7. l = Len(reads) /\ \A i \in 1 .. l : reads[i] = Unescape(s, i)
  <2>1. DOMAIN s = 1 .. l
    BY <1>4, <1>5
  <2>2. DOMAIN reads = 1 .. l
    BY <1>6, <2>1
  <2>3. Len(reads) = l
    BY ONLY <2>2, l \in Nat
  <2> QED BY <1>6, <2>1, <2>3
<1>8. ReadsIn(reads, l)
  BY <1>4, <1>5, <1>7, ReadersType DEF ReadsIn
<1>9. Unescaped(s) = Transcribed(reads)
  BY <1>6 DEF Unescaped
<1>10. ASSUME NEW k \in 1 .. n
       PROVE  /\ p[k - 1] \in 1 .. l
              /\ str[k] < 0 => /\ reads[p[k - 1]].char = 65535 /\ reads[p[k - 1]].used = 6
                               /\ p[k - 1] + 6 <= l + 1
              /\ ~ str[k] < 0 => /\ reads[p[k - 1]].char = str[k]
                                 /\ p[k] = p[k - 1] + reads[p[k - 1]].used
  <2>0. PICK c \in Chars : c = str[k]
    BY <1>1
  <2>1. PICK w : c = str[k] /\ w = EscapeChar(c) /\ w = e[k]
    BY <1>3, <2>0
  <2>2. EscapedAs(c, w)
    BY <2>1, EscapeCharIs
  <2>3. w \in Seq(Chars) /\ Len(w) \in Nat
    BY <2>2 DEF EscapedAs
  <2>4. Len(w) >= 1
    BY <2>2, <2>3 DEF EscapedAs, Chars
  <2>5. c < 0 => Len(w) = 10
    BY <2>2 DEF EscapedAs
  <2>6. PICK i \in 1 .. l + 1 : i = p[k - 1]
    <3>1. k - 1 \in 0 .. n
      OBVIOUS
    <3> QED BY <1>4, <1>5, <3>1
  <2>7. /\ p[k] = i + Len(w)
        /\ \A j \in 1 .. Len(w) : s[(i + j) - 1] = w[j]
    <3>1. \A h \in 1 .. n : /\ p[h] = p[h - 1] + Len(e[h])
                            /\ \A j \in 1 .. Len(e[h]) : s[(p[h - 1] + j) - 1] = e[h][j]
      BY ONLY <1>3 DEF Laid
    <3> QED BY ONLY <2>1, <2>6, <3>1, k \in 1 .. n
  <2>8. i + Len(w) <= l + 1
    <3>1. p[k] \in 1 .. l + 1
      BY <1>4, <1>5
    <3> QED BY <2>7, <3>1
  <2>9. i \in 1 .. l
    BY <2>3, <2>4, <2>8
  <2>10. WrittenAt(s, i, w)
    BY <1>4, <1>5, <2>7, <2>8, <2>9 DEF WrittenAt
  <2>11. UnescapedAs(Unescape(s, i), c, w)
    BY ONLY <2>1, <2>10, c \in Chars, UnescapeIs
  <2>12. PICK v \in Nat : v = Len(w)
    BY <2>3
  <2>13. v >= 1 /\ i + v <= l + 1 /\ (c < 0 => v = 10)
    BY <2>4, <2>5, <2>8, <2>12
  <2>14. p[k] = i + v
    BY <2>7, <2>12
  <2>15. PICK u : u = reads[i] /\ UnescapedAs(u, c, w)
    BY <1>7, <2>9, <2>11
  <2>16. CASE c < 0
    <3>1. v = 10
      BY ONLY <2>13, <2>16
    <3>2. i + 6 <= l + 1
      BY ONLY <2>13, <3>1, i \in 1 .. l + 1, l \in Nat
    <3>3. u.char = 65535 /\ u.used = 6
      BY ONLY <2>15, <2>16 DEF UnescapedAs
    <3> QED BY ONLY <2>1, <2>6, <2>9, <2>15, <2>16, <3>2, <3>3
  <2>17. CASE ~ c < 0
    <3>1. u.char = c /\ u.used = v
      BY ONLY <2>12, <2>15, <2>17 DEF UnescapedAs
    <3>2. p[k] = i + u.used
      BY ONLY <2>14, <3>1
    <3> QED BY ONLY <2>1, <2>6, <2>9, <2>15, <2>17, <3>1, <3>2
  <2> QED BY ONLY <2>16, <2>17
<1>11. ASSUME \A k \in 1 .. n : str[k] >= 0
       PROVE  Unescaped(s) = str
  <2>1. \A k \in 1 .. n : str[k] \in Int /\ ~ str[k] < 0
    BY <1>1, <1>11
  <2>2. \A k \in 1 .. n : /\ reads[p[k - 1]].char = str[k] /\ p[k - 1] \in 1 .. l
                          /\ p[k] = p[k - 1] + reads[p[k - 1]].used
    BY <1>10, <2>1
  <2>3. Visits(p, n, l, reads)
    BY <1>4, <1>5, <2>2 DEF Visits
  <2>4. p[n] = l + 1
    BY <1>4, <1>5
  <2>5. \A k \in 1 .. n : str[k] = reads[p[k - 1]].char
    BY <2>2
  <2>6. ReadsFirst(Transcribed(reads), str, n, p[n] = l + 1)
    BY ONLY <1>7, <1>8, <2>3, <2>5, n \in Nat, l \in Nat, TranscribedReads
  <2>7. PICK w : w = Transcribed(reads)
    OBVIOUS
  <2>8. ReadsFirst(w, str, n, TRUE)
    BY <2>4, <2>6, <2>7 DEF ReadsFirst
  <2>9. w = str
    BY ONLY <1>1, <2>8, n \in Nat, n = Len(str), ReadsAll
  <2> QED BY <1>9, <2>7, <2>9
<1>12. ASSUME NEW b \in 1 .. n, str[b] < 0, \A k \in 1 .. b - 1 : str[k] >= 0
       PROVE  Unescaped(s) # str
  <2> DEFINE r == [k \in 0 .. b |-> IF k = b THEN p[b - 1] + 6 ELSE p[k]]
             x == [k \in 1 .. b |-> IF k = b THEN 65535 ELSE str[k]]
  <2>1. r[b] = p[b - 1] + 6 /\ \A k \in 0 .. b - 1 : r[k] = p[k]
    OBVIOUS
  <2>2. x[b] = 65535 /\ \A k \in 1 .. b - 1 : x[k] = str[k]
    OBVIOUS
  <2> HIDE DEF r, x
  <2>3. \A k \in 1 .. b - 1 : /\ k \in 1 .. n /\ k - 1 \in 0 .. b - 1 /\ k \in 0 .. b - 1
                              /\ str[k] \in Int /\ ~ str[k] < 0
    BY <1>1, <1>12
  <2>4. ASSUME NEW k \in 1 .. b - 1
        PROVE  /\ reads[p[k - 1]].char = str[k] /\ p[k - 1] \in 1 .. l
               /\ p[k] = p[k - 1] + reads[p[k - 1]].used
    <3>1. k \in 1 .. n /\ ~ str[k] < 0
      BY ONLY <2>3, k \in 1 .. b - 1
    <3> QED BY ONLY <1>10, <3>1
  <2>5. /\ p[b - 1] \in 1 .. l /\ p[b - 1] + 6 <= l + 1
        /\ reads[p[b - 1]].char = 65535 /\ reads[p[b - 1]].used = 6
    BY <1>10, <1>12
  <2>6. b - 1 \in 0 .. b - 1
    OBVIOUS
  <2>7. ASSUME NEW k \in 1 .. b
        PROVE  /\ r[k - 1] <= l /\ r[k] = r[k - 1] + reads[r[k - 1]].used
               /\ x[k] = reads[r[k - 1]].char
    <3>1. CASE k = b
      BY <2>1, <2>2, <2>5, <2>6, <3>1
    <3>2. CASE k # b
      <4>1. k \in 1 .. b - 1
        BY <3>2
      <4>2. r[k] = p[k] /\ r[k - 1] = p[k - 1]
        BY <2>1, <2>3, <4>1
      <4> QED BY <2>2, <2>4, <4>1, <4>2
    <3> QED BY <3>1, <3>2
  <2>8. \A k \in 0 .. b : r[k] \in 1 .. l + 6
    <3>1. ASSUME NEW k \in 0 .. b PROVE r[k] \in 1 .. l + 6
      <4>1. CASE k = b
        BY <2>1, <2>5, <4>1
      <4>2. CASE k # b
        <5>1. k \in 0 .. b - 1 /\ k \in 0 .. n
          BY <4>2
        <5>2. r[k] = p[k] /\ p[k] \in 1 .. l + 1
          BY <1>4, <1>5, <2>1, <5>1
        <5> QED BY <5>2
      <4> QED BY <4>1, <4>2
    <3> QED BY <3>1
  <2>9. Visits(r, b, l, reads)
    <3>1. r[0] = 1
      <4>1. 0 \in 0 .. b - 1
        OBVIOUS
      <4> QED BY <1>4, <2>1, <4>1
    <3> QED BY <2>7, <2>8, <3>1 DEF Visits
  <2>10. \A k \in 1 .. b : x[k] = reads[r[k - 1]].char
    BY <2>7
  <2>11. b \in Nat
    OBVIOUS
  <2>12. ReadsFirst(Transcribed(reads), x, b, r[b] = l + 1)
    BY ONLY <1>7, <1>8, <2>9, <2>10, <2>11, l \in Nat, TranscribedReads
  <2>13. Transcribed(reads)[b] = 65535
    <3>1. b \in 1 .. b
      OBVIOUS
    <3> QED BY <2>2, <2>12, <3>1 DEF ReadsFirst
  <2>14. str[b] # 65535
    <3>1. str[b] \in Chars
      BY <1>1
    <3> QED BY <3>1, CharsAre
  <2> QED BY <1>9, <2>13, <2>14
<1> QED BY <1>2, <1>11, <1>12

\* aoStrEscapeString can be undone exactly when no character is negative: whatever it
\* writes for a character is read for that one, and for a negative one for another.
THEOREM EscapeCanBeUndone == CallsSpec => []EscapeReadsBack
<1>1. CallsInv => EscapeReadsBack
  <2>1. SUFFICES ASSUME CallsInv, Of("escape")
                 PROVE  Unescaped(result[1]) = CString(call.text)
                            <=> \A c \in ToSet(CString(call.text)) : c >= 0
    BY DEF EscapeReadsBack
  <2>2. PICK text \in Seq(Chars) : text = call.text
    BY <2>1, ArgumentsAssumption DEF CallsInv, Of
  <2>3. PICK s : s = aoStrEscapeString(text) /\ result[1] = s
    BY <2>1, <2>2 DEF CallsInv, Of, Returned
  <2>4. PICK str \in Seq(Chars) : str = CString(text)
    BY CStringIs
  <2>5. PICK n \in Nat : n = Len(str)
    BY <2>4
  <2>6. /\ (\A k \in 1 .. n : str[k] >= 0) => Unescaped(s) = str
        /\ \A b \in 1 .. n : str[b] < 0 /\ (\A k \in 1 .. b - 1 : str[k] >= 0) => Unescaped(s) # str
    BY ONLY <2>3, <2>4, <2>5, text \in Seq(Chars), n \in Nat, EscapesRead
  <2>7. \A k \in 1 .. n : str[k] \in Int
    <3>1. \A k \in 1 .. n : str[k] \in Chars
      BY <2>4, <2>5
    <3> QED BY <3>1, CharsAre
  <2>8. (\A c \in ToSet(str) : c >= 0) <=> \A k \in 1 .. n : str[k] >= 0
    <3>1. DOMAIN str = 1 .. n
      BY <2>4, <2>5
    <3> QED BY <3>1 DEF ToSet
  <2>9. CASE \A k \in 1 .. n : str[k] >= 0
    BY ONLY <2>2, <2>3, <2>4, <2>6, <2>8, <2>9
  <2>10. CASE ~ \A k \in 1 .. n : str[k] >= 0
    <3> DEFINE B == {k \in 1 .. n : str[k] < 0}
    <3>1. B \in SUBSET Nat /\ B # {}
      BY <2>7, <2>10
    <3>2. PICK b \in B : \A k \in B : b <= k
      <4> HIDE DEF B
      <4> QED BY <3>1, LeastNatural
    <3>3. b \in 1 .. n /\ str[b] < 0
      OBVIOUS
    <3>4. \A k \in 1 .. b - 1 : str[k] >= 0
      <4>1. ASSUME NEW k \in 1 .. b - 1 PROVE str[k] >= 0
        <5>1. k \in 1 .. n /\ ~ b <= k
          BY <3>3
        <5>2. k \notin B
          BY <3>2, <5>1
        <5> QED BY <2>7, <5>1, <5>2
      <4> QED BY <4>1
    <3>5. Unescaped(s) # str
      BY ONLY <2>6, <3>3, <3>4
    <3> QED BY ONLY <2>2, <2>3, <2>4, <2>8, <2>10, <3>5
  <2> QED BY <2>9, <2>10
<1> QED BY <1>1, CallsInvariance, PTL

-----------------------------------------------------------------------------
(* Mime-encoded words.                                                      *)

\* What a character may be encoded as.
EncodedAs(c, w) ==
    \/ Len(w) = 1 /\ w[1] = c /\ c # Equals
    \/ /\ Len(w) = 3 /\ w[1] = Equals /\ w[2] \in HexDigits /\ w[3] \in HexDigits
       /\ hexToInt(w[2]) * 16 + hexToInt(w[3]) = c % 256

LEMMA EncodingIs ==
    ASSUME NEW c \in Chars, c # NUL, NEW w \in Encodings(c)
    PROVE  w \in Seq(Chars \ {NUL}) /\ EncodedAs(c, w)
<1>1. CASE w \in {s \in {<<c>>} : c # Equals}
  <2>1. w = <<c>> /\ c # Equals
    BY <1>1
  <2> QED BY <2>1 DEF EncodedAs
<1>2. CASE w \in {s \in {<<Equals, high, low>> : high, low \in HexDigits} :
                     hexToInt(s[2]) * 16 + hexToInt(s[3]) = c % 256}
  <2>1. PICK high \in HexDigits, low \in HexDigits : w = <<Equals, high, low>>
    BY <1>2
  <2>2. hexToInt(w[2]) * 16 + hexToInt(w[3]) = c % 256
    BY <1>2
  <2>3. Equals \in Chars \ {NUL} /\ high \in Chars \ {NUL} /\ low \in Chars \ {NUL}
    BY DEF Equals, HexDigits, Chars, NUL
  <2> QED BY <2>1, <2>2, <2>3 DEF EncodedAs
<1> QED BY <1>1, <1>2 DEF Encodings

\* The decoder at the beginning of an encoded character.
LEMMA DecodedIs ==
    ASSUME NEW c \in Chars, NEW w \in Seq(Chars), EncodedAs(c, w), NEW s, NEW i, WrittenAt(s, i, w)
    PROVE  Decoded(s, i).char = c /\ Decoded(s, i).used = Len(w)
<1>1. i \in Nat
  BY DEF WrittenAt
<1>2. CASE Len(w) = 1 /\ w[1] = c /\ c # Equals
  <2>1. s[(i + 1) - 1] = w[1] /\ (i + 1) - 1 = i
    BY <1>1, <1>2 DEF WrittenAt
  <2>2. s[i] # Equals /\ s[i] = c
    BY <1>2, <2>1
  <2>3. Decoded(s, i) = [char |-> c, used |-> 1]
    BY <2>2 DEF Decoded
  <2> QED BY ONLY <1>2, <2>3
<1>3. CASE /\ Len(w) = 3 /\ w[1] = Equals /\ w[2] \in HexDigits /\ w[3] \in HexDigits
           /\ hexToInt(w[2]) * 16 + hexToInt(w[3]) = c % 256
  <2>1. s[(i + 1) - 1] = w[1] /\ (i + 1) - 1 = i
    BY <1>1, <1>3 DEF WrittenAt
  <2>2. s[i] = Equals
    BY <1>3, <2>1
  <2>3. At(s, i + 1) = w[2]
    <3>1. 2 \in 1 .. Len(w) /\ i + 1 = (i + 2) - 1
      BY <1>1, <1>3
    <3> QED BY ONLY <3>1, w \in Seq(Chars), WrittenAt(s, i, w), AtIs
  <2>4. At(s, i + 2) = w[3]
    <3>1. 3 \in 1 .. Len(w) /\ i + 2 = (i + 3) - 1
      BY <1>1, <1>3
    <3> QED BY ONLY <3>1, w \in Seq(Chars), WrittenAt(s, i, w), AtIs
  <2>5. PICK h \in 0 .. 15, l \in 0 .. 15 : h = hexToInt(w[2]) /\ l = hexToInt(w[3])
    <3>1. w[2] \in HexDigits /\ w[3] \in HexDigits
      BY ONLY <1>3
    <3>2. ASSUME NEW x \in HexDigits PROVE hexToInt(x) \in 0 .. 15
      <4>1. x \in Int
        BY ONLY x \in HexDigits DEF HexDigits
      <4> QED BY ONLY <4>1, x \in HexDigits, HexToIntIs
    <3> QED BY ONLY <3>1, <3>2
  <2>6. h * 16 + l = c % 256
    BY <1>3, <2>5
  <2>7. SignedChar(h * 16 + l) = c
    <3>1. c \in Int /\ -128 <= c /\ c <= 127
      BY CharsAre
    <3>2. CASE c < 0
      <4>1. c % 256 = c + 256
        BY ONLY <3>1, <3>2
      <4>2. h * 16 + l = c + 256
        BY ONLY <2>6, <4>1
      <4> QED BY ONLY <3>1, <3>2, <4>2, h \in 0 .. 15, l \in 0 .. 15 DEF SignedChar
    <3>3. CASE ~ c < 0
      <4>1. c % 256 = c
        BY ONLY <3>1, <3>3
      <4>2. h * 16 + l = c
        BY ONLY <2>6, <4>1
      <4> QED BY ONLY <3>1, <3>3, <4>2, h \in 0 .. 15, l \in 0 .. 15 DEF SignedChar
    <3> QED BY <3>2, <3>3
  <2>8. h # -1 /\ l # -1
    OBVIOUS
  <2>9. Decoded(s, i) = [char |-> c, used |-> 3]
    BY ONLY <2>2, <2>3, <2>4, <2>5, <2>7, <2>8 DEF Decoded
  <2> QED BY ONLY <1>3, <2>9
<1> QED BY <1>2, <1>3 DEF EncodedAs

LEMMA DecoderType ==
    ASSUME NEW s \in Seq(Chars), NEW i \in 1 .. Len(s)
    PROVE  Decoded(s, i).char \in Int /\ Decoded(s, i).used \in 1 .. 6
<1>1. s[i] \in Int
  <2>1. s[i] \in Chars
    OBVIOUS
  <2> QED BY <2>1, CharsAre
<1>2. CASE s[i] = Equals /\ hexToInt(At(s, i + 1)) # -1 /\ hexToInt(At(s, i + 2)) # -1
  <2>1. PICK h \in Int, l \in Int : h = hexToInt(At(s, i + 1)) /\ l = hexToInt(At(s, i + 2))
    <3>1. i + 1 \in Nat \ {0} /\ i + 2 \in Nat \ {0}
      OBVIOUS
    <3>2. At(s, i + 1) \in Int /\ At(s, i + 2) \in Int
      BY <3>1, AtType
    <3> QED BY <3>2, HexToIntIs
  <2>2. SignedChar(h * 16 + l) \in Int
    BY DEF SignedChar
  <2>3. Decoded(s, i) = [char |-> SignedChar(h * 16 + l), used |-> 3]
    BY <1>2, <2>1 DEF Decoded
  <2> QED BY ONLY <2>2, <2>3
<1>3. CASE ~ (s[i] = Equals /\ hexToInt(At(s, i + 1)) # -1 /\ hexToInt(At(s, i + 2)) # -1)
  <2>1. Decoded(s, i) = [char |-> s[i], used |-> 1]
    BY <1>3 DEF Decoded
  <2> QED BY ONLY <1>1, <2>1
<1> QED BY <1>2, <1>3

LEMMA PairType ==
    ASSUME NEW S, NEW s \in Seq(S), NEW t \in Seq(S)
    PROVE  Pair(s, t) \in Seq(S)
BY DEF Pair

\* The parts one after the other are laid one after the other.
LEMMA TogetherLaid ==
    ASSUME NEW S \in SUBSET Chars, NEW parts, NEW n \in Nat, n = Len(parts),
           \A i \in 1 .. n : parts[i] \in Seq(S)
    PROVE  Together(parts) \in Seq(S) /\ \E p : Laid(Together(parts), p, n, parts)
<1> DEFINE first == CHOOSE g : g = [i \in 0 .. Len(parts) |->
                        IF i = 0 THEN <<>> ELSE g[i - 1] \o parts[i]]
<1>1. first = CHOOSE g : Chains(g, n, parts)
  BY DEF Chains, Pair
<1>2. Together(parts) = first[n]
  BY DEF Together
<1> HIDE DEF first
<1>3. Chains(first, n, parts)
  <2>1. PICK g : Chains(g, n, parts)
    BY ChainsExists
  <2> QED BY <1>1, <2>1
<1> DEFINE P == {i \in 0 .. n : first[i] \in Seq(S)}
<1>4. 0 \in P
  BY <1>3 DEF Chains
<1>5. ASSUME NEW i \in 1 .. n, i - 1 \in P PROVE i \in P
  <2>1. first[i] = Pair(first[i - 1], parts[i])
    BY <1>3 DEF Chains
  <2>2. first[i - 1] \in Seq(S) /\ parts[i] \in Seq(S)
    BY <1>5
  <2> QED BY <2>1, <2>2, PairType
<1> HIDE DEF P
<1>6. \A i \in 0 .. n : i \in P
  BY <1>4, <1>5, UpTo
<1>7. first[n] \in Seq(S)
  <2>1. n \in P
    BY <1>6
  <2> QED BY <2>1 DEF P
<1>8. \A i \in 1 .. n : parts[i] \in Seq(Chars)
  <2>1. ASSUME NEW i \in 1 .. n PROVE parts[i] \in Seq(Chars)
    <3>1. parts[i] \in Seq(S)
      OBVIOUS
    <3> QED BY ONLY <3>1, S \in SUBSET Chars, SeqMonotonic
  <2> QED BY <2>1
<1>9. PICK p : Laid(first[n], p, n, parts)
  BY <1>3, <1>8, ChainsLaid
<1> QED BY <1>2, <1>7, <1>9

LEMMA PrefixIs ==
    ASSUME NEW s \in Seq(Chars), NEW t \in Seq(Chars)
    PROVE  IsPrefix(s, t) <=> Len(s) <= Len(t) /\ \A i \in 1 .. Len(s) : s[i] = t[i]
<1>1. PICK m \in Nat, n \in Nat : m = Len(s) /\ n = Len(t)
  OBVIOUS
<1>2. CASE m <= n
  <2>1. PICK u, v : u = SubSeq(s, 1, m) /\ v = SubSeq(t, 1, m)
    OBVIOUS
  <2>2. /\ u \in Seq(Chars) /\ Len(u) = m /\ \A i \in 1 .. m : u[i] = s[i]
        /\ v \in Seq(Chars) /\ Len(v) = m /\ \A i \in 1 .. m : v[i] = t[i]
    <3>1. \A i \in 1 .. m : s[i] \in Chars /\ t[i] \in Chars
      BY <1>1, <1>2
    <3>2. \A i \in 1 .. m : (1 + i) - 1 = i
      OBVIOUS
    <3>3. u \in Seq(Chars) /\ Len(u) = m /\ \A i \in 1 .. m : u[i] = s[i]
      BY <1>1, <2>1
    <3>4. v \in Seq(Chars) /\ Len(v) = m /\ \A i \in 1 .. m : v[i] = t[i]
      BY <1>1, <1>2, <2>1
    <3> QED BY <3>3, <3>4
  <2>3. ASSUME \A i \in 1 .. m : s[i] = t[i] PROVE u = v
    <3>1. \A i \in 1 .. Len(u) : u[i] = v[i]
      BY <2>2, <2>3
    <3> QED BY ONLY <2>2, <3>1, SeqEqual
  <2>4. IsPrefix(s, t) <=> u = v
    BY <1>1, <1>2, <2>1 DEF IsPrefix
  <2> QED BY <1>1, <1>2, <2>2, <2>3, <2>4
<1>3. CASE ~ m <= n
  BY <1>1, <1>3 DEF IsPrefix
<1> QED BY <1>2, <1>3

\* Prefix and suffix are at the two ends; they may share a character, but not two.
Wrapped(text) ==
    /\ Len(text) >= 11 /\ \A i \in 1 .. 10 : text[i] = Prefix[i]
    /\ text[Len(text) - 1] = Suffix[1] /\ text[Len(text)] = Suffix[2]

LEMMA PrefixAndSuffix ==
    /\ Prefix \in Seq(Chars) /\ Len(Prefix) = 10 /\ Suffix \in Seq(Chars) /\ Len(Suffix) = 2
    /\ Prefix[10] = 63 /\ Suffix[1] = 63 /\ Suffix[2] = 61
BY DEF Prefix, Suffix, Chars

LEMMA ReverseIs ==
    ASSUME NEW s \in Seq(Chars)
    PROVE  /\ Reverse(s) \in Seq(Chars) /\ Len(Reverse(s)) = Len(s)
           /\ \A i \in 1 .. Len(s) : Reverse(s)[i] = s[(Len(s) - i) + 1]
<1>1. PICK n \in Nat : n = Len(s)
  OBVIOUS
<1>2. Reverse(s) = [i \in 1 .. n |-> s[(n - i) + 1]]
  BY <1>1 DEF Reverse
<1>3. \A i \in 1 .. n : s[(n - i) + 1] \in Chars
  BY <1>1
<1> QED BY <1>1, <1>2, <1>3

LEMMA MimeEncodedIs ==
    ASSUME NEW text \in Seq(Chars)
    PROVE  aoStrIsMimeEncoded(text) <=> Wrapped(text)
<1>1. PICK n \in Nat : n = Len(text)
  OBVIOUS
<1>2. IsPrefix(Prefix, text) <=> 10 <= n /\ \A i \in 1 .. 10 : Prefix[i] = text[i]
  <2>1. PICK q \in Seq(Chars) : q = Prefix /\ Len(q) = 10
    BY PrefixAndSuffix
  <2>2. IsPrefix(q, text) <=> Len(q) <= Len(text) /\ \A i \in 1 .. Len(q) : q[i] = text[i]
    BY PrefixIs
  <2> QED BY ONLY <1>1, <2>1, <2>2
<1>3. PICK u \in Seq(Chars), v \in Seq(Chars) : u = Reverse(Suffix) /\ v = Reverse(text)
  BY ReverseIs, PrefixAndSuffix
<1>4. Len(u) = 2 /\ u[1] = Suffix[2] /\ u[2] = Suffix[1]
  <2>1. PICK q \in Seq(Chars) : q = Suffix /\ Len(q) = 2
    BY PrefixAndSuffix
  <2>2. Len(u) = 2 /\ \A i \in 1 .. 2 : u[i] = q[(2 - i) + 1]
    <3>1. u = Reverse(q)
      BY <1>3, <2>1
    <3>2. Len(Reverse(q)) = Len(q) /\ \A i \in 1 .. Len(q) : Reverse(q)[i] = q[(Len(q) - i) + 1]
      BY ReverseIs
    <3> QED BY ONLY <2>1, <3>1, <3>2
  <2>3. 1 \in 1 .. 2 /\ 2 \in 1 .. 2 /\ (2 - 1) + 1 = 2 /\ (2 - 2) + 1 = 1
    OBVIOUS
  <2> QED BY ONLY <2>1, <2>2, <2>3
<1>5. Len(v) = n /\ \A i \in 1 .. n : v[i] = text[(n - i) + 1]
  BY <1>1, <1>3, ReverseIs
<1>6. IsSuffix(Suffix, text) <=> 2 <= n /\ \A i \in 1 .. 2 : u[i] = v[i]
  <2>1. IsPrefix(u, v) <=> Len(u) <= Len(v) /\ \A i \in 1 .. Len(u) : u[i] = v[i]
    BY PrefixIs
  <2> QED BY <1>3, <1>4, <1>5, <2>1 DEF IsSuffix
<1>7. ASSUME 2 <= n
      PROVE  (\A i \in 1 .. 2 : u[i] = v[i]) <=> Suffix[2] = text[n] /\ Suffix[1] = text[n - 1]
  <2>1. v[1] = text[n] /\ v[2] = text[n - 1]
    <3>1. 1 \in 1 .. n /\ 2 \in 1 .. n /\ (n - 1) + 1 = n /\ (n - 2) + 1 = n - 1
      BY <1>7
    <3> QED BY ONLY <1>5, <3>1
  <2>2. \A i \in 1 .. 2 : i = 1 \/ i = 2
    OBVIOUS
  <2>3. 1 \in 1 .. 2 /\ 2 \in 1 .. 2
    OBVIOUS
  <2> QED BY ONLY <1>4, <2>1, <2>2, <2>3
<1>8. aoStrIsMimeEncoded(text) <=>
         /\ 10 <= n /\ \A i \in 1 .. 10 : Prefix[i] = text[i]
         /\ Suffix[2] = text[n] /\ Suffix[1] = text[n - 1]
  BY <1>2, <1>6, <1>7 DEF aoStrIsMimeEncoded
<1>9. ASSUME n = 10 PROVE ~ (Prefix[10] = text[10] /\ Suffix[2] = text[n])
  BY <1>9, PrefixAndSuffix
<1> QED BY <1>1, <1>8, <1>9 DEF Wrapped

\* What is put between prefix and suffix is what is found there.
LEMMA EnclosedIs ==
    ASSUME NEW body \in Seq(Chars), NEW text, text = Prefix \o body \o Suffix
    PROVE  /\ text \in Seq(Chars) /\ Wrapped(text) /\ Len(text) = Len(body) + 12
           /\ SubSeq(text, 11, Len(text) - 2) = body
<1>1. PICK b \in Nat : b = Len(body)
  OBVIOUS
<1>2. PICK head \in Seq(Chars) : head = Pair(Prefix, body)
  BY PrefixAndSuffix, PairType
<1>3. Paired(head, Prefix, body)
  BY <1>2, PrefixAndSuffix, PairIs
<1>4. text = Pair(head, Suffix)
  BY <1>2 DEF Pair
<1>5. Paired(text, head, Suffix)
  BY ONLY <1>4, PrefixAndSuffix, head \in Seq(Chars), PairIs
<1>6. /\ Len(head) = 10 + b
      /\ \A i \in 1 .. 10 : head[i] = Prefix[i]
      /\ \A j \in 1 .. b : head[10 + j] = body[j]
  BY ONLY <1>1, <1>3, PrefixAndSuffix DEF Paired
<1>7. /\ text \in Seq(Chars) /\ Len(text) = (10 + b) + 2
      /\ \A i \in 1 .. 10 + b : text[i] = head[i]
      /\ \A j \in 1 .. 2 : text[(10 + b) + j] = Suffix[j]
  BY ONLY <1>5, <1>6, PrefixAndSuffix DEF Paired
<1>8. PICK n \in Nat : n = Len(text) /\ n = b + 12
  BY <1>7
<1>9. Wrapped(text)
  <2>1. \A i \in 1 .. 10 : text[i] = Prefix[i]
    <3>1. \A i \in 1 .. 10 : i \in 1 .. 10 + b
      OBVIOUS
    <3> QED BY ONLY <1>6, <1>7, <3>1
  <2>2. text[n - 1] = Suffix[1] /\ text[n] = Suffix[2]
    <3>1. 1 \in 1 .. 2 /\ 2 \in 1 .. 2 /\ n - 1 = (10 + b) + 1 /\ n = (10 + b) + 2
      BY <1>8
    <3> QED BY ONLY <1>7, <3>1
  <2>3. n >= 11
    BY <1>8
  <2> QED BY ONLY <1>8, <2>1, <2>2, <2>3 DEF Wrapped
<1>10. SubSeq(text, 11, n - 2) = body
  <2>1. n - 2 = 10 + b
    BY <1>8
  <2>2. PICK s : s = SubSeq(text, 11, 10 + b)
    OBVIOUS
  <2>3. \A i \in 11 .. 10 + b : text[i] \in Chars
    BY ONLY <1>7, b \in Nat
  <2>4. /\ s \in Seq(Chars) /\ Len(s) = b
        /\ \A i \in 1 .. b : s[i] = text[(11 + i) - 1]
    <3>1. PICK m \in Int, k \in Int : m = 11 /\ k = 10 + b
      OBVIOUS
    <3>2. \A i \in m .. k : text[i] \in Chars
      BY ONLY <2>3, <3>1
    <3>3. s = SubSeq(text, m, k)
      BY <2>2, <3>1
    <3>4. /\ s \in Seq(Chars) /\ Len(s) = IF m <= k THEN k - m + 1 ELSE 0
          /\ \A i \in 1 .. k - m + 1 : s[i] = text[m + i - 1]
      BY ONLY <3>2, <3>3, m \in Int, k \in Int, SubSeqProperties
    <3>5. (k - m) + 1 = b
      BY ONLY <3>1, b \in Nat
    <3> QED BY ONLY <3>1, <3>4, <3>5, b \in Nat
  <2>5. \A i \in 1 .. b : s[i] = body[i]
    <3>1. ASSUME NEW i \in 1 .. b PROVE s[i] = body[i]
      <4>1. (11 + i) - 1 = 10 + i /\ 10 + i \in 1 .. 10 + b
        OBVIOUS
      <4> QED BY <1>6, <1>7, <2>4, <4>1
    <3> QED BY <3>1
  <2>6. s = body
    BY ONLY <1>1, <2>4, <2>5, body \in Seq(Chars), SeqEqual
  <2> QED BY <2>1, <2>2, <2>6
<1> QED BY <1>1, <1>7, <1>8, <1>9, <1>10

\* The decoder comes to the beginning of each encoded character, and reads it.
LEMMA DecodingReads ==
    ASSUME NEW plain \in Seq(Chars \ {NUL}), NEW parts, NEW n \in Nat, n = Len(parts), n = Len(plain),
           \A i \in 1 .. n : parts[i] \in Encodings(plain[i])
    PROVE  Together(parts) \in Seq(Chars \ {NUL}) /\ decodeMimeEncoded(Together(parts)) = plain
<1>1. \A i \in 1 .. n : plain[i] \in Chars /\ plain[i] # NUL
  OBVIOUS
<1>2. \A i \in 1 .. n : parts[i] \in Seq(Chars \ {NUL}) /\ EncodedAs(plain[i], parts[i])
  BY <1>1, EncodingIs
<1>3. \A i \in 1 .. n : parts[i] \in Seq(Chars)
  <2>1. Chars \ {NUL} \subseteq Chars
    OBVIOUS
  <2> QED BY ONLY <1>2, <2>1, SeqMonotonic
<1>4. PICK s : s = Together(parts)
  OBVIOUS
<1>5. PICK p : s \in Seq(Chars \ {NUL}) /\ Laid(s, p, n, parts)
  BY <1>2, <1>4, TogetherLaid
<1>6. /\ s \in Seq(Chars) /\ p[0] = 1 /\ p[n] = Len(s) + 1
      /\ \A k \in 0 .. n : p[k] \in 1 .. Len(s) + 1
  BY <1>5 DEF Laid
<1>7. PICK l \in Nat : l = Len(s)
  BY <1>6
<1>8. PICK reads : reads = [i \in DOMAIN s |-> Decoded(s, i)]
  OBVIOUS
<1>9. l = Len(reads) /\ \A i \in 1 .. l : reads[i] = Decoded(s, i)
  <2>1. DOMAIN s = 1 .. l
    BY <1>6, <1>7
  <2>2. DOMAIN reads = 1 .. l
    BY <1>8, <2>1
  <2>3. Len(reads) = l
    BY ONLY <2>2, l \in Nat
  <2> QED BY <1>8, <2>1, <2>3
<1>10. ReadsIn(reads, l)
  BY <1>6, <1>7, <1>9, DecoderType DEF ReadsIn
<1>11. decodeMimeEncoded(s) = Transcribed(reads)
  BY <1>8 DEF decodeMimeEncoded
<1>12. ASSUME NEW k \in 1 .. n
       PROVE  /\ p[k - 1] \in 1 .. l /\ reads[p[k - 1]].char = plain[k]
              /\ p[k] = p[k - 1] + reads[p[k - 1]].used
  <2>1. PICK c \in Chars, w \in Seq(Chars) : c = plain[k] /\ w = parts[k] /\ EncodedAs(c, w)
    BY <1>1, <1>2, <1>3
  <2>2. PICK v \in Nat : v = Len(w)
    OBVIOUS
  <2>3. v >= 1
    BY <2>1, <2>2 DEF EncodedAs
  <2>4. PICK i \in 1 .. l + 1 : i = p[k - 1]
    <3>1. k - 1 \in 0 .. n
      OBVIOUS
    <3> QED BY <1>6, <1>7, <3>1
  <2>5. p[k] = i + v /\ \A j \in 1 .. v : s[(i + j) - 1] = w[j]
    BY <1>5, <2>1, <2>2, <2>4 DEF Laid
  <2>6. i + v <= l + 1
    <3>1. p[k] \in 1 .. l + 1
      BY <1>6, <1>7
    <3> QED BY <2>5, <3>1
  <2>7. i \in 1 .. l
    BY <2>3, <2>6
  <2>8. WrittenAt(s, i, w)
    BY <1>6, <1>7, <2>2, <2>5, <2>6, <2>7 DEF WrittenAt
  <2>9. Decoded(s, i).char = c /\ Decoded(s, i).used = Len(w)
    BY ONLY <2>1, <2>8, c \in Chars, w \in Seq(Chars), DecodedIs
  <2>10. reads[i] = Decoded(s, i)
    BY <1>9, <2>7
  <2>11. p[k] = i + v
    BY <2>5
  <2> QED BY ONLY <2>1, <2>2, <2>4, <2>7, <2>9, <2>10, <2>11
<1>13. Visits(p, n, l, reads)
  BY <1>6, <1>7, <1>12 DEF Visits
<1>14. \A k \in 1 .. n : plain[k] = reads[p[k - 1]].char
  BY <1>12
<1>15. PICK w : w = Transcribed(reads) /\ ReadsFirst(w, plain, n, p[n] = l + 1)
  BY ONLY <1>9, <1>10, <1>13, <1>14, n \in Nat, l \in Nat, TranscribedReads
<1>16. ReadsFirst(w, plain, n, TRUE)
  BY <1>6, <1>7, <1>15 DEF ReadsFirst
<1>17. plain \in Seq(Int)
  <2>1. Chars \ {NUL} \subseteq Int
    BY ONLY CharsAre
  <2> QED BY <2>1, SeqMonotonic
<1>18. w = plain
  BY ONLY <1>16, <1>17, n \in Nat, n = Len(plain), ReadsAll
<1> QED BY <1>4, <1>5, <1>11, <1>15, <1>18

\* A text is given back however each of its characters is encoded; and a word that has
\* the prefix and the suffix has something between them, unless they share a character.
THEOREM DecodingGivesBack == CallsSpec => []MimeReadsBack
<1>1. CallsInv => MimeReadsBack
  <2>1. SUFFICES ASSUME CallsInv, Of("decode") PROVE MimeReadsBack
    BY DEF MimeReadsBack
  <2>2. PICK text \in Seq(Chars) : text = call.text
    BY <2>1, ArgumentsAssumption DEF CallsInv, Of
  <2>3. PICK n \in Nat : n = Len(text)
    OBVIOUS
  <2>4. Enclosed(text) = n - 12
    BY <2>3, PrefixAndSuffix DEF Enclosed
  <2>5. aoStrIsMimeEncoded(text) => Enclosed(text) >= 0 \/ Len(text) = Len(Prefix) + 1
    <3>1. SUFFICES ASSUME aoStrIsMimeEncoded(text) PROVE n >= 12 \/ n = 11
      BY <2>3, <2>4, PrefixAndSuffix
    <3>2. n >= 11
      BY <2>3, <3>1, MimeEncodedIs DEF Wrapped
    <3> QED BY <3>2
  <2>6. ASSUME Encodes(text, call.plain, call.parts) PROVE result[1] = call.plain
    <3>1. PICK plain, parts :
             /\ plain \in Seq(Chars \ {NUL}) /\ plain = call.plain /\ parts = call.parts /\ parts \in Seq(Seq(Chars))
             /\ Len(parts) = Len(plain)
             /\ \A i \in DOMAIN parts : parts[i] \in Encodings(plain[i])
             /\ text = Prefix \o Together(parts) \o Suffix
      BY <2>6 DEF Encodes
    <3>2. PICK m \in Nat : m = Len(parts) /\ m = Len(plain) /\ DOMAIN parts = 1 .. m
      BY <3>1
    <3>3. PICK body : body = Together(parts)
      OBVIOUS
    <3>4. body \in Seq(Chars \ {NUL}) /\ decodeMimeEncoded(body) = plain
      BY <3>1, <3>2, <3>3, DecodingReads
    <3>5. body \in Seq(Chars)
      <4>1. Chars \ {NUL} \subseteq Chars
        OBVIOUS
      <4> QED BY ONLY <3>4, <4>1, SeqMonotonic
    <3>6. CString(body) = body
      <4>1. NUL \notin ToSet(body)
        BY <3>4 DEF ToSet
      <4> QED BY <4>1 DEF CString
    <3>7. text = Prefix \o body \o Suffix
      BY <3>1, <3>3
    <3>8. Wrapped(text) /\ Len(text) = Len(body) + 12 /\ SubSeq(text, 11, Len(text) - 2) = body
      BY ONLY <3>5, <3>7, EnclosedIs
    <3>9. aoStrIsMimeEncoded(text)
      BY <3>8, MimeEncodedIs
    <3>10. Enclosed(text) >= 0
      <4>1. PICK b \in Nat : b = Len(body)
        BY <3>5
      <4>2. n = b + 12
        BY <2>3, <3>8, <4>1
      <4> QED BY <2>4, <4>2
    <3>11. result[1] = aoStrDecodeMimeEncodedInplace(text)
      BY <2>1, <2>2, <3>9, <3>10 DEF CallsInv, Of, Returned
    <3>12. aoStrDecodeMimeEncodedInplace(text) = plain
      <4>1. Len(Prefix) + 1 = 11 /\ Len(Suffix) = 2
        BY PrefixAndSuffix
      <4>2. aoStrDecodeMimeEncodedInplace(text)
               = decodeMimeEncoded(CString(SubSeq(text, Len(Prefix) + 1, Len(text) - Len(Suffix))))
        BY DEF aoStrDecodeMimeEncodedInplace
      <4> QED BY ONLY <3>4, <3>6, <3>8, <4>1, <4>2
    <3> QED BY ONLY <3>1, <3>11, <3>12
  <2> QED BY ONLY <2>2, <2>5, <2>6 DEF MimeReadsBack
<1> QED BY <1>1, CallsInvariance, PTL

-----------------------------------------------------------------------------
(* The capacity of a map.                                                   *)

Recurs(f, n, a, F) == f[0] = a /\ \A i \in 1 .. n : f[i] = F[i][f[i - 1]]

\* A function that is defined from one number to the next exists.
LEMMA Recursion ==
    ASSUME NEW n \in Nat, NEW S, NEW a \in S, NEW F \in [1 .. n -> [S -> S]]
    PROVE  \E f \in [0 .. n -> S] : Recurs(f, n, a, F)
<1> DEFINE P == {m \in 0 .. n : \E f \in [0 .. m -> S] : Recurs(f, m, a, F)}
<1>1. 0 \in P
  <2>1. PICK f \in [0 .. 0 -> S] : f[0] = a
    <3>1. [i \in 0 .. 0 |-> a] \in [0 .. 0 -> S] /\ [i \in 0 .. 0 |-> a][0] = a
      OBVIOUS
    <3> QED BY <3>1
  <2>2. \A i \in 1 .. 0 : f[i] = F[i][f[i - 1]]
    OBVIOUS
  <2> QED BY <2>1, <2>2 DEF Recurs
<1>2. ASSUME NEW m \in 1 .. n, m - 1 \in P PROVE m \in P
  <2>1. PICK f \in [0 .. m - 1 -> S] : Recurs(f, m - 1, a, F)
    BY <1>2
  <2>2. PICK y \in S : y = F[m][f[m - 1]]
    OBVIOUS
  <2> DEFINE g == [i \in 0 .. m |-> IF i = m THEN y ELSE f[i]]
  <2>3. g \in [0 .. m -> S] /\ g[m] = y
    OBVIOUS
  <2>6. \A i \in 0 .. m - 1 : g[i] = f[i]
    OBVIOUS
  <2> HIDE DEF g
  <2>4. g[0] = a
    <3>1. f[0] = a
      BY ONLY <2>1 DEF Recurs
    <3> QED BY <2>6, <3>1
  <2>5. ASSUME NEW i \in 1 .. m PROVE g[i] = F[i][g[i - 1]]
    <3>1. g[i - 1] = f[i - 1]
      BY <2>6
    <3>2. CASE i = m
      BY <2>2, <2>3, <3>1, <3>2
    <3>3. CASE i # m
      <4>1. i \in 1 .. m - 1 /\ i \in 0 .. m - 1
        BY <3>3
      <4>2. f[i] = F[i][f[i - 1]]
        BY ONLY <2>1, <4>1 DEF Recurs
      <4>3. g[i] = f[i]
        BY ONLY <2>6, <4>1
      <4> QED BY ONLY <3>1, <4>2, <4>3, Zenon
    <3> QED BY <3>2, <3>3
  <2>7. Recurs(g, m, a, F)
    BY ONLY <2>4, <2>5 DEF Recurs
  <2> QED BY <2>3, <2>7
<1> HIDE DEF P
<1>3. \A m \in 0 .. n : m \in P
  BY <1>1, <1>2, UpTo
<1>4. n \in P
  BY <1>3
<1> QED BY <1>4 DEF P

LEMMA PowerIs ==
    /\ Power[0] = 1
    /\ \A i \in 1 .. Width : Power[i] = 2 * Power[i - 1]
    /\ \A i \in 0 .. Width : Power[i] \in Nat \ {0}
<1> DEFINE p == CHOOSE g : g = [i \in 0 .. Width |-> IF i = 0 THEN 1 ELSE 2 * g[i - 1]]
           F == [i \in 1 .. Width |-> [x \in Nat |-> 2 * x]]
           P == {i \in 0 .. Width : p[i] \in Nat \ {0}}
<1>0. Width \in Nat
  BY RoundUpAssumption
<1>1. Power = p
  BY DEF Power
<1>2. \E g : g = [i \in 0 .. Width |-> IF i = 0 THEN 1 ELSE 2 * g[i - 1]]
  <2>1. F \in [1 .. Width -> [Nat -> Nat]]
    OBVIOUS
  <2>2. PICK f \in [0 .. Width -> Nat] : f[0] = 1 /\ \A i \in 1 .. Width : f[i] = F[i][f[i - 1]]
    <3> HIDE DEF F
    <3>1. PICK S : S = Nat
      OBVIOUS
    <3>2. PICK n \in Nat, a \in S : n = Width /\ a = 1
      BY <1>0, <3>1
    <3>3. F \in [1 .. n -> [S -> S]]
      BY <2>1, <3>1, <3>2
    <3>4. \E f \in [0 .. n -> S] : Recurs(f, n, a, F)
      BY ONLY <3>3, n \in Nat, a \in S, Recursion
    <3> QED BY ONLY <3>1, <3>2, <3>4 DEF Recurs
  <2>3. ASSUME NEW i \in 0 .. Width PROVE f[i] = IF i = 0 THEN 1 ELSE 2 * f[i - 1]
    <3>1. CASE i = 0
      BY <2>2, <3>1
    <3>2. CASE i # 0
      <4>1. i \in 1 .. Width /\ i - 1 \in 0 .. Width
        BY <1>0, <3>2
      <4>2. F[i][f[i - 1]] = 2 * f[i - 1]
        BY <4>1
      <4> HIDE DEF F
      <4> QED BY <2>2, <3>2, <4>1, <4>2
    <3> QED BY <3>1, <3>2
  <2>4. f = [i \in 0 .. Width |-> IF i = 0 THEN 1 ELSE 2 * f[i - 1]]
    BY <2>3
  <2> QED BY <2>4
<1> HIDE DEF p
<1>3. p = [i \in 0 .. Width |-> IF i = 0 THEN 1 ELSE 2 * p[i - 1]]
  BY <1>2 DEF p
<1>4. p[0] = 1
  BY <1>0, <1>3
<1>5. \A i \in 1 .. Width : p[i] = 2 * p[i - 1]
  BY <1>0, <1>3
<1>6. 0 \in P
  BY <1>0, <1>4
<1>7. ASSUME NEW i \in 1 .. Width, i - 1 \in P PROVE i \in P
  <2>1. p[i - 1] \in Nat \ {0} /\ p[i] = 2 * p[i - 1] /\ i \in 0 .. Width
    BY <1>0, <1>5, <1>7
  <2> QED BY <2>1
<1> HIDE DEF P
<1>8. \A i \in 0 .. Width : i \in P
  BY <1>0, <1>6, <1>7, UpTo
<1> QED BY <1>1, <1>4, <1>5, <1>8 DEF P

LEMMA PowerGrows ==
    ASSUME NEW i \in 0 .. Width, NEW j \in i .. Width
    PROVE  Power[i] <= Power[j] /\ (i # j => 2 * Power[i] <= Power[j])
<1> DEFINE P == {k \in 0 .. Width : \A h \in 0 .. k : Power[h] <= Power[k]}
<1>0. Width \in Nat
  BY RoundUpAssumption
<1>1. 0 \in P
  BY <1>0, PowerIs
<1>2. ASSUME NEW k \in 1 .. Width, k - 1 \in P PROVE k \in P
  <2>1. PICK x \in Nat : x = Power[k - 1]
    <3>1. k - 1 \in 0 .. Width
      BY <1>0
    <3> QED BY <3>1, PowerIs
  <2>2. Power[k] = 2 * x /\ k \in 0 .. Width
    BY <1>0, <2>1, PowerIs
  <2>3. ASSUME NEW h \in 0 .. k PROVE Power[h] <= Power[k]
    <3>1. CASE h = k
      BY <2>2, <3>1
    <3>2. CASE h # k
      <4>1. h \in 0 .. k - 1 /\ h \in 0 .. Width
        BY <1>0, <3>2
      <4>2. Power[h] <= x
        BY <1>2, <2>1, <4>1
      <4>3. Power[h] \in Nat
        BY <4>1, PowerIs
      <4> QED BY <2>2, <4>2, <4>3
    <3> QED BY <3>1, <3>2
  <2> QED BY <2>2, <2>3
<1> HIDE DEF P
<1>3. \A k \in 0 .. Width : k \in P
  BY <1>0, <1>1, <1>2, UpTo
<1>4. \A k \in 0 .. Width : \A h \in 0 .. k : Power[h] <= Power[k]
  BY <1>3 DEF P
<1>5. j \in 0 .. Width /\ i \in 0 .. j
  BY <1>0
<1>6. ASSUME i # j PROVE 2 * Power[i] <= Power[j]
  <2>1. i + 1 \in 1 .. Width /\ i + 1 \in 0 .. j /\ (i + 1) - 1 = i
    BY <1>0, <1>5, <1>6
  <2>2. Power[i + 1] = 2 * Power[i]
    BY <2>1, PowerIs
  <2> QED BY <1>4, <1>5, <2>1, <2>2
<1> QED BY <1>4, <1>5, <1>6

\* The only quotient and remainder.
LEMMA Quotient ==
    ASSUME NEW d \in Nat \ {0}, NEW q \in Int, NEW r \in 0 .. d - 1, NEW m, m = q * d + r
    PROVE  m \in Int /\ m \div d = q /\ m % d = r
<1>1. m \in Int
  <2>1. q * d \in Int
    OBVIOUS
  <2> QED BY <2>1
<1>2. PICK p \in Int, s \in 0 .. d - 1 : p = m \div d /\ s = m % d /\ m = d * p + s
  <2>1. m = d * (m \div d) + (m % d) /\ m % d \in 0 .. d - 1 /\ m \div d \in Int
    BY <1>1
  <2> QED BY <2>1
<1>3. PICK e \in Int : e = q - p
  OBVIOUS
<1>4. d * e = s - r
  <2>1. d * e = d * q - d * p
    BY <1>3
  <2>2. q * d = d * q
    OBVIOUS
  <2>3. PICK x \in Int, y \in Int : x = d * q /\ y = d * p
    OBVIOUS
  <2> QED BY <1>2, <2>1, <2>2, <2>3
<1>5. ~ e >= 1
  <2>1. SUFFICES ASSUME e >= 1 PROVE FALSE
    OBVIOUS
  <2>2. d * e >= d
    BY <2>1
  <2> QED BY <1>4, <2>2
<1>6. ~ e <= -1
  <2>1. SUFFICES ASSUME NEW c \in Nat \ {0}, e = -c PROVE FALSE
    <3>1. e <= -1 => -e \in Nat \ {0} /\ e = -(-e)
      OBVIOUS
    <3> QED BY <2>1, <3>1
  <2>2. d * c >= d
    OBVIOUS
  <2>3. d * e = -(d * c)
    BY <2>1
  <2>4. PICK x \in Nat : x = d * c
    OBVIOUS
  <2> QED BY <1>4, <2>2, <2>3, <2>4
<1>7. e = 0
  BY <1>5, <1>6
<1>8. q = p
  BY <1>3, <1>7
<1>9. s = r
  <2>1. d * e = 0
    BY <1>7
  <2> QED BY <1>4, <2>1
<1> QED BY <1>1, <1>2, <1>8, <1>9

DividedBy(m, d, q, r) == m = q * d + r /\ q = m \div d /\ r = m % d

LEMMA Remainder ==
    ASSUME NEW d \in Nat \ {0}, NEW m \in Nat
    PROVE  \E q \in Nat, r \in 0 .. d - 1 : DividedBy(m, d, q, r)
<1>1. m = d * (m \div d) + (m % d) /\ m % d \in 0 .. d - 1 /\ m \div d \in Int
  OBVIOUS
<1>2. PICK q \in Int, r \in 0 .. d - 1 : q = m \div d /\ r = m % d /\ m = d * q + r
  BY <1>1
<1>3. q >= 0
  <2>1. SUFFICES ASSUME NEW c \in Nat \ {0}, q = -c PROVE FALSE
    <3>1. q < 0 => -q \in Nat \ {0} /\ q = -(-q)
      OBVIOUS
    <3> QED BY <2>1, <3>1
  <2>2. d * c >= d
    OBVIOUS
  <2>3. d * q = -(d * c)
    BY <2>1
  <2>4. PICK x \in Nat : x = d * c
    OBVIOUS
  <2> QED BY <1>2, <2>2, <2>3, <2>4
<1>4. d * q = q * d
  OBVIOUS
<1>5. DividedBy(m, d, q, r)
  BY <1>2, <1>4 DEF DividedBy
<1>6. q \in Nat
  BY <1>3
<1> QED BY <1>5, <1>6

\* The bits of a number are those below the first power of two above it, and the last
\* of these is among them.
Length(n, k) ==
    /\ n < Power[k] /\ Bits(n) \subseteq 0 .. k - 1
    /\ k > 0 => k - 1 \in Bits(n) /\ Power[k - 1] <= n

LEMMA LengthIs ==
    ASSUME NEW n \in Unsigned
    PROVE  \E k \in 0 .. Width : Length(n, k)
<1> DEFINE K == {i \in 0 .. Width : n < Power[i]}
<1>0. Width \in Nat /\ n \in Nat /\ n < Power[Width]
  <2>1. Width \in Nat
    BY RoundUpAssumption
  <2>2. Power[Width] \in Nat
    BY <2>1, PowerIs
  <2> QED BY <2>1, <2>2 DEF Unsigned
<1>1. PICK k \in K : \A i \in K : k <= i
  <2>1. K \in SUBSET Nat /\ K # {}
    BY <1>0
  <2> HIDE DEF K
  <2> QED BY <2>1, LeastNatural
<1>2. k \in 0 .. Width /\ n < Power[k]
  OBVIOUS
<1>3. ASSUME NEW i \in Bits(n) PROVE i \in 0 .. k - 1
  <2>1. i \in 0 .. Width - 1 /\ i \in 0 .. Width /\ (n \div Power[i]) % 2 = 1
    BY <1>0 DEF Bits
  <2>2. CASE k <= i
    <3>1. Power[k] <= Power[i]
      BY <1>0, <1>2, <2>1, <2>2, PowerGrows
    <3>2. PICK d \in Nat \ {0} : d = Power[i] /\ n < d
      BY <1>0, <1>2, <2>1, <3>1, PowerIs
    <3>3. PICK q \in Int, r \in 0 .. d - 1 : q = 0 /\ r = n /\ n = q * d + r
      BY <1>0, <3>2
    <3>4. n \div d = 0
      BY ONLY <3>3, d \in Nat \ {0}, Quotient
    <3> QED BY <2>1, <3>2, <3>4
  <2>3. CASE ~ k <= i
    BY <1>2, <2>1, <2>3
  <2> QED BY <2>2, <2>3
<1>4. ASSUME k > 0 PROVE k - 1 \in Bits(n) /\ Power[k - 1] <= n
  <2>1. PICK h \in 0 .. Width - 1 : h = k - 1 /\ k = h + 1 /\ h \in 0 .. Width /\ k \in 1 .. Width
    BY <1>0, <1>2, <1>4
  <2>2. PICK d \in Nat \ {0} : d = Power[h]
    BY <2>1, PowerIs
  <2>3. Power[k] = 2 * d
    BY <2>1, <2>2, PowerIs
  <2>4. d <= n
    <3>1. h \notin K
      BY <1>1, <1>2, <2>1
    <3> QED BY <1>0, <2>1, <2>2, <3>1
  <2>5. PICK q \in Int, r \in 0 .. d - 1 : q = 1 /\ r = n - d
    BY <1>0, <1>2, <2>3, <2>4
  <2>6. n = q * d + r
    BY <1>0, <2>5
  <2>7. n \div d = 1
    BY ONLY <2>5, <2>6, d \in Nat \ {0}, Quotient
  <2>8. h \in Bits(n)
    BY <2>2, <2>7 DEF Bits
  <2> QED BY <2>1, <2>2, <2>4, <2>8
<1>5. Length(n, k)
  BY <1>2, <1>3, <1>4 DEF Length
<1> QED BY <1>2, <1>5

\* The sum that OfBits takes.
Sums(f, bits) ==
    f = [i \in 0 .. Width |->
            IF i = 0 THEN 0 ELSE f[i - 1] + IF i - 1 \in bits THEN Power[i - 1] ELSE 0]

LEMMA OfBitsIs ==
    ASSUME NEW bits, NEW v, Sums(v, bits)
    PROVE  OfBits(bits) = v[Width]
<1> DEFINE sum == CHOOSE f : f = [i \in 0 .. Width |->
                IF i = 0 THEN 0 ELSE f[i - 1] + IF i - 1 \in bits THEN Power[i - 1] ELSE 0]
           P == {i \in 0 .. Width : sum[i] = v[i]}
<1>0. Width \in Nat
  BY RoundUpAssumption
<1>1. OfBits(bits) = sum[Width]
  BY DEF OfBits
<1>2. sum = CHOOSE f : Sums(f, bits)
  BY DEF Sums
<1> HIDE DEF sum
<1>3. Sums(sum, bits)
  BY <1>2
<1>4. 0 \in P
  BY <1>0, <1>3 DEF Sums
<1>5. ASSUME NEW i \in 1 .. Width, i - 1 \in P PROVE i \in P
  <2>1. i \in 0 .. Width /\ i # 0
    BY <1>0
  <2>2. sum[i] = sum[i - 1] + IF i - 1 \in bits THEN Power[i - 1] ELSE 0
    BY <1>3, <2>1 DEF Sums
  <2>3. v[i] = v[i - 1] + IF i - 1 \in bits THEN Power[i - 1] ELSE 0
    BY <2>1 DEF Sums
  <2> QED BY <1>5, <2>1, <2>2, <2>3
<1> HIDE DEF P
<1>6. \A i \in 0 .. Width : i \in P
  BY <1>0, <1>4, <1>5, UpTo
<1> QED BY <1>0, <1>1, <1>6 DEF P

\* The first k bits together.
LEMMA AllBits ==
    ASSUME NEW k \in 0 .. Width
    PROVE  OfBits(0 .. k - 1) = Power[k] - 1
<1> DEFINE v == [i \in 0 .. Width |-> IF i <= k THEN Power[i] - 1 ELSE Power[k] - 1]
<1>0. Width \in Nat /\ k \in Nat
  BY RoundUpAssumption
<1>1. ASSUME NEW i \in 0 .. Width
      PROVE  v[i] = IF i = 0 THEN 0
                    ELSE v[i - 1] + IF i - 1 \in 0 .. k - 1 THEN Power[i - 1] ELSE 0
  <2>1. CASE i = 0
    <3>1. v[i] = Power[i] - 1
      BY <1>0, <2>1
    <3> HIDE DEF v
    <3> QED BY <2>1, <3>1, PowerIs
  <2>2. CASE i # 0
    <3>1. PICK h \in 0 .. Width : h = i - 1 /\ i = h + 1 /\ i \in 1 .. Width
      BY <1>0, <2>2
    <3>2. PICK x \in Nat, y \in Nat : x = Power[h] /\ y = Power[k]
      BY <3>1, PowerIs
    <3>3. Power[i] = 2 * x
      BY <3>1, <3>2, PowerIs
    <3>4. CASE h < k
      <4>1. v[i] = Power[i] - 1 /\ v[h] = Power[h] - 1
        BY <1>0, <3>1, <3>4
      <4>2. h \in 0 .. k - 1
        BY <1>0, <3>4
      <4> HIDE DEF v
      <4> QED BY <2>2, <3>1, <3>2, <3>3, <4>1, <4>2
    <3>5. CASE ~ h < k
      <4>1. v[i] = Power[k] - 1 /\ v[h] = Power[k] - 1
        <5>1. h = k \/ ~ h <= k
          BY <1>0, <3>5
        <5>2. ~ i <= k
          BY <1>0, <3>1, <3>5
        <5> QED BY <5>1, <5>2
      <4>2. h \notin 0 .. k - 1
        BY <1>0, <3>5
      <4> HIDE DEF v
      <4> QED BY <2>2, <3>1, <3>2, <4>1, <4>2
    <3> QED BY <3>4, <3>5
  <2> QED BY <2>1, <2>2
<1>2. v = [i \in 0 .. Width |-> v[i]]
  OBVIOUS
<1>3. v[Width] = Power[k] - 1
  <2>1. Width = k \/ ~ Width <= k
    BY <1>0
  <2> QED BY <1>0, <2>1
<1> HIDE DEF v
<1>4. Sums(v, 0 .. k - 1)
  BY <1>1, <1>2 DEF Sums
<1> QED BY <1>3, <1>4, OfBitsIs

LEMMA NextBit ==
    ASSUME NEW n \in Nat, NEW d \in Nat \ {0}
    PROVE  n % (2 * d) = (n % d) + IF (n \div d) % 2 = 1 THEN d ELSE 0
<1>1. PICK q \in Nat, r \in 0 .. d - 1 : DividedBy(n, d, q, r)
  BY Remainder
<1>2. PICK two \in Nat \ {0} : two = 2
  OBVIOUS
<1>3. PICK p \in Nat, b \in 0 .. two - 1 : DividedBy(q, two, p, b)
  BY Remainder
<1>4. n = q * d + r /\ q = n \div d /\ r = n % d
  BY <1>1 DEF DividedBy
<1>5. q = p * 2 + b /\ b = q % 2 /\ b \in 0 .. 1
  BY <1>2, <1>3 DEF DividedBy
<1>6. PICK c \in Nat \ {0} : c = 2 * d
  OBVIOUS
<1>7. CASE b = 0
  <2>1. q * d = p * c
    <3>1. q = p * 2
      BY <1>5, <1>7
    <3>2. (p * 2) * d = p * (2 * d)
      OBVIOUS
    <3> QED BY <1>6, <3>1, <3>2
  <2>2. n = p * c + r /\ r \in 0 .. c - 1
    BY <1>4, <1>6, <2>1
  <2>3. n % c = r
    BY ONLY <2>2, p \in Nat, c \in Nat \ {0}, Quotient
  <2> QED BY <1>4, <1>5, <1>6, <1>7, <2>3
<1>8. CASE b = 1
  <2>1. q * d = p * c + d
    <3>1. q = p * 2 + 1
      BY <1>5, <1>8
    <3>2. (p * 2 + 1) * d = p * (2 * d) + d
      OBVIOUS
    <3> QED BY <1>6, <3>1, <3>2
  <2>2. PICK s \in 0 .. c - 1 : s = d + r
    BY <1>6
  <2>3. n = p * c + s
    <3>1. PICK x \in Nat : x = p * c
      OBVIOUS
    <3> QED BY <1>4, <2>1, <2>2, <3>1
  <2>4. n % c = s
    BY ONLY <2>3, p \in Nat, s \in 0 .. c - 1, c \in Nat \ {0}, Quotient
  <2> QED BY <1>4, <1>5, <1>6, <1>8, <2>2, <2>4
<1> QED BY <1>5, <1>7, <1>8

\* The first k bits of a number are those of its remainder.
LEMMA LowBits ==
    ASSUME NEW n \in Unsigned, NEW k \in 0 .. Width
    PROVE  OfBits(Bits(n) \cap 0 .. k - 1) = n % Power[k]
<1> DEFINE bits == Bits(n) \cap 0 .. k - 1
           v == [i \in 0 .. Width |-> IF i <= k THEN n % Power[i] ELSE n % Power[k]]
<1>0. Width \in Nat /\ k \in Nat /\ n \in Nat
  <2>1. Width \in Nat
    BY RoundUpAssumption
  <2>2. Power[Width] \in Nat
    BY <2>1, PowerIs
  <2> QED BY <2>1, <2>2 DEF Unsigned
<1>1. ASSUME NEW i \in 0 .. Width PROVE n % Power[i] \in Nat
  <2>1. PICK d \in Nat \ {0} : d = Power[i]
    BY PowerIs
  <2>2. PICK q \in Nat, r \in 0 .. d - 1 : DividedBy(n, d, q, r)
    BY <1>0, Remainder
  <2> QED BY <2>1, <2>2 DEF DividedBy
<1>2. ASSUME NEW i \in 0 .. Width
      PROVE  v[i] = IF i = 0 THEN 0 ELSE v[i - 1] + IF i - 1 \in bits THEN Power[i - 1] ELSE 0
  <2>1. CASE i = 0
    <3>1. v[i] = n % Power[0]
      BY <1>0, <2>1
    <3>2. PICK d \in Nat \ {0} : d = Power[0] /\ d = 1
      BY <1>0, PowerIs
    <3>3. PICK q \in Nat, r \in 0 .. d - 1 : DividedBy(n, d, q, r)
      BY <1>0, Remainder
    <3>4. n % Power[0] = 0
      BY <3>2, <3>3 DEF DividedBy
    <3> HIDE DEF v
    <3> QED BY <2>1, <3>1, <3>4
  <2>2. CASE i # 0
    <3>1. PICK h \in 0 .. Width - 1 : h = i - 1 /\ i = h + 1 /\ i \in 1 .. Width /\ h \in 0 .. Width
      BY <1>0, <2>2
    <3>2. CASE h < k
      <4>1. v[i] = n % Power[i] /\ v[h] = n % Power[h]
        BY <1>0, <3>1, <3>2
      <4>2. PICK d \in Nat \ {0} : d = Power[h]
        BY <3>1, PowerIs
      <4>3. Power[i] = 2 * d
        BY <3>1, <4>2, PowerIs
      <4>4. n % (2 * d) = (n % d) + IF (n \div d) % 2 = 1 THEN d ELSE 0
        BY <1>0, NextBit
      <4>5. h \in bits <=> (n \div d) % 2 = 1
        BY <1>0, <3>1, <3>2, <4>2 DEF Bits
      <4> HIDE DEF v, bits
      <4> QED BY <2>2, <3>1, <4>1, <4>2, <4>3, <4>4, <4>5
    <3>3. CASE ~ h < k
      <4>1. v[i] = n % Power[k] /\ v[h] = n % Power[k]
        <5>1. h = k \/ ~ h <= k
          BY <1>0, <3>3
        <5>2. ~ i <= k
          BY <1>0, <3>1, <3>3
        <5> QED BY <3>1, <5>1, <5>2
      <4>2. h \notin bits
        BY <1>0, <3>3
      <4>3. n % Power[k] \in Nat
        BY <1>1
      <4> HIDE DEF v, bits
      <4> QED BY <2>2, <3>1, <4>1, <4>2, <4>3
    <3> QED BY <3>2, <3>3
  <2> QED BY <2>1, <2>2
<1>3. v = [i \in 0 .. Width |-> v[i]]
  OBVIOUS
<1>4. v[Width] = n % Power[k]
  <2>1. Width = k \/ ~ Width <= k
    BY <1>0
  <2> QED BY <1>0, <2>1
<1> HIDE DEF v, bits
<1>5. Sums(v, bits)
  BY <1>2, <1>3 DEF Sums
<1>6. OfBits(bits) = n % Power[k]
  BY <1>4, <1>5, OfBitsIs
<1> QED BY <1>6 DEF bits

LEMMA PowerDivides ==
    ASSUME NEW i \in 0 .. Width, NEW j \in i + 1 .. Width
    PROVE  \E q \in Nat : Power[j] = (q + 1) * (2 * Power[i])
<1> DEFINE P == {k \in 0 .. Width : k > i => \E q \in Nat : Power[k] = (q + 1) * (2 * Power[i])}
<1>0. Width \in Nat /\ i \in Nat
  BY RoundUpAssumption
<1>1. PICK d \in Nat \ {0} : d = Power[i]
  BY PowerIs
<1>2. 0 \in P
  BY <1>0
<1>3. ASSUME NEW k \in 1 .. Width, k - 1 \in P PROVE k \in P
  <2>1. PICK h \in 0 .. Width : h = k - 1 /\ k = h + 1 /\ k \in 0 .. Width
    BY <1>0
  <2>2. Power[k] = 2 * Power[h]
    BY <2>1, PowerIs
  <2>3. CASE h < i
    BY <2>1, <2>3
  <2>4. CASE h = i
    <3>1. Power[k] = (0 + 1) * (2 * Power[i])
      BY <1>1, <2>2, <2>4
    <3> QED BY <2>1, <3>1
  <2>5. CASE h > i
    <3>1. PICK q \in Nat : Power[h] = (q + 1) * (2 * Power[i])
      BY <1>3, <2>1, <2>5
    <3>2. 2 * ((q + 1) * (2 * d)) = ((2 * q + 1) + 1) * (2 * d)
      OBVIOUS
    <3>3. Power[k] = ((2 * q + 1) + 1) * (2 * Power[i])
      BY <1>1, <2>2, <3>1, <3>2
    <3>4. 2 * q + 1 \in Nat
      OBVIOUS
    <3> QED BY <2>1, <3>3, <3>4
  <2> QED BY <2>1, <2>3, <2>4, <2>5
<1> HIDE DEF P
<1>4. \A k \in 0 .. Width : k \in P
  BY <1>0, <1>2, <1>3, UpTo
<1>5. j \in P /\ j > i
  BY <1>0, <1>4
<1> QED BY <1>5 DEF P

\* The bits of a power of two less one.
LEMMA MaskBits ==
    ASSUME NEW k \in 0 .. Width
    PROVE  Bits(Power[k] - 1) = 0 .. k - 1
<1>0. Width \in Nat /\ k \in Nat
  BY RoundUpAssumption
<1>1. PICK c \in Nat \ {0} : c = Power[k]
  BY PowerIs
<1>2. ASSUME NEW i \in 0 .. Width - 1, i < k PROVE ((c - 1) \div Power[i]) % 2 = 1
  <2>1. PICK d \in Nat \ {0} : d = Power[i]
    <3>1. i \in 0 .. Width
      BY <1>0
    <3> QED BY <3>1, PowerIs
  <2>2. PICK q \in Nat : c = (q + 1) * (2 * d)
    <3>1. i \in 0 .. Width /\ k \in i + 1 .. Width
      BY <1>0, <1>2
    <3> QED BY <1>1, <2>1, <3>1, PowerDivides
  <2>3. PICK p \in Int, r \in 0 .. d - 1 : p = q * 2 + 1 /\ r = d - 1
    OBVIOUS
  <2>4. c - 1 = p * d + r
    <3>1. (q + 1) * (2 * d) = (q * 2 + 1) * d + d
      OBVIOUS
    <3>2. PICK x \in Int : x = p * d
      OBVIOUS
    <3> QED BY <2>2, <2>3, <3>1, <3>2
  <2>5. (c - 1) \div d = p
    BY ONLY <2>4, d \in Nat \ {0}, p \in Int, r \in 0 .. d - 1, Quotient
  <2>6. p % 2 = 1
    BY ONLY <2>3, q \in Nat
  <2> QED BY ONLY <2>1, <2>5, <2>6
<1>3. ASSUME NEW i \in 0 .. Width - 1, ~ i < k PROVE ((c - 1) \div Power[i]) % 2 # 1
  <2>1. PICK d \in Nat \ {0} : d = Power[i] /\ c <= d
    <3>1. i \in 0 .. Width /\ i \in k .. Width
      BY <1>0, <1>3
    <3> QED BY <1>1, <3>1, PowerIs, PowerGrows
  <2>2. PICK r \in 0 .. d - 1 : r = c - 1
    BY <2>1
  <2>3. c - 1 = 0 * d + r
    BY <2>2
  <2>4. (c - 1) \div d = 0
    BY <2>3, Quotient
  <2> QED BY <2>1, <2>4
<1>4. \A i \in 0 .. Width - 1 : i \in Bits(c - 1) <=> i \in 0 .. k - 1
  <2>1. \A i \in 0 .. Width - 1 : i \in 0 .. k - 1 <=> i < k
    BY <1>0
  <2>2. \A i \in 0 .. Width - 1 : i \in Bits(c - 1) <=> ((c - 1) \div Power[i]) % 2 = 1
    BY DEF Bits
  <2> QED BY <1>2, <1>3, <2>1, <2>2
<1>5. Bits(c - 1) \subseteq 0 .. Width - 1 /\ 0 .. k - 1 \subseteq 0 .. Width - 1
  BY <1>0 DEF Bits
<1> QED BY <1>1, <1>4, <1>5

\* What roundup32bit has of the bits after some of its shifts.
LEMMA ShiftsFill ==
    ASSUME NEW n, NEW k \in 0 .. Width, Length(n, k), NEW f,
           f[0] = Bits(n), \A j \in 1 .. Shifts : f[j] = Smeared(f[j - 1], Power[j - 1])
    PROVE  f[Shifts] = 0 .. k - 1
<1> DEFINE P == {j \in 0 .. Shifts :
                    f[j] \subseteq 0 .. k - 1 /\ \A i \in 0 .. k - 1 : (k - 1) - i < Power[j] => i \in f[j]}
<1>0. /\ Width \in Nat /\ Shifts \in 0 .. Width /\ Width <= Power[Shifts] /\ k \in Nat
      /\ Power[Shifts] \in Nat /\ Power[0] = 1
  BY RoundUpAssumption, PowerIs
<1>1. 0 \in P
  <2>1. f[0] \subseteq 0 .. k - 1
    BY DEF Length
  <2>2. ASSUME NEW i \in 0 .. k - 1, (k - 1) - i < Power[0] PROVE i \in f[0]
    <3>1. i = k - 1 /\ k > 0
      BY <1>0, <2>2
    <3> QED BY <3>1 DEF Length
  <2> QED BY <1>0, <2>1, <2>2
<1>2. ASSUME NEW j \in 1 .. Shifts, j - 1 \in P PROVE j \in P
  <2>1. PICK h \in 0 .. Width : h = j - 1 /\ j \in 1 .. Width /\ j \in 0 .. Shifts
    BY <1>0
  <2>2. PICK x \in Nat \ {0} : x = Power[h] /\ Power[j] = 2 * x
    BY <2>1, PowerIs
  <2>3. PICK bits : bits = f[h] /\ bits \subseteq 0 .. k - 1
                    /\ \A i \in 0 .. k - 1 : (k - 1) - i < x => i \in bits
    BY <1>2, <2>1, <2>2
  <2>4. f[j] = bits \union {i \in 0 .. Width - 1 : i + x \in bits}
    BY <2>1, <2>2, <2>3 DEF Smeared
  <2>5. f[j] \subseteq 0 .. k - 1
    <3>1. ASSUME NEW i \in 0 .. Width - 1, i + x \in bits PROVE i \in 0 .. k - 1
      <4>1. i + x \in 0 .. k - 1
        BY <2>3, <3>1
      <4> QED BY <1>0, <4>1
    <3> QED BY <2>3, <2>4, <3>1
  <2>6. ASSUME NEW i \in 0 .. k - 1, (k - 1) - i < Power[j] PROVE i \in f[j]
    <3>1. CASE (k - 1) - i < x
      BY <2>3, <2>4, <3>1
    <3>2. CASE ~ (k - 1) - i < x
      <4>1. i + x \in 0 .. k - 1 /\ (k - 1) - (i + x) < x /\ i \in 0 .. Width - 1
        BY <1>0, <2>2, <2>6, <3>2
      <4>2. i + x \in bits
        BY <2>3, <4>1
      <4> QED BY <2>4, <4>1, <4>2
    <3> QED BY <3>1, <3>2
  <2> QED BY <2>1, <2>5, <2>6
<1> HIDE DEF P
<1>3. \A j \in 0 .. Shifts : j \in P
  BY <1>0, <1>1, <1>2, UpTo
<1>4. Shifts \in P
  BY <1>0, <1>3
<1>5. \A i \in 0 .. k - 1 : (k - 1) - i < Power[Shifts]
  BY <1>0
<1> QED BY <1>4, <1>5 DEF P

\* So the number is rounded up to the first power of two above the one before it.
LEMMA RoundsTo ==
    ASSUME NEW num, NEW n \in Unsigned, n = Wrap(num - 1), NEW k \in 0 .. Width, Length(n, k)
    PROVE  roundup32bit(num) = Wrap(Power[k])
<1> DEFINE after == CHOOSE g : g = [i \in 0 .. Shifts |->
                IF i = 0 THEN Bits(Wrap(num - 1)) ELSE Smeared(g[i - 1], Power[i - 1])]
           next(g, i) == IF i = 0 THEN Bits(n) ELSE Smeared(g[i - 1], Power[i - 1])
           S == SUBSET (0 .. Width - 1)
           F == [i \in 1 .. Shifts |-> [x \in S |-> Smeared(x, Power[i - 1])]]
<1>0. Width \in Nat /\ Shifts \in 0 .. Width /\ Shifts \in Nat
  BY RoundUpAssumption
<1>1. roundup32bit(num) = Wrap(OfBits(after[Shifts]) + 1)
  BY DEF roundup32bit
<1>2. after = CHOOSE g : g = [i \in 0 .. Shifts |-> next(g, i)]
  OBVIOUS
<1> HIDE DEF after
<1>3. \E g : g = [i \in 0 .. Shifts |-> next(g, i)]
  <2>1. F \in [1 .. Shifts -> [S -> S]]
    <3>1. \A x \in S, d \in Int : Smeared(x, d) \in S
      BY DEF Smeared
    <3>2. \A i \in 1 .. Shifts : i - 1 \in 0 .. Width
      BY <1>0
    <3>3. \A i \in 1 .. Shifts : Power[i - 1] \in Int
      BY <3>2, PowerIs
    <3> HIDE DEF S
    <3> QED BY <3>1, <3>3
  <2>2. Bits(n) \in S
    BY DEF Bits
  <2>3. PICK g \in [0 .. Shifts -> S] : Recurs(g, Shifts, Bits(n), F)
    <3> HIDE DEF F, S
    <3> QED BY <1>0, <2>1, <2>2, Recursion
  <2>4. ASSUME NEW i \in 0 .. Shifts PROVE g[i] = next(g, i)
    <3>1. CASE i = 0
      BY <2>3, <3>1 DEF Recurs
    <3>2. CASE i # 0
      <4>1. i \in 1 .. Shifts /\ i - 1 \in 0 .. Shifts
        BY <1>0, <3>2
      <4>2. g[i] = F[i][g[i - 1]]
        BY <2>3, <4>1 DEF Recurs
      <4>3. PICK x \in S : x = g[i - 1]
        <5> HIDE DEF S
        <5> QED BY <4>1
      <4>4. F[i][x] = Smeared(x, Power[i - 1])
        <5> HIDE DEF S
        <5> QED BY <4>1
      <4> HIDE DEF F, S
      <4> QED BY <3>2, <4>2, <4>3, <4>4
    <3> QED BY <3>1, <3>2
  <2> HIDE DEF next, S
  <2>5. g = [i \in 0 .. Shifts |-> next(g, i)]
    BY <2>4
  <2> QED BY <2>5
<1>4. after = [i \in 0 .. Shifts |-> next(after, i)]
  <2> HIDE DEF next
  <2> QED BY <1>2, <1>3
<1>5. after[0] = Bits(n) /\ \A j \in 1 .. Shifts : after[j] = Smeared(after[j - 1], Power[j - 1])
  BY <1>0, <1>4
<1>6. after[Shifts] = 0 .. k - 1
  BY <1>5, ShiftsFill
<1>7. OfBits(after[Shifts]) = Power[k] - 1 /\ Power[k] \in Nat
  BY <1>6, AllBits, PowerIs
<1>8. OfBits(after[Shifts]) + 1 = Power[k]
  BY <1>7
<1> QED BY <1>1, <1>8

LEMMA WrapIs ==
    /\ \A x \in Unsigned : Wrap(x) = x
    /\ Wrap(-1) = Power[Width] - 1 /\ Wrap(Power[Width]) = 0
<1>1. PICK d \in Nat \ {0} : d = Power[Width]
  <2>1. Width \in 0 .. Width
    BY RoundUpAssumption
  <2> QED BY <2>1, PowerIs
<1>2. ASSUME NEW x \in Unsigned PROVE Wrap(x) = x
  <2>1. PICK q \in Int, r \in 0 .. d - 1, m \in Int : q = 0 /\ r = x /\ m = x
    BY <1>1 DEF Unsigned
  <2>2. m = q * d + r
    BY <2>1
  <2>3. m % d = r
    BY ONLY <2>2, d \in Nat \ {0}, q \in Int, r \in 0 .. d - 1, Quotient
  <2> QED BY <1>1, <2>1, <2>3 DEF Wrap
<1>3. Wrap(-1) = d - 1
  <2>1. PICK q \in Int, r \in 0 .. d - 1, m \in Int : q = -1 /\ r = d - 1 /\ m = -1
    OBVIOUS
  <2>2. m = q * d + r
    BY <2>1
  <2>3. m % d = r
    BY ONLY <2>2, d \in Nat \ {0}, q \in Int, r \in 0 .. d - 1, Quotient
  <2> QED BY <1>1, <2>1, <2>3 DEF Wrap
<1>4. Wrap(d) = 0
  <2>1. PICK q \in Int, r \in 0 .. d - 1 : q = 1 /\ r = 0 /\ d = q * d + r
    OBVIOUS
  <2>2. d % d = r
    BY ONLY <2>1, d \in Nat \ {0}, Quotient
  <2> QED BY <1>1, <2>1, <2>2 DEF Wrap
<1> QED BY <1>1, <1>2, <1>3, <1>4

\* roundup32bit rounds every number up to a power of two, and gives 0 for 0 and for the
\* numbers no power of two is left for; under its mask a hash is taken modulo that.
THEOREM CapacityIsRoundedUp == CallsSpec => []RoundsUp
<1>1. CallsInv => RoundsUp
  <2>1. SUFFICES ASSUME CallsInv, Of("roundup") PROVE RoundsUp
    BY DEF RoundsUp
  <2>2. PICK num \in Unsigned : num = call.num
    BY <2>1, ArgumentsAssumption DEF CallsInv, Of
  <2>3. PICK capacity, mask : /\ capacity = roundup32bit(num) /\ mask = Mask(num)
                              /\ result[1].capacity = capacity /\ result[1].mask = mask
    BY <2>1, <2>2 DEF CallsInv, Of, Returned
  <2>4. PICK w \in Nat, d \in Nat \ {0} : /\ w = Width - 1 /\ w \in 0 .. Width /\ Width = w + 1 /\ Width \in Nat
                                          /\ d = Power[w] /\ Power[Width] = 2 * d
    <3>1. Width \in Nat \ {0}
      BY RoundUpAssumption
    <3> QED BY <3>1, PowerIs
  <2>5. num \in Nat /\ num < 2 * d
    BY <2>4 DEF Unsigned
  <2>6. PICK n \in Unsigned : n = Wrap(num - 1) /\ (num = 0 => n = 2 * d - 1) /\ (num # 0 => n = num - 1)
    <3>1. CASE num = 0
      <4>1. 2 * d - 1 \in Unsigned
        BY <2>4 DEF Unsigned
      <4>2. Wrap(num - 1) = 2 * d - 1
        <5>1. num - 1 = -1
          BY <3>1
        <5> QED BY <2>4, <5>1, WrapIs
      <4> QED BY <3>1, <4>1, <4>2
    <3>2. CASE num # 0
      <4>1. num - 1 \in Unsigned
        BY <2>4, <2>5, <3>2 DEF Unsigned
      <4> QED BY <3>2, <4>1, WrapIs
    <3> QED BY <3>1, <3>2
  <2>7. PICK k \in 0 .. Width : Length(n, k)
    BY LengthIs
  <2>8. capacity = Wrap(Power[k])
    BY <2>3, <2>6, <2>7, RoundsTo
  <2>9. PICK c \in Nat \ {0} : c = Power[k] /\ n < c
    BY <2>7, PowerIs DEF Length
  <2>10. n \in Nat
    BY <2>5, <2>6, <2>4
  <2>11. CASE num \in 1 .. d
    <3>1. n = num - 1 /\ num <= c
      BY <2>5, <2>6, <2>9, <2>11
    <3>2. k \in 0 .. w
      <4>1. k = Width => d <= n
        BY <2>4, <2>7 DEF Length
      <4> QED BY <2>4, <2>11, <3>1, <4>1
    <3>3. c <= d
      <4>1. k \in 0 .. Width /\ w \in k .. Width
        BY <2>4, <3>2
      <4> QED BY <2>4, <2>9, <4>1, PowerGrows
    <3>4. c \in Unsigned /\ c - 1 \in Unsigned
      BY <2>4, <3>3 DEF Unsigned
    <3>5. capacity = c
      BY <2>8, <2>9, <3>4, WrapIs
    <3>6. mask = c - 1
      BY <2>3, <3>4, <3>5, WrapIs DEF Mask
    <3>7. c < 2 * num
      <4>1. CASE k = 0
        <5>1. c = 1
          BY <2>9, <4>1, PowerIs
        <5> QED BY <2>11, <5>1
      <4>2. CASE k # 0
        <5>1. k > 0 /\ k \in 1 .. Width /\ k - 1 \in 0 .. Width
          BY <2>4, <3>2, <4>2
        <5>2. PICK x \in Nat : x = Power[k - 1] /\ c = 2 * x
          BY <2>9, <5>1, PowerIs
        <5>3. x <= n
          BY <2>7, <5>1, <5>2 DEF Length
        <5> QED BY <2>11, <3>1, <5>2, <5>3
      <4> QED BY <4>1, <4>2
    <3>8. \E i \in 0 .. Width - 1 : capacity = Power[i]
      BY <2>4, <2>9, <3>2, <3>5
    <3>9. \A hash \in Unsigned : Bucket(hash, mask) = hash % capacity
      <4>1. Bits(mask) = 0 .. k - 1
        BY <2>9, <3>6, MaskBits
      <4> QED BY <2>9, <3>5, <4>1, LowBits DEF Bucket
    <3> QED BY <2>2, <2>3, <2>4, <2>11, <3>1, <3>5, <3>7, <3>8, <3>9 DEF RoundsUp
  <2>12. CASE num \notin 1 .. d
    <3>1. d <= n
      BY <2>4, <2>5, <2>6, <2>12
    <3>2. k = Width
      <4>1. SUFFICES ASSUME k # Width PROVE FALSE
        OBVIOUS
      <4>2. k \in 0 .. Width /\ w \in k .. Width
        BY <2>4, <4>1
      <4>3. c <= d
        BY <2>4, <2>9, <4>2, PowerGrows
      <4> QED BY <2>9, <2>10, <3>1, <4>3
    <3>3. capacity = 0
      BY <2>8, <3>2, WrapIs
    <3> QED BY <2>2, <2>3, <2>4, <2>12, <3>3 DEF RoundsUp
  <2> QED BY <2>11, <2>12
<1> QED BY <1>1, CallsInvariance, PTL

=============================================================================
