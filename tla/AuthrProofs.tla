---------------------------- MODULE AuthrProofs ----------------------------
(***************************************************************************)
(* Proofs about the authorization server.                                  *)
(*                                                                         *)
(* First, what the arrays of AclList hold whatever their length: where     *)
(* compare_uids is an order (CompareWorks, and uids of InOrder), qsort     *)
(* leaves a sorted arrangement, the merges find the common users, the      *)
(* search finds who is there, and a modified list is again one that can    *)
(* be searched; on any build nobody is on a list who was not put there,    *)
(* and the search meets nobody else.  Each is proved by a least            *)
(* counterexample (Least).                                                 *)
(*                                                                         *)
(* TypeInv and KeptInv are inductive for any number of threads; TypeOK and *)
(* LookupsAgree follow from them.  SoleInv adds what one thread            *)
(* guarantees: the lists of a container are all there or all gone, but for *)
(* those the request in service has yet to put or delete.  From it follow  *)
(* OneContainerPerCid, WholeOrGone and the refinement of AclService.  The  *)
(* last three fail with two threads.                                       *)
(***************************************************************************)
EXTENDS Authr, FiniteSetTheorems, SequenceTheorems, WellFoundedInduction, TLAPS

\* The build on which compare_uids is an order of the words of InOrder.
CompareWorks == LongIs32 /\ ~CrayPortals

Words == InOrder \cup {Inf}

\* The place of a uid in the order of compare_uids: from the greatest down, Inf last.
Rank(a) == IF a = Inf THEN 0 ELSE a + 1

LEMMA WordFacts ==
  ASSUME CompareWorks
  PROVE  /\ HalfWord \in Nat /\ HalfWord > 0 /\ Inf \in Nat /\ Inf \notin InOrder
         /\ \A a \in InOrder : a \in Int /\ a >= 0 /\ a <= HalfWord - 2
         /\ \A a \in Words : a \in Int /\ Rank(a) \in Nat
         /\ \A a, b \in Words : Rank(a) = Rank(b) => a = b
BY WordAssumption DEF CompareWorks, InOrder, Words, Rank, Inf

LEMMA Mods ==
  ASSUME NEW n \in Nat, NEW x \in Int, n > 0
  PROVE  /\ 0 <= x /\ x < n => x % n = x
         /\ -n <= x /\ x < 0 => x % n = x + n
OBVIOUS

LEMMA ComparIs ==
  ASSUME CompareWorks, NEW a \in Words, NEW b \in Words
  PROVE  /\ CompareUids(a, b) = Compar(a, b)
         /\ Compar(a, b) = IF a = b THEN 0 ELSE IF Rank(a) > Rank(b) THEN -1 ELSE 1
<1>1. CompareUids(a, b) = Compar(a, b)
  BY DEF CompareWorks, Compar
<1> DEFINE M == 2 * HalfWord
           d == b - a
<1>2. M \in Nat /\ M > 0 /\ d \in Int
  BY WordFacts, WordAssumption
<1>3. d % M = IF d >= 0 THEN d ELSE d + M
  <2>1. a \in 0 .. M - 1 /\ b \in 0 .. M - 1
    BY WordFacts, WordAssumption DEF Words, Inf
  <2>2. d < M /\ -M <= d
    BY <1>2, <2>1
  <2> HIDE DEF M, d
  <2> QED BY <1>2, <2>2, Mods
<1>4. CompareUids(a, b) = IF d % M = 0 THEN 0 ELSE IF d % M >= HalfWord THEN -1 ELSE 1
  BY DEF CompareUids, CompareWorks
<1>5. CASE a = b
  BY <1>1, <1>2, <1>3, <1>4, <1>5, WordFacts
<1>6. CASE a # b /\ a = Inf
  BY <1>1, <1>2, <1>3, <1>4, <1>6, WordFacts DEF Words, Rank, Inf
<1>7. CASE a # b /\ b = Inf
  <2>1. a \in InOrder /\ a \in Nat /\ a <= HalfWord - 2 /\ HalfWord \in Int
    BY <1>7, WordFacts DEF Words
  <2>2. d = 2 * HalfWord - 1 - a
    BY <1>7 DEF Inf
  <2>3. d >= HalfWord /\ d # 0
    BY <2>1, <2>2
  <2>4. CompareUids(a, b) = -1
    BY <1>2, <1>3, <1>4, <2>1, <2>3
  <2>5. Rank(a) = a + 1 /\ Rank(b) = 0
    BY <1>7 DEF Rank
  <2> QED BY <1>1, <1>7, <2>1, <2>4, <2>5
<1>8. CASE a # b /\ a # Inf /\ b # Inf
  BY <1>1, <1>2, <1>3, <1>4, <1>8, WordFacts DEF Words, Rank
<1> QED BY <1>5, <1>6, <1>7, <1>8
\* Every set of naturals has a least element: induction over data is done with it.
LEMMA Least ==
  ASSUME NEW T \in SUBSET Nat, T # {}
  PROVE  \E x \in T : \A y \in T : x <= y
<1>1. PICK x \in T : \A y \in T : ~(<<y, x>> \in OpToRel(<, Nat))
  BY NatLessThanWellFounded, WFMin
<1>2. \A y \in T : x <= y
  <2> SUFFICES ASSUME NEW y \in T, y < x PROVE FALSE
    OBVIOUS
  <2>1. <<y, x>> \in OpToRel(<, Nat)
    BY DEF OpToRel
  <2> QED BY <1>1, <2>1
<1> QED BY <1>2
-----------------------------------------------------------------------------
(* Whatever the comparison says: nothing enters an array that was not put  *)
(* there, and the search finds nobody who is not there.                    *)

LEMMA PrefixIs ==
  ASSUME NEW S, NEW u \in Seq(S), NEW m \in 0 .. Len(u)
  PROVE  /\ First(u, m) \in Seq(S) /\ Len(First(u, m)) = m /\ DOMAIN First(u, m) = 1 .. m
         /\ \A k \in 1 .. m : First(u, m)[k] = u[k]
<1>1. m \in Nat /\ m <= Len(u) /\ \A k \in 1 .. m : u[k] \in S
  OBVIOUS
<1>2. First(u, m) = [k \in 1 .. m |-> u[k]]
  BY <1>1 DEF First
<1>3. [k \in 1 .. m |-> u[k]] \in Seq(S)
  BY <1>1
<1> QED BY <1>1, <1>2, <1>3

LEMMA ArrangedIs ==
  ASSUME NEW S, NEW s \in Seq(S), NEW t \in Qsort(s)
  PROVE  t \in Seq(S) /\ Len(t) = Len(s) /\ DOMAIN t = DOMAIN s
<1>1. PICK p \in Bijection(DOMAIN s, DOMAIN s) : t = [k \in DOMAIN s |-> s[p[k]]]
  BY DEF Qsort
<1>2. p \in [DOMAIN s -> DOMAIN s]
  BY DEF Bijection, Injection
<1>3. PICK n \in Nat : n = Len(s) /\ DOMAIN s = 1 .. n /\ \A k \in 1 .. n : s[k] \in S
  OBVIOUS
<1>4. \A k \in 1 .. n : s[p[k]] \in S
  BY <1>2, <1>3
<1>5. t = [k \in 1 .. n |-> s[p[k]]]
  BY <1>1, <1>3
<1>6. [k \in 1 .. n |-> s[p[k]]] \in Seq(S)
  BY <1>3, <1>4
<1> QED BY <1>3, <1>5, <1>6

\* A part of the places of an array has at most as many elements.
LEMMA PlacesOf ==
  ASSUME NEW n \in Nat, NEW G \in SUBSET (1 .. n)
  PROVE  n - Cardinality(G) \in 0 .. n
<1>1. IsFiniteSet(1 .. n) /\ Cardinality(1 .. n) = n
  <2>1. Cardinality(1 .. n) = IF 1 > n THEN 0 ELSE n - 1 + 1
    BY FS_Interval
  <2> QED BY <2>1, FS_Interval
<1>2. IsFiniteSet(G) /\ Cardinality(G) <= n
  BY <1>1, FS_Subset
<1>3. Cardinality(G) \in Nat
  BY <1>2, FS_CardinalityType
<1> QED BY <1>2, <1>3

LEMMA RemoveDupsFrom ==
  ASSUME NEW S, Inf \in S, NEW s \in Seq(S), NEW r \in RemoveDups(s)
  PROVE  r \in Seq(S) /\ Len(r) \in 0 .. Len(s)
<1> DEFINE repeated(t) == {k \in DOMAIN t : k > 1 /\ t[k] = t[k - 1]}
           marked(t) == [k \in DOMAIN t |-> IF k \in repeated(t) THEN Inf ELSE t[k]]
<1>1. PICK t \in Qsort(s) :
        r \in {First(u, Len(s) - Cardinality(repeated(t))) : u \in Qsort(marked(t))}
  BY DEF RemoveDups
<1>2. PICK u \in Qsort(marked(t)) : r = First(u, Len(s) - Cardinality(repeated(t)))
  BY <1>1
<1>3. PICK n \in Nat : n = Len(s) /\ t \in Seq(S) /\ Len(t) = n /\ DOMAIN t = 1 .. n
  BY ArrangedIs
<1>4. marked(t) \in Seq(S) /\ Len(marked(t)) = n
  <2>1. \A k \in 1 .. n : marked(t)[k] \in S
    BY <1>3
  <2>2. marked(t) = [k \in 1 .. n |-> marked(t)[k]]
    BY <1>3
  <2> HIDE DEF marked
  <2> QED BY <2>1, <2>2
<1>5. n - Cardinality(repeated(t)) \in 0 .. n
  <2>1. repeated(t) \in SUBSET (1 .. n)
    BY <1>3
  <2> HIDE DEF repeated
  <2> QED BY <2>1, PlacesOf
<1>6. u \in Seq(S) /\ Len(u) = n
  <2> HIDE DEF marked
  <2> QED BY <1>2, <1>4, ArrangedIs
<1> QED BY <1>2, <1>3, <1>5, <1>6, PrefixIs

\* F at a place looks only at places of a smaller size.
Inward(F, D, V, size) ==
    \A g, h \in [D -> V], p \in D :
       (\A q \in D : size[q] < size[p] => g[q] = h[q]) => F[g][p] = F[h][p]

Recurs(F, D, V, size, n, g0) ==
    /\ size \in [D -> Nat] /\ n \in Nat /\ \A p \in D : size[p] < n
    /\ F \in [[D -> V] -> [D -> V]] /\ g0 \in [D -> V]
    /\ Inward(F, D, V, size)

Solved(F, D, V) == \E w \in [D -> V] : w = F[w]

\* A definition by recursion on a size has a solution.
LEMMA Solution ==
  ASSUME NEW F, NEW D, NEW V, NEW size, NEW N, NEW g0, Recurs(F, D, V, size, N, g0)
  PROVE  Solved(F, D, V)
<1>0. /\ size \in [D -> Nat] /\ N \in Nat /\ \A p \in D : size[p] < N
      /\ F \in [[D -> V] -> [D -> V]] /\ g0 \in [D -> V]
      /\ Inward(F, D, V, size)
  BY DEF Recurs
<1> DEFINE Upto(g, n) == \A p \in D : size[p] < n => F[g][p] = g[p]
           Bad == {n \in Nat : ~\E g \in [D -> V] : Upto(g, n)}
<1>1. Bad = {}
  <2> SUFFICES ASSUME Bad # {} PROVE FALSE
    OBVIOUS
  <2>1. Bad \in SUBSET Nat
    OBVIOUS
  <2>2. PICK n \in Bad : \A m \in Bad : n <= m
    BY <2>1, Least
  <2>3. n # 0
    <3>1. Upto(g0, 0)
      BY <1>0
    <3> QED BY <1>0, <3>1
  <2>4. PICK m \in Nat : n = m + 1
    <3>1. n \in Nat /\ n - 1 \in Nat
      BY <2>3
    <3> QED BY <3>1
  <2>5. PICK g \in [D -> V] : Upto(g, m)
    <3>1. m \notin Bad
      <4>1. ~(n <= m)
        BY <2>4
      <4> QED BY <2>2, <4>1
    <3> QED BY <3>1
  <2>6. PICK h \in [D -> V] : h = F[g]
    BY <1>0
  <2>7. Upto(h, n)
    <3> SUFFICES ASSUME NEW p \in D, size[p] < n PROVE F[h][p] = h[p]
      OBVIOUS
    <3>1. \A q \in D : size[q] < size[p] => h[q] = g[q]
      <4> SUFFICES ASSUME NEW q \in D, size[q] < size[p] PROVE h[q] = g[q]
        OBVIOUS
      <4>1. size[q] \in Nat /\ size[p] \in Nat
        BY <1>0
      <4>2. size[q] < m
        BY <2>4, <4>1
      <4> QED BY <2>5, <2>6, <4>2
    <3>2. F[h][p] = F[g][p]
      BY <1>0, <3>1 DEF Inward
    <3> QED BY <2>6, <3>2
  <2> QED BY <2>7
<1>2. PICK w \in [D -> V] : Upto(w, N)
  BY <1>0, <1>1
<1>3. PICK z \in [D -> V] : z = F[w]
  BY <1>0
<1>4. \A p \in D : w[p] = z[p]
  BY <1>0, <1>2, <1>3
<1>5. w = z
  BY <1>4
<1> QED BY <1>3, <1>5 DEF Solved

\* One round of the merge, and of the search, over what the rest comes to.
WalkStep(g, o, r) ==
    [p \in (1 .. Len(o) + 1) \X (1 .. Len(r) + 1) |->
        LET i == p[1]
            j == p[2]
            c == CompareUids(o[i], r[j])
        IN  IF i > Len(o) \/ j > Len(r) THEN {}
            ELSE IF c = 0 THEN {i} \cup g[<<i + 1, j + 1>>]
            ELSE IF c < 0 THEN g[<<i + 1, j>>] ELSE g[<<i, j + 1>>]]

Walks(walk, o, r) == walk = WalkStep(walk, o, r)

LEMMA MatchedWalks ==
  ASSUME NEW o, NEW r
  PROVE  Matched(o, r) = (CHOOSE w : Walks(w, o, r))[<<1, 1>>]
BY DEF Matched, Walks, WalkStep

FindStep(g, uid, s) ==
    [p \in (0 .. Len(s)) \X (0 .. Len(s)) |->
        LET l == p[1]
            h == p[2]
            m == (l + h) \div 2
            c == Compar(uid, s[m + 1])
        IN  IF l >= h THEN FALSE
            ELSE IF c = 0 THEN TRUE
            ELSE IF c < 0 THEN g[<<l, m>>] ELSE g[<<m + 1, h>>]]

Finds(find, uid, s) == find = FindStep(find, uid, s)

LEMMA BsearchFinds ==
  ASSUME NEW uid, NEW s
  PROVE  Bsearch(uid, s) = (CHOOSE f : Finds(f, uid, s))[<<0, Len(s)>>]
BY DEF Bsearch, Finds, FindStep

WalkAt(v, g, o, r, i, j) ==
    v = IF i > Len(o) \/ j > Len(r) THEN {}
        ELSE IF CompareUids(o[i], r[j]) = 0 THEN {i} \cup g[<<i + 1, j + 1>>]
        ELSE IF CompareUids(o[i], r[j]) < 0 THEN g[<<i + 1, j>>]
        ELSE g[<<i, j + 1>>]

LEMMA WalkStepAt ==
  ASSUME NEW g, NEW o, NEW r
  PROVE  \A i \in 1 .. Len(o) + 1, j \in 1 .. Len(r) + 1 :
            WalkAt(WalkStep(g, o, r)[<<i, j>>], g, o, r, i, j)
BY DEF WalkStep, WalkAt

\* The merge meets places of the first array.
LEMMA MatchedPlaces ==
  ASSUME NEW o, NEW r, Len(o) \in Nat, Len(r) \in Nat
  PROVE  Matched(o, r) \in SUBSET (1 .. Len(o))
<1> DEFINE A == Len(o)
           B == Len(r)
           D == (1 .. A + 1) \X (1 .. B + 1)
           V == SUBSET (1 .. A)
           size == [p \in D |-> (A + 1 - p[1]) + (B + 1 - p[2])]
           Ends(i, j) == i > A \/ j > B
<1>1. A \in Nat /\ B \in Nat /\ A + B + 1 \in Nat
  OBVIOUS
<1>2. ASSUME NEW i \in 1 .. A + 1, NEW j \in 1 .. B + 1
      PROVE  /\ <<i, j>> \in D /\ size[<<i, j>>] = (A + 1 - i) + (B + 1 - j)
             /\ size[<<i, j>>] \in Nat /\ size[<<i, j>>] < A + B + 1
             /\ ~Ends(i, j) =>
                   /\ i \in 1 .. A /\ i + 1 \in 1 .. A + 1 /\ j + 1 \in 1 .. B + 1
                   /\ <<i + 1, j + 1>> \in D /\ <<i + 1, j>> \in D /\ <<i, j + 1>> \in D
                   /\ size[<<i + 1, j + 1>>] < size[<<i, j>>]
                   /\ size[<<i + 1, j>>] < size[<<i, j>>]
                   /\ size[<<i, j + 1>>] < size[<<i, j>>]
  <2>1. <<i, j>> \in D /\ <<i, j>>[1] = i /\ <<i, j>>[2] = j
    OBVIOUS
  <2>2. \A x \in 1 .. A + 1, y \in 1 .. B + 1 : size[<<x, y>>] = (A + 1 - x) + (B + 1 - y)
    OBVIOUS
  <2>3. ~Ends(i, j) => i \in 1 .. A /\ i + 1 \in 1 .. A + 1 /\ j + 1 \in 1 .. B + 1
    BY <1>1
  <2>5. size[<<i, j>>] \in Nat /\ size[<<i, j>>] < A + B + 1
    BY <1>1, <2>2
  <2> HIDE DEF size
  <2>6. ~Ends(i, j) =>
                   /\ size[<<i + 1, j + 1>>] < size[<<i, j>>]
                   /\ size[<<i + 1, j>>] < size[<<i, j>>]
                   /\ size[<<i, j + 1>>] < size[<<i, j>>]
    BY <1>1, <2>2, <2>3
  <2> QED BY <2>1, <2>2, <2>3, <2>5, <2>6
<1>3. \A p \in D : \E i \in 1 .. A + 1, j \in 1 .. B + 1 : p = <<i, j>>
  OBVIOUS
<1>4. size \in [D -> Nat] /\ \A p \in D : size[p] < A + B + 1
  <2>1. \A p \in D : size[p] \in Nat /\ size[p] < A + B + 1
    <3> SUFFICES ASSUME NEW p \in D PROVE size[p] \in Nat /\ size[p] < A + B + 1
      OBVIOUS
    <3>1. PICK i \in 1 .. A + 1, j \in 1 .. B + 1 : p = <<i, j>>
      BY <1>3
    <3>2. size[<<i, j>>] \in Nat /\ size[<<i, j>>] < A + B + 1
      BY <1>2
    <3> HIDE DEF size, D
    <3> QED BY <3>1, <3>2
  <2> QED BY <2>1
<1> HIDE DEF size
<1>5. \E w : Walks(w, o, r)
  <2> DEFINE F == [g \in [D -> V] |-> WalkStep(g, o, r)]
  <2>1. ASSUME NEW g \in [D -> V] PROVE WalkStep(g, o, r) \in [D -> V]
    <3>1. \A i \in 1 .. A + 1, j \in 1 .. B + 1 : WalkStep(g, o, r)[<<i, j>>] \in V
      <4> SUFFICES ASSUME NEW i \in 1 .. A + 1, NEW j \in 1 .. B + 1
                   PROVE  WalkStep(g, o, r)[<<i, j>>] \in V
        OBVIOUS
      <4>3. WalkAt(WalkStep(g, o, r)[<<i, j>>], g, o, r, i, j)
        BY WalkStepAt
      <4>1. CASE Ends(i, j)
        BY <4>1, <4>3 DEF WalkAt
      <4>2. CASE ~Ends(i, j)
        <5>1. /\ g[<<i + 1, j + 1>>] \in V /\ g[<<i + 1, j>>] \in V /\ g[<<i, j + 1>>] \in V
              /\ {i} \in V
          BY <1>2, <4>2
        <5> HIDE DEF V, D
        <5>2. {i} \cup g[<<i + 1, j + 1>>] \in V
          BY <5>1 DEF V
        <5> QED BY <4>2, <4>3, <5>1, <5>2 DEF WalkAt, Ends
      <4> QED BY <4>1, <4>2
    <3>2. WalkStep(g, o, r) = [p \in D |-> WalkStep(g, o, r)[p]]
      BY DEF WalkStep
    <3>3. \A p \in D : WalkStep(g, o, r)[p] \in V
      <4> HIDE DEF D, V
      <4> QED BY <1>3, <3>1
    <3> HIDE DEF D, V
    <3> QED BY <3>2, <3>3
  <2>2. F \in [[D -> V] -> [D -> V]]
    <3> HIDE DEF D, V
    <3> QED BY <2>1
  <2>3. \A g \in [D -> V] : F[g] = WalkStep(g, o, r)
    OBVIOUS
  <2>4. ASSUME NEW g \in [D -> V], NEW h \in [D -> V], NEW p \in D,
               \A q \in D : size[q] < size[p] => g[q] = h[q]
        PROVE  F[g][p] = F[h][p]
    <3>1. PICK i \in 1 .. A + 1, j \in 1 .. B + 1 : p = <<i, j>>
      BY <1>3
    <3>2. ~Ends(i, j) => /\ g[<<i + 1, j + 1>>] = h[<<i + 1, j + 1>>]
                         /\ g[<<i + 1, j>>] = h[<<i + 1, j>>]
                         /\ g[<<i, j + 1>>] = h[<<i, j + 1>>]
      <4> HIDE DEF D, Ends, F
      <4> QED BY <1>2, <2>4, <3>1
    <3>3. WalkStep(g, o, r)[<<i, j>>] = WalkStep(h, o, r)[<<i, j>>]
      <4>1. WalkAt(WalkStep(g, o, r)[<<i, j>>], g, o, r, i, j)
        BY WalkStepAt
      <4>2. WalkAt(WalkStep(h, o, r)[<<i, j>>], h, o, r, i, j)
        BY WalkStepAt
      <4> HIDE DEF D, F, V
      <4> QED BY <3>2, <4>1, <4>2 DEF WalkAt
    <3> HIDE DEF F, D, V
    <3>4. F[g] = WalkStep(g, o, r) /\ F[h] = WalkStep(h, o, r)
      BY <2>3
    <3> QED BY <3>1, <3>3, <3>4
  <2>5. [p \in D |-> {}] \in [D -> V]
    OBVIOUS
  <2> HIDE DEF F, D, V
  <2>6. Solved(F, D, V)
    <3>1. Inward(F, D, V, size)
      BY <2>4 DEF Inward
    <3>2. Recurs(F, D, V, size, A + B + 1, [p \in D |-> {}])
      BY <1>1, <1>4, <2>2, <2>5, <3>1 DEF Recurs
    <3> QED BY <3>2, Solution
  <2> QED BY <2>3, <2>6 DEF Walks, Solved
<1>6. PICK f : f = (CHOOSE w : Walks(w, o, r)) /\ Walks(f, o, r)
  BY <1>5
<1> DEFINE T == {n \in Nat : \E p \in D : n = size[p] /\ f[p] \notin V}
<1>7. T = {}
  <2> SUFFICES ASSUME T # {} PROVE FALSE
    OBVIOUS
  <2>1. T \in SUBSET Nat
    OBVIOUS
  <2>2. PICK n \in T : \A k \in T : n <= k
    BY <2>1, Least
  <2>3. PICK p \in D : n = size[p] /\ f[p] \notin V
    BY <2>2
  <2>4. PICK i \in 1 .. A + 1, j \in 1 .. B + 1 : p = <<i, j>>
    BY <1>3
  <2>5. \A q \in D : size[q] < size[p] => f[q] \in V
    <3> SUFFICES ASSUME NEW q \in D, size[q] < size[p], f[q] \notin V PROVE FALSE
      OBVIOUS
    <3>1. size[q] \in T /\ size[q] \in Nat /\ size[p] \in Nat
      BY <1>4
    <3>2. ~(n <= size[q])
      <4> HIDE DEF T, D, V
      <4> QED BY <2>3, <3>1
    <3>3. n <= size[q]
      <4> HIDE DEF T
      <4> QED BY <2>2, <3>1
    <3> QED BY <3>2, <3>3
  <2>6. WalkAt(f[<<i, j>>], f, o, r, i, j)
    <3>1. f = WalkStep(f, o, r)
      BY <1>6 DEF Walks
    <3>2. WalkAt(WalkStep(f, o, r)[<<i, j>>], f, o, r, i, j)
      BY WalkStepAt
    <3> QED BY <3>1, <3>2, Zenon
  <2>7. CASE Ends(i, j)
    <3>1. f[<<i, j>>] = {}
      BY <2>6, <2>7 DEF WalkAt
    <3>2. {} \in V
      OBVIOUS
    <3> HIDE DEF V, D, T
    <3> QED BY <2>3, <2>4, <3>1, <3>2
  <2>8. CASE ~Ends(i, j)
    <3>1. f[<<i + 1, j + 1>>] \in V /\ f[<<i + 1, j>>] \in V /\ f[<<i, j + 1>>] \in V
      <4> HIDE DEF D, V, Ends
      <4> QED BY <1>2, <2>4, <2>5, <2>8
    <3>2. {i} \in V
      BY <1>2, <2>8
    <3> HIDE DEF D, V
    <3>3. {i} \cup f[<<i + 1, j + 1>>] \in V
      BY <3>1, <3>2 DEF V
    <3> QED BY <2>3, <2>4, <2>6, <2>8, <3>1, <3>3 DEF WalkAt
  <2> QED BY <2>7, <2>8
<1>8. <<1, 1>> \in D /\ size[<<1, 1>>] \in Nat
  <2>1. 1 \in 1 .. A + 1 /\ 1 \in 1 .. B + 1
    BY <1>1
  <2> QED BY <1>2, <2>1
<1>9. f[<<1, 1>>] \in V
  <2> HIDE DEF D, V
  <2> QED BY <1>7, <1>8
<1> QED BY <1>6, <1>9, MatchedWalks

LEMMA RemoveUidsFrom ==
  ASSUME NEW S, Inf \in S, NEW Z, Inf \in Z, NEW s \in Seq(S), NEW z \in Seq(Z),
         NEW a \in RemoveUids(s, z)
  PROVE  a \in Seq(S) /\ Len(a) \in 0 .. Len(s)
<1> DEFINE marked(o, r) == [k \in DOMAIN o |-> IF k \in Matched(o, r) THEN Inf ELSE o[k]]
<1>1. PICK o \in RemoveDups(s), r \in RemoveDups(z) :
        a \in {First(u, Len(o) - Cardinality(Matched(o, r))) : u \in Qsort(marked(o, r))}
  BY DEF RemoveUids
<1>2. o \in Seq(S) /\ Len(o) \in 0 .. Len(s) /\ r \in Seq(Z)
  BY RemoveDupsFrom
<1>3. PICK n \in Nat : n = Len(o) /\ DOMAIN o = 1 .. n /\ \A k \in 1 .. n : o[k] \in S
  BY <1>2
<1>4. PICK G : G = Matched(o, r)
  OBVIOUS
<1>5. G \in SUBSET (1 .. n)
  <2>1. Len(o) \in Nat /\ Len(r) \in Nat
    BY <1>2
  <2> QED BY <1>3, <1>4, <2>1, MatchedPlaces
<1>6. PICK w : w = marked(o, r)
  OBVIOUS
<1>7. PICK u \in Qsort(w) : a = First(u, n - Cardinality(G))
  BY <1>1, <1>3, <1>4, <1>6
<1>8. w \in Seq(S) /\ Len(w) = n
  <2>1. w = [k \in 1 .. n |-> IF k \in G THEN Inf ELSE o[k]]
    BY <1>3, <1>4, <1>6
  <2>2. \A k \in 1 .. n : (IF k \in G THEN Inf ELSE o[k]) \in S
    BY <1>3
  <2> QED BY <2>1, <2>2
<1>9. u \in Seq(S) /\ Len(u) = n
  BY <1>8, ArrangedIs
<1>10. n - Cardinality(G) \in 0 .. n
  BY <1>5, PlacesOf
<1>11. a \in Seq(S) /\ Len(a) = n - Cardinality(G)
  BY <1>7, <1>9, <1>10, PrefixIs
<1> QED
  <2>1. Len(s) \in Nat /\ n <= Len(s)
    BY <1>2, <1>3
  <2> QED BY <1>10, <1>11, <2>1

\* Whatever the comparison says, mod_acl leaves nobody on a list who was neither there nor
\* granted access.
LEMMA ModifiedAclFrom ==
  ASSUME NEW S, Inf \in S, NEW Z, Inf \in Z, NEW s \in Seq(S), NEW g \in Seq(S),
         NEW z \in Seq(Z), NEW a \in ModifiedAcl(s, g, z)
  PROVE  a \in Seq(S) /\ Len(a) \in 0 .. Len(s) + Len(g)
<1>1. PICK b \in AddUids(s, g) : a \in RemoveUids(b, z)
  BY DEF ModifiedAcl
<1>2. PICK c \in Seq(S) : c = s \o g /\ Len(c) = Len(s) + Len(g)
  BY ConcatProperties
<1>3. b \in Seq(S) /\ Len(b) \in 0 .. Len(c)
  BY <1>1, <1>2, RemoveDupsFrom DEF AddUids
<1>4. a \in Seq(S) /\ Len(a) \in 0 .. Len(b)
  BY <1>1, <1>3, RemoveUidsFrom
<1>5. Len(c) \in Nat /\ Len(b) \in Nat
  BY <1>2, <1>3
<1> QED BY <1>2, <1>3, <1>4, <1>5

\* Two words compare as equal only when they are.
LEMMA EqualWords ==
  ASSUME NEW a \in 0 .. Inf, NEW b \in 0 .. Inf, Compar(a, b) = 0
  PROVE  a = b
<1> DEFINE M == 2 * HalfWord
           d == b - a
<1>1. HalfWord \in Nat /\ M \in Nat /\ M > 0 /\ Inf = M - 1 /\ d \in Int
  BY WordAssumption DEF Inf
<1>2. -M < d /\ -M <= d /\ d < M
  BY <1>1
<1>3. d % M = IF d >= 0 THEN d ELSE d + M
  <2> HIDE DEF M, d
  <2> QED BY <1>1, <1>2, Mods
<1>4. CompareUids(a, b) \in {-1, 0, 1}
  BY DEF CompareUids
<1>5. CompareUids(a, b) = 0
  BY <1>4 DEF Compar
<1>6. d % M = 0
  <2> HIDE DEF d
  <2> QED BY <1>5 DEF CompareUids, d
<1>7. d = 0
  <2> HIDE DEF M, d
  <2> QED BY <1>1, <1>2, <1>3, <1>6
<1> QED BY <1>7

FindAt(v, g, uid, s, l, h) ==
    v = IF l >= h THEN FALSE
        ELSE IF Compar(uid, s[(l + h) \div 2 + 1]) = 0 THEN TRUE
        ELSE IF Compar(uid, s[(l + h) \div 2 + 1]) < 0 THEN g[<<l, (l + h) \div 2>>]
        ELSE g[<<(l + h) \div 2 + 1, h>>]

LEMMA FindStepAt ==
  ASSUME NEW g, NEW uid, NEW s
  PROVE  \A l \in 0 .. Len(s), h \in 0 .. Len(s) :
            FindAt(FindStep(g, uid, s)[<<l, h>>], g, uid, s, l, h)
BY DEF FindStep, FindAt

\* The search finds nobody who is not there.
LEMMA BsearchFound ==
  ASSUME NEW S \in SUBSET (0 .. Inf), NEW s \in Seq(S), NEW u \in 0 .. Inf, Bsearch(u, s)
  PROVE  u \in Range(s)
<1> DEFINE N == Len(s)
           D == (0 .. N) \X (0 .. N)
           size == [p \in D |-> IF p[1] < p[2] THEN p[2] - p[1] ELSE 0]
<1>1. N \in Nat /\ DOMAIN s = 1 .. N /\ \A k \in 1 .. N : s[k] \in S /\ s[k] \in 0 .. Inf
  <2>1. N \in Nat /\ DOMAIN s = 1 .. N /\ \A k \in 1 .. N : s[k] \in S
    OBVIOUS
  <2>2. \A x \in S : x \in 0 .. Inf
    OBVIOUS
  <2> QED BY <2>1, <2>2
<1>2. ASSUME NEW l \in 0 .. N, NEW h \in 0 .. N, NEW m \in Int, m = (l + h) \div 2
      PROVE  /\ <<l, h>> \in D
             /\ size[<<l, h>>] = IF l < h THEN h - l ELSE 0
             /\ size[<<l, h>>] \in Nat /\ size[<<l, h>>] < N + 1
             /\ l < h => /\ m \in 0 .. N /\ m + 1 \in 1 .. N /\ m + 1 \in 0 .. N
                         /\ <<l, m>> \in D /\ <<m + 1, h>> \in D
                         /\ size[<<l, m>>] < size[<<l, h>>]
                         /\ size[<<m + 1, h>>] < size[<<l, h>>]
  <2>1. \A x \in 0 .. N, y \in 0 .. N :
           /\ <<x, y>> \in D
           /\ size[<<x, y>>] = IF x < y THEN y - x ELSE 0
    <3> SUFFICES ASSUME NEW x \in 0 .. N, NEW y \in 0 .. N
                 PROVE  <<x, y>> \in D /\ size[<<x, y>>] = IF x < y THEN y - x ELSE 0
      OBVIOUS
    <3>1. <<x, y>> \in D /\ <<x, y>>[1] = x /\ <<x, y>>[2] = y
      OBVIOUS
    <3> QED BY <3>1
  <2>2. l < h => l <= m /\ m < h /\ m \in 0 .. N /\ m + 1 \in 1 .. N /\ m + 1 \in 0 .. N
    BY <1>1, <1>2
  <2> HIDE DEF size, D
  <2> QED BY <1>1, <2>1, <2>2
<1>3. \A p \in D : \E l \in 0 .. N, h \in 0 .. N : p = <<l, h>>
  OBVIOUS
<1>4. size \in [D -> Nat] /\ \A p \in D : size[p] < N + 1
  <2>1. \A p \in D : size[p] \in Nat /\ size[p] < N + 1
    <3> SUFFICES ASSUME NEW p \in D PROVE size[p] \in Nat /\ size[p] < N + 1
      OBVIOUS
    <3>1. PICK l \in 0 .. N, h \in 0 .. N : p = <<l, h>>
      BY <1>3
    <3>2. PICK m \in Int : m = (l + h) \div 2
      BY <1>1
    <3>3. size[<<l, h>>] \in Nat /\ size[<<l, h>>] < N + 1
      BY <1>2, <3>2
    <3> HIDE DEF size, D
    <3> QED BY <3>1, <3>3
  <2> QED BY <2>1
<1> HIDE DEF size
<1>5. \E f : Finds(f, u, s)
  <2> DEFINE F == [g \in [D -> BOOLEAN] |-> FindStep(g, u, s)]
  <2>1. ASSUME NEW g \in [D -> BOOLEAN] PROVE FindStep(g, u, s) \in [D -> BOOLEAN]
    <3>1. ASSUME NEW l \in 0 .. N, NEW h \in 0 .. N
          PROVE  FindStep(g, u, s)[<<l, h>>] \in BOOLEAN
      <4>1. FindAt(FindStep(g, u, s)[<<l, h>>], g, u, s, l, h)
        BY FindStepAt
      <4>2. PICK m \in Int : m = (l + h) \div 2
        BY <1>1
      <4>3. l < h => g[<<l, m>>] \in BOOLEAN /\ g[<<m + 1, h>>] \in BOOLEAN
        <5>1. l < h => <<l, m>> \in D /\ <<m + 1, h>> \in D
          BY <1>2, <4>2
        <5> HIDE DEF D
        <5> QED BY <5>1
      <4>4. CASE l >= h
        BY <4>1, <4>4 DEF FindAt
      <4>5. CASE l < h
        <5>1. ~(l >= h)
          BY <4>5
        <5> QED BY <4>1, <4>2, <4>3, <4>5, <5>1, Zenon DEF FindAt
      <4> QED BY <1>1, <4>4, <4>5
    <3>2. FindStep(g, u, s) = [p \in D |-> FindStep(g, u, s)[p]]
      BY DEF FindStep
    <3>3. \A p \in D : FindStep(g, u, s)[p] \in BOOLEAN
      <4> HIDE DEF D
      <4> QED BY <1>3, <3>1
    <3> HIDE DEF D
    <3> QED BY <3>2, <3>3
  <2>2. F \in [[D -> BOOLEAN] -> [D -> BOOLEAN]]
    <3> HIDE DEF D
    <3> QED BY <2>1
  <2>3. \A g \in [D -> BOOLEAN] : F[g] = FindStep(g, u, s)
    OBVIOUS
  <2>4. ASSUME NEW g \in [D -> BOOLEAN], NEW h \in [D -> BOOLEAN], NEW p \in D,
               \A q \in D : size[q] < size[p] => g[q] = h[q]
        PROVE  F[g][p] = F[h][p]
    <3>1. PICK x \in 0 .. N, y \in 0 .. N : p = <<x, y>>
      BY <1>3
    <3>2. PICK m \in Int : m = (x + y) \div 2
      BY <1>1
    <3>3. x < y => g[<<x, m>>] = h[<<x, m>>] /\ g[<<m + 1, y>>] = h[<<m + 1, y>>]
      <4>1. x < y => /\ <<x, m>> \in D /\ <<m + 1, y>> \in D
                     /\ size[<<x, m>>] < size[<<x, y>>]
                     /\ size[<<m + 1, y>>] < size[<<x, y>>]
        BY <1>2, <3>2
      <4> HIDE DEF D, F
      <4> QED BY <2>4, <3>1, <4>1
    <3>4. FindStep(g, u, s)[<<x, y>>] = FindStep(h, u, s)[<<x, y>>]
      <4>1. /\ FindAt(FindStep(g, u, s)[<<x, y>>], g, u, s, x, y)
            /\ FindAt(FindStep(h, u, s)[<<x, y>>], h, u, s, x, y)
        BY FindStepAt
      <4>2. CASE x >= y
        BY <4>1, <4>2, Zenon DEF FindAt
      <4>3. CASE x < y
        <5>1. ~(x >= y)
          BY <4>3
        <5> QED BY <3>2, <3>3, <4>1, <4>3, <5>1, Zenon DEF FindAt
      <4> QED BY <1>1, <4>2, <4>3
    <3> HIDE DEF F, D
    <3>5. F[g] = FindStep(g, u, s) /\ F[h] = FindStep(h, u, s)
      BY <2>3
    <3> QED BY <3>1, <3>4, <3>5
  <2>5. [p \in D |-> FALSE] \in [D -> BOOLEAN]
    OBVIOUS
  <2> HIDE DEF F, D
  <2>6. Solved(F, D, BOOLEAN)
    <3>1. Inward(F, D, BOOLEAN, size)
      BY <2>4 DEF Inward
    <3>2. Recurs(F, D, BOOLEAN, size, N + 1, [p \in D |-> FALSE])
      BY <1>1, <1>4, <2>2, <2>5, <3>1 DEF Recurs
    <3> QED BY <3>2, Solution
  <2> QED BY <2>3, <2>6 DEF Finds, Solved
<1>6. PICK f : f = (CHOOSE v : Finds(v, u, s)) /\ Finds(f, u, s)
  BY <1>5
<1>7. SUFFICES ASSUME u \notin Range(s) PROVE FALSE
  OBVIOUS
<1> DEFINE T == {n \in Nat : \E p \in D : n = size[p] /\ f[p] # FALSE}
<1>8. T = {}
  <2> SUFFICES ASSUME T # {} PROVE FALSE
    OBVIOUS
  <2>1. T \in SUBSET Nat
    OBVIOUS
  <2>2. PICK n \in T : \A k \in T : n <= k
    BY <2>1, Least
  <2>3. PICK p \in D : n = size[p] /\ f[p] # FALSE
    BY <2>2
  <2>4. PICK l \in 0 .. N, h \in 0 .. N : p = <<l, h>>
    BY <1>3
  <2>5. \A q \in D : size[q] < size[p] => f[q] = FALSE
    <3> SUFFICES ASSUME NEW q \in D, size[q] < size[p], f[q] # FALSE PROVE FALSE
      OBVIOUS
    <3>1. size[q] \in T /\ size[q] \in Nat /\ size[p] \in Nat
      BY <1>4
    <3>2. ~(n <= size[q])
      <4> HIDE DEF T, D
      <4> QED BY <2>3, <3>1
    <3>3. n <= size[q]
      <4> HIDE DEF T
      <4> QED BY <2>2, <3>1
    <3> QED BY <3>2, <3>3
  <2>6. FindAt(f[<<l, h>>], f, u, s, l, h)
    <3>1. f = FindStep(f, u, s)
      BY <1>6 DEF Finds
    <3>2. FindAt(FindStep(f, u, s)[<<l, h>>], f, u, s, l, h)
      BY FindStepAt
    <3> QED BY <3>1, <3>2, Zenon
  <2>7. PICK m \in Int : m = (l + h) \div 2
    BY <1>1
  <2>8. CASE l >= h
    <3>1. f[<<l, h>>] = FALSE
      BY <2>6, <2>8, Zenon DEF FindAt
    <3> HIDE DEF D, T
    <3> QED BY <2>3, <2>4, <3>1
  <2>9. CASE l < h
    <3>1. f[<<l, m>>] = FALSE /\ f[<<m + 1, h>>] = FALSE
      <4>1. /\ <<l, m>> \in D /\ <<m + 1, h>> \in D
            /\ size[<<l, m>>] < size[<<l, h>>]
            /\ size[<<m + 1, h>>] < size[<<l, h>>]
        BY <1>2, <2>7, <2>9
      <4> HIDE DEF D, T
      <4> QED BY <2>4, <2>5, <4>1
    <3>2. Compar(u, s[m + 1]) # 0
      <4>1. m + 1 \in 1 .. N
        BY <1>2, <2>7, <2>9
      <4>2. s[m + 1] \in Range(s) /\ s[m + 1] \in 0 .. Inf
        BY <1>1, <4>1 DEF Range
      <4> QED BY <1>7, <4>2, EqualWords
    <3>3. ~(l >= h)
      BY <2>9
    <3>4. f[<<l, h>>] = FALSE
      BY <2>6, <2>7, <3>1, <3>2, <3>3, Zenon DEF FindAt
    <3> HIDE DEF D, T
    <3> QED BY <2>3, <2>4, <3>4
  <2> QED BY <1>1, <2>8, <2>9
<1>9. <<0, N>> \in D /\ size[<<0, N>>] \in Nat
  <2>1. 0 \in 0 .. N /\ N \in 0 .. N
    BY <1>1
  <2>2. <<0, N>> \in D
    BY <2>1
  <2> HIDE DEF D
  <2> QED BY <1>4, <2>2
<1>10. f[<<0, N>>] = FALSE
  <2> HIDE DEF D
  <2> QED BY <1>8, <1>9
<1> QED BY <1>6, <1>10, BsearchFinds
-----------------------------------------------------------------------------
(* Sorting.                                                                *)

Sorted(t) == \A j, k \in DOMAIN t : j < k => Rank(t[j]) >= Rank(t[k])

Arranged(s, p) == [k \in DOMAIN s |-> s[p[k]]]

\* An array of words can be sorted, so qsort has something to leave.
LEMMA SortExists ==
  ASSUME CompareWorks
  PROVE  \A s \in Seq(Words) : \E p \in Bijection(DOMAIN s, DOMAIN s) : Sorted(Arranged(s, p))
<1> DEFINE Sortable(s) == \E p \in Bijection(DOMAIN s, DOMAIN s) : Sorted(Arranged(s, p))
           Bad == {Len(s) : s \in {z \in Seq(Words) : ~Sortable(z)}}
<1>1. SUFFICES ASSUME Bad # {} PROVE FALSE
  OBVIOUS
<1>2. Bad \in SUBSET Nat
  OBVIOUS
<1>3. PICK n \in Bad : \A m \in Bad : n <= m
  BY <1>1, <1>2, Least
<1>4. PICK s \in Seq(Words) : Len(s) = n /\ ~Sortable(s)
  BY <1>3
<1>5. n \in Nat /\ DOMAIN s = 1 .. n /\ \A j \in 1 .. n : s[j] \in Words /\ Rank(s[j]) \in Nat
  BY <1>4, WordFacts
<1>6. CASE n = 0
  <2>1. [k \in DOMAIN s |-> k] \in Bijection(DOMAIN s, DOMAIN s)
    BY DEF Bijection, Injection, Surjection, IsInjective
  <2>2. Sorted(Arranged(s, [k \in DOMAIN s |-> k]))
    BY <1>5, <1>6 DEF Sorted, Arranged
  <2> QED BY <1>4, <2>1, <2>2
<1>7. CASE n # 0
  <2>1. PICK k \in 1 .. n : \A j \in 1 .. n : Rank(s[k]) <= Rank(s[j])
    <3> DEFINE T == {Rank(s[j]) : j \in 1 .. n}
    <3>1. T \in SUBSET Nat /\ T # {}
      BY <1>5, <1>7
    <3>2. PICK x \in T : \A y \in T : x <= y
      BY <3>1, Least
    <3> QED BY <3>2
  <2> PICK m \in Nat : m = n - 1
    BY <1>5, <1>7
  <2> DEFINE z == [i \in 1 .. m |-> IF i = k THEN s[n] ELSE s[i]]
  <2>2. m = n - 1 /\ n \in 1 .. n /\ 1 .. n = (1 .. m) \cup {n} /\ n \notin 1 .. m
    BY <1>5, <1>7
  <2>3. z \in Seq(Words) /\ Len(z) = m /\ DOMAIN z = 1 .. m
    BY <1>5, <2>2
  <2>4. Sortable(z)
    <3>1. m \notin Bad
      <4> SUFFICES ASSUME m \in Bad PROVE FALSE
        OBVIOUS
      <4>1. n <= m
        BY <1>3
      <4> HIDE DEF Bad
      <4> QED BY <1>5, <2>2, <4>1
    <3> QED BY <2>3, <3>1
  <2>5. PICK q \in Bijection(1 .. m, 1 .. m) : Sorted(Arranged(z, q))
    BY <2>3, <2>4
  <2>6. /\ q \in [1 .. m -> 1 .. m]
        /\ \A i, j \in 1 .. m : q[i] = q[j] => i = j
        /\ \A y \in 1 .. m : \E i \in 1 .. m : q[i] = y
    BY <2>5 DEF Bijection, Injection, Surjection, IsInjective
  <2> DEFINE p == [i \in 1 .. n |-> IF i = n THEN k ELSE IF q[i] = k THEN n ELSE q[i]]
  <2>7. p \in [1 .. n -> 1 .. n]
    BY <2>2, <2>6
  <2>8. ASSUME NEW i \in 1 .. n, NEW j \in 1 .. n, p[i] = p[j]
        PROVE  i = j
    <3>1. \A x \in 1 .. n : x # n => x \in 1 .. m /\ q[x] \in 1 .. m /\ q[x] # n
      <4>1. \A x \in 1 .. n : x # n => x \in 1 .. m
        BY <2>2
      <4>2. \A x \in 1 .. m : q[x] \in 1 .. m /\ x # n
        BY <2>2, <2>6
      <4>3. \A x \in 1 .. m : q[x] # n
        BY <2>2, <4>2
      <4> QED BY <4>1, <4>2, <4>3
    <3>2. p[n] = k /\ p[i] = (IF i = n THEN k ELSE IF q[i] = k THEN n ELSE q[i])
          /\ p[j] = (IF j = n THEN k ELSE IF q[j] = k THEN n ELSE q[j])
      BY <2>2
    <3> HIDE DEF p
    <3>3. CASE i = n
      BY <2>8, <3>1, <3>2, <3>3
    <3>4. CASE j = n
      BY <2>8, <3>1, <3>2, <3>4
    <3>5. CASE i # n /\ j # n
      <4>1. q[i] = q[j]
        BY <2>8, <3>1, <3>2, <3>5
      <4> QED BY <2>6, <3>1, <3>5, <4>1
    <3> QED BY <3>3, <3>4, <3>5
  <2>9. \A y \in 1 .. n : \E i \in 1 .. n : p[i] = y
    <3> SUFFICES ASSUME NEW y \in 1 .. n PROVE \E i \in 1 .. n : p[i] = y
      OBVIOUS
    <3>1. CASE y = k
      BY <2>2, <3>1
    <3>2. CASE y # k /\ y = n
      <4>1. PICK i \in 1 .. m : q[i] = k
        BY <2>2, <2>6, <3>2
      <4> QED BY <2>2, <3>2, <4>1
    <3>3. CASE y # k /\ y # n
      <4>1. PICK i \in 1 .. m : q[i] = y
        BY <2>2, <2>6, <3>3
      <4> QED BY <2>2, <3>3, <4>1
    <3> QED BY <3>1, <3>2, <3>3
  <2>10. p \in Bijection(DOMAIN s, DOMAIN s)
    BY <1>5, <2>7, <2>8, <2>9 DEF Bijection, Injection, Surjection, IsInjective
  <2>11. Sorted(Arranged(s, p))
    <3>1. ASSUME NEW i \in 1 .. m PROVE s[p[i]] = z[q[i]]
      <4>1. q[i] \in 1 .. m
        BY <2>6
      <4>2. p[i] = IF q[i] = k THEN n ELSE q[i]
        <5>1. i \in 1 .. n /\ i # n
          BY <2>2
        <5> QED BY <5>1
      <4>3. z[q[i]] = IF q[i] = k THEN s[n] ELSE s[q[i]]
        BY <4>1
      <4> QED BY <4>2, <4>3
    <3>2. s[p[n]] = s[k]
      BY <2>2
    <3>3. \A i, j \in 1 .. m : i < j => Rank(z[q[i]]) >= Rank(z[q[j]])
      BY <2>3, <2>5 DEF Sorted, Arranged
    <3>4. \A i \in 1 .. n : Rank(s[p[i]]) >= Rank(s[k])
      BY <1>5, <2>1, <2>7
    <3>5. ASSUME NEW i \in 1 .. n, NEW j \in 1 .. n, i < j
          PROVE  Rank(s[p[i]]) >= Rank(s[p[j]])
      <4>1. CASE j = n
        BY <3>2, <3>4, <4>1
      <4>2. CASE j # n
        <5>1. i \in 1 .. m /\ j \in 1 .. m
          BY <2>2, <3>5, <4>2
        <5> QED BY <3>1, <3>3, <3>5, <5>1
      <4> QED BY <4>1, <4>2
    <3> QED BY <1>5, <3>5 DEF Sorted, Arranged
  <2> QED BY <1>4, <2>10, <2>11
<1> QED BY <1>6, <1>7

\* What qsort leaves: the same words, in order.
LEMMA QsortIs ==
  ASSUME CompareWorks, NEW s \in Seq(Words), NEW t \in Qsort(s)
  PROVE  /\ t \in Seq(Words) /\ Len(t) = Len(s) /\ Sorted(t)
         /\ \E p \in [DOMAIN s -> DOMAIN s] :
               /\ \A k \in DOMAIN s : t[k] = s[p[k]]
               /\ \A j, k \in DOMAIN s : p[j] = p[k] => j = k
               /\ \A y \in DOMAIN s : \E k \in DOMAIN s : p[k] = y
<1> DEFINE arranged == {Arranged(s, p) : p \in Bijection(DOMAIN s, DOMAIN s)}
           Ascends(z) == \A j, k \in DOMAIN s : j < k => Compar(z[j], z[k]) <= 0
           ordered == {z \in arranged : Ascends(z)}
<1>1. t \in IF ordered = {} THEN arranged ELSE ordered
  BY DEF Qsort, Arranged
<1>2. \A z \in arranged : DOMAIN z = DOMAIN s /\ \A k \in DOMAIN s : z[k] \in Words
  BY DEF Arranged, Bijection, Injection
<1>3. \A z \in arranged : Ascends(z) <=> Sorted(z)
  <2> SUFFICES ASSUME NEW z \in arranged, NEW j \in DOMAIN s, NEW k \in DOMAIN s
               PROVE  Compar(z[j], z[k]) <= 0 <=> Rank(z[j]) >= Rank(z[k])
    BY <1>2 DEF Sorted
  <2>1. z[j] \in Words /\ z[k] \in Words
    BY <1>2
  <2> HIDE DEF arranged
  <2>2. Rank(z[j]) \in Nat /\ Rank(z[k]) \in Nat /\ (Rank(z[j]) = Rank(z[k]) => z[j] = z[k])
    BY <2>1, WordFacts
  <2> QED BY <2>1, <2>2, ComparIs
<1>4. PICK p0 \in Bijection(DOMAIN s, DOMAIN s) : Sorted(Arranged(s, p0))
  BY SortExists
<1>5. ordered # {}
  BY <1>3, <1>4
<1>6. t \in arranged /\ Sorted(t)
  BY <1>1, <1>3, <1>5
<1>7. PICK p \in Bijection(DOMAIN s, DOMAIN s) : t = Arranged(s, p)
  BY <1>6
<1>8. t \in Seq(Words) /\ Len(t) = Len(s)
  <2>1. t = [k \in 1 .. Len(s) |-> t[k]] /\ \A k \in 1 .. Len(s) : t[k] \in Words
    BY <1>2, <1>6, <1>7 DEF Arranged
  <2> QED BY <2>1
<1>9. /\ p \in [DOMAIN s -> DOMAIN s]
      /\ \A j, k \in DOMAIN s : p[j] = p[k] => j = k
      /\ \A y \in DOMAIN s : \E k \in DOMAIN s : p[k] = y
  BY <1>7 DEF Bijection, Injection, Surjection, IsInjective
<1>10. \A k \in DOMAIN s : t[k] = s[p[k]]
  BY <1>7 DEF Arranged
<1> QED BY <1>6, <1>8, <1>9, <1>10

\* The arrays that are stored: uids, each once, from the greatest down.
StoredLists == {s \in Seq(InOrder) : \A j, k \in DOMAIN s : j < k => s[j] > s[k]}

\* Sorting carries the words that were overwritten to the end, where they are dropped.
LEMMA Dropped ==
  ASSUME CompareWorks, NEW w \in Seq(Words),
         \A j, k \in DOMAIN w : w[j] = w[k] /\ w[j] # Inf => j = k,
         NEW G, G = {k \in DOMAIN w : w[k] = Inf},
         NEW u \in Qsort(w), NEW r, r = First(u, Len(w) - Cardinality(G))
  PROVE  r \in StoredLists /\ Range(r) = {w[k] : k \in DOMAIN w \ G}
<1>0. PICK N \in Nat : N = Len(w) /\ DOMAIN w = 1 .. N
  OBVIOUS
<1> DEFINE I == {k \in 1 .. N : u[k] = Inf}
<1>1. PICK p \in [DOMAIN w -> DOMAIN w] :
        /\ \A k \in DOMAIN w : u[k] = w[p[k]]
        /\ \A j, k \in DOMAIN w : p[j] = p[k] => j = k
        /\ \A y \in DOMAIN w : \E k \in DOMAIN w : p[k] = y
  BY QsortIs
<1>2. u \in Seq(Words) /\ Len(u) = N /\ Sorted(u) /\ DOMAIN w = 1 .. N /\ DOMAIN u = 1 .. N
  BY <1>0, QsortIs
<1>3. \A k \in 1 .. N : u[k] \in Words /\ Rank(u[k]) \in Nat
  <2>1. \A k \in 1 .. N : u[k] \in Words
    BY <1>2
  <2> QED BY <2>1, WordFacts
<1>4. Cardinality(I) = Cardinality(G) /\ IsFiniteSet(I)
  <2> DEFINE f == [k \in I |-> p[k]]
  <2>1. f \in [I -> G] /\ \A j, k \in I : f[j] = f[k] => j = k
    BY <1>1, <1>2
  <2>2. \A y \in G : \E k \in I : f[k] = y
    BY <1>1, <1>2
  <2>3. f \in Bijection(I, G)
    BY <2>1, <2>2 DEF Bijection, Injection, Surjection, IsInjective
  <2>4. IsFiniteSet(I)
    <3>1. IsFiniteSet(1 .. N)
      BY <1>2, FS_Interval
    <3> QED BY <3>1, FS_Subset
  <2> QED BY <2>3, <2>4, FS_Bijection DEF ExistsBijection
<1>5. \A j \in I, k \in 1 .. N : j < k => k \in I
  <2> SUFFICES ASSUME NEW j \in I, NEW k \in 1 .. N, j < k PROVE u[k] = Inf
    OBVIOUS
  <2>1. Rank(u[j]) >= Rank(u[k]) /\ Rank(u[j]) = 0 /\ Rank(Inf) = 0 /\ Inf \in Words
    BY <1>2 DEF Sorted, Rank, Words
  <2>2. Rank(u[k]) = Rank(Inf)
    BY <1>3, <2>1
  <2> QED BY <1>3, <2>1, <2>2, WordFacts
<1>6. PICK m \in 0 .. N : I = m + 1 .. N /\ Cardinality(I) = N - m
  <2>1. CASE I = {}
    <3>1. Cardinality(I) = 0
      BY <2>1, FS_EmptySet
    <3> HIDE DEF I
    <3>2. I = N + 1 .. N
      BY <2>1
    <3> QED BY <3>1, <3>2
  <2>2. CASE I # {}
    <3>1. I \in SUBSET Nat
      BY <1>2
    <3>2. PICK x \in I : \A y \in I : x <= y
      BY <2>2, <3>1, Least
    <3>3. x \in 1 .. N
      OBVIOUS
    <3>4. \A y \in x .. N : y \in I
      <4>1. \A y \in x .. N : y \in 1 .. N /\ (y = x \/ x < y)
        BY <3>3
      <4> QED BY <1>5, <3>2, <4>1
    <3>5. \A y \in I : y \in x .. N
      BY <3>2
    <3> HIDE DEF I
    <3>6. I = x .. N
      BY <3>4, <3>5
    <3>7. Cardinality(I) = N - x + 1
      <4>1. x \in Int /\ N \in Int /\ x <= N
        BY <3>3
      <4>2. Cardinality(x .. N) = N - x + 1
        BY <4>1, FS_Interval
      <4> QED BY <3>6, <4>2
    <3>8. x - 1 \in 0 .. N /\ x - 1 + 1 = x /\ N - (x - 1) = N - x + 1
      BY <3>3
    <3> QED BY <3>6, <3>7, <3>8
  <2> QED BY <2>1, <2>2
<1> HIDE DEF I
<1>7. m \in Nat /\ N - Cardinality(G) = m
  BY <1>4, <1>6
<1>8. \A k \in 1 .. m : k \in 1 .. N /\ k \notin I
  BY <1>6
<1>9. \A k \in 1 .. N : k \in I <=> u[k] = Inf
  BY DEF I
<1>10. Len(r) = m /\ DOMAIN r = 1 .. m /\ \A k \in 1 .. m : r[k] = u[k] /\ r[k] \in InOrder
  <2>1. r = SubSeq(u, 1, m)
    BY <1>0, <1>7 DEF First
  <2>2. Len(r) = m /\ DOMAIN r = 1 .. m /\ \A k \in 1 .. m : r[k] = u[k]
    BY <1>2, <1>6, <1>7, <2>1
  <2> QED BY <1>3, <1>8, <1>9, <2>2 DEF Words
<1>11. r \in Seq(InOrder)
  <2>1. r = SubSeq(u, 1, m)
    BY <1>0, <1>7 DEF First
  <2>2. r \in Seq(Words)
    <3>1. \A k \in 1 .. m : u[k] \in Words
      BY <1>3, <1>8
    <3>2. m \in 0 .. Len(u)
      BY <1>2, <1>6
    <3>3. First(u, m) \in Seq(Words)
      BY <1>2, <3>2, PrefixIs
    <3> QED BY <2>1, <3>3 DEF First
  <2>3. r = [k \in 1 .. m |-> r[k]]
    BY <1>10, <2>2
  <2> QED BY <1>10, <1>7, <2>3
<1>12. ASSUME NEW j \in 1 .. m, NEW k \in 1 .. m, j < k
      PROVE  r[j] > r[k]
  <2>1. j \in 1 .. N /\ k \in 1 .. N /\ u[j] \in InOrder /\ u[k] \in InOrder /\ u[j] # Inf /\ u[k] # Inf
    BY <1>10, <1>8, WordFacts
  <2>2. Rank(u[j]) >= Rank(u[k]) /\ Rank(u[j]) = u[j] + 1 /\ Rank(u[k]) = u[k] + 1
    BY <1>2, <1>12, <2>1 DEF Sorted, Rank
  <2>3. u[j] # u[k]
    <3>1. j # k
      BY <1>7, <1>12
    <3>2. u[j] = w[p[j]] /\ u[k] = w[p[k]] /\ p[j] \in DOMAIN w /\ p[k] \in DOMAIN w /\ p[j] # p[k]
      BY <1>0, <1>1, <2>1, <3>1
    <3> QED BY <2>1, <3>2
  <2>4. u[j] \in Int /\ u[k] \in Int /\ u[j] >= u[k]
    <3>1. \A a \in InOrder : a \in Int
      BY WordFacts
    <3>2. u[j] \in Int /\ u[k] \in Int
      BY <2>1, <3>1
    <3> QED BY <2>2, <3>2
  <2>5. r[j] = u[j] /\ r[k] = u[k]
    BY <1>10
  <2> QED BY <2>3, <2>4, <2>5
<1>13. Range(r) = {w[k] : k \in DOMAIN w \ G}
  <2>1. ASSUME NEW k \in 1 .. m PROVE \E y \in DOMAIN w \ G : r[k] = w[y]
    <3>1. k \in 1 .. N /\ r[k] = w[p[k]] /\ p[k] \in DOMAIN w /\ w[p[k]] # Inf
      <4>1. k \in 1 .. N /\ k \in DOMAIN w /\ r[k] = u[k] /\ r[k] \in InOrder
        BY <1>0, <1>10, <1>8, <2>1
      <4>2. u[k] = w[p[k]] /\ p[k] \in DOMAIN w
        BY <1>1, <4>1
      <4> QED BY <4>1, <4>2, WordFacts
    <3> QED BY <3>1
  <2>2. ASSUME NEW y \in DOMAIN w \ G PROVE \E k \in 1 .. m : r[k] = w[y]
    <3>1. PICK k \in DOMAIN w : p[k] = y
      BY <1>1
    <3>2. k \in 1 .. N /\ u[k] = w[y] /\ k \notin I
      BY <1>0, <1>1, <1>9, <2>2, <3>1
    <3>3. k \in 1 .. m
      BY <1>6, <1>7, <3>2
    <3> QED BY <1>10, <3>2, <3>3
  <2>3. Range(r) = {r[k] : k \in 1 .. m}
    BY <1>10 DEF Range
  <2>4. {r[k] : k \in 1 .. m} = {w[k] : k \in DOMAIN w \ G}
    <3>1. \A x \in {r[k] : k \in 1 .. m} : x \in {w[k] : k \in DOMAIN w \ G}
      BY <2>1
    <3>2. \A x \in {w[k] : k \in DOMAIN w \ G} : x \in {r[k] : k \in 1 .. m}
      BY <2>2
    <3> QED BY <3>1, <3>2
  <2> QED BY <2>3, <2>4
<1> QED BY <1>10, <1>11, <1>12, <1>13 DEF StoredLists

\* remove_dups leaves each uid once.
LEMMA RemoveDupsIs ==
  ASSUME CompareWorks, NEW s \in Seq(InOrder), NEW r \in RemoveDups(s)
  PROVE  r \in StoredLists /\ Range(r) = Range(s)
<1> DEFINE repeated(t) == {k \in DOMAIN t : k > 1 /\ t[k] = t[k - 1]}
           marked(t) == [k \in DOMAIN t |-> IF k \in repeated(t) THEN Inf ELSE t[k]]
<1>1. s \in Seq(Words) /\ Len(s) \in Nat /\ DOMAIN s = 1 .. Len(s)
      /\ \A k \in 1 .. Len(s) : s[k] \in InOrder
  BY DEF Words
<1>2. PICK t \in Qsort(s) :
        r \in {First(u, Len(s) - Cardinality(repeated(t))) : u \in Qsort(marked(t))}
  BY DEF RemoveDups
<1>3. PICK u \in Qsort(marked(t)) : r = First(u, Len(s) - Cardinality(repeated(t)))
  BY <1>2
<1>4. PICK p \in [DOMAIN s -> DOMAIN s] :
        /\ \A k \in DOMAIN s : t[k] = s[p[k]]
        /\ \A j, k \in DOMAIN s : p[j] = p[k] => j = k
        /\ \A y \in DOMAIN s : \E k \in DOMAIN s : p[k] = y
  <2>1. t \in Qsort(s) /\ s \in Seq(Words)
    BY <1>1, <1>2
  <2> QED BY <2>1, QsortIs
<1>5. t \in Seq(Words) /\ Len(t) = Len(s) /\ DOMAIN t = 1 .. Len(s) /\ Sorted(t)
  BY <1>1, <1>2, QsortIs
<1>6. \A k \in 1 .. Len(s) : t[k] \in InOrder /\ t[k] # Inf /\ Rank(t[k]) = t[k] + 1
  <2>1. \A k \in 1 .. Len(s) : t[k] \in InOrder
    BY <1>1, <1>4
  <2> QED BY <2>1, WordFacts DEF Rank
<1>7. Range(t) = Range(s)
  BY <1>1, <1>4, <1>5 DEF Range
<1> DEFINE w == marked(t)
           G == repeated(t)
<1>8. w \in Seq(Words) /\ Len(w) = Len(s) /\ DOMAIN w = 1 .. Len(s)
  <2>1. \A k \in 1 .. Len(s) : w[k] \in Words
    BY <1>5, <1>6 DEF Words
  <2>2. w = [k \in 1 .. Len(s) |-> w[k]]
    BY <1>5
  <2> HIDE DEF w
  <2> QED BY <1>1, <2>1, <2>2
<1>9. G = {k \in DOMAIN w : w[k] = Inf}
  BY <1>5, <1>6, <1>8
<1>10. \A k \in DOMAIN w \ G : w[k] = t[k]
  BY <1>5, <1>8
<1>11. ASSUME NEW j \in DOMAIN w, NEW k \in DOMAIN w, j < k, w[j] = w[k], w[j] # Inf
       PROVE  FALSE
  <2>1. j \notin G /\ k \notin G /\ t[j] = t[k]
    BY <1>9, <1>10, <1>11
  <2>2. k > 1 /\ k - 1 \in 1 .. Len(s) /\ j <= k - 1 /\ k \in 1 .. Len(s) /\ j \in 1 .. Len(s)
    BY <1>1, <1>8, <1>11
  <2>3. t[k - 1] \in Int /\ t[k] \in Int /\ t[j] >= t[k - 1] /\ t[k - 1] >= t[k]
    <3>1. \A x, y \in 1 .. Len(s) : x < y => t[x] >= t[y]
      <4> SUFFICES ASSUME NEW x \in 1 .. Len(s), NEW y \in 1 .. Len(s), x < y
                   PROVE  t[x] >= t[y]
        OBVIOUS
      <4>1. Rank(t[x]) >= Rank(t[y])
        BY <1>5 DEF Sorted
      <4>2. t[x] \in Int /\ t[y] \in Int /\ Rank(t[x]) = t[x] + 1 /\ Rank(t[y]) = t[y] + 1
        BY <1>6, WordFacts
      <4> QED BY <4>1, <4>2
    <3>2. t[k - 1] \in Int /\ t[k] \in Int /\ t[j] \in Int
      <4>1. \A a \in InOrder : a \in Int
        BY WordFacts
      <4> QED BY <1>6, <2>2, <4>1
    <3>3. j = k - 1 \/ j < k - 1
      BY <2>2
    <3> QED BY <2>2, <3>1, <3>2, <3>3
  <2>4. t[k - 1] = t[k]
    BY <2>1, <2>3
  <2> QED BY <1>5, <2>1, <2>2, <2>4
<1>12. \A j, k \in DOMAIN w : w[j] = w[k] /\ w[j] # Inf => j = k
  <2> HIDE DEF w, G
  <2> SUFFICES ASSUME NEW j \in DOMAIN w, NEW k \in DOMAIN w, w[j] = w[k], w[j] # Inf, j # k
               PROVE  FALSE
    OBVIOUS
  <2>1. j < k \/ k < j
    BY <1>8
  <2> QED BY <1>11, <2>1
<1>13. r \in StoredLists /\ Range(r) = {w[k] : k \in DOMAIN w \ G}
  <2>1. u \in Qsort(w) /\ r = First(u, Len(w) - Cardinality(G))
    BY <1>3, <1>8
  <2> HIDE DEF w, G
  <2> QED BY <1>8, <1>9, <1>12, <2>1, Dropped
<1>14. {w[k] : k \in DOMAIN w \ G} = Range(t)
  <2>1. ASSUME NEW k \in 1 .. Len(s) PROVE \E j \in DOMAIN w \ G : w[j] = t[k]
    <3> DEFINE T == {j \in 1 .. Len(s) : t[j] = t[k]}
    <3>1. T \in SUBSET Nat /\ k \in T
      BY <1>1
    <3>2. PICK x \in T : \A y \in T : x <= y
      BY <3>1, Least
    <3>3. x \notin G
      <4> SUFFICES ASSUME x \in G PROVE FALSE
        OBVIOUS
      <4>1. x > 1 /\ t[x - 1] = t[x] /\ x - 1 \in 1 .. Len(s)
        BY <1>1, <1>5, <3>2
      <4>2. x - 1 \in T
        BY <3>2, <4>1
      <4> QED BY <3>2, <4>1, <4>2
    <3>4. x \in DOMAIN w /\ w[x] = t[x] /\ t[x] = t[k]
      BY <1>8, <1>10, <3>2, <3>3
    <3> QED BY <3>3, <3>4
  <2>2. ASSUME NEW j \in DOMAIN w \ G PROVE w[j] \in Range(t)
    BY <1>5, <1>8, <1>10, <2>2 DEF Range
  <2> HIDE DEF w, G
  <2>3. \A y \in Range(t) : \E k \in 1 .. Len(s) : y = t[k]
    BY <1>5 DEF Range
  <2> QED BY <2>1, <2>2, <2>3
<1> QED BY <1>7, <1>13, <1>14
-----------------------------------------------------------------------------
(* The merge and the search.                                               *)

\* A stored list descends.
LEMMA Descends ==
  ASSUME CompareWorks, NEW s \in StoredLists
  PROVE  /\ Len(s) \in Nat /\ DOMAIN s = 1 .. Len(s)
         /\ \A j \in 1 .. Len(s) : s[j] \in InOrder /\ s[j] \in Int /\ s[j] \in Words
         /\ \A j, k \in 1 .. Len(s) : j < k => s[j] > s[k]
         /\ \A j, k \in 1 .. Len(s) : s[j] = s[k] => j = k
<1>1. Len(s) \in Nat /\ DOMAIN s = 1 .. Len(s) /\ \A j \in 1 .. Len(s) : s[j] \in InOrder
  BY DEF StoredLists
<1>2. \A j \in 1 .. Len(s) : s[j] \in Int /\ s[j] \in Words
  BY <1>1, WordFacts DEF Words
<1>3. \A j, k \in 1 .. Len(s) : j < k => s[j] > s[k]
  BY <1>1 DEF StoredLists
<1>4. ASSUME NEW j \in 1 .. Len(s), NEW k \in 1 .. Len(s), s[j] = s[k] PROVE j = k
  <2>1. j < k \/ k < j \/ j = k
    OBVIOUS
  <2>2. s[j] \in Int /\ s[k] \in Int
    BY <1>2
  <2> QED BY <1>3, <1>4, <2>1, <2>2
<1> QED BY <1>1, <1>2, <1>3, <1>4

\* The comparison of two uids is the one of their values, turned around.
LEMMA UidOrder ==
  ASSUME CompareWorks, NEW a \in InOrder, NEW b \in InOrder
  PROVE  /\ CompareUids(a, b) = IF a = b THEN 0 ELSE IF a > b THEN -1 ELSE 1
         /\ Compar(a, b) = CompareUids(a, b)
         /\ a \in Int /\ b \in Int
BY ComparIs, WordFacts DEF Words, Rank

\* The places from i on whose uid is at j or later.
Common(o, r, i, j) == {x \in i .. Len(o) : \E y \in j .. Len(r) : o[x] = r[y]}

LEMMA CommonStep ==
  ASSUME CompareWorks, NEW o \in StoredLists, NEW r \in StoredLists,
         NEW i \in 1 .. Len(o) + 1, NEW j \in 1 .. Len(r) + 1
  PROVE  Common(o, r, i, j) =
            IF i > Len(o) \/ j > Len(r) THEN {}
            ELSE IF CompareUids(o[i], r[j]) = 0 THEN {i} \cup Common(o, r, i + 1, j + 1)
            ELSE IF CompareUids(o[i], r[j]) < 0 THEN Common(o, r, i + 1, j)
            ELSE Common(o, r, i, j + 1)
<1>1. Len(o) \in Nat /\ Len(r) \in Nat
  BY Descends
<1>2. CASE i > Len(o) \/ j > Len(r)
  BY <1>1, <1>2 DEF Common
<1>3. CASE ~(i > Len(o) \/ j > Len(r))
  <2>1. i \in 1 .. Len(o) /\ j \in 1 .. Len(r)
    BY <1>1, <1>3
  <2>2. o[i] \in InOrder /\ r[j] \in InOrder
    BY <2>1, Descends
  <2>3. /\ CompareUids(o[i], r[j]) = IF o[i] = r[j] THEN 0 ELSE IF o[i] > r[j] THEN -1 ELSE 1
        /\ o[i] \in Int /\ r[j] \in Int
    BY <2>2, UidOrder
  <2>4. \A x \in i .. Len(o) : x \in 1 .. Len(o) /\ o[x] \in Int /\ (x = i \/ (x \in i + 1 .. Len(o) /\ o[x] < o[i]))
    <3> SUFFICES ASSUME NEW x \in i .. Len(o), x # i
                 PROVE  x \in 1 .. Len(o) /\ o[x] \in Int /\ x \in i + 1 .. Len(o) /\ o[x] < o[i]
      BY <2>1, <2>3
    <3>1. x \in 1 .. Len(o) /\ x \in i + 1 .. Len(o) /\ i < x
      BY <1>1, <2>1
    <3> QED BY <2>1, <3>1, Descends
  <2>5. \A y \in j .. Len(r) : y \in 1 .. Len(r) /\ r[y] \in Int /\ (y = j \/ (y \in j + 1 .. Len(r) /\ r[y] < r[j]))
    <3> SUFFICES ASSUME NEW y \in j .. Len(r), y # j
                 PROVE  y \in 1 .. Len(r) /\ r[y] \in Int /\ y \in j + 1 .. Len(r) /\ r[y] < r[j]
      BY <2>1, <2>3
    <3>1. y \in 1 .. Len(r) /\ y \in j + 1 .. Len(r) /\ j < y
      BY <1>1, <2>1
    <3> QED BY <2>1, <3>1, Descends
  <2>6. /\ i \in i .. Len(o) /\ j \in j .. Len(r)
        /\ \A x \in i + 1 .. Len(o) : x \in i .. Len(o) /\ x # i
        /\ \A y \in j + 1 .. Len(r) : y \in j .. Len(r) /\ y # j
    BY <2>1
  <2>7. CASE o[i] = r[j]
    <3>1. \A x \in Common(o, r, i, j) : x \in {i} \cup Common(o, r, i + 1, j + 1)
      BY <2>3, <2>4, <2>5, <2>7 DEF Common
    <3>2. \A x \in {i} \cup Common(o, r, i + 1, j + 1) : x \in Common(o, r, i, j)
      BY <2>6, <2>7 DEF Common
    <3> QED BY <1>3, <2>3, <2>7, <3>1, <3>2
  <2>8. CASE o[i] > r[j]
    <3>1. \A y \in j .. Len(r) : r[y] # o[i]
      BY <2>3, <2>5, <2>8
    <3>2. \A x \in Common(o, r, i, j) : x \in Common(o, r, i + 1, j)
      BY <2>4, <3>1 DEF Common
    <3>3. \A x \in Common(o, r, i + 1, j) : x \in Common(o, r, i, j)
      BY <2>6 DEF Common
    <3>4. CompareUids(o[i], r[j]) = -1
      BY <2>3, <2>8
    <3>5. Common(o, r, i, j) = Common(o, r, i + 1, j)
      BY <3>2, <3>3
    <3> QED BY <1>3, <3>4, <3>5
  <2>9. CASE o[i] < r[j]
    <3>1. \A x \in i .. Len(o) : o[x] # r[j]
      BY <2>3, <2>4, <2>9
    <3>2. \A x \in Common(o, r, i, j) : x \in Common(o, r, i, j + 1)
      BY <2>5, <3>1 DEF Common
    <3>3. \A x \in Common(o, r, i, j + 1) : x \in Common(o, r, i, j)
      BY <2>6 DEF Common
    <3>4. CompareUids(o[i], r[j]) = 1
      BY <2>3, <2>9
    <3>5. Common(o, r, i, j) = Common(o, r, i, j + 1)
      BY <3>2, <3>3
    <3> QED BY <1>3, <3>4, <3>5
  <2> QED BY <2>3, <2>7, <2>8, <2>9
<1> QED BY <1>2, <1>3

\* The merge of two stored lists meets exactly the uids that are in both.
LEMMA MatchedIs ==
  ASSUME CompareWorks, NEW o \in StoredLists, NEW r \in StoredLists
  PROVE  Matched(o, r) = {i \in DOMAIN o : o[i] \in Range(r)}
<1>1. Len(o) \in Nat /\ Len(r) \in Nat /\ DOMAIN o = 1 .. Len(o) /\ DOMAIN r = 1 .. Len(r)
  BY Descends
<1>2. \E w : Walks(w, o, r)
  <2> DEFINE D == (1 .. Len(o) + 1) \X (1 .. Len(r) + 1)
  <2>1. PICK v : v = [p \in D |-> Common(o, r, p[1], p[2])]
    OBVIOUS
  <2>2. \A i \in 1 .. Len(o) + 1, j \in 1 .. Len(r) + 1 : v[<<i, j>>] = Common(o, r, i, j)
    BY <2>1
  <2>3. ASSUME NEW p \in D
        PROVE  Common(o, r, p[1], p[2]) =
                  IF p[1] > Len(o) \/ p[2] > Len(r) THEN {}
                  ELSE IF CompareUids(o[p[1]], r[p[2]]) = 0 THEN {p[1]} \cup v[<<p[1] + 1, p[2] + 1>>]
                  ELSE IF CompareUids(o[p[1]], r[p[2]]) < 0 THEN v[<<p[1] + 1, p[2]>>]
                  ELSE v[<<p[1], p[2] + 1>>]
    <3>1. PICK i \in 1 .. Len(o) + 1, j \in 1 .. Len(r) + 1 : p[1] = i /\ p[2] = j
      OBVIOUS
    <3>2. ~(i > Len(o) \/ j > Len(r)) => i + 1 \in 1 .. Len(o) + 1 /\ j + 1 \in 1 .. Len(r) + 1
      BY <1>1
    <3> HIDE DEF D
    <3> QED BY <2>2, <3>1, <3>2, CommonStep
  <2>4. Walks(v, o, r)
    BY <2>1, <2>3 DEF Walks, WalkStep
  <2> QED BY <2>4
<1>3. PICK w : w = (CHOOSE v : Walks(v, o, r)) /\ Walks(w, o, r)
  BY <1>2
<1>4. \A i \in 1 .. Len(o) + 1, j \in 1 .. Len(r) + 1 :
         w[<<i, j>>] = IF i > Len(o) \/ j > Len(r) THEN {}
                       ELSE IF CompareUids(o[i], r[j]) = 0 THEN {i} \cup w[<<i + 1, j + 1>>]
                       ELSE IF CompareUids(o[i], r[j]) < 0 THEN w[<<i + 1, j>>]
                       ELSE w[<<i, j + 1>>]
  <2> TAKE i \in 1 .. Len(o) + 1, j \in 1 .. Len(r) + 1
  <2>1. PICK p \in (1 .. Len(o) + 1) \X (1 .. Len(r) + 1) : p = <<i, j>>
    <3>1. <<i, j>> \in (1 .. Len(o) + 1) \X (1 .. Len(r) + 1)
      OBVIOUS
    <3> QED BY <3>1, Zenon
  <2>2. Walks(w, o, r)
    BY <1>3
  <2>3. w[p] = IF p[1] > Len(o) \/ p[2] > Len(r) THEN {}
               ELSE IF CompareUids(o[p[1]], r[p[2]]) = 0
                    THEN {p[1]} \cup w[<<p[1] + 1, p[2] + 1>>]
               ELSE IF CompareUids(o[p[1]], r[p[2]]) < 0 THEN w[<<p[1] + 1, p[2]>>]
               ELSE w[<<p[1], p[2] + 1>>]
    BY <2>1, <2>2, Zenon DEF Walks, WalkStep
  <2> QED BY <2>1, <2>3
<1> DEFINE Wrong == {p \in (1 .. Len(o) + 1) \X (1 .. Len(r) + 1) :
                        w[p] # Common(o, r, p[1], p[2])}
           Left(p) == (Len(o) + 1 - p[1]) + (Len(r) + 1 - p[2])
<1>5. Wrong = {}
  <2> SUFFICES ASSUME Wrong # {} PROVE FALSE
    OBVIOUS
  <2> DEFINE T == {Left(p) : p \in Wrong}
  <2>1. T \in SUBSET Nat /\ T # {}
    BY <1>1
  <2> HIDE DEF T
  <2>9. PICK n \in T : \A k \in T : n <= k
    BY <2>1, Least
  <2> USE DEF T
  <2>2. n \in {Left(p) : p \in Wrong} /\ \A k \in {Left(p) : p \in Wrong} : n <= k
    BY <2>9
  <2>3. PICK p \in Wrong : n = Left(p)
    BY <2>2
  <2>4. PICK i \in 1 .. Len(o) + 1, j \in 1 .. Len(r) + 1 : p = <<i, j>>
    OBVIOUS
  <2>5. w[<<i, j>>] # Common(o, r, i, j)
    BY <2>4
  <2>6. \A x \in 1 .. Len(o) + 1, y \in 1 .. Len(r) + 1 :
           (Len(o) + 1 - x) + (Len(r) + 1 - y) < (Len(o) + 1 - i) + (Len(r) + 1 - j)
              => w[<<x, y>>] = Common(o, r, x, y)
    <3> SUFFICES ASSUME NEW x \in 1 .. Len(o) + 1, NEW y \in 1 .. Len(r) + 1,
                        w[<<x, y>>] # Common(o, r, x, y)
                 PROVE  ~((Len(o) + 1 - x) + (Len(r) + 1 - y) < (Len(o) + 1 - i) + (Len(r) + 1 - j))
      OBVIOUS
    <3>1. <<x, y>> \in Wrong
      OBVIOUS
    <3>2. n <= Left(<<x, y>>)
      BY <2>2, <3>1
    <3>3. Left(<<x, y>>) = (Len(o) + 1 - x) + (Len(r) + 1 - y)
      OBVIOUS
    <3>4. n = (Len(o) + 1 - i) + (Len(r) + 1 - j)
      BY <2>3, <2>4
    <3> HIDE DEF Left
    <3> QED BY <1>1, <3>2, <3>3, <3>4
  <2>7. ~(i > Len(o) \/ j > Len(r)) =>
           /\ w[<<i + 1, j>>] = Common(o, r, i + 1, j)
           /\ w[<<i, j + 1>>] = Common(o, r, i, j + 1)
           /\ w[<<i + 1, j + 1>>] = Common(o, r, i + 1, j + 1)
    <3> SUFFICES ASSUME ~(i > Len(o) \/ j > Len(r))
                 PROVE  /\ w[<<i + 1, j>>] = Common(o, r, i + 1, j)
                        /\ w[<<i, j + 1>>] = Common(o, r, i, j + 1)
                        /\ w[<<i + 1, j + 1>>] = Common(o, r, i + 1, j + 1)
      OBVIOUS
    <3> HIDE DEF Wrong, Left
    <3>1. i + 1 \in 1 .. Len(o) + 1 /\ j + 1 \in 1 .. Len(r) + 1
      <4>1. i <= Len(o) /\ j <= Len(r)
        BY <1>1
      <4> QED BY <1>1, <4>1
    <3> QED BY <1>1, <2>6, <3>1
  <2> HIDE DEF Wrong, Left
  <2>8. w[<<i, j>>] = Common(o, r, i, j)
    <3>1. Walks(w, o, r) /\ Len(o) \in Nat /\ Len(r) \in Nat
      BY <1>1, <1>3
    <3>2. w[<<i, j>>] = IF i > Len(o) \/ j > Len(r) THEN {}
                       ELSE IF CompareUids(o[i], r[j]) = 0 THEN {i} \cup w[<<i + 1, j + 1>>]
                       ELSE IF CompareUids(o[i], r[j]) < 0 THEN w[<<i + 1, j>>]
                       ELSE w[<<i, j + 1>>]
      BY <1>4
    <3> QED BY <2>7, <3>2, CommonStep
  <2> QED BY <2>5, <2>8
<1>6. Matched(o, r) = Common(o, r, 1, 1)
  <2>1. <<1, 1>> \in (1 .. Len(o) + 1) \X (1 .. Len(r) + 1)
    BY <1>1
  <2>2. w[<<1, 1>>] = Common(o, r, 1, 1)
    BY <1>5, <2>1
  <2> QED BY <1>3, <2>2, MatchedWalks
<1>7. Common(o, r, 1, 1) = {i \in DOMAIN o : o[i] \in Range(r)}
  BY <1>1 DEF Common, Range
<1> QED BY <1>6, <1>7

\* Is u among the places l + 1 to h?
Between(u, s, l, h) == \E k \in l + 1 .. h : s[k] = u

LEMMA BetweenStep ==
  ASSUME CompareWorks, NEW s \in StoredLists, NEW u \in InOrder,
         NEW l \in 0 .. Len(s), NEW h \in 0 .. Len(s), NEW m \in Int, m = (l + h) \div 2
  PROVE  /\ l >= h => ~Between(u, s, l, h)
         /\ l < h =>
               /\ m \in 0 .. Len(s) /\ m + 1 \in 0 .. Len(s) /\ l <= m /\ m < h
               /\ Compar(u, s[m + 1]) \in {-1, 0, 1}
               /\ Compar(u, s[m + 1]) = 0 => Between(u, s, l, h)
               /\ Compar(u, s[m + 1]) = -1 => (Between(u, s, l, h) <=> Between(u, s, l, m))
               /\ Compar(u, s[m + 1]) = 1 => (Between(u, s, l, h) <=> Between(u, s, m + 1, h))
<1>1. Len(s) \in Nat
  BY Descends
<1>2. l < h => m \in 0 .. Len(s) /\ m + 1 \in 1 .. Len(s) /\ l <= m /\ m < h
  BY <1>1
<1>3. CASE l >= h
  <2>1. l + 1 .. h = {}
    BY <1>1, <1>3
  <2> QED BY <1>1, <1>3, <2>1 DEF Between
<1>4. CASE l < h
  <2>1. PICK x \in 1 .. Len(s) : x = m + 1
    BY <1>2, <1>4
  <2>2. s[x] \in InOrder
    BY Descends
  <2>3. /\ Compar(u, s[x]) = IF u = s[x] THEN 0 ELSE IF u > s[x] THEN -1 ELSE 1
        /\ u \in Int /\ s[x] \in Int
    BY <2>2, UidOrder
  <2>4. \A k \in l + 1 .. h : k \in 1 .. Len(s) /\ s[k] \in Int
    BY <1>1, Descends
  <2>5. \A k \in l + 1 .. h : k < x => s[k] > s[x]
    BY <2>4, Descends
  <2>6. \A k \in l + 1 .. h : x < k => s[x] > s[k]
    BY <2>4, Descends
  <2>7. x \in l + 1 .. h
    BY <1>2, <1>4, <2>1
  <2>8. CASE u = s[x]
    <3>1. Between(u, s, l, h)
      BY <2>7, <2>8 DEF Between
    <3> QED BY <1>2, <1>4, <2>1, <2>3, <2>8, <3>1
  <2>9. CASE u > s[x]
    <3>1. \A k \in l + 1 .. h : s[k] = u => k \in l + 1 .. m
      <4> SUFFICES ASSUME NEW k \in l + 1 .. h, s[k] = u PROVE k < x
        BY <1>2, <1>4, <2>1
      <4> QED BY <2>3, <2>6, <2>9
    <3>2. \A k \in l + 1 .. m : k \in l + 1 .. h
      BY <1>2, <1>4
    <3>3. Between(u, s, l, h) <=> Between(u, s, l, m)
      BY <3>1, <3>2 DEF Between
    <3>4. Compar(u, s[m + 1]) = -1
      BY <2>1, <2>3, <2>9
    <3> QED BY <1>2, <1>4, <3>3, <3>4
  <2>10. CASE u < s[x]
    <3>1. \A k \in l + 1 .. h : s[k] = u => k \in (m + 1) + 1 .. h
      <4> SUFFICES ASSUME NEW k \in l + 1 .. h, s[k] = u PROVE k > x
        BY <1>2, <1>4, <2>1
      <4> QED BY <2>3, <2>5, <2>10
    <3>2. \A k \in (m + 1) + 1 .. h : k \in l + 1 .. h
      BY <1>2, <1>4
    <3>3. Between(u, s, l, h) <=> Between(u, s, m + 1, h)
      BY <3>1, <3>2 DEF Between
    <3>4. Compar(u, s[m + 1]) = 1
      BY <2>1, <2>3, <2>10
    <3> QED BY <1>2, <1>4, <3>3, <3>4
  <2> QED BY <2>3, <2>8, <2>9, <2>10
<1> QED BY <1>1, <1>3, <1>4

\* The search of a stored list finds exactly the uids that it holds.
LEMMA BsearchIs ==
  ASSUME CompareWorks, NEW s \in StoredLists, NEW u \in InOrder
  PROVE  Bsearch(u, s) <=> u \in Range(s)
<1>1. Len(s) \in Nat /\ DOMAIN s = 1 .. Len(s)
  BY Descends
<1>2. \E f : Finds(f, u, s)
  <2> DEFINE D == (0 .. Len(s)) \X (0 .. Len(s))
  <2>1. PICK v : v = [p \in D |-> Between(u, s, p[1], p[2])]
    OBVIOUS
  <2>2. \A l \in 0 .. Len(s), h \in 0 .. Len(s) : v[<<l, h>>] = Between(u, s, l, h)
    BY <2>1
  <2>3. ASSUME NEW p \in D
        PROVE  Between(u, s, p[1], p[2]) =
                  IF p[1] >= p[2] THEN FALSE
                  ELSE IF Compar(u, s[(p[1] + p[2]) \div 2 + 1]) = 0 THEN TRUE
                  ELSE IF Compar(u, s[(p[1] + p[2]) \div 2 + 1]) < 0
                       THEN v[<<p[1], (p[1] + p[2]) \div 2>>]
                  ELSE v[<<(p[1] + p[2]) \div 2 + 1, p[2]>>]
    <3>1. PICK l \in 0 .. Len(s), h \in 0 .. Len(s) : p[1] = l /\ p[2] = h
      OBVIOUS
    <3>2. PICK m \in Int : m = (l + h) \div 2
      OBVIOUS
    <3> HIDE DEF D
    <3>3. /\ l >= h => ~Between(u, s, l, h)
          /\ l < h =>
               /\ m \in 0 .. Len(s) /\ m + 1 \in 0 .. Len(s) /\ l <= m /\ m < h
               /\ Compar(u, s[m + 1]) \in {-1, 0, 1}
               /\ Compar(u, s[m + 1]) = 0 => Between(u, s, l, h)
               /\ Compar(u, s[m + 1]) = -1 => (Between(u, s, l, h) <=> Between(u, s, l, m))
               /\ Compar(u, s[m + 1]) = 1 => (Between(u, s, l, h) <=> Between(u, s, m + 1, h))
      BY <3>2, BetweenStep
    <3>4. l < h => v[<<l, m>>] = Between(u, s, l, m) /\ v[<<m + 1, h>>] = Between(u, s, m + 1, h)
      BY <2>2, <3>3
    <3>5. Between(u, s, l, h) \in BOOLEAN /\ Between(u, s, l, m) \in BOOLEAN
          /\ Between(u, s, m + 1, h) \in BOOLEAN
      BY DEF Between
    <3>6. CASE l >= h
      <4>1. Between(u, s, l, h) = FALSE
        BY <3>3, <3>5, <3>6
      <4> QED BY <3>1, <3>6, <4>1
    <3>7. CASE l < h /\ Compar(u, s[m + 1]) = 0
      <4>1. Between(u, s, l, h) = TRUE
        BY <3>3, <3>5, <3>7
      <4> QED BY <3>1, <3>2, <3>7, <4>1
    <3>8. CASE l < h /\ Compar(u, s[m + 1]) = -1
      <4>1. Between(u, s, l, h) = v[<<l, m>>]
        BY <3>3, <3>4, <3>5, <3>8
      <4>2. /\ (p[1] + p[2]) \div 2 = m /\ ~(p[1] >= p[2]) /\ p[1] = l /\ p[2] = h
            /\ Compar(u, s[(p[1] + p[2]) \div 2 + 1]) # 0
            /\ Compar(u, s[(p[1] + p[2]) \div 2 + 1]) < 0
        BY <3>1, <3>2, <3>8
      <4> QED BY <4>1, <4>2, Zenon
    <3>9. CASE l < h /\ Compar(u, s[m + 1]) = 1
      <4>1. Between(u, s, l, h) = v[<<m + 1, h>>]
        BY <3>3, <3>4, <3>5, <3>9
      <4>2. /\ (p[1] + p[2]) \div 2 = m /\ ~(p[1] >= p[2]) /\ p[1] = l /\ p[2] = h
            /\ Compar(u, s[(p[1] + p[2]) \div 2 + 1]) # 0
            /\ ~(Compar(u, s[(p[1] + p[2]) \div 2 + 1]) < 0)
        BY <3>1, <3>2, <3>9
      <4> QED BY <4>1, <4>2, Zenon
    <3>10. l >= h \/ (l < h /\ Compar(u, s[m + 1]) \in {-1, 0, 1})
      BY <3>3
    <3> QED BY <3>6, <3>7, <3>8, <3>9, <3>10
  <2>4. Finds(v, u, s)
    BY <2>1, <2>3 DEF Finds, FindStep
  <2> QED BY <2>4
<1>3. PICK f : f = (CHOOSE v : Finds(v, u, s)) /\ Finds(f, u, s)
  BY <1>2
<1> DEFINE Halved(l, h, m) ==
             /\ l >= h => f[<<l, h>>] = FALSE
             /\ l < h =>
                  /\ Compar(u, s[m + 1]) = 0 => f[<<l, h>>] = TRUE
                  /\ Compar(u, s[m + 1]) = -1 => f[<<l, h>>] = f[<<l, m>>]
                  /\ Compar(u, s[m + 1]) = 1 => f[<<l, h>>] = f[<<m + 1, h>>]
<1>4. ASSUME NEW l \in 0 .. Len(s), NEW h \in 0 .. Len(s), NEW m \in Int, m = (l + h) \div 2
      PROVE  Halved(l, h, m)
  <2>1. <<l, h>> \in (0 .. Len(s)) \X (0 .. Len(s)) /\ <<l, h>>[1] = l /\ <<l, h>>[2] = h
    OBVIOUS
  <2>2. f[<<l, h>>] = IF l >= h THEN FALSE
                      ELSE IF Compar(u, s[m + 1]) = 0 THEN TRUE
                      ELSE IF Compar(u, s[m + 1]) < 0 THEN f[<<l, m>>]
                      ELSE f[<<m + 1, h>>]
    <3>1. <<l, h>> \in (0 .. Len(s)) \X (0 .. Len(s)) /\ <<l, h>>[1] = l /\ <<l, h>>[2] = h
      OBVIOUS
    <3>2. f[<<l, h>>] = IF l >= h THEN FALSE
                        ELSE IF Compar(u, s[(l + h) \div 2 + 1]) = 0 THEN TRUE
                        ELSE IF Compar(u, s[(l + h) \div 2 + 1]) < 0
                             THEN f[<<l, (l + h) \div 2>>]
                        ELSE f[<<(l + h) \div 2 + 1, h>>]
      <4>1. f = FindStep(f, u, s)
        BY <1>3 DEF Finds
      <4>2. FindAt(FindStep(f, u, s)[<<l, h>>], f, u, s, l, h)
        BY FindStepAt
      <4>3. FindAt(f[<<l, h>>], f, u, s, l, h)
        BY <4>1, <4>2, Zenon
      <4> QED BY <4>3, Zenon DEF FindAt
    <3> QED BY <1>4, <3>2, Zenon
  <2>3. ASSUME l >= h PROVE f[<<l, h>>] = FALSE
    BY <2>2, <2>3, Zenon
  <2>4. ASSUME l < h
        PROVE  /\ Compar(u, s[m + 1]) = 0 => f[<<l, h>>] = TRUE
               /\ Compar(u, s[m + 1]) = -1 => f[<<l, h>>] = f[<<l, m>>]
               /\ Compar(u, s[m + 1]) = 1 => f[<<l, h>>] = f[<<m + 1, h>>]
    <3>1. ~(l >= h)
      BY <2>4
    <3>2. ASSUME Compar(u, s[m + 1]) = 0 PROVE f[<<l, h>>] = TRUE
      BY <2>2, <3>1, <3>2, Zenon
    <3>3. ASSUME Compar(u, s[m + 1]) = -1 PROVE f[<<l, h>>] = f[<<l, m>>]
      <4>1. Compar(u, s[m + 1]) # 0 /\ Compar(u, s[m + 1]) < 0
        BY <3>3
      <4> QED BY <2>2, <3>1, <4>1, Zenon
    <3>4. ASSUME Compar(u, s[m + 1]) = 1 PROVE f[<<l, h>>] = f[<<m + 1, h>>]
      <4>1. Compar(u, s[m + 1]) # 0 /\ ~(Compar(u, s[m + 1]) < 0)
        BY <3>4
      <4> QED BY <2>2, <3>1, <4>1, Zenon
    <3> QED BY <3>1, <3>2, <3>3, <3>4
  <2> QED BY <2>3, <2>4
<1>5. ASSUME NEW l \in 0 .. Len(s), NEW h \in 0 .. Len(s),
             \A x \in 0 .. Len(s), y \in 0 .. Len(s) :
                y - x < h - l => f[<<x, y>>] = Between(u, s, x, y)
      PROVE  f[<<l, h>>] = Between(u, s, l, h)
  <2>1. PICK m \in Int : m = (l + h) \div 2
    OBVIOUS
  <2>2. /\ l >= h => ~Between(u, s, l, h)
        /\ l < h =>
             /\ m \in 0 .. Len(s) /\ m + 1 \in 0 .. Len(s) /\ l <= m /\ m < h
             /\ Compar(u, s[m + 1]) \in {-1, 0, 1}
             /\ Compar(u, s[m + 1]) = 0 => Between(u, s, l, h)
             /\ Compar(u, s[m + 1]) = -1 => (Between(u, s, l, h) <=> Between(u, s, l, m))
             /\ Compar(u, s[m + 1]) = 1 => (Between(u, s, l, h) <=> Between(u, s, m + 1, h))
    BY <2>1, BetweenStep
  <2>3. l < h => f[<<l, m>>] = Between(u, s, l, m) /\ f[<<m + 1, h>>] = Between(u, s, m + 1, h)
    <3> SUFFICES ASSUME l < h
                 PROVE  /\ f[<<l, m>>] = Between(u, s, l, m)
                        /\ f[<<m + 1, h>>] = Between(u, s, m + 1, h)
      OBVIOUS
    <3>1. m - l < h - l /\ h - (m + 1) < h - l
      BY <1>1, <2>2
    <3> QED BY <1>5, <2>2, <3>1
  <2>4. Between(u, s, l, h) \in BOOLEAN /\ Between(u, s, l, m) \in BOOLEAN
        /\ Between(u, s, m + 1, h) \in BOOLEAN
    BY DEF Between
  <2> HIDE DEF Halved
  <2>5. Halved(l, h, m)
    BY <1>4, <2>1
  <2> USE DEF Halved
  <2>6. CASE l >= h
    BY <2>2, <2>4, <2>5, <2>6
  <2>7. CASE l < h /\ Compar(u, s[m + 1]) = 0
    BY <2>2, <2>4, <2>5, <2>7
  <2>8. CASE l < h /\ Compar(u, s[m + 1]) = -1
    BY <2>2, <2>3, <2>4, <2>5, <2>8
  <2>9. CASE l < h /\ Compar(u, s[m + 1]) = 1
    BY <2>2, <2>3, <2>4, <2>5, <2>9
  <2> QED BY <2>2, <2>6, <2>7, <2>8, <2>9
<1> DEFINE T == {n \in Nat : \E l \in 0 .. Len(s), h \in 0 .. Len(s) :
                     f[<<l, h>>] # Between(u, s, l, h) /\ n = h - l + Len(s)}
<1>6. T = {}
  <2> SUFFICES ASSUME T # {} PROVE FALSE
    OBVIOUS
  <2>1. T \in SUBSET Nat
    OBVIOUS
  <2>2. PICK n \in T : \A k \in T : n <= k
    BY <2>1, Least
  <2>3. PICK l \in 0 .. Len(s), h \in 0 .. Len(s) :
           f[<<l, h>>] # Between(u, s, l, h) /\ n = h - l + Len(s)
    BY <2>2
  <2>4. ASSUME NEW x \in 0 .. Len(s), NEW y \in 0 .. Len(s), y - x < h - l
        PROVE  f[<<x, y>>] = Between(u, s, x, y)
    <3>1. y - x + Len(s) \in Nat /\ y - x + Len(s) < n
      BY <1>1, <2>3, <2>4
    <3>2. y - x + Len(s) \notin T
      <4>1. ~(n <= y - x + Len(s))
        BY <3>1
      <4> QED BY <2>2, <4>1
    <3> QED BY <3>1, <3>2
  <2> QED BY <1>5, <2>3, <2>4
<1>7. f[<<0, Len(s)>>] = Between(u, s, 0, Len(s))
  <2>1. Len(s) - 0 + Len(s) \in Nat /\ 0 \in 0 .. Len(s) /\ Len(s) \in 0 .. Len(s)
    BY <1>1
  <2> QED BY <1>6, <2>1
<1>8. Bsearch(u, s) = Between(u, s, 0, Len(s))
  BY <1>3, <1>7, BsearchFinds
<1>9. Between(u, s, 0, Len(s)) <=> u \in Range(s)
  BY <1>1 DEF Between, Range
<1> QED BY <1>8, <1>9
-----------------------------------------------------------------------------
(* add_uids, remove_uids and what mod_acl makes of a list.                 *)

LEMMA AddUidsIs ==
  ASSUME CompareWorks, NEW s \in Seq(InOrder), NEW z \in Seq(InOrder), NEW a \in AddUids(s, z)
  PROVE  a \in StoredLists /\ Range(a) = Range(s) \cup Range(z)
<1>1. PICK c \in Seq(InOrder) : c = s \o z
  BY ConcatProperties
<1>2. a \in StoredLists /\ Range(a) = Range(c)
  BY <1>1, RemoveDupsIs DEF AddUids
<1>3. /\ Len(s) \in Nat /\ Len(z) \in Nat /\ Len(c) = Len(s) + Len(z)
      /\ DOMAIN s = 1 .. Len(s) /\ DOMAIN z = 1 .. Len(z) /\ DOMAIN c = 1 .. Len(c)
      /\ \A k \in 1 .. Len(c) : c[k] = IF k <= Len(s) THEN s[k] ELSE z[k - Len(s)]
  BY <1>1
<1>4. \A x \in Range(c) : x \in Range(s) \cup Range(z)
  <2> SUFFICES ASSUME NEW k \in 1 .. Len(c) PROVE c[k] \in Range(s) \cup Range(z)
    BY <1>3 DEF Range
  <2>1. CASE k <= Len(s)
    <3>1. k \in DOMAIN s /\ c[k] = s[k]
      BY <1>3, <2>1
    <3> QED BY <3>1 DEF Range
  <2>2. CASE ~(k <= Len(s))
    <3>1. k - Len(s) \in DOMAIN z /\ c[k] = z[k - Len(s)]
      BY <1>3, <2>2
    <3> QED BY <3>1 DEF Range
  <2> QED BY <2>1, <2>2
<1>5. \A x \in Range(s) : x \in Range(c)
  <2> SUFFICES ASSUME NEW k \in 1 .. Len(s) PROVE s[k] \in Range(c)
    BY <1>3 DEF Range
  <2>1. k \in 1 .. Len(c) /\ c[k] = s[k]
    BY <1>3
  <2> QED BY <1>3, <2>1 DEF Range
<1>6. \A x \in Range(z) : x \in Range(c)
  <2> SUFFICES ASSUME NEW k \in 1 .. Len(z) PROVE z[k] \in Range(c)
    BY <1>3 DEF Range
  <2>1. k + Len(s) \in 1 .. Len(c) /\ c[k + Len(s)] = z[k]
    BY <1>3
  <2> QED BY <1>3, <2>1 DEF Range
<1>7. Range(c) = Range(s) \cup Range(z)
  BY <1>4, <1>5, <1>6
<1> QED BY <1>2, <1>7

LEMMA RemoveUidsIs ==
  ASSUME CompareWorks, NEW s \in Seq(InOrder), NEW z \in Seq(InOrder), NEW a \in RemoveUids(s, z)
  PROVE  a \in StoredLists /\ Range(a) = Range(s) \ Range(z)
<1> DEFINE marked(o, r) == [k \in DOMAIN o |-> IF k \in Matched(o, r) THEN Inf ELSE o[k]]
<1>1. PICK o \in RemoveDups(s), r \in RemoveDups(z) :
        a \in {First(u, Len(o) - Cardinality(Matched(o, r))) : u \in Qsort(marked(o, r))}
  BY DEF RemoveUids
<1>2. o \in StoredLists /\ Range(o) = Range(s) /\ r \in StoredLists /\ Range(r) = Range(z)
  BY RemoveDupsIs
<1>3. PICK G : G = Matched(o, r)
  OBVIOUS
<1>4. PICK w : w = marked(o, r)
  OBVIOUS
<1>5. PICK u \in Qsort(w) : a = First(u, Len(o) - Cardinality(G))
  BY <1>1, <1>3, <1>4
<1>6. /\ Len(o) \in Nat /\ DOMAIN o = 1 .. Len(o)
      /\ \A j \in 1 .. Len(o) : o[j] \in InOrder /\ o[j] \in Words /\ o[j] # Inf
      /\ \A j, k \in 1 .. Len(o) : o[j] = o[k] => j = k
  BY <1>2, Descends, WordFacts
<1>7. G = {i \in 1 .. Len(o) : o[i] \in Range(r)}
  BY <1>2, <1>3, <1>6, MatchedIs
<1>8. w = [k \in 1 .. Len(o) |-> IF k \in G THEN Inf ELSE o[k]]
  BY <1>3, <1>4, <1>6
<1>9. w \in Seq(Words) /\ Len(w) = Len(o) /\ DOMAIN w = 1 .. Len(o)
  <2>1. \A k \in 1 .. Len(o) : w[k] \in Words
    BY <1>6, <1>8 DEF Words
  <2>2. w = [k \in 1 .. Len(o) |-> w[k]]
    BY <1>8
  <2> QED BY <1>6, <2>1, <2>2
<1>10. G = {k \in DOMAIN w : w[k] = Inf}
  BY <1>6, <1>7, <1>8, <1>9
<1>11. \A j, k \in DOMAIN w : w[j] = w[k] /\ w[j] # Inf => j = k
  BY <1>6, <1>8, <1>9
<1>12. a \in StoredLists /\ Range(a) = {w[k] : k \in DOMAIN w \ G}
  BY <1>5, <1>9, <1>10, <1>11, Dropped
<1>13. {w[k] : k \in DOMAIN w \ G} = Range(o) \ Range(r)
  <2>1. \A k \in DOMAIN w \ G : w[k] = o[k] /\ k \in 1 .. Len(o) /\ o[k] \notin Range(r)
    BY <1>7, <1>8, <1>9
  <2>2. \A x \in Range(o) \ Range(r) : \E k \in 1 .. Len(o) : x = o[k] /\ k \notin G
    BY <1>6, <1>7 DEF Range
  <2>3. \A k \in 1 .. Len(o) : o[k] \in Range(o)
    BY <1>6 DEF Range
  <2> QED BY <1>8, <1>9, <2>1, <2>2, <2>3
<1> QED BY <1>2, <1>12, <1>13

LEMMA StoredAreSeqs == StoredLists \subseteq Seq(InOrder)
BY DEF StoredLists

\* Grants first, then revocations: a user in both is out.
LEMMA ModifiedAclIs ==
  ASSUME CompareWorks, NEW s \in StoredLists, NEW g \in Seq(InOrder), NEW z \in Seq(InOrder),
         NEW a \in ModifiedAcl(s, g, z)
  PROVE  a \in StoredLists /\ Range(a) = (Range(s) \cup Range(g)) \ Range(z)
<1>1. PICK b \in AddUids(s, g) : a \in RemoveUids(b, z)
  BY DEF ModifiedAcl
<1>2. b \in StoredLists /\ Range(b) = Range(s) \cup Range(g)
  BY StoredAreSeqs, AddUidsIs
<1>3. a \in StoredLists /\ Range(a) = Range(b) \ Range(z)
  BY <1>1, <1>2, StoredAreSeqs, RemoveUidsIs
<1> QED BY <1>2, <1>3

\* Each uid of a stored list is there once.
LEMMA StoredOnce ==
  ASSUME CompareWorks, NEW s \in StoredLists
  PROVE  Cardinality(Range(s)) = Len(s)
<1>1. /\ Len(s) \in Nat /\ DOMAIN s = 1 .. Len(s)
      /\ \A j, k \in 1 .. Len(s) : s[j] = s[k] => j = k
  BY Descends
<1>2. s \in [1 .. Len(s) -> Range(s)] /\ \A y \in Range(s) : \E k \in 1 .. Len(s) : s[k] = y
  BY <1>1, StoredAreSeqs DEF Range
<1>3. s \in Bijection(1 .. Len(s), Range(s))
  BY <1>1, <1>2 DEF Bijection, Injection, Surjection, IsInjective
<1>4. IsFiniteSet(1 .. Len(s)) /\ Cardinality(1 .. Len(s)) = Len(s)
  <2>1. 1 \in Int /\ Len(s) \in Int
    BY <1>1
  <2>2. /\ IsFiniteSet(1 .. Len(s))
        /\ Cardinality(1 .. Len(s)) = IF 1 > Len(s) THEN 0 ELSE Len(s) - 1 + 1
    BY <2>1, FS_Interval, Zenon
  <2> QED BY <1>1, <2>2
<1>5. Cardinality(1 .. Len(s)) = Cardinality(Range(s))
  <2>1. ExistsBijection(1 .. Len(s), Range(s))
    BY <1>3 DEF ExistsBijection
  <2> QED BY <1>4, <2>1, FS_Bijection
<1> QED BY <1>4, <1>5

-----------------------------------------------------------------------------
(* Any number of threads: what the state consists of, and where a thread   *)
(* may be with the request that it serves.                                 *)

CreatePath == {"newcid", "putcid", "fresh", "putexist", "putacl"}
RemovePath == {"remove", "delacl", "rmexist", "delexist", "rmcheck"}
ModPath == {"modacl", "modget", "moddel", "modput"}
Labels == CreatePath \cup RemovePath \cup ModPath
             \cup {"idle", "getacl", "readacl", "verify", "perm", "reply"}

\* The words that a list may hold on any build.
AllWords == Uids \cup {Inf}

StateTyped ==
    /\ lists \in [Cids \X Ops -> Seq(AllWords) \cup {NoAcl}]
    /\ exists \subseteq Cids /\ lastCid \in 0 .. MaxCid /\ svcKey \in 1 .. MaxKeys
    /\ caps \subseteq CapType
    /\ req \in [Threads -> RequestsWith(CapType) \cup {NoRequest}]
    /\ pc \in [Threads -> Labels]
    /\ at \in [Threads -> 1 .. NumContainerOps + 1]
    /\ cid \in [Threads -> 0 .. MaxCid]
    /\ orig \in [Threads -> Seq(AllWords)]
    /\ rc \in [Threads -> {"OK", "EXIST", "NOENT", "ERR", "ACCESS", "VERIFYCAP"}]
    /\ served \in 0 .. MaxReqs /\ live \in [Cids -> Nat]
    /\ named \in [Cids \X Ops -> SUBSET Uids]

\* The request is the one whose path the thread is on, and it works on that container.
OnPath(t) ==
    /\ req[t] = NoRequest <=> pc[t] = "idle"
    /\ pc[t] \in CreatePath => req[t].op = "create" /\ req[t].cid \in {cid[t], AnyCid}
    /\ pc[t] \in RemovePath => req[t].op = "remove" /\ req[t].cid = cid[t]
    /\ pc[t] \in ModPath => req[t].op = "modacl" /\ req[t].cid = cid[t]
    /\ pc[t] \in {"getacl", "readacl"} => req[t].op = "getacl"
    /\ pc[t] = "verify" => req[t].op = "verify"
    /\ pc[t] = "perm" => req[t].op \in {"getcap", "verify"}

\* The container and the operation that the thread has come to.
AtPlace(t) ==
    /\ pc[t] \in CreatePath \ {"newcid"} => cid[t] \in Cids
    /\ pc[t] \in RemovePath \cup ModPath \cup {"getacl", "readacl", "perm"} => cid[t] \in Cids
    /\ pc[t] = "verify" => cid[t] = req[t].cap.cid
    /\ pc[t] \in {"putacl", "delacl", "modget", "moddel", "modput"} => at[t] \in Ops
    /\ pc[t] \in {"modget", "moddel", "modput"} => at[t] \in req[t].ops
    /\ pc[t] \in (CreatePath \ {"putacl"}) \cup {"remove", "modacl"} => at[t] = 1

TypeInv == StateTyped /\ \A t \in Threads : OnPath(t) /\ AtPlace(t)

\* The users in an array.
LEMMA Users ==
  ASSUME NEW S, NEW s \in Seq(S)
  PROVE  Range(s) \in SUBSET S /\ \A T : Range(s) \subseteq T => s \in Seq(T)
<1>1. PICK n \in Nat : n = Len(s) /\ DOMAIN s = 1 .. n /\ \A k \in 1 .. n : s[k] \in S
  OBVIOUS
<1>2. Range(s) \in SUBSET S
  BY <1>1 DEF Range
<1>3. ASSUME NEW T, Range(s) \subseteq T PROVE s \in Seq(T)
  <2>1. \A k \in 1 .. n : s[k] \in T
    BY <1>1, <1>3 DEF Range
  <2>2. s = [k \in 1 .. n |-> s[k]]
    BY <1>1
  <2> QED BY <2>1, <2>2
<1> QED BY <1>2, <1>3

\* The list of a new container.
LEMMA NewLists ==
  ASSUME NEW u \in Uids, NEW o
  PROVE  LET s == FirstUsers(u, o)
         IN  /\ s \in Seq(Uids) /\ s \in Seq(AllWords) /\ Range(s) \in {{}, {u}}
             /\ Range(s) \in SUBSET Uids
<1>1. PICK s \in {<<>>, <<u>>} : s = FirstUsers(u, o)
  BY DEF FirstUsers
<1>2. s \in Seq(Uids)
  <2>1. <<>> \in Seq(Uids) /\ <<u>> \in Seq(Uids)
    OBVIOUS
  <2> QED BY <1>1, <2>1
<1>3. Range(s) \in {{}, {u}}
  BY <1>1 DEF Range
<1>4. Range(s) \in SUBSET Uids
  BY <1>3
<1>5. s \in Seq(AllWords)
  BY <1>2, <1>4, Users DEF AllWords
<1> QED BY <1>1, <1>2, <1>3, <1>4, <1>5

\* On any build mod_acl leaves users on a list, or overwritten entries.
LEMMA ModifiedIsTyped ==
  ASSUME NEW s \in Seq(AllWords), NEW g \in Seq(Uids), NEW z \in Seq(Uids),
         NEW a \in ModifiedAcl(s, g, z)
  PROVE  a \in Seq(AllWords) /\ Range(a) \subseteq Range(s) \cup Range(g) \cup {Inf}
<1>1. g \in Seq(AllWords) /\ z \in Seq(AllWords) /\ Inf \in AllWords
  BY DEF AllWords
<1>2. a \in Seq(AllWords)
  BY <1>1, ModifiedAclFrom
<1> DEFINE S == Range(s) \cup Range(g) \cup {Inf}
<1>3. s \in Seq(S) /\ g \in Seq(S) /\ Inf \in S
  <2>1. Range(s) \subseteq S /\ Range(g) \subseteq S
    OBVIOUS
  <2> HIDE DEF S
  <2>2. s \in Seq(S) /\ g \in Seq(S)
    BY <2>1, Users
  <2> QED BY <2>2 DEF S
<1>4. a \in Seq(S)
  <2> HIDE DEF S
  <2> QED BY <1>1, <1>3, ModifiedAclFrom
<1>5. Range(a) \in SUBSET S
  <2> HIDE DEF S
  <2> QED BY <1>4, Users
<1> QED BY <1>2, <1>5

LEMMA Numbers ==
  /\ NumContainerOps \in Nat /\ NumContainerOps >= 3 /\ MaxCid \in Nat /\ MaxKeys \in Nat \ {0}
  /\ MaxReqs \in Nat /\ Cids = 1 .. MaxCid /\ Ops = 1 .. NumContainerOps
  /\ CreateOp \in Ops /\ ModAclOp \in Ops /\ RemoveOp \in Ops /\ OwnerOps \subseteq Ops
  /\ AnyCid \notin Cids /\ 0 \notin Cids
BY AuthrAssumption DEF Cids, Ops, CreateOp, ModAclOp, RemoveOp, OwnerOps

\* The next operation is one of those asked for, at or behind the place, or none is left.
LEMMA NextOpIs ==
  ASSUME NEW o \in 1 .. NumContainerOps + 1, NEW S \in SUBSET Ops
  PROVE  /\ NextOp(o, S) \in 1 .. NumContainerOps + 1
         /\ NextOp(o, S) <= NumContainerOps => NextOp(o, S) \in S /\ NextOp(o, S) \in Ops
<1> DEFINE T == {x \in S : x >= o}
<1>1. CASE T = {}
  <2>1. NextOp(o, S) = NumContainerOps + 1
    BY <1>1 DEF NextOp
  <2> QED BY <2>1, Numbers
<1>2. CASE T # {}
  <2>1. T \in SUBSET Nat
    <3>1. Ops \subseteq Nat
      BY Numbers
    <3> QED BY <3>1
  <2>2. \E x \in T : \A y \in T : x <= y
    BY <1>2, <2>1, Least
  <2>3. NextOp(o, S) = CHOOSE x \in T : \A y \in T : x <= y
    BY <1>2 DEF NextOp
  <2>4. NextOp(o, S) \in T
    BY <2>2, <2>3
  <2>5. \A x \in T : x \in S /\ x \in Ops /\ x \in 1 .. NumContainerOps + 1
    <3>1. \A x \in Ops : x \in 1 .. NumContainerOps + 1
      BY Numbers
    <3>2. \A x \in T : x \in S
      OBVIOUS
    <3> QED BY <3>1, <3>2
  <2> HIDE DEF T
  <2> QED BY <2>4, <2>5
<1> QED BY <1>1, <1>2

\* What a request carries.
LEMMA RequestIs ==
  ASSUME NEW held \in SUBSET CapType, NEW r \in RequestsWith(held)
  PROVE  /\ r # NoRequest /\ r \in RequestsWith(CapType)
         /\ r.op \in {"create", "remove", "modacl", "getacl", "getcap", "verify"}
         /\ r.op = "create" => r.cid \in Cids \cup {AnyCid} /\ r.uid \in Uids
         /\ r.op = "remove" => r.cid \in Cids /\ r.cap \in held
         /\ r.op = "modacl" => /\ r.cid \in Cids /\ r.cap \in held /\ r.ops \in SUBSET Ops
                               /\ r.set \in Seq(Uids) /\ r.unset \in Seq(Uids)
         /\ r.op = "getacl" => r.cid \in Cids /\ r.cop \in Ops /\ r.cap \in held
         /\ r.op = "getcap" => r.cid \in Cids /\ r.ops \in SUBSET Ops /\ r.uid \in Uids
         /\ r.op = "verify" => r.cap \in held
<1>1. r \in RequestsWith(CapType)
  BY DEF RequestsWith
<1>2. r # NoRequest
  BY <1>1, NoRequestAssumption
<1>3. CASE r \in [op : {"create"}, cid : Cids \cup {AnyCid}, uid : Uids]
  BY <1>1, <1>2, <1>3
<1>4. CASE r \in [op : {"remove"}, cid : Cids, cap : held]
  BY <1>1, <1>2, <1>4
<1>5. CASE r \in [op : {"modacl"}, cid : Cids, ops : OpArgs, set : SetArgs, unset : SetArgs,
                  cap : held]
  <2>1. /\ r.op = "modacl" /\ r.cid \in Cids /\ r.ops \in OpArgs /\ r.set \in SetArgs
        /\ r.unset \in SetArgs /\ r.cap \in held
    BY <1>5
  <2>2. OpArgs \subseteq SUBSET Ops /\ SetArgs \subseteq Seq(Uids)
    BY AuthrAssumption
  <2>3. r.ops \in SUBSET Ops /\ r.set \in Seq(Uids) /\ r.unset \in Seq(Uids)
    BY <2>1, <2>2
  <2> QED BY <1>1, <1>2, <2>1, <2>3
<1>6. CASE r \in [op : {"getacl"}, cid : Cids, cop : Ops, cap : held]
  BY <1>1, <1>2, <1>6
<1>7. CASE r \in [op : {"getcap"}, cid : Cids, ops : OpArgs, uid : Uids]
  <2>1. r.op = "getcap" /\ r.cid \in Cids /\ r.ops \in OpArgs /\ r.uid \in Uids
    BY <1>7
  <2>2. r.ops \in SUBSET Ops
    BY <2>1, AuthrAssumption
  <2> QED BY <1>1, <1>2, <2>1, <2>2
<1>8. CASE r \in [op : {"verify"}, cap : held]
  BY <1>1, <1>2, <1>8
<1> QED BY <1>3, <1>4, <1>5, <1>6, <1>7, <1>8 DEF RequestsWith

\* The request of a thread that serves one.
LEMMA ServedIs ==
  ASSUME TypeInv, NEW t \in Threads, pc[t] # "idle"
  PROVE  req[t] \in RequestsWith(CapType)
BY DEF TypeInv, StateTyped, OnPath

LEMMA EntryIs ==
  /\ Entry["create"] = "newcid" /\ Entry["remove"] = "remove" /\ Entry["modacl"] = "modacl"
  /\ Entry["getacl"] = "getacl" /\ Entry["getcap"] = "perm" /\ Entry["verify"] = "verify"
BY DEF Entry

\* Only the thread that steps can leave its path.
LEMMA Frame ==
  ASSUME TypeInv, NEW t \in Threads, StateTyped', OnPath(t)', AtPlace(t)',
         \A u \in Threads \ {t} :
            pc'[u] = pc[u] /\ at'[u] = at[u] /\ cid'[u] = cid[u] /\ req'[u] = req[u]
  PROVE  TypeInv'
<1> SUFFICES ASSUME NEW u \in Threads \ {t} PROVE OnPath(u)' /\ AtPlace(u)'
  BY DEF TypeInv
<1>1. OnPath(u) /\ AtPlace(u)
  BY DEF TypeInv
<1>2. OnPath(u)'
  BY <1>1 DEF OnPath
<1>3. AtPlace(u)'
  BY <1>1 DEF AtPlace
<1> QED BY <1>2, <1>3

LEMMA GetCounterTypes ==
  ASSUME TypeInv, NEW t \in Threads, GetCounter(t)
  PROVE  TypeInv'
<1>1. StateTyped /\ OnPath(t) /\ AtPlace(t)
  BY DEF TypeInv
<1>2. StateTyped'
  <2>1. cid' \in [Threads -> 0 .. MaxCid]
    <3>1. lastCid + 1 \in 0 .. MaxCid
      BY <1>1, Numbers DEF StateTyped, GetCounter
    <3> QED BY <1>1, <3>1 DEF StateTyped, GetCounter
  <2>2. pc' \in [Threads -> Labels]
    BY <1>1 DEF StateTyped, GetCounter, Goto, Labels, CreatePath
  <2> QED BY <1>1, <2>1, <2>2 DEF StateTyped, GetCounter, db
<1>3. OnPath(t)'
  BY <1>1 DEF StateTyped, GetCounter, Goto, CreatePath, RemovePath, ModPath, OnPath
<1>4. AtPlace(t)'
  BY <1>1, <1>2, Numbers DEF StateTyped, GetCounter, Goto, CreatePath, RemovePath, ModPath,
     OnPath, AtPlace
<1>5. \A u \in Threads \ {t} :
         pc'[u] = pc[u] /\ at'[u] = at[u] /\ cid'[u] = cid[u] /\ req'[u] = req[u]
  BY <1>1 DEF StateTyped, GetCounter, Goto
<1> QED BY <1>2, <1>3, <1>4, <1>5, Frame

LEMMA PutCounterTypes ==
  ASSUME TypeInv, NEW t \in Threads, PutCounter(t)
  PROVE  TypeInv'
<1>1. StateTyped /\ OnPath(t) /\ AtPlace(t)
  BY DEF TypeInv
<1>2. StateTyped'
  BY <1>1, Numbers DEF StateTyped, PutCounter, Goto, Labels, CreatePath, RemovePath, ModPath,
     AtPlace
<1>3. OnPath(t)'
  BY <1>1 DEF StateTyped, PutCounter, Goto, CreatePath, RemovePath, ModPath, OnPath
<1>4. AtPlace(t)'
  BY <1>1, <1>2, Numbers DEF StateTyped, PutCounter, Goto, CreatePath, RemovePath, ModPath,
     OnPath, AtPlace
<1>5. \A u \in Threads \ {t} :
         pc'[u] = pc[u] /\ at'[u] = at[u] /\ cid'[u] = cid[u] /\ req'[u] = req[u]
  BY <1>1 DEF StateTyped, PutCounter, Goto
<1> QED BY <1>2, <1>3, <1>4, <1>5, Frame

LEMMA CheckFreshTypes ==
  ASSUME TypeInv, NEW t \in Threads, CheckFresh(t)
  PROVE  TypeInv'
<1>1. StateTyped /\ OnPath(t) /\ AtPlace(t)
  BY DEF TypeInv
<1>2. StateTyped'
  BY <1>1, Numbers DEF StateTyped, CheckFresh, Goto, Labels, CreatePath, RemovePath, ModPath,
     db, AtPlace
<1>3. OnPath(t)'
  BY <1>1 DEF StateTyped, CheckFresh, Goto, CreatePath, RemovePath, ModPath, OnPath
<1>4. AtPlace(t)'
  BY <1>1, <1>2, Numbers DEF StateTyped, CheckFresh, Goto, CreatePath, RemovePath, ModPath,
     OnPath, AtPlace
<1>5. \A u \in Threads \ {t} :
         pc'[u] = pc[u] /\ at'[u] = at[u] /\ cid'[u] = cid[u] /\ req'[u] = req[u]
  BY <1>1 DEF StateTyped, CheckFresh, Goto
<1> QED BY <1>2, <1>3, <1>4, <1>5, Frame

LEMMA CheckExistenceTypes ==
  ASSUME TypeInv, NEW t \in Threads, CheckExistence(t)
  PROVE  TypeInv'
<1>1. StateTyped /\ OnPath(t) /\ AtPlace(t)
  BY DEF TypeInv
<1>2. StateTyped'
  BY <1>1, Numbers DEF StateTyped, CheckExistence, Goto, Answer, Labels, CreatePath,
     RemovePath, ModPath, db, AtPlace
<1>3. OnPath(t)'
  BY <1>1 DEF StateTyped, CheckExistence, Goto, Answer, CreatePath, RemovePath, ModPath, OnPath
<1>4. AtPlace(t)'
  BY <1>1, <1>2, Numbers DEF StateTyped, CheckExistence, Goto, Answer, CreatePath, RemovePath,
     ModPath, OnPath, AtPlace
<1>5. \A u \in Threads \ {t} :
         pc'[u] = pc[u] /\ at'[u] = at[u] /\ cid'[u] = cid[u] /\ req'[u] = req[u]
  BY <1>1 DEF StateTyped, CheckExistence, Goto, Answer
<1> QED BY <1>2, <1>3, <1>4, <1>5, Frame

LEMMA DelExistenceTypes ==
  ASSUME TypeInv, NEW t \in Threads, DelExistence(t)
  PROVE  TypeInv'
<1>1. StateTyped /\ OnPath(t) /\ AtPlace(t)
  BY DEF TypeInv
<1>2. StateTyped'
  BY <1>1, Numbers DEF StateTyped, DelExistence, Goto, Answer, Labels, CreatePath, RemovePath,
     ModPath, AtPlace
<1>3. OnPath(t)'
  BY <1>1 DEF StateTyped, DelExistence, Goto, Answer, CreatePath, RemovePath, ModPath, OnPath
<1>4. AtPlace(t)'
  BY <1>1, <1>2, Numbers DEF StateTyped, DelExistence, Goto, Answer, CreatePath, RemovePath,
     ModPath, OnPath, AtPlace
<1>5. \A u \in Threads \ {t} :
         pc'[u] = pc[u] /\ at'[u] = at[u] /\ cid'[u] = cid[u] /\ req'[u] = req[u]
  BY <1>1 DEF StateTyped, DelExistence, Goto, Answer
<1> QED BY <1>2, <1>3, <1>4, <1>5, Frame

LEMMA CheckGoneTypes ==
  ASSUME TypeInv, NEW t \in Threads, CheckGone(t)
  PROVE  TypeInv'
<1>1. StateTyped /\ OnPath(t) /\ AtPlace(t)
  BY DEF TypeInv
<1>2. StateTyped'
  BY <1>1, Numbers DEF StateTyped, CheckGone, Goto, Answer, Labels, CreatePath, RemovePath,
     ModPath, db, AtPlace
<1>3. OnPath(t)'
  BY <1>1 DEF StateTyped, CheckGone, Goto, Answer, CreatePath, RemovePath, ModPath, OnPath
<1>4. AtPlace(t)'
  BY <1>1, <1>2, Numbers DEF StateTyped, CheckGone, Goto, Answer, CreatePath, RemovePath,
     ModPath, OnPath, AtPlace
<1>5. \A u \in Threads \ {t} :
         pc'[u] = pc[u] /\ at'[u] = at[u] /\ cid'[u] = cid[u] /\ req'[u] = req[u]
  BY <1>1 DEF StateTyped, CheckGone, Goto, Answer
<1> QED BY <1>2, <1>3, <1>4, <1>5, Frame

LEMMA ReadAclTypes ==
  ASSUME TypeInv, NEW t \in Threads, ReadAcl(t)
  PROVE  TypeInv'
<1>1. StateTyped /\ OnPath(t) /\ AtPlace(t)
  BY DEF TypeInv
<1>2. StateTyped'
  BY <1>1, Numbers DEF StateTyped, ReadAcl, Goto, Answer, Labels, CreatePath, RemovePath,
     ModPath, db, AtPlace
<1>3. OnPath(t)'
  BY <1>1 DEF StateTyped, ReadAcl, Goto, Answer, CreatePath, RemovePath, ModPath, OnPath
<1>4. AtPlace(t)'
  BY <1>1, <1>2, Numbers DEF StateTyped, ReadAcl, Goto, Answer, CreatePath, RemovePath,
     ModPath, OnPath, AtPlace
<1>5. \A u \in Threads \ {t} :
         pc'[u] = pc[u] /\ at'[u] = at[u] /\ cid'[u] = cid[u] /\ req'[u] = req[u]
  BY <1>1 DEF StateTyped, ReadAcl, Goto, Answer
<1> QED BY <1>2, <1>3, <1>4, <1>5, Frame

\* What the check of a capability and of a list may answer.
LEMMA Codes ==
  \A c, o : /\ \A u : MayDo(u, c, o) \in {"OK", "NOENT", "ACCESS"}
            /\ \A cap : /\ Authorized(cap, c, o) \in {"OK", "NOENT", "ACCESS", "VERIFYCAP"}
                        /\ Authorized(cap, c, o) = "OK" => lists[<<c, o>>] # NoAcl
BY DEF MayDo, Authorized

\* A thread that answers leaves its path.
LEMMA Answering ==
  ASSUME TypeInv, NEW t \in Threads, pc[t] # "idle", StateTyped', UNCHANGED <<req, cid, at>>,
         pc' = [pc EXCEPT ![t] = "reply"]
  PROVE  TypeInv'
<1>1. StateTyped /\ OnPath(t) /\ AtPlace(t)
  BY DEF TypeInv
<1>2. pc'[t] = "reply" /\ \A u \in Threads \ {t} : pc'[u] = pc[u]
  BY <1>1 DEF StateTyped
<1>3. OnPath(t)' /\ AtPlace(t)'
  BY <1>1, <1>2 DEF OnPath, AtPlace, CreatePath, RemovePath, ModPath
<1> QED BY <1>2, <1>3, Frame

LEMMA CheckGivenTypes ==
  ASSUME TypeInv, NEW t \in Threads, CheckGiven(t)
  PROVE  TypeInv'
<1>1. StateTyped /\ OnPath(t) /\ AtPlace(t)
  BY DEF TypeInv
<1>2. cid[t] \in Cids
  <2>1. pc[t] = "newcid" /\ req[t].cid # AnyCid
    BY DEF CheckGiven
  <2>2. req[t].cid = cid[t] /\ req[t].op = "create"
    BY <1>1, <2>1 DEF OnPath, CreatePath
  <2>3. req[t].cid \in Cids \cup {AnyCid}
    BY <2>1, <2>2, ServedIs, RequestIs
  <2> QED BY <2>1, <2>2, <2>3
<1>3. CASE cid[t] \in exists
  <2>1. /\ pc[t] # "idle" /\ UNCHANGED <<req, cid, at>> /\ pc' = [pc EXCEPT ![t] = "reply"]
    BY <1>3 DEF CheckGiven, Goto, Answer
  <2>2. StateTyped'
    BY <1>1, <1>3, Numbers DEF StateTyped, CheckGiven, Goto, Answer, Labels, CreatePath,
       RemovePath, ModPath, db
  <2> QED BY <2>1, <2>2, Answering
<1>4. CASE cid[t] \notin exists
  <2>1. StateTyped'
    BY <1>1, <1>4, Numbers, <1>2 DEF StateTyped, CheckGiven, Goto, Answer, Labels, CreatePath,
       RemovePath, ModPath, db, AtPlace
  <2>2. OnPath(t)'
    BY <1>1, <1>4, <1>2 DEF StateTyped, CheckGiven, Goto, Answer, Labels, CreatePath,
       RemovePath, ModPath, db, OnPath
  <2>3. AtPlace(t)'
    BY <1>1, <1>4, <2>1, Numbers, <1>2 DEF StateTyped, CheckGiven, Goto, Answer, Labels,
       CreatePath, RemovePath, ModPath, db, OnPath, AtPlace
  <2>4. \A u \in Threads \ {t} :
           pc'[u] = pc[u] /\ at'[u] = at[u] /\ cid'[u] = cid[u] /\ req'[u] = req[u]
    BY <1>1, <1>4, <1>2 DEF StateTyped, CheckGiven, Goto, Answer
  <2> QED BY <2>1, <2>2, <2>3, <2>4, Frame
<1> QED BY <1>3, <1>4

LEMMA PutExistenceTypes ==
  ASSUME TypeInv, NEW t \in Threads, PutExistence(t)
  PROVE  TypeInv'
<1>1. StateTyped /\ OnPath(t) /\ AtPlace(t)
  BY DEF TypeInv
<1>2. cid[t] \in Cids /\ at[t] \in 1 .. NumContainerOps + 1
  BY <1>1 DEF PutExistence, AtPlace, Goto, Answer, Labels, CreatePath, RemovePath, ModPath,
     StateTyped
<1>3. CASE cid[t] \in exists
  <2>1. /\ pc[t] # "idle" /\ UNCHANGED <<req, cid, at>> /\ pc' = [pc EXCEPT ![t] = "reply"]
    BY <1>3 DEF PutExistence, Goto, Answer
  <2>2. StateTyped'
    BY <1>1, <1>3, Numbers DEF StateTyped, PutExistence, Goto, Answer, Labels, CreatePath,
       RemovePath, ModPath
  <2> QED BY <2>1, <2>2, Answering
<1>4. CASE cid[t] \notin exists
  <2>1. StateTyped'
    <3>1. exists' \subseteq Cids
      BY <1>1, <1>4, <1>2 DEF StateTyped, PutExistence
    <3>2. pc' \in [Threads -> Labels]
      BY <1>1, <1>4 DEF StateTyped, PutExistence, Goto, Answer, Labels, CreatePath, RemovePath,
         ModPath
    <3> QED BY <3>1, <3>2, <1>1, <1>4 DEF StateTyped, PutExistence
  <2>2. OnPath(t)'
    BY <1>1, <1>4, <1>2 DEF StateTyped, PutExistence, Goto, Answer, Labels, CreatePath,
       RemovePath, ModPath, OnPath
  <2>3. AtPlace(t)'
    BY <1>1, <1>4, <2>1, Numbers, <1>2 DEF StateTyped, PutExistence, Goto, Answer, Labels,
       CreatePath, RemovePath, ModPath, OnPath, AtPlace
  <2>4. \A u \in Threads \ {t} :
           pc'[u] = pc[u] /\ at'[u] = at[u] /\ cid'[u] = cid[u] /\ req'[u] = req[u]
    BY <1>1, <1>4, <1>2 DEF StateTyped, PutExistence, Goto, Answer
  <2> QED BY <2>1, <2>2, <2>3, <2>4, Frame
<1> QED BY <1>3, <1>4

LEMMA RemoveBeginTypes ==
  ASSUME TypeInv, NEW t \in Threads, RemoveBegin(t)
  PROVE  TypeInv'
<1>1. StateTyped /\ OnPath(t) /\ AtPlace(t)
  BY DEF TypeInv
<1>2. cid[t] \in Cids /\ at[t] \in 1 .. NumContainerOps + 1
  BY <1>1 DEF RemoveBegin, AtPlace, Goto, Answer, Labels, CreatePath, RemovePath, ModPath, db,
     StateTyped
<1>3. PICK code \in {"OK", "NOENT", "ACCESS", "VERIFYCAP"} :
           code = Authorized(req[t].cap, cid[t], RemoveOp)
  BY Codes
<1>4. CASE code # "OK"
  <2>1. /\ pc[t] # "idle" /\ UNCHANGED <<req, cid, at>> /\ pc' = [pc EXCEPT ![t] = "reply"]
    BY <1>4, <1>3 DEF RemoveBegin, Goto, Answer
  <2>2. StateTyped'
    BY <1>1, <1>4, Numbers, <1>3 DEF StateTyped, RemoveBegin, Goto, Answer, Labels, CreatePath,
       RemovePath, ModPath, db
  <2> QED BY <2>1, <2>2, Answering
<1>5. CASE code = "OK"
  <2>1. StateTyped'
    <3>1. live' \in [Cids -> Nat]
      <4>1. live' = [live EXCEPT ![cid[t]] = 0] /\ live \in [Cids -> Nat]
        BY <1>1, <1>5, <1>3 DEF StateTyped, RemoveBegin
      <4> QED BY <4>1
    <3>2. pc' \in [Threads -> Labels] /\ UNCHANGED rc
      BY <1>1, <1>5, <1>3 DEF StateTyped, RemoveBegin, Goto, Labels, CreatePath, RemovePath,
         ModPath
    <3> QED BY <3>1, <3>2, <1>1 DEF StateTyped, RemoveBegin, db
  <2>2. OnPath(t)'
    BY <1>1, <1>5, <1>2, <1>3 DEF StateTyped, RemoveBegin, Goto, Answer, Labels, CreatePath,
       RemovePath, ModPath, db, OnPath
  <2>3. AtPlace(t)'
    BY <1>1, <1>5, <2>1, Numbers, <1>2, <1>3 DEF StateTyped, RemoveBegin, Goto, Answer, Labels,
       CreatePath, RemovePath, ModPath, db, OnPath, AtPlace
  <2>4. \A u \in Threads \ {t} :
           pc'[u] = pc[u] /\ at'[u] = at[u] /\ cid'[u] = cid[u] /\ req'[u] = req[u]
    BY <1>1, <1>5, <1>2, <1>3 DEF StateTyped, RemoveBegin, Goto, Answer
  <2> QED BY <2>1, <2>2, <2>3, <2>4, Frame
<1> QED BY <1>4, <1>5

LEMMA GetAclTypes ==
  ASSUME TypeInv, NEW t \in Threads, GetAcl(t)
  PROVE  TypeInv'
<1>1. StateTyped /\ OnPath(t) /\ AtPlace(t)
  BY DEF TypeInv
<1>2. PICK code \in {"OK", "NOENT", "ACCESS", "VERIFYCAP"} :
           code = Authorized(req[t].cap, cid[t], ReadOp)
  BY Codes
<1>3. CASE code # "OK"
  <2>1. /\ pc[t] # "idle" /\ UNCHANGED <<req, cid, at>> /\ pc' = [pc EXCEPT ![t] = "reply"]
    BY <1>3, <1>2 DEF GetAcl, Goto, Answer
  <2>2. StateTyped'
    BY <1>1, <1>3, Numbers, <1>2 DEF StateTyped, GetAcl, Goto, Answer, Labels, CreatePath,
       RemovePath, ModPath, db
  <2> QED BY <2>1, <2>2, Answering
<1>4. CASE code = "OK"
  <2>1. StateTyped'
    BY <1>1, <1>4, Numbers, <1>2 DEF StateTyped, GetAcl, Goto, Answer, Labels, CreatePath,
       RemovePath, ModPath, db, AtPlace
  <2>2. OnPath(t)'
    BY <1>1, <1>4, <1>2 DEF StateTyped, GetAcl, Goto, Answer, Labels, CreatePath, RemovePath,
       ModPath, db, OnPath
  <2>3. AtPlace(t)'
    BY <1>1, <1>4, <2>1, Numbers, <1>2 DEF StateTyped, GetAcl, Goto, Answer, Labels,
       CreatePath, RemovePath, ModPath, db, OnPath, AtPlace
  <2>4. \A u \in Threads \ {t} :
           pc'[u] = pc[u] /\ at'[u] = at[u] /\ cid'[u] = cid[u] /\ req'[u] = req[u]
    BY <1>1, <1>4, <1>2 DEF StateTyped, GetAcl, Goto, Answer
  <2> QED BY <2>1, <2>2, <2>3, <2>4, Frame
<1> QED BY <1>3, <1>4

LEMMA CheckCapTypes ==
  ASSUME TypeInv, NEW t \in Threads, CheckCap(t)
  PROVE  TypeInv'
<1>1. StateTyped /\ OnPath(t) /\ AtPlace(t)
  BY DEF TypeInv
<1>2. cid[t] \in Cids
  <2>1. pc[t] = "verify"
    BY DEF CheckCap
  <2>2. req[t].op = "verify" /\ cid[t] = req[t].cap.cid
    BY <1>1, <2>1 DEF OnPath, AtPlace
  <2>3. req[t].cap \in CapType
    BY <2>1, <2>2, ServedIs, RequestIs
  <2> QED BY <2>2, <2>3 DEF CapType
<1>3. CASE req[t].cap.key # svcKey
  <2>1. /\ pc[t] # "idle" /\ UNCHANGED <<req, cid, at>> /\ pc' = [pc EXCEPT ![t] = "reply"]
    BY <1>3 DEF CheckCap, Goto, Answer
  <2>2. StateTyped'
    BY <1>1, <1>3, Numbers DEF StateTyped, CheckCap, Goto, Answer, Labels, CreatePath,
       RemovePath, ModPath, db
  <2> QED BY <2>1, <2>2, Answering
<1>4. CASE req[t].cap.key = svcKey
  <2>1. StateTyped'
    BY <1>1, <1>4, Numbers, <1>2 DEF StateTyped, CheckCap, Goto, Answer, Labels, CreatePath,
       RemovePath, ModPath, db, AtPlace
  <2>2. OnPath(t)'
    BY <1>1, <1>4, <1>2 DEF StateTyped, CheckCap, Goto, Answer, Labels, CreatePath, RemovePath,
       ModPath, db, OnPath
  <2>3. AtPlace(t)'
    BY <1>1, <1>4, <2>1, Numbers, <1>2 DEF StateTyped, CheckCap, Goto, Answer, Labels,
       CreatePath, RemovePath, ModPath, db, OnPath, AtPlace
  <2>4. \A u \in Threads \ {t} :
           pc'[u] = pc[u] /\ at'[u] = at[u] /\ cid'[u] = cid[u] /\ req'[u] = req[u]
    BY <1>1, <1>4, <1>2 DEF StateTyped, CheckCap, Goto, Answer
  <2> QED BY <2>1, <2>2, <2>3, <2>4, Frame
<1> QED BY <1>3, <1>4

LEMMA DelEachAclTypes ==
  ASSUME TypeInv, NEW t \in Threads, DelEachAcl(t)
  PROVE  TypeInv'
<1>1. StateTyped /\ OnPath(t) /\ AtPlace(t)
  BY DEF TypeInv
<1>2. cid[t] \in Cids /\ at[t] \in Ops
  BY <1>1 DEF DelEachAcl, AtPlace, Goto, Labels, CreatePath, RemovePath, ModPath, StateTyped
<1>3. CASE at[t] = NumContainerOps
  <2>1. StateTyped'
    BY <1>1, <1>3, Numbers, <1>2 DEF StateTyped, DelEachAcl, Goto, Labels, CreatePath,
       RemovePath, ModPath, AtPlace
  <2>2. OnPath(t)'
    BY <1>1, <1>3, <1>2 DEF StateTyped, DelEachAcl, Goto, Labels, CreatePath, RemovePath,
       ModPath, OnPath
  <2>3. AtPlace(t)'
    BY <1>1, <1>3, <2>1, Numbers, <1>2 DEF StateTyped, DelEachAcl, Goto, Labels, CreatePath,
       RemovePath, ModPath, OnPath, AtPlace
  <2>4. \A u \in Threads \ {t} :
           pc'[u] = pc[u] /\ at'[u] = at[u] /\ cid'[u] = cid[u] /\ req'[u] = req[u]
    BY <1>1, <1>3, <1>2 DEF StateTyped, DelEachAcl, Goto
  <2> QED BY <2>1, <2>2, <2>3, <2>4, Frame
<1>4. CASE at[t] # NumContainerOps
  <2>1. StateTyped'
    <3>1. lists' \in [Cids \X Ops -> Seq(AllWords) \cup {NoAcl}]
      BY <1>1 DEF StateTyped, DelEachAcl
    <3>2. at' \in [Threads -> 1 .. NumContainerOps + 1]
      <4>1. at[t] + 1 \in 1 .. NumContainerOps + 1
        BY <1>4, <1>2, Numbers
      <4>2. at' = [at EXCEPT ![t] = at[t] + 1]
        BY <1>4 DEF DelEachAcl
      <4> QED BY <1>1, <4>1, <4>2 DEF StateTyped
    <3>3. pc' \in [Threads -> Labels]
      BY <1>1, <1>4 DEF StateTyped, DelEachAcl, Goto, Labels, CreatePath, RemovePath, ModPath
    <3> QED BY <3>1, <3>2, <3>3, <1>1 DEF StateTyped, DelEachAcl
  <2>2. OnPath(t)'
    BY <1>1, <1>4, <1>2 DEF StateTyped, DelEachAcl, Goto, Labels, CreatePath, RemovePath,
       ModPath, OnPath
  <2>3. AtPlace(t)'
    BY <1>1, <1>4, <2>1, Numbers, <1>2 DEF StateTyped, DelEachAcl, Goto, Labels, CreatePath,
       RemovePath, ModPath, OnPath, AtPlace
  <2>4. \A u \in Threads \ {t} :
           pc'[u] = pc[u] /\ at'[u] = at[u] /\ cid'[u] = cid[u] /\ req'[u] = req[u]
    BY <1>1, <1>4, <1>2 DEF StateTyped, DelEachAcl, Goto
  <2> QED BY <2>1, <2>2, <2>3, <2>4, Frame
<1> QED BY <1>3, <1>4

LEMMA ModGetTypes ==
  ASSUME TypeInv, NEW t \in Threads, ModGet(t)
  PROVE  TypeInv'
<1>1. StateTyped /\ OnPath(t) /\ AtPlace(t)
  BY DEF TypeInv
<1>2. CASE lists[<<cid[t], at[t]>>] = NoAcl
  <2>1. /\ pc[t] # "idle" /\ UNCHANGED <<req, cid, at>> /\ pc' = [pc EXCEPT ![t] = "reply"]
    BY <1>2 DEF ModGet, Goto, Answer
  <2>2. StateTyped'
    BY <1>1, <1>2, Numbers DEF StateTyped, ModGet, Goto, Answer, Labels, CreatePath,
       RemovePath, ModPath, db
  <2> QED BY <2>1, <2>2, Answering
<1>3. CASE lists[<<cid[t], at[t]>>] # NoAcl
  <2>1. StateTyped'
    BY <1>1, <1>3, Numbers DEF StateTyped, ModGet, Goto, Answer, Labels, CreatePath,
       RemovePath, ModPath, db, AtPlace
  <2>2. OnPath(t)'
    BY <1>1, <1>3 DEF StateTyped, ModGet, Goto, Answer, Labels, CreatePath, RemovePath,
       ModPath, db, OnPath
  <2>3. AtPlace(t)'
    BY <1>1, <1>3, <2>1, Numbers DEF StateTyped, ModGet, Goto, Answer, Labels, CreatePath,
       RemovePath, ModPath, db, OnPath, AtPlace
  <2>4. \A u \in Threads \ {t} :
           pc'[u] = pc[u] /\ at'[u] = at[u] /\ cid'[u] = cid[u] /\ req'[u] = req[u]
    BY <1>1, <1>3 DEF StateTyped, ModGet, Goto, Answer
  <2> QED BY <2>1, <2>2, <2>3, <2>4, Frame
<1> QED BY <1>2, <1>3

LEMMA ModDelTypes ==
  ASSUME TypeInv, NEW t \in Threads, ModDel(t)
  PROVE  TypeInv'
<1>1. StateTyped /\ OnPath(t) /\ AtPlace(t)
  BY DEF TypeInv
<1>2. CASE lists[<<cid[t], at[t]>>] = NoAcl
  <2>1. /\ pc[t] # "idle" /\ UNCHANGED <<req, cid, at>> /\ pc' = [pc EXCEPT ![t] = "reply"]
    BY <1>2 DEF ModDel, Goto, Answer
  <2>2. StateTyped'
    BY <1>1, <1>2, Numbers DEF StateTyped, ModDel, Goto, Answer, Labels, CreatePath,
       RemovePath, ModPath
  <2> QED BY <2>1, <2>2, Answering
<1>3. CASE lists[<<cid[t], at[t]>>] # NoAcl
  <2>1. StateTyped'
    BY <1>1, <1>3, Numbers DEF StateTyped, ModDel, Goto, Answer, Labels, CreatePath,
       RemovePath, ModPath, AtPlace
  <2>2. OnPath(t)'
    BY <1>1, <1>3 DEF StateTyped, ModDel, Goto, Answer, Labels, CreatePath, RemovePath,
       ModPath, OnPath
  <2>3. AtPlace(t)'
    BY <1>1, <1>3, <2>1, Numbers DEF StateTyped, ModDel, Goto, Answer, Labels, CreatePath,
       RemovePath, ModPath, OnPath, AtPlace
  <2>4. \A u \in Threads \ {t} :
           pc'[u] = pc[u] /\ at'[u] = at[u] /\ cid'[u] = cid[u] /\ req'[u] = req[u]
    BY <1>1, <1>3 DEF StateTyped, ModDel, Goto, Answer
  <2> QED BY <2>1, <2>2, <2>3, <2>4, Frame
<1> QED BY <1>2, <1>3

LEMMA BeginTypes ==
  ASSUME TypeInv, NEW t \in Threads, NEW r \in Requests, Begin(t, r)
  PROVE  TypeInv'
<1>1. StateTyped /\ OnPath(t) /\ AtPlace(t) /\ caps \subseteq CapType
  BY DEF TypeInv, StateTyped
<1>2. /\ r # NoRequest /\ r \in RequestsWith(CapType)
      /\ r.op \in {"create", "remove", "modacl", "getacl", "getcap", "verify"}
      /\ r.op = "create" => r.cid \in Cids \cup {AnyCid}
      /\ r.op \in {"remove", "modacl", "getacl", "getcap"} => r.cid \in Cids
      /\ r.op = "verify" => r.cap \in caps
  BY <1>1, RequestIs DEF Requests
<1>3. r.op = "verify" => r.cap.cid \in Cids
  BY <1>1, <1>2 DEF CapType
<1>4. PICK l : l = Entry[r.op]
  OBVIOUS
<1>5. /\ r.op = "create" => l = "newcid"
      /\ r.op = "remove" => l = "remove"
      /\ r.op = "modacl" => l = "modacl"
      /\ r.op = "getacl" => l = "getacl"
      /\ r.op = "getcap" => l = "perm"
      /\ r.op = "verify" => l = "verify"
  BY <1>4, EntryIs
<1>6. PICK c : c = IF r.op = "verify" THEN r.cap.cid ELSE IF r.cid = AnyCid THEN 0 ELSE r.cid
  OBVIOUS
<1>7. /\ c \in 0 .. MaxCid
      /\ r.op # "create" => c \in Cids
      /\ r.op = "verify" => c = r.cap.cid
      /\ r.op = "create" => r.cid \in {c, AnyCid}
      /\ r.op \in {"remove", "modacl"} => r.cid = c
  BY <1>2, <1>3, <1>6, Numbers
<1>8. /\ req' = [req EXCEPT ![t] = r] /\ pc' = [pc EXCEPT ![t] = l]
      /\ at' = [at EXCEPT ![t] = 1] /\ cid' = [cid EXCEPT ![t] = c] /\ served' = served + 1
      /\ served < MaxReqs /\ UNCHANGED <<db, svcKey, caps, orig, rc, live, named>>
  BY <1>4, <1>6 DEF Begin, Goto
<1>9. l \in Labels \ {"idle", "reply"}
  BY <1>2, <1>5 DEF Labels, CreatePath, RemovePath, ModPath
<1>10. StateTyped'
  <2>1. at' \in [Threads -> 1 .. NumContainerOps + 1]
    BY <1>1, <1>8, Numbers DEF StateTyped
  <2>2. served' \in 0 .. MaxReqs
    BY <1>1, <1>8, Numbers DEF StateTyped
  <2> QED BY <1>1, <1>2, <1>7, <1>8, <1>9, <2>1, <2>2 DEF StateTyped, db
<1>11. /\ req'[t] = r /\ pc'[t] = l /\ at'[t] = 1 /\ cid'[t] = c
       /\ \A u \in Threads \ {t} :
             pc'[u] = pc[u] /\ at'[u] = at[u] /\ cid'[u] = cid[u] /\ req'[u] = req[u]
  BY <1>1, <1>8 DEF StateTyped
<1>12. OnPath(t)'
  BY <1>2, <1>5, <1>7, <1>9, <1>11 DEF OnPath, CreatePath, RemovePath, ModPath
<1>13. AtPlace(t)'
  BY <1>2, <1>5, <1>7, <1>11 DEF AtPlace, CreatePath, RemovePath, ModPath
<1> QED BY <1>10, <1>11, <1>12, <1>13, Frame

LEMMA ReplyTypes ==
  ASSUME TypeInv, NEW t \in Threads, Reply(t)
  PROVE  TypeInv'
<1>1. StateTyped /\ OnPath(t) /\ AtPlace(t)
  BY DEF TypeInv
<1>2. /\ req' = [req EXCEPT ![t] = NoRequest] /\ pc' = [pc EXCEPT ![t] = "idle"]
      /\ at' = [at EXCEPT ![t] = 1] /\ cid' = [cid EXCEPT ![t] = 0]
      /\ orig' = [orig EXCEPT ![t] = <<>>] /\ rc' = [rc EXCEPT ![t] = "OK"]
      /\ UNCHANGED <<db, svcKey, caps, served, live, named>>
  BY DEF Reply, Goto
<1>3. <<>> \in Seq(AllWords)
  OBVIOUS
<1>4. StateTyped'
  <2>1. at' \in [Threads -> 1 .. NumContainerOps + 1] /\ cid' \in [Threads -> 0 .. MaxCid]
    BY <1>1, <1>2, Numbers DEF StateTyped
  <2> QED BY <1>1, <1>2, <1>3, <2>1 DEF StateTyped, db, Labels
<1>5. /\ req'[t] = NoRequest /\ pc'[t] = "idle"
      /\ \A u \in Threads \ {t} :
            pc'[u] = pc[u] /\ at'[u] = at[u] /\ cid'[u] = cid[u] /\ req'[u] = req[u]
  BY <1>1, <1>2 DEF StateTyped
<1>6. OnPath(t)' /\ AtPlace(t)'
  BY <1>5 DEF OnPath, AtPlace, CreatePath, RemovePath, ModPath
<1> QED BY <1>4, <1>5, <1>6, Frame

LEMMA PutNewAclTypes ==
  ASSUME TypeInv, NEW t \in Threads, PutNewAcl(t)
  PROVE  TypeInv'
<1>1. StateTyped /\ OnPath(t) /\ AtPlace(t)
  BY DEF TypeInv
<1>2. pc[t] = "putacl" /\ cid[t] \in Cids /\ at[t] \in Ops /\ req[t].op = "create"
  BY <1>1 DEF PutNewAcl, AtPlace, OnPath, CreatePath
<1>3. req[t].uid \in Uids
  BY <1>2, ServedIs, RequestIs
<1>4. CASE lists[<<cid[t], at[t]>>] # NoAcl
  <2>1. /\ pc' = [pc EXCEPT ![t] = "reply"] /\ rc' = [rc EXCEPT ![t] = "EXIST"]
        /\ UNCHANGED <<lists, caps, live, at, named, exists, lastCid, svcKey, req, cid, orig, served>>
    BY <1>4 DEF PutNewAcl, Answer, Goto
  <2>2. StateTyped'
    BY <1>1, <2>1 DEF StateTyped, Labels
  <2> QED BY <1>2, <2>1, <2>2, Answering
<1>5. CASE lists[<<cid[t], at[t]>>] = NoAcl
  <2>1. PICK list : list = FirstUsers(req[t].uid, at[t])
    OBVIOUS
  <2>2. list \in Seq(AllWords) /\ Range(list) \in SUBSET Uids
    BY <1>3, <2>1, NewLists
  <2>3. /\ lists' = [lists EXCEPT ![<<cid[t], at[t]>>] = list]
        /\ named' = [named EXCEPT ![<<cid[t], at[t]>>] = @ \cup Range(list)]
        /\ UNCHANGED <<exists, lastCid, svcKey, req, cid, orig, served>>
    BY <1>5, <2>1 DEF PutNewAcl, PutAcl
  <2>4. /\ lists' \in [Cids \X Ops -> Seq(AllWords) \cup {NoAcl}]
        /\ named' \in [Cids \X Ops -> SUBSET Uids]
    BY <1>1, <2>2, <2>3 DEF StateTyped
  <2>5. CASE at[t] = NumContainerOps
    <3>1. /\ caps' = caps \cup {Cap(cid[t], OwnerOps, req[t].uid)}
          /\ live' = [live EXCEPT ![cid[t]] = @ + 1]
          /\ pc' = [pc EXCEPT ![t] = "reply"] /\ rc' = [rc EXCEPT ![t] = "OK"] /\ UNCHANGED at
      BY <1>5, <2>5 DEF PutNewAcl, Answer, Goto
    <3>2. Cap(cid[t], OwnerOps, req[t].uid) \in CapType
      BY <1>1, <1>2, <1>3, Numbers DEF Cap, CapType, StateTyped
    <3>3. live' \in [Cids -> Nat]
      BY <1>1, <1>2, <3>1 DEF StateTyped
    <3>4. StateTyped'
      BY <1>1, <2>3, <2>4, <3>1, <3>2, <3>3 DEF StateTyped, Labels
    <3> QED BY <1>2, <2>3, <3>1, <3>4, Answering
  <2>6. CASE at[t] # NumContainerOps
    <3>1. at' = [at EXCEPT ![t] = at[t] + 1] /\ UNCHANGED <<pc, rc, caps, live>>
      BY <1>5, <2>6 DEF PutNewAcl
    <3>2. at[t] + 1 \in Ops /\ at[t] + 1 \in 1 .. NumContainerOps + 1
      BY <1>2, <2>6, Numbers
    <3>3. StateTyped'
      BY <1>1, <2>3, <2>4, <3>1, <3>2 DEF StateTyped
    <3>4. /\ at'[t] = at[t] + 1 /\ \A u \in Threads \ {t} : at'[u] = at[u]
      BY <1>1, <3>1 DEF StateTyped
    <3>5. OnPath(t)'
      BY <1>1, <2>3, <3>1 DEF OnPath
    <3>6. AtPlace(t)'
      BY <1>1, <1>2, <2>3, <3>1, <3>2, <3>4 DEF AtPlace, CreatePath, RemovePath, ModPath
    <3> QED BY <2>3, <3>1, <3>3, <3>4, <3>5, <3>6, Frame
  <2> QED BY <2>5, <2>6
<1> QED BY <1>4, <1>5

\* The loop of mod_acl goes on with an operation asked for, or the thread answers.
LEMMA ContinueModTypes ==
  ASSUME TypeInv, NEW t \in Threads, pc[t] \in ModPath, NEW o \in 1 .. NumContainerOps + 1,
         ContinueMod(t, o), UNCHANGED <<exists, lastCid, svcKey, caps, req, cid, orig, served, live>>,
         lists' \in [Cids \X Ops -> Seq(AllWords) \cup {NoAcl}],
         named' \in [Cids \X Ops -> SUBSET Uids]
  PROVE  TypeInv'
<1>1. StateTyped /\ OnPath(t) /\ AtPlace(t)
  BY DEF TypeInv
<1>2. pc[t] # "idle" /\ req[t].op = "modacl"
  BY <1>1 DEF OnPath, ModPath
<1>3. req[t].ops \in SUBSET Ops
  BY <1>2, ServedIs, RequestIs
<1>4. PICK n : n = NextOp(o, req[t].ops)
  OBVIOUS
<1>5. n \in 1 .. NumContainerOps + 1 /\ (n <= NumContainerOps => n \in req[t].ops /\ n \in Ops)
  BY <1>3, <1>4, NextOpIs
<1>6. CASE n > NumContainerOps
  <2>1. pc' = [pc EXCEPT ![t] = "reply"] /\ rc' = [rc EXCEPT ![t] = "OK"] /\ UNCHANGED at
    BY <1>4, <1>6 DEF ContinueMod, Answer, Goto
  <2>2. StateTyped'
    BY <1>1, <2>1 DEF StateTyped, Labels
  <2> QED BY <1>2, <2>1, <2>2, Answering
<1>7. CASE ~(n > NumContainerOps)
  <2>1. n \in req[t].ops /\ n \in Ops
    BY <1>5, <1>7, Numbers
  <2>2. pc' = [pc EXCEPT ![t] = "modget"] /\ at' = [at EXCEPT ![t] = n] /\ UNCHANGED rc
    BY <1>4, <1>7 DEF ContinueMod, Goto
  <2>3. StateTyped'
    BY <1>1, <1>5, <2>2 DEF StateTyped, Labels, ModPath
  <2>4. /\ pc'[t] = "modget" /\ at'[t] = n
        /\ \A u \in Threads \ {t} : pc'[u] = pc[u] /\ at'[u] = at[u]
    BY <1>1, <2>2 DEF StateTyped
  <2>5. OnPath(t)'
    BY <1>1, <2>4 DEF OnPath, CreatePath, RemovePath, ModPath
  <2>6. AtPlace(t)'
    BY <1>1, <2>1, <2>4 DEF AtPlace, CreatePath, RemovePath, ModPath
  <2> QED BY <2>3, <2>4, <2>5, <2>6, Frame
<1> QED BY <1>6, <1>7

LEMMA ModBeginTypes ==
  ASSUME TypeInv, NEW t \in Threads, ModBegin(t)
  PROVE  TypeInv'
<1>1. StateTyped /\ OnPath(t) /\ AtPlace(t) /\ pc[t] = "modacl"
  BY DEF TypeInv, ModBegin
<1>2. PICK code \in {"OK", "NOENT", "ACCESS", "VERIFYCAP"} :
         code = Authorized(req[t].cap, cid[t], ModAclOp)
  BY Codes
<1>3. UNCHANGED <<db, svcKey, caps, req, cid, orig, served, live, named>>
  BY DEF ModBegin
<1>4. CASE code = "OK"
  <2>1. ContinueMod(t, 1) /\ 1 \in 1 .. NumContainerOps + 1
    BY <1>2, <1>4, Numbers DEF ModBegin
  <2> QED BY <1>1, <1>3, <2>1, ContinueModTypes DEF StateTyped, db, ModPath
<1>5. CASE code # "OK"
  <2>1. pc' = [pc EXCEPT ![t] = "reply"] /\ rc' = [rc EXCEPT ![t] = code] /\ UNCHANGED at
    BY <1>2, <1>5 DEF ModBegin, Answer, Goto
  <2>2. StateTyped'
    BY <1>1, <1>3, <2>1 DEF StateTyped, Labels, db
  <2> QED BY <1>1, <1>3, <2>1, <2>2, Answering
<1> QED BY <1>4, <1>5

LEMMA ModPutTypes ==
  ASSUME TypeInv, NEW t \in Threads, ModPut(t)
  PROVE  TypeInv'
<1>1. StateTyped /\ OnPath(t) /\ AtPlace(t) /\ pc[t] = "modput"
  BY DEF TypeInv, ModPut
<1>2. cid[t] \in Cids /\ at[t] \in Ops /\ req[t].op = "modacl"
  BY <1>1 DEF AtPlace, OnPath, ModPath
<1>3. req[t].set \in Seq(Uids) /\ req[t].unset \in Seq(Uids)
  BY <1>1, <1>2, ServedIs, RequestIs
<1>4. UNCHANGED <<exists, lastCid, svcKey, caps, req, cid, orig, served, live>>
  BY DEF ModPut
<1>5. CASE lists[<<cid[t], at[t]>>] # NoAcl
  <2>1. pc' = [pc EXCEPT ![t] = "reply"] /\ rc' = [rc EXCEPT ![t] = "EXIST"]
        /\ UNCHANGED <<lists, at, named>>
    BY <1>5 DEF ModPut, Answer, Goto
  <2>2. StateTyped'
    BY <1>1, <1>4, <2>1 DEF StateTyped, Labels
  <2> QED BY <1>1, <1>4, <2>1, <2>2, Answering
<1>6. CASE lists[<<cid[t], at[t]>>] = NoAcl
  <2>1. PICK list \in ModifiedAcl(orig[t], req[t].set, req[t].unset) :
           /\ lists' = [lists EXCEPT ![<<cid[t], at[t]>>] = list]
           /\ named' = [named EXCEPT ![<<cid[t], at[t]>>] =
                                       @ \cup (Range(req[t].set) \cup Range(req[t].unset))]
    BY <1>6 DEF ModPut, PutAcl
  <2>2. list \in Seq(AllWords) /\ Range(req[t].set) \cup Range(req[t].unset) \in SUBSET Uids
    <3>1. orig[t] \in Seq(AllWords)
      BY <1>1 DEF StateTyped
    <3> QED BY <1>3, <3>1, ModifiedIsTyped, Users
  <2>3. /\ lists' \in [Cids \X Ops -> Seq(AllWords) \cup {NoAcl}]
        /\ named' \in [Cids \X Ops -> SUBSET Uids]
    BY <1>1, <2>1, <2>2 DEF StateTyped
  <2>4. ContinueMod(t, at[t] + 1)
    BY <1>6 DEF ModPut
  <2>5. at[t] + 1 \in 1 .. NumContainerOps + 1 /\ pc[t] \in ModPath
    BY <1>1, <1>2, Numbers DEF ModPath
  <2> QED BY <1>4, <2>3, <2>4, <2>5, ContinueModTypes
<1> QED BY <1>5, <1>6

LEMMA CheckPermTypes ==
  ASSUME TypeInv, NEW t \in Threads, CheckPerm(t)
  PROVE  TypeInv'
<1>1. StateTyped /\ OnPath(t) /\ AtPlace(t) /\ pc[t] = "perm"
  BY DEF TypeInv, CheckPerm
<1>2. cid[t] \in Cids /\ req[t].op \in {"getcap", "verify"} /\ at[t] \in 1 .. NumContainerOps + 1
  BY <1>1 DEF AtPlace, OnPath, StateTyped
<1>3. /\ req[t].op = "getcap" => req[t].ops \in SUBSET Ops /\ req[t].uid \in Uids
      /\ req[t].op = "verify" => req[t].cap \in CapType
  BY <1>1, <1>2, ServedIs, RequestIs
<1>4. AskedOps(t) \ {CreateOp} \in SUBSET Ops
  BY <1>2, <1>3 DEF AskedOps, CapType
<1>5. PICK o : o = NextOp(at[t], AskedOps(t) \ {CreateOp})
  OBVIOUS
<1>6. o \in 1 .. NumContainerOps + 1 /\ (o <= NumContainerOps => o \in Ops)
  BY <1>2, <1>4, <1>5, NextOpIs
<1>7. PICK code \in {"OK", "NOENT", "ACCESS"} : code = MayDo(AskedUid(t), cid[t], o)
  BY Codes
<1>8. UNCHANGED <<db, svcKey, req, cid, orig, served, live, named>>
  BY DEF CheckPerm
<1>9. CASE o > NumContainerOps
  <2>1. /\ pc' = [pc EXCEPT ![t] = "reply"] /\ rc' = [rc EXCEPT ![t] = "OK"] /\ UNCHANGED at
        /\ caps' = IF req[t].op = "verify" THEN caps
                   ELSE caps \cup {Cap(cid[t], req[t].ops, req[t].uid)}
    BY <1>5, <1>9 DEF CheckPerm, Answer, Goto
  <2>2. caps' \subseteq CapType
    <3>1. CASE req[t].op = "verify"
      BY <1>1, <2>1, <3>1 DEF StateTyped
    <3>2. CASE req[t].op = "getcap"
      <4>1. Cap(cid[t], req[t].ops, req[t].uid) \in CapType
        BY <1>1, <1>2, <1>3, <3>2 DEF StateTyped, Cap, CapType
      <4> QED BY <1>1, <2>1, <3>2, <4>1 DEF StateTyped
    <3> QED BY <1>2, <3>1, <3>2
  <2>3. StateTyped'
    BY <1>1, <1>8, <2>1, <2>2 DEF StateTyped, Labels, db
  <2> QED BY <1>1, <1>8, <2>1, <2>3, Answering
<1>10. CASE ~(o > NumContainerOps) /\ code # "OK"
  <2>1. pc' = [pc EXCEPT ![t] = "reply"] /\ rc' = [rc EXCEPT ![t] = code] /\ UNCHANGED <<at, caps>>
    BY <1>5, <1>7, <1>10 DEF CheckPerm, Answer, Goto
  <2>2. StateTyped'
    BY <1>1, <1>8, <2>1 DEF StateTyped, Labels, db
  <2> QED BY <1>1, <1>8, <2>1, <2>2, Answering
<1>11. CASE ~(o > NumContainerOps) /\ code = "OK"
  <2>1. at' = [at EXCEPT ![t] = o + 1] /\ UNCHANGED <<pc, rc, caps>>
    BY <1>5, <1>7, <1>11 DEF CheckPerm
  <2>2. o + 1 \in 1 .. NumContainerOps + 1
    BY <1>6, <1>11, Numbers
  <2>3. StateTyped'
    BY <1>1, <1>8, <2>1, <2>2 DEF StateTyped, db
  <2>4. at'[t] = o + 1 /\ \A u \in Threads \ {t} : at'[u] = at[u]
    BY <1>1, <2>1 DEF StateTyped
  <2>5. OnPath(t)'
    BY <1>1, <1>8, <2>1 DEF OnPath
  <2>6. AtPlace(t)'
    BY <1>1, <1>8, <2>1 DEF AtPlace, CreatePath, RemovePath, ModPath
  <2> QED BY <1>8, <2>1, <2>3, <2>4, <2>5, <2>6, Frame
<1> QED BY <1>9, <1>10, <1>11
-----------------------------------------------------------------------------
LEMMA TypeInit ==
  ASSUME Init
  PROVE  TypeInv
<1>1. <<>> \in Seq(AllWords)
  OBVIOUS
<1>2. StateTyped
  BY <1>1, Numbers DEF Init, StateTyped, Labels
<1>3. \A t \in Threads : OnPath(t) /\ AtPlace(t)
  BY DEF Init, OnPath, AtPlace, CreatePath, RemovePath, ModPath
<1> QED BY <1>2, <1>3 DEF TypeInv

LEMMA ServeTypes ==
  ASSUME TypeInv, NEW t \in Threads, Serve(t)
  PROVE  TypeInv'
BY GetCounterTypes, PutCounterTypes, CheckFreshTypes, CheckGivenTypes, PutExistenceTypes,
   PutNewAclTypes, RemoveBeginTypes, DelEachAclTypes, CheckExistenceTypes, DelExistenceTypes,
   CheckGoneTypes, ModBeginTypes, ModGetTypes, ModDelTypes, ModPutTypes, GetAclTypes,
   ReadAclTypes, CheckCapTypes, CheckPermTypes, ReplyTypes DEF Serve

LEMMA TypeNext ==
  ASSUME TypeInv, [Next]_vars
  PROVE  TypeInv'
<1>1. CASE Next
  <2>1. CASE Restart
    <3>1. StateTyped /\ \A t \in Threads : OnPath(t) /\ AtPlace(t)
      BY DEF TypeInv
    <3>2. /\ svcKey' \in 1 .. MaxKeys
          /\ UNCHANGED <<db, caps, req, pc, at, cid, orig, rc, served, live, named>>
      BY <2>1, <3>1, Numbers DEF Restart, StateTyped
    <3>3. StateTyped'
      BY <3>1, <3>2 DEF StateTyped, db
    <3>4. \A t \in Threads : OnPath(t)' /\ AtPlace(t)'
      BY <3>1, <3>2 DEF OnPath, AtPlace
    <3> QED BY <3>3, <3>4 DEF TypeInv
  <2>2. CASE \E t \in Threads : \E r \in Requests : Begin(t, r)
    BY <2>2, BeginTypes
  <2>3. CASE \E t \in Threads : Serve(t)
    BY <2>3, ServeTypes
  <2> QED BY <1>1, <2>1, <2>2, <2>3 DEF Next
<1>2. CASE UNCHANGED vars
  <2>1. UNCHANGED <<db, svcKey, caps, req, pc, at, cid, orig, rc, served, live, named>>
    BY <1>2 DEF vars
  <2>2. StateTyped'
    BY <2>1 DEF TypeInv, StateTyped, db
  <2>3. \A t \in Threads : OnPath(t)' /\ AtPlace(t)'
    BY <2>1 DEF TypeInv, OnPath, AtPlace
  <2> QED BY <2>2, <2>3 DEF TypeInv
<1> QED BY <1>1, <1>2

LEMMA AuthrInvariant ==
  Spec => []TypeInv
<1>1. Init => TypeInv
  BY TypeInit
<1>2. TypeInv /\ [Next]_vars => TypeInv'
  BY TypeNext
<1> QED BY <1>1, <1>2, PTL DEF Spec

-----------------------------------------------------------------------------
(* What a list holds on any build, by the uids that it was ever given: as  *)
(* long as these are in order it is sorted and holds no overwritten entry. *)

Kept(N) == {s \in Seq(N \cup {Inf}) : N \subseteq InOrder => s \in StoredLists /\ s \in Seq(N)}

KeptInv ==
    /\ \A k \in Cids \X Ops : lists[k] # NoAcl => lists[k] \in Kept(named[k])
    /\ \A t \in Threads : pc[t] \in {"moddel", "modput"} =>
          orig[t] \in Kept(named[<<cid[t], at[t]>>])

LEMMA KeptGrows ==
  ASSUME NEW N, NEW M, N \subseteq M, NEW s \in Kept(N)
  PROVE  s \in Kept(M)
<1>1. s \in Seq(N \cup {Inf}) /\ Range(s) \in SUBSET (N \cup {Inf})
  BY Users DEF Kept
<1>2. s \in Seq(M \cup {Inf})
  BY <1>1, Users
<1>3. ASSUME M \subseteq InOrder PROVE s \in StoredLists /\ s \in Seq(M)
  <2>1. s \in StoredLists /\ s \in Seq(N)
    BY <1>3 DEF Kept
  <2> QED BY <2>1, Users
<1> QED BY <1>2, <1>3 DEF Kept

LEMMA KeptNew ==
  ASSUME NEW u \in Uids, NEW o, NEW N, Range(FirstUsers(u, o)) \subseteq N
  PROVE  FirstUsers(u, o) \in Kept(N)
<1>1. FirstUsers(u, o) \in Seq(N \cup {Inf}) /\ FirstUsers(u, o) \in Seq(N)
  BY NewLists, Users
<1>2. ASSUME N \subseteq InOrder PROVE FirstUsers(u, o) \in StoredLists
  <2>1. FirstUsers(u, o) \in Seq(InOrder)
    BY <1>1, <1>2, Users
  <2>2. FirstUsers(u, o) \in {<<>>, <<u>>}
    BY DEF FirstUsers
  <2> QED BY <2>1, <2>2 DEF StoredLists
<1> QED BY <1>1, <1>2 DEF Kept

\* On a build whose compare_uids is no order there are no uids in order.
LEMMA NobodyInOrder ==
  ASSUME ~CompareWorks
  PROVE  InOrder = {}
BY DEF CompareWorks, InOrder

\* The users of a modified list: the grants joined it and the revocations left it.
Exactly(a, s, g, z) == Range(a) = (Range(s) \cup Range(g)) \ Range(z)

\* A modified list is sorted again when all uids that it has been given are in order.
LEMMA KeptModified ==
  ASSUME NEW N \in SUBSET Uids, NEW s \in Kept(N), NEW g \in Seq(Uids), NEW z \in Seq(Uids),
         NEW a \in ModifiedAcl(s, g, z)
  PROVE  LET M == N \cup (Range(g) \cup Range(z))
         IN  /\ a \in Kept(M)
             /\ M \subseteq InOrder => Exactly(a, s, g, z)
<1> PICK M : M = N \cup (Range(g) \cup Range(z))
  OBVIOUS
<1>1. /\ s \in Seq(N \cup {Inf}) /\ Range(s) \in SUBSET (N \cup {Inf})
      /\ Range(g) \in SUBSET Uids /\ Range(z) \in SUBSET Uids
  BY Users DEF Kept
<1>2. a \in Seq(M \cup {Inf})
  <2>1. s \in Seq(AllWords)
    <3>1. N \cup {Inf} \subseteq AllWords
      BY DEF AllWords
    <3> QED BY <1>1, <3>1, Users
  <2>2. a \in Seq(AllWords) /\ Range(a) \subseteq Range(s) \cup Range(g) \cup {Inf}
    BY <2>1, ModifiedIsTyped
  <2>3. Range(a) \subseteq M \cup {Inf}
    BY <1>1, <2>2
  <2> QED BY <2>2, <2>3, Users
<1>3. ASSUME M \subseteq InOrder
      PROVE  /\ a \in StoredLists /\ a \in Seq(M)
             /\ Range(a) = (Range(s) \cup Range(g)) \ Range(z)
  <2>1. s \in StoredLists /\ s \in Seq(N) /\ Range(s) \in SUBSET N
    BY <1>3, Users DEF Kept
  <2>2. g \in Seq(InOrder) /\ z \in Seq(InOrder)
    BY <1>1, <1>3, Users
  <2>3. a \in StoredLists /\ Range(a) = (Range(s) \cup Range(g)) \ Range(z)
    <3>1. CASE CompareWorks
      BY <2>1, <2>2, <3>1, ModifiedAclIs
    <3>2. CASE ~CompareWorks
      <4>1. InOrder = {} /\ M = {} /\ Range(s) = {} /\ Range(g) = {}
        BY <1>3, <2>1, <3>2, NobodyInOrder
      <4>2. Len(s) = 0 /\ Len(g) = 0
        <5>1. \A q \in Seq({}) : Len(q) = 0
          OBVIOUS
        <5> QED BY <2>1, <2>2, <4>1, <5>1 DEF StoredLists
      <4>3. a \in Seq(M \cup {Inf}) /\ Len(a) = 0
        <5>1. s \in Seq({Inf}) /\ g \in Seq({Inf}) /\ z \in Seq(AllWords)
              /\ Inf \in {Inf} /\ Inf \in AllWords
          <6>1. s \in Seq({Inf}) /\ g \in Seq({Inf})
            BY <1>1, <4>1, Users
          <6>2. z \in Seq(AllWords)
            BY <1>1, Users DEF AllWords
          <6> QED BY <6>1, <6>2 DEF AllWords
        <5>2. Len(a) \in 0 .. Len(s) + Len(g)
          BY <5>1, ModifiedAclFrom
        <5> QED BY <1>2, <4>2, <5>2
      <4>4. a = <<>> /\ Range(a) = {}
        BY <4>3 DEF Range
      <4>5. a \in StoredLists
        BY <4>4 DEF StoredLists
      <4> QED BY <4>1, <4>4, <4>5
    <3> QED BY <3>1, <3>2
  <2>4. Range(a) \subseteq M
    BY <2>1, <2>3
  <2> QED BY <1>2, <2>3, <2>4, Users
<1> QED BY <1>2, <1>3 DEF Kept, Exactly

\* A step of t keeps the invariant when every list that it puts is as it has to be.
LEMMA KeptFrame ==
  ASSUME TypeInv, KeptInv, NEW t \in Threads,
         \A k \in Cids \X Ops : named[k] \subseteq named'[k],
         \A k \in Cids \X Ops : lists'[k] \in {lists[k], NoAcl} \/ lists'[k] \in Kept(named'[k]),
         \A u \in Threads \ {t} :
            pc'[u] = pc[u] /\ at'[u] = at[u] /\ cid'[u] = cid[u] /\ orig'[u] = orig[u],
         pc'[t] \in {"moddel", "modput"} => orig'[t] \in Kept(named'[<<cid'[t], at'[t]>>])
  PROVE  KeptInv'
<1>1. ASSUME NEW k \in Cids \X Ops, lists'[k] # NoAcl PROVE lists'[k] \in Kept(named'[k])
  <2>1. CASE lists'[k] = lists[k]
    BY <1>1, <2>1, KeptGrows DEF KeptInv
  <2> QED BY <1>1, <2>1
<1>2. ASSUME NEW u \in Threads \ {t}, pc'[u] \in {"moddel", "modput"}
      PROVE  orig'[u] \in Kept(named'[<<cid'[u], at'[u]>>])
  <2>1. orig[u] \in Kept(named[<<cid[u], at[u]>>]) /\ <<cid[u], at[u]>> \in Cids \X Ops
    BY <1>2 DEF KeptInv, TypeInv, AtPlace, ModPath
  <2> QED BY <1>2, <2>1, KeptGrows
<1> QED BY <1>1, <1>2 DEF KeptInv

\* The steps that put no list and read none for mod_acl.
LEMMA KeptSteps ==
  ASSUME TypeInv, KeptInv, NEW t \in Threads,
         \/ GetCounter(t) \/ PutCounter(t) \/ CheckFresh(t) \/ CheckGiven(t) \/ PutExistence(t)
         \/ RemoveBegin(t) \/ DelEachAcl(t) \/ CheckExistence(t) \/ DelExistence(t)
         \/ CheckGone(t) \/ ModBegin(t) \/ GetAcl(t) \/ ReadAcl(t) \/ CheckCap(t)
         \/ CheckPerm(t) \/ Reply(t)
  PROVE  KeptInv'
<1>1. StateTyped
  BY DEF TypeInv
<1>2. CASE GetCounter(t)
  <2>1. UNCHANGED named /\ \A k \in Cids \X Ops : lists'[k] \in {lists[k], NoAcl}
    BY <1>1, <1>2 DEF GetCounter, StateTyped, db
  <2>2. pc'[t] \notin {"moddel", "modput"}
    BY <1>1, <1>2 DEF GetCounter, Goto, Answer, StateTyped
  <2>3. \A u \in Threads \ {t} : pc'[u] = pc[u] /\ at'[u] = at[u] /\ cid'[u] = cid[u]
                               /\ orig'[u] = orig[u]
    BY <1>1, <1>2 DEF GetCounter, Goto, Answer, StateTyped
  <2> QED BY <2>1, <2>2, <2>3, KeptFrame
<1>3. CASE PutCounter(t)
  <2>1. UNCHANGED named /\ \A k \in Cids \X Ops : lists'[k] \in {lists[k], NoAcl}
    BY <1>1, <1>3 DEF PutCounter, StateTyped, db
  <2>2. pc'[t] \notin {"moddel", "modput"}
    BY <1>1, <1>3 DEF PutCounter, Goto, Answer, StateTyped
  <2>3. \A u \in Threads \ {t} : pc'[u] = pc[u] /\ at'[u] = at[u] /\ cid'[u] = cid[u]
                               /\ orig'[u] = orig[u]
    BY <1>1, <1>3 DEF PutCounter, Goto, Answer, StateTyped
  <2> QED BY <2>1, <2>2, <2>3, KeptFrame
<1>4. CASE CheckFresh(t)
  <2>1. UNCHANGED named /\ \A k \in Cids \X Ops : lists'[k] \in {lists[k], NoAcl}
    BY <1>1, <1>4 DEF CheckFresh, StateTyped, db
  <2>2. pc'[t] \notin {"moddel", "modput"}
    BY <1>1, <1>4 DEF CheckFresh, Goto, Answer, StateTyped
  <2>3. \A u \in Threads \ {t} : pc'[u] = pc[u] /\ at'[u] = at[u] /\ cid'[u] = cid[u]
                               /\ orig'[u] = orig[u]
    BY <1>1, <1>4 DEF CheckFresh, Goto, Answer, StateTyped
  <2> QED BY <2>1, <2>2, <2>3, KeptFrame
<1>5. CASE CheckGiven(t)
  <2>1. UNCHANGED named /\ \A k \in Cids \X Ops : lists'[k] \in {lists[k], NoAcl}
    BY <1>1, <1>5 DEF CheckGiven, StateTyped, db
  <2>2. pc'[t] \notin {"moddel", "modput"}
    BY <1>1, <1>5 DEF CheckGiven, Goto, Answer, StateTyped
  <2>3. \A u \in Threads \ {t} : pc'[u] = pc[u] /\ at'[u] = at[u] /\ cid'[u] = cid[u]
                               /\ orig'[u] = orig[u]
    BY <1>1, <1>5 DEF CheckGiven, Goto, Answer, StateTyped
  <2> QED BY <2>1, <2>2, <2>3, KeptFrame
<1>6. CASE PutExistence(t)
  <2>1. UNCHANGED named /\ \A k \in Cids \X Ops : lists'[k] \in {lists[k], NoAcl}
    BY <1>1, <1>6 DEF PutExistence, StateTyped, db
  <2>2. pc'[t] \notin {"moddel", "modput"}
    BY <1>1, <1>6 DEF PutExistence, Goto, Answer, StateTyped
  <2>3. \A u \in Threads \ {t} : pc'[u] = pc[u] /\ at'[u] = at[u] /\ cid'[u] = cid[u]
                               /\ orig'[u] = orig[u]
    BY <1>1, <1>6 DEF PutExistence, Goto, Answer, StateTyped
  <2> QED BY <2>1, <2>2, <2>3, KeptFrame
<1>7. CASE RemoveBegin(t)
  <2>1. UNCHANGED named /\ \A k \in Cids \X Ops : lists'[k] \in {lists[k], NoAcl}
    BY <1>1, <1>7 DEF RemoveBegin, StateTyped, db
  <2>2. pc'[t] \notin {"moddel", "modput"}
    BY <1>1, <1>7 DEF RemoveBegin, Goto, Answer, StateTyped
  <2>3. \A u \in Threads \ {t} : pc'[u] = pc[u] /\ at'[u] = at[u] /\ cid'[u] = cid[u]
                               /\ orig'[u] = orig[u]
    BY <1>1, <1>7 DEF RemoveBegin, Goto, Answer, StateTyped
  <2> QED BY <2>1, <2>2, <2>3, KeptFrame
<1>8. CASE DelEachAcl(t)
  <2>1. UNCHANGED named /\ \A k \in Cids \X Ops : lists'[k] \in {lists[k], NoAcl}
    BY <1>1, <1>8 DEF DelEachAcl, StateTyped, db
  <2>2. pc'[t] \notin {"moddel", "modput"}
    BY <1>1, <1>8 DEF DelEachAcl, Goto, Answer, StateTyped
  <2>3. \A u \in Threads \ {t} : pc'[u] = pc[u] /\ at'[u] = at[u] /\ cid'[u] = cid[u]
                               /\ orig'[u] = orig[u]
    BY <1>1, <1>8 DEF DelEachAcl, Goto, Answer, StateTyped
  <2> QED BY <2>1, <2>2, <2>3, KeptFrame
<1>9. CASE CheckExistence(t)
  <2>1. UNCHANGED named /\ \A k \in Cids \X Ops : lists'[k] \in {lists[k], NoAcl}
    BY <1>1, <1>9 DEF CheckExistence, StateTyped, db
  <2>2. pc'[t] \notin {"moddel", "modput"}
    BY <1>1, <1>9 DEF CheckExistence, Goto, Answer, StateTyped
  <2>3. \A u \in Threads \ {t} : pc'[u] = pc[u] /\ at'[u] = at[u] /\ cid'[u] = cid[u]
                               /\ orig'[u] = orig[u]
    BY <1>1, <1>9 DEF CheckExistence, Goto, Answer, StateTyped
  <2> QED BY <2>1, <2>2, <2>3, KeptFrame
<1>10. CASE DelExistence(t)
  <2>1. UNCHANGED named /\ \A k \in Cids \X Ops : lists'[k] \in {lists[k], NoAcl}
    BY <1>1, <1>10 DEF DelExistence, StateTyped, db
  <2>2. pc'[t] \notin {"moddel", "modput"}
    BY <1>1, <1>10 DEF DelExistence, Goto, Answer, StateTyped
  <2>3. \A u \in Threads \ {t} : pc'[u] = pc[u] /\ at'[u] = at[u] /\ cid'[u] = cid[u]
                               /\ orig'[u] = orig[u]
    BY <1>1, <1>10 DEF DelExistence, Goto, Answer, StateTyped
  <2> QED BY <2>1, <2>2, <2>3, KeptFrame
<1>11. CASE CheckGone(t)
  <2>1. UNCHANGED named /\ \A k \in Cids \X Ops : lists'[k] \in {lists[k], NoAcl}
    BY <1>1, <1>11 DEF CheckGone, StateTyped, db
  <2>2. pc'[t] \notin {"moddel", "modput"}
    BY <1>1, <1>11 DEF CheckGone, Goto, Answer, StateTyped
  <2>3. \A u \in Threads \ {t} : pc'[u] = pc[u] /\ at'[u] = at[u] /\ cid'[u] = cid[u]
                               /\ orig'[u] = orig[u]
    BY <1>1, <1>11 DEF CheckGone, Goto, Answer, StateTyped
  <2> QED BY <2>1, <2>2, <2>3, KeptFrame
<1>12. CASE ModBegin(t)
  <2>1. UNCHANGED named /\ \A k \in Cids \X Ops : lists'[k] \in {lists[k], NoAcl}
    BY <1>1, <1>12 DEF ModBegin, StateTyped, db
  <2>2. pc'[t] \notin {"moddel", "modput"}
    BY <1>1, <1>12 DEF ModBegin, Goto, Answer, ContinueMod, StateTyped
  <2>3. \A u \in Threads \ {t} : pc'[u] = pc[u] /\ at'[u] = at[u] /\ cid'[u] = cid[u]
                               /\ orig'[u] = orig[u]
    BY <1>1, <1>12 DEF ModBegin, Goto, Answer, ContinueMod, StateTyped
  <2> QED BY <2>1, <2>2, <2>3, KeptFrame
<1>13. CASE GetAcl(t)
  <2>1. UNCHANGED named /\ \A k \in Cids \X Ops : lists'[k] \in {lists[k], NoAcl}
    BY <1>1, <1>13 DEF GetAcl, StateTyped, db
  <2>2. pc'[t] \notin {"moddel", "modput"}
    BY <1>1, <1>13 DEF GetAcl, Goto, Answer, StateTyped
  <2>3. \A u \in Threads \ {t} : pc'[u] = pc[u] /\ at'[u] = at[u] /\ cid'[u] = cid[u]
                               /\ orig'[u] = orig[u]
    BY <1>1, <1>13 DEF GetAcl, Goto, Answer, StateTyped
  <2> QED BY <2>1, <2>2, <2>3, KeptFrame
<1>14. CASE ReadAcl(t)
  <2>1. UNCHANGED named /\ \A k \in Cids \X Ops : lists'[k] \in {lists[k], NoAcl}
    BY <1>1, <1>14 DEF ReadAcl, StateTyped, db
  <2>2. pc'[t] \notin {"moddel", "modput"}
    BY <1>1, <1>14 DEF ReadAcl, Goto, Answer, StateTyped
  <2>3. \A u \in Threads \ {t} : pc'[u] = pc[u] /\ at'[u] = at[u] /\ cid'[u] = cid[u]
                               /\ orig'[u] = orig[u]
    BY <1>1, <1>14 DEF ReadAcl, Goto, Answer, StateTyped
  <2> QED BY <2>1, <2>2, <2>3, KeptFrame
<1>15. CASE CheckCap(t)
  <2>1. UNCHANGED named /\ \A k \in Cids \X Ops : lists'[k] \in {lists[k], NoAcl}
    BY <1>1, <1>15 DEF CheckCap, StateTyped, db
  <2>2. pc'[t] \notin {"moddel", "modput"}
    BY <1>1, <1>15 DEF CheckCap, Goto, Answer, StateTyped
  <2>3. \A u \in Threads \ {t} : pc'[u] = pc[u] /\ at'[u] = at[u] /\ cid'[u] = cid[u]
                               /\ orig'[u] = orig[u]
    BY <1>1, <1>15 DEF CheckCap, Goto, Answer, StateTyped
  <2> QED BY <2>1, <2>2, <2>3, KeptFrame
<1>16. CASE CheckPerm(t)
  <2>1. UNCHANGED named /\ \A k \in Cids \X Ops : lists'[k] \in {lists[k], NoAcl}
    BY <1>1, <1>16 DEF CheckPerm, StateTyped, db
  <2>2. pc'[t] \notin {"moddel", "modput"}
    BY <1>1, <1>16 DEF CheckPerm, Goto, Answer, StateTyped
  <2>3. \A u \in Threads \ {t} : pc'[u] = pc[u] /\ at'[u] = at[u] /\ cid'[u] = cid[u]
                               /\ orig'[u] = orig[u]
    BY <1>1, <1>16 DEF CheckPerm, Goto, Answer, StateTyped
  <2> QED BY <2>1, <2>2, <2>3, KeptFrame
<1>17. CASE Reply(t)
  <2>1. UNCHANGED named /\ \A k \in Cids \X Ops : lists'[k] \in {lists[k], NoAcl}
    BY <1>1, <1>17 DEF Reply, StateTyped, db
  <2>2. pc'[t] \notin {"moddel", "modput"}
    BY <1>1, <1>17 DEF Reply, Goto, Answer, StateTyped
  <2>3. \A u \in Threads \ {t} : pc'[u] = pc[u] /\ at'[u] = at[u] /\ cid'[u] = cid[u]
                               /\ orig'[u] = orig[u]
    BY <1>1, <1>17 DEF Reply, Goto, Answer, StateTyped
  <2> QED BY <2>1, <2>2, <2>3, KeptFrame
<1> QED BY <1>2, <1>3, <1>4, <1>5, <1>6, <1>7, <1>8, <1>9, <1>10, <1>11, <1>12, <1>13, <1>14, <1>15,
   <1>16, <1>17

LEMMA KeptBegin ==
  ASSUME TypeInv, KeptInv, NEW t \in Threads, NEW r \in Requests, Begin(t, r)
  PROVE  KeptInv'
<1>1. StateTyped /\ caps \in SUBSET CapType
  BY DEF TypeInv, StateTyped
<1>2. r.op \in {"create", "remove", "modacl", "getacl", "getcap", "verify"}
  BY <1>1, RequestIs DEF Requests
<1>3. UNCHANGED <<lists, named, orig>> /\ pc'[t] = Entry[r.op]
  BY <1>1 DEF Begin, Goto, StateTyped, db
<1>4. pc'[t] \notin {"moddel", "modput"}
  BY <1>2, <1>3, EntryIs
<1>5. \A u \in Threads \ {t} : pc'[u] = pc[u] /\ at'[u] = at[u] /\ cid'[u] = cid[u]
  BY <1>1 DEF Begin, Goto, StateTyped
<1> QED BY <1>3, <1>4, <1>5, KeptFrame

LEMMA KeptPutNew ==
  ASSUME TypeInv, KeptInv, NEW t \in Threads, PutNewAcl(t)
  PROVE  KeptInv'
<1>1. /\ StateTyped /\ OnPath(t) /\ AtPlace(t) /\ pc[t] = "putacl" /\ UNCHANGED <<cid, orig>>
  BY DEF TypeInv, PutNewAcl
<1>2. cid[t] \in Cids /\ at[t] \in Ops /\ req[t].op = "create"
  BY <1>1 DEF AtPlace, OnPath, CreatePath
<1>3. req[t].uid \in Uids
  BY <1>1, <1>2, ServedIs, RequestIs
<1>4. /\ pc'[t] \notin {"moddel", "modput"}
      /\ \A u \in Threads \ {t} : pc'[u] = pc[u] /\ at'[u] = at[u]
  BY <1>1 DEF PutNewAcl, Goto, Answer, StateTyped
<1>5. CASE lists[<<cid[t], at[t]>>] # NoAcl
  <2>1. UNCHANGED <<lists, named>>
    BY <1>5 DEF PutNewAcl
  <2> QED BY <1>1, <1>4, <2>1, KeptFrame
<1>6. CASE lists[<<cid[t], at[t]>>] = NoAcl
  <2>1. PICK list : list = FirstUsers(req[t].uid, at[t])
    OBVIOUS
  <2>2. PICK j \in Cids \X Ops : j = <<cid[t], at[t]>>
    BY <1>2
  <2>3. /\ lists' = [lists EXCEPT ![j] = list]
        /\ named' = [named EXCEPT ![j] = @ \cup Range(list)]
    BY <1>6, <2>1, <2>2 DEF PutNewAcl, PutAcl
  <2>4. /\ lists'[j] = list /\ named'[j] = named[j] \cup Range(list)
        /\ \A k \in Cids \X Ops : k # j => lists'[k] = lists[k] /\ named'[k] = named[k]
    BY <1>1, <2>3 DEF StateTyped
  <2>5. list \in Kept(named'[j])
    BY <1>3, <2>1, <2>4, KeptNew
  <2> QED BY <1>1, <1>4, <2>4, <2>5, KeptFrame
<1> QED BY <1>5, <1>6

LEMMA KeptModGet ==
  ASSUME TypeInv, KeptInv, NEW t \in Threads, ModGet(t)
  PROVE  KeptInv'
<1>1. /\ StateTyped /\ AtPlace(t) /\ pc[t] = "modget" /\ UNCHANGED <<lists, named, cid, at>>
  BY DEF TypeInv, ModGet, db
<1>2. <<cid[t], at[t]>> \in Cids \X Ops
  BY <1>1 DEF AtPlace, ModPath
<1>3. \A u \in Threads \ {t} : pc'[u] = pc[u] /\ orig'[u] = orig[u]
  BY <1>1 DEF ModGet, Goto, Answer, StateTyped
<1>4. ASSUME pc'[t] \in {"moddel", "modput"}
      PROVE  orig'[t] \in Kept(named[<<cid[t], at[t]>>])
  <2>1. lists[<<cid[t], at[t]>>] # NoAcl
    BY <1>1, <1>4 DEF ModGet, Goto, Answer, StateTyped
  <2>2. orig'[t] = lists[<<cid[t], at[t]>>]
    BY <1>1, <2>1 DEF ModGet, StateTyped
  <2> QED BY <1>2, <2>1, <2>2 DEF KeptInv
<1> QED BY <1>1, <1>3, <1>4, KeptFrame

LEMMA KeptModDel ==
  ASSUME TypeInv, KeptInv, NEW t \in Threads, ModDel(t)
  PROVE  KeptInv'
<1>1. /\ StateTyped /\ pc[t] = "moddel" /\ UNCHANGED <<named, cid, at, orig>>
  BY DEF TypeInv, ModDel
<1>2. \A k \in Cids \X Ops : lists'[k] \in {lists[k], NoAcl}
  BY <1>1 DEF ModDel, StateTyped
<1>3. \A u \in Threads \ {t} : pc'[u] = pc[u]
  BY <1>1 DEF ModDel, Goto, Answer, StateTyped
<1>4. orig[t] \in Kept(named[<<cid[t], at[t]>>])
  BY <1>1 DEF KeptInv
<1> QED BY <1>1, <1>2, <1>3, <1>4, KeptFrame

\* What the put of mod_acl stores.
LEMMA PutIs ==
  ASSUME TypeInv, KeptInv, NEW t \in Threads, ModPut(t), lists[<<cid[t], at[t]>>] = NoAcl
  PROVE  LET k == <<cid[t], at[t]>>
             set == Range(req[t].set)
             unset == Range(req[t].unset)
         IN  \E list \in Seq(AllWords) :
                /\ lists' = [lists EXCEPT ![k] = list]
                /\ named' = [named EXCEPT ![k] = named[k] \cup (set \cup unset)]
                /\ list \in Kept(named[k] \cup (set \cup unset))
                /\ Range(list) \subseteq Range(orig[t]) \cup set \cup {Inf}
                /\ named[k] \cup (set \cup unset) \subseteq InOrder =>
                      Range(list) = (Range(orig[t]) \cup set) \ unset
<1>1. /\ StateTyped /\ OnPath(t) /\ AtPlace(t) /\ pc[t] = "modput"
  BY DEF TypeInv, ModPut
<1>2. /\ cid[t] \in Cids /\ at[t] \in Ops /\ req[t].op = "modacl"
      /\ orig[t] \in Kept(named[<<cid[t], at[t]>>]) /\ orig[t] \in Seq(AllWords)
  BY <1>1 DEF AtPlace, OnPath, ModPath, KeptInv, StateTyped
<1>3. req[t].set \in Seq(Uids) /\ req[t].unset \in Seq(Uids)
  BY <1>1, <1>2, ServedIs, RequestIs
<1>4. PICK k \in Cids \X Ops : k = <<cid[t], at[t]>>
  BY <1>2
<1>5. PICK N \in SUBSET Uids : N = named[k]
  BY <1>1 DEF StateTyped
<1>6. PICK M : M = N \cup (Range(req[t].set) \cup Range(req[t].unset))
  OBVIOUS
<1>7. PICK list \in ModifiedAcl(orig[t], req[t].set, req[t].unset) :
         lists' = [lists EXCEPT ![k] = list] /\ named' = [named EXCEPT ![k] = M]
  BY <1>4, <1>5, <1>6 DEF ModPut, PutAcl
<1>8. /\ list \in Kept(M)
      /\ M \subseteq InOrder =>
            Range(list) = (Range(orig[t]) \cup Range(req[t].set)) \ Range(req[t].unset)
  <2>1. PICK s \in Kept(N) : s = orig[t]
    BY <1>2, <1>4, <1>5
  <2>2. PICK g \in Seq(Uids), z \in Seq(Uids) : g = req[t].set /\ z = req[t].unset
    BY <1>3
  <2>3. list \in ModifiedAcl(s, g, z) /\ M = N \cup (Range(g) \cup Range(z))
    BY <1>6, <2>1, <2>2
  <2>4. list \in Kept(M) /\ (M \subseteq InOrder => Exactly(list, s, g, z))
    BY <2>3, KeptModified
  <2> QED BY <2>1, <2>2, <2>4 DEF Exactly
<1>9. /\ list \in Seq(AllWords)
      /\ Range(list) \subseteq Range(orig[t]) \cup Range(req[t].set) \cup {Inf}
  BY <1>2, <1>3, ModifiedIsTyped
<1> QED BY <1>4, <1>5, <1>6, <1>7, <1>8, <1>9

LEMMA KeptModPut ==
  ASSUME TypeInv, KeptInv, NEW t \in Threads, ModPut(t)
  PROVE  KeptInv'
<1>1. /\ StateTyped /\ AtPlace(t) /\ pc[t] = "modput" /\ UNCHANGED <<cid, orig>>
  BY DEF TypeInv, ModPut
<1>2. /\ pc'[t] \notin {"moddel", "modput"}
      /\ \A u \in Threads \ {t} : pc'[u] = pc[u] /\ at'[u] = at[u]
  BY <1>1 DEF ModPut, ContinueMod, Goto, Answer, StateTyped
<1>3. CASE lists[<<cid[t], at[t]>>] # NoAcl
  <2>1. UNCHANGED <<lists, named>>
    BY <1>3 DEF ModPut
  <2> QED BY <1>1, <1>2, <2>1, KeptFrame
<1>4. CASE lists[<<cid[t], at[t]>>] = NoAcl
  <2>1. PICK j \in Cids \X Ops : j = <<cid[t], at[t]>>
    BY <1>1 DEF AtPlace, ModPath
  <2>2. PICK M : M = named[j] \cup (Range(req[t].set) \cup Range(req[t].unset))
    OBVIOUS
  <2>3. PICK list \in Seq(AllWords) :
           /\ lists' = [lists EXCEPT ![j] = list] /\ named' = [named EXCEPT ![j] = M]
           /\ list \in Kept(M)
    BY <1>4, <2>1, <2>2, PutIs
  <2>4. /\ lists'[j] = list /\ named'[j] = M
        /\ \A k \in Cids \X Ops : k # j => lists'[k] = lists[k] /\ named'[k] = named[k]
    BY <1>1, <2>3 DEF StateTyped
  <2> QED BY <1>1, <1>2, <2>2, <2>3, <2>4, KeptFrame
<1> QED BY <1>3, <1>4

LEMMA KeptNext ==
  ASSUME TypeInv, KeptInv, [Next]_vars
  PROVE  KeptInv'
<1>1. CASE UNCHANGED <<lists, named, pc, at, cid, orig>>
  BY <1>1 DEF KeptInv
<1>2. CASE \E t \in Threads : \E r \in Requests : Begin(t, r)
  BY <1>2, KeptBegin
<1>3. CASE \E t \in Threads : Serve(t)
  BY <1>3, KeptSteps, KeptPutNew, KeptModGet, KeptModDel, KeptModPut DEF Serve
<1>4. Restart \/ UNCHANGED vars => UNCHANGED <<lists, named, pc, at, cid, orig>>
  BY DEF Restart, vars, db
<1> QED BY <1>1, <1>2, <1>3, <1>4 DEF Next

LEMMA KeptInvariant ==
  Spec => [](TypeInv /\ KeptInv)
<1>1. Init => TypeInv /\ KeptInv
  <2>1. Init => KeptInv
    BY DEF Init, KeptInv
  <2> QED BY <2>1, TypeInit
<1>2. TypeInv /\ KeptInv /\ [Next]_vars => (TypeInv /\ KeptInv)'
  BY TypeNext, KeptNext
<1> QED BY <1>1, <1>2, PTL DEF Spec

(* TypeOK: whatever several threads do to the database between each other's calls, and     *)
(* whatever the width of a long, a list holds only uids that it was given, and overwritten *)
(* entries at most when not all of these are in order; the capabilities are for containers *)
(* and operations that exist, and no thread leaves the ranges of its path.                 *)
THEOREM AuthrTypeCorrect ==
  Spec => []TypeOK
<1>1. TypeInv /\ KeptInv => TypeOK
  <2> SUFFICES ASSUME TypeInv, KeptInv PROVE TypeOK
    OBVIOUS
  <2>1. StateTyped /\ \A t \in Threads : OnPath(t)
    BY DEF TypeInv
  <2>2. ASSUME NEW k \in Cids \X Ops, lists[k] # NoAcl
        PROVE  Range(lists[k]) \subseteq
                  named[k] \cup (IF named[k] \subseteq InOrder THEN {} ELSE {Inf})
    <3>1. /\ lists[k] \in Seq(named[k] \cup {Inf})
          /\ named[k] \subseteq InOrder => lists[k] \in Seq(named[k])
      BY <2>2 DEF KeptInv, Kept
    <3> QED BY <3>1, Users
  <2>3. \A t \in Threads : req[t] = NoRequest <=> pc[t] = "idle"
    BY <2>1 DEF OnPath
  <2> QED BY <2>1, <2>2, <2>3 DEF TypeOK, StateTyped
<1> QED BY <1>1, KeptInvariant, PTL

(* LookupsAgree: on every build and with every uid the bsearch of check_perm lets in only  *)
(* who is on the list; and on a list that was given only uids in order it finds everybody  *)
(* whom create_container and mod_acl left there, each once, for any number of threads and  *)
(* lists of any length.                                                                    *)
THEOREM AuthrLookups ==
  Spec => []LookupsAgree
<1>1. TypeInv /\ KeptInv => LookupsAgree
  <2> SUFFICES ASSUME TypeInv, KeptInv, NEW k \in Cids \X Ops, lists[k] # NoAcl
               PROVE  /\ \A u \in Uids : Bsearch(u, lists[k]) => u \in Range(lists[k])
                      /\ named[k] \subseteq InOrder =>
                            /\ Cardinality(Range(lists[k])) = Len(lists[k])
                            /\ \A u \in Range(lists[k]) : Bsearch(u, lists[k])
    BY DEF LookupsAgree
  <2>1. lists[k] \in Seq(AllWords) /\ lists[k] \in Kept(named[k])
    BY DEF TypeInv, StateTyped, KeptInv
  <2>2. AllWords \in SUBSET (0 .. Inf) /\ Uids \subseteq 0 .. Inf
    <3>1. HalfWord \in Nat /\ HalfWord > 0 /\ Inf \in Nat
      BY WordAssumption DEF Inf
    <3>2. Uids \subseteq 0 .. Inf - 1
      BY AuthrAssumption
    <3> QED BY <3>1, <3>2 DEF AllWords
  <2>3. \A u \in Uids : Bsearch(u, lists[k]) => u \in Range(lists[k])
    BY <2>1, <2>2, BsearchFound
  <2>4. ASSUME named[k] \subseteq InOrder
        PROVE  /\ Cardinality(Range(lists[k])) = Len(lists[k])
               /\ \A u \in Range(lists[k]) : Bsearch(u, lists[k])
    <3>1. lists[k] \in StoredLists /\ lists[k] \in Seq(named[k])
      BY <2>1, <2>4 DEF Kept
    <3>2. CASE CompareWorks
      <4>1. Range(lists[k]) \subseteq InOrder
        BY <2>4, <3>1, Users
      <4> QED BY <3>1, <3>2, <4>1, StoredOnce, BsearchIs
    <3>3. CASE ~CompareWorks
      <4>1. lists[k] \in Seq({})
        BY <2>4, <3>1, <3>3, NobodyInOrder DEF StoredLists
      <4>2. Len(lists[k]) = 0 /\ Range(lists[k]) = {}
        BY <4>1 DEF Range
      <4>3. Cardinality({}) = 0
        BY FS_EmptySet
      <4> QED BY <4>2, <4>3
    <3> QED BY <3>2, <3>3
  <2> QED BY <2>3, <2>4
<1> QED BY <1>1, KeptInvariant, PTL
-----------------------------------------------------------------------------
(* One thread: between two requests a container is whole or gone.          *)

OneThread == \A t, u \in Threads : t = u

\* A container has all its lists, or none when it is not created or removed.
Whole(c) == live[c] \in {0, 1} /\ \A o \in Ops : lists[<<c, o>>] # NoAcl <=> live[c] = 1

\* The thread has changed some of its container's lists and will change others.
Amid(t) == (pc[t] = "putacl" /\ at[t] > 1) \/ pc[t] \in {"delacl", "modput"}

\* What is there meanwhile.
Halfway(t) ==
    LET c == cid[t]
    IN  /\ pc[t] = "putacl" /\ at[t] > 1 =>
              live[c] = 0 /\ \A o \in Ops : lists[<<c, o>>] # NoAcl <=> o < at[t]
        /\ pc[t] = "delacl" =>
              live[c] = 0 /\ \A o \in Ops : o < at[t] => lists[<<c, o>>] = NoAcl
        /\ pc[t] = "moddel" => orig[t] = lists[<<c, at[t]>>]
        /\ pc[t] = "modput" =>
              live[c] = 1 /\ \A o \in Ops : lists[<<c, o>>] # NoAcl <=> o # at[t]

SoleInv ==
    /\ \A c \in Cids : (\A t \in Threads : ~(cid[t] = c /\ Amid(t))) => Whole(c)
    /\ \A t \in Threads : Halfway(t)

\* The invariant as the one thread sees it.
LEMMA SoleIs ==
  ASSUME OneThread, NEW t \in Threads
  PROVE  SoleInv <=> /\ \A c \in Cids : ~(cid[t] = c /\ Amid(t)) => Whole(c)
                     /\ Halfway(t)
BY DEF OneThread, SoleInv

LEMMA SoleIsNext ==
  ASSUME OneThread, NEW t \in Threads
  PROVE  SoleInv' <=> /\ \A c \in Cids : ~(cid'[t] = c /\ Amid(t)') => Whole(c)'
                      /\ Halfway(t)'
BY DEF OneThread, SoleInv

LEMMA StoredNotNone ==
  \A z \in Seq(AllWords) : z # NoAcl
BY NoAclAssumption DEF AllWords

\* A step outside the loops that change lists.
LEMMA Calm ==
  ASSUME OneThread, SoleInv, NEW t \in Threads, UNCHANGED <<lists, live>>,
         ~Amid(t), ~Amid(t)', pc'[t] # "moddel"
  PROVE  SoleInv'
<1>1. \A c \in Cids : Whole(c)
  BY SoleIs
<1>2. \A c \in Cids : Whole(c)'
  BY <1>1 DEF Whole
<1>3. Halfway(t)'
  BY DEF Halfway, Amid
<1> QED BY <1>2, <1>3, SoleIsNext

\* A step that leaves the containers other than its own alone.
LEMMA Elsewhere ==
  ASSUME OneThread, SoleInv, NEW t \in Threads, cid'[t] = cid[t],
         \A c \in Cids : c # cid[t] =>
            live'[c] = live[c] /\ \A o \in Ops : lists'[<<c, o>>] = lists[<<c, o>>],
         Amid(t)' \/ Whole(cid[t])', Halfway(t)'
  PROVE  SoleInv'
<1>1. ASSUME NEW c \in Cids, c # cid[t] PROVE Whole(c)'
  <2>1. Whole(c)
    BY <1>1, SoleIs
  <2> QED BY <1>1, <2>1 DEF Whole
<1>2. \A c \in Cids : ~(cid'[t] = c /\ Amid(t)') => Whole(c)'
  BY <1>1
<1> QED BY <1>2, SoleIsNext

\* The steps that change no list and do not begin to.
LEMMA CalmSteps ==
  ASSUME OneThread, TypeInv, SoleInv, NEW t \in Threads,
         \/ GetCounter(t) \/ PutCounter(t) \/ CheckFresh(t) \/ CheckGiven(t) \/ PutExistence(t)
         \/ CheckExistence(t) \/ DelExistence(t) \/ CheckGone(t) \/ ModBegin(t)
         \/ GetAcl(t) \/ ReadAcl(t) \/ CheckCap(t) \/ CheckPerm(t) \/ Reply(t)
         \/ \E r \in Requests : Begin(t, r)
  PROVE  SoleInv'
<1>1. StateTyped /\ OnPath(t) /\ AtPlace(t)
  BY DEF TypeInv
<1>2. CASE GetCounter(t)
  <2>1. UNCHANGED <<lists, live>>
    BY <1>2 DEF GetCounter, db
  <2>2. ~Amid(t)
    BY <1>2 DEF GetCounter, Amid
  <2>3. ~Amid(t)' /\ pc'[t] # "moddel"
    BY <1>1, <1>2 DEF GetCounter, Goto, Answer, StateTyped, Amid, AtPlace, CreatePath
  <2> QED BY <2>1, <2>2, <2>3, Calm
<1>3. CASE PutCounter(t)
  <2>1. UNCHANGED <<lists, live>>
    BY <1>3 DEF PutCounter, db
  <2>2. ~Amid(t)
    BY <1>3 DEF PutCounter, Amid
  <2>3. ~Amid(t)' /\ pc'[t] # "moddel"
    BY <1>1, <1>3 DEF PutCounter, Goto, Answer, StateTyped, Amid, AtPlace, CreatePath
  <2> QED BY <2>1, <2>2, <2>3, Calm
<1>4. CASE CheckFresh(t)
  <2>1. UNCHANGED <<lists, live>>
    BY <1>4 DEF CheckFresh, db
  <2>2. ~Amid(t)
    BY <1>4 DEF CheckFresh, Amid
  <2>3. ~Amid(t)' /\ pc'[t] # "moddel"
    BY <1>1, <1>4 DEF CheckFresh, Goto, Answer, StateTyped, Amid, AtPlace, CreatePath
  <2> QED BY <2>1, <2>2, <2>3, Calm
<1>5. CASE CheckGiven(t)
  <2>1. UNCHANGED <<lists, live>>
    BY <1>5 DEF CheckGiven, db
  <2>2. ~Amid(t)
    BY <1>5 DEF CheckGiven, Amid
  <2>3. ~Amid(t)' /\ pc'[t] # "moddel"
    BY <1>1, <1>5 DEF CheckGiven, Goto, Answer, StateTyped, Amid, AtPlace, CreatePath
  <2> QED BY <2>1, <2>2, <2>3, Calm
<1>6. CASE PutExistence(t)
  <2>1. UNCHANGED <<lists, live>>
    BY <1>6 DEF PutExistence, db
  <2>2. ~Amid(t)
    BY <1>6 DEF PutExistence, Amid
  <2>3. ~Amid(t)' /\ pc'[t] # "moddel"
    BY <1>1, <1>6 DEF PutExistence, Goto, Answer, StateTyped, Amid, AtPlace, CreatePath
  <2> QED BY <2>1, <2>2, <2>3, Calm
<1>7. CASE CheckExistence(t)
  <2>1. UNCHANGED <<lists, live>>
    BY <1>7 DEF CheckExistence, db
  <2>2. ~Amid(t)
    BY <1>7 DEF CheckExistence, Amid
  <2>3. ~Amid(t)' /\ pc'[t] # "moddel"
    BY <1>1, <1>7 DEF CheckExistence, Goto, Answer, StateTyped, Amid, AtPlace, CreatePath
  <2> QED BY <2>1, <2>2, <2>3, Calm
<1>8. CASE DelExistence(t)
  <2>1. UNCHANGED <<lists, live>>
    BY <1>8 DEF DelExistence, db
  <2>2. ~Amid(t)
    BY <1>8 DEF DelExistence, Amid
  <2>3. ~Amid(t)' /\ pc'[t] # "moddel"
    BY <1>1, <1>8 DEF DelExistence, Goto, Answer, StateTyped, Amid, AtPlace, CreatePath
  <2> QED BY <2>1, <2>2, <2>3, Calm
<1>9. CASE CheckGone(t)
  <2>1. UNCHANGED <<lists, live>>
    BY <1>9 DEF CheckGone, db
  <2>2. ~Amid(t)
    BY <1>9 DEF CheckGone, Amid
  <2>3. ~Amid(t)' /\ pc'[t] # "moddel"
    BY <1>1, <1>9 DEF CheckGone, Goto, Answer, StateTyped, Amid, AtPlace, CreatePath
  <2> QED BY <2>1, <2>2, <2>3, Calm
<1>10. CASE ModBegin(t)
  <2>1. UNCHANGED <<lists, live>>
    BY <1>10 DEF ModBegin, db
  <2>2. ~Amid(t)
    BY <1>10 DEF ModBegin, Amid
  <2>3. ~Amid(t)' /\ pc'[t] # "moddel"
    BY <1>1, <1>10 DEF ModBegin, Goto, Answer, ContinueMod, StateTyped, Amid, AtPlace,
       CreatePath
  <2> QED BY <2>1, <2>2, <2>3, Calm
<1>11. CASE GetAcl(t)
  <2>1. UNCHANGED <<lists, live>>
    BY <1>11 DEF GetAcl, db
  <2>2. ~Amid(t)
    BY <1>11 DEF GetAcl, Amid
  <2>3. ~Amid(t)' /\ pc'[t] # "moddel"
    BY <1>1, <1>11 DEF GetAcl, Goto, Answer, StateTyped, Amid, AtPlace, CreatePath
  <2> QED BY <2>1, <2>2, <2>3, Calm
<1>12. CASE ReadAcl(t)
  <2>1. UNCHANGED <<lists, live>>
    BY <1>12 DEF ReadAcl, db
  <2>2. ~Amid(t)
    BY <1>12 DEF ReadAcl, Amid
  <2>3. ~Amid(t)' /\ pc'[t] # "moddel"
    BY <1>1, <1>12 DEF ReadAcl, Goto, Answer, StateTyped, Amid, AtPlace, CreatePath
  <2> QED BY <2>1, <2>2, <2>3, Calm
<1>13. CASE CheckCap(t)
  <2>1. UNCHANGED <<lists, live>>
    BY <1>13 DEF CheckCap, db
  <2>2. ~Amid(t)
    BY <1>13 DEF CheckCap, Amid
  <2>3. ~Amid(t)' /\ pc'[t] # "moddel"
    BY <1>1, <1>13 DEF CheckCap, Goto, Answer, StateTyped, Amid, AtPlace, CreatePath
  <2> QED BY <2>1, <2>2, <2>3, Calm
<1>14. CASE CheckPerm(t)
  <2>1. UNCHANGED <<lists, live>>
    BY <1>14 DEF CheckPerm, db
  <2>2. ~Amid(t)
    BY <1>14 DEF CheckPerm, Amid
  <2>3. ~Amid(t)' /\ pc'[t] # "moddel"
    BY <1>1, <1>14 DEF CheckPerm, Goto, Answer, StateTyped, Amid, AtPlace, CreatePath
  <2> QED BY <2>1, <2>2, <2>3, Calm
<1>15. CASE Reply(t)
  <2>1. UNCHANGED <<lists, live>>
    BY <1>15 DEF Reply, db
  <2>2. ~Amid(t)
    BY <1>15 DEF Reply, Amid
  <2>3. ~Amid(t)' /\ pc'[t] # "moddel"
    BY <1>1, <1>15 DEF Reply, Goto, Answer, StateTyped, Amid, AtPlace, CreatePath
  <2> QED BY <2>1, <2>2, <2>3, Calm
<1>16. CASE \E r \in Requests : Begin(t, r)
  <2>1. PICK r \in Requests : Begin(t, r)
    BY <1>16
  <2>2. UNCHANGED <<lists, live>> /\ ~Amid(t)
    BY <2>1 DEF Begin, db, Amid
  <2>3. /\ caps \in SUBSET CapType
        /\ r.op \in {"create", "remove", "modacl", "getacl", "getcap", "verify"}
    BY <1>1, RequestIs DEF Requests, StateTyped
  <2>4. pc'[t] = Entry[r.op]
    BY <1>1, <2>1 DEF Begin, Goto, StateTyped
  <2>5. pc'[t] \in {"newcid", "remove", "modacl", "getacl", "perm", "verify"}
    BY <2>3, <2>4, EntryIs
  <2>6. ~Amid(t)' /\ pc'[t] # "moddel"
    BY <2>5 DEF Amid
  <2> QED BY <2>2, <2>6, Calm
<1> QED BY <1>2, <1>3, <1>4, <1>5, <1>6, <1>7, <1>8, <1>9, <1>10, <1>11, <1>12, <1>13, <1>14,
   <1>15, <1>16

LEMMA RemoveBeginSole ==
  ASSUME OneThread, TypeInv, SoleInv, NEW t \in Threads, RemoveBegin(t)
  PROVE  SoleInv'
<1>1. StateTyped /\ OnPath(t) /\ AtPlace(t) /\ pc[t] = "remove" /\ UNCHANGED <<lists, at, cid>>
  BY DEF TypeInv, RemoveBegin, db
<1>2. cid[t] \in Cids /\ at[t] = 1 /\ ~Amid(t)
  BY <1>1 DEF AtPlace, RemovePath, Amid
<1>3. PICK code : code = Authorized(req[t].cap, cid[t], RemoveOp)
  OBVIOUS
<1>4. CASE code # "OK"
  <2>1. UNCHANGED live /\ pc'[t] = "reply"
    BY <1>1, <1>3, <1>4 DEF RemoveBegin, Answer, Goto, StateTyped
  <2> QED BY <1>1, <1>2, <2>1, Calm DEF Amid
<1>5. CASE code = "OK"
  <2>1. live' = [live EXCEPT ![cid[t]] = 0] /\ pc'[t] = "delacl"
    BY <1>1, <1>3, <1>5 DEF RemoveBegin, Goto, StateTyped
  <2>2. live'[cid[t]] = 0 /\ \A c \in Cids : c # cid[t] => live'[c] = live[c]
    BY <1>1, <1>2, <2>1 DEF StateTyped
  <2>3. \A o \in Ops : ~(o < at'[t])
    BY <1>1, <1>2, Numbers
  <2>4. Halfway(t)' /\ Amid(t)'
    BY <1>1, <2>1, <2>2, <2>3 DEF Halfway, Amid
  <2> QED BY <1>1, <2>2, <2>4, Elsewhere
<1> QED BY <1>4, <1>5

LEMMA DelEachAclSole ==
  ASSUME OneThread, TypeInv, SoleInv, NEW t \in Threads, DelEachAcl(t)
  PROVE  SoleInv'
<1>1. /\ StateTyped /\ OnPath(t) /\ AtPlace(t) /\ pc[t] = "delacl" /\ UNCHANGED <<live, cid>>
      /\ lists' = [lists EXCEPT ![<<cid[t], at[t]>>] = NoAcl]
  BY DEF TypeInv, DelEachAcl
<1>2. cid[t] \in Cids /\ at[t] \in Ops
  BY <1>1 DEF AtPlace, RemovePath
<1>3. live[cid[t]] = 0 /\ \A o \in Ops : o < at[t] => lists[<<cid[t], o>>] = NoAcl
  BY <1>1, SoleIs DEF Halfway
<1>4. \A c \in Cids, o \in Ops :
         lists'[<<c, o>>] = IF c = cid[t] /\ o = at[t] THEN NoAcl ELSE lists[<<c, o>>]
  BY <1>1, <1>2 DEF StateTyped
<1>5. \A o \in Ops : o <= at[t] => lists'[<<cid[t], o>>] = NoAcl
  BY <1>2, <1>3, <1>4, Numbers
<1>6. CASE at[t] = NumContainerOps
  <2>1. pc'[t] = "rmexist"
    BY <1>1, <1>6 DEF DelEachAcl, Goto, StateTyped
  <2>2. \A o \in Ops : lists'[<<cid[t], o>>] = NoAcl
    BY <1>5, <1>6, Numbers
  <2>3. Whole(cid[t])'
    BY <1>1, <1>3, <2>2 DEF Whole
  <2>4. Halfway(t)'
    BY <2>1 DEF Halfway
  <2> QED BY <1>1, <1>4, <2>3, <2>4, Elsewhere
<1>7. CASE at[t] # NumContainerOps
  <2>1. pc'[t] = "delacl" /\ at'[t] = at[t] + 1
    BY <1>1, <1>7 DEF DelEachAcl, Goto, StateTyped
  <2>2. \A o \in Ops : o < at'[t] => lists'[<<cid[t], o>>] = NoAcl
    BY <1>2, <1>5, <2>1, Numbers
  <2>3. Halfway(t)' /\ Amid(t)'
    BY <1>1, <1>3, <2>1, <2>2 DEF Halfway, Amid
  <2> QED BY <1>1, <1>4, <2>3, Elsewhere
<1> QED BY <1>6, <1>7

LEMMA PutNewAclSole ==
  ASSUME OneThread, TypeInv, SoleInv, NEW t \in Threads, PutNewAcl(t)
  PROVE  /\ SoleInv'
         /\ lists[<<cid[t], at[t]>>] # NoAcl => at[t] = 1
<1>1. StateTyped /\ OnPath(t) /\ AtPlace(t) /\ pc[t] = "putacl" /\ UNCHANGED cid
  BY DEF TypeInv, PutNewAcl
<1>2. cid[t] \in Cids /\ at[t] \in Ops /\ at[t] \in Nat /\ at[t] >= 1 /\ req[t].op = "create"
  BY <1>1, Numbers DEF AtPlace, OnPath, CreatePath
<1>3. lists[<<cid[t], at[t]>>] # NoAcl => at[t] = 1
  <2> SUFFICES ASSUME at[t] > 1 PROVE lists[<<cid[t], at[t]>>] = NoAcl
    BY <1>2
  <2>1. \A o \in Ops : lists[<<cid[t], o>>] # NoAcl <=> o < at[t]
    BY <1>1, SoleIs DEF Halfway
  <2> QED BY <1>2, <2>1
<1>4. CASE lists[<<cid[t], at[t]>>] # NoAcl
  <2>1. UNCHANGED <<lists, live, at>> /\ pc'[t] = "reply"
    BY <1>1, <1>4 DEF PutNewAcl, Answer, Goto, StateTyped
  <2>2. ~Amid(t) /\ ~Amid(t)'
    BY <1>1, <1>3, <1>4, <2>1 DEF Amid
  <2> QED BY <1>3, <2>1, <2>2, Calm
<1>5. CASE lists[<<cid[t], at[t]>>] = NoAcl
  <2>1. live[cid[t]] = 0 /\ \A o \in Ops : lists[<<cid[t], o>>] # NoAcl <=> o < at[t]
    <3>1. CASE at[t] > 1
      BY <1>1, <3>1, SoleIs DEF Halfway
    <3>2. CASE at[t] = 1
      <4>1. Whole(cid[t])
        BY <1>1, <1>2, <3>2, SoleIs DEF Amid
      <4>2. live[cid[t]] = 0 /\ \A o \in Ops : lists[<<cid[t], o>>] = NoAcl
        BY <1>2, <1>5, <4>1 DEF Whole
      <4>3. \A o \in Ops : ~(o < 1)
        BY Numbers
      <4> QED BY <3>2, <4>2, <4>3
    <3> QED BY <1>2, <3>1, <3>2
  <2>2. req[t].uid \in Uids
    BY <1>1, <1>2, ServedIs, RequestIs
  <2>3. PICK list : list = FirstUsers(req[t].uid, at[t])
    OBVIOUS
  <2>4. list # NoAcl
    BY <2>2, <2>3, NewLists, StoredNotNone
  <2>5. lists' = [lists EXCEPT ![<<cid[t], at[t]>>] = list]
    BY <1>5, <2>3 DEF PutNewAcl, PutAcl
  <2>6. \A c \in Cids, o \in Ops :
           lists'[<<c, o>>] = IF c = cid[t] /\ o = at[t] THEN list ELSE lists[<<c, o>>]
    BY <1>1, <1>2, <2>5 DEF StateTyped
  <2>7. \A o \in Ops : lists'[<<cid[t], o>>] # NoAcl <=> o <= at[t]
    <3>1. \A o \in Ops : o <= at[t] <=> o < at[t] \/ o = at[t]
      BY <1>2, Numbers
    <3> QED BY <1>2, <2>1, <2>4, <2>6, <3>1
  <2>8. CASE at[t] = NumContainerOps
    <3>1. live' = [live EXCEPT ![cid[t]] = @ + 1] /\ pc'[t] = "reply"
      BY <1>1, <1>5, <2>8 DEF PutNewAcl, Answer, Goto, StateTyped
    <3>2. live'[cid[t]] = 1 /\ \A c \in Cids : c # cid[t] => live'[c] = live[c]
      BY <1>1, <1>2, <2>1, <3>1 DEF StateTyped
    <3>3. \A o \in Ops : lists'[<<cid[t], o>>] # NoAcl
      BY <2>7, <2>8, Numbers
    <3>4. Whole(cid[t])'
      BY <1>1, <3>2, <3>3 DEF Whole
    <3>5. Halfway(t)'
      BY <3>1 DEF Halfway
    <3> QED BY <1>1, <1>3, <2>6, <3>2, <3>4, <3>5, Elsewhere
  <2>9. CASE at[t] # NumContainerOps
    <3>1. UNCHANGED <<live, pc>> /\ at'[t] = at[t] + 1
      BY <1>1, <1>5, <2>9 DEF PutNewAcl, StateTyped
    <3>2. \A o \in Ops : lists'[<<cid[t], o>>] # NoAcl <=> o < at'[t]
      <4>1. \A o \in Ops : o <= at[t] <=> o < at[t] + 1
        BY <1>2, Numbers
      <4> QED BY <2>7, <3>1, <4>1
    <3>3. at'[t] > 1
      BY <1>2, <3>1
    <3>4. Halfway(t)' /\ Amid(t)'
      BY <1>1, <2>1, <3>1, <3>2, <3>3 DEF Halfway, Amid
    <3> QED BY <1>1, <1>3, <2>6, <3>1, <3>4, Elsewhere
  <2> QED BY <2>8, <2>9
<1> QED BY <1>4, <1>5

LEMMA ModGetSole ==
  ASSUME OneThread, TypeInv, SoleInv, NEW t \in Threads, ModGet(t)
  PROVE  SoleInv'
<1>1. /\ StateTyped /\ AtPlace(t) /\ pc[t] = "modget" /\ UNCHANGED <<lists, live, cid, at>>
  BY DEF TypeInv, ModGet, db
<1>2. ~Amid(t)
  BY <1>1 DEF Amid
<1>3. CASE lists[<<cid[t], at[t]>>] = NoAcl
  <2>1. pc'[t] = "reply"
    BY <1>1, <1>3 DEF ModGet, Answer, Goto, StateTyped
  <2> QED BY <1>1, <1>2, <2>1, Calm DEF Amid
<1>4. CASE lists[<<cid[t], at[t]>>] # NoAcl
  <2>1. pc'[t] = "moddel" /\ orig'[t] = lists[<<cid[t], at[t]>>]
    BY <1>1, <1>4 DEF ModGet, Goto, StateTyped
  <2>2. Halfway(t)'
    BY <1>1, <2>1 DEF Halfway
  <2>3. Whole(cid[t])'
    <3>1. cid[t] \in Cids
      BY <1>1 DEF AtPlace, ModPath
    <3>2. Whole(cid[t])
      BY <1>2, <3>1, SoleIs
    <3> QED BY <1>1, <3>2 DEF Whole
  <2> QED BY <1>1, <2>2, <2>3, Elsewhere
<1> QED BY <1>3, <1>4

LEMMA ModDelSole ==
  ASSUME OneThread, TypeInv, SoleInv, NEW t \in Threads, ModDel(t)
  PROVE  SoleInv'
<1>1. /\ StateTyped /\ AtPlace(t) /\ pc[t] = "moddel" /\ UNCHANGED <<live, cid, at>>
  BY DEF TypeInv, ModDel
<1>2. ~Amid(t) /\ cid[t] \in Cids /\ at[t] \in Ops
  BY <1>1 DEF Amid, AtPlace, ModPath
<1>3. CASE lists[<<cid[t], at[t]>>] = NoAcl
  <2>1. pc'[t] = "reply" /\ UNCHANGED lists
    BY <1>1, <1>3 DEF ModDel, Answer, Goto, StateTyped
  <2> QED BY <1>1, <1>2, <2>1, Calm DEF Amid
<1>4. CASE lists[<<cid[t], at[t]>>] # NoAcl
  <2>1. pc'[t] = "modput" /\ lists' = [lists EXCEPT ![<<cid[t], at[t]>>] = NoAcl]
    BY <1>1, <1>4 DEF ModDel, Goto, StateTyped
  <2>2. \A c \in Cids, o \in Ops :
           lists'[<<c, o>>] = IF c = cid[t] /\ o = at[t] THEN NoAcl ELSE lists[<<c, o>>]
    BY <1>1, <1>2, <2>1 DEF StateTyped
  <2>3. Whole(cid[t])
    BY <1>2, SoleIs
  <2>4. live[cid[t]] = 1 /\ \A o \in Ops : lists[<<cid[t], o>>] # NoAcl
    BY <1>2, <1>4, <2>3 DEF Whole
  <2>5. \A o \in Ops : lists'[<<cid[t], o>>] # NoAcl <=> o # at[t]
    BY <1>2, <2>2, <2>4
  <2>6. Halfway(t)' /\ Amid(t)'
    BY <1>1, <2>1, <2>4, <2>5 DEF Halfway, Amid
  <2> QED BY <1>1, <2>2, <2>6, Elsewhere
<1> QED BY <1>3, <1>4

\* With one thread the list that mod_acl deleted is still gone when it puts the new one.
LEMMA ModPutSole ==
  ASSUME OneThread, TypeInv, SoleInv, NEW t \in Threads, ModPut(t)
  PROVE  SoleInv' /\ lists[<<cid[t], at[t]>>] = NoAcl
<1>1. /\ StateTyped /\ OnPath(t) /\ AtPlace(t) /\ pc[t] = "modput" /\ UNCHANGED <<live, cid>>
  BY DEF TypeInv, ModPut
<1>2. cid[t] \in Cids /\ at[t] \in Ops /\ req[t].op = "modacl"
  BY <1>1 DEF AtPlace, ModPath, OnPath
<1>3. live[cid[t]] = 1 /\ \A o \in Ops : lists[<<cid[t], o>>] # NoAcl <=> o # at[t]
  BY <1>1, SoleIs DEF Halfway
<1>4. lists[<<cid[t], at[t]>>] = NoAcl
  BY <1>2, <1>3
<1>5. PICK list \in ModifiedAcl(orig[t], req[t].set, req[t].unset) :
         lists' = [lists EXCEPT ![<<cid[t], at[t]>>] = list]
  BY <1>4 DEF ModPut, PutAcl
<1>6. list # NoAcl
  <2>1. orig[t] \in Seq(AllWords) /\ req[t].set \in Seq(Uids) /\ req[t].unset \in Seq(Uids)
    BY <1>1, <1>2, ServedIs, RequestIs DEF StateTyped
  <2> QED BY <2>1, ModifiedIsTyped, StoredNotNone
<1>7. \A c \in Cids, o \in Ops :
         lists'[<<c, o>>] = IF c = cid[t] /\ o = at[t] THEN list ELSE lists[<<c, o>>]
  BY <1>1, <1>2, <1>5 DEF StateTyped
<1>8. Whole(cid[t])'
  <2>1. \A o \in Ops : lists'[<<cid[t], o>>] # NoAcl
    BY <1>2, <1>3, <1>6, <1>7
  <2> QED BY <1>1, <1>3, <2>1 DEF Whole
<1>9. pc'[t] \in {"reply", "modget"}
  BY <1>1, <1>4 DEF ModPut, ContinueMod, Answer, Goto, StateTyped
<1>10. Halfway(t)'
  BY <1>9 DEF Halfway
<1> QED BY <1>1, <1>4, <1>7, <1>8, <1>10, Elsewhere

LEMMA SoleInit ==
  ASSUME Init
  PROVE  SoleInv
BY DEF Init, SoleInv, Whole, Halfway, Amid

LEMMA SoleNext ==
  ASSUME OneThread, TypeInv, SoleInv, [Next]_vars
  PROVE  SoleInv'
<1>1. CASE UNCHANGED <<lists, pc, at, cid, orig, live>>
  <2>1. \A c \in Cids : Whole(c)' <=> Whole(c)
    BY <1>1 DEF Whole
  <2>2. \A t \in Threads : (Halfway(t)' <=> Halfway(t)) /\ (Amid(t)' <=> Amid(t))
    BY <1>1 DEF Halfway, Amid
  <2> QED BY <1>1, <2>1, <2>2 DEF SoleInv
<1>2. CASE \E t \in Threads : \E r \in Requests : Begin(t, r)
  BY <1>2, CalmSteps
<1>3. CASE \E t \in Threads : Serve(t)
  BY <1>3, CalmSteps, RemoveBeginSole, DelEachAclSole, PutNewAclSole, ModGetSole, ModDelSole,
     ModPutSole DEF Serve
<1>4. Restart \/ UNCHANGED vars => UNCHANGED <<lists, pc, at, cid, orig, live>>
  BY DEF Restart, vars, db
<1> QED BY <1>1, <1>2, <1>3, <1>4 DEF Next

LEMMA SoleInvariant ==
  ASSUME OneThread
  PROVE  Spec => [](TypeInv /\ SoleInv)
<1>1. Init => TypeInv /\ SoleInv
  BY TypeInit, SoleInit
<1>2. TypeInv /\ SoleInv /\ [Next]_vars => (TypeInv /\ SoleInv)'
  BY TypeNext, SoleNext
<1> QED BY <1>1, <1>2, PTL DEF Spec

(* OneContainerPerCid: a server with one thread never lets create_container succeed twice  *)
(* with one id, whatever is created, removed and modified in whatever order, also with the *)
(* removals that end in an error or leave an existence entry.                              *)
THEOREM AuthrOneContainer ==
  ASSUME OneThread
  PROVE  Spec => []OneContainerPerCid
<1>1. TypeInv /\ SoleInv => OneContainerPerCid
  <2> SUFFICES ASSUME SoleInv, NEW c \in Cids PROVE live[c] <= 1
    BY DEF OneContainerPerCid
  <2>1. CASE \A t \in Threads : ~(cid[t] = c /\ Amid(t))
    BY <2>1 DEF SoleInv, Whole
  <2>2. CASE \E t \in Threads : cid[t] = c /\ Amid(t)
    <3>1. PICK t \in Threads : cid[t] = c /\ Amid(t)
      BY <2>2
    <3>2. Halfway(t)
      BY DEF SoleInv
    <3> QED BY <3>1, <3>2 DEF Halfway, Amid
  <2> QED BY <2>1, <2>2
<1> QED BY <1>1, SoleInvariant, PTL

(* WholeOrGone: a container that no request works on has the list of every operation or,   *)
(* not created or removed, none: no request of a one-threaded server leaves half of them.  *)
THEOREM AuthrWhole ==
  ASSUME OneThread
  PROVE  Spec => []WholeOrGone
<1>1. TypeInv /\ SoleInv => WholeOrGone
  BY DEF SoleInv, Whole, WholeOrGone
<1> QED BY <1>1, SoleInvariant, PTL
-----------------------------------------------------------------------------
(* One thread: the lists change as the sets of AclService.                 *)

\* What is abstracted, as the one thread sees it.
LEMMA UsersAre ==
  ASSUME OneThread, NEW t \in Threads, NEW k \in Cids \X Ops
  PROVE  UsersAllowed[k] = IF pc[t] = "modput" /\ <<cid[t], at[t]>> = k THEN Range(orig[t]) \cap Uids
                           ELSE IF lists[k] = NoAcl THEN NoAcl ELSE Range(lists[k]) \cap Uids
<1> DEFINE out == {u \in Threads : pc[u] = "modput" /\ <<cid[u], at[u]>> = k}
<1>1. UsersAllowed[k] = IF out # {} THEN Range(orig[CHOOSE u \in out : TRUE]) \cap Uids
                        ELSE IF lists[k] = NoAcl THEN NoAcl ELSE Range(lists[k]) \cap Uids
  BY DEF UsersAllowed
<1>2. CASE pc[t] = "modput" /\ <<cid[t], at[t]>> = k
  <2>1. t \in out
    BY <1>2
  <2>2. (CHOOSE u \in out : TRUE) \in out
    BY <2>1
  <2>3. (CHOOSE u \in out : TRUE) = t
    BY <2>2 DEF OneThread
  <2> QED BY <1>1, <1>2, <2>1, <2>3
<1>3. CASE ~(pc[t] = "modput" /\ <<cid[t], at[t]>> = k)
  <2>1. out = {}
    BY <1>3 DEF OneThread
  <2> QED BY <1>1, <1>3, <2>1
<1> QED BY <1>2, <1>3

LEMMA UsersAreNext ==
  ASSUME OneThread, NEW t \in Threads, NEW k \in Cids \X Ops
  PROVE  UsersAllowed'[k] = IF pc'[t] = "modput" /\ <<cid'[t], at'[t]>> = k THEN Range(orig'[t]) \cap Uids
                           ELSE IF lists'[k] = NoAcl THEN NoAcl ELSE Range(lists'[k]) \cap Uids
<1> DEFINE out == {u \in Threads : pc'[u] = "modput" /\ <<cid'[u], at'[u]>> = k}
<1>1. UsersAllowed'[k] = IF out # {} THEN Range(orig'[CHOOSE u \in out : TRUE]) \cap Uids
                        ELSE IF lists'[k] = NoAcl THEN NoAcl ELSE Range(lists'[k]) \cap Uids
  BY DEF UsersAllowed
<1>2. CASE pc'[t] = "modput" /\ <<cid'[t], at'[t]>> = k
  <2>1. t \in out
    BY <1>2
  <2>2. (CHOOSE u \in out : TRUE) \in out
    BY <2>1
  <2>3. (CHOOSE u \in out : TRUE) = t
    BY <2>2 DEF OneThread
  <2> QED BY <1>1, <1>2, <2>1, <2>3
<1>3. CASE ~(pc'[t] = "modput" /\ <<cid'[t], at'[t]>> = k)
  <2>1. out = {}
    BY <1>3 DEF OneThread
  <2> QED BY <1>1, <1>3, <2>1
<1> QED BY <1>2, <1>3

LEMMA UsersKeep ==
  ASSUME \A k \in Cids \X Ops : UsersAllowed'[k] = UsersAllowed[k]
  PROVE  UsersAllowed' = UsersAllowed
<1>1. UsersAllowed = [k \in Cids \X Ops |-> UsersAllowed[k]]
  BY DEF UsersAllowed
<1>2. UsersAllowed' = [k \in Cids \X Ops |-> UsersAllowed'[k]]
  BY DEF UsersAllowed
<1> QED BY <1>1, <1>2

LEMMA UsersChange ==
  ASSUME NEW j \in Cids \X Ops, NEW users,
         \A k \in Cids \X Ops : UsersAllowed'[k] = IF k = j THEN users ELSE UsersAllowed[k]
  PROVE  UsersAllowed' = [UsersAllowed EXCEPT ![j] = users]
<1>1. UsersAllowed = [k \in Cids \X Ops |-> UsersAllowed[k]]
  BY DEF UsersAllowed
<1>2. UsersAllowed' = [k \in Cids \X Ops |-> UsersAllowed'[k]]
  BY DEF UsersAllowed
<1> QED BY <1>1, <1>2

\* The sets stay while no list changes and mod_acl has none out.
LEMMA Quiet ==
  ASSUME OneThread, NEW t \in Threads, UNCHANGED lists, pc[t] # "modput", pc'[t] # "modput"
  PROVE  UsersAllowed' = UsersAllowed
<1> SUFFICES ASSUME NEW k \in Cids \X Ops PROVE UsersAllowed'[k] = UsersAllowed[k]
  BY UsersKeep
<1> QED BY UsersAre, UsersAreNext

LEMMA QuietSteps ==
  ASSUME OneThread, TypeInv, NEW t \in Threads,
         \/ GetCounter(t) \/ PutCounter(t) \/ CheckFresh(t) \/ CheckGiven(t) \/ PutExistence(t)
         \/ CheckExistence(t) \/ DelExistence(t) \/ CheckGone(t) \/ ModBegin(t)
         \/ GetAcl(t) \/ ReadAcl(t) \/ CheckCap(t) \/ CheckPerm(t)
         \/ RemoveBegin(t) \/ ModGet(t)
  PROVE  UNCHANGED <<UsersAllowed, named, req>>
<1>1. StateTyped
  BY DEF TypeInv
<1>2. CASE GetCounter(t)
  <2>1. UNCHANGED <<lists, named, req>> /\ pc[t] # "modput"
    BY <1>2 DEF GetCounter, db
  <2>2. pc'[t] # "modput"
    BY <1>1, <1>2 DEF GetCounter, Goto, Answer, StateTyped
  <2> QED BY <2>1, <2>2, Quiet
<1>3. CASE PutCounter(t)
  <2>1. UNCHANGED <<lists, named, req>> /\ pc[t] # "modput"
    BY <1>3 DEF PutCounter, db
  <2>2. pc'[t] # "modput"
    BY <1>1, <1>3 DEF PutCounter, Goto, Answer, StateTyped
  <2> QED BY <2>1, <2>2, Quiet
<1>4. CASE CheckFresh(t)
  <2>1. UNCHANGED <<lists, named, req>> /\ pc[t] # "modput"
    BY <1>4 DEF CheckFresh, db
  <2>2. pc'[t] # "modput"
    BY <1>1, <1>4 DEF CheckFresh, Goto, Answer, StateTyped
  <2> QED BY <2>1, <2>2, Quiet
<1>5. CASE CheckGiven(t)
  <2>1. UNCHANGED <<lists, named, req>> /\ pc[t] # "modput"
    BY <1>5 DEF CheckGiven, db
  <2>2. pc'[t] # "modput"
    BY <1>1, <1>5 DEF CheckGiven, Goto, Answer, StateTyped
  <2> QED BY <2>1, <2>2, Quiet
<1>6. CASE PutExistence(t)
  <2>1. UNCHANGED <<lists, named, req>> /\ pc[t] # "modput"
    BY <1>6 DEF PutExistence, db
  <2>2. pc'[t] # "modput"
    BY <1>1, <1>6 DEF PutExistence, Goto, Answer, StateTyped
  <2> QED BY <2>1, <2>2, Quiet
<1>7. CASE CheckExistence(t)
  <2>1. UNCHANGED <<lists, named, req>> /\ pc[t] # "modput"
    BY <1>7 DEF CheckExistence, db
  <2>2. pc'[t] # "modput"
    BY <1>1, <1>7 DEF CheckExistence, Goto, Answer, StateTyped
  <2> QED BY <2>1, <2>2, Quiet
<1>8. CASE DelExistence(t)
  <2>1. UNCHANGED <<lists, named, req>> /\ pc[t] # "modput"
    BY <1>8 DEF DelExistence, db
  <2>2. pc'[t] # "modput"
    BY <1>1, <1>8 DEF DelExistence, Goto, Answer, StateTyped
  <2> QED BY <2>1, <2>2, Quiet
<1>9. CASE CheckGone(t)
  <2>1. UNCHANGED <<lists, named, req>> /\ pc[t] # "modput"
    BY <1>9 DEF CheckGone, db
  <2>2. pc'[t] # "modput"
    BY <1>1, <1>9 DEF CheckGone, Goto, Answer, StateTyped
  <2> QED BY <2>1, <2>2, Quiet
<1>10. CASE ModBegin(t)
  <2>1. UNCHANGED <<lists, named, req>> /\ pc[t] # "modput"
    BY <1>10 DEF ModBegin, db
  <2>2. pc'[t] # "modput"
    BY <1>1, <1>10 DEF ModBegin, Goto, Answer, ContinueMod, StateTyped
  <2> QED BY <2>1, <2>2, Quiet
<1>11. CASE GetAcl(t)
  <2>1. UNCHANGED <<lists, named, req>> /\ pc[t] # "modput"
    BY <1>11 DEF GetAcl, db
  <2>2. pc'[t] # "modput"
    BY <1>1, <1>11 DEF GetAcl, Goto, Answer, StateTyped
  <2> QED BY <2>1, <2>2, Quiet
<1>12. CASE ReadAcl(t)
  <2>1. UNCHANGED <<lists, named, req>> /\ pc[t] # "modput"
    BY <1>12 DEF ReadAcl, db
  <2>2. pc'[t] # "modput"
    BY <1>1, <1>12 DEF ReadAcl, Goto, Answer, StateTyped
  <2> QED BY <2>1, <2>2, Quiet
<1>13. CASE CheckCap(t)
  <2>1. UNCHANGED <<lists, named, req>> /\ pc[t] # "modput"
    BY <1>13 DEF CheckCap, db
  <2>2. pc'[t] # "modput"
    BY <1>1, <1>13 DEF CheckCap, Goto, Answer, StateTyped
  <2> QED BY <2>1, <2>2, Quiet
<1>14. CASE CheckPerm(t)
  <2>1. UNCHANGED <<lists, named, req>> /\ pc[t] # "modput"
    BY <1>14 DEF CheckPerm, db
  <2>2. pc'[t] # "modput"
    BY <1>1, <1>14 DEF CheckPerm, Goto, Answer, StateTyped
  <2> QED BY <2>1, <2>2, Quiet
<1>15. CASE RemoveBegin(t)
  <2>1. UNCHANGED <<lists, named, req>> /\ pc[t] # "modput"
    BY <1>15 DEF RemoveBegin, db
  <2>2. pc'[t] # "modput"
    BY <1>1, <1>15 DEF RemoveBegin, Goto, Answer, StateTyped
  <2> QED BY <2>1, <2>2, Quiet
<1>16. CASE ModGet(t)
  <2>1. UNCHANGED <<lists, named, req>> /\ pc[t] # "modput"
    BY <1>16 DEF ModGet, db
  <2>2. pc'[t] # "modput"
    BY <1>1, <1>16 DEF ModGet, Goto, Answer, StateTyped
  <2> QED BY <2>1, <2>2, Quiet
<1> QED BY <1>2, <1>3, <1>4, <1>5, <1>6, <1>7, <1>8, <1>9, <1>10, <1>11, <1>12, <1>13, <1>14,
   <1>15, <1>16

LEMMA BeginServes ==
  ASSUME OneThread, TypeInv, NEW t \in Threads, NEW r \in Requests, Begin(t, r)
  PROVE  Service!Begin(t)
<1>1. StateTyped /\ OnPath(t) /\ pc[t] = "idle"
  BY DEF TypeInv, Begin
<1>2. r # NoRequest /\ r.op \in {"create", "remove", "modacl", "getacl", "getcap", "verify"}
  BY <1>1, RequestIs DEF Requests, StateTyped
<1>3. req' = [req EXCEPT ![t] = r] /\ UNCHANGED <<lists, named>> /\ pc'[t] = Entry[r.op]
  BY <1>1 DEF Begin, Goto, StateTyped, db
<1>4. pc'[t] # "modput"
  BY <1>2, <1>3, EntryIs
<1>5. UsersAllowed' = UsersAllowed
  BY <1>1, <1>3, <1>4, Quiet
<1>6. req[t] = NoRequest /\ req'[t] # NoRequest /\ \A u \in Threads \ {t} : req'[u] = req[u]
  BY <1>1, <1>2, <1>3 DEF OnPath, StateTyped
<1> QED BY <1>3, <1>5, <1>6 DEF Service!Begin, Service!Others

LEMMA ReplyServes ==
  ASSUME OneThread, TypeInv, NEW t \in Threads, Reply(t)
  PROVE  Service!Finish(t)
<1>1. StateTyped /\ OnPath(t) /\ pc[t] = "reply"
  BY DEF TypeInv, Reply
<1>2. req' = [req EXCEPT ![t] = NoRequest] /\ UNCHANGED <<lists, named>> /\ pc'[t] = "idle"
  BY <1>1 DEF Reply, Goto, StateTyped, db
<1>3. UsersAllowed' = UsersAllowed
  BY <1>1, <1>2, Quiet
<1>4. req[t] # NoRequest /\ req'[t] = NoRequest /\ \A u \in Threads \ {t} : req'[u] = req[u]
  BY <1>1, <1>2 DEF OnPath, StateTyped
<1> QED BY <1>2, <1>3, <1>4 DEF Service!Finish, Service!Others

\* A list that is put or deleted changes its own set.
LEMMA OneSetChanges ==
  ASSUME OneThread, StateTyped, NEW t \in Threads, cid[t] \in Cids, at[t] \in Ops,
         \E list : lists' = [lists EXCEPT ![<<cid[t], at[t]>>] = list],
         pc'[t] # "modput"
  PROVE  LET k == <<cid[t], at[t]>>
         IN  UsersAllowed' = [UsersAllowed EXCEPT
                                 ![k] = IF lists'[k] = NoAcl THEN NoAcl ELSE Range(lists'[k]) \cap Uids]
<1>1. PICK j \in Cids \X Ops : j = <<cid[t], at[t]>>
  OBVIOUS
<1>2. PICK list : lists' = [lists EXCEPT ![j] = list]
  BY <1>1
<1>3. PICK users : users = IF lists'[j] = NoAcl THEN NoAcl ELSE Range(lists'[j]) \cap Uids
  OBVIOUS
<1>4. ASSUME NEW k \in Cids \X Ops
      PROVE  UsersAllowed'[k] = IF k = j THEN users ELSE UsersAllowed[k]
  <2>1. k # j => lists'[k] = lists[k]
    BY <1>2 DEF StateTyped
  <2>2. UsersAllowed'[k] = IF lists'[k] = NoAcl THEN NoAcl ELSE Range(lists'[k]) \cap Uids
    BY UsersAreNext
  <2>3. CASE k = j
    BY <1>3, <2>2, <2>3
  <2>4. CASE k # j
    <3>1. UsersAllowed[k] = IF lists[k] = NoAcl THEN NoAcl ELSE Range(lists[k]) \cap Uids
      BY <1>1, <2>4, UsersAre
    <3> QED BY <2>1, <2>2, <2>4, <3>1
  <2> QED BY <2>3, <2>4
<1>5. UsersAllowed' = [UsersAllowed EXCEPT ![j] = users]
  BY <1>4, UsersChange
<1> QED BY <1>1, <1>3, <1>5

LEMMA PutNewAclServes ==
  ASSUME OneThread, TypeInv, SoleInv, NEW t \in Threads, PutNewAcl(t)
  PROVE  \/ UNCHANGED <<UsersAllowed, named, req>>
         \/ \E c \in Cids, o \in Ops : Service!Create(t, c, o)
<1>1. StateTyped /\ OnPath(t) /\ AtPlace(t) /\ pc[t] = "putacl" /\ UNCHANGED req
  BY DEF TypeInv, PutNewAcl
<1>2. /\ cid[t] \in Cids /\ at[t] \in Ops /\ req[t] # NoRequest /\ req[t].op = "create"
      /\ req[t].cid \in {cid[t], AnyCid}
  BY <1>1 DEF AtPlace, OnPath, CreatePath
<1>3. pc'[t] # "modput"
  BY <1>1 DEF PutNewAcl, Answer, Goto, StateTyped
<1>4. CASE lists[<<cid[t], at[t]>>] # NoAcl
  <2>1. UNCHANGED <<lists, named>>
    BY <1>4 DEF PutNewAcl
  <2> QED BY <1>1, <1>3, <2>1, Quiet
<1>5. CASE lists[<<cid[t], at[t]>>] = NoAcl
  <2>1. req[t].uid \in Uids
    BY <1>1, <1>2, ServedIs, RequestIs
  <2>2. PICK list : list = FirstUsers(req[t].uid, at[t])
    OBVIOUS
  <2>3. list # NoAcl /\ Range(list) \in {{}, {req[t].uid}} /\ Range(list) \cap Uids = Range(list)
    <3>1. list \in Seq(AllWords) /\ Range(list) \in {{}, {req[t].uid}} /\ Range(list) \in SUBSET Uids
      BY <2>1, <2>2, NewLists
    <3> QED BY <3>1, StoredNotNone
  <2>4. /\ lists' = [lists EXCEPT ![<<cid[t], at[t]>>] = list]
        /\ named' = [named EXCEPT ![<<cid[t], at[t]>>] = @ \cup Range(list)]
    BY <1>5, <2>2 DEF PutNewAcl, PutAcl
  <2>5. UsersAllowed' = [UsersAllowed EXCEPT ![<<cid[t], at[t]>>] = Range(list)]
    <3>1. lists'[<<cid[t], at[t]>>] = list
      BY <1>1, <1>2, <2>4 DEF StateTyped
    <3> QED BY <1>1, <1>2, <1>3, <2>3, <2>4, <3>1, OneSetChanges
  <2>6. UsersAllowed[<<cid[t], at[t]>>] = NoAcl
    BY <1>1, <1>2, <1>5, UsersAre
  <2>7. Service!Create(t, cid[t], at[t])
    BY <1>1, <1>2, <2>3, <2>4, <2>5, <2>6 DEF Service!Create, Service!Asks, Service!Named
  <2> QED BY <1>2, <2>7
<1> QED BY <1>4, <1>5

LEMMA DelEachAclServes ==
  ASSUME OneThread, TypeInv, SoleInv, NEW t \in Threads, DelEachAcl(t)
  PROVE  \/ UNCHANGED <<UsersAllowed, named, req>>
         \/ \E c \in Cids, o \in Ops : Service!Remove(t, c, o)
<1>1. /\ StateTyped /\ OnPath(t) /\ AtPlace(t) /\ pc[t] = "delacl" /\ UNCHANGED <<named, req>>
      /\ lists' = [lists EXCEPT ![<<cid[t], at[t]>>] = NoAcl]
  BY DEF TypeInv, DelEachAcl
<1>2. /\ cid[t] \in Cids /\ at[t] \in Ops /\ req[t] # NoRequest /\ req[t].op = "remove"
      /\ req[t].cid = cid[t]
  BY <1>1 DEF AtPlace, OnPath, RemovePath
<1>3. pc'[t] # "modput"
  BY <1>1 DEF DelEachAcl, Goto, StateTyped
<1>4. UsersAllowed' = [UsersAllowed EXCEPT ![<<cid[t], at[t]>>] = NoAcl]
  <2>1. lists'[<<cid[t], at[t]>>] = NoAcl
    BY <1>1, <1>2 DEF StateTyped
  <2> QED BY <1>1, <1>2, <1>3, <2>1, OneSetChanges
<1>5. CASE UsersAllowed[<<cid[t], at[t]>>] = NoAcl
  <2>1. UsersAllowed = [k \in Cids \X Ops |-> UsersAllowed[k]]
    BY DEF UsersAllowed
  <2>2. UsersAllowed' = UsersAllowed
    BY <1>2, <1>4, <1>5, <2>1
  <2> QED BY <1>1, <2>2
<1>6. CASE UsersAllowed[<<cid[t], at[t]>>] # NoAcl
  <2>1. Service!Remove(t, cid[t], at[t])
    BY <1>1, <1>2, <1>4, <1>6 DEF Service!Remove, Service!Asks
  <2> QED BY <1>2, <2>1
<1> QED BY <1>5, <1>6

\* The delete of mod_acl does not show: the list that it read counts on.
LEMMA ModDelServes ==
  ASSUME OneThread, TypeInv, SoleInv, NEW t \in Threads, ModDel(t)
  PROVE  UNCHANGED <<UsersAllowed, named, req>>
<1>1. /\ StateTyped /\ AtPlace(t) /\ pc[t] = "moddel" /\ UNCHANGED <<named, req, cid, at, orig>>
  BY DEF TypeInv, ModDel
<1>2. cid[t] \in Cids /\ at[t] \in Ops /\ orig[t] = lists[<<cid[t], at[t]>>]
  BY <1>1, SoleIs DEF AtPlace, ModPath, Halfway
<1>3. CASE lists[<<cid[t], at[t]>>] = NoAcl
  <2>1. pc'[t] = "reply" /\ UNCHANGED lists
    BY <1>1, <1>3 DEF ModDel, Answer, Goto, StateTyped
  <2> QED BY <1>1, <2>1, Quiet
<1>4. CASE lists[<<cid[t], at[t]>>] # NoAcl
  <2>1. pc'[t] = "modput" /\ lists' = [lists EXCEPT ![<<cid[t], at[t]>>] = NoAcl]
    BY <1>1, <1>4 DEF ModDel, Goto, StateTyped
  <2>2. ASSUME NEW k \in Cids \X Ops PROVE UsersAllowed'[k] = UsersAllowed[k]
    <3>1. UsersAllowed[k] = IF lists[k] = NoAcl THEN NoAcl ELSE Range(lists[k]) \cap Uids
      BY <1>1, UsersAre
    <3>2. CASE k = <<cid[t], at[t]>>
      <4>1. UsersAllowed'[k] = Range(orig[t]) \cap Uids
        BY <1>1, <2>1, <3>2, UsersAreNext
      <4> QED BY <1>2, <1>4, <3>1, <3>2, <4>1
    <3>3. CASE k # <<cid[t], at[t]>>
      <4>1. lists'[k] = lists[k]
        BY <1>1, <2>1, <3>3 DEF StateTyped
      <4>2. UsersAllowed'[k] = IF lists'[k] = NoAcl THEN NoAcl ELSE Range(lists'[k]) \cap Uids
        BY <1>1, <3>3, UsersAreNext
      <4> QED BY <3>1, <4>1, <4>2
    <3> QED BY <3>2, <3>3
  <2> QED BY <1>1, <2>2, UsersKeep
<1> QED BY <1>3, <1>4

\* The put of mod_acl is the change: the grants join the set and the revocations leave it.
LEMMA ModPutServes ==
  ASSUME OneThread, TypeInv, SoleInv, KeptInv, NEW t \in Threads, ModPut(t)
  PROVE  \E c \in Cids, o \in Ops : Service!Modify(t, c, o)
<1>1. /\ StateTyped /\ OnPath(t) /\ AtPlace(t) /\ pc[t] = "modput" /\ UNCHANGED req
      /\ lists[<<cid[t], at[t]>>] = NoAcl
  BY ModPutSole DEF TypeInv, ModPut
<1>2. /\ cid[t] \in Cids /\ at[t] \in Ops /\ at[t] \in req[t].ops
      /\ req[t] # NoRequest /\ req[t].op = "modacl" /\ req[t].cid = cid[t]
  BY <1>1 DEF AtPlace, ModPath, OnPath
<1>3. PICK set, unset : set = Range(req[t].set) /\ unset = Range(req[t].unset)
  OBVIOUS
<1>4. PICK k \in Cids \X Ops : k = <<cid[t], at[t]>>
  BY <1>2
<1>5. PICK list \in Seq(AllWords) :
         /\ lists' = [lists EXCEPT ![k] = list]
         /\ named' = [named EXCEPT ![k] = named[k] \cup (set \cup unset)]
         /\ Range(list) \subseteq Range(orig[t]) \cup set \cup {Inf}
         /\ named[k] \cup (set \cup unset) \subseteq InOrder =>
               Range(list) = (Range(orig[t]) \cup set) \ unset
  BY <1>1, <1>3, <1>4, PutIs
<1>6. set \in SUBSET Uids /\ Inf \notin Uids
  <2>1. req[t].set \in Seq(Uids)
    BY <1>1, <1>2, ServedIs, RequestIs
  <2>2. HalfWord \in Nat /\ HalfWord > 0 /\ Inf \in Nat
    BY WordAssumption DEF Inf
  <2> QED BY <1>3, <2>1, <2>2, Users, AuthrAssumption
<1>7. PICK before, after : before = Range(orig[t]) \cap Uids /\ after = Range(list) \cap Uids
  OBVIOUS
<1>8. /\ after \in SUBSET (before \cup set)
      /\ named[k] \cup (set \cup unset) \subseteq InOrder => after = (before \cup set) \ unset
  BY <1>5, <1>6, <1>7
<1>9. pc'[t] # "modput"
  BY <1>1 DEF ModPut, ContinueMod, Answer, Goto, StateTyped
<1>10. lists'[k] = list /\ list # NoAcl /\ named'[k] = named[k] \cup (set \cup unset)
  BY <1>1, <1>5, StoredNotNone DEF StateTyped
<1>11. UsersAllowed' = [UsersAllowed EXCEPT ![k] = after]
  <2>1. \E l : lists' = [lists EXCEPT ![<<cid[t], at[t]>>] = l]
    BY <1>4, <1>5
  <2> QED BY <1>1, <1>2, <1>4, <1>7, <1>9, <1>10, <2>1, OneSetChanges
<1>12. UsersAllowed[k] = before
  BY <1>1, <1>4, <1>7, UsersAre
<1>13. before # NoAcl
  <2>1. before \in SUBSET Uids
    BY <1>7
  <2> QED BY <2>1, NoAclAssumption
<1>14. Service!Modify(t, cid[t], at[t])
  <2>1. /\ set = Service!Range(req[t].set) /\ unset = Service!Range(req[t].unset)
    BY <1>3 DEF Service!Range, Range
  <2>2. Service!Named(cid[t], at[t], set \cup unset)
    BY <1>4, <1>5 DEF Service!Named
  <2> QED BY <1>1, <1>2, <1>4, <1>8, <1>10, <1>11, <1>12, <1>13, <2>1, <2>2
          DEF Service!Modify, Service!Asks
<1> QED BY <1>2, <1>14

LEMMA StepServes ==
  ASSUME OneThread, TypeInv, SoleInv, KeptInv, [Next]_vars
  PROVE  [Service!Next]_(Service!vars)
<1>1. CASE UNCHANGED <<lists, named, pc, at, cid, orig, req>>
  <2>1. UsersAllowed' = UsersAllowed
    BY <1>1 DEF UsersAllowed
  <2> QED BY <1>1, <2>1 DEF Service!vars
<1>2. CASE \E t \in Threads : \E r \in Requests : Begin(t, r)
  BY <1>2, BeginServes DEF Service!Next
<1>3. CASE \E t \in Threads : Serve(t)
  <2>1. PICK t \in Threads : Serve(t)
    BY <1>3
  <2>2. \/ UNCHANGED <<UsersAllowed, named, req>> \/ Service!Finish(t)
        \/ \E c \in Cids, o \in Ops :
              Service!Create(t, c, o) \/ Service!Modify(t, c, o) \/ Service!Remove(t, c, o)
    BY <2>1, QuietSteps, ReplyServes, PutNewAclServes, DelEachAclServes, ModDelServes,
       ModPutServes DEF Serve
  <2> QED BY <2>2 DEF Service!Next, Service!vars
<1>4. Restart \/ UNCHANGED vars => UNCHANGED <<lists, named, pc, at, cid, orig, req>>
  BY DEF Restart, vars, db
<1> QED BY <1>1, <1>2, <1>3, <1>4 DEF Next

(* ImplementsAclService: with one thread, the sorted arrays, the merges, the separate       *)
(* delete and put of mod_acl and the lists that go and come one by one change who may do    *)
(* what only as the abstract sets of users do, each time as a request in service asks: on  *)
(* any build nobody gets in who was not let in, and with uids in order nobody is lost.     *)
THEOREM AuthrRefines ==
  ASSUME OneThread
  PROVE  Spec => ImplementsAclService
<1>1. Init => Service!Init
  BY DEF Init, Service!Init, UsersAllowed
<1>2. TypeInv /\ SoleInv /\ KeptInv /\ [Next]_vars => [Service!Next]_(Service!vars)
  BY StepServes
<1> QED BY <1>1, <1>2, SoleInvariant, KeptInvariant, PTL DEF Spec, ImplementsAclService, Service!Spec
=============================================================================
