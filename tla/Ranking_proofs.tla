----------------------------- MODULE Ranking_proofs -----------------------------
(***************************************************************************)
(* What an order does to a finite set: the places of its members are the   *)
(* numbers below its size, a list has each of them once, a limit that      *)
(* leaves somebody out is reached.  Induction for a set of numbers, and    *)
(* what lists put end to end are.                                          *)
(***************************************************************************)
EXTENDS Ranking, Sequences, SequencesExt, FiniteSetTheorems, SequenceTheorems,
        WellFoundedInduction, TLAPS

LEMMA LeastNatural ==
  ASSUME NEW S \in SUBSET Nat, S # {}
  PROVE  \E d \in S : \A e \in S : d <= e
<1> DEFINE R == {ss \in Nat \X Nat : ss[1] < ss[2]}
<1>1. IsWellFoundedOn(R, Nat)
  BY NatLessThanWellFounded DEF OpToRel
<1>2. \A x, y \in Nat : <<y, x>> \in R <=> y < x
  OBVIOUS
<1> HIDE DEF R
<1>3. PICK d \in S : \A e \in S : ~(<<e, d>> \in R)
  BY <1>1, WFMin
<1>4. ASSUME NEW e \in S PROVE d <= e
  <2>1. d \in Nat /\ e \in Nat
    OBVIOUS
  <2>2. ~(e < d)
    BY <1>2, <1>3, <2>1
  <2> QED
    BY <2>1, <2>2
<1> QED
  BY <1>4

(* Induction over the naturals, for a set of them. *)
LEMMA SetInduction ==
  ASSUME NEW S, 0 \in S, \A n \in Nat : n \in S => n + 1 \in S
  PROVE  \A n \in Nat : n \in S
<1> SUFFICES ASSUME Nat \ S # {} PROVE FALSE
  OBVIOUS
<1>1. PICK d \in Nat \ S : \A e \in Nat \ S : d <= e
  BY LeastNatural
<1>2. d - 1 \in Nat /\ (d - 1) + 1 = d
  BY <1>1
<1>3. d - 1 \in S
  BY <1>1, <1>2
<1> QED
  BY <1>1, <1>2, <1>3

(* A strict total order of S. *)
IsOrder(order, S) ==
  /\ \A x \in S : <<x, x>> \notin order
  /\ \A x, y, z \in S : <<x, y>> \in order /\ <<y, z>> \in order => <<x, z>> \in order
  /\ \A x, y \in S : x = y \/ <<x, y>> \in order \/ <<y, x>> \in order

LEMMA RankMonotone ==
  ASSUME NEW T, IsFiniteSet(T), NEW S \in SUBSET T, NEW c, NEW order
  PROVE  Rank(c, S, order) \in Nat /\ Rank(c, S, order) <= Rank(c, T, order)
<1> DEFINE A == {d \in S : <<d, c>> \in order}
           B == {d \in T : <<d, c>> \in order}
<1>1. A \subseteq B /\ B \subseteq T
  OBVIOUS
<1> HIDE DEF A, B
<1>2. IsFiniteSet(B)
  BY <1>1, FS_Subset
<1>3. Cardinality(A) \in Nat /\ Cardinality(A) <= Cardinality(B)
  BY <1>1, <1>2, FS_Subset, FS_CardinalityType
<1> QED
  BY <1>3 DEF Rank, A, B

LEMMA RankGrows ==
  ASSUME NEW S, IsFiniteSet(S), NEW order, IsOrder(order, S), NEW c \in S, NEW d \in S,
         <<c, d>> \in order
  PROVE  Rank(c, S, order) + 1 <= Rank(d, S, order)
<1> DEFINE A == {e \in S : <<e, c>> \in order}
           B == {e \in S : <<e, d>> \in order}
<1>1. c \notin A /\ c \in B /\ A \subseteq B /\ A \subseteq S /\ B \subseteq S
  BY DEF IsOrder
<1> HIDE DEF A, B
<1>2. Cardinality(A \union {c}) = Cardinality(A) + 1
  BY <1>1, FS_Subset, FS_CardinalityType, FS_AddElement
<1>3. Cardinality(A \union {c}) <= Cardinality(B)
  BY <1>1, FS_Subset, FS_CardinalityType
<1> QED
  BY <1>2, <1>3 DEF Rank, A, B

LEMMA RankBounded ==
  ASSUME NEW S, IsFiniteSet(S), NEW order, IsOrder(order, S), NEW c \in S
  PROVE  Rank(c, S, order) \in 0..Cardinality(S) - 1
<1> DEFINE A == {e \in S : <<e, c>> \in order}
<1>1. A \in SUBSET (S \ {c}) /\ A \subseteq S
  BY DEF IsOrder
<1> HIDE DEF A
<1>2. IsFiniteSet(S \ {c}) /\ Cardinality(S \ {c}) = Cardinality(S) - 1 /\ Cardinality(S) \in Nat
  BY FS_Subset, FS_CardinalityType, FS_RemoveElement
<1>3. Cardinality(A) <= Cardinality(S \ {c}) /\ Cardinality(A) \in Nat
  BY <1>1, <1>2, FS_Subset, FS_CardinalityType
<1> QED
  BY <1>2, <1>3 DEF Rank, A

LEMMA RankUnique ==
  ASSUME NEW S, IsFiniteSet(S), NEW order, IsOrder(order, S), NEW c \in S, NEW d \in S,
         Rank(c, S, order) = Rank(d, S, order)
  PROVE  c = d
<1>1. Rank(c, S, order) \in Nat /\ Rank(d, S, order) \in Nat
  BY RankMonotone
<1>2. ~(<<c, d>> \in order)
  BY <1>1, RankGrows
<1>3. ~(<<d, c>> \in order)
  BY <1>1, RankGrows
<1> QED
  BY <1>2, <1>3 DEF IsOrder

(* The ranks of S are the numbers below its size. *)
LEMMA RankTaken ==
  ASSUME NEW S, IsFiniteSet(S), NEW order, IsOrder(order, S), NEW n \in 1..Cardinality(S)
  PROVE  \E c \in S : Rank(c, S, order) = n - 1
<1> DEFINE places == 1..Cardinality(S)
           place == [c \in S |-> Rank(c, S, order) + 1]
<1>1. Cardinality(S) \in Nat /\ IsFiniteSet(places) /\ Cardinality(places) = Cardinality(S)
  BY FS_Subset, FS_CardinalityType, FS_Interval
<1>2. place \in [S -> places]
  BY <1>1, RankBounded
<1>3. \A c, d \in S : place[c] = place[d] => c = d
  <2> SUFFICES ASSUME NEW c \in S, NEW d \in S, place[c] = place[d] PROVE c = d
    OBVIOUS
  <2>1. Rank(c, S, order) \in Nat /\ Rank(d, S, order) \in Nat
    BY RankMonotone
  <2>2. Rank(c, S, order) = Rank(d, S, order)
    BY <2>1
  <2> QED
    BY <2>2, RankUnique
<1> HIDE DEF places, place
<1>4. place \in Injection(S, places)
  BY <1>2, <1>3 DEF Injection, IsInjective
<1>5. place \in Surjection(S, places)
  BY <1>1, <1>4, FS_Injection
<1>6. n \in places
  BY DEF places
<1>7. PICK c \in S : place[c] = n
  BY <1>5, <1>6 DEF Surjection
<1>8. Rank(c, S, order) \in Nat
  BY RankMonotone
<1>9. Rank(c, S, order) + 1 = n
  BY <1>7 DEF place
<1>10. Rank(c, S, order) = n - 1
  BY <1>8, <1>9
<1> QED
  BY <1>10

(* Each member once, in its place. *)
IsListing(s, S, order) ==
  /\ s \in Seq(S) /\ Len(s) = Cardinality(S) /\ ToSet(s) = S
  /\ \A m, n \in 1..Len(s) : s[m] = s[n] => m = n

LEMMA ListedIs ==
  ASSUME NEW S, IsFiniteSet(S), NEW order, IsOrder(order, S)
  PROVE  IsListing(Listed(S, order), S, order)
<1> DEFINE at(n) == CHOOSE c \in S : Rank(c, S, order) = n - 1
<1>1. PICK k \in Nat : k = Cardinality(S)
  BY FS_Subset, FS_CardinalityType
<1>2. ASSUME NEW n \in 1..k PROVE at(n) \in S /\ Rank(at(n), S, order) = n - 1
  <2>1. \E c \in S : Rank(c, S, order) = n - 1
    BY <1>1, RankTaken
  <2> QED
    BY <2>1
<1>3. PICK s : s = Listed(S, order)
  OBVIOUS
<1>4. s = [n \in 1..k |-> at(n)]
  BY <1>1, <1>3 DEF Listed
<1> HIDE DEF at
<1>5. s \in Seq(S) /\ Len(s) = k /\ DOMAIN s = 1..k /\ \A n \in 1..k : s[n] = at(n)
  BY <1>2, <1>4
<1>6. ASSUME NEW c \in S PROVE \E n \in 1..k : s[n] = c
  <2>1. PICK n \in 1..k : n = Rank(c, S, order) + 1
    BY <1>1, RankBounded
  <2>2. Rank(at(n), S, order) = Rank(c, S, order) /\ at(n) \in S
    <3>1. Rank(c, S, order) \in Nat
      BY RankMonotone
    <3> QED
      BY <1>2, <2>1, <3>1
  <2>3. at(n) = c
    BY <2>2, RankUnique
  <2> QED
    BY <1>5, <2>3
<1>7. ToSet(s) = S
  <2>1. \A n \in 1..k : s[n] \in S
    BY <1>2, <1>5
  <2>2. ToSet(s) = {s[n] : n \in 1..k}
    BY <1>5 DEF ToSet
  <2> QED
    BY <1>6, <2>1, <2>2
<1>8. ASSUME NEW m \in 1..k, NEW n \in 1..k, s[m] = s[n] PROVE m = n
  <2>1. m - 1 = n - 1
    BY <1>2, <1>5, <1>8
  <2> QED
    BY <2>1
<1>9. IsListing(s, S, order)
  BY <1>1, <1>5, <1>7, <1>8 DEF IsListing
<1> QED
  BY <1>3, <1>9

(* A listing has its members in their places. *)
LEMMA ListedAt ==
  ASSUME NEW S, IsFiniteSet(S), NEW order, IsOrder(order, S)
  PROVE  /\ DOMAIN Listed(S, order) = 1..Cardinality(S)
         /\ \A n \in 1..Cardinality(S) :
              Listed(S, order)[n] \in S /\ Rank(Listed(S, order)[n], S, order) = n - 1
<1>1. DOMAIN Listed(S, order) = 1..Cardinality(S)
  BY DEF Listed
<1>2. ASSUME NEW n \in 1..Cardinality(S)
      PROVE  Listed(S, order)[n] \in S /\ Rank(Listed(S, order)[n], S, order) = n - 1
  <2>1. \E c \in S : Rank(c, S, order) = n - 1
    BY RankTaken
  <2>2. PICK x : x = CHOOSE c \in S : Rank(c, S, order) = n - 1
    OBVIOUS
  <2>3. x \in S /\ Rank(x, S, order) = n - 1
    BY <2>1, <2>2
  <2>4. Listed(S, order)[n] = x
    BY <2>2 DEF Listed
  <2> QED
    BY <2>3, <2>4
<1> QED
  BY <1>1, <1>2

(* A limit that leaves somebody out is reached, by those that come first. *)
LEMMA LimitReached ==
  ASSUME NEW S, IsFiniteSet(S), NEW order, IsOrder(order, S), NEW k \in Nat,
         NEW c \in S, c \notin Limited(S, order, k)
  PROVE  /\ Cardinality(Limited(S, order, k)) = k
         /\ \A d \in Limited(S, order, k) : <<d, c>> \in order
<1> DEFINE L == Limited(S, order, k)
           place == [d \in L |-> Rank(d, S, order) + 1]
<1>1. Rank(c, S, order) \in Nat /\ Rank(c, S, order) <= Cardinality(S) - 1 /\ k <= Rank(c, S, order)
      /\ Cardinality(S) \in Nat
  BY RankBounded, RankMonotone, FS_Subset, FS_CardinalityType DEF Limited
<1>2. L \in SUBSET S /\ \A d \in L : Rank(d, S, order) \in Nat /\ Rank(d, S, order) < k
  BY RankMonotone DEF Limited
<1>3. \A d \in S : Rank(d, S, order) < k => d \in L
  BY DEF Limited
<1> HIDE DEF L
<1>4. place \in [L -> 1..k]
  BY <1>2
<1>5. \A d, e \in L : place[d] = place[e] => d = e
  <2> SUFFICES ASSUME NEW d \in L, NEW e \in L, place[d] = place[e] PROVE d = e
    OBVIOUS
  <2>1. Rank(d, S, order) = Rank(e, S, order)
    BY <1>2
  <2> QED
    BY <1>2, <2>1, RankUnique
<1>6. \A n \in 1..k : \E d \in L : place[d] = n
  <2> SUFFICES ASSUME NEW n \in 1..k PROVE \E d \in L : place[d] = n
    OBVIOUS
  <2>1. n \in 1..Cardinality(S)
    BY <1>1
  <2>2. PICK d \in S : Rank(d, S, order) = n - 1
    BY <2>1, RankTaken
  <2>3. d \in L
    BY <1>3, <2>2
  <2> QED
    BY <2>2, <2>3
<1> HIDE DEF place
<1>7. place \in Bijection(L, 1..k)
  BY <1>4, <1>5, <1>6 DEF Bijection, Injection, Surjection, IsInjective
<1>8. IsFiniteSet(L) /\ IsFiniteSet(1..k) /\ Cardinality(1..k) = k
  <2>1. IsFiniteSet(L)
    BY <1>2, FS_Subset
  <2> QED
    BY <2>1, FS_Interval
<1>9. Cardinality(L) = k
  BY <1>7, <1>8, FS_Bijection DEF ExistsBijection
<1>10. ASSUME NEW d \in L PROVE <<d, c>> \in order
  <2>1. d # c /\ d \in S
    BY <1>1, <1>2
  <2>2. ~(<<c, d>> \in order)
    <3>1. <<c, d>> \in order => Rank(c, S, order) + 1 <= Rank(d, S, order)
      BY <2>1, RankGrows
    <3> QED
      BY <1>1, <1>2, <3>1
  <2> QED
    BY <2>1, <2>2 DEF IsOrder
<1> QED
  BY <1>9, <1>10 DEF L

----------------------------------------------------------------------------
(* Lists, and lists put end to end. *)

(* FlattenSeq's recursive function, up to k. *)
Flattened(f, ss, k) == f = [i \in 1..k |-> IF i = 1 THEN ss[i] ELSE f[i - 1] \o ss[i]]

LEMMA FlattenedExists ==
  ASSUME NEW ss
  PROVE  \A k \in Nat : \E f : Flattened(f, ss, k)
<1> DEFINE S == {k \in Nat : \E f : Flattened(f, ss, k)}
<1>1. 0 \in S
  <2>1. Flattened([i \in 1..0 |-> 0], ss, 0)
    BY DEF Flattened
  <2> QED
    BY <2>1
<1>2. ASSUME NEW k \in Nat, NEW f, Flattened(f, ss, k)
      PROVE  \E g : Flattened(g, ss, k + 1)
  <2> DEFINE g == [i \in 1..k + 1 |->
                     IF i <= k THEN f[i] ELSE IF i = 1 THEN ss[i] ELSE f[k] \o ss[i]]
  <2>1. ASSUME NEW i \in 1..k + 1
        PROVE  g[i] = IF i = 1 THEN ss[i] ELSE g[i - 1] \o ss[i]
    <3>1. CASE i <= k
      <4>1. i \in 1..k /\ (i # 1 => i - 1 \in 1..k)
        BY <3>1
      <4>2. f[i] = IF i = 1 THEN ss[i] ELSE f[i - 1] \o ss[i]
        BY <1>2, <4>1 DEF Flattened
      <4> QED
        BY <3>1, <4>1, <4>2
    <3>2. CASE i = k + 1
      BY <3>2
    <3> QED
      BY <3>1, <3>2
  <2>2. g = [i \in 1..k + 1 |-> g[i]]
    OBVIOUS
  <2> HIDE DEF g
  <2>3. g = [i \in 1..k + 1 |-> IF i = 1 THEN ss[i] ELSE g[i - 1] \o ss[i]]
    BY <2>1, <2>2
  <2> QED
    BY <2>3 DEF Flattened
<1>3. \A n \in Nat : n \in S => n + 1 \in S
  BY <1>2
<1> HIDE DEF S
<1>4. \A n \in Nat : n \in S
  BY <1>1, <1>3, SetInduction
<1> QED
  BY <1>4 DEF S

LEMMA FlattenedStep ==
  ASSUME NEW f, NEW ss, NEW k \in Nat, Flattened(f, ss, k), NEW n \in Nat, n + 1 \in 1..k
  PROVE  f[n + 1] = IF n = 0 THEN ss[n + 1] ELSE f[n] \o ss[n + 1]
<1>1. PICK i \in 1..k : i = n + 1 /\ i - 1 = n /\ (i = 1 <=> n = 0)
  OBVIOUS
<1>2. f[i] = IF i = 1 THEN ss[i] ELSE f[i - 1] \o ss[i]
  BY DEF Flattened
<1> QED
  BY <1>1, <1>2

LEMMA FlattenIs ==
  ASSUME NEW ss, Len(ss) \in Nat, Len(ss) # 0
  PROVE  \E f : Flattened(f, ss, Len(ss)) /\ FlattenSeq(ss) = f[Len(ss)]
<1> DEFINE F == CHOOSE f : Flattened(f, ss, Len(ss))
<1>1. Flattened(F, ss, Len(ss))
  BY FlattenedExists
<1>2. FlattenSeq(ss) = F[Len(ss)]
  BY DEF FlattenSeq, Flattened
<1> QED
  BY <1>1, <1>2

LEMMA FlattenedAre ==
  ASSUME NEW V, NEW ss \in Seq(Seq(V)), NEW k \in 0..Len(ss), NEW f, Flattened(f, ss, k)
  PROVE  \A i \in 1..k : f[i] \in Seq(V)
<1> DEFINE S == {n \in Nat : n \in 1..k => f[n] \in Seq(V)}
<1>1. 0 \in S
  OBVIOUS
<1>2. ASSUME NEW n \in Nat, n \in S PROVE n + 1 \in S
  <2> SUFFICES ASSUME n + 1 \in 1..k PROVE f[n + 1] \in Seq(V)
    OBVIOUS
  <2>1. f[n + 1] = IF n = 0 THEN ss[n + 1] ELSE f[n] \o ss[n + 1]
    <3>1. k \in Nat /\ n + 1 \in 1..k
      OBVIOUS
    <3> QED
      BY <3>1, FlattenedStep
  <2>2. ss[n + 1] \in Seq(V)
    BY ElementOfSeq
  <2>3. n # 0 => f[n] \in Seq(V)
    BY <1>2
  <2>4. n # 0 => f[n] \o ss[n + 1] \in Seq(V)
    BY <2>2, <2>3, ConcatProperties
  <2> QED
    BY <2>1, <2>2, <2>4
<1> HIDE DEF S
<1>3. \A n \in Nat : n \in S
  BY <1>1, <1>2, SetInduction
<1> QED
  BY <1>3 DEF S

LEMMA FlattenedAgree ==
  ASSUME NEW ss, NEW tt, NEW k \in Nat, NEW m \in Nat, NEW f, NEW g,
         Flattened(f, ss, k), Flattened(g, tt, m), k <= m
  PROVE  (\A i \in 1..k : ss[i] = tt[i]) => (\A i \in 1..k : f[i] = g[i])
<1> SUFFICES ASSUME \A i \in 1..k : ss[i] = tt[i] PROVE \A i \in 1..k : f[i] = g[i]
  OBVIOUS
<1> DEFINE S == {n \in Nat : n \in 1..k => f[n] = g[n]}
<1>1. 0 \in S
  OBVIOUS
<1>2. ASSUME NEW n \in Nat, n \in S PROVE n + 1 \in S
  <2> SUFFICES ASSUME n + 1 \in 1..k PROVE f[n + 1] = g[n + 1]
    OBVIOUS
  <2>0. n + 1 \in 1..m
    OBVIOUS
  <2>1. f[n + 1] = IF n = 0 THEN ss[n + 1] ELSE f[n] \o ss[n + 1]
    BY FlattenedStep
  <2>2. g[n + 1] = IF n = 0 THEN tt[n + 1] ELSE g[n] \o tt[n + 1]
    BY <2>0, FlattenedStep
  <2>3. ss[n + 1] = tt[n + 1] /\ (n # 0 => f[n] = g[n])
    BY <1>2
  <2> QED
    BY <2>1, <2>2, <2>3
<1> HIDE DEF S
<1>3. \A n \in Nat : n \in S
  BY <1>1, <1>2, SetInduction
<1> QED
  BY <1>3 DEF S

FlattensTo(ss, tt, k, m) ==
  FlattenSeq(tt) = IF k = 0 THEN tt[m] ELSE FlattenSeq(ss) \o tt[m]

LEMMA FlattenStep ==
  ASSUME NEW ss, NEW tt, NEW k \in Nat, NEW m \in Nat,
         m = k + 1, Len(ss) = k, Len(tt) = m, \A i \in 1..k : ss[i] = tt[i]
  PROVE  FlattensTo(ss, tt, k, m)
<1>1. m # 0 /\ k <= m
  OBVIOUS
<1>2. PICK g : Flattened(g, tt, m) /\ FlattenSeq(tt) = g[m]
  BY <1>1, FlattenIs
<1>3. g[m] = IF k = 0 THEN tt[m] ELSE g[k] \o tt[m]
  <2>1. k + 1 \in 1..m
    OBVIOUS
  <2>2. g[k + 1] = IF k = 0 THEN tt[k + 1] ELSE g[k] \o tt[k + 1]
    BY <1>2, <2>1, FlattenedStep
  <2> QED
    BY <2>2
<1>4. CASE k # 0
  <2>1. PICK f : Flattened(f, ss, k) /\ FlattenSeq(ss) = f[k]
    BY <1>4, FlattenIs
  <2>2. /\ k \in Nat /\ m \in Nat /\ k <= m /\ Flattened(f, ss, k) /\ Flattened(g, tt, m)
        /\ \A i \in 1..k : ss[i] = tt[i]
    BY <1>1, <1>2, <2>1
  <2>3. \A i \in 1..k : f[i] = g[i]
    BY ONLY <2>2, FlattenedAgree
  <2>4. k \in 1..k
    BY <1>4
  <2> QED
    BY <1>2, <1>3, <1>4, <2>1, <2>3, <2>4 DEF FlattensTo
<1> QED
  BY <1>2, <1>3, <1>4 DEF FlattensTo

LEMMA FlattenAppend ==
  ASSUME NEW V, NEW ss \in Seq(Seq(V)), NEW x \in Seq(V)
  PROVE  /\ FlattenSeq(ss) \in Seq(V)
         /\ FlattenSeq(Append(ss, x)) = FlattenSeq(ss) \o x
<1>1. PICK k, m, tt :
        /\ k \in Nat /\ m \in Nat /\ k = Len(ss) /\ m = k + 1
        /\ tt = Append(ss, x) /\ Len(tt) = m
        /\ tt[m] = x /\ \A i \in 1..k : ss[i] = tt[i]
  <2> DEFINE t == Append(ss, x)
  <2>1. Len(ss) \in Nat /\ Len(ss) + 1 \in Nat
    OBVIOUS
  <2>2. /\ Len(t) = Len(ss) + 1 /\ t[Len(ss) + 1] = x
        /\ \A i \in 1..Len(ss) : ss[i] = t[i]
    OBVIOUS
  <2> HIDE DEF t
  <2>3. t = Append(ss, x)
    BY DEF t
  <2> QED
    BY <2>1, <2>2, <2>3
<1>2. FlattenSeq(tt) = IF k = 0 THEN tt[m] ELSE FlattenSeq(ss) \o tt[m]
  <2>1. Len(ss) = k
    BY <1>1
  <2> QED
    <3>1. FlattensTo(ss, tt, k, m)
      BY <1>1, <2>1, FlattenStep
    <3> QED
      BY ONLY <3>1 DEF FlattensTo
<1>3. FlattenSeq(ss) \in Seq(V) /\ (k = 0 => FlattenSeq(ss) = <<>>)
  <2>1. CASE k = 0
    BY <1>1, <2>1, EmptySeq DEF FlattenSeq
  <2>2. CASE k # 0
    <3>1. PICK f : Flattened(f, ss, k) /\ FlattenSeq(ss) = f[k]
      BY <1>1, <2>2, FlattenIs
    <3>2. k \in 0..Len(ss) /\ k \in 1..k
      BY <1>1, <2>2
    <3>3. f[k] \in Seq(V)
      BY <3>1, <3>2, FlattenedAre
    <3> QED
      BY <2>2, <3>1, <3>3
  <2> QED
    BY <2>1, <2>2
<1>4. <<>> \o x = x
  BY ConcatEmptySeq
<1> QED
  BY <1>1, <1>2, <1>3, <1>4

LEMMA AppendIs ==
  ASSUME NEW S, NEW s \in Seq(S), NEW x \in S
  PROVE  /\ Len(s) \in Nat /\ DOMAIN s = 1..Len(s) /\ DOMAIN Append(s, x) = 1..Len(s) + 1
         /\ Append(s, x)[Len(s) + 1] = x
         /\ \A n \in 1..Len(s) : Append(s, x)[n] = s[n]
         /\ Append(s, x) = [n \in 1..Len(s) + 1 |-> Append(s, x)[n]]
<1>0. Append(s, x) \in Seq(S) /\ Len(Append(s, x)) = Len(s) + 1
  OBVIOUS
<1>1. PICK t : t = Append(s, x) /\ t \in Seq(S) /\ Len(t) = Len(s) + 1
  BY <1>0
<1>2. t \in [1..Len(t) -> S] /\ DOMAIN t = 1..Len(t)
  BY <1>1, LenProperties
<1>3. t = [n \in 1..Len(s) + 1 |-> t[n]]
  BY <1>1, <1>2
<1>4. Len(s) \in Nat /\ DOMAIN s = 1..Len(s)
  OBVIOUS
<1>5. Append(s, x)[Len(s) + 1] = x /\ \A n \in 1..Len(s) : Append(s, x)[n] = s[n]
  OBVIOUS
<1> QED
  BY <1>1, <1>2, <1>3, <1>4, <1>5

LEMMA ListIs ==
  ASSUME NEW S, NEW n \in Nat, NEW f \in [1..n -> S]
  PROVE  f \in Seq(S) /\ Len(f) = n
OBVIOUS

LEMMA ConcatAppend ==
  ASSUME NEW S, NEW s \in Seq(S), NEW t \in Seq(S), NEW x \in S
  PROVE  s \o t \in Seq(S) /\ s \o Append(t, x) = Append(s \o t, x)
OBVIOUS

(* Named, so that the provers need not look for the concatenations to apply it to. *)
Associate(s, t, u) == (s \o t) \o u = s \o (t \o u)

LEMMA ListsAssociate ==
  ASSUME NEW V, NEW s \in Seq(V), NEW t \in Seq(V), NEW u \in Seq(V)
  PROVE  Associate(s, t, u)
BY ConcatAssociative DEF Associate

LEMMA FlattenConcat ==
  ASSUME NEW V, NEW ss \in Seq(Seq(V)), NEW tt \in Seq(Seq(V))
  PROVE  FlattenSeq(ss \o tt) = FlattenSeq(ss) \o FlattenSeq(tt)
<1> DEFINE Upto(k) == SubSeq(tt, 1, k)
           Holds(k) == FlattenSeq(ss \o Upto(k)) = FlattenSeq(ss) \o FlattenSeq(Upto(k))
           S == {k \in Nat : k <= Len(tt) => Holds(k)}
<1>0. FlattenSeq(ss) \in Seq(V)
  <2>1. <<>> \in Seq(V)
    BY EmptySeq
  <2> QED
    BY <2>1, FlattenAppend
<1>1. 0 \in S
  <2>1. Upto(0) = <<>> /\ ss \o <<>> = ss /\ FlattenSeq(<<>>) = <<>>
    BY SubSeqEmpty, ConcatEmptySeq DEF FlattenSeq
  <2>2. FlattenSeq(ss) \o <<>> = FlattenSeq(ss)
    BY <1>0, ConcatEmptySeq
  <2> HIDE DEF Upto
  <2>3. Holds(0)
    BY <2>1, <2>2
  <2> HIDE DEF Holds
  <2> QED
    BY <2>3
<1>2. ASSUME NEW k \in Nat, k \in S PROVE k + 1 \in S
  <2> SUFFICES ASSUME k + 1 <= Len(tt) PROVE Holds(k + 1)
    OBVIOUS
  <2>0. FlattenSeq(ss \o Upto(k)) = FlattenSeq(ss) \o FlattenSeq(Upto(k))
    BY <1>2
  <2>1. tt[k + 1] \in Seq(V)
    BY ElementOfSeq
  <2>2. Upto(k) \in Seq(Seq(V)) /\ Upto(k + 1) = Append(Upto(k), tt[k + 1])
    OBVIOUS
  <2> HIDE DEF Upto
  <2>3. ss \o Upto(k) \in Seq(Seq(V)) /\ ss \o Upto(k + 1) = Append(ss \o Upto(k), tt[k + 1])
    <3>1. PICK u : u = Upto(k) /\ u \in Seq(Seq(V))
      BY <2>2
    <3>2. PICK W, a, x : /\ W = Seq(V) /\ a = ss /\ x = tt[k + 1]
                         /\ a \in Seq(W) /\ u \in Seq(W) /\ x \in W
      BY <2>1, <3>1
    <3>3. a \o u \in Seq(W) /\ a \o Append(u, x) = Append(a \o u, x)
      BY ONLY <3>2, ConcatAppend
    <3> QED
      BY <2>2, <3>1, <3>2, <3>3
  <2>4. FlattenSeq(ss \o Upto(k + 1)) = FlattenSeq(ss \o Upto(k)) \o tt[k + 1]
    BY <2>1, <2>3, FlattenAppend
  <2>5. FlattenSeq(Upto(k + 1)) = FlattenSeq(Upto(k)) \o tt[k + 1] /\ FlattenSeq(Upto(k)) \in Seq(V)
    BY <2>1, <2>2, FlattenAppend
  <2>6. (FlattenSeq(ss) \o FlattenSeq(Upto(k))) \o tt[k + 1]
          = FlattenSeq(ss) \o (FlattenSeq(Upto(k)) \o tt[k + 1])
    <3>1. PICK a \in Seq(V), b \in Seq(V), c \in Seq(V) :
            a = FlattenSeq(ss) /\ b = FlattenSeq(Upto(k)) /\ c = tt[k + 1]
      BY <1>0, <2>1, <2>5
    <3>2. Associate(a, b, c)
      BY ListsAssociate
    <3> QED
      BY <3>1, <3>2 DEF Associate
  <2> QED
    BY <2>0, <2>4, <2>5, <2>6
<1> HIDE DEF S
<1>3. \A k \in Nat : k \in S
  BY <1>1, <1>2, SetInduction
<1>4. Len(tt) \in Nat /\ Upto(Len(tt)) = tt
  BY SubSeqFull
<1>5. Holds(Len(tt))
  <2> HIDE DEF Holds
  <2> QED
    BY <1>3, <1>4 DEF S
<1> QED
  BY <1>4, <1>5

=============================================================================
