---------------------------- MODULE Queries_proofs ----------------------------
(***************************************************************************)
(* Proofs about the two questions an index answers, and what it has to     *)
(* answer them from.  Explain, for any history, any lines asked about and  *)
(* any index run beside the request: the answer accounts for every line,   *)
(* and the related commits are the nearest ones.  Retrieval, for any       *)
(* hunks, any matches and any scores: the fusion is fair and recency only  *)
(* nudges.  FileHistory, for any commits, branches, renames and runs: the  *)
(* records of a path tell of it at HEAD, and a known language finds them.  *)
(***************************************************************************)
EXTENDS Retrieval, Explain, FileHistory, Ranking_proofs, FiniteSetTheorems, TLAPS

----------------------------------------------------------------------------
(* Explain: the commits. *)

LEMMA ShasFinite ==
  ASSUME NEW S \in SUBSET Shas
  PROVE  IsFiniteSet(S) /\ Cardinality(S) \in Nat
BY ExplainAssumption, FS_Subset, FS_CardinalityType

LEMMA OrdersAre ==
  ASSUME NEW S \in SUBSET Shas
  PROVE  IsOrder(Named, S) /\ IsOrder(NewestFirst, S) /\ IsOrder(OldestFirst, S)
<1>1. \A c \in S : c \in Nat /\ Dated[c] \in Nat /\ c \in Shas
  BY ExplainAssumption
<1>2. IsOrder(Named, S)
  BY <1>1 DEF IsOrder, Named
<1>3. IsOrder(NewestFirst, S)
  BY <1>1 DEF IsOrder, NewestFirst
<1>4. IsOrder(OldestFirst, S)
  BY <1>1 DEF IsOrder, OldestFirst
<1> QED
  BY <1>2, <1>3, <1>4

----------------------------------------------------------------------------
(* Whose lines there are. *)

(* The index only grows, and has what it had at the look-up; the owners own the
   lines that are from them. *)
OwnerInv ==
  /\ indexed \subseteq Shas /\ stored \subseteq Shas /\ early \subseteq stored
  /\ DOMAIN owned \subseteq Shas
  /\ \A c \in DOMAIN owned :
       owned[c] # {} /\ \A n \in owned[c] : n \in DOMAIN Owner /\ Owner[n] = c
  /\ known \subseteq DOMAIN owned
  /\ request \in Requests

LEMMA OwnersAre == \A n \in DOMAIN Owner : Owner[n] \in Shas
BY ExplainAssumption

LEMMA OwnerInvInit == ExplainInit => OwnerInv
BY DEF ExplainInit, OwnerInv

LEMMA BlameKeepsOwners ==
  ASSUME OwnerInv, step = "blame" => known = {}, Blame
  PROVE  OwnerInv'
<1>1. PICK onDisk \in DiskLengths :
        owned' = [c \in {Owner[n] : n \in LinesAsked(onDisk)} |->
                    {n \in LinesAsked(onDisk) : Owner[n] = c}]
  BY DEF Blame
<1>2. PICK lines : lines = LinesAsked(onDisk)
  OBVIOUS
<1>3. lines \subseteq DOMAIN Owner
  BY <1>2 DEF LinesAsked
<1>4. owned' = [c \in {Owner[n] : n \in lines} |-> {n \in lines : Owner[n] = c}]
  BY <1>1, <1>2
<1>5. DOMAIN owned' \subseteq Shas
  BY <1>3, <1>4, OwnersAre
<1>6. \A c \in DOMAIN owned' :
        owned'[c] # {} /\ \A n \in owned'[c] : n \in DOMAIN Owner /\ Owner[n] = c
  BY <1>3, <1>4
<1>7. known' = {} /\ UNCHANGED <<indexed, stored, early, request>>
  BY DEF Blame, index
<1> QED
  BY <1>5, <1>6, <1>7 DEF OwnerInv

(* Before the look-up nobody is known. *)
FreshInv ==
  /\ step \in {"blame", "lookup"} => known = {}
  /\ step \in {"blame", "lookup", "diffs"} => related = <<>> /\ unread = {}

LEMMA OwnersStep ==
  ASSUME OwnerInv, FreshInv, [ExplainNext]_explainVars
  PROVE  OwnerInv' /\ FreshInv'
<1>1. CASE Blame
  BY <1>1, BlameKeepsOwners DEF FreshInv, Blame
<1>2. CASE LookUp
  BY <1>2 DEF LookUp, OwnerInv, FreshInv, index
<1>3. ASSUME NEW c \in Shas, IndexRow(c) \/ IndexHunks(c) PROVE OwnerInv' /\ FreshInv'
  BY <1>3 DEF IndexRow, IndexHunks, OwnerInv, FreshInv
<1>4. CASE ReadDiff
  BY <1>4 DEF ReadDiff, OwnerInv, FreshInv, index
<1>5. CASE BeginRelated
  BY <1>5 DEF BeginRelated, OwnerInv, FreshInv, index
<1>6. CASE ReadOlder
  BY <1>6 DEF ReadOlder, OwnerInv, FreshInv, index
<1>7. CASE ReadNewer
  BY <1>7 DEF ReadNewer, OwnerInv, FreshInv, index
<1>8. CASE Assemble
  BY <1>8 DEF Assemble, OwnerInv, FreshInv, index
<1>9. CASE ExplainFails
  BY <1>9 DEF ExplainFails, OwnerInv, FreshInv, index
<1>10. CASE UNCHANGED explainVars
  BY <1>10 DEF explainVars, OwnerInv, FreshInv, index
<1>11. CASE ReadAnchor \/ AnchorUnread
  BY <1>11 DEF ReadAnchor, AnchorUnread, OwnerInv, FreshInv, index
<1> QED
  BY <1>1, <1>2, <1>3, <1>4, <1>5, <1>6, <1>7, <1>8, <1>9, <1>10, <1>11 DEF ExplainNext

(* What the answer says of the lines once it has been put together. *)
LEMMA AssembledAccounts ==
  ASSUME OwnerInv, Assemble
  PROVE  AnswerAccountsForLines'
<1>1. PICK k \in Nat : k = ClampedCount
  BY ExplainAssumption DEF ClampedCount, OwnerInv, Requests
<1>2. PICK own, kn : own = owned /\ kn = known
  OBVIOUS
<1>3. /\ DOMAIN own \subseteq Shas /\ kn \subseteq DOMAIN own
      /\ \A c \in DOMAIN own : own[c] # {} /\ \A n \in own[c] : n \in DOMAIN Owner /\ Owner[n] = c
  BY <1>2 DEF OwnerInv
<1>4. PICK best : best = Listed(Limited(kn, NewestFirst, k), NewestFirst)
  OBVIOUS
<1>5. /\ answer' = [hits |-> best,
                   coverage |-> <<LineCount(known), LineCount(DOMAIN owned)>>,
                   limitation |-> Limitation]
      /\ owned' = own /\ known' = kn /\ request' = request
  BY <1>1, <1>2, <1>4 DEF Assemble
<1>6. PICK hit : hit = Limited(kn, NewestFirst, k) /\ hit \in SUBSET kn /\ hit \in SUBSET Shas
  BY <1>3 DEF Limited
<1>7. ToSet(best) = hit /\ Len(best) = Cardinality(hit)
  BY <1>4, <1>6, ListedIs, ShasFinite, OrdersAre DEF IsListing
<1> DEFINE blamed == UNION {own[c] : c \in DOMAIN own}
           skipped == DOMAIN own \ kn
<1>8. ASSUME NEW n \in blamed
      PROVE  Owner[n] \in hit \/ Owner[n] \in skipped
               \/ (Len(best) = k /\ \A c \in hit : <<c, Owner[n]>> \in NewestFirst)
  <2>1. Owner[n] \in DOMAIN own
    BY <1>3
  <2>2. ASSUME Owner[n] \in kn, Owner[n] \notin hit
        PROVE  Len(best) = k /\ \A c \in hit : <<c, Owner[n]>> \in NewestFirst
    <3>1. PICK c \in kn : c = Owner[n]
      BY <2>2
    <3>2. kn \in SUBSET Shas /\ c \notin Limited(kn, NewestFirst, k)
      BY <1>3, <1>6, <2>2, <3>1
    <3>3. Cardinality(hit) = k /\ \A d \in hit : <<d, c>> \in NewestFirst
      BY <1>6, <3>2, LimitReached, ShasFinite, OrdersAre
    <3> QED
      BY <1>7, <3>1, <3>3
  <2> QED
    BY <2>1, <2>2
<1>9. Limitation = "skipped" <=> skipped # {}
  BY <1>2, <1>3 DEF Limitation
<1>10. Limitation = "no lines" <=> blamed = {}
  <2>1. Limitation = "no lines" <=> DOMAIN own = {}
    BY <1>2 DEF Limitation
  <2>2. ASSUME NEW c \in DOMAIN own PROVE blamed # {}
    <3>1. PICK n : n \in own[c]
      BY <1>3
    <3>2. n \in blamed
      BY <3>1
    <3> QED
      BY <3>2
  <2>3. DOMAIN own = {} => blamed = {}
    OBVIOUS
  <2> QED
    BY <2>1, <2>2, <2>3
<1>11. LineCount(known) = Cardinality({n \in blamed : Owner[n] \notin skipped})
  <2>1. UNION {own[c] : c \in kn} = {n \in blamed : Owner[n] \notin skipped}
    <3>1. ASSUME NEW c \in kn, NEW n \in own[c]
          PROVE  n \in blamed /\ Owner[n] \notin skipped
      BY <1>3
    <3>2. ASSUME NEW n \in blamed, Owner[n] \notin skipped PROVE \E c \in kn : n \in own[c]
      BY <1>3, <3>2
    <3> QED
      BY <3>1, <3>2
  <2>2. LineCount(known) = Cardinality(UNION {own[c] : c \in kn})
    BY <1>2 DEF LineCount
  <2> HIDE DEF blamed, skipped
  <2> QED
    BY <2>1, <2>2
<1>12. LineCount(DOMAIN owned) = Cardinality(blamed)
  BY <1>2 DEF LineCount
<1>13. hit \subseteq DOMAIN own /\ Cardinality(hit) = Len(best)
  BY <1>3, <1>6, <1>7
<1>14. ClampedCount' = k
  BY <1>1, <1>5 DEF ClampedCount
<1>15. answer'.hits = best /\ answer'.limitation = Limitation
       /\ answer'.coverage = <<LineCount(known), LineCount(DOMAIN owned)>>
  BY <1>5
<1> HIDE DEF blamed, skipped
<1>16. /\ ToSet(answer'.hits) \subseteq DOMAIN own
       /\ Cardinality(ToSet(answer'.hits)) = Len(answer'.hits)
       /\ \A n \in blamed : Owner[n] \in ToSet(answer'.hits) \/ Owner[n] \in skipped
            \/ (Len(answer'.hits) = k
                 /\ \A c \in ToSet(answer'.hits) : <<c, Owner[n]>> \in NewestFirst)
  BY <1>7, <1>8, <1>13, <1>15
<1>17. /\ answer'.limitation = "skipped" <=> skipped # {}
       /\ answer'.limitation = "no lines" <=> blamed = {}
       /\ answer'.coverage = <<Cardinality({n \in blamed : Owner[n] \notin skipped}),
                               Cardinality(blamed)>>
  BY <1>9, <1>10, <1>11, <1>12, <1>15
<1> QED
  BY <1>5, <1>14, <1>16, <1>17 DEF AnswerAccountsForLines, blamed, skipped

(* An answer, once given, stays. *)
LEMMA AccountsStep ==
  ASSUME OwnerInv, AnswerAccountsForLines, [ExplainNext]_explainVars
  PROVE  AnswerAccountsForLines'
<1>1. CASE Assemble
  BY <1>1, AssembledAccounts
<1>2. CASE step' # "answered"
  BY <1>2 DEF AnswerAccountsForLines, Answered
<1>3. CASE UNCHANGED <<request, step, owned, known, answer>>
  BY <1>3 DEF AnswerAccountsForLines, Answered, ClampedCount
<1>4. \A c \in Shas : IndexRow(c) \/ IndexHunks(c) => UNCHANGED <<request, step, owned, known, answer>>
  BY DEF IndexRow, IndexHunks
<1>5. UNCHANGED explainVars => UNCHANGED <<request, step, owned, known, answer>>
  BY DEF explainVars
<1>6. (Blame \/ LookUp \/ ReadDiff \/ BeginRelated \/ ReadAnchor \/ AnchorUnread \/ ReadOlder
        \/ ReadNewer \/ ExplainFails) => step' # "answered"
  BY DEF Blame, LookUp, ReadDiff, BeginRelated, ReadOlder, ReadNewer, ExplainFails, ReadAnchor,
         AnchorUnread
<1> QED
  BY <1>1, <1>2, <1>3, <1>4, <1>5, <1>6 DEF ExplainNext

----------------------------------------------------------------------------
(* The related commits. *)

Once(s) == \A m, n \in 1..Len(s) : s[m] = s[n] => m = n

LEMMA ConcatOnce ==
  ASSUME NEW s \in Seq(Shas), NEW t \in Seq(Shas), Once(s), Once(t),
         ToSet(s) \intersect ToSet(t) = {}
  PROVE  /\ s \o t \in Seq(Shas) /\ Once(s \o t)
         /\ ToSet(s \o t) = ToSet(s) \union ToSet(t)
<1>1. PICK u : u = s \o t
  OBVIOUS
<1>2. PICK p \in Nat, q \in Nat : p = Len(s) /\ q = Len(t)
  OBVIOUS
<1>3. /\ u \in Seq(Shas) /\ Len(u) = p + q /\ DOMAIN u = 1..(p + q)
      /\ DOMAIN s = 1..p /\ DOMAIN t = 1..q
      /\ \A n \in 1..p : u[n] = s[n]
      /\ \A n \in (p + 1)..(p + q) : u[n] = t[n - p]
  BY <1>1, <1>2
<1>4. \A n \in 1..p : s[n] \in ToSet(s)
  BY <1>3 DEF ToSet
<1>5. \A n \in 1..q : t[n] \in ToSet(t)
  BY <1>3 DEF ToSet
<1>6. \A n \in (p + 1)..(p + q) : n - p \in 1..q /\ u[n] \in ToSet(t)
  BY <1>3, <1>5
<1>7. Once(u)
  <2> SUFFICES ASSUME NEW m \in 1..(p + q), NEW n \in 1..(p + q), u[m] = u[n] PROVE m = n
    BY <1>3 DEF Once
  <2>1. CASE m \in 1..p /\ n \in 1..p
    BY <1>2, <1>3, <2>1 DEF Once
  <2>2. CASE m \in (p + 1)..(p + q) /\ n \in (p + 1)..(p + q)
    <3>1. t[m - p] = t[n - p]
      BY <1>3, <2>2
    <3>2. m - p = n - p
      BY <1>2, <1>6, <2>2, <3>1 DEF Once
    <3> QED
      BY <3>2
  <2>3. ~(m \in 1..p /\ n \in (p + 1)..(p + q))
    BY <1>3, <1>4, <1>6
  <2>4. ~(n \in 1..p /\ m \in (p + 1)..(p + q))
    BY <1>3, <1>4, <1>6
  <2> QED
    BY <2>1, <2>2, <2>3, <2>4
<1>8. ASSUME NEW c \in ToSet(u) PROVE c \in ToSet(s) \union ToSet(t)
  <2>1. PICK n \in 1..(p + q) : u[n] = c
    BY <1>3 DEF ToSet
  <2>2. n \in 1..p \/ n \in (p + 1)..(p + q)
    OBVIOUS
  <2> QED
    BY <1>3, <1>4, <1>6, <2>1, <2>2
<1>9. ASSUME NEW c \in ToSet(s) PROVE c \in ToSet(u)
  <2>1. PICK n \in 1..p : s[n] = c
    BY <1>3 DEF ToSet
  <2>2. n \in 1..(p + q) /\ u[n] = c
    BY <1>3, <2>1
  <2> QED
    BY <1>3, <2>2 DEF ToSet
<1>10. ASSUME NEW c \in ToSet(t) PROVE c \in ToSet(u)
  <2>1. PICK n \in 1..q : t[n] = c
    BY <1>3 DEF ToSet
  <2>2. p + n \in (p + 1)..(p + q) /\ (p + n) - p = n
    OBVIOUS
  <2>3. p + n \in 1..(p + q) /\ u[p + n] = c
    BY <1>3, <2>1, <2>2
  <2> QED
    BY <1>3, <2>3 DEF ToSet
<1> QED
  BY <1>1, <1>3, <1>7, <1>8, <1>9, <1>10

LEMMA OnceCounts ==
  ASSUME NEW s \in Seq(Shas), Once(s)
  PROVE  Cardinality(ToSet(s)) = Len(s)
<1>1. PICK k \in Nat : k = Len(s) /\ DOMAIN s = 1..k
  OBVIOUS
<1>2. s \in Bijection(1..k, ToSet(s))
  <2>1. s \in [1..k -> ToSet(s)] /\ \A c \in ToSet(s) : \E n \in 1..k : s[n] = c
    BY <1>1 DEF ToSet
  <2> QED
    BY <1>1, <2>1 DEF Bijection, Injection, Surjection, IsInjective, Once
<1>3. IsFiniteSet(1..k) /\ Cardinality(1..k) = k
  BY FS_Interval
<1> QED
  BY <1>1, <1>2, <1>3, FS_Bijection DEF ExistsBijection

(* What a read adds: those within the limit, but for the anchors. *)
LEMMA Adds ==
  ASSUME NEW side \in SUBSET Shas, NEW order, \A S \in SUBSET Shas : IsOrder(order, S),
         related \in Seq(Shas), Once(related), AddRelated(side, order)
  PROVE  /\ related' \in Seq(Shas) /\ Once(related')
         /\ ToSet(related') = ToSet(related) \union (Limited(side, order, Around) \ known)
<1>1. PICK new : new = {c \in Limited(side, order, Around) : c \notin known /\ c \notin ToSet(related)}
  OBVIOUS
<1>2. new \in SUBSET Shas
  BY <1>1 DEF Limited
<1>3. PICK t : t = Listed(new, order)
  OBVIOUS
<1>4. t \in Seq(new) /\ ToSet(t) = new /\ Once(t)
  <2>1. IsFiniteSet(new) /\ IsOrder(order, new)
    BY <1>2, ShasFinite
  <2> QED
    BY <1>3, <2>1, ListedIs DEF IsListing, Once
<1>5. t \in Seq(Shas)
  BY <1>2, <1>4
<1>6. related' = related \o t
  BY <1>1, <1>3 DEF AddRelated
<1>7. ToSet(related) \intersect ToSet(t) = {}
  BY <1>1, <1>4
<1>8. /\ related' \in Seq(Shas) /\ Once(related')
      /\ ToSet(related') = ToSet(related) \union new
  BY <1>4, <1>5, <1>6, <1>7, ConcatOnce
<1> QED
  BY <1>1, <1>8

(* A commit's place on its side of an anchor only gets worse as the index grows. *)
LEMMA NearerGrows ==
  ASSUME NEW S \in SUBSET Shas, NEW T \in SUBSET Shas, S \subseteq T, NEW c, NEW a
  PROVE  Nearer(c, a, S) \in Nat /\ Nearer(c, a, S) <= Nearer(c, a, T)
<1>1. OlderThan(a, S) \subseteq OlderThan(a, T) /\ OlderThan(a, T) \subseteq Shas
      /\ NewerThan(a, S) \subseteq NewerThan(a, T) /\ NewerThan(a, T) \subseteq Shas
  BY DEF OlderThan, NewerThan, Touching
<1>2. /\ Rank(c, OlderThan(a, S), NewestFirst) \in Nat
      /\ Rank(c, OlderThan(a, S), NewestFirst) <= Rank(c, OlderThan(a, T), NewestFirst)
  BY <1>1, ShasFinite, RankMonotone
<1>3. /\ Rank(c, NewerThan(a, S), OldestFirst) \in Nat
      /\ Rank(c, NewerThan(a, S), OldestFirst) <= Rank(c, NewerThan(a, T), OldestFirst)
  BY <1>1, ShasFinite, RankMonotone
<1> QED
  BY <1>2, <1>3 DEF Nearer

(* What is within the limit on a side are the nearest there. *)
LEMMA OlderSide ==
  ASSUME NEW S \in SUBSET Shas, NEW a \in Shas
  PROVE  /\ OlderThan(a, S) \in SUBSET Shas
         /\ Limited(OlderThan(a, S), NewestFirst, Around) =
              {c \in Touching(S) \ {a} : Dated[c] <= Dated[a] /\ Nearer(c, a, S) < Around}
BY DEF OlderThan, Touching, Limited, Nearer

LEMMA NewerSide ==
  ASSUME NEW S \in SUBSET Shas, NEW a \in Shas
  PROVE  /\ NewerThan(a, S) \in SUBSET Shas
         /\ Limited(NewerThan(a, S), OldestFirst, Around) =
              {c \in Touching(S) \ {a} : ~(Dated[c] <= Dated[a]) /\ Nearer(c, a, S) < Around}
<1>1. \A c \in Shas : Dated[c] \in Nat
  BY ExplainAssumption
<1>2. \A c \in Shas : Dated[c] > Dated[a] <=> ~(Dated[c] <= Dated[a])
  BY <1>1
<1>3. NewerThan(a, S) = {c \in Touching(S) \ {a} : ~(Dated[c] <= Dated[a])}
  BY <1>2 DEF NewerThan, Touching
<1>4. \A c \in NewerThan(a, S) : Nearer(c, a, S) = Rank(c, NewerThan(a, S), OldestFirst)
  BY <1>3 DEF Nearer
<1> QED
  BY <1>3, <1>4 DEF Limited, Touching

(* The anchors whose date was read, and that the reads have come to. *)
Placed ==
  {a \in known \ unread : a \in ToSet(left) => step = "newer" /\ a = Head(left)}

(* Those listed are near one of these. *)
Explained ==
  /\ related \in Seq(Shas) /\ Once(related)
  /\ ToSet(related) \subseteq Touching(stored) \ known
  /\ \A c \in ToSet(related) : \E a \in Placed : Nearer(c, a, early) < Around

(* The reads have done every anchor that is not left, and half of the first. *)
Relating == request.related /\ step \in {"anchor", "older", "newer", "answered"}
RelatedInv ==
  Relating =>
    /\ Explained
    /\ left \in Seq(known) /\ Once(left) /\ ToSet(left) \intersect unread = {}
    /\ \A a \in known \ (ToSet(left) \union unread), c \in Touching(early) \ known :
         Nearer(c, a, stored) < Around => c \in ToSet(related)
    /\ step \in {"older", "newer"} => left # <<>>
    /\ step = "newer" =>
         \A c \in Touching(early) \ known :
           Dated[c] <= Dated[Head(left)] /\ Nearer(c, Head(left), stored) < Around
             => c \in ToSet(related)
    /\ step = "answered" => left = <<>>

LEMMA HeadAndTail ==
  ASSUME NEW K, NEW s \in Seq(K), s # <<>>, Once(s)
  PROVE  /\ Head(s) \in K /\ Tail(s) \in Seq(K)
         /\ ToSet(s) = {Head(s)} \union ToSet(Tail(s))
         /\ Head(s) \notin ToSet(Tail(s)) /\ Once(Tail(s))
<1>1. PICK k \in Nat : k = Len(s) /\ DOMAIN s = 1..k /\ k > 0
  OBVIOUS
<1>2. PICK t : t = Tail(s)
  OBVIOUS
<1>3. /\ t \in Seq(K) /\ Len(t) = k - 1 /\ DOMAIN t = 1..(k - 1)
      /\ \A n \in 1..(k - 1) : t[n] = s[n + 1] /\ n + 1 \in 1..k
  BY <1>1, <1>2
<1>4. Head(s) \in K /\ Head(s) = s[1] /\ s[1] \in ToSet(s)
  BY <1>1 DEF ToSet
<1>5. ASSUME NEW a \in ToSet(s), a # s[1] PROVE a \in ToSet(t)
  <2>1. PICK n \in 1..k : s[n] = a
    BY <1>1 DEF ToSet
  <2>2. n - 1 \in 1..(k - 1) /\ (n - 1) + 1 = n
    BY <1>1, <1>5, <2>1
  <2>3. t[n - 1] = a
    BY <1>3, <2>1, <2>2
  <2> QED
    BY <1>3, <2>2, <2>3 DEF ToSet
<1>6. ASSUME NEW a \in ToSet(t) PROVE a \in ToSet(s) /\ a # s[1]
  <2>1. PICK n \in 1..(k - 1) : t[n] = a
    BY <1>3 DEF ToSet
  <2>2. n + 1 \in 1..k /\ s[n + 1] = a /\ n + 1 # 1
    BY <1>3, <2>1
  <2> QED
    BY <1>1, <2>2 DEF ToSet, Once
<1>7. Once(t)
  <2> SUFFICES ASSUME NEW m \in 1..(k - 1), NEW n \in 1..(k - 1), t[m] = t[n] PROVE m = n
    BY <1>3 DEF Once
  <2>1. s[m + 1] = s[n + 1] /\ m + 1 \in 1..k /\ n + 1 \in 1..k
    BY <1>3
  <2>2. m + 1 = n + 1
    BY <1>1, <2>1 DEF Once
  <2> QED
    BY <2>2
<1> QED
  BY <1>2, <1>3, <1>4, <1>5, <1>6, <1>7

LEMMA BeginsRelated ==
  ASSUME OwnerInv, FreshInv, BeginRelated
  PROVE  RelatedInv'
<1> SUFFICES ASSUME Relating' PROVE RelatedInv'
  BY DEF RelatedInv
<1>1. /\ related' = <<>> /\ step' = "anchor" /\ request.related
      /\ UNCHANGED <<known, unread>> /\ unread = {}
  BY DEF BeginRelated, FreshInv, Relating
<1>2. PICK t : t = Listed(known, Named)
  OBVIOUS
<1>3. left' = t
  BY <1>1, <1>2 DEF BeginRelated
<1>4. t \in Seq(known) /\ ToSet(t) = known /\ Once(t)
  <2>1. known \subseteq Shas
    BY DEF OwnerInv
  <2>2. IsFiniteSet(known) /\ IsOrder(Named, known)
    BY <2>1, ShasFinite, OrdersAre
  <2>3. IsListing(t, known, Named)
    BY <1>2, <2>2, ListedIs
  <2> QED
    BY <2>3 DEF IsListing, Once
<1>5. ToSet(related') = {} /\ related' \in Seq(Shas) /\ Once(related')
  BY <1>1 DEF ToSet, Once
<1>6. Explained'
  BY <1>5 DEF Explained
<1> QED
  BY <1>1, <1>3, <1>4, <1>6 DEF RelatedInv

LEMMA IndexKeepsRelated ==
  ASSUME OwnerInv, RelatedInv, stored \subseteq stored', stored' \subseteq Shas,
         UNCHANGED <<request, step, known, left, related, early, unread>>
  PROVE  RelatedInv'
<1> SUFFICES ASSUME Relating' PROVE RelatedInv'
  BY DEF RelatedInv
<1>1. Relating /\ early \in SUBSET Shas
  BY DEF Relating, OwnerInv
<1>2. \A c, a : Nearer(c, a, stored') < Around => Nearer(c, a, stored) < Around
  <2> SUFFICES ASSUME NEW c, NEW a, Nearer(c, a, stored') < Around
               PROVE  Nearer(c, a, stored) < Around
    OBVIOUS
  <2>1. stored \in SUBSET Shas /\ stored' \in SUBSET Shas
    BY DEF OwnerInv
  <2>2. /\ Nearer(c, a, stored) \in Nat /\ Nearer(c, a, stored') \in Nat
        /\ Nearer(c, a, stored) <= Nearer(c, a, stored')
    BY <2>1, NearerGrows
  <2> QED
    BY <2>2, ExplainAssumption
<1>3. Touching(stored) \subseteq Touching(stored')
  BY DEF Touching
<1>4. /\ request' = request /\ step' = step /\ known' = known /\ left' = left
      /\ related' = related /\ early' = early /\ unread' = unread /\ Placed' = Placed
  BY DEF Placed
<1>5. Explained'
  BY <1>1, <1>3, <1>4 DEF RelatedInv, Explained
<1> QED
  BY <1>1, <1>2, <1>4, <1>5 DEF RelatedInv

(* A read of one side of an anchor lists the nearest that are on that side. *)
LEMMA ReadLists ==
  ASSUME OwnerInv, Explained, NEW a \in Placed', Placed \subseteq Placed', NEW side \in SUBSET Shas,
         NEW order, \A S \in SUBSET Shas : IsOrder(order, S),
         Limited(side, order, Around) \subseteq
           {c \in Touching(stored) \ {a} : Nearer(c, a, stored) < Around},
         AddRelated(side, order), UNCHANGED <<known, stored, early>>
  PROVE  /\ Explained'
         /\ ToSet(related') = ToSet(related) \union (Limited(side, order, Around) \ known)
<1>1. /\ related' \in Seq(Shas) /\ Once(related')
      /\ ToSet(related') = ToSet(related) \union (Limited(side, order, Around) \ known)
  BY Adds DEF Explained
<1>2. ToSet(related') \subseteq Touching(stored) \ known
  BY <1>1 DEF Explained
<1>3. ASSUME NEW c \in Limited(side, order, Around) PROVE Nearer(c, a, early) < Around
  <2>1. stored \in SUBSET Shas /\ early \in SUBSET Shas /\ early \subseteq stored
    BY DEF OwnerInv
  <2>2. /\ Nearer(c, a, early) \in Nat /\ Nearer(c, a, stored) \in Nat
        /\ Nearer(c, a, early) <= Nearer(c, a, stored)
    BY <2>1, NearerGrows
  <2>3. Nearer(c, a, stored) < Around
    OBVIOUS
  <2> QED
    BY <2>2, <2>3, ExplainAssumption
<1>4. \A c \in ToSet(related') : \E b \in Placed' : Nearer(c, b, early) < Around
  BY <1>1, <1>3 DEF Explained
<1> QED
  BY <1>1, <1>2, <1>4 DEF Explained

LEMMA OlderKeepsRelated ==
  ASSUME OwnerInv, RelatedInv, ReadOlder
  PROVE  RelatedInv'
<1> SUFFICES ASSUME Relating' PROVE RelatedInv'
  BY DEF RelatedInv
<1>1. /\ step = "older" /\ step' = "newer"
      /\ UNCHANGED <<request, known, left, stored, early, unread>>
  BY DEF ReadOlder, index
<1>2. Relating
  BY <1>1 DEF Relating
<1>3. /\ Explained /\ left \in Seq(known) /\ left # <<>> /\ Once(left)
      /\ ToSet(left) \intersect unread = {}
  BY <1>1, <1>2 DEF RelatedInv
<1>4. PICK a \in known : a = Head(left) /\ a \in ToSet(left) /\ a \notin unread
  BY <1>3, HeadAndTail
<1>14. a \in Placed' /\ Placed \subseteq Placed'
  BY <1>1, <1>4 DEF Placed
<1>5. a \in Shas /\ stored \in SUBSET Shas
  BY DEF OwnerInv
<1>6. PICK side : side = OlderThan(a, stored)
  OBVIOUS
<1>7. /\ side \in SUBSET Shas
      /\ Limited(side, NewestFirst, Around) =
           {c \in Touching(stored) \ {a} : Dated[c] <= Dated[a] /\ Nearer(c, a, stored) < Around}
  BY <1>5, <1>6, OlderSide
<1>8. AddRelated(side, NewestFirst)
  BY <1>4, <1>6 DEF ReadOlder
<1>9. /\ Explained'
      /\ ToSet(related') = ToSet(related) \union (Limited(side, NewestFirst, Around) \ known)
  <2>1. Limited(side, NewestFirst, Around) \subseteq
          {c \in Touching(stored) \ {a} : Nearer(c, a, stored) < Around}
    BY <1>7
  <2> QED
    BY <1>1, <1>3, <1>7, <1>8, <1>14, <2>1, ReadLists, OrdersAre
<1>10. Touching(early) \subseteq Touching(stored)
  BY DEF OwnerInv, Touching
<1>11. ASSUME NEW c \in Touching(early) \ known, Dated[c] <= Dated[a], Nearer(c, a, stored) < Around
       PROVE  c \in ToSet(related')
  BY <1>7, <1>9, <1>10, <1>11
<1>12. left' = left /\ known' = known /\ stored' = stored /\ early' = early
  BY <1>1
<1>13. \A b \in known \ (ToSet(left) \union unread), c \in Touching(early) \ known :
         Nearer(c, b, stored) < Around => c \in ToSet(related')
  BY <1>2, <1>9 DEF RelatedInv
<1> QED
  BY <1>1, <1>3, <1>4, <1>9, <1>11, <1>12, <1>13 DEF RelatedInv

LEMMA NewerKeepsRelated ==
  ASSUME OwnerInv, RelatedInv, ReadNewer
  PROVE  RelatedInv'
<1> SUFFICES ASSUME Relating' PROVE RelatedInv'
  BY DEF RelatedInv
<1>1. /\ step = "newer" /\ step' = "anchor" /\ left' = Tail(left)
      /\ UNCHANGED <<request, known, stored, early, unread>>
  BY DEF ReadNewer, index
<1>2. Relating
  BY <1>1 DEF Relating
<1>3. /\ Explained /\ left \in Seq(known) /\ left # <<>> /\ Once(left)
      /\ ToSet(left) \intersect unread = {}
  BY <1>1, <1>2 DEF RelatedInv
<1>4. PICK a \in known : a = Head(left) /\ a \in ToSet(left) /\ a \notin unread
  BY <1>3, HeadAndTail
<1>15. /\ left' \in Seq(known) /\ Once(left') /\ ToSet(left) = {a} \union ToSet(left')
       /\ a \notin ToSet(left')
  BY <1>1, <1>3, <1>4, HeadAndTail
<1>14. a \in Placed' /\ Placed \subseteq Placed'
  BY <1>1, <1>4, <1>15 DEF Placed
<1>5. a \in Shas /\ stored \in SUBSET Shas
  BY DEF OwnerInv
<1>6. PICK side : side = NewerThan(a, stored)
  OBVIOUS
<1>7. /\ side \in SUBSET Shas
      /\ Limited(side, OldestFirst, Around) =
           {c \in Touching(stored) \ {a} : ~(Dated[c] <= Dated[a]) /\ Nearer(c, a, stored) < Around}
  BY <1>5, <1>6, NewerSide
<1>8. AddRelated(side, OldestFirst)
  BY <1>4, <1>6 DEF ReadNewer
<1>9. /\ Explained'
      /\ ToSet(related') = ToSet(related) \union (Limited(side, OldestFirst, Around) \ known)
  <2>1. Limited(side, OldestFirst, Around) \subseteq
          {c \in Touching(stored) \ {a} : Nearer(c, a, stored) < Around}
    BY <1>7
  <2> QED
    BY <1>1, <1>3, <1>7, <1>8, <1>14, <2>1, ReadLists, OrdersAre
<1>10. Touching(early) \subseteq Touching(stored)
  BY DEF OwnerInv, Touching
<1>11. ASSUME NEW c \in Touching(early) \ known, Nearer(c, a, stored) < Around
       PROVE  c \in ToSet(related')
  <2>1. CASE Dated[c] <= Dated[a]
    <3>1. c \in ToSet(related)
      BY <1>1, <1>2, <1>4, <1>11, <2>1 DEF RelatedInv
    <3> QED
      BY <1>9, <3>1
  <2>2. CASE ~(Dated[c] <= Dated[a])
    BY <1>7, <1>9, <1>10, <1>11, <2>2
  <2> QED
    BY <2>1, <2>2
<1>12. known' = known /\ stored' = stored /\ early' = early
  BY <1>1
<1>13. ASSUME NEW b \in known \ (ToSet(left') \union unread), NEW c \in Touching(early) \ known,
              Nearer(c, b, stored) < Around
       PROVE  c \in ToSet(related')
  <2>1. b = a \/ b \notin ToSet(left)
    BY <1>15
  <2>2. CASE b \notin ToSet(left)
    <3>1. c \in ToSet(related)
      BY <1>2, <1>13, <2>2 DEF RelatedInv
    <3> QED
      BY <1>9, <3>1
  <2> QED
    BY <1>11, <1>13, <2>1, <2>2
<1>16. ToSet(left') \intersect unread' = {}
  BY <1>1, <1>3, <1>15
<1> QED
  BY <1>1, <1>9, <1>12, <1>13, <1>15, <1>16 DEF RelatedInv

(* An anchor whose date cannot be read is no longer looked for, and was not yet
   one that anything is near to. *)
LEMMA UnreadKeepsRelated ==
  ASSUME OwnerInv, RelatedInv, AnchorUnread
  PROVE  RelatedInv'
<1> SUFFICES ASSUME Relating' PROVE RelatedInv'
  BY DEF RelatedInv
<1>1. /\ step = "anchor" /\ left # <<>> /\ left' = Tail(left)
      /\ unread' = unread \union {Head(left)}
      /\ UNCHANGED <<request, step, known, related, stored, early>>
  BY DEF AnchorUnread, index
<1>2. Relating
  BY <1>1 DEF Relating
<1>3. /\ Explained /\ left \in Seq(known) /\ Once(left) /\ ToSet(left) \intersect unread = {}
  BY <1>2 DEF RelatedInv
<1>4. PICK a \in known : a = Head(left)
  BY <1>1, <1>3, HeadAndTail
<1>5. /\ left' \in Seq(known) /\ Once(left') /\ ToSet(left) = {a} \union ToSet(left')
      /\ a \notin ToSet(left')
  BY <1>1, <1>3, <1>4, HeadAndTail
<1>6. ToSet(left') \union unread' = ToSet(left) \union unread /\ ToSet(left') \intersect unread' = {}
  BY <1>1, <1>3, <1>4, <1>5
<1>7. Placed = known \ (ToSet(left) \union unread) /\ Placed' = known \ (ToSet(left') \union unread')
  BY <1>1 DEF Placed
<1>8. Explained'
  BY <1>1, <1>3, <1>6, <1>7 DEF Explained
<1>9. \A b \in known \ (ToSet(left') \union unread'), c \in Touching(early) \ known :
        Nearer(c, b, stored) < Around => c \in ToSet(related')
  BY <1>1, <1>2, <1>6 DEF RelatedInv
<1> QED
  BY <1>1, <1>5, <1>6, <1>8, <1>9 DEF RelatedInv

LEMMA RelatedStep ==
  ASSUME OwnerInv, FreshInv, RelatedInv, [ExplainNext]_explainVars
  PROVE  RelatedInv'
<1>1. CASE Blame \/ LookUp \/ ReadDiff \/ ExplainFails
  <2>1. ~Relating'
    BY <1>1 DEF Blame, LookUp, ReadDiff, ExplainFails, Relating
  <2> QED
    BY <2>1 DEF RelatedInv
<1>2. CASE BeginRelated
  BY <1>2, BeginsRelated
<1>3. CASE ReadOlder
  BY <1>3, OlderKeepsRelated
<1>4. CASE ReadNewer
  BY <1>4, NewerKeepsRelated
<1>5. CASE Assemble \/ ReadAnchor
  <2>1. /\ step = "anchor" /\ step' \in {"older", "answered"}
        /\ step' = "answered" => left = <<>>
        /\ step' = "older" => left # <<>>
        /\ UNCHANGED <<request, known, left, related, stored, early, unread>>
    BY <1>5 DEF Assemble, ReadAnchor, index
  <2>2. Placed' = Placed
    BY <2>1 DEF Placed
  <2>3. Relating' => Relating
    BY <2>1 DEF Relating
  <2>4. Relating => Explained'
    BY <2>1, <2>2 DEF RelatedInv, Explained
  <2> QED
    BY <2>1, <2>3, <2>4 DEF RelatedInv
<1>8. CASE AnchorUnread
  BY <1>8, UnreadKeepsRelated
<1>6. ASSUME NEW c \in Shas, IndexRow(c) \/ IndexHunks(c) PROVE RelatedInv'
  <2>1. /\ stored \subseteq stored' /\ stored' \subseteq Shas
        /\ UNCHANGED <<request, step, known, left, related, early, unread>>
    BY <1>6 DEF IndexRow, IndexHunks, OwnerInv
  <2> QED
    BY <2>1, IndexKeepsRelated
<1>7. CASE UNCHANGED explainVars
  <2>1. stored \subseteq stored' /\ stored' \subseteq Shas
        /\ UNCHANGED <<request, step, known, left, related, early, unread>>
    BY <1>7 DEF explainVars, index, OwnerInv
  <2> QED
    BY <2>1, IndexKeepsRelated
<1> QED
  BY <1>1, <1>2, <1>3, <1>4, <1>5, <1>6, <1>7, <1>8 DEF ExplainNext

LEMMA RelatedFollows == RelatedInv => RelatedAreNearest
<1> SUFFICES ASSUME RelatedInv, Answered, request.related PROVE RelatedAreNearest
  BY DEF RelatedAreNearest
<1>1. Relating /\ left = <<>>
  BY DEF Relating, Answered, RelatedInv
<1>2. Explained
  BY <1>1 DEF RelatedInv
<1>3. Cardinality(ToSet(related)) = Len(related)
  BY <1>2, OnceCounts DEF Explained
<1>4. ToSet(left) = {}
  BY <1>1 DEF ToSet
<1>5. \A a \in known \ unread, c \in Touching(early) \ known :
        Nearer(c, a, stored) < Around => c \in ToSet(related)
  BY <1>1, <1>4 DEF RelatedInv
<1>6. Placed = known \ unread
  BY <1>4 DEF Placed
<1> QED
  BY <1>2, <1>3, <1>5, <1>6 DEF RelatedAreNearest, Explained

----------------------------------------------------------------------------
(* Explain: the theorems. *)

ExplainInv == OwnerInv /\ FreshInv /\ AnswerAccountsForLines /\ RelatedInv

LEMMA ExplainInvInit == ExplainInit => ExplainInv
<1>1. ExplainInit => FreshInv /\ AnswerAccountsForLines /\ RelatedInv
  BY DEF ExplainInit, FreshInv, AnswerAccountsForLines, Answered, RelatedInv, Relating
<1> QED
  BY <1>1, OwnerInvInit DEF ExplainInv

LEMMA ExplainInvStep == ExplainInv /\ [ExplainNext]_explainVars => ExplainInv'
BY OwnersStep, AccountsStep, RelatedStep DEF ExplainInv

LEMMA ExplainInvHolds == ExplainSpec => []ExplainInv
BY ExplainInvInit, ExplainInvStep, PTL DEF ExplainSpec

(* explain/mod.rs:147: in every answer each line that was
   blamed is one hit's, or its commit is no newer than the hits and was cut, or
   the answer says that commits were skipped, and the coverage counts just the
   lines that were not. *)
THEOREM AccountsHolds == ExplainSpec => []AnswerAccountsForLines
<1>1. ExplainInv => AnswerAccountsForLines
  BY DEF ExplainInv
<1> QED
  BY <1>1, ExplainInvHolds, PTL

(* hydrator.rs:227, explain.rs:55: whatever an index run adds between the
   reads, the related commits are each listed once, are no anchors, changed the
   file and are among the nearest to an anchor whose date was read; and none is
   missed that was stored at the look-up and is among the nearest still. *)
THEOREM RelatedHolds == ExplainSpec => []RelatedAreNearest
<1>1. ExplainInv => RelatedAreNearest
  BY RelatedFollows DEF ExplainInv
<1> QED
  BY <1>1, ExplainInvHolds, PTL

----------------------------------------------------------------------------
(* Retrieval: lists of hits. *)

(* Each hunk once, with a score above zero. *)
Scored == [id : Hunks, sim : Nat \ {0}]
IsHits(s) ==
  /\ s \in Seq(Scored)
  /\ \A m, n \in DOMAIN s : s[m].id = s[n].id => m = n

LEMMA PlaceIs ==
  ASSUME NEW s, IsHits(s), NEW h \in Ids(s)
  PROVE  /\ Place(s, h) \in DOMAIN s /\ Place(s, h) \in Nat \ {0}
         /\ s[Place(s, h)].id = h /\ h \in Hunks /\ s[Place(s, h)].sim \in Nat \ {0}
         /\ \A n \in DOMAIN s : s[n].id = h => n = Place(s, h)
<1>1. \E n \in DOMAIN s : s[n].id = h
  BY DEF Ids
<1>2. PICK n : n = Place(s, h)
  OBVIOUS
<1>3. n \in DOMAIN s /\ s[n].id = h
  BY <1>1, <1>2 DEF Place
<1>4. n \in Nat \ {0} /\ s[n] \in Scored
  BY <1>3 DEF IsHits
<1>5. s[n].id \in Hunks /\ s[n].sim \in Nat \ {0}
  BY <1>4 DEF Scored
<1>6. \A m \in DOMAIN s : s[m].id = h => m = n
  BY <1>3 DEF IsHits
<1> QED
  BY <1>2, <1>3, <1>4, <1>5, <1>6

(* A lane's hits: those within the limit, in the order. *)
LEMMA LaneIs ==
  ASSUME NEW S \in SUBSET Hunks, NEW order, IsOrder(order, S), NEW k \in Nat,
         NEW D, S \subseteq D, NEW sim \in [D -> Nat \ {0}]
  PROVE  /\ IsHits(Lane(S, order, k, sim))
         /\ Ids(Lane(S, order, k, sim)) = Limited(S, order, k)
         /\ \A g, h \in Limited(S, order, k) : <<h, g>> \in order =>
              Place(Lane(S, order, k, sim), h) < Place(Lane(S, order, k, sim), g)
<1>1. PICK top : top = Limited(S, order, k)
  OBVIOUS
<1>2. top \subseteq S /\ IsFiniteSet(top)
  <2>1. top \subseteq Hunks
    BY <1>1 DEF Limited
  <2> QED
    BY <1>1, <2>1, RetrievalAssumption, FS_Subset DEF Limited
<1>3. IsOrder(order, top)
  BY <1>2 DEF IsOrder
<1>4. PICK ids : ids = Listed(top, order)
  OBVIOUS
<1>5. PICK c \in Nat : c = Cardinality(top)
  BY <1>2, FS_CardinalityType
<1>6. /\ ids \in Seq(top) /\ Len(ids) = c /\ DOMAIN ids = 1..c /\ ToSet(ids) = top
      /\ \A m, n \in 1..c : ids[m] = ids[n] => m = n
  BY <1>2, <1>3, <1>4, <1>5, ListedIs DEF IsListing
<1>7. \A n \in 1..c : Rank(ids[n], top, order) = n - 1
  BY <1>2, <1>3, <1>4, <1>5, ListedAt
<1>8. PICK lane : lane = Lane(S, order, k, sim)
  OBVIOUS
<1>9. lane = [m \in 1..c |-> [id |-> ids[m], sim |-> sim[ids[m]]]]
  BY <1>1, <1>4, <1>6, <1>8 DEF Lane
<1>10. \A m \in 1..c : ids[m] \in top /\ [id |-> ids[m], sim |-> sim[ids[m]]] \in Scored
  <2> SUFFICES ASSUME NEW m \in 1..c
               PROVE  ids[m] \in top /\ [id |-> ids[m], sim |-> sim[ids[m]]] \in Scored
    OBVIOUS
  <2>1. ids[m] \in top
    BY <1>6
  <2>2. ids[m] \in Hunks /\ sim[ids[m]] \in Nat \ {0}
    BY <1>2, <2>1
  <2> QED
    BY <2>1, <2>2 DEF Scored
<1>11. IsHits(lane)
  <2>1. lane \in Seq(Scored) /\ DOMAIN lane = 1..c /\ \A m \in 1..c : lane[m].id = ids[m]
    BY <1>9, <1>10
  <2> QED
    BY <1>6, <2>1 DEF IsHits
<1>12. DOMAIN lane = 1..c /\ \A m \in 1..c : lane[m].id = ids[m]
  BY <1>9
<1>13. Ids(lane) = top
  <2>1. Ids(lane) = {ids[m] : m \in 1..c}
    BY <1>12 DEF Ids
  <2>2. ToSet(ids) = {ids[m] : m \in 1..c}
    BY <1>6 DEF ToSet
  <2> QED
    BY <1>6, <2>1, <2>2
<1>14. ASSUME NEW g \in top, NEW h \in top, <<h, g>> \in order
       PROVE  Place(lane, h) < Place(lane, g)
  <2>1. PICK m, n : m = Place(lane, h) /\ n = Place(lane, g)
    OBVIOUS
  <2>2. m \in 1..c /\ n \in 1..c /\ ids[m] = h /\ ids[n] = g
    BY <1>11, <1>12, <1>13, <2>1, PlaceIs
  <2>3. Rank(h, top, order) + 1 <= Rank(g, top, order)
    BY <1>2, <1>3, <1>14, RankGrows
  <2>4. Rank(h, top, order) = m - 1 /\ Rank(g, top, order) = n - 1
    BY <1>7, <2>2
  <2> QED
    BY <2>1, <2>2, <2>3, <2>4
<1> QED
  BY <1>1, <1>8, <1>11, <1>13, <1>14

LEMMA SortedIs ==
  ASSUME NEW s, IsHits(s)
  PROVE  /\ IsHits(HighestFirst(s))
         /\ Ids(HighestFirst(s)) = Ids(s)
         /\ \A g, h \in Ids(s) : Place(HighestFirst(s), h) < Place(HighestFirst(s), g) =>
              s[Place(s, h)].sim >= s[Place(s, g)].sim
<1> DEFINE ahead == {p \in (DOMAIN s) \X (DOMAIN s) :
                       s[p[1]].sim > s[p[2]].sim \/ (s[p[1]].sim = s[p[2]].sim /\ p[1] < p[2])}
<1>1. PICK k \in Nat : k = Len(s) /\ DOMAIN s = 1..k
  BY DEF IsHits
<1>2. \A n \in 1..k : s[n].id \in Hunks /\ s[n].sim \in Nat \ {0}
  <2> SUFFICES ASSUME NEW n \in 1..k PROVE s[n].id \in Hunks /\ s[n].sim \in Nat \ {0}
    OBVIOUS
  <2>1. s[n] \in Scored
    BY <1>1 DEF IsHits
  <2> QED
    BY <2>1 DEF Scored
<1>3. IsFiniteSet(1..k) /\ Cardinality(1..k) = k
  BY FS_Interval
<1>4. \A m, n \in 1..k : <<m, n>> \in ahead <=>
        s[m].sim > s[n].sim \/ (s[m].sim = s[n].sim /\ m < n)
  BY <1>1
<1>5. IsOrder(ahead, 1..k)
  <2> HIDE DEF ahead
  <2>1. \A m \in 1..k : m \in Nat /\ s[m].sim \in Nat
    BY <1>2
  <2>2. \A m \in 1..k : <<m, m>> \notin ahead
    BY <1>4, <2>1
  <2>3. ASSUME NEW l \in 1..k, NEW m \in 1..k, NEW n \in 1..k,
               <<l, m>> \in ahead, <<m, n>> \in ahead
        PROVE  <<l, n>> \in ahead
    <3>1. PICK x, y, z : x = s[l].sim /\ y = s[m].sim /\ z = s[n].sim
      OBVIOUS
    <3>2. x \in Nat /\ y \in Nat /\ z \in Nat
      BY <2>1, <3>1
    <3>3. (x > y \/ (x = y /\ l < m)) /\ (y > z \/ (y = z /\ m < n))
      BY <1>4, <2>3, <3>1
    <3>4. x > z \/ (x = z /\ l < n)
      BY <3>2, <3>3
    <3> QED
      BY <1>4, <3>1, <3>4
  <2>4. ASSUME NEW m \in 1..k, NEW n \in 1..k
        PROVE  m = n \/ <<m, n>> \in ahead \/ <<n, m>> \in ahead
    <3>1. PICK x, y : x = s[m].sim /\ y = s[n].sim
      OBVIOUS
    <3>2. x \in Nat /\ y \in Nat /\ m \in Nat /\ n \in Nat
      BY <2>1, <3>1
    <3>3. x > y \/ y > x \/ (x = y /\ (m < n \/ n < m \/ m = n))
      BY <3>2
    <3> QED
      BY <1>4, <3>1, <3>3
  <2> QED
    BY <2>2, <2>3, <2>4 DEF IsOrder
<1>6. PICK order : order = Listed(1..k, ahead)
  OBVIOUS
<1>7. PICK t : t = HighestFirst(s)
  OBVIOUS
<1>8. t = [n \in DOMAIN order |-> s[order[n]]]
  BY <1>1, <1>6, <1>7 DEF HighestFirst
<1> HIDE DEF ahead
<1>9. /\ DOMAIN order = 1..k /\ ToSet(order) = 1..k
      /\ \A m, n \in 1..k : order[m] = order[n] => m = n
  <2>1. IsListing(order, 1..k, ahead)
    BY <1>3, <1>5, <1>6, ListedIs
  <2> QED
    BY <1>3, <2>1 DEF IsListing
<1>10. \A n \in 1..k : order[n] \in 1..k /\ Rank(order[n], 1..k, ahead) = n - 1
  BY <1>3, <1>5, <1>6, ListedAt
<1>11. DOMAIN t = 1..k /\ \A n \in 1..k : t[n] = s[order[n]] /\ t[n] \in Scored
  <2>1. \A n \in 1..k : s[n] \in Scored
    BY <1>1 DEF IsHits
  <2> QED
    BY <1>8, <1>9, <1>10, <2>1
<1>12. IsHits(t)
  <2>1. t \in [1..k -> Scored]
    BY <1>8, <1>9, <1>11
  <2>2. t \in Seq(Scored)
    BY <2>1
  <2>3. ASSUME NEW m \in 1..k, NEW n \in 1..k, t[m].id = t[n].id PROVE m = n
    <3>1. s[order[m]].id = s[order[n]].id
      BY <1>11, <2>3
    <3>2. order[m] = order[n]
      BY <1>1, <1>10, <3>1 DEF IsHits
    <3> QED
      BY <1>9, <3>2
  <2> QED
    BY <1>11, <2>2, <2>3 DEF IsHits
<1>13. Ids(t) = Ids(s)
  <2>1. Ids(t) = {s[order[n]].id : n \in 1..k}
    BY <1>11 DEF Ids
  <2>2. Ids(s) = {s[n].id : n \in 1..k}
    BY <1>1 DEF Ids
  <2>3. \A m \in 1..k : \E n \in 1..k : order[n] = m
    BY <1>9 DEF ToSet
  <2>4. Ids(t) \subseteq Ids(s)
    BY <1>10, <2>1, <2>2
  <2>5. ASSUME NEW h \in Ids(s) PROVE h \in Ids(t)
    <3>1. PICK m \in 1..k : s[m].id = h
      BY <2>2
    <3>2. PICK n \in 1..k : order[n] = m
      BY <2>3
    <3> QED
      BY <2>1, <3>1, <3>2
  <2> QED
    BY <2>4, <2>5
<1>14. ASSUME NEW g \in Ids(s), NEW h \in Ids(s), Place(t, h) < Place(t, g)
       PROVE  s[Place(s, h)].sim >= s[Place(s, g)].sim
  <2>1. PICK m, n : m = Place(t, h) /\ n = Place(t, g)
    OBVIOUS
  <2>2. m \in 1..k /\ n \in 1..k /\ t[m].id = h /\ t[n].id = g /\ m < n
    BY <1>11, <1>12, <1>13, <1>14, <2>1, PlaceIs
  <2>3. Place(s, h) = order[m] /\ Place(s, g) = order[n]
    <3>1. s[order[m]].id = h /\ s[order[n]].id = g
      BY <1>11, <2>2
    <3> QED
      BY <1>1, <1>10, <2>2, <3>1, PlaceIs
  <2>4. ~(<<order[n], order[m]>> \in ahead)
    <3>1. <<order[n], order[m]>> \in ahead =>
            Rank(order[n], 1..k, ahead) + 1 <= Rank(order[m], 1..k, ahead)
      BY <1>3, <1>5, <1>10, <2>2, RankGrows
    <3> QED
      BY <1>10, <2>2, <3>1
  <2>5. order[m] \in 1..k /\ order[n] \in 1..k
    BY <1>10, <2>2
  <2>6. ~(s[order[n]].sim > s[order[m]].sim)
    BY <1>4, <2>4, <2>5
  <2> QED
    BY <1>2, <2>3, <2>5, <2>6
<1> QED
  BY <1>7, <1>12, <1>13, <1>14

(* The cut keeps the first. *)
LEMMA FirstOfIs ==
  ASSUME NEW s, IsHits(s), NEW k \in Nat \ {0}
  PROVE  /\ IsHits(FirstOf(s, k))
         /\ Ids(FirstOf(s, k)) \subseteq Ids(s)
         /\ \A h \in Ids(FirstOf(s, k)) : Place(FirstOf(s, k), h) = Place(s, h)
         /\ \A h \in Ids(FirstOf(s, k)), g \in Ids(s) \ Ids(FirstOf(s, k)) :
              Place(s, h) < Place(s, g)
<1>1. PICK t : t = FirstOf(s, k)
  OBVIOUS
<1>2. PICK n \in Nat : n = Len(s) /\ DOMAIN s = 1..n
  BY DEF IsHits
<1>3. PICK m \in Nat : m = IF k < n THEN k ELSE n
  OBVIOUS
<1>4. m <= n /\ t = SubSeq(s, 1, m)
  BY <1>1, <1>2, <1>3 DEF FirstOf
<1>5. DOMAIN t = 1..m /\ t \in Seq(Scored) /\ \A i \in 1..m : t[i] = s[i]
  <2>1. s \in Seq(Scored)
    BY DEF IsHits
  <2> QED
    BY <1>2, <1>4, <2>1
<1>6. IsHits(t)
  BY <1>2, <1>4, <1>5 DEF IsHits
<1>7. Ids(t) = {s[i].id : i \in 1..m} /\ Ids(s) = {s[i].id : i \in 1..n}
  BY <1>2, <1>5 DEF Ids
<1>8. Ids(t) \subseteq Ids(s)
  BY <1>4, <1>7
<1>9. ASSUME NEW h \in Ids(t) PROVE Place(t, h) = Place(s, h) /\ Place(s, h) \in 1..m
  <2>1. PICK i : i = Place(t, h)
    OBVIOUS
  <2>2. i \in 1..m /\ t[i].id = h
    BY <1>5, <1>6, <2>1, PlaceIs
  <2>3. i \in DOMAIN s /\ s[i].id = h
    BY <1>2, <1>4, <1>5, <2>2
  <2>4. i = Place(s, h)
    BY <1>8, <2>3, PlaceIs
  <2> QED
    BY <2>1, <2>2, <2>4
<1>10. ASSUME NEW g \in Ids(s) \ Ids(t) PROVE Place(s, g) \in (m + 1)..n
  <2>1. PICK i : i = Place(s, g)
    OBVIOUS
  <2>2. i \in 1..n /\ s[i].id = g
    BY <1>2, <2>1, PlaceIs
  <2>3. i \notin 1..m
    BY <1>7, <2>2
  <2> QED
    BY <2>1, <2>2, <2>3
<1> QED
  BY <1>1, <1>6, <1>8, <1>9, <1>10

----------------------------------------------------------------------------
(* Retrieval: the fusion. *)

LEMMA FiveLanes == DOMAIN Lanes = 1..5
BY DEF Lanes

LEMMA DivideMore ==
  ASSUME NEW a \in Nat, NEW p \in Nat \ {0}, NEW q \in Nat, p < q
  PROVE  a \div q \in Nat /\ a \div p \in Nat /\ a \div q <= a \div p
<1>1. PICK x \in Nat, y \in Nat : x = a \div q /\ y = a \div p
  OBVIOUS
<1>2. x * q <= a /\ a < (y + 1) * p
  BY <1>1
<1>3. SUFFICES ASSUME x >= y + 1 PROVE FALSE
  BY <1>1
<1>4. x * q >= (y + 1) * q
  BY <1>3
<1>5. (y + 1) * q >= (y + 1) * p
  OBVIOUS
<1>6. x * q \in Nat /\ (y + 1) * q \in Nat /\ (y + 1) * p \in Nat
  OBVIOUS
<1> QED
  BY <1>2, <1>4, <1>5, <1>6

(* Every lane has answered. *)
AllFound == \A l \in 1..5 : IsHits(found[l])

LEMMA FoundIs ==
  ASSUME AllFound
  PROVE  /\ Found \subseteq Hunks /\ IsFiniteSet(Found)
         /\ \A h : h \in Found <=> \E l \in 1..5 : Has(l, h)
         /\ \A l \in 1..5 : \A h : Has(l, h) =>
              /\ Place(found[l], h) \in Nat \ {0}
              /\ found[l][Place(found[l], h)].id = h
              /\ found[l][Place(found[l], h)].sim \in Nat \ {0}
<1>1. \A h : h \in Found <=> \E l \in 1..5 : Has(l, h)
  BY FiveLanes DEF Found, Has
<1>2. ASSUME NEW l \in 1..5, NEW h, Has(l, h)
      PROVE  /\ Place(found[l], h) \in Nat \ {0} /\ h \in Hunks
             /\ found[l][Place(found[l], h)].id = h
             /\ found[l][Place(found[l], h)].sim \in Nat \ {0}
  BY <1>2, PlaceIs DEF AllFound, Has
<1>3. Found \subseteq Hunks
  BY <1>1, <1>2
<1> QED
  BY <1>1, <1>2, <1>3, RetrievalAssumption, FS_Subset

LEMMA FirstLaneIs ==
  ASSUME NEW h, \E l \in 1..5 : Has(l, h)
  PROVE  /\ FirstLane(h) \in 1..5 /\ Has(FirstLane(h), h)
         /\ \A l \in 1..5 : Has(l, h) => FirstLane(h) <= l
<1>1. \E l \in 1..5 : Has(l, h) /\ \A m \in 1..l - 1 : ~Has(m, h)
  <2>1. CASE Has(1, h)
    BY <2>1
  <2>2. CASE ~Has(1, h) /\ Has(2, h)
    BY <2>2
  <2>3. CASE ~Has(1, h) /\ ~Has(2, h) /\ Has(3, h)
    BY <2>3
  <2>4. CASE ~Has(1, h) /\ ~Has(2, h) /\ ~Has(3, h) /\ Has(4, h)
    BY <2>4
  <2>5. CASE ~Has(1, h) /\ ~Has(2, h) /\ ~Has(3, h) /\ ~Has(4, h)
    BY <2>5
  <2> QED
    BY <2>1, <2>2, <2>3, <2>4, <2>5
<1>2. PICK f : f = FirstLane(h)
  OBVIOUS
<1>3. f \in 1..5 /\ Has(f, h) /\ \A m \in 1..f - 1 : ~Has(m, h)
  BY <1>1, <1>2, FiveLanes DEF FirstLane
<1>4. ASSUME NEW l \in 1..5, Has(l, h) PROVE f <= l
  BY <1>3, <1>4
<1> QED
  BY <1>2, <1>3, <1>4

LEMMA TermsAre ==
  ASSUME AllFound, NEW l \in 1..5, NEW h
  PROVE  RrfTerm(l, h) \in Nat
<1>1. CASE ~Has(l, h)
  BY <1>1 DEF RrfTerm
<1>2. CASE Has(l, h)
  <2>1. PICK p : p = RrfK + Place(found[l], h)
    OBVIOUS
  <2>2. p \in Nat \ {0}
    BY <1>2, <2>1, FoundIs, RetrievalAssumption
  <2>3. RrfUnit \div p \in Nat
    BY <2>2, RetrievalAssumption
  <2> QED
    BY <1>2, <2>1, <2>3 DEF RrfTerm
<1> QED
  BY <1>1, <1>2

LEMMA ScoresAre ==
  ASSUME AllFound, NEW h
  PROVE  RrfScore(h) \in Nat
BY TermsAre DEF RrfScore

(* The fusion's order is a total one. *)
LEMMA FusedIsOrder ==
  ASSUME AllFound
  PROVE  IsOrder(Fused, Found)
<1>1. ASSUME NEW h \in Found
      PROVE  /\ RrfScore(h) \in Nat /\ FirstLane(h) \in 1..5
             /\ Place(found[FirstLane(h)], h) \in Nat
             /\ found[FirstLane(h)][Place(found[FirstLane(h)], h)].id = h
  BY ScoresAre, FoundIs, FirstLaneIs
<1>2. \A g, h \in Found : <<h, g>> \in Fused <=>
        RrfScore(h) > RrfScore(g) \/ (RrfScore(h) = RrfScore(g) /\ SeenBefore(h, g))
  BY DEF Fused
<1>3. \A h \in Found : <<h, h>> \notin Fused
  BY <1>1, <1>2 DEF SeenBefore
<1>4. ASSUME NEW f \in Found, NEW g \in Found, NEW h \in Found,
             <<f, g>> \in Fused, <<g, h>> \in Fused
      PROVE  <<f, h>> \in Fused
  <2>1. SeenBefore(f, g) /\ SeenBefore(g, h) => SeenBefore(f, h)
    BY <1>1 DEF SeenBefore
  <2> QED
    BY <1>1, <1>2, <1>4, <2>1
<1>5. ASSUME NEW g \in Found, NEW h \in Found, g # h
      PROVE  <<g, h>> \in Fused \/ <<h, g>> \in Fused
  <2>1. SeenBefore(g, h) \/ SeenBefore(h, g)
    BY <1>1, <1>5 DEF SeenBefore
  <2> QED
    BY <1>1, <1>2, <2>1
<1> QED
  BY <1>3, <1>4, <1>5 DEF IsOrder

(* Who is behind in every lane is behind in the fusion. *)
LEMMA OutranksFused ==
  ASSUME AllFound, NEW g \in Found, NEW h \in Found, Outranks(h, g)
  PROVE  <<h, g>> \in Fused
<1>1. \A l \in 1..5 : Has(l, g) => Has(l, h) /\ Place(found[l], h) < Place(found[l], g)
  BY FiveLanes DEF Outranks
<1>2. ASSUME NEW l \in 1..5 PROVE RrfTerm(l, g) <= RrfTerm(l, h)
  <2>1. CASE ~Has(l, g)
    BY <2>1, TermsAre DEF RrfTerm
  <2>2. CASE Has(l, g)
    <3>1. PICK p, q : p = RrfK + Place(found[l], h) /\ q = RrfK + Place(found[l], g)
      OBVIOUS
    <3>2. p \in Nat \ {0} /\ q \in Nat /\ p < q /\ Has(l, h)
      BY <1>1, <2>2, <3>1, FoundIs, RetrievalAssumption
    <3>3. RrfUnit \div q <= RrfUnit \div p
      BY <3>2, DivideMore, RetrievalAssumption
    <3> QED
      BY <2>2, <3>1, <3>2, <3>3 DEF RrfTerm
  <2> QED
    BY <2>1, <2>2
<1>3. RrfScore(g) <= RrfScore(h)
  BY <1>2, TermsAre DEF RrfScore
<1>4. SeenBefore(h, g)
  <2>1. FirstLane(g) \in 1..5 /\ Has(FirstLane(g), g)
    BY FoundIs, FirstLaneIs
  <2>2. /\ Has(FirstLane(g), h)
        /\ Place(found[FirstLane(g)], h) < Place(found[FirstLane(g)], g)
    BY <1>1, <2>1
  <2>3. FirstLane(h) \in 1..5 /\ FirstLane(h) <= FirstLane(g)
    BY <2>1, <2>2, FirstLaneIs
  <2> QED
    BY <2>1, <2>2, <2>3 DEF SeenBefore
<1>5. RrfScore(g) \in Nat /\ RrfScore(h) \in Nat
  BY ScoresAre
<1> QED
  BY <1>3, <1>4, <1>5 DEF Fused

----------------------------------------------------------------------------
(* Retrieval: the lanes and the pool. *)

(* What has been found, pooled and scored are lists of hits, each hunk once;
   nothing is answered before the end. *)
ListsInv ==
  /\ query \in Queries
  /\ DOMAIN found = 1..5
  /\ \A l \in 1..5 : found[l] = Pending \/ IsHits(found[l])
  /\ IsHits(pool) /\ IsHits(scored)
  /\ stage \in {"lanes", "fused", "scored"} => hits = <<>>

LEMMA EmptyIsHits == IsHits(<<>>) /\ Ids(<<>>) = {}
BY DEF IsHits, Ids

LEMMA StrengthOrders ==
  ASSUME NEW strength \in Matches, NEW S \in SUBSET Hunks
  PROVE  IsOrder(Stronger(strength), S)
<1>1. \A h \in S : h \in Nat /\ strength[h] \in Nat /\ h \in Hunks
  BY RetrievalAssumption DEF Strengths
<1> QED
  BY <1>1 DEF IsOrder, Stronger

LEMMA WantedIs ==
  ASSUME NEW S \in SUBSET Hunks
  PROVE  Wanted(S) \in SUBSET Hunks
BY DEF Wanted

LEMMA KnnIsHits ==
  ASSUME NEW strength \in Matches
  PROVE  IsHits(KnnLane(strength))
<1> DEFINE sim == [h \in Hunks |-> Unit \div (1 + 2 - strength[h])]
<1>1. sim \in [Hunks -> Nat \ {0}]
  <2>1. \A h \in Hunks : strength[h] \in {0, 1, 2}
    BY RetrievalAssumption DEF Strengths
  <2>2. Unit \div (1 + 2 - 0) = 20 /\ Unit \div (1 + 2 - 1) = 30 /\ Unit \div (1 + 2 - 2) = 60
    BY DEF Unit
  <2>3. \A h \in Hunks : Unit \div (1 + 2 - strength[h]) \in Nat \ {0}
    BY <2>1, <2>2
  <2> QED
    BY <2>3
<1>2. PICK S : S = Wanted(Limited(Hunks, Stronger(strength), LaneK))
  OBVIOUS
<1>3. S \in SUBSET Hunks
  BY <1>2, WantedIs DEF Limited
<1>4. LaneK \in Nat
  BY RetrievalAssumption
<1> HIDE DEF sim
<1>5. IsHits(Lane(S, Stronger(strength), LaneK, sim))
  BY <1>1, <1>3, <1>4, StrengthOrders, LaneIs
<1> QED
  BY <1>2, <1>5 DEF KnnLane, sim

LEMMA Bm25IsHits ==
  ASSUME NEW strength \in Matches
  PROVE  IsHits(Bm25Lane(strength))
<1> DEFINE sim == [h \in Hunks |-> Unit \div (1 + strength[h])]
<1>1. sim \in [Hunks -> Nat \ {0}]
  <2>1. \A h \in Hunks : strength[h] \in {0, 1, 2}
    BY RetrievalAssumption DEF Strengths
  <2>2. Unit \div (1 + 0) = 60 /\ Unit \div (1 + 1) = 30 /\ Unit \div (1 + 2) = 20
    BY DEF Unit
  <2>3. \A h \in Hunks : Unit \div (1 + strength[h]) \in Nat \ {0}
    BY <2>1, <2>2
  <2> QED
    BY <2>3
<1>2. PICK S : S = Wanted({h \in Hunks : strength[h] > 0})
  OBVIOUS
<1>3. S \in SUBSET Hunks
  BY <1>2, WantedIs
<1>4. LaneK \in Nat
  BY RetrievalAssumption
<1> HIDE DEF sim
<1>5. IsHits(Lane(S, Stronger(strength), LaneK, sim))
  BY <1>1, <1>3, <1>4, StrengthOrders, LaneIs
<1> QED
  BY <1>2, <1>5 DEF Bm25Lane, sim

LEMMA AttributionIsHits ==
  ASSUME NEW strength \in Matches, NEW n \in Nat
  PROVE  IsHits(AttributionLane(strength, n))
<1> DEFINE sim == [h \in Hunks |-> IF strength[h] = 2 THEN Unit ELSE (6 * Unit) \div 10]
           ahead == {p \in Hunks \X Hunks :
                       \/ strength[p[1]] > strength[p[2]]
                       \/ strength[p[1]] = strength[p[2]] /\ Age[p[1]] < Age[p[2]]
                       \/ strength[p[1]] = strength[p[2]] /\ Age[p[1]] = Age[p[2]] /\ p[1] < p[2]}
<1>1. sim \in [Hunks -> Nat \ {0}]
  BY DEF Unit
<1>2. PICK S : S = Wanted({h \in Hunks : strength[h] > 0})
  OBVIOUS
<1>3. S \in SUBSET Hunks
  BY <1>2, WantedIs
<1>4. IsOrder(ahead, S)
  <2>1. \A h \in S : h \in Nat /\ strength[h] \in Nat /\ Age[h] \in Nat /\ h \in Hunks
    BY <1>3, RetrievalAssumption DEF Strengths
  <2> QED
    BY <2>1 DEF IsOrder
<1> HIDE DEF sim, ahead
<1>5. IsHits(Lane(S, ahead, n, sim))
  BY <1>1, <1>3, <1>4, LaneIs
<1> QED
  BY <1>2, <1>5 DEF AttributionLane, sim, ahead

AnyLane == VecLane \/ Bm25TextLane \/ Bm25SemTextLane \/ Bm25HistSymLane \/ Bm25HeadSymLane

(* Whichever lane it is, what it has gathered is hits. *)
LEMMA AnyLaneIs ==
  ASSUME AnyLane
  PROVE  \E l \in 1..5 : \E ranking : Gather(l, ranking) /\ IsHits(ranking)
<1>1. LaneK \in Nat
  BY RetrievalAssumption
<1>2. ASSUME NEW l \in 1..5, NEW strength \in Matches, Gather(l, Bm25Lane(strength))
      PROVE  \E ranking : Gather(l, ranking) /\ IsHits(ranking)
  BY <1>2, Bm25IsHits
<1>3. CASE VecLane
  <2>1. PICK strength \in Matches : Gather(1, KnnLane(strength))
    BY <1>3 DEF VecLane
  <2> QED
    BY <2>1, KnnIsHits
<1>4. CASE Bm25HistSymLane
  <2>1. PICK strength \in Matches, n \in 1..LaneK : Gather(4, AttributionLane(strength, n))
    BY <1>4 DEF Bm25HistSymLane
  <2>2. n \in Nat
    BY <1>1
  <2> QED
    BY <2>1, <2>2, AttributionIsHits
<1>5. CASE Bm25TextLane
  BY <1>2, <1>5 DEF Bm25TextLane
<1>6. CASE Bm25SemTextLane
  BY <1>2, <1>6 DEF Bm25SemTextLane
<1>7. CASE Bm25HeadSymLane
  BY <1>2, <1>7 DEF Bm25HeadSymLane
<1> QED
  BY <1>3, <1>4, <1>5, <1>6, <1>7 DEF AnyLane

LEMMA LaneKeeps ==
  ASSUME ListsInv, AnyLane
  PROVE  ListsInv' /\ stage' = "lanes"
<1>0. PICK l \in 1..5 : \E ranking : Gather(l, ranking) /\ IsHits(ranking)
  BY AnyLaneIs
<1>1. PICK ranking : Gather(l, ranking) /\ IsHits(ranking)
  BY <1>0
<1>2. PICK lane : found' = [found EXCEPT ![l] = lane] /\ IsHits(lane)
  BY <1>1, EmptyIsHits DEF Gather
<1>3. DOMAIN found' = 1..5 /\ \A m \in 1..5 : found'[m] = IF m = l THEN lane ELSE found[m]
  BY <1>2 DEF ListsInv
<1>4. UNCHANGED <<query, stage, pool, scored, hits>> /\ stage = "lanes"
  BY <1>1 DEF Gather
<1> QED
  BY <1>2, <1>3, <1>4 DEF ListsInv

LEMMA FuseKeeps ==
  ASSUME ListsInv, Fuse
  PROVE  ListsInv' /\ FusionIsFair'
<1>1. AllFound
  BY FiveLanes DEF ListsInv, Fuse, AllFound
<1>2. PICK sim :
        sim = [h \in Found |-> found[FirstLane(h)][Place(found[FirstLane(h)], h)].sim]
  OBVIOUS
<1>3. sim \in [Found -> Nat \ {0}]
  <2>1. \A h \in Found :
          found[FirstLane(h)][Place(found[FirstLane(h)], h)].sim \in Nat \ {0}
    BY <1>1, FoundIs, FirstLaneIs
  <2> QED
    BY <1>2, <2>1
<1>4. PICK k \in Nat : k = RerankTopK
  BY RetrievalAssumption DEF RerankTopK
<1>5. Found \subseteq Hunks /\ IsFiniteSet(Found) /\ IsOrder(Fused, Found)
  BY <1>1, FoundIs, FusedIsOrder
<1>6. PICK top : top = Lane(Found, Fused, k, sim)
  OBVIOUS
<1>7. /\ IsHits(top) /\ Ids(top) = Limited(Found, Fused, k)
      /\ \A g, h \in Limited(Found, Fused, k) : <<h, g>> \in Fused =>
           Place(top, h) < Place(top, g)
  BY <1>3, <1>5, <1>6, LaneIs
<1>8. pool' = top /\ UNCHANGED <<query, found, scored, hits>>
  BY <1>2, <1>4, <1>6 DEF Fuse
<1>9. ListsInv'
  <2>1. stage = "lanes"
    BY DEF Fuse
  <2> QED
    BY <1>7, <1>8, <2>1 DEF ListsInv
<1>10. ASSUME NEW g \in Ids(top), NEW h \in Found, Outranks(h, g)
       PROVE  h \in Ids(top) /\ Place(top, h) < Place(top, g)
  <2>1. g \in Found /\ Rank(g, Found, Fused) < k
    BY <1>7 DEF Limited
  <2>2. <<h, g>> \in Fused
    BY <1>1, <1>10, <2>1, OutranksFused
  <2>3. Rank(h, Found, Fused) + 1 <= Rank(g, Found, Fused)
    BY <1>5, <2>1, <2>2, RankGrows
  <2>4. Rank(h, Found, Fused) \in Nat /\ Rank(g, Found, Fused) \in Nat
    BY <1>5, RankMonotone
  <2>5. h \in Limited(Found, Fused, k)
    BY <2>1, <2>3, <2>4 DEF Limited
  <2> QED
    BY <1>7, <1>10, <2>2, <2>5
<1>11. FusionIsFair'
  <2>1. Found' = Found /\ \A g, h : Outranks(h, g)' => Outranks(h, g)
    BY <1>8 DEF Outranks, Found, Has
  <2> QED
    BY <1>8, <1>10, <2>1 DEF FusionIsFair
<1> QED
  BY <1>9, <1>11

(* The same hits with other scores. *)
LEMMA RescoredIs ==
  ASSUME NEW s, IsHits(s), NEW v \in [DOMAIN s -> Nat \ {0}],
         NEW t, t = [n \in DOMAIN s |-> [s[n] EXCEPT !.sim = v[n]]]
  PROVE  /\ IsHits(t) /\ Ids(t) = Ids(s)
         /\ \A h \in Ids(s) : Place(t, h) = Place(s, h) /\ t[Place(s, h)].sim = v[Place(s, h)]
<1>1. PICK k \in Nat : k = Len(s) /\ DOMAIN s = 1..k
  BY DEF IsHits
<1>2. \A n \in 1..k : s[n] \in Scored
  BY <1>1 DEF IsHits
<1>3. \A n \in 1..k : t[n] \in Scored /\ t[n].id = s[n].id /\ t[n].sim = v[n]
  <2> SUFFICES ASSUME NEW n \in 1..k
               PROVE  t[n] \in Scored /\ t[n].id = s[n].id /\ t[n].sim = v[n]
    OBVIOUS
  <2>1. s[n] \in Scored /\ v[n] \in Nat \ {0}
    BY <1>1, <1>2
  <2>2. t[n] = [s[n] EXCEPT !.sim = v[n]]
    BY <1>1
  <2> QED
    BY <2>1, <2>2 DEF Scored
<1>4. DOMAIN t = 1..k /\ t \in Seq(Scored)
  <2>1. t \in [1..k -> Scored]
    BY <1>1, <1>3
  <2> QED
    BY <2>1
<1>5. IsHits(t)
  BY <1>1, <1>3, <1>4 DEF IsHits
<1>6. Ids(t) = Ids(s)
  <2>1. Ids(t) = {t[n].id : n \in 1..k} /\ Ids(s) = {s[n].id : n \in 1..k}
    BY <1>1, <1>4 DEF Ids
  <2>2. \A n \in 1..k : t[n].id = s[n].id
    BY <1>3
  <2>3. Ids(t) \subseteq Ids(s)
    BY <2>1, <2>2
  <2>4. Ids(s) \subseteq Ids(t)
    BY <2>1, <2>2
  <2> QED
    BY <2>3, <2>4
<1>7. ASSUME NEW h \in Ids(s)
      PROVE  Place(t, h) = Place(s, h) /\ t[Place(s, h)].sim = v[Place(s, h)]
  <2>1. PICK n \in 1..k : n = Place(s, h) /\ s[n].id = h
    BY <1>1, PlaceIs
  <2>2. t[n].id = h /\ n \in DOMAIN t /\ h \in Ids(t)
    BY <1>3, <1>4, <1>6, <2>1
  <2>3. n = Place(t, h)
    BY <1>5, <2>2, PlaceIs
  <2> QED
    BY <1>3, <2>1, <2>3
<1> QED
  BY <1>5, <1>6, <1>7

LEMMA SigmoidIs ==
  ASSUME NEW x \in Logits
  PROVE  Sigmoid(x) \in Nat \ {0}
<1>1. x \in Int /\ Sigmoid(x) > 0
  BY RetrievalAssumption, LogitsAssumption
<1>2. CASE x >= 0
  <2>1. PICK a, b : a = 60 * (1 + 2 * x) /\ b = 2 + 2 * x
    OBVIOUS
  <2>2. a \in Int /\ b \in Nat \ {0} /\ Sigmoid(x) = a \div b
    BY <1>1, <1>2, <2>1 DEF Sigmoid, Unit
  <2> QED
    BY <1>1, <2>2
<1>3. CASE ~(x >= 0)
  <2>1. PICK b : b = 2 - 2 * x
    OBVIOUS
  <2>2. b \in Nat \ {0} /\ Sigmoid(x) = 60 \div b
    BY <1>1, <1>3, <2>1 DEF Sigmoid, Unit
  <2> QED
    BY <1>1, <2>2
<1> QED
  BY <1>2, <1>3

LEMMA CrossEncodeKeeps ==
  ASSUME ListsInv, CrossEncode
  PROVE  IsHits(scored')
<1>1. PICK logit \in [DOMAIN pool -> Logits] :
        scored' = HighestFirst([n \in DOMAIN pool |-> [pool[n] EXCEPT !.sim = Sigmoid(logit[n])]])
  BY DEF CrossEncode
<1>2. PICK v : v = [n \in DOMAIN pool |-> Sigmoid(logit[n])]
  OBVIOUS
<1>3. v \in [DOMAIN pool -> Nat \ {0}]
  BY <1>2, SigmoidIs
<1>4. PICK t : t = [n \in DOMAIN pool |-> [pool[n] EXCEPT !.sim = v[n]]]
  OBVIOUS
<1>5. t = [n \in DOMAIN pool |-> [pool[n] EXCEPT !.sim = Sigmoid(logit[n])]]
  BY <1>2, <1>4
<1>6. IsHits(t)
  BY <1>3, <1>4, RescoredIs DEF ListsInv
<1>7. scored' = HighestFirst(t)
  BY <1>1, <1>5
<1> QED
  BY <1>6, <1>7, SortedIs

----------------------------------------------------------------------------
(* Retrieval: recency. *)

LEMMA MilleIs == Mille \in Nat \ {0} /\ Mille * Mille \in Nat \ {0}
<1>1. Mille \in Nat \ {0}
  BY DEF Mille
<1> HIDE DEF Mille
<1> QED
  BY <1>1

LEMMA Nudged ==
  ASSUME NEW rh \in Nat \ {0}, NEW rg \in Nat \ {0}, NEW bh \in Nat, NEW bg \in Nat, NEW w \in Nat,
         NEW u \in Nat \ {0}, bg >= u * u, bh <= u * u + u * w, rh * bh >= rg * bg
  PROVE  /\ bh < bg => rh > rg
         /\ u * rg <= (u + w) * rh
<1>1. ASSUME bh < bg, rh <= rg PROVE FALSE
  <2>1. rh * bh <= rg * bh
    BY <1>1
  <2>2. rg * bh < rg * bg
    BY <1>1
  <2>3. rg * bh \in Nat /\ rh * bh \in Nat /\ rg * bg \in Nat
    OBVIOUS
  <2> QED
    BY <2>1, <2>2, <2>3
<1>2. u * rg <= (u + w) * rh
  <2>1. rg * u * u <= rg * bg
    OBVIOUS
  <2>2. rh * bh <= rh * (u * u + u * w)
    OBVIOUS
  <2>3. rh * (u * u + u * w) = u * ((u + w) * rh)
    OBVIOUS
  <2>4. rg * bg \in Nat /\ rh * bh \in Nat /\ (u + w) * rh \in Nat
    OBVIOUS
  <2>5. u * (u * rg) <= u * ((u + w) * rh)
    BY <2>1, <2>2, <2>3, <2>4
  <2> QED
    BY <2>4, <2>5
<1> QED
  BY <1>1, <1>2

LEMMA BoostIs ==
  ASSUME query \in Queries
  PROVE  /\ RecencyWeight \in Nat \ {0} /\ FinalK \in Nat \ {0}
         /\ \A h \in Hunks :
              Boost(h) \in Nat /\ Boost(h) >= Mille * Mille /\ Boost(h) <= Mille * Mille + Mille * RecencyWeight
         /\ \A g, h \in Hunks : Age[h] > Age[g] => Boost(h) < Boost(g)
<1>1. PICK w : w = RecencyWeight
  OBVIOUS
<1>2. w \in Nat \ {0}
  BY <1>1, RetrievalAssumption DEF RecencyWeight
<1>3. FinalK \in Nat \ {0}
  BY RetrievalAssumption DEF FinalK
<1>4. ASSUME NEW h \in Hunks
      PROVE  Boost(h) \in Nat /\ Boost(h) >= Mille * Mille /\ Boost(h) <= Mille * Mille + Mille * w
  <2>1. PICK r \in 0..Mille : r = Recency[h]
    BY RetrievalAssumption
  <2>2. w * r \in Nat /\ w * r <= Mille * w /\ Mille * w = w * Mille
    BY <1>2, MilleIs
  <2>3. PICK m, x, y : m = Mille * Mille /\ x = w * r /\ y = Mille * w
    OBVIOUS
  <2>4. m \in Nat /\ x \in Nat /\ y \in Nat /\ x <= y
    BY <1>2, <2>2, <2>3, MilleIs
  <2>5. Boost(h) = m + x
    BY <1>1, <2>1, <2>3 DEF Boost
  <2>6. Boost(h) \in Nat /\ Boost(h) >= m /\ Boost(h) <= m + y
    BY <2>4, <2>5
  <2> QED
    BY <2>3, <2>6
<1>5. ASSUME NEW g \in Hunks, NEW h \in Hunks, Age[h] > Age[g]
      PROVE  Boost(h) < Boost(g)
  <2>1. PICK q \in 0..Mille, r \in 0..Mille : q = Recency[g] /\ r = Recency[h]
    BY RetrievalAssumption
  <2>2. r < q
    <3>1. Age[g] \in Nat /\ Age[h] \in Nat
      BY RetrievalAssumption
    <3>2. Age[g] < Age[h]
      BY <1>5, <3>1
    <3> QED
      BY <2>1, <3>2, RetrievalAssumption
  <2>3. w * r < w * q /\ w * r \in Nat /\ w * q \in Nat
    BY <1>2, <2>2
  <2>4. Boost(h) = Mille * Mille + w * r /\ Boost(g) = Mille * Mille + w * q
    BY <1>1, <2>1 DEF Boost
  <2> QED
    BY <2>3, <2>4, MilleIs
<1> QED
  BY <1>1, <1>2, <1>3, <1>4, <1>5

LEMMA FinishNudges ==
  ASSUME ListsInv, Finish
  PROVE  RecencyOnlyNudges'
<1>1. PICK v : v = [n \in DOMAIN scored |-> scored[n].sim * Boost(scored[n].id)]
  OBVIOUS
<1>2. IsHits(scored) /\ query \in Queries
  BY DEF ListsInv
<1>3. v \in [DOMAIN scored -> Nat \ {0}]
  <2>1. ASSUME NEW n \in DOMAIN scored PROVE scored[n].sim * Boost(scored[n].id) \in Nat \ {0}
    <3>1. scored[n] \in Scored
      BY <1>2 DEF IsHits
    <3>2. PICK a, b : a = scored[n].sim /\ b = Boost(scored[n].id)
      OBVIOUS
    <3>3. a \in Nat \ {0} /\ b \in Nat \ {0}
      BY <1>2, <3>1, <3>2, BoostIs, MilleIs DEF Scored
    <3>4. a * b \in Nat \ {0}
      BY <3>3
    <3> QED
      BY <3>2, <3>4
  <2> QED
    BY <1>1, <2>1
<1>4. PICK t : t = [n \in DOMAIN scored |-> Combined(scored[n])]
  OBVIOUS
<1>5. t = [n \in DOMAIN scored |-> [scored[n] EXCEPT !.sim = v[n]]]
  BY <1>1, <1>4 DEF Combined
<1>6. /\ IsHits(t) /\ Ids(t) = Ids(scored)
      /\ \A h \in Ids(scored) :
           Place(t, h) = Place(scored, h) /\ t[Place(scored, h)].sim = v[Place(scored, h)]
  BY <1>2, <1>3, <1>5, RescoredIs
<1>7. PICK u : u = HighestFirst(t)
  OBVIOUS
<1>8. /\ IsHits(u) /\ Ids(u) = Ids(t)
      /\ \A g, h \in Ids(t) : Place(u, h) < Place(u, g) =>
           t[Place(t, h)].sim >= t[Place(t, g)].sim
  BY <1>6, <1>7, SortedIs
<1>9. PICK k \in Nat \ {0} : k = FinalK
  BY <1>2, BoostIs
<1>10. PICK best : best = FirstOf(u, k)
  OBVIOUS
<1>11. /\ Ids(best) \subseteq Ids(u)
       /\ \A h \in Ids(best) : Place(best, h) = Place(u, h)
       /\ \A h \in Ids(best), g \in Ids(u) \ Ids(best) : Place(u, h) < Place(u, g)
  BY <1>8, <1>10, FirstOfIs
<1>12. hits' = best /\ UNCHANGED <<query, scored>>
  BY <1>4, <1>7, <1>9, <1>10 DEF Finish
<1>13. ASSUME NEW h \in Ids(best), NEW g \in Ids(scored),
              g \in Ids(best) => Place(best, h) < Place(best, g)
       PROVE  /\ Age[h] > Age[g] => Relevance(h) > Relevance(g)
              /\ Mille * Relevance(g) <= (Mille + RecencyWeight) * Relevance(h)
  <2>1. h \in Ids(scored) /\ Place(u, h) < Place(u, g)
    BY <1>6, <1>8, <1>11, <1>13
  <2>2. v[Place(scored, h)] >= v[Place(scored, g)]
    BY <1>6, <1>8, <2>1
  <2>3. PICK m, n : m = Place(scored, h) /\ n = Place(scored, g)
    OBVIOUS
  <2>4. /\ m \in DOMAIN scored /\ scored[m].id = h /\ scored[m].sim \in Nat \ {0}
        /\ n \in DOMAIN scored /\ scored[n].id = g /\ scored[n].sim \in Nat \ {0}
        /\ g \in Hunks /\ h \in Hunks
    BY <1>2, <2>1, <2>3, PlaceIs
  <2>5. PICK rh, rg, bh, bg, w :
          rh = Relevance(h) /\ rg = Relevance(g) /\ bh = Boost(h) /\ bg = Boost(g)
            /\ w = RecencyWeight
    OBVIOUS
  <2>6. rh = scored[m].sim /\ rg = scored[n].sim
    BY <2>3, <2>5 DEF Relevance
  <2>7. v[m] = rh * bh /\ v[n] = rg * bg
    BY <1>1, <2>4, <2>5, <2>6
  <2>8. /\ rh \in Nat \ {0} /\ rg \in Nat \ {0} /\ rh * bh >= rg * bg
    BY <2>2, <2>3, <2>4, <2>6, <2>7
  <2>9. /\ bh \in Nat /\ bg \in Nat /\ w \in Nat /\ bg >= Mille * Mille /\ bh <= Mille * Mille + Mille * w
        /\ Age[h] > Age[g] => bh < bg
    BY <1>2, <2>4, <2>5, BoostIs
  <2>10. /\ bh < bg => rh > rg
         /\ Mille * rg <= (Mille + w) * rh
    BY <2>8, <2>9, MilleIs, Nudged
  <2> QED
    BY <2>5, <2>9, <2>10
<1>14. \A h : Relevance(h)' = Relevance(h)
  BY <1>12 DEF Relevance
<1>15. RecencyWeight' = RecencyWeight
  BY <1>12 DEF RecencyWeight, Intent
<1>16. \A g, h : Before(h, g)' <=>
         /\ h \in Ids(best) /\ g \in Ids(scored) /\ g # h
         /\ g \in Ids(best) => Place(best, h) < Place(best, g)
  BY <1>12 DEF Before
<1> QED
  BY <1>12, <1>13, <1>14, <1>15, <1>16 DEF RecencyOnlyNudges

----------------------------------------------------------------------------
(* Retrieval: the theorems. *)

RetrievalInv == ListsInv /\ FusionIsFair /\ RecencyOnlyNudges

LEMMA RetrievalInvInit == Init => RetrievalInv
<1> SUFFICES ASSUME Init PROVE RetrievalInv
  OBVIOUS
<1>1. ListsInv
  BY FiveLanes, EmptyIsHits DEF Init, ListsInv
<1>2. FusionIsFair /\ RecencyOnlyNudges
  BY DEF Init, FusionIsFair, RecencyOnlyNudges
<1> QED
  BY <1>1, <1>2 DEF RetrievalInv

(* Without an answer nothing is ahead of anything. *)
LEMMA NothingAnswered ==
  ASSUME hits = <<>>
  PROVE  RecencyOnlyNudges
BY EmptyIsHits DEF RecencyOnlyNudges

(* A step after the fusion keeps the pool. *)
LEMMA PoolStays ==
  ASSUME FusionIsFair, stage \in {"fused", "scored"}, UNCHANGED <<found, pool>>
  PROVE  FusionIsFair'
<1>1. Found' = Found /\ \A g, h : Outranks(h, g)' => Outranks(h, g)
  BY DEF Outranks, Found, Has
<1> QED
  BY <1>1 DEF FusionIsFair

LEMMA RetrievalInvStep == RetrievalInv /\ [Next]_vars => RetrievalInv'
<1> SUFFICES ASSUME RetrievalInv, [Next]_vars PROVE RetrievalInv'
  OBVIOUS
<1>1. ListsInv /\ FusionIsFair /\ RecencyOnlyNudges
  BY DEF RetrievalInv
<1>2. CASE AnyLane
  <2>1. ListsInv' /\ stage' = "lanes"
    BY <1>1, <1>2, LaneKeeps
  <2> QED
    BY <2>1 DEF RetrievalInv, FusionIsFair, RecencyOnlyNudges
<1>3. CASE Fuse
  <2>1. ListsInv' /\ FusionIsFair'
    BY <1>1, <1>3, FuseKeeps
  <2>2. hits' = <<>>
    BY <1>1, <1>3 DEF Fuse, ListsInv
  <2>3. RecencyOnlyNudges'
    BY <2>2, EmptyIsHits DEF RecencyOnlyNudges, Before
  <2> QED
    BY <2>1, <2>3 DEF RetrievalInv
<1>4. CASE CrossEncode
  <2>1. stage = "fused" /\ stage' = "scored" /\ UNCHANGED <<query, found, pool, hits>>
    BY <1>4 DEF CrossEncode
  <2>2. IsHits(scored')
    BY <1>1, <1>4, CrossEncodeKeeps
  <2>3. ListsInv'
    BY <1>1, <2>1, <2>2 DEF ListsInv
  <2>4. FusionIsFair'
    BY <1>1, <2>1, PoolStays
  <2> QED
    BY <2>1, <2>3, <2>4 DEF RetrievalInv, RecencyOnlyNudges
<1>5. CASE NoRerank
  <2>1. /\ stage = "fused" /\ stage' = "scored" /\ scored' = pool
        /\ UNCHANGED <<query, found, pool, hits>>
    BY <1>5 DEF NoRerank
  <2>2. ListsInv'
    BY <1>1, <2>1 DEF ListsInv
  <2>3. FusionIsFair'
    BY <1>1, <2>1, PoolStays
  <2> QED
    BY <2>1, <2>2, <2>3 DEF RetrievalInv, RecencyOnlyNudges
<1>6. CASE Finish
  <2>1. stage = "scored" /\ stage' = "done" /\ UNCHANGED <<query, found, pool, scored>>
    BY <1>6 DEF Finish
  <2>2. ListsInv'
    BY <1>1, <2>1 DEF ListsInv
  <2>3. FusionIsFair'
    BY <2>1 DEF FusionIsFair
  <2>4. RecencyOnlyNudges'
    BY <1>1, <1>6, FinishNudges
  <2> QED
    BY <2>2, <2>3, <2>4 DEF RetrievalInv
<1>7. CASE Fail
  <2>1. stage' = "failed" /\ UNCHANGED <<query, found, pool, scored>>
    BY <1>7 DEF Fail
  <2>2. ListsInv'
    BY <1>1, <2>1 DEF ListsInv
  <2> QED
    BY <2>1, <2>2 DEF RetrievalInv, FusionIsFair, RecencyOnlyNudges
<1>8. CASE UNCHANGED vars
  <2>1. UNCHANGED <<query, stage, found, pool, scored, hits>>
    BY <1>8 DEF vars
  <2>2. ListsInv'
    BY <1>1, <2>1 DEF ListsInv
  <2>3. FusionIsFair'
    <3>1. CASE stage \in {"fused", "scored"}
      BY <1>1, <2>1, <3>1, PoolStays
    <3>2. CASE stage \notin {"fused", "scored"}
      BY <2>1, <3>2 DEF FusionIsFair
    <3> QED
      BY <3>1, <3>2
  <2>4. RecencyOnlyNudges'
    BY <1>1, <2>1 DEF RecencyOnlyNudges, Before, Relevance, RecencyWeight, Intent
  <2> QED
    BY <2>2, <2>3, <2>4 DEF RetrievalInv
<1> QED
  BY <1>2, <1>3, <1>4, <1>5, <1>6, <1>7, <1>8 DEF Next, AnyLane

LEMMA RetrievalInvHolds == Spec => []RetrievalInv
BY RetrievalInvInit, RetrievalInvStep, PTL DEF Spec

(* query.rs:67: whatever the lanes find, a hunk that every lane puts behind
   another never takes the other's place in the pool, whichever further lanes
   know the other. *)
THEOREM FusionHolds == Spec => []FusionIsFair
<1>1. RetrievalInv => FusionIsFair
  BY DEF RetrievalInv
<1> QED
  BY <1>1, RetrievalInvHolds, PTL

(* retrieval-pipeline.md, "relevance dominates, recency only nudges": in every
   answer an older hunk is ahead of a newer one only if it is more relevant, and
   none is ahead of a hunk that is more relevant by more than the weight. *)
THEOREM RecencyHolds == Spec => []RecencyOnlyNudges
<1>1. RetrievalInv => RecencyOnlyNudges
  BY DEF RetrievalInv
<1> QED
  BY <1>1, RetrievalInvHolds, PTL

----------------------------------------------------------------------------
(* The files: what a language filter finds. *)

(* The extensions the two tables know. *)
LEMMA TableDomains ==
  /\ DOMAIN ParserLanguage =
       {"rs", "py", "java", "kt", "kts", "ts", "tsx", "js", "jsx", "mjs", "cjs"}
  /\ DOMAIN DiffLanguage = {"rs", "py", "ts", "tsx", "js", "jsx", "mjs", "cjs", "go"}
BY DEF ParserLanguage, DiffLanguage

(* The two tables name one language for an extension both know. *)
LEMMA TablesAgree ==
  ASSUME NEW p \in Path, Extension[p] \in DOMAIN ParserLanguage
  PROVE  /\ LanguageBy(ParserLanguage, p) \in Languages
         /\ DetectLanguage(p) \in {None, LanguageBy(ParserLanguage, p)}
<1> DEFINE e == Extension[p]
<1>1. e \in {"rs", "py", "java", "kt", "kts", "ts", "tsx", "js", "jsx", "mjs", "cjs"}
  BY TableDomains
<1>2. ParserLanguage[e] \in Languages
  BY <1>1 DEF ParserLanguage, Languages
<1>3. ASSUME e \in DOMAIN DiffLanguage PROVE DiffLanguage[e] = ParserLanguage[e]
  <2>1. e \in {"rs", "py", "ts", "tsx", "js", "jsx", "mjs", "cjs", "go"}
    BY <1>3, TableDomains
  <2> QED
    BY <2>1, <1>1 DEF DiffLanguage, ParserLanguage
<1> QED
  BY <1>2, <1>3 DEF DetectLanguage, LanguageBy

(* What a file with symbols is told by is its parser's language. *)
LanguageInv ==
  /\ language \in [Path -> Languages \union {None}]
  /\ symbols \subseteq Path
  /\ \A p \in symbols : /\ Extension[p] \in DOMAIN ParserLanguage
                        /\ language[p] = LanguageBy(ParserLanguage, p)

(* What the two tables tell is a language or none. *)
LEMMA LanguageTypes ==
  ASSUME NEW p \in Path
  PROVE  /\ DetectLanguage(p) \in Languages \union {None}
         /\ LanguageBy(ParserLanguage, p) \in Languages \union {None}
<1>1. ASSUME Extension[p] \in DOMAIN DiffLanguage PROVE DiffLanguage[Extension[p]] \in Languages
  BY <1>1, TableDomains DEF DiffLanguage, Languages
<1>2. ASSUME Extension[p] \in DOMAIN ParserLanguage PROVE ParserLanguage[Extension[p]] \in Languages
  BY <1>2, TableDomains DEF ParserLanguage, Languages
<1> QED
  BY <1>1, <1>2 DEF DetectLanguage, LanguageBy

(* A language told replaces what there was, none does not. *)
LEMMA UpsertKeepsLanguages ==
  ASSUME language \in [Path -> Languages \union {None}],
         NEW told \in [Path -> Languages \union {None}],
         language' = Upsert(told)
  PROVE  /\ language' \in [Path -> Languages \union {None}]
         /\ \A p \in Path : language'[p] = IF told[p] # None THEN told[p] ELSE language[p]
BY DEF Upsert

(* No step of a run or of the user breaks it. *)
LEMMA LanguageStep == LanguageInv /\ [FilesNext]_filesVars => LanguageInv'
<1> SUFFICES ASSUME LanguageInv, [FilesNext]_filesVars PROVE LanguageInv'
  OBVIOUS
<1>1. ASSUME UNCHANGED <<language, symbols>> PROVE LanguageInv'
  BY <1>1 DEF LanguageInv
<1>2. ASSUME NEW c \in run.todo, IndexCommit(c) PROVE LanguageInv'
  <2>1. CASE UNCHANGED indexVars
    BY <1>1, <2>1 DEF indexVars
  <2>2. CASE ~ UNCHANGED indexVars
    <3>1. PICK hunks : language' = Upsert([p \in Path |-> IF \E h \in hunks : h.path = p
                                                       THEN DetectLanguage(p) ELSE None])
      BY <1>2, <2>2 DEF IndexCommit
    <3> DEFINE told == [p \in Path |-> IF \E h \in hunks : h.path = p
                                        THEN DetectLanguage(p) ELSE None]
    <3>2. told \in [Path -> Languages \union {None}]
      BY LanguageTypes
    <3>3. language' = Upsert(told)
      BY <3>1
    <3>4. symbols' = symbols
      BY <1>2, <2>2 DEF IndexCommit
    <3>5. \A p \in Path : told[p] \in {None, DetectLanguage(p)}
      OBVIOUS
    <3> HIDE DEF told
    <3>6. /\ language' \in [Path -> Languages \union {None}]
          /\ \A p \in Path : language'[p] = IF told[p] # None THEN told[p] ELSE language[p]
      BY <3>2, <3>3, UpsertKeepsLanguages DEF LanguageInv
    <3>7. ASSUME NEW p \in symbols
          PROVE  Extension[p] \in DOMAIN ParserLanguage /\ language'[p] = LanguageBy(ParserLanguage, p)
      <4>1. p \in Path /\ Extension[p] \in DOMAIN ParserLanguage /\ language[p] = LanguageBy(ParserLanguage, p)
        BY DEF LanguageInv
      <4>2. DetectLanguage(p) \in {None, LanguageBy(ParserLanguage, p)}
        BY <4>1, TablesAgree
      <4> QED
        BY <4>1, <4>2, <3>5, <3>6
    <3> QED
      BY <3>4, <3>6, <3>7 DEF LanguageInv
  <2> QED
    BY <2>1, <2>2
<1>3. ASSUME PutHeadSymbols PROVE LanguageInv'
  <2> DEFINE told == [p \in Path |-> IF HasSymbols(tree[head], p)
                                      THEN LanguageBy(ParserLanguage, p) ELSE None]
  <2>1. told \in [Path -> Languages \union {None}]
    BY LanguageTypes
  <2>2. language' = Upsert(told) /\ symbols' = {p \in Path : HasSymbols(tree[head], p)}
    BY <1>3 DEF PutHeadSymbols
  <2>3. \A p \in Path : HasSymbols(tree[head], p) => told[p] = LanguageBy(ParserLanguage, p)
    OBVIOUS
  <2> HIDE DEF told
  <2>4. /\ language' \in [Path -> Languages \union {None}]
        /\ \A p \in Path : language'[p] = IF told[p] # None THEN told[p] ELSE language[p]
    BY <2>1, <2>2, UpsertKeepsLanguages DEF LanguageInv
  <2>5. ASSUME NEW p \in symbols'
        PROVE  Extension[p] \in DOMAIN ParserLanguage /\ language'[p] = LanguageBy(ParserLanguage, p)
    <3>1. p \in Path /\ HasSymbols(tree[head], p)
      BY <2>2
    <3>2. Extension[p] \in DOMAIN ParserLanguage
      BY <3>1 DEF HasSymbols
    <3>3. told[p] # None
      BY <3>1, <3>2, <2>3, TablesAgree, FileAssumption
    <3> QED
      BY <3>1, <3>2, <3>3, <2>3, <2>4
  <2> QED
    BY <2>2, <2>4, <2>5 DEF LanguageInv
<1>4. ASSUME NEW t \in Trees, NEW others, Commit(t, others) PROVE LanguageInv'
  BY <1>1, <1>4 DEF Commit, indexVars
<1>5. ASSUME NEW c \in kept, Checkout(c) PROVE LanguageInv'
  BY <1>1, <1>5 DEF Checkout, indexVars
<1>6. CASE Collect
  BY <1>1, <1>6 DEF Collect, indexVars
<1>7. CASE Begin
  BY <1>1, <1>7 DEF Begin, indexVars
<1>8. CASE SetWatermark
  BY <1>1, <1>8 DEF SetWatermark
<1>9. CASE Die
  BY <1>1, <1>9 DEF Die, indexVars
<1>10. CASE UNCHANGED filesVars
  BY <1>1, <1>10 DEF filesVars, indexVars
<1> QED
  BY <1>2, <1>3, <1>4, <1>5, <1>6, <1>7, <1>8, <1>9, <1>10 DEF FilesNext

(* A hunk of a file with symbols is told by its language, whatever the diffs
   knew of it. *)
THEOREM FilterHolds == FilesSpec => []FilterFindsKnown
<1>1. FilesInit => LanguageInv
  BY DEF FilesInit, LanguageInv
<1>2. LanguageInv => FilterFindsKnown
  BY DEF LanguageInv, FilterFindsKnown, FoundBy
<1> QED
  BY <1>1, <1>2, LanguageStep, PTL DEF FilesSpec

----------------------------------------------------------------------------
(* The files: what git shows of them and what the index tells. *)

Entry == File \union Link \union {Absent}

(* Two entries differ by their kind, or only inside it; what is absent is all
   of its kind. *)
LEMMA AbsentIsAKind == \A x \in Entry : Kind(x) = "absent" <=> x = Absent
BY FileAssumption DEF Entry, Kind

(* A path is absent where it goes to or comes from, and differs where it changes. *)
LEMMA DiffParts ==
  ASSUME NEW old \in [Path -> Entry], NEW new \in [Path -> Entry], NEW p \in Path
  PROVE  /\ p \in Changed(old, new) => new[p] # Absent /\ old[p] # new[p]
         /\ p \in Come(old, new) => new[p] # Absent /\ old[p] # new[p]
         /\ p \in Gone(old, new) => old[p] # Absent /\ old[p] # new[p]
         /\ new[p] # Absent /\ old[p] # new[p] => p \in Come(old, new) \union Changed(old, new)
         /\ old[p] # Absent /\ new[p] = Absent => p \in Gone(old, new)
<1>1. old[p] \in Entry /\ new[p] \in Entry
  OBVIOUS
<1> QED
  BY <1>1, AbsentIsAKind DEF Changed, Come, Gone

(* What the hunks of a commit tell of it, however it is printed. *)
Tells(c, old, new, all) ==
  /\ \A h \in all : /\ h.sha = c /\ h.path \in Path
                    /\ h.symbols = HasSymbols(new, h.path)
                    /\ old[h.path] # new[h.path]
                    /\ h.kind = "deleted" => h.path \in Gone(old, new)
                    /\ h.kind # "deleted" => new[h.path] # Absent
  /\ \A p \in Come(old, new) \union Changed(old, new) : \E h \in all : h.path = p
  /\ \A p \in Gone(old, new) :
       \/ \E h \in all : h.path = p
       \/ \E q \in Come(old, new) :
            <<old[p], new[q]>> \in Similar /\ \E h \in all : h.path = q

(* Every rename the diff may have chosen leaves records that tell of each path. *)
LEMMA DiffTells ==
  ASSUME NEW c, NEW old \in [Path -> Entry], NEW new \in [Path -> Entry],
         NEW all \in HunksBetween(c, old, new)
  PROVE  Tells(c, old, new, all)
<1>1. PICK kind \in Diffs(old, new) : all = {Hunk(c, new, p, kind[p]) : p \in DOMAIN kind}
  BY DEF HunksBetween
<1>2. PICK R \in Renames(old, new) :
        /\ DOMAIN kind = {p \in Path : Kinds(old, new, R, p) # {}}
        /\ \A p \in DOMAIN kind : kind[p] \in Kinds(old, new, R, p)
  BY DEF Diffs
<1>3. \A h \in all : \E p \in DOMAIN kind :
        h.sha = c /\ h.path = p /\ h.symbols = HasSymbols(new, p) /\ h.kind = kind[p]
  BY <1>1 DEF Hunk
<1>4. \A p \in DOMAIN kind : \E h \in all : h.path = p
  <2> SUFFICES ASSUME NEW p \in DOMAIN kind PROVE \E h \in all : h.path = p
    OBVIOUS
  <2>1. Hunk(c, new, p, kind[p]) \in all
    BY <1>1
  <2> QED
    BY <2>1 DEF Hunk
<1>5. /\ DOMAIN R \subseteq Come(old, new)
      /\ \A q \in DOMAIN R : R[q] \in Gone(old, new) /\ <<old[R[q]], new[q]>> \in Similar
  BY DEF Renames
<1>6. ASSUME NEW p \in Path, NEW k \in Kinds(old, new, R, p)
      PROVE  /\ k = "deleted" => p \in Gone(old, new)
             /\ k # "deleted" => p \in Come(old, new) \union Changed(old, new)
  BY <1>5 DEF Kinds
<1>7. \A h \in all : /\ h.sha = c /\ h.path \in Path
                     /\ h.symbols = HasSymbols(new, h.path)
                     /\ old[h.path] # new[h.path]
                     /\ h.kind = "deleted" => h.path \in Gone(old, new)
                     /\ h.kind # "deleted" => new[h.path] # Absent
  <2> SUFFICES ASSUME NEW h \in all
               PROVE  /\ h.sha = c /\ h.path \in Path
                      /\ h.symbols = HasSymbols(new, h.path)
                      /\ old[h.path] # new[h.path]
                      /\ h.kind = "deleted" => h.path \in Gone(old, new)
                      /\ h.kind # "deleted" => new[h.path] # Absent
    OBVIOUS
  <2>1. PICK p \in DOMAIN kind :
          h.sha = c /\ h.path = p /\ h.symbols = HasSymbols(new, p) /\ h.kind = kind[p]
    BY <1>3
  <2>2. p \in Path /\ kind[p] \in Kinds(old, new, R, p)
    BY <1>2
  <2>3. /\ kind[p] = "deleted" => p \in Gone(old, new)
        /\ kind[p] # "deleted" => p \in Come(old, new) \union Changed(old, new)
    BY <2>2, <1>6
  <2> QED
    BY <2>1, <2>2, <2>3, DiffParts
<1>8. ASSUME NEW p \in Come(old, new) \union Changed(old, new)
      PROVE  \E h \in all : h.path = p
  <2>1. p \in Path
    BY DEF Come, Gone, Changed
  <2>2. Kinds(old, new, R, p) # {}
    <3>1. CASE p \in Changed(old, new)
      <4>1. "modified" \in Kinds(old, new, R, p)
        BY <3>1 DEF Kinds
      <4> QED
        BY <4>1
    <3>2. CASE p \in DOMAIN R
      <4>1. "renamed" \in Kinds(old, new, R, p)
        BY <3>2 DEF Kinds
      <4> QED
        BY <4>1
    <3>3. CASE p \in Come(old, new) \ DOMAIN R
      <4>1. "added" \in Kinds(old, new, R, p)
        BY <3>3 DEF Kinds
      <4> QED
        BY <4>1
    <3> QED
      BY <3>1, <3>2, <3>3
  <2> QED
    BY <2>1, <2>2, <1>2, <1>4
<1>9. ASSUME NEW p \in Gone(old, new), \A h \in all : h.path # p
      PROVE  \E q \in Come(old, new) :
               <<old[p], new[q]>> \in Similar /\ \E h \in all : h.path = q
  <2>1. p \in Path
    BY DEF Gone
  <2>2. p \notin DOMAIN kind
    BY <1>9, <1>4
  <2>3. Kinds(old, new, R, p) = {}
    BY <2>1, <2>2, <1>2
  <2>4. p \in {R[q] : q \in DOMAIN R}
    <3>1. ASSUME p \notin {R[q] : q \in DOMAIN R} PROVE FALSE
      <4>1. "deleted" \in Kinds(old, new, R, p)
        BY <3>1 DEF Kinds
      <4> QED
        BY <4>1, <2>3
    <3> QED
      BY <3>1
  <2>5. PICK q \in DOMAIN R : R[q] = p
    BY <2>4
  <2>6. q \in Come(old, new) /\ <<old[p], new[q]>> \in Similar
    BY <2>5, <1>5
  <2> QED
    BY <2>6, <1>8
<1> QED
  BY <1>7, <1>8, <1>9 DEF Tells

(* What the commits are: numbered in the order they were made. *)
Commits == 1..Len(tree)

GitTypes ==
  /\ tree \in Seq(Trees) /\ parent \in Seq(Nat \union {None})
  /\ anc \in Seq(SUBSET Nat) /\ line \in Seq(SUBSET Nat)
  /\ Len(parent) = Len(tree) /\ Len(anc) = Len(tree) /\ Len(line) = Len(tree)
  /\ head \in Commits /\ kept \subseteq Commits
  /\ \A c \in Commits : /\ parent[c] = None \/ parent[c] \in Commits
                        /\ line[c] \subseteq anc[c] /\ anc[c] \subseteq 1..c

(* A path that is in a tree is as the last commit along first parents left it
   that changed it; one that is not is gone since it last was. *)
PresentSince(c, p) ==
  \E t \in line[c] :
    /\ p \in Come(TreeBefore(t), tree[t]) \union Changed(TreeBefore(t), tree[t])
    /\ tree[t][p] = tree[c][p]
    /\ \A u \in line[c] : u > t => tree[u][p] = TreeBefore(u)[p]

GoneSince(c, p) ==
  \A t \in line[c] : tree[t][p] # Absent =>
    \E u \in line[c] : u > t /\ p \in Gone(TreeBefore(u), tree[u])

GitInv ==
  /\ GitTypes
  /\ \A c \in Commits, p \in Path :
       IF tree[c][p] # Absent THEN PresentSince(c, p) ELSE GoneSince(c, p)

(* The trees of a commit and of its first parent. *)
LEMMA TreeTypes ==
  ASSUME GitTypes, NEW c \in Commits
  PROVE  tree[c] \in [Path -> Entry] /\ TreeBefore(c) \in [Path -> Entry]
<1>1. \A d \in Commits : tree[d] \in [Path -> Entry]
  BY FileAssumption DEF GitTypes, Commits, Entry
<1>2. [p \in Path |-> Absent] \in [Path -> Entry]
  BY DEF Entry
<1> QED
  BY <1>1, <1>2 DEF GitTypes, TreeBefore

(* A new commit leaves the others as they are. *)
LEMMA CommitKeeps ==
  ASSUME GitTypes, NEW t \in Trees, NEW others, Commit(t, others), NEW c \in Commits
  PROVE  /\ tree'[c] = tree[c] /\ parent'[c] = parent[c] /\ c \in Commits'
         /\ anc'[c] = anc[c] /\ line'[c] = line[c]
         /\ TreeBefore(c)' = TreeBefore(c)
<1>1. \A d \in Commits : tree'[d] = tree[d] /\ parent'[d] = parent[d]
                         /\ anc'[d] = anc[d] /\ line'[d] = line[d]
  BY DEF GitTypes, Commits, Commit
<1>2. c \in Commits'
  BY DEF GitTypes, Commits, Commit
<1>3. TreeBefore(c)' = TreeBefore(c)
  BY <1>1 DEF TreeBefore, GitTypes
<1> QED
  BY <1>1, <1>2, <1>3

(* The commit that is made sees the files as its tree has them. *)
LEMMA CommitMakes ==
  ASSUME GitTypes, NEW t \in Trees, NEW others \in SUBSET kept, Commit(t, others),
         NEW n, n = Len(tree) + 1
  PROVE  /\ Commits' = Commits \union {n} /\ n \in Nat /\ \A c \in Commits : c < n
         /\ tree'[n] = t /\ line'[n] = {n} \union line[head]
         /\ TreeBefore(n)' = tree[head]
         /\ head' = n /\ GitTypes'
<1>1. n \in Nat /\ \A c \in Commits : c \in Nat /\ c < n
  BY DEF GitTypes, Commits
<1>2. /\ tree'[n] = t /\ parent'[n] = head /\ line'[n] = {n} \union line[head]
      /\ anc'[n] = {n} \union anc[head] \union UNION {anc[o] : o \in others}
      /\ head' = n /\ Len(tree') = n
  BY DEF GitTypes, Commit
<1>3. Commits' = Commits \union {n}
  <2>1. Len(tree) \in Nat
    BY DEF GitTypes
  <2> QED
    BY <2>1, <1>2 DEF Commits
<1>4. head \in Commits /\ head # None
  BY <1>1, FileAssumption DEF GitTypes
<1>5. TreeBefore(n)' = tree[head]
  <2>1. tree'[head] = tree[head]
    BY <1>4, CommitKeeps
  <2> QED
    BY <1>2, <1>4, <2>1 DEF TreeBefore
<1>6. others \subseteq Commits /\ \A o \in others : anc[o] \subseteq 1..o
  BY DEF GitTypes
<1>7. line[head] \subseteq anc[head] /\ anc[head] \subseteq 1..head
  BY <1>4 DEF GitTypes
<1>8. line'[n] \subseteq anc'[n] /\ anc'[n] \subseteq 1..n
  <2>1. anc[head] \subseteq 1..n
    BY <1>7, <1>4, <1>1
  <2>2. UNION {anc[o] : o \in others} \subseteq 1..n
    BY <1>6, <1>1
  <2> QED
    BY <1>2, <1>7, <2>1, <2>2, <1>1
<1>9. anc'[n] \in SUBSET Nat /\ line'[n] \in SUBSET Nat
  BY <1>8, <1>1
<1>10. /\ tree' \in Seq(Trees) /\ parent' \in Seq(Nat \union {None})
       /\ anc' \in Seq(SUBSET Nat) /\ line' \in Seq(SUBSET Nat)
       /\ Len(parent') = Len(tree') /\ Len(anc') = Len(tree') /\ Len(line') = Len(tree')
  <2>1. tree' \in Seq(Trees) /\ Len(tree') = n
    BY DEF GitTypes, Commit
  <2>2. parent' \in Seq(Nat \union {None}) /\ Len(parent') = n
    BY <1>4, <1>1 DEF GitTypes, Commit
  <2>3. anc' \in Seq(SUBSET Nat) /\ Len(anc') = n
    <3> DEFINE a == {n} \union anc[head] \union UNION {anc[o] : o \in others}
    <3>1. a \in SUBSET Nat
      BY <1>9, <1>2
    <3>2. anc' = Append(anc, a)
      BY DEF Commit
    <3> HIDE DEF a
    <3> QED
      BY <3>1, <3>2 DEF GitTypes
  <2>4. line' \in Seq(SUBSET Nat) /\ Len(line') = n
    <3> DEFINE a == {n} \union line[head]
    <3>1. a \in SUBSET Nat
      BY <1>9, <1>2
    <3>2. line' = Append(line, a)
      BY DEF Commit
    <3> HIDE DEF a
    <3> QED
      BY <3>1, <3>2 DEF GitTypes
  <2> QED
    BY <2>1, <2>2, <2>3, <2>4
<1>11. head' \in Commits' /\ kept' \subseteq Commits'
  BY <1>2, <1>3 DEF Commit, GitTypes
<1>12. ASSUME NEW c \in Commits'
       PROVE  /\ parent'[c] = None \/ parent'[c] \in Commits'
              /\ line'[c] \subseteq anc'[c] /\ anc'[c] \subseteq 1..c
  <2>1. CASE c = n
    BY <2>1, <1>2, <1>3, <1>4, <1>8
  <2>2. CASE c \in Commits
    BY <2>2, <1>3, CommitKeeps DEF GitTypes
  <2> QED
    BY <2>1, <2>2, <1>3
<1>13. GitTypes'
  BY <1>10, <1>11, <1>12 DEF GitTypes
<1> QED
  BY <1>1, <1>2, <1>3, <1>5, <1>13

(* A commit keeps what is known of the commits before it. *)
LEMMA CommitStep ==
  ASSUME GitInv, NEW t \in Trees, NEW others \in SUBSET kept, Commit(t, others)
  PROVE  GitInv'
<1> PICK n : n = Len(tree) + 1
  OBVIOUS
<1> USE DEF GitInv
<1>1. /\ Commits' = Commits \union {n} /\ n \in Nat /\ \A c \in Commits : c < n
      /\ tree'[n] = t /\ line'[n] = {n} \union line[head]
      /\ TreeBefore(n)' = tree[head] /\ head' = n /\ GitTypes'
  BY CommitMakes
<1>2. \A c \in Commits : /\ tree'[c] = tree[c] /\ line'[c] = line[c]
                         /\ TreeBefore(c)' = TreeBefore(c)
  BY CommitKeeps
<1>3. \A c \in Commits : line[c] \subseteq Commits
  BY DEF GitTypes, Commits
<1>4. head \in Commits
  BY DEF GitTypes
<1>5. tree[head] \in [Path -> Entry] /\ t \in [Path -> Entry]
  BY <1>4, TreeTypes, FileAssumption DEF Entry
<1>6. ASSUME NEW c \in Commits, NEW p \in Path, tree[c][p] # Absent
      PROVE  PresentSince(c, p)'
  <2>1. PICK s \in line[c] :
          /\ p \in Come(TreeBefore(s), tree[s]) \union Changed(TreeBefore(s), tree[s])
          /\ tree[s][p] = tree[c][p]
          /\ \A u \in line[c] : u > s => tree[u][p] = TreeBefore(u)[p]
    BY <1>6 DEF PresentSince
  <2> QED
    BY <2>1, <1>2, <1>3 DEF PresentSince
<1>7. ASSUME NEW c \in Commits, NEW p \in Path, tree[c][p] = Absent
      PROVE  GoneSince(c, p)'
  <2>1. GoneSince(c, p)
    BY <1>7
  <2> QED
    BY <2>1, <1>2, <1>3 DEF GoneSince
<1>8. ASSUME NEW p \in Path, t[p] # Absent PROVE PresentSince(n, p)'
  <2>1. CASE t[p] = tree[head][p]
    <3>1. PICK s \in line[head] :
            /\ p \in Come(TreeBefore(s), tree[s]) \union Changed(TreeBefore(s), tree[s])
            /\ tree[s][p] = tree[head][p]
            /\ \A u \in line[head] : u > s => tree[u][p] = TreeBefore(u)[p]
      BY <1>8, <2>1, <1>4 DEF PresentSince
    <3>2. s \in Commits /\ s \in line'[n]
      BY <1>1, <1>3, <1>4
    <3>3. ASSUME NEW u \in line'[n], u > s PROVE tree'[u][p] = TreeBefore(u)'[p]
      BY <3>1, <3>3, <2>1, <1>1, <1>2, <1>3, <1>4
    <3> QED
      BY <3>1, <3>2, <3>3, <2>1, <1>1, <1>2 DEF PresentSince
  <2>2. CASE t[p] # tree[head][p]
    <3>1. p \in Come(tree[head], t) \union Changed(tree[head], t)
      BY <1>8, <2>2, <1>5, DiffParts
    <3>2. ASSUME NEW u \in line'[n] PROVE ~ (u > n)
      <4>1. u = n \/ u \in Commits
        BY <1>1, <1>3, <1>4
      <4>2. u \in Commits => u \in Nat /\ u < n
        <5>1. Commits \subseteq Nat
          BY DEF Commits, GitTypes
        <5> QED
          BY <5>1, <1>1
      <4> QED
        BY <4>1, <4>2, <1>1
    <3> QED
      BY <3>1, <3>2, <1>1 DEF PresentSince
  <2> QED
    BY <2>1, <2>2
<1>9. ASSUME NEW p \in Path, t[p] = Absent PROVE GoneSince(n, p)'
  <2> SUFFICES ASSUME NEW s \in line'[n], tree'[s][p] # Absent
               PROVE  \E u \in line'[n] : u > s /\ p \in Gone(TreeBefore(u)', tree'[u])
    BY DEF GoneSince
  <2>1. s \in line[head] /\ s \in Commits /\ tree[s][p] # Absent
    BY <1>1, <1>2, <1>3, <1>4, <1>9
  <2>2. CASE tree[head][p] = Absent
    <3>1. PICK u \in line[head] : u > s /\ p \in Gone(TreeBefore(u), tree[u])
      BY <2>1, <2>2, <1>4 DEF GoneSince
    <3> QED
      BY <3>1, <1>1, <1>2, <1>3, <1>4
  <2>3. CASE tree[head][p] # Absent
    <3>1. p \in Gone(tree[head], t)
      BY <2>3, <1>9, <1>5, DiffParts
    <3> QED
      BY <3>1, <2>1, <1>1
  <2> QED
    BY <2>2, <2>3
<1>10. ASSUME NEW c \in Commits', NEW p \in Path
       PROVE  IF tree'[c][p] # Absent THEN PresentSince(c, p)' ELSE GoneSince(c, p)'
  <2>1. CASE c = n
    BY <2>1, <1>1, <1>8, <1>9
  <2>2. CASE c \in Commits
    BY <2>2, <1>2, <1>6, <1>7
  <2> QED
    BY <2>1, <2>2, <1>1
<1> QED
  BY <1>1, <1>10

(* The changes of a commit are stored, but what the ignore rules hide. *)
Settled(c) ==
  \E all \in HunksForCommit(c) :
    {r \in records : r.sha = c} = {h \in all : h.path \notin Ignored}

IndexInv ==
  /\ \A r \in records : r.sha \in rows
  /\ rows \subseteq Commits
  /\ \A c \in rows : Settled(c)
  /\ watermark = None \/ watermark \in Commits
  /\ watermark # None => \A c \in anc[watermark] : Settled(c) \/ c \in gaveUp

RunInv ==
  /\ run \in [step : {"idle", "walk", "watermark"}, todo : SUBSET Commits, last : Commits \union {None}]
  /\ run.step = "watermark" => run.todo = {}
  /\ run.last # None => \A c \in anc[run.last] : c \in run.todo \/ Settled(c) \/ c \in gaveUp

FilesInv == GitInv /\ IndexInv /\ RunInv

(* None stands for no commit. *)
LEMMA NoneIsNoCommit == GitTypes => None \notin Commits
BY FileAssumption DEF GitTypes, Commits

(* What git is told does not change what is settled. *)
LEMMA SettledStays ==
  ASSUME GitTypes, GitInv', NEW c \in Commits, tree'[c] = tree[c], TreeBefore(c)' = TreeBefore(c),
         records' = records
  PROVE  Settled(c) => Settled(c)'
BY DEF Settled, HunksForCommit

(* What the user does leaves what the index tells of each commit. *)
LEMMA GitStep ==
  ASSUME FilesInv,
         (\E t \in Trees, others \in SUBSET kept : Commit(t, others)) \/ Collect
         \/ (\E c \in kept : Checkout(c))
  PROVE  FilesInv'
<1> USE DEF FilesInv
<1>1. GitTypes
  BY DEF GitInv
<1>2. ASSUME NEW t \in Trees, NEW others \in SUBSET kept, Commit(t, others) PROVE FilesInv'
  <2>1. GitInv'
    BY <1>2, CommitStep
  <2>2. \A c \in Commits : /\ tree'[c] = tree[c] /\ c \in Commits' /\ anc'[c] = anc[c]
                           /\ TreeBefore(c)' = TreeBefore(c)
    BY <1>1, <1>2, CommitKeeps
  <2>3. UNCHANGED <<rows, records, watermark, run, gaveUp>>
    BY <1>2 DEF Commit, indexVars
  <2>4. \A c \in Commits : Settled(c) => Settled(c)'
    BY <1>1, <2>1, <2>2, <2>3, SettledStays
  <2>5. \A c \in Commits : anc[c] \subseteq Commits
    <3>1. Len(tree) \in Nat /\ \A c \in Commits : anc[c] \subseteq 1..c
      BY <1>1 DEF GitTypes
    <3> QED
      BY <3>1 DEF Commits
  <2>6. IndexInv'
    BY <2>2, <2>3, <2>4, <2>5 DEF IndexInv
  <2>7. RunInv'
    BY <2>2, <2>3, <2>4, <2>5 DEF RunInv
  <2> QED
    BY <2>1, <2>6, <2>7
<1>3. ASSUME UNCHANGED <<tree, parent, anc, line, rows, records, watermark, run, gaveUp>>,
             head' \in Commits, kept' \subseteq Commits
      PROVE  FilesInv'
  <2>1. Commits' = Commits
    BY <1>3 DEF Commits
  <2>2. GitTypes'
    BY <1>1, <1>3, <2>1 DEF GitTypes
  <2>3. \A c : TreeBefore(c)' = TreeBefore(c)
    BY <1>3 DEF TreeBefore
  <2>4. \A c, p : PresentSince(c, p)' = PresentSince(c, p) /\ GoneSince(c, p)' = GoneSince(c, p)
    BY <1>3, <2>3 DEF PresentSince, GoneSince
  <2>5. GitInv'
    BY <1>3, <2>1, <2>2, <2>4 DEF GitInv
  <2>6. \A c : Settled(c)' = Settled(c)
    BY <1>3, <2>3 DEF Settled, HunksForCommit
  <2>7. IndexInv' /\ RunInv'
    BY <1>3, <2>1, <2>6 DEF IndexInv, RunInv
  <2> QED
    BY <2>5, <2>7
<1>4. ASSUME Collect PROVE FilesInv'
  <2>1. anc[head] \subseteq Commits
    BY <1>1 DEF GitTypes, Commits
  <2> QED
    BY <1>1, <1>3, <1>4, <2>1 DEF Collect, indexVars, GitTypes
<1>5. ASSUME NEW c \in kept, Checkout(c) PROVE FilesInv'
  BY <1>1, <1>3, <1>5 DEF Checkout, indexVars, GitTypes
<1> QED
  BY <1>2, <1>4, <1>5

(* What a run does settles commits and moves the watermark only over settled ones. *)
LEMMA RunStep ==
  ASSUME FilesInv,
         Begin \/ (\E c \in run.todo : IndexCommit(c)) \/ PutHeadSymbols \/ SetWatermark \/ Die
  PROVE  FilesInv'
<1> USE DEF FilesInv
<1>1. GitTypes /\ None \notin Commits
  BY NoneIsNoCommit DEF GitInv
<1>2. UNCHANGED git
  BY DEF Begin, IndexCommit, PutHeadSymbols, SetWatermark, Die
<1>3. Commits' = Commits /\ \A c : TreeBefore(c)' = TreeBefore(c)
  BY <1>2 DEF git, Commits, TreeBefore
<1>4. GitInv'
  <2>1. GitTypes'
    BY <1>1, <1>2, <1>3 DEF git, GitTypes
  <2>2. \A c, p : PresentSince(c, p)' = PresentSince(c, p) /\ GoneSince(c, p)' = GoneSince(c, p)
    BY <1>2, <1>3 DEF git, PresentSince, GoneSince
  <2> QED
    BY <1>2, <1>3, <2>1, <2>2 DEF git, GitInv
<1>5. \A c : HunksForCommit(c)' = HunksForCommit(c)
  BY <1>2, <1>3 DEF git, HunksForCommit
<1>6. \A c \in Commits : anc[c] \subseteq Commits
  BY <1>1 DEF GitTypes, Commits
<1>7. ASSUME records' = records PROVE \A c : Settled(c)' = Settled(c)
  BY <1>5, <1>7 DEF Settled
<1>8. ASSUME UNCHANGED <<rows, records, watermark, gaveUp>> PROVE IndexInv'
  BY <1>2, <1>3, <1>7, <1>8 DEF IndexInv, git
<1>9. NoRun.last = None /\ NoRun \in [step : {"idle", "walk", "watermark"}, todo : SUBSET Commits, last : Commits \union {None}]
      /\ NoRun.step = "idle"
  BY DEF NoRun
<1>10. CASE Begin
  <2>1. head \in Commits
    BY <1>1 DEF GitTypes
  <2>2. ListCommits \subseteq Commits
    BY <2>1, <1>6 DEF ListCommits
  <2>3. run' = [step |-> "walk", todo |-> ListCommits, last |-> IF ListCommits = {} THEN None ELSE head]
        /\ UNCHANGED <<rows, records, watermark, gaveUp>>
    BY <1>10 DEF Begin, indexVars
  <2>4. run' \in [step : {"idle", "walk", "watermark"}, todo : SUBSET Commits, last : Commits \union {None}]
    BY <2>1, <2>2, <2>3
  <2>5. \A c \in anc[head] : c \in ListCommits \/ Settled(c) \/ c \in gaveUp
    BY DEF ListCommits, Hidden, IndexInv
  <2>6. RunInv'
    BY <2>1, <2>3, <2>4, <2>5, <1>2, <1>3, <1>7 DEF RunInv, git
  <2> QED
    BY <1>4, <1>8, <2>3, <2>6
<1>11. ASSUME NEW c \in run.todo, IndexCommit(c) PROVE FilesInv'
  <2>1. run \in [step : {"idle", "walk", "watermark"}, todo : SUBSET Commits, last : Commits \union {None}]
    BY DEF RunInv
  <2>2. c \in Commits /\ run.step = "walk"
    BY <1>11, <2>1 DEF IndexCommit
  <2>3. run' = [run EXCEPT !.todo = @ \ {c}]
    BY <1>11 DEF IndexCommit
  <2>4. /\ run' \in [step : {"idle", "walk", "watermark"}, todo : SUBSET Commits, last : Commits \union {None}]
        /\ run'.todo = run.todo \ {c} /\ run'.last = run.last /\ run'.step = "walk"
    BY <2>1, <2>2, <2>3
  <2>5. ASSUME \A d \in Commits : Settled(d) => Settled(d)',
               c \in gaveUp' \/ Settled(c)', gaveUp \subseteq gaveUp'
        PROVE  RunInv'
    <3>1. run.last # None => \A d \in anc[run.last] : d \in run'.todo \/ Settled(d)' \/ d \in gaveUp'
      BY <2>1, <2>4, <2>5, <1>6 DEF RunInv
    <3> QED
      BY <3>1, <2>4, <1>2, <1>3 DEF RunInv, git
  <2>6. CASE c \in rows /\ UNCHANGED <<indexVars, gaveUp>>
    <3>1. UNCHANGED <<rows, records, watermark, gaveUp>>
      BY <2>6 DEF indexVars
    <3>2. Settled(c)
      BY <2>6 DEF IndexInv
    <3> QED
      BY <3>1, <3>2, <2>5, <1>4, <1>7, <1>8
  <2>7. CASE c \notin rows /\ gaveUp' = gaveUp \union {c} /\ UNCHANGED indexVars
    <3>1. UNCHANGED <<rows, records, watermark>>
      BY <2>7 DEF indexVars
    <3>2. IndexInv'
      BY <3>1, <2>7, <1>2, <1>3, <1>7 DEF IndexInv, git
    <3> QED
      BY <3>1, <3>2, <2>7, <2>5, <1>4, <1>7
  <2>8. ASSUME NEW all \in HunksForCommit(c), c \notin rows, UNCHANGED <<watermark, gaveUp>>,
               NEW hunks, hunks = {h \in all : h.path \notin Ignored},
               rows' = IF hunks = {} /\ all # {} THEN rows ELSE rows \union {c},
               records' = records \union hunks
        PROVE  FilesInv'
    <3>1. \A h \in hunks : h.sha = c
      <4>1. \A h \in all : h.sha = c
        BY <2>2, <1>1, TreeTypes, DiffTells DEF HunksForCommit, Tells
      <4> QED
        BY <4>1, <2>8
    <3>2. \A r \in records : r.sha # c
      BY <2>8 DEF IndexInv
    <3>3. {r \in records' : r.sha = c} = hunks
      BY <3>1, <3>2, <2>8
    <3>4. Settled(c)'
      BY <3>3, <2>8, <1>5 DEF Settled
    <3>5. ASSUME NEW d \in Commits, d # c PROVE {r \in records' : r.sha = d} = {r \in records : r.sha = d}
      BY <3>1, <3>5, <2>8
    <3>6. \A d \in Commits : Settled(d) => Settled(d)'
      <4> SUFFICES ASSUME NEW d \in Commits, Settled(d), d # c PROVE Settled(d)'
        BY <3>4
      <4> QED
        BY <3>5, <1>5 DEF Settled
    <3>7. \A r \in records' : r.sha \in rows'
      BY <3>1, <2>8 DEF IndexInv
    <3>8. \A d \in rows' : Settled(d)'
      BY <3>4, <3>6, <2>8, <2>2 DEF IndexInv
    <3>9. watermark # None => \A d \in anc[watermark] : Settled(d)' \/ d \in gaveUp
      BY <3>6, <1>6 DEF IndexInv
    <3>10. IndexInv'
      BY <3>7, <3>8, <3>9, <2>8, <2>2, <1>2, <1>3 DEF IndexInv, git
    <3> QED
      BY <3>4, <3>6, <3>10, <2>5, <2>8, <1>4
  <2> QED
    <3>1. CASE c \notin rows /\ c \in kept
      <4>1. PICK all \in HunksForCommit(c) :
              LET hunks == {h \in all : h.path \notin Ignored}
              IN  /\ rows' = IF hunks = {} /\ all # {} THEN rows ELSE rows \union {c}
                  /\ records' = records \union hunks
        BY <1>11, <3>1 DEF IndexCommit
      <4>2. UNCHANGED <<watermark, gaveUp>>
        BY <1>11, <3>1 DEF IndexCommit
      <4> QED
        BY <4>1, <4>2, <3>1, <2>8
    <3>2. CASE ~ (c \notin rows /\ c \in kept)
      BY <3>2, <2>6, <2>7, <1>11 DEF IndexCommit
    <3> QED
      BY <3>1, <3>2
<1>12. CASE PutHeadSymbols
  <2>1. UNCHANGED <<rows, records, watermark, gaveUp>>
    BY <1>12 DEF PutHeadSymbols
  <2>2. run \in [step : {"idle", "walk", "watermark"}, todo : SUBSET Commits, last : Commits \union {None}]
        /\ run.todo = {} /\ run' = [run EXCEPT !.step = "watermark"]
    BY <1>12 DEF PutHeadSymbols, RunInv
  <2>3. run' \in [step : {"idle", "walk", "watermark"}, todo : SUBSET Commits, last : Commits \union {None}]
        /\ run'.todo = {} /\ run'.last = run.last
    BY <2>2
  <2>4. RunInv'
    BY <2>1, <2>2, <2>3, <1>2, <1>3, <1>7 DEF RunInv, git
  <2> QED
    BY <2>1, <2>4, <1>4, <1>8
<1>13. CASE SetWatermark
  <2>1. /\ UNCHANGED <<rows, records, gaveUp>> /\ run' = NoRun /\ run.step = "watermark"
        /\ watermark' = IF run.last = None THEN watermark ELSE run.last
    BY <1>13 DEF SetWatermark
  <2>2. run.last \in Commits \union {None} /\ run.todo = {}
    BY <2>1 DEF RunInv
  <2>3. watermark' # None => \A c \in anc[watermark'] : Settled(c) \/ c \in gaveUp
    BY <2>1, <2>2 DEF IndexInv, RunInv
  <2>4. IndexInv'
    BY <2>1, <2>2, <2>3, <1>2, <1>3, <1>7 DEF IndexInv, git
  <2>5. RunInv'
    BY <2>1, <1>9, <1>3 DEF RunInv
  <2> QED
    BY <2>4, <2>5, <1>4
<1>14. CASE Die
  <2>1. UNCHANGED <<rows, records, watermark, gaveUp>> /\ run' = NoRun
    BY <1>14 DEF Die, indexVars
  <2>2. RunInv'
    BY <2>1, <1>9, <1>3 DEF RunInv
  <2> QED
    BY <2>1, <2>2, <1>4, <1>8
<1> QED
  BY <1>10, <1>11, <1>12, <1>13, <1>14

(* The invariant, of a repository of one commit and an empty index. *)
LEMMA FilesInitially == FilesInit => FilesInv
<1> SUFFICES ASSUME FilesInit PROVE FilesInv
  OBVIOUS
<1>1. PICK t \in Trees : tree = <<t>>
  BY DEF FilesInit
<1>2. Commits = {1} /\ Len(tree) = 1 /\ tree[1] = t
  BY <1>1 DEF Commits
<1>3. parent = <<None>> /\ anc = <<{1}>> /\ line = <<{1}>> /\ head = 1 /\ kept = {1}
  BY DEF FilesInit
<1>4. GitTypes
  BY <1>1, <1>2, <1>3 DEF GitTypes
<1>5. TreeBefore(1) = [p \in Path |-> Absent]
  BY <1>3 DEF TreeBefore
<1>6. line[1] = {1}
  BY <1>3
<1>7. tree[1] \in [Path -> Entry] /\ TreeBefore(1) \in [Path -> Entry]
  BY <1>2, <1>4, TreeTypes
<1>8. ASSUME NEW p \in Path, tree[1][p] # Absent PROVE PresentSince(1, p)
  <2>1. p \in Come(TreeBefore(1), tree[1]) \union Changed(TreeBefore(1), tree[1])
    BY <1>5, <1>7, <1>8, DiffParts
  <2> QED
    BY <2>1, <1>6 DEF PresentSince
<1>9. ASSUME NEW p \in Path, tree[1][p] = Absent PROVE GoneSince(1, p)
  BY <1>6, <1>9 DEF GoneSince
<1>10. GitInv
  BY <1>2, <1>4, <1>8, <1>9 DEF GitInv
<1>11. IndexInv /\ RunInv
  BY DEF FilesInit, IndexInv, RunInv, NoRun
<1> QED
  BY <1>10, <1>11 DEF FilesInv

(* Every step keeps it. *)
LEMMA FilesStep == FilesInv /\ [FilesNext]_filesVars => FilesInv'
<1> SUFFICES ASSUME FilesInv, [FilesNext]_filesVars PROVE FilesInv'
  OBVIOUS
<1>1. ASSUME NEW t \in Trees, NEW others \in {{}} \union {{c} : c \in kept}, Commit(t, others)
      PROVE  FilesInv'
  <2>1. others \in SUBSET kept
    OBVIOUS
  <2> QED
    BY <1>1, <2>1, GitStep
<1>2. CASE UNCHANGED filesVars
  <2>1. UNCHANGED <<git, rows, records, watermark, run, gaveUp>>
    BY <1>2 DEF filesVars, indexVars
  <2>2. Commits' = Commits /\ \A c : TreeBefore(c)' = TreeBefore(c)
    BY <2>1 DEF git, Commits, TreeBefore
  <2>3. GitTypes'
    BY <2>1, <2>2 DEF git, GitTypes, FilesInv, GitInv
  <2>4. \A c, p : PresentSince(c, p)' = PresentSince(c, p) /\ GoneSince(c, p)' = GoneSince(c, p)
    BY <2>1, <2>2 DEF git, PresentSince, GoneSince
  <2>5. GitInv'
    BY <2>1, <2>2, <2>3, <2>4 DEF git, GitInv, FilesInv
  <2>6. \A c : Settled(c)' = Settled(c)
    BY <2>1, <2>2 DEF git, Settled, HunksForCommit
  <2> QED
    BY <2>1, <2>2, <2>5, <2>6 DEF git, FilesInv, IndexInv, RunInv
<1> QED
  BY <1>1, <1>2, GitStep, RunStep DEF FilesNext

(* What a settled commit's records say of a path that is not ignored. *)
LEMMA RecordsTell ==
  ASSUME GitTypes, NEW c \in Commits, Settled(c)
  PROVE  LET old == TreeBefore(c)
             new == tree[c]
         IN  /\ \A r \in records : r.sha = c =>
                  /\ r.path \in Path /\ old[r.path] # new[r.path]
                  /\ r.symbols = HasSymbols(new, r.path)
                  /\ r.kind = "deleted" => r.path \in Gone(old, new)
                  /\ r.kind # "deleted" => new[r.path] # Absent
             /\ \A p \in (Come(old, new) \union Changed(old, new)) \ Ignored :
                  \E r \in records : r.sha = c /\ r.path = p
             /\ \A p \in Gone(old, new) \ Ignored :
                  \/ \E r \in records : r.sha = c /\ r.path = p
                  \/ \E q \in Path :
                       /\ Succeeds(q, p, c)
                       /\ q \in Ignored \/ \E s \in records : s.sha = c /\ s.path = q
<1> PICK old, new : old = TreeBefore(c) /\ new = tree[c]
  OBVIOUS
<1>1. old \in [Path -> Entry] /\ new \in [Path -> Entry]
  BY TreeTypes
<1>2. PICK all \in HunksBetween(c, old, new) :
        {r \in records : r.sha = c} = {h \in all : h.path \notin Ignored}
  BY DEF Settled, HunksForCommit
<1>3. /\ \A h \in all : /\ h.sha = c /\ h.path \in Path
                        /\ h.symbols = HasSymbols(new, h.path)
                        /\ old[h.path] # new[h.path]
                        /\ h.kind = "deleted" => h.path \in Gone(old, new)
                        /\ h.kind # "deleted" => new[h.path] # Absent
      /\ \A p \in Come(old, new) \union Changed(old, new) : \E h \in all : h.path = p
      /\ \A p \in Gone(old, new) :
           \/ \E h \in all : h.path = p
           \/ \E q \in Come(old, new) :
                <<old[p], new[q]>> \in Similar /\ \E h \in all : h.path = q
  <2>1. Tells(c, old, new, all)
    BY <1>1, DiffTells
  <2> QED
    BY <2>1 DEF Tells
<1>4. \A r \in records : r.sha = c => r \in all
  BY <1>2
<1>5. \A h \in all : h.path \notin Ignored => h \in records /\ h.sha = c
  BY <1>2
<1>6. Come(old, new) \subseteq Path /\ Gone(old, new) \subseteq Path
  BY DEF Come, Gone
<1>7. ASSUME NEW p \in Gone(old, new) \ Ignored, ~ \E r \in records : r.sha = c /\ r.path = p
      PROVE  \E q \in Path :
               /\ Succeeds(q, p, c)
               /\ q \in Ignored \/ \E s \in records : s.sha = c /\ s.path = q
  <2>1. PICK q \in Come(old, new) :
          <<old[p], new[q]>> \in Similar /\ \E h \in all : h.path = q
    BY <1>3, <1>5, <1>7
  <2>2. Succeeds(q, p, c)
    BY <2>1 DEF Succeeds
  <2> QED
    BY <2>1, <2>2, <1>5, <1>6
<1> QED
  BY <1>3, <1>4, <1>5, <1>7

(* The newest record along first parents is that of the commit that last changed
   the path. *)
LEMMA FilesInvTells == FilesInv => HistoryTellsHead
<1> SUFFICES ASSUME FilesInv, UpToDate, gaveUp = {}, NEW p \in Path \ Ignored
             PROVE  LET touching == {r \in records : r.path = p /\ r.sha \in line[head]}
                        newest == {r \in touching : \A o \in touching : o.sha <= r.sha}
                    IN  IF tree[head][p] # Absent
                        THEN \E r \in newest :
                              /\ r.kind # "deleted" \/ TypeChanged(r.sha, p)
                              /\ r.symbols = HasSymbols(tree[head], p)
                        ELSE \A r \in newest :
                               \/ r.kind = "deleted"
                               \/ \E q \in Path, c \in line[head] :
                                    /\ c > r.sha /\ Succeeds(q, p, c)
                                    /\ \/ q \in Ignored
                                       \/ \E s \in records : s.sha = c /\ s.path = q
  BY DEF HistoryTellsHead
<1> DEFINE touching == {r \in records : r.path = p /\ r.sha \in line[head]}
           newest == {r \in touching : \A o \in touching : o.sha <= r.sha}
<1>1. GitTypes
  BY DEF FilesInv, GitInv
<1>2. head \in Commits /\ Commits \subseteq Nat /\ line[head] \subseteq Commits
      /\ line[head] \subseteq anc[head] /\ anc[head] \subseteq Commits
  BY <1>1 DEF GitTypes, Commits
<1>3. ListCommits = {}
  <2>1. IsFiniteSet(Commits)
    <3>1. Len(tree) \in Int
      BY <1>1 DEF GitTypes
    <3> QED
      BY <3>1, FS_Interval DEF Commits
  <2>2. IsFiniteSet(ListCommits)
    <3>1. ListCommits \in SUBSET Commits
      BY <1>2 DEF ListCommits
    <3> QED
      BY <2>1, <3>1, FS_Subset
  <2> QED
    BY <2>2, FS_EmptySet DEF UpToDate, CommitsBehind
<1>4. \A c \in line[head] : c \in Commits /\ Settled(c)
  BY <1>2, <1>3 DEF ListCommits, Hidden, UpToDate, FilesInv, IndexInv
<1>5. ASSUME NEW c \in line[head]
      PROVE  /\ \A r \in records : r.sha = c =>
                  /\ r.path \in Path /\ TreeBefore(c)[r.path] # tree[c][r.path]
                  /\ r.symbols = HasSymbols(tree[c], r.path)
                  /\ r.kind = "deleted" => r.path \in Gone(TreeBefore(c), tree[c])
                  /\ r.kind # "deleted" => tree[c][r.path] # Absent
             /\ p \in Come(TreeBefore(c), tree[c]) \union Changed(TreeBefore(c), tree[c]) =>
                  \E r \in records : r.sha = c /\ r.path = p
             /\ p \in Gone(TreeBefore(c), tree[c]) =>
                  \/ \E r \in records : r.sha = c /\ r.path = p
                  \/ \E q \in Path :
                       /\ Succeeds(q, p, c)
                       /\ q \in Ignored \/ \E s \in records : s.sha = c /\ s.path = q
  BY <1>1, <1>4, RecordsTell
<1>6. CASE tree[head][p] # Absent
  <2>1. PICK t \in line[head] :
          /\ p \in Come(TreeBefore(t), tree[t]) \union Changed(TreeBefore(t), tree[t])
          /\ tree[t][p] = tree[head][p]
          /\ \A u \in line[head] : u > t => tree[u][p] = TreeBefore(u)[p]
    BY <1>2, <1>6 DEF FilesInv, GitInv, PresentSince
  <2>2. PICK r \in records : r.sha = t /\ r.path = p
    BY <2>1, <1>5
  <2>3. ASSUME NEW o \in touching PROVE o.sha <= t
    <3>1. o \in records /\ o.path = p /\ o.sha \in line[head]
      BY <2>3
    <3>2. TreeBefore(o.sha)[p] # tree[o.sha][p]
      BY <3>1, <1>5
    <3>3. ~ (o.sha > t)
      BY <3>1, <3>2, <2>1
    <3>4. o.sha \in Nat /\ t \in Nat
      BY <3>1, <1>2
    <3> QED
      BY <3>3, <3>4
  <2>4. r \in newest
    BY <2>2, <2>3
  <2>5. r.symbols = HasSymbols(tree[head], p)
    BY <2>1, <2>2, <1>5 DEF HasSymbols
  <2>6. ASSUME r.kind = "deleted" PROVE TypeChanged(r.sha, p)
    <3>1. p \in Gone(TreeBefore(t), tree[t])
      BY <2>2, <2>6, <1>5
    <3>2. p \notin Changed(TreeBefore(t), tree[t])
      BY <3>1 DEF Gone, Changed
    <3> QED
      BY <3>1, <3>2, <2>1, <2>2 DEF TypeChanged
  <2> QED
    BY <1>6, <2>4, <2>5, <2>6
<1>7. CASE tree[head][p] = Absent
  <2> SUFFICES ASSUME NEW r \in newest, r.kind # "deleted"
               PROVE  \E q \in Path, c \in line[head] :
                        /\ c > r.sha /\ Succeeds(q, p, c)
                        /\ \/ q \in Ignored
                           \/ \E s \in records : s.sha = c /\ s.path = q
    BY <1>7
  <2>1. r \in records /\ r.path = p /\ r.sha \in line[head]
    OBVIOUS
  <2>0. \A o \in touching : o.sha <= r.sha
    BY Zenon
  <2> HIDE DEF newest
  <2>2. tree[r.sha][p] # Absent
    BY <2>1, <1>5
  <2>3. PICK u \in line[head] : u > r.sha /\ p \in Gone(TreeBefore(u), tree[u])
    BY <2>1, <2>2, <1>2, <1>7 DEF FilesInv, GitInv, GoneSince
  <2>4. ~ \E s \in records : s.sha = u /\ s.path = p
    <3>1. ASSUME NEW s \in records, s.sha = u, s.path = p PROVE FALSE
      <4>1. s \in records /\ s.path = p /\ s.sha \in line[head]
        BY <3>1, <2>3
      <4>2. u <= r.sha
        <5>1. s \in touching
          BY <4>1
        <5> QED
          BY <5>1, <2>0, <3>1
      <4>3. u \in Nat /\ r.sha \in Nat
        BY <2>1, <1>2
      <4> QED
        BY <4>2, <4>3, <2>3
    <3> QED
      BY <3>1
  <2> QED
    BY <2>3, <2>4, <1>5
<1> QED
  BY <1>6, <1>7

(* Whatever the history, and whatever runs died: an index that is up to date
   and gave up nothing tells by the newest record of each path whether it is at
   HEAD, and whether it has symbols there. *)
THEOREM HistoryHolds == FilesSpec => []HistoryTellsHead
BY FilesInitially, FilesStep, FilesInvTells, PTL DEF FilesSpec

=============================================================================
