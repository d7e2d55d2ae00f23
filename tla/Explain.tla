------------------------------- MODULE Explain -------------------------------
(***************************************************************************)
(* explain_change: the lines asked about are blamed, the commits that own  *)
(* them looked up, their hunks of the file read, and the commits around    *)
(* them in the file's history added, each in a read of its own, while an   *)
(* index run adds commits.                                                 *)
(***************************************************************************)
EXTENDS Ranking, Integers, Sequences, SequencesExt

CONSTANTS
  Shas,        \* the commits, numbered in the order of their names
  Dated,       \* Dated[c]: c's timestamp
  Owner,       \* Owner[n]: the commit that line n of HEAD's file is from
  HunksIn,     \* HunksIn[c]: how many hunks c has under the file's path
  Firsts, LastLines, Counts, \* what a request may ask for
  DiskLengths, \* how many lines the file in the work tree may have
  AnswerMax,   \* K_MAX
  Around       \* NEIGHBOURS_BEFORE and NEIGHBOURS_AFTER

ASSUME ExplainAssumption ==
  /\ Shas \subseteq Nat /\ IsFiniteSet(Shas)
  /\ Dated \in [Shas -> Nat] /\ HunksIn \in [Shas -> Nat]
  /\ Owner \in Seq(Shas)
  /\ UNION {Firsts, LastLines, Counts, DiskLengths} \subseteq Nat
  /\ {AnswerMax, Around} \subseteq Nat \ {0}

VARIABLES
  request,     \* the ExplainQuery
  step,
  owned,       \* owned[c]: the lines asked about that c owns
  known,       \* the owners that the look-up found
  left,        \* the known ones the loop has yet to come to
  excerpt,     \* excerpt[c]: how many hunks its diff is made of
  related,     \* the related commits
  answer,      \* the hits, the coverage and the limitation
  indexed,     \* the index: the commits with a row
  stored,      \* and those with their hunks
  early,       \* history: stored, when the owners were looked up
  unread       \* history: the anchors whose date could not be read

index == <<indexed, stored>>
explainVars == <<request, step, owned, known, left, excerpt, related, answer, index, early, unread>>

NoAnswer == [hits |-> <<>>, coverage |-> <<0, 0>>, limitation |-> "none"]
Limitations == {"none", "no lines", "skipped"}

Requests ==
  [first : Firsts, last : LastLines, k : Counts, diff : BOOLEAN, related : BOOLEAN]

ExplainInit ==
  /\ request \in Requests
  /\ step = "blame"
  /\ owned = <<>> /\ known = {} /\ left = <<>> /\ excerpt = <<>>
  /\ related = <<>> /\ answer = NoAnswer
  /\ indexed = {} /\ stored = {} /\ early = {} /\ unread = {}

----------------------------------------------------------------------------
(* The index run: a commit's row, then its hunks. *)

IndexRow(c) ==
  /\ c \notin indexed
  /\ indexed' = indexed \union {c}
  /\ UNCHANGED <<request, step, owned, known, left, excerpt, related, answer, stored, early, unread>>

IndexHunks(c) ==
  /\ c \in indexed \ stored
  /\ stored' = stored \union {c}
  /\ UNCHANGED <<request, step, owned, known, left, excerpt, related, answer, indexed, early, unread>>

----------------------------------------------------------------------------
(* The orders. *)

Named == {p \in Shas \X Shas : p[1] < p[2]}
NewestFirst ==
  {p \in Shas \X Shas :
    Dated[p[1]] > Dated[p[2]] \/ (Dated[p[1]] = Dated[p[2]] /\ p[1] < p[2])}
OldestFirst ==
  {p \in Shas \X Shas :
    Dated[p[1]] < Dated[p[2]] \/ (Dated[p[1]] = Dated[p[2]] /\ p[1] < p[2])}

----------------------------------------------------------------------------
(* The request. *)

(* blame_range_sync: the end is clamped to the file in the work tree, the lines
   are those of HEAD's. *)
LinesAsked(onDisk) ==
  IF request.first = 0 THEN {}
  ELSE {n \in DOMAIN Owner : n >= request.first /\ n <= request.last /\ n <= onDisk}

Blame ==
  /\ step = "blame"
  /\ \E onDisk \in DiskLengths :
       owned' = [c \in {Owner[n] : n \in LinesAsked(onDisk)} |->
                   {n \in LinesAsked(onDisk) : Owner[n] = c}]
  /\ step' = "lookup"
  /\ UNCHANGED <<request, known, left, excerpt, related, answer, index, early, unread>>

(* The owners in the order of their names, as blame lists them. *)
LookUp ==
  /\ step = "lookup"
  /\ known' = indexed \intersect DOMAIN owned
  /\ left' = Listed(known', Named)
  /\ early' = stored
  /\ step' = "diffs"
  /\ UNCHANGED <<request, owned, excerpt, related, answer, index, unread>>

(* A commit's hunks of the file, if diffs are asked for. *)
ReadDiff ==
  /\ step = "diffs" /\ left # <<>>
  /\ LET c == Head(left)
         read == IF request.diff /\ c \in stored THEN HunksIn[c] ELSE 0
     IN excerpt' = [d \in DOMAIN excerpt \union {c} |-> IF d = c THEN read ELSE excerpt[d]]
  /\ left' = Tail(left)
  /\ UNCHANGED <<request, step, owned, known, related, answer, index, early, unread>>

(* Each hit is an anchor; without hits there is none. *)
BeginRelated ==
  /\ step = "diffs" /\ left = <<>>
  /\ left' = IF request.related THEN Listed(known, Named) ELSE <<>>
  /\ step' = "anchor"
  /\ UNCHANGED <<request, owned, known, excerpt, related, answer, index, early, unread>>

(* Those of the file's commits that are on one side of the anchor. *)
Touching(S) == {c \in S : HunksIn[c] > 0}
OlderThan(a, S) == {c \in Touching(S) \ {a} : Dated[c] <= Dated[a]}
NewerThan(a, S) == {c \in Touching(S) \ {a} : Dated[c] > Dated[a]}

(* The anchors and those that are there already are left out, after the limit. *)
AddRelated(found, order) ==
  LET new == {c \in Limited(found, order, Around) : c \notin known /\ c \notin ToSet(related)}
  IN  related' = related \o Listed(new, order)

(* get_neighboring_file_commits runs three statements on one connection, outside a
   transaction: the anchor's date, the older commits, the newer ones. *)
ReadAnchor ==
  /\ step = "anchor" /\ left # <<>>
  /\ step' = "older"
  /\ UNCHANGED <<request, owned, known, left, excerpt, related, answer, index, early, unread>>

(* An error of the first is taken for a commit that is not indexed: the anchor
   has no neighbours. *)
AnchorUnread ==
  /\ step = "anchor" /\ left # <<>>
  /\ unread' = unread \union {Head(left)}
  /\ left' = Tail(left)
  /\ UNCHANGED <<request, step, owned, known, excerpt, related, answer, index, early>>

(* Mutation: the older ones are limited from the wrong end. *)
ReadOlder_fromStart ==
  /\ step = "older"
  /\ AddRelated(OlderThan(Head(left), stored), OldestFirst)
  /\ step' = "newer"
  /\ UNCHANGED <<request, owned, known, left, excerpt, answer, index, early, unread>>

ReadOlder ==
  /\ step = "older"
  /\ AddRelated(OlderThan(Head(left), stored), NewestFirst)
  /\ step' = "newer"
  /\ UNCHANGED <<request, owned, known, left, excerpt, answer, index, early, unread>>

ReadNewer ==
  /\ step = "newer"
  /\ AddRelated(NewerThan(Head(left), stored), OldestFirst)
  /\ left' = Tail(left)
  /\ step' = "anchor"
  /\ UNCHANGED <<request, owned, known, excerpt, answer, index, early, unread>>

LineCount(S) == Cardinality(UNION {owned[c] : c \in S})

Limitation ==
  IF DOMAIN owned = {} THEN "no lines"
  ELSE IF DOMAIN owned \subseteq known THEN "none" ELSE "skipped"

ClampedCount == IF request.k = 0 THEN 1 ELSE IF request.k > AnswerMax THEN AnswerMax ELSE request.k

(* Mutation: cut first, sorted then. *)
Assemble_cutFirst ==
  /\ step = "anchor" /\ left = <<>>
  /\ answer' = [hits |-> Listed(Limited(known, Named, ClampedCount), NewestFirst),
                coverage |-> <<LineCount(known), LineCount(DOMAIN owned)>>,
                limitation |-> Limitation]
  /\ step' = "answered"
  /\ UNCHANGED <<request, owned, known, left, excerpt, related, index, early, unread>>

(* The hits, newest first and then by name, cut to the count asked for; the
   coverage and the limitation are of all the owners. *)
Assemble ==
  /\ step = "anchor" /\ left = <<>>
  /\ answer' = [hits |-> Listed(Limited(known, NewestFirst, ClampedCount), NewestFirst),
                coverage |-> <<LineCount(known), LineCount(DOMAIN owned)>>,
                limitation |-> Limitation]
  /\ step' = "answered"
  /\ UNCHANGED <<request, owned, known, left, excerpt, related, index, early, unread>>

(* Blame, a connection, or a read other than that of an anchor's date returns an
   error: the request does. *)
ExplainFails ==
  /\ \/ step \in {"blame", "lookup", "older", "newer"}
     \/ step = "diffs" /\ left # <<>> /\ request.diff
     \/ step = "anchor" /\ left # <<>>
  /\ step' = "refused"
  /\ UNCHANGED <<request, owned, known, left, excerpt, related, answer, index, early, unread>>

ExplainNext ==
  \/ \E c \in Shas : IndexRow(c) \/ IndexHunks(c)
  \/ Blame \/ LookUp \/ ReadDiff \/ BeginRelated
  \/ ReadAnchor \/ AnchorUnread \/ ReadOlder \/ ReadNewer
  \/ Assemble \/ ExplainFails

ExplainSpec == ExplainInit /\ [][ExplainNext]_explainVars

----------------------------------------------------------------------------
(* Correctness. *)

Answered == step = "answered"

(* explain/mod.rs:147: every line that was blamed is one hit's, or its commit
   is no newer than the hits and was cut, or the answer says that it was
   skipped; and the coverage counts just the lines that were not. *)
AnswerAccountsForLines ==
  Answered =>
    LET hit == ToSet(answer.hits)
        skipped == DOMAIN owned \ known
        blamed == UNION {owned[c] : c \in DOMAIN owned}
    IN /\ hit \subseteq DOMAIN owned /\ Cardinality(hit) = Len(answer.hits)
       /\ \A n \in blamed : Owner[n] \in hit \/ Owner[n] \in skipped
            \/ (Len(answer.hits) = ClampedCount /\ \A c \in hit : <<c, Owner[n]>> \in NewestFirst)
       /\ answer.limitation = "skipped" <=> skipped # {}
       /\ answer.limitation = "no lines" <=> blamed = {}
       /\ answer.coverage = <<Cardinality({n \in blamed : Owner[n] \notin skipped}),
                              Cardinality(blamed)>>

(* How many of S are nearer to the anchor than c, on c's side of it. *)
Nearer(c, a, S) ==
  IF Dated[c] <= Dated[a] THEN Rank(c, OlderThan(a, S), NewestFirst)
  ELSE Rank(c, NewerThan(a, S), OldestFirst)

(* hydrator.rs:227, explain.rs:55: whatever an index run adds between the
   reads, each related commit is once in the answer, is no anchor, changed the
   file and is one of the nearest to an anchor whose date was read; and none is
   missed that was stored in time and stays among the nearest to such an anchor. *)
RelatedAreNearest ==
  Answered /\ request.related =>
    LET listed == ToSet(related)
        placed == known \ unread
    IN /\ Cardinality(listed) = Len(related)
       /\ listed \subseteq Touching(stored) \ known
       /\ \A c \in listed : \E a \in placed : Nearer(c, a, early) < Around
       /\ \A c \in Touching(early) \ known :
            (\E a \in placed : Nearer(c, a, stored) < Around) => c \in listed

=============================================================================
