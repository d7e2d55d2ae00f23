------------------------------ MODULE Retrieval ------------------------------
(***************************************************************************)
(* find_pattern: what the query's words say of its intent picks a profile, *)
(* the rankings of the lanes it enables are fused, the best of them are    *)
(* perhaps rescored by a cross-encoder, nudged by age, and cut to what was *)
(* asked.  Scores are integers in the order of the real ones: Unit stands  *)
(* for 1.0.                                                                *)
(***************************************************************************)
EXTENDS Ranking, Integers, Sequences

CONSTANTS
  Hunks,        \* the hunks, by row id
  Age,          \* Age[h], 0 for the newest
  Recency,      \* Recency[h]: exp(- age / half-life), in thousandths
  InLanguage,   \* those in the language a query may ask for
  Queries,      \* what may be asked
  Matches,      \* how strongly the hunks may match in a lane
  Logits,       \* what the cross-encoder may say of a hunk
  LaneK, PoolK, WidePoolK, \* how many hits a lane and the pools hold
  RrfK, Weight, \* the fusion's constant, the recency's weight in thousandths
  RrfUnit,      \* stands for 1.0 in a fused score
  MaxK,
  Pending, AnyDate

Lanes == <<"vec", "bm25_text", "bm25_sem_text", "bm25_hist_sym", "bm25_head_sym">>
Cues == {"config", "fix", "usage", "pattern"}
Strengths == 0..2
Unit == 60
Mille == 1000

(* since is the date asked for, phrase the one that the words say, as ages;
   AnyDate: none. *)
ASSUME RetrievalAssumption ==
  /\ Hunks \subseteq Nat /\ IsFiniteSet(Hunks) /\ InLanguage \subseteq Hunks
  /\ Age \in [Hunks -> Nat] /\ Recency \in [Hunks -> 0..Mille]
  /\ \A g, h \in Hunks : Age[g] < Age[h] <=> Recency[g] > Recency[h]
  /\ Queries \subseteq [k : Nat, no_rerank : BOOLEAN, cues : SUBSET Cues,
                       language : BOOLEAN, since : Nat \union {AnyDate}, phrase : Nat \union {AnyDate}]
  /\ Matches \subseteq [Hunks -> Strengths]
  /\ {LaneK, PoolK, WidePoolK, MaxK} \subseteq Nat \ {0}
  /\ {RrfK, RrfUnit, Weight} \subseteq Nat /\ Weight > 0 /\ Logits \subseteq Int

VARIABLES
  query,        \* the PatternQuery
  stage,
  found,        \* found[l]: what lane l has found, best first; not yet: Pending
  pool,         \* the fused hits
  scored,       \* the pool in the order of relevance
  hits          \* the answer

vars == <<query, stage, found, pool, scored, hits>>

Ids(s) == {s[n].id : n \in DOMAIN s}
Place(s, h) == CHOOSE n \in DOMAIN s : s[n].id = h

Init ==
  /\ query \in Queries
  /\ stage = "lanes"
  /\ found = [l \in DOMAIN Lanes |-> Pending]
  /\ pool = <<>> /\ scored = <<>> /\ hits = <<>>

FirstOf(s, n) == SubSeq(s, 1, IF n < Len(s) THEN n ELSE Len(s))

(* sort_by: highest first, stable. *)
HighestFirst(s) ==
  LET ahead == {p \in (DOMAIN s) \X (DOMAIN s) :
                  s[p[1]].sim > s[p[2]].sim \/ (s[p[1]].sim = s[p[2]].sim /\ p[1] < p[2])}
      order == Listed(DOMAIN s, ahead)
  IN  [n \in DOMAIN order |-> s[order[n]]]

----------------------------------------------------------------------------
(* Query understanding: the first of the intents that the words give a cue for
   picks the profile. *)

Intent ==
  CASE "config" \in query.cues -> "configuration"
    [] "config" \notin query.cues /\ "fix" \in query.cues -> "bug_fix"
    [] query.cues \intersect {"config", "fix"} = {} /\ "usage" \in query.cues -> "api_usage"
    [] query.cues = {"pattern"} -> "implementation_pattern"
    [] OTHER -> "unknown"

(* A configuration is looked for in texts, not among the symbols. *)
LaneEnabled(l) ==
  Intent = "configuration" => Lanes[l] \notin {"bm25_hist_sym", "bm25_head_sym"}

(* Usages are many; for a bug fix the newer counts for half as much again. *)
RerankTopK == IF Intent = "api_usage" THEN WidePoolK ELSE PoolK
RecencyWeight == IF Intent = "bug_fix" THEN (3 * Weight) \div 2 ELSE Weight
FinalK == IF query.k = 0 THEN 1 ELSE IF query.k > MaxK THEN MaxK ELSE query.k

(* The date asked for, or else the one in the words. *)
Since == IF query.since # AnyDate THEN query.since ELSE query.phrase

----------------------------------------------------------------------------
(* The lanes: how strongly each hunk matches is the environment's. *)

Wanted(S) ==
  {h \in S : /\ query.language => h \in InLanguage
             /\ Since # AnyDate => Age[h] <= Since}

Stronger(strength) ==
  {p \in Hunks \X Hunks :
     strength[p[1]] > strength[p[2]] \/ (strength[p[1]] = strength[p[2]] /\ p[1] < p[2])}

(* The best n of S, in the order, with their similarities. *)
Lane(S, order, n, sim) ==
  LET ids == Listed(Limited(S, order, n), order)
  IN  [m \in DOMAIN ids |-> [id |-> ids[m], sim |-> sim[ids[m]]]]

(* The nearest are taken before they are filtered.  The similarity falls with
   the distance. *)
KnnLane(strength) ==
  Lane(Wanted(Limited(Hunks, Stronger(strength), LaneK)), Stronger(strength), LaneK,
       [h \in Hunks |-> Unit \div (1 + 2 - strength[h])])

(* bm25() is negative, and the stronger the match the more so: 1 / (1 - score). *)
Bm25Lane(strength) ==
  Lane(Wanted({h \in Hunks : strength[h] > 0}), Stronger(strength), LaneK,
       [h \in Hunks |-> Unit \div (1 + strength[h])])

(* Exact spans before hunk headers, then the newest.  The limit counts rows, of
   which a hunk has one for each symbol: n hunks are left. *)
AttributionLane(strength, n) ==
  LET ahead == {p \in Hunks \X Hunks :
                  \/ strength[p[1]] > strength[p[2]]
                  \/ strength[p[1]] = strength[p[2]] /\ Age[p[1]] < Age[p[2]]
                  \/ strength[p[1]] = strength[p[2]] /\ Age[p[1]] = Age[p[2]] /\ p[1] < p[2]}
  IN  Lane(Wanted({h \in Hunks : strength[h] > 0}), ahead, n,
           [h \in Hunks |-> IF strength[h] = 2 THEN Unit ELSE (6 * Unit) \div 10])

(* A lane that the profile disables is empty.  The lanes share nothing, so the
   order in which they end does not matter. *)
Gather(l, ranking) ==
  /\ stage = "lanes" /\ found[l] = Pending
  /\ \A earlier \in 1..l - 1 : found[earlier] # Pending
  /\ found' = [found EXCEPT ![l] = IF LaneEnabled(l) THEN ranking ELSE <<>>]
  /\ UNCHANGED <<query, stage, pool, scored, hits>>

VecLane == \E strength \in Matches : Gather(1, KnnLane(strength))
Bm25TextLane == \E strength \in Matches : Gather(2, Bm25Lane(strength))
Bm25SemTextLane == \E strength \in Matches : Gather(3, Bm25Lane(strength))
Bm25HistSymLane ==
  \E strength \in Matches, n \in 1..LaneK : Gather(4, AttributionLane(strength, n))
Bm25HeadSymLane == \E strength \in Matches : Gather(5, Bm25Lane(strength))

----------------------------------------------------------------------------
(* Fusion and what follows. *)

Has(l, h) == h \in Ids(found[l])
Found == UNION {Ids(found[l]) : l \in DOMAIN Lanes}

(* Mutation: a lane that does not have the hunk counts as its place zero. *)
RrfTerm_absentZero(l, h) == RrfUnit \div (RrfK + IF Has(l, h) THEN Place(found[l], h) ELSE 0)

(* reciprocal_rank_fusion: 1 / (k + rank), over the lanes that have the hunk. *)
RrfTerm(l, h) == IF Has(l, h) THEN RrfUnit \div (RrfK + Place(found[l], h)) ELSE 0
RrfScore(h) == RrfTerm(1, h) + RrfTerm(2, h) + RrfTerm(3, h) + RrfTerm(4, h) + RrfTerm(5, h)

(* The first lane that has a hunk says what its similarity is. *)
FirstLane(h) == CHOOSE l \in DOMAIN Lanes : Has(l, h) /\ \A m \in 1..l - 1 : ~Has(m, h)
SeenBefore(h, g) ==
  \/ FirstLane(h) < FirstLane(g)
  \/ FirstLane(h) = FirstLane(g)
       /\ Place(found[FirstLane(h)], h) < Place(found[FirstLane(g)], g)

Fused ==
  {p \in Found \X Found :
     RrfScore(p[1]) > RrfScore(p[2])
       \/ (RrfScore(p[1]) = RrfScore(p[2]) /\ SeenBefore(p[1], p[2]))}

Fuse ==
  /\ stage = "lanes"
  /\ \A l \in DOMAIN Lanes : found[l] # Pending
  /\ pool' = Lane(Found, Fused, RerankTopK,
                  [h \in Found |-> found[FirstLane(h)][Place(found[FirstLane(h)], h)].sim])
  /\ stage' = IF pool' = <<>> THEN "done" ELSE "fused"
  /\ UNCHANGED <<query, found, scored, hits>>

(* Increasing and positive, as the logistic function. *)
Sigmoid(x) ==
  IF x >= 0 THEN (Unit * (1 + 2 * x)) \div (2 + 2 * x) ELSE Unit \div (2 - 2 * x)

(* No logit is so low that its sigmoid is lost. *)
ASSUME LogitsAssumption == \A x \in Logits : Sigmoid(x) > 0

(* Mutation: the logits are scores as they are. *)
CrossEncode_raw ==
  /\ stage = "fused" /\ ~query.no_rerank
  /\ \E logit \in [DOMAIN pool -> Logits] :
       scored' = HighestFirst([n \in DOMAIN pool |-> [pool[n] EXCEPT !.sim = logit[n]]])
  /\ stage' = "scored"
  /\ UNCHANGED <<query, found, pool, hits>>

CrossEncode ==
  /\ stage = "fused" /\ ~query.no_rerank
  /\ \E logit \in [DOMAIN pool -> Logits] :
       scored' = HighestFirst([n \in DOMAIN pool |-> [pool[n] EXCEPT !.sim = Sigmoid(logit[n])]])
  /\ stage' = "scored"
  /\ UNCHANGED <<query, found, pool, hits>>

NoRerank ==
  /\ stage = "fused" /\ query.no_rerank
  /\ scored' = pool
  /\ stage' = "scored"
  /\ UNCHANGED <<query, found, pool, hits>>

(* 1 + weight * recency, in millionths. *)
Boost(h) == Mille * Mille + RecencyWeight * Recency[h]
Combined(hit) == [hit EXCEPT !.sim = hit.sim * Boost(hit.id)]

(* apply_recency, and the cut. *)
Finish ==
  /\ stage = "scored"
  /\ hits' = FirstOf(HighestFirst([n \in DOMAIN scored |-> Combined(scored[n])]), FinalK)
  /\ stage' = "done"
  /\ UNCHANGED <<query, found, pool, scored>>

(* A lane or the cross-encoder returns an error: the whole query does. *)
Fail ==
  /\ stage = "lanes" \/ (stage = "fused" /\ ~query.no_rerank)
  /\ stage' = "failed"
  /\ UNCHANGED <<query, found, pool, scored, hits>>

Next ==
  \/ VecLane \/ Bm25TextLane \/ Bm25SemTextLane \/ Bm25HistSymLane \/ Bm25HeadSymLane
  \/ Fuse \/ CrossEncode \/ NoRerank \/ Finish \/ Fail

Spec == Init /\ [][Next]_vars

----------------------------------------------------------------------------
(* Correctness. *)

(* h is ahead of g in every lane that has g, and some lane has it. *)
Outranks(h, g) ==
  /\ g \in Found
  /\ \A l \in DOMAIN Lanes :
       Has(l, g) => Has(l, h) /\ Place(found[l], h) < Place(found[l], g)

(* query.rs:67: a hunk that every lane puts behind another never takes the
   other's place in the pool, whichever further lanes know the other. *)
FusionIsFair ==
  stage \in {"fused", "scored"} =>
    \A g \in Ids(pool), h \in Found :
      Outranks(h, g) => h \in Ids(pool) /\ Place(pool, h) < Place(pool, g)

Before(h, g) ==
  h \in Ids(hits) /\ g \in Ids(scored)
    /\ (g \in Ids(hits) => Place(hits, h) < Place(hits, g)) /\ g # h

Relevance(h) == scored[Place(scored, h)].sim

(* docs-book/src/architecture/retrieval-pipeline.md, "relevance dominates,
   recency only nudges": an older hunk is ahead of a newer one, or keeps it out,
   only if it is more relevant, and none is ahead of a hunk that is more relevant
   by more than the whole weight. *)
RecencyOnlyNudges ==
  stage = "done" => \A h \in Ids(hits), g \in Ids(scored) : Before(h, g) =>
    /\ Age[h] > Age[g] => Relevance(h) > Relevance(g)
    /\ Mille * Relevance(g) <= (Mille + RecencyWeight) * Relevance(h)

(* coordinator.rs:29, retrieval-pipeline.md:64: without the cross-encoder the
   answer is in the fused order, but for recency. *)
PostRrfOrder ==
  stage = "done" /\ query.no_rerank =>
    \A g, h \in Ids(hits) :
      Age[g] = Age[h] /\ Place(pool, h) < Place(pool, g) => Place(hits, h) < Place(hits, g)

=============================================================================
