-------------------------- MODULE MCIndexPipeline --------------------------
(* Instances of IndexPipeline for TLC: four commits, two branches, a merge. *)
EXTENDS IndexPipeline, TLC

CONSTANTS c1, c2, c3, c4, w1, w2

MCCommit == {c1, c2, c3, c4}
MCWorkers == {w1, w2}

(* c1 <- c2, c1 <- c3, and c4 merges c2 and c3. *)
MCAnc ==
  c1 :> {c1} @@ c2 :> {c1, c2} @@ c3 :> {c1, c3} @@ c4 :> {c1, c2, c3, c4}

(* Commits and merges only: HEAD moves to a descendant. *)
Forward == {<<c, d>> \in MCCommit \X MCCommit : c \in MCAnc[d] /\ c # d}

(* Commits, a merge, and a checkout behind it; a run may begin at any of them. *)
Moves == {<<c1, c2>>, <<c1, c3>>, <<c3, c4>>, <<c4, c2>>}

MCIgnored == {c3}
MCNoHunks == {c4}

=============================================================================
