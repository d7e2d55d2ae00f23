------------------------------- MODULE MCEmbed -------------------------------
(* What the embedding crate shares between tasks: a coalescer between the
   workers of an index run, or an idle slot between the daemon's requests.  A
   behaviour is of one of them, the other stays as it started. *)
EXTENDS BatchingEmbedder, IdleSlot, TLC

CONSTANTS t1, t2, t3

MCCallers == {t1, t2, t3}
MCSizes == {0, 1, 3}

VARIABLE shared
mcVars == <<shared, vars, slotVars>>

MCInit == shared \in {"coalescer", "slot"} /\ Init /\ SlotInit

MCNext ==
  \/ shared = "coalescer" /\ Next /\ UNCHANGED <<shared, slotVars>>
  \/ shared = "slot" /\ SlotNext /\ UNCHANGED <<shared, vars>>

(* In the one that stays as it started, nothing that is fair is enabled. *)
MCSpec == MCInit /\ [][MCNext]_mcVars /\ Fairness /\ SlotFairness

=============================================================================
