-------------------------- MODULE MCDaemonRegistry --------------------------
(* DaemonRegistry for TLC: one client is a stop. *)
EXTENDS DaemonRegistry

CONSTANTS p1, p2, p3

ThreeProcs == {p1, p2, p3}
OneStops == {[c \in Procs |-> IF c = p1 THEN "stop" ELSE "call"]}

=============================================================================
