---------------------------- MODULE EmbedService ----------------------------
(***************************************************************************)
(* What EmbeddingProvider::embed_batch promises each of its concurrent     *)
(* callers: one answer per call, either an error or the vectors of exactly *)
(* the rows that caller passed, in the order it passed them.               *)
(* BatchingEmbedder implements this service.                               *)
(***************************************************************************)
EXTENDS Naturals, Sequences

CONSTANTS
  Callers,    \* the tasks that call embed_batch
  Waiting,    \* no answer yet
  Error       \* Err(OhraError::Embedding(_))

VARIABLES
  asked,      \* asked[c]: the rows of c's last call
  out         \* out[c]: what that call returned; a row stands for its vector

serviceVars == <<asked, out>>

Init ==
  /\ asked = [c \in Callers |-> <<>>]
  /\ out = [c \in Callers |-> <<>>]

(* No row of c's last call is a row of its next one, nor of another caller. *)
Ask(c) ==
  /\ out[c] # Waiting
  /\ \A d \in Callers \ {c} : asked'[d] = asked[d] /\ out'[d] = out[d]
  /\ out'[c] \in {Waiting, <<>>}
  /\ out'[c] = <<>> => asked'[c] = <<>>

Answer ==
  /\ asked' = asked
  /\ \A c \in Callers :
       out'[c] # out[c] => out[c] = Waiting /\ out'[c] \in {asked[c], Error}

Next == Answer \/ \E c \in Callers : Ask(c)

Spec == Init /\ [][Next]_serviceVars

=============================================================================
