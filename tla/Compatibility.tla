---------------------------- MODULE Compatibility ----------------------------
(***************************************************************************)
(* CompatibilityStatus::assess: what a binary makes of the versions an     *)
(* index records.  `expected` and `stored` map components to versions.     *)
(* Interchangeable embedding models are one version.                       *)
(***************************************************************************)

VectorAffecting == {"embedding_model", "embed_input_mode"}

Clash(components, expected, stored) ==
  \E k \in components \intersect DOMAIN expected \intersect DOMAIN stored :
    stored[k] # expected[k]

Assess(expected, stored) ==
  CASE Clash(VectorAffecting, expected, stored) -> "needs rebuild"
    [] Clash(DOMAIN expected, expected, stored)
       /\ ~Clash(VectorAffecting, expected, stored) -> "needs refresh"
    [] ~Clash(DOMAIN expected, expected, stored) ->
         IF DOMAIN expected \subseteq DOMAIN stored THEN "compatible" ELSE "unknown"

=============================================================================
