------------------------------ MODULE HunkStore ------------------------------
(***************************************************************************)
(* What a reader of the hunks may rely on: a commit's hunks are all there, *)
(* as its diff has them, or none is, and only with the commit's row.       *)
(* CommitStages implements this, two writers or not.                       *)
(***************************************************************************)
CONSTANTS
  Commits,
  Whole      \* Whole[c]: the hunks of c, in the diff's order

VARIABLES
  rows,      \* the commits with a row
  content    \* content[c]: what a reader finds of c, by rowid

storeVars == <<rows, content>>

Init ==
  /\ rows = {}
  /\ content = [c \in Commits |-> <<>>]

Record(c) ==
  /\ rows' = rows \union {c}
  /\ UNCHANGED content

Store(c) ==
  /\ c \in rows
  /\ content' = [content EXCEPT ![c] = Whole[c]]
  /\ UNCHANGED rows

Next == \E c \in Commits : Record(c) \/ Store(c)

Spec == Init /\ [][Next]_storeVars

=============================================================================
