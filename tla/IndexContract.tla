--------------------------- MODULE IndexContract ---------------------------
(***************************************************************************)
(* What a reader of the index may rely on, whatever the indexer does in    *)
(* between: a commit's hunks never appear without its row, nothing already *)
(* indexed disappears, and `last_indexed_commit` only ever names a commit  *)
(* whose whole history is either in the index or known to be given up.     *)
(* IndexPipeline implements this contract.                                 *)
(***************************************************************************)
CONSTANTS
  Commit,     \* the commits of the repository
  Anc,        \* Anc[c]: c and its ancestors
  Ignored,    \* commits whose changed paths are all ignored
  NoHunks,    \* commits with an empty diff against their first parent
  None        \* no watermark yet

VARIABLES
  rows,       \* commits with a commit_record row
  hunks,      \* commits whose hunk rows are stored
  watermark,  \* repo.last_indexed_commit
  lost        \* commits the indexer gave up on

contractVars == <<rows, hunks, watermark, lost>>

(* Everything the index will ever hold about c is in it. *)
Settled(c) ==
  \/ c \in Ignored
  \/ c \in rows /\ (c \in NoHunks \/ c \in hunks)

Init ==
  /\ rows = {}
  /\ hunks = {}
  /\ watermark = None
  /\ lost = {}

AddRow(c) ==
  /\ rows' = rows \union {c}
  /\ UNCHANGED <<hunks, watermark, lost>>

AddHunks(c) ==
  /\ c \in rows
  /\ hunks' = hunks \union {c}
  /\ UNCHANGED <<rows, watermark, lost>>

GiveUp(S) ==
  /\ lost' = lost \union S
  /\ UNCHANGED <<rows, hunks, watermark>>

Advance(c) ==
  /\ \A a \in Anc[c] : Settled(a) \/ a \in lost
  /\ watermark' = c
  /\ UNCHANGED <<rows, hunks, lost>>

Next ==
  \/ \E c \in Commit : AddRow(c) \/ AddHunks(c) \/ Advance(c)
  \/ \E S \in SUBSET Commit : GiveUp(S)

Spec == Init /\ [][Next]_contractVars

=============================================================================
