---------------------------- MODULE IndexCommand ----------------------------
(***************************************************************************)
(* `ohara index` over the life of one index: runs with any flags, by       *)
(* binaries that are upgraded, each of which may die at any step, while    *)
(* HEAD moves.  What the commits' pipeline does inside is IndexPipeline's  *)
(* subject; here each commit gets its row, and what matters is its kind:   *)
(* the model and the input its vectors were made from.  History is a line. *)
(***************************************************************************)
EXTENDS Naturals, Sequences, Compatibility

CONSTANTS
  Newest,       \* the commits are 1..Newest, oldest first
  Binaries,   \* the releases, oldest first: what each records, but for the mode
  None

Commits == 1..Newest

(* The inputs vectors are made from: --embed-cache off or semantic, and diff. *)
Modes == {"semantic", "diff"}

ASSUME CommandAssumption ==
  /\ Newest \in Nat \ {0}
  /\ Len(Binaries) \in Nat \ {0}
  /\ \A b \in 1..Len(Binaries) :
       {"embedding_model", "chunker_version"} \subseteq DOMAIN Binaries[b]

VARIABLES
  head, bin,     \* the commit checked out, the release installed
  rows,          \* rows[i]: None, or the kind of commit i's vectors
  watermark,     \* the last indexed commit, or 0
  symbols,       \* None, or where and by which chunker HEAD's were extracted
  meta,          \* the recorded versions
  run,           \* the process, or None
  switched,      \* history: a run went on over unrecorded rows of another kind
  cleared,       \* history: --force has cleared the symbols
  strayed        \* history: HEAD has moved back

tables == <<rows, watermark, symbols, meta>>
history == <<switched, cleared, strayed>>
vars == <<head, bin, tables, run, history>>

Options ==
  {o \in [rebuild : BOOLEAN, force : BOOLEAN, incremental : BOOLEAN, mode : Modes] :
     o.rebuild => ~o.force /\ ~o.incremental}

Kind(b, mode) == [model |-> Binaries[b]["embedding_model"], mode |-> mode]

(* runtime_metadata_from, and to_storage_components. *)
Expected(b, mode) ==
  [k \in DOMAIN Binaries[b] \union {"embed_input_mode"} |->
     IF k = "embed_input_mode" THEN mode ELSE Binaries[b][k]]

(* The mode of a query is the recorded one. *)
Verdict ==
  Assess(Expected(bin, IF "embed_input_mode" \in DOMAIN meta
                       THEN meta["embed_input_mode"] ELSE "semantic"),
         meta)

Kinds == {Kind(b, mode) : b \in 1..Len(Binaries), mode \in Modes}
Chunkers == {Binaries[b]["chunker_version"] : b \in 1..Len(Binaries)}

Steps == {"delete", "guard", "clear", "fast", "walk", "commits", "watermark", "metadata"}

Runs == [step : Steps, opts : Options, bin : 1..Len(Binaries), todo : SUBSET Commits,
         target : 0..Newest]

Snapshots == [at : Commits, chunker : Chunkers]

ASSUME NoneAssumption == None \notin Kinds \union Snapshots \union Runs

TypeOK ==
  /\ head \in Commits /\ bin \in 1..Len(Binaries)
  /\ rows \in [Commits -> Kinds \union {None}]
  /\ watermark \in 0..Newest
  /\ symbols \in Snapshots \union {None}
  /\ VectorAffecting \intersect DOMAIN meta \in {{}, VectorAffecting}
  /\ run \in Runs \union {None}
  /\ {switched, cleared, strayed} \subseteq BOOLEAN

Init ==
  /\ head \in Commits /\ bin = 1
  /\ rows = [i \in Commits |-> None]
  /\ watermark = 0 /\ symbols = None /\ meta = <<>>
  /\ run = None
  /\ switched = FALSE /\ cleared = FALSE /\ strayed = FALSE

At(step) == run # None /\ run.step = step
Proceed(step) == run' = [run EXCEPT !.step = step]

----------------------------------------------------------------------------
(* A run. *)

Start(o) ==
  /\ run = None
  /\ run' = [step |-> IF o.rebuild THEN "delete" ELSE "guard", opts |-> o,
             bin |-> bin, todo |-> {}, target |-> 0]
  /\ UNCHANGED <<head, bin, tables, history>>

(* delete_index_files, and the empty index that opens in their place. *)
Delete ==
  /\ At("delete")
  /\ rows' = [i \in Commits |-> None]
  /\ watermark' = 0 /\ symbols' = None /\ meta' = <<>>
  /\ switched' = FALSE /\ cleared' = FALSE
  /\ Proceed("walk")
  /\ UNCHANGED <<head, bin, strayed>>

RunVerdict == Assess(Expected(run.bin, run.opts.mode), meta)

(* Mutation: --force goes past the guard. *)
Accept_forced ==
  /\ At("guard")
  /\ RunVerdict # "needs rebuild" \/ run.opts.force
  /\ Proceed(CASE run.opts.force -> "clear"
               [] run.opts.incremental /\ ~run.opts.force -> "fast"
               [] OTHER -> "walk")
  /\ UNCHANGED <<head, bin, tables, history>>

(* The guard: an index of another kind is left alone. *)
Refuse ==
  /\ At("guard")
  /\ RunVerdict = "needs rebuild"
  /\ run' = None
  /\ UNCHANGED <<head, bin, tables, history>>

Accept ==
  /\ At("guard")
  /\ RunVerdict # "needs rebuild"
  /\ Proceed(CASE run.opts.force -> "clear"
               [] run.opts.incremental /\ ~run.opts.force -> "fast"
               [] OTHER -> "walk")
  /\ UNCHANGED <<head, bin, tables, history>>

Clear ==
  /\ At("clear")
  /\ symbols' = None /\ cleared' = TRUE
  /\ Proceed("walk")
  /\ UNCHANGED <<head, bin, rows, watermark, meta, switched, strayed>>

(* Mutation: the row of HEAD's commit is asked for, not the watermark. *)
UpToDate_byRow ==
  /\ At("fast") /\ rows[head] # None
  /\ run' = None
  /\ UNCHANGED <<head, bin, tables, history>>

(* --incremental finds the watermark at HEAD: "index up-to-date". *)
UpToDate ==
  /\ At("fast") /\ watermark = head
  /\ run' = None
  /\ UNCHANGED <<head, bin, tables, history>>

Behind ==
  /\ At("fast") /\ watermark # head
  /\ Proceed("walk")
  /\ UNCHANGED <<head, bin, tables, history>>

(* list_commits: what HEAD has and the watermark has not. *)
Walk ==
  /\ At("walk")
  /\ run' = [run EXCEPT !.step = "commits", !.todo = watermark + 1 .. head,
                        !.target = IF watermark < head THEN head ELSE 0]
  /\ switched' = (\/ switched
                  \/ /\ ~VectorAffecting \subseteq DOMAIN meta
                     /\ \E i \in Commits :
                          rows[i] \notin {None, Kind(run.bin, run.opts.mode)})
  /\ UNCHANGED <<head, bin, tables, cleared, strayed>>

(* A commit that has a row is skipped. *)
IndexCommit(i) ==
  /\ At("commits") /\ i \in run.todo
  /\ run' = [run EXCEPT !.todo = @ \ {i}]
  /\ rows' = [rows EXCEPT ![i] = IF @ = None THEN Kind(run.bin, run.opts.mode) ELSE @]
  /\ UNCHANGED <<head, bin, watermark, symbols, meta, history>>

(* Mutation: without new commits the symbols stay. *)
PutHeadSymbols_ifNew ==
  /\ At("commits") /\ run.todo = {}
  /\ symbols' = IF run.target = 0 THEN symbols
                ELSE [at |-> head, chunker |-> Binaries[run.bin]["chunker_version"]]
  /\ cleared' = FALSE
  /\ Proceed("watermark")
  /\ UNCHANGED <<head, bin, rows, watermark, meta, switched, strayed>>

(* HEAD is read again, and its symbols take the place of the old ones. *)
PutHeadSymbols ==
  /\ At("commits") /\ run.todo = {}
  /\ symbols' = [at |-> head, chunker |-> Binaries[run.bin]["chunker_version"]]
  /\ cleared' = FALSE
  /\ Proceed("watermark")
  /\ UNCHANGED <<head, bin, rows, watermark, meta, switched, strayed>>

SetWatermark ==
  /\ At("watermark")
  /\ watermark' = IF run.target # 0 THEN run.target ELSE watermark
  /\ Proceed("metadata")
  /\ UNCHANGED <<head, bin, rows, symbols, meta, history>>

(* put_many: the other components stay. *)
PutMetadata ==
  /\ At("metadata")
  /\ LET new == Expected(run.bin, run.opts.mode)
     IN meta' = [k \in DOMAIN meta \union DOMAIN new |->
                   IF k \in DOMAIN new THEN new[k] ELSE meta[k]]
  /\ run' = None
  /\ UNCHANGED <<head, bin, rows, watermark, symbols, history>>

(* The process dies, or an error ends the run. *)
Die ==
  /\ run # None
  /\ run' = None
  /\ UNCHANGED <<head, bin, tables, history>>

----------------------------------------------------------------------------
(* The user. *)

MoveHead(i) ==
  /\ i # head
  /\ head' = i
  /\ strayed' = (strayed \/ i < head)
  /\ UNCHANGED <<bin, tables, run, switched, cleared>>

Upgrade ==
  /\ bin < Len(Binaries)
  /\ bin' = bin + 1
  /\ UNCHANGED <<head, tables, run, history>>

Next ==
  \/ \E o \in Options : Start(o)
  \/ Delete \/ Refuse \/ Accept \/ Clear \/ UpToDate \/ Behind \/ Walk
  \/ \E i \in Commits : IndexCommit(i) \/ MoveHead(i)
  \/ PutHeadSymbols \/ SetWatermark \/ PutMetadata
  \/ Die \/ Upgrade

Spec == Init /\ [][Next]_vars

----------------------------------------------------------------------------
(* Correctness. *)

Recorded == VectorAffecting \subseteq DOMAIN meta

VectorsAreRecordedKind ==
  Recorded => \A i \in Commits :
    rows[i] \in {None, [model |-> meta["embedding_model"], mode |-> meta["embed_input_mode"]]}

(* index.rs:250: the guard keeps vectors of two kinds out of one index, through
   upgrades, --force, --rebuild and deaths.  The only way past it is an index
   whose first run never got to record its kind. *)
OneKindOfVectors == switched \/ VectorsAreRecordedKind

(* index_metadata.rs:12: an index that a query finds compatible has the symbols
   of the installed chunker, unless a --force was cut short. *)
CompatibleMeansCurrent ==
  Verdict = "compatible" =>
    \/ cleared
    \/ symbols # None /\ symbols.chunker = Binaries[bin]["chunker_version"]

(* index.rs:295: when --incremental says that the index is up to date, HEAD's
   history has rows and the symbols are HEAD's, unless HEAD once moved back or
   a --force was cut short. *)
UpToDateIsTrue ==
  [][UpToDate =>
       /\ \A i \in 1..head : rows[i] # None
       /\ cleared \/ strayed \/ (symbols # None /\ symbols.at = head)]_vars

=============================================================================
