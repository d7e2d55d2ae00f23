--------------------------- MODULE IndexPipeline ---------------------------
(***************************************************************************)
(* One `ohara index` process at a time over one repository: the commit     *)
(* walk from the watermark, the walker task, the bounded channel, the      *)
(* worker tasks and their two storage transactions per commit, the joins,  *)
(* and the tail of Indexer::run (HEAD symbols, watermark, metadata), with  *)
(* per-commit errors, panicking workers, a failing tail and a process that *)
(* dies anywhere and is started again.                                     *)
(***************************************************************************)
EXTENDS Naturals, Sequences, FiniteSets

CONSTANTS
  Commit,       \* the commits git may ever show
  Anc,          \* Anc[c]: c and every ancestor of c
  HeadMoves,    \* pairs <<c, d>>: the user may move HEAD from c to d
  Ignored,      \* commits with changed paths, all of them ignored
  NoHunks,      \* commits with an empty diff
  Workers,      \* the worker tasks of one run
  None,         \* no commit
  MaxCrashes,   \* bound on process deaths
  MaxErrors,    \* bound on failing calls
  MaxPanics     \* bound on worker panics

ASSUME HistoryAssumption ==
  /\ Anc \in [Commit -> SUBSET Commit]
  /\ \A c \in Commit : c \in Anc[c]
  /\ \A c, d \in Commit : d \in Anc[c] => Anc[d] \subseteq Anc[c]
  /\ HeadMoves \subseteq Commit \X Commit
  /\ Ignored \subseteq Commit
  /\ NoHunks \subseteq Commit \ Ignored
  /\ None \notin Commit

ASSUME PipelineAssumption ==
  /\ IsFiniteSet(Workers)
  /\ Workers # {}
  /\ {MaxCrashes, MaxErrors, MaxPanics} \subseteq Nat

VARIABLES
  head,         \* the commit HEAD names
  rows,         \* commit_record: commits with a row
  hunks,        \* hunk and its mirrors: commits whose hunks are stored
  watermark,    \* repo.last_indexed_commit
  symbols,      \* the commit whose tree the symbol table holds
  stamped,      \* index_metadata has been written
  phase,        \* where Indexer::run is
  target,       \* walk_last_sha
  todo,         \* commits the walker has not looked at yet
  held,         \* the commit the walker is sending
  queue,        \* the channel
  at,           \* at[w]: the stage worker w is in
  job,          \* job[w]: the commit worker w has
  failed,       \* failed[w]: the commits WorkerResult.failed counts
  crashes, errors, panics,
  lost          \* history: commits some fault made the indexer give up on

store == <<rows, hunks, watermark, symbols, stamped>>
walker == <<target, todo, held>>
workers == <<at, job, failed>>
faults == <<crashes, errors, panics, lost>>
vars == <<head, store, phase, walker, queue, workers, faults>>

Phase == {"idle", "pipeline", "symbols", "watermark", "metadata"}
Stage == {"recv", "prepare", "commit", "hunks", "exited", "dead"}

(* The stages in which a worker runs run_commit_owned. *)
Busy(w) == at[w] \in {"prepare", "commit", "hunks"}
Finished(w) == at[w] \in {"exited", "dead"}

InQueue == {queue[i] : i \in 1..Len(queue)}
InHand == {job[w] : w \in {v \in Workers : Busy(v)}}

TypeOK ==
  /\ head \in Commit
  /\ rows \in SUBSET Commit
  /\ hunks \in SUBSET Commit
  /\ watermark \in Commit \union {None}
  /\ symbols \in Commit \union {None}
  /\ stamped \in BOOLEAN
  /\ phase \in Phase
  /\ target \in Commit \union {None}
  /\ todo \in SUBSET Commit
  /\ held \in Commit \union {None}
  /\ queue \in Seq(Commit) /\ Len(queue) <= Cardinality(Workers)
  /\ at \in [Workers -> Stage]
  /\ job \in [Workers -> Commit \union {None}]
  /\ failed \in [Workers -> SUBSET Commit]
  /\ crashes \in 0..MaxCrashes
  /\ errors \in 0..MaxErrors
  /\ panics \in 0..MaxPanics
  /\ lost \in SUBSET Commit

(* The commits `since` hides: the watermark and its ancestors. *)
Hidden == IF watermark = None THEN {} ELSE Anc[watermark]

(* The next commit of the walk, parents before children. *)
Oldest(c) == c \in todo /\ Anc[c] \intersect todo = {c}

WalkerDone == todo = {} /\ held = None

(* Back to recv with nothing in hand. *)
Release(w) ==
  /\ at' = [at EXCEPT ![w] = "recv"]
  /\ job' = [job EXCEPT ![w] = None]

(* Commits whose row is committed and whose hunks are not. *)
Torn == (rows \ NoHunks) \ hunks

Init ==
  /\ head \in Commit
  /\ rows = {} /\ hunks = {} /\ watermark = None
  /\ symbols = None /\ stamped = FALSE
  /\ phase = "idle"
  /\ target = None /\ todo = {} /\ held = None
  /\ queue = <<>>
  /\ at = [w \in Workers |-> "exited"]
  /\ job = [w \in Workers |-> None]
  /\ failed = [w \in Workers |-> {}]
  /\ crashes = 0 /\ errors = 0 /\ panics = 0
  /\ lost = {}

----------------------------------------------------------------------------
(* Mutations: what a plausible bug would make of an action below. The        *)
(* properties at the end must tell each of them from the code.               *)

(* The sender outlives the walker: recv never returns None. *)
WorkerExit_senderKept(w) ==
  /\ phase # "pipeline" /\ at[w] = "recv" /\ queue = <<>>
  /\ at' = [at EXCEPT ![w] = "exited"]
  /\ UNCHANGED <<head, store, phase, walker, queue, job, failed, faults>>

(* Hunks are persisted before the row they reference. *)
Prepare_hunksFirst(w) ==
  /\ at[w] = "prepare"
  /\ at' = [at EXCEPT ![w] = "hunks"]
  /\ UNCHANGED <<head, store, phase, walker, queue, job, failed, faults>>

(* put_hunks commits its DELETE and loses its INSERTs. *)
PutHunks_deleteOnly(w) ==
  /\ at[w] = "hunks"
  /\ hunks' = hunks \ {job[w]}
  /\ Release(w)
  /\ UNCHANGED <<head, rows, watermark, symbols, stamped, phase, walker, queue,
                 failed, faults>>

(* The Err arm logs and forgets to count. *)
CommitFails_uncounted(w) ==
  /\ Busy(w)
  /\ errors < MaxErrors
  /\ errors' = errors + 1
  /\ lost' = lost \union {job[w]}
  /\ Release(w)
  /\ UNCHANGED <<head, store, phase, walker, queue, failed, crashes, panics>>

(* HEAD is read again instead of keeping the end of the walk. *)
SetWatermark_rereadsHead ==
  /\ phase = "watermark"
  /\ watermark' = head
  /\ phase' = "metadata"
  /\ UNCHANGED <<head, rows, hunks, symbols, stamped, walker, queue, workers, faults>>

----------------------------------------------------------------------------
(* The repository. *)

(* A commit, a merge, a checkout or a reset. *)
MoveHead ==
  /\ \E d \in Commit : <<head, d>> \in HeadMoves /\ head' = d
  /\ UNCHANGED <<store, phase, walker, queue, workers, faults>>

----------------------------------------------------------------------------
(* The run: run_timed_with_extractor and the actors it spawns. *)

StartRun ==
  /\ phase = "idle"
  /\ phase' = "pipeline"
  /\ todo' = Anc[head] \ Hidden
  /\ target' = IF todo' = {} THEN None ELSE head
  /\ held' = None
  /\ queue' = <<>>
  /\ at' = [w \in Workers |-> "recv"]
  /\ job' = [w \in Workers |-> None]
  /\ failed' = [w \in Workers |-> {}]
  /\ UNCHANGED <<head, store, faults>>

(* commit_exists says yes: the walker skips c. *)
WalkerSkip(c) ==
  /\ phase = "pipeline" /\ held = None
  /\ Oldest(c) /\ c \in rows
  /\ todo' = todo \ {c}
  /\ UNCHANGED <<head, store, phase, target, held, queue, workers, faults>>

WalkerTake(c) ==
  /\ phase = "pipeline" /\ held = None
  /\ Oldest(c) /\ c \notin rows
  /\ todo' = todo \ {c}
  /\ held' = c
  /\ UNCHANGED <<head, store, phase, target, queue, workers, faults>>

(* commit_exists fails: unwrap_or(false) sends a commit that has a row. *)
WalkerTakeUnchecked(c) ==
  /\ phase = "pipeline" /\ held = None
  /\ Oldest(c) /\ c \in rows
  /\ errors < MaxErrors
  /\ errors' = errors + 1
  /\ todo' = todo \ {c}
  /\ held' = c
  /\ UNCHANGED <<head, store, phase, target, queue, workers, crashes, panics, lost>>

(* tx.send: the channel holds as many commits as there are workers. *)
WalkerSend ==
  /\ phase = "pipeline" /\ held # None
  /\ Len(queue) < Cardinality(Workers)
  /\ queue' = Append(queue, held)
  /\ held' = None
  /\ UNCHANGED <<head, store, phase, target, todo, workers, faults>>

WorkerRecv(w) ==
  /\ phase = "pipeline" /\ at[w] = "recv" /\ queue # <<>>
  /\ queue' = Tail(queue)
  /\ job' = [job EXCEPT ![w] = Head(queue)]
  /\ at' = [at EXCEPT ![w] = "prepare"]
  /\ UNCHANGED <<head, store, phase, walker, failed, faults>>

(* recv returns None: the sender is gone and the channel is empty. *)
WorkerExit(w) ==
  /\ phase = "pipeline" /\ at[w] = "recv" /\ queue = <<>>
  /\ WalkerDone
  /\ at' = [at EXCEPT ![w] = "exited"]
  /\ UNCHANGED <<head, store, phase, walker, queue, job, failed, faults>>

(* Chunk, ignore filter, attribute, embed: no row is written. *)
Prepare(w) ==
  /\ at[w] = "prepare"
  /\ \/ /\ job[w] \in Ignored
        /\ Release(w)
     \/ /\ job[w] \notin Ignored
        /\ at' = [at EXCEPT ![w] = "commit"]
        /\ UNCHANGED job
  /\ UNCHANGED <<head, store, phase, walker, queue, failed, faults>>

(* The first transaction of PersistStage::run. *)
PutCommit(w) ==
  /\ at[w] = "commit"
  /\ rows' = rows \union {job[w]}
  /\ at' = [at EXCEPT ![w] = "hunks"]
  /\ UNCHANGED <<head, hunks, watermark, symbols, stamped, phase, walker, queue,
                 job, failed, faults>>

(* The second one: delete the commit's hunks, insert them; empty is a no-op. *)
PutHunks(w) ==
  /\ at[w] = "hunks"
  /\ hunks' = hunks \union ({job[w]} \ NoHunks)
  /\ Release(w)
  /\ UNCHANGED <<head, rows, watermark, symbols, stamped, phase, walker, queue,
                 failed, faults>>

(* Any stage of run_commit_owned returns Err: the commit is skipped. *)
CommitFails(w) ==
  /\ Busy(w)
  /\ errors < MaxErrors
  /\ errors' = errors + 1
  /\ failed' = [failed EXCEPT ![w] = @ \union {job[w]}]
  /\ lost' = lost \union {job[w]}
  /\ Release(w)
  /\ UNCHANGED <<head, store, phase, walker, queue, crashes, panics>>

(* The task unwinds; the receiver stays alive in run_actor_pipeline's frame. *)
WorkerPanics(w) ==
  /\ Busy(w)
  /\ panics < MaxPanics
  /\ panics' = panics + 1
  /\ lost' = lost \union {job[w]}
  /\ at' = [at EXCEPT ![w] = "dead"]
  /\ job' = [job EXCEPT ![w] = None]
  /\ UNCHANGED <<head, store, phase, walker, queue, failed, crashes, errors>>

(* Walker and workers have been awaited; what is left in the channel goes
   with the receiver. *)
Join ==
  /\ phase = "pipeline" /\ WalkerDone
  /\ \A w \in Workers : Finished(w)
  /\ phase' = "symbols"
  /\ queue' = <<>>
  /\ lost' = lost \union InQueue
  /\ UNCHANGED <<head, store, walker, workers, crashes, errors, panics>>

----------------------------------------------------------------------------
(* The tail of Indexer::run. *)

PutHeadSymbols ==
  /\ phase = "symbols"
  /\ symbols' = head
  /\ phase' = "watermark"
  /\ UNCHANGED <<head, rows, hunks, watermark, stamped, walker, queue, workers, faults>>

SetWatermark ==
  /\ phase = "watermark"
  /\ watermark' = IF target = None THEN watermark ELSE target
  /\ phase' = "metadata"
  /\ UNCHANGED <<head, rows, hunks, symbols, stamped, walker, queue, workers, faults>>

PutMetadata ==
  /\ phase = "metadata"
  /\ stamped' = TRUE
  /\ phase' = "idle"
  /\ UNCHANGED <<head, rows, hunks, watermark, symbols, walker, queue, workers, faults>>

(* A storage or symbol-source error in the tail ends the run. *)
TailFails ==
  /\ phase \in {"symbols", "watermark", "metadata"}
  /\ errors < MaxErrors
  /\ errors' = errors + 1
  /\ phase' = "idle"
  /\ UNCHANGED <<head, store, walker, queue, workers, crashes, panics, lost>>

(* Ctrl-C or kill: the tasks are gone, SQLite rolls an open transaction back. *)
Crash ==
  /\ phase # "idle"
  /\ crashes < MaxCrashes
  /\ crashes' = crashes + 1
  /\ lost' = lost \union Torn
  /\ phase' = "idle"
  /\ target' = None /\ todo' = {} /\ held' = None
  /\ queue' = <<>>
  /\ at' = [w \in Workers |-> "exited"]
  /\ job' = [w \in Workers |-> None]
  /\ failed' = [w \in Workers |-> {}]
  /\ UNCHANGED <<head, store, errors, panics>>

----------------------------------------------------------------------------
WalkerStep ==
  \/ \E c \in Commit : WalkerSkip(c) \/ WalkerTake(c)
  \/ WalkerSend

WorkerStep(w) ==
  WorkerRecv(w) \/ WorkerExit(w) \/ Prepare(w) \/ PutCommit(w) \/ PutHunks(w)

TailStep == PutHeadSymbols \/ SetWatermark \/ PutMetadata

Fault ==
  \/ \E c \in Commit : WalkerTakeUnchecked(c)
  \/ \E w \in Workers : CommitFails(w) \/ WorkerPanics(w)
  \/ TailFails
  \/ Crash

Next ==
  \/ MoveHead
  \/ StartRun
  \/ WalkerStep
  \/ \E w \in Workers : WorkerStep(w)
  \/ Join
  \/ TailStep
  \/ Fault

Spec == Init /\ [][Next]_vars

(* Every task the run spawned is polled until it ends. *)
Fairness ==
  /\ WF_vars(WalkerStep)
  /\ \A w \in Workers : WF_vars(WorkerStep(w))
  /\ WF_vars(Join)
  /\ WF_vars(TailStep)

FairSpec == Spec /\ Fairness

----------------------------------------------------------------------------
(* Correctness. *)

Contract == INSTANCE IndexContract WITH
  rows <- rows, hunks <- hunks, watermark <- watermark, lost <- lost
Settled(c) == Contract!Settled(c)

(* The promise of IndexContract, kept by the whole run, faults included. *)
ImplementsContract == Contract!Spec

(* Everything `hide(watermark)` hides from the next walk is in the index, or
   a fault made the run give it up: SetWatermark comes after every commit of
   the walk has left the channel and the workers. *)
IndexCoversWatermark ==
  \A c \in Hidden : Settled(c) \/ c \in lost

(* A row without its hunks has a worker between its two transactions, or a
   fault struck there: commit_exists hides every other kind of hole. *)
TornExplained ==
  \A c \in Torn : c \in lost \/ \E w \in Workers : at[w] = "hunks" /\ job[w] = c

(* No commit is twice in the walk, the channel and the workers: the DELETE in
   put_hunks never removes what another worker has just written. *)
OneWorkerPerCommit ==
  /\ \A i, j \in 1..Len(queue) : queue[i] = queue[j] => i = j
  /\ \A v, w \in Workers : Busy(v) /\ Busy(w) /\ job[v] = job[w] => v = w
  /\ held \notin todo \union InQueue \union InHand
  /\ todo \intersect (InQueue \union InHand) = {}
  /\ InQueue \intersect InHand = {}

(* What WorkerResult.failed adds up to: a panicked worker's counts are gone. *)
Reported == UNION {failed[w] : w \in {v \in Workers : at[v] = "exited"}}

(* When no worker panicked, each commit of the walk has a row, is fully
   ignored, or is counted in commits_failed before the watermark moves. *)
ReportAccountsForWalk ==
  (phase \in {"symbols", "watermark"} /\ target # None
     /\ \A w \in Workers : at[w] = "exited")
  => Anc[target] \ Hidden \subseteq rows \union Ignored \union Reported

(* One error or panic costs one commit, one crash at most one per worker, and
   the commits left in the channel only when every worker has panicked. *)
LossBound ==
  Cardinality(lost) <=
    errors + panics
    + Cardinality(Workers) * (crashes + panics \div Cardinality(Workers))

(* `--incremental` trusts the watermark alone, so the HEAD symbols must never
   be older than it, whenever the run stops (HEAD moving forward only). *)
SymbolsCoverWatermark ==
  watermark # None => symbols # None /\ watermark \in Anc[symbols]

(* A run over an older or the same checkout never rewinds the watermark. *)
WatermarkNeverRewinds ==
  [][watermark' # watermark => watermark' \notin Hidden]_vars

(* A run ends as long as one worker is left to drain the channel. *)
RunEnds == (phase = "pipeline") ~> (phase = "idle")

(* docs-book/src/architecture/indexing.md, "Abort-resume contract": re-running
   after an abort re-does the interrupted commits, hunks included. *)
AbortedCommitsAreRedone ==
  errors = 0 /\ panics = 0 => \A c \in Hidden : Settled(c)

=============================================================================
