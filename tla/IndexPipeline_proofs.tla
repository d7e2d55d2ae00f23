----------------------- MODULE IndexPipeline_proofs -----------------------
(***************************************************************************)
(* Proofs about IndexPipeline, for every history, every set of workers and *)
(* every bound on the faults: its types, its inductive invariant, the      *)
(* safety properties that follow from it, and that it implements           *)
(* IndexContract.                                                          *)
(***************************************************************************)
EXTENDS IndexPipeline, FiniteSetTheorems, TLAPS

(* The channel's capacity is a number. *)
LEMMA CapacityNat == Cardinality(Workers) \in Nat
BY FS_CardinalityType, PipelineAssumption

(* A worker that processes a commit has one in hand: with it, TypeOK is
   inductive. *)
JobInHand == \A w \in Workers : Busy(w) => job[w] \in Commit

TypeInv == TypeOK /\ JobInHand

LEMMA TypeInvInit == Init => TypeInv
<1> SUFFICES ASSUME Init PROVE TypeInv
  OBVIOUS
<1>1. <<>> \in Seq(Commit) /\ Len(<<>>) = 0
  OBVIOUS
<1>2. queue \in Seq(Commit) /\ Len(queue) <= Cardinality(Workers)
  BY <1>1, CapacityNat DEF Init
<1>3. crashes \in 0..MaxCrashes /\ errors \in 0..MaxErrors /\ panics \in 0..MaxPanics
  BY PipelineAssumption DEF Init
<1>4. JobInHand
  BY DEF Init, JobInHand, Busy
<1> QED
  BY <1>2, <1>3, <1>4 DEF Init, TypeInv, TypeOK, Stage, Phase

(* Every step keeps it: queue and counters within their bounds, and a commit
   in hand until the worker lets go of it. *)
LEMMA TypeInvStep == TypeInv /\ [Next]_vars => TypeInv'
<1> SUFFICES ASSUME TypeInv, [Next]_vars PROVE TypeInv'
  OBVIOUS
<1> USE DEF TypeInv, TypeOK, JobInHand, Busy, Stage, Phase, store, walker, workers, faults
<1>1. CASE MoveHead
  BY <1>1 DEF MoveHead
<1>2. CASE StartRun
  <2>1. Anc[head] \subseteq Commit
    BY HistoryAssumption
  <2>2. queue' = <<>> /\ <<>> \in Seq(Commit) /\ Len(<<>>) = 0
    BY <1>2 DEF StartRun
  <2> QED
    BY <1>2, <2>1, <2>2, CapacityNat DEF StartRun
<1>3. ASSUME NEW c \in Commit,
             WalkerSkip(c) \/ WalkerTake(c) \/ WalkerTakeUnchecked(c)
      PROVE  TypeInv'
  BY <1>3, PipelineAssumption DEF WalkerSkip, WalkerTake, WalkerTakeUnchecked
<1>4. CASE WalkerSend
  <2>1. held \in Commit /\ queue' = Append(queue, held)
    BY <1>4 DEF WalkerSend
  <2>2. queue' \in Seq(Commit) /\ Len(queue') = Len(queue) + 1
    BY <2>1
  <2>3. Len(queue') <= Cardinality(Workers)
    BY <1>4, <2>2, CapacityNat DEF WalkerSend
  <2> QED
    BY <1>4, <2>2, <2>3 DEF WalkerSend
<1>5. ASSUME NEW w \in Workers, WorkerRecv(w)
      PROVE  TypeInv'
  <2>1. /\ Head(queue) \in Commit
        /\ Tail(queue) \in Seq(Commit)
        /\ Len(Tail(queue)) = Len(queue) - 1
    BY <1>5 DEF WorkerRecv
  <2> QED
    BY <1>5, <2>1, CapacityNat DEF WorkerRecv
<1>6. ASSUME NEW w \in Workers, WorkerExit(w) \/ Prepare(w)
      PROVE  TypeInv'
  BY <1>6 DEF WorkerExit, Prepare, Release
<1>7. ASSUME NEW w \in Workers, PutCommit(w) \/ PutHunks(w)
      PROVE  TypeInv'
  BY <1>7 DEF PutCommit, PutHunks, Release
<1>8. ASSUME NEW w \in Workers, CommitFails(w)
      PROVE  TypeInv'
  BY <1>8, PipelineAssumption DEF CommitFails, Release
<1>9. ASSUME NEW w \in Workers, WorkerPanics(w)
      PROVE  TypeInv'
  BY <1>9, PipelineAssumption DEF WorkerPanics
<1>10. CASE Join
  <2>1. queue' = <<>> /\ <<>> \in Seq(Commit) /\ Len(<<>>) = 0
    BY <1>10 DEF Join
  <2>2. InQueue \subseteq Commit
    BY DEF InQueue
  <2> QED
    BY <1>10, <2>1, <2>2, CapacityNat DEF Join
<1>11. CASE TailStep
  BY <1>11 DEF TailStep, PutHeadSymbols, SetWatermark, PutMetadata
<1>12. CASE TailFails
  BY <1>12, PipelineAssumption DEF TailFails
<1>13. CASE Crash
  <2>1. queue' = <<>> /\ <<>> \in Seq(Commit) /\ Len(<<>>) = 0
    BY <1>13 DEF Crash
  <2> QED
    BY <1>13, <2>1, CapacityNat, PipelineAssumption DEF Crash, Torn
<1>14. CASE UNCHANGED vars
  BY <1>14 DEF vars
<1> QED
  BY <1>1, <1>2, <1>3, <1>4, <1>5, <1>6, <1>7, <1>8, <1>9, <1>10, <1>11, <1>12,
     <1>13, <1>14
  DEF Next, WalkerStep, WorkerStep, Fault

LEMMA TypeInvAlways == Spec => []TypeInv
BY TypeInvInit, TypeInvStep, PTL DEF Spec

(* Every variable stays in its type and the channel within its capacity, in
   every run, with every fault. *)
THEOREM TypeCorrect == Spec => []TypeOK
<1>1. TypeInv => TypeOK
  BY DEF TypeInv
<1> QED
  BY <1>1, TypeInvAlways, PTL

----------------------------------------------------------------------------
(* The inductive invariant. *)

(* A commit of the walk some task still has to bring to the index. *)
OnItsWay(c) ==
  \/ c \in todo \/ c = held \/ c \in InQueue
  \/ \E w \in Workers : Busy(w) /\ job[w] = c

(* While a run lasts, no commit below the end of its walk has been dropped. *)
WalkAccounted ==
  phase # "idle" /\ target # None =>
    \A c \in Anc[target] : Settled(c) \/ c \in lost \/ OnItsWay(c)

(* Outside the pipeline no task is left and nothing is in flight. *)
NothingInFlight ==
  phase # "pipeline" =>
    WalkerDone /\ queue = <<>> /\ \A w \in Workers : Finished(w)

(* The foreign key of hunk.commit_sha. *)
RowBeforeHunks == \A w \in Workers : at[w] = "hunks" => job[w] \in rows

(* What the walk ends in was not in the index when the run read it. *)
TargetIsNew ==
  phase \notin {"idle", "metadata"} /\ target # None => target \notin Hidden

IndInv ==
  /\ TypeInv
  /\ NothingInFlight
  /\ RowBeforeHunks
  /\ TornExplained
  /\ WalkAccounted
  /\ IndexCoversWatermark
  /\ TargetIsNew

LEMMA IndInvInit == Init => IndInv
BY TypeInvInit
DEF Init, IndInv, NothingInFlight, RowBeforeHunks, TornExplained, WalkAccounted,
    IndexCoversWatermark, TargetIsNew, Torn, Hidden, WalkerDone, Finished

(* A step that touches neither the index nor what is in flight. *)
LEMMA IndInvFrame ==
  ASSUME IndInv, TypeInv',
         UNCHANGED <<rows, hunks, watermark, phase, target, todo, held, queue,
                     at, job, lost>>
  PROVE  IndInv'
BY DEF IndInv, NothingInFlight, RowBeforeHunks, TornExplained, WalkAccounted,
       IndexCoversWatermark, TargetIsNew, OnItsWay, InQueue, Torn, Hidden,
       WalkerDone, Finished, Busy, Settled, Contract!Settled

(* A commit that has a row is settled, given up, or still with the worker that
   wrote the row: the walker may skip it. *)
LEMMA RowIsAccounted ==
  ASSUME IndInv, NEW c \in rows
  PROVE  Settled(c) \/ c \in lost \/ \E w \in Workers : Busy(w) /\ job[w] = c
BY DEF IndInv, TornExplained, Torn, Busy, Settled, Contract!Settled

(* A walk starts with everything it is about to hide accounted for. *)
LEMMA StartRunKeeps ==
  ASSUME IndInv, TypeInv', StartRun
  PROVE  IndInv'
<1> USE DEF StartRun, store, faults, IndInv
<1>1. NothingInFlight' /\ RowBeforeHunks'
  BY DEF NothingInFlight, RowBeforeHunks, TypeInv, TypeOK
<1>2. TornExplained'
  <2>1. \A w \in Workers : at[w] # "hunks"
    BY DEF NothingInFlight, Finished
  <2> QED
    BY <2>1 DEF TornExplained, Torn
<1>3. IndexCoversWatermark'
  BY DEF IndexCoversWatermark, Hidden, Settled, Contract!Settled
<1>4. WalkAccounted'
  <2>1. target' # None => target' = head
    OBVIOUS
  <2>2. \A c \in Anc[head] : c \in Hidden \/ c \in todo'
    OBVIOUS
  <2>3. \A c \in Hidden : Settled(c)' \/ c \in lost'
    BY DEF IndexCoversWatermark, Settled, Contract!Settled
  <2> QED
    BY <2>1, <2>2, <2>3 DEF WalkAccounted, OnItsWay
<1>5. TargetIsNew'
  <2>1. head \in Hidden => Anc[head] \subseteq Hidden
    BY HistoryAssumption DEF Hidden, TypeInv, TypeOK
  <2> QED
    BY <2>1 DEF TargetIsNew, Hidden
<1> QED
  BY <1>1, <1>2, <1>3, <1>4, <1>5

(* The walker drops a commit only when its row accounts for it. *)
LEMMA WalkerKeeps ==
  ASSUME IndInv, TypeInv', NEW c \in Commit,
         WalkerSkip(c) \/ WalkerTake(c) \/ WalkerTakeUnchecked(c)
  PROVE  IndInv'
<1> USE DEF WalkerSkip, WalkerTake, WalkerTakeUnchecked, Oldest, store, workers,
            faults, IndInv
<1>1. UNCHANGED <<rows, hunks, watermark, phase, target, queue, at, job, lost>>
  OBVIOUS
<1>2. /\ NothingInFlight' /\ RowBeforeHunks' /\ TornExplained'
      /\ IndexCoversWatermark' /\ TargetIsNew'
  BY <1>1
  DEF NothingInFlight, RowBeforeHunks, TornExplained, IndexCoversWatermark,
      TargetIsNew, Torn, Hidden, Finished, Settled, Contract!Settled
<1>3. WalkAccounted'
  <2>1. held = None /\ todo' = todo \ {c}
    OBVIOUS
  <2>2. c \in rows \/ held' = c
    OBVIOUS
  <2>3. Settled(c) \/ c \in lost \/ OnItsWay(c)'
    BY <1>1, <2>2, RowIsAccounted DEF OnItsWay, Busy
  <2>4. \A d \in Commit : OnItsWay(d) => d = c \/ OnItsWay(d)'
    BY <1>1, <2>1, HistoryAssumption DEF OnItsWay, Busy, InQueue
  <2>5. \A d \in Commit : Settled(d)' = Settled(d)
    BY <1>1 DEF Settled, Contract!Settled
  <2>6. target # None => Anc[target] \subseteq Commit
    BY HistoryAssumption DEF TypeInv, TypeOK
  <2> QED
    BY <1>1, <2>3, <2>4, <2>5, <2>6 DEF WalkAccounted
<1> QED
  BY <1>2, <1>3

(* The channel hands on what it is given: WalkerSend and WorkerRecv only move
   a commit along its way. *)
LEMMA SendKeeps ==
  ASSUME IndInv, TypeInv', WalkerSend
  PROVE  IndInv'
<1> USE DEF WalkerSend, store, workers, faults, IndInv
<1>1. /\ NothingInFlight' /\ RowBeforeHunks' /\ TornExplained'
      /\ IndexCoversWatermark' /\ TargetIsNew'
  BY DEF NothingInFlight, RowBeforeHunks, TornExplained, IndexCoversWatermark,
         TargetIsNew, Torn, Hidden, Finished, Settled, Contract!Settled
<1>2. InQueue' = InQueue \union {held}
  <2>1. held \in Commit /\ queue \in Seq(Commit) /\ queue' = Append(queue, held)
    BY DEF TypeInv, TypeOK
  <2> QED
    BY <2>1 DEF InQueue
<1>3. \A c : OnItsWay(c) => OnItsWay(c)'
  BY <1>2 DEF OnItsWay, Busy
<1>4. WalkAccounted'
  BY <1>3 DEF WalkAccounted, Settled, Contract!Settled
<1> QED
  BY <1>1, <1>4

LEMMA RecvKeeps ==
  ASSUME IndInv, TypeInv', NEW w \in Workers, WorkerRecv(w)
  PROVE  IndInv'
<1> USE DEF WorkerRecv, store, walker, faults, IndInv
<1>1. /\ at[w] = "recv" /\ job' = [job EXCEPT ![w] = Head(queue)]
      /\ at' = [at EXCEPT ![w] = "prepare"]
      /\ at \in [Workers -> Stage] /\ job \in [Workers -> Commit \union {None}]
  BY DEF TypeInv, TypeOK
<1>2. /\ NothingInFlight' /\ RowBeforeHunks' /\ TornExplained'
      /\ IndexCoversWatermark' /\ TargetIsNew'
  BY <1>1
  DEF NothingInFlight, RowBeforeHunks, TornExplained, IndexCoversWatermark,
      TargetIsNew, Torn, Hidden, Settled, Contract!Settled
<1>3. InQueue \subseteq InQueue' \union {Head(queue)}
  <2>1. queue \in Seq(Commit) /\ queue # <<>> /\ queue' = Tail(queue)
    BY DEF TypeInv, TypeOK
  <2>2. ASSUME NEW i \in 1..Len(queue), i # 1
        PROVE  i - 1 \in 1..Len(queue') /\ queue'[i - 1] = queue[i]
    BY <2>1, <2>2
  <2> QED
    BY <2>1, <2>2 DEF InQueue
<1>4. \A c : OnItsWay(c) => OnItsWay(c)'
  BY <1>1, <1>3 DEF OnItsWay, Busy
<1>5. WalkAccounted'
  BY <1>4 DEF WalkAccounted, Settled, Contract!Settled
<1> QED
  BY <1>2, <1>5

(* A worker lets go of a commit that is settled or given up: the four ways to
   do so differ in which. *)
LEMMA LetGoKeeps ==
  ASSUME IndInv, TypeInv', NEW w \in Workers, Busy(w), NEW s \in Stage,
         NEW c \in Commit, job[w] = c,
         s \notin {"prepare", "commit", "hunks"},
         at' = [at EXCEPT ![w] = s],
         job' = [job EXCEPT ![w] = None],
         UNCHANGED <<rows, watermark, phase, target, todo, held, queue>>,
         hunks \subseteq hunks', lost \subseteq lost',
         Settled(c)' \/ c \in lost',
         hunks' \subseteq hunks \union {c},
         at[w] = "hunks" => c \notin Torn' \/ c \in lost'
  PROVE  IndInv'
<1> USE DEF IndInv
<1>1. at \in [Workers -> Stage] /\ job \in [Workers -> Commit \union {None}]
  BY DEF TypeInv, TypeOK
<1>2. phase = "pipeline"
  BY DEF NothingInFlight, Busy, Finished
<1>3. \A d : Settled(d) => Settled(d)'
  BY DEF Settled, Contract!Settled
<1>4. NothingInFlight' /\ RowBeforeHunks' /\ TargetIsNew'
  BY <1>1, <1>2 DEF NothingInFlight, RowBeforeHunks, TargetIsNew, Hidden
<1>5. TornExplained'
  BY <1>1 DEF TornExplained, Torn
<1>6. IndexCoversWatermark'
  BY <1>3 DEF IndexCoversWatermark, Hidden
<1>7. \A d : OnItsWay(d) => d = c \/ OnItsWay(d)'
  BY <1>1 DEF OnItsWay, Busy, InQueue
<1>8. WalkAccounted'
  BY <1>3, <1>7 DEF WalkAccounted
<1> QED
  BY <1>4, <1>5, <1>6, <1>8

LEMMA WorkerKeeps ==
  ASSUME IndInv, TypeInv', NEW w \in Workers,
         WorkerExit(w) \/ Prepare(w) \/ PutCommit(w) \/ PutHunks(w)
  PROVE  IndInv'
<1> USE DEF store, walker, workers, faults
<1> PICK c \in Commit \union {None} : c = job[w]
  BY DEF IndInv, TypeInv, TypeOK
<1>1. at \in [Workers -> Stage] /\ job \in [Workers -> Commit \union {None}]
  BY DEF IndInv, TypeInv, TypeOK
<1>2. CASE WorkerExit(w)
  BY <1>1, <1>2
  DEF WorkerExit, IndInv, NothingInFlight, RowBeforeHunks, TornExplained,
      WalkAccounted, IndexCoversWatermark, TargetIsNew, OnItsWay, InQueue, Torn,
      Hidden, Busy, Settled, Contract!Settled
<1>3. CASE Prepare(w) /\ c \in Ignored
  <2>1. Settled(c)' /\ at[w] # "hunks"
    BY <1>3 DEF Prepare, Settled, Contract!Settled
  <2> QED
    BY <1>3, <2>1, LetGoKeeps, HistoryAssumption
    DEF Prepare, Release, Busy, Stage
<1>4. CASE Prepare(w) /\ c \notin Ignored
  BY <1>1, <1>4
  DEF Prepare, IndInv, NothingInFlight, RowBeforeHunks, TornExplained,
      WalkAccounted, IndexCoversWatermark, TargetIsNew, OnItsWay, InQueue, Torn,
      Hidden, Busy, Finished, Settled, Contract!Settled
<1>5. CASE PutCommit(w)
  <2> USE <1>5, <1>1 DEF PutCommit, IndInv
  <2>1. NothingInFlight' /\ RowBeforeHunks' /\ TargetIsNew'
    BY DEF NothingInFlight, RowBeforeHunks, TargetIsNew, Finished, Hidden
  <2>2. TornExplained'
    BY DEF TornExplained, Torn
  <2>3. \A d : Settled(d) => Settled(d)'
    BY DEF Settled, Contract!Settled
  <2>4. \A d : OnItsWay(d) => OnItsWay(d)'
    BY DEF OnItsWay, Busy, InQueue
  <2> QED
    BY <2>1, <2>2, <2>3, <2>4 DEF WalkAccounted, IndexCoversWatermark, Hidden
<1>6. CASE PutHunks(w)
  <2>1. c \in rows /\ rows' = rows
    BY <1>6 DEF PutHunks, IndInv, RowBeforeHunks
  <2>2. Settled(c)' /\ c \notin Torn'
    BY <1>6, <2>1 DEF PutHunks, Settled, Contract!Settled, Torn
  <2>3. Busy(w) /\ c \in Commit
    BY <1>6 DEF PutHunks, IndInv, TypeInv, JobInHand, Busy
  <2> QED
    BY <1>6, <2>2, <2>3, LetGoKeeps DEF PutHunks, Release, Stage
<1> QED
  BY <1>2, <1>3, <1>4, <1>5, <1>6

LEMMA FaultKeeps ==
  ASSUME IndInv, TypeInv', NEW w \in Workers, CommitFails(w) \/ WorkerPanics(w)
  PROVE  IndInv'
<1>1. Busy(w) /\ job[w] \in Commit
  BY DEF CommitFails, WorkerPanics, IndInv, TypeInv, JobInHand
<1> QED
  BY <1>1, LetGoKeeps
  DEF CommitFails, WorkerPanics, Release, store, walker, Stage

(* Join comes after the last commit has left the workers; what is left in the
   channel is given up. *)
LEMMA JoinKeeps ==
  ASSUME IndInv, TypeInv', Join
  PROVE  IndInv'
<1> USE DEF Join, store, walker, workers, IndInv
<1>1. /\ NothingInFlight' /\ RowBeforeHunks' /\ TornExplained'
      /\ IndexCoversWatermark' /\ TargetIsNew'
  BY DEF NothingInFlight, RowBeforeHunks, TornExplained, IndexCoversWatermark,
         TargetIsNew, Torn, Hidden, Finished, WalkerDone, Settled,
         Contract!Settled
<1>2. \A c : OnItsWay(c) => OnItsWay(c)' \/ c \in lost'
  BY DEF OnItsWay, Busy
<1>3. WalkAccounted'
  BY <1>2 DEF WalkAccounted, Settled, Contract!Settled
<1> QED
  BY <1>1, <1>3

(* The watermark moves when nothing of the walk is in flight any more. *)
LEMMA TailKeeps ==
  ASSUME IndInv, TypeInv', TailStep \/ TailFails
  PROVE  IndInv'
<1> USE DEF store, walker, workers, faults, IndInv
<1>1. CASE PutHeadSymbols \/ PutMetadata \/ TailFails
  BY <1>1
  DEF PutHeadSymbols, PutMetadata, TailFails, NothingInFlight, RowBeforeHunks,
      TornExplained, WalkAccounted, IndexCoversWatermark, TargetIsNew, OnItsWay,
      InQueue, Torn, Hidden, WalkerDone, Finished, Busy, Settled,
      Contract!Settled
<1>2. CASE SetWatermark
  <2> USE <1>2 DEF SetWatermark
  <2>1. \A c : ~OnItsWay(c) \/ c = None
    BY DEF NothingInFlight, WalkerDone, Finished, Busy, OnItsWay, InQueue
  <2>2. target # None =>
          target \in Commit /\ Anc[target] \subseteq Commit /\ None \notin Anc[target]
    BY HistoryAssumption DEF TypeInv, TypeOK
  <2>3. target # None => \A c \in Anc[target] : Settled(c) \/ c \in lost
    BY <2>1, <2>2 DEF WalkAccounted
  <2>4. IndexCoversWatermark'
    BY <2>3 DEF IndexCoversWatermark, Hidden, Settled, Contract!Settled
  <2>5. /\ NothingInFlight' /\ RowBeforeHunks' /\ TornExplained'
        /\ WalkAccounted' /\ TargetIsNew'
    BY DEF NothingInFlight, RowBeforeHunks, TornExplained, WalkAccounted,
           TargetIsNew, OnItsWay, InQueue, Torn, WalkerDone, Finished, Busy,
           Settled, Contract!Settled
  <2> QED
    BY <2>4, <2>5
<1> QED
  BY <1>1, <1>2 DEF TailStep

(* A crash gives up every commit it leaves without its hunks. *)
LEMMA CrashKeeps ==
  ASSUME IndInv, TypeInv', Crash
  PROVE  IndInv'
BY DEF Crash, store, IndInv, NothingInFlight, RowBeforeHunks, TornExplained,
       WalkAccounted, IndexCoversWatermark, TargetIsNew, Torn, Hidden,
       WalkerDone, Finished, Settled, Contract!Settled

LEMMA IndInvStep == IndInv /\ [Next]_vars => IndInv'
<1> SUFFICES ASSUME IndInv, [Next]_vars PROVE IndInv'
  OBVIOUS
<1> USE TypeInvStep
<1>1. TypeInv'
  BY DEF IndInv
<1>2. CASE MoveHead \/ UNCHANGED vars
  BY <1>1, <1>2, IndInvFrame DEF MoveHead, vars, store, walker, workers, faults
<1>3. CASE StartRun
  BY <1>1, <1>3, StartRunKeeps
<1>4. ASSUME NEW c \in Commit,
             WalkerSkip(c) \/ WalkerTake(c) \/ WalkerTakeUnchecked(c)
      PROVE  IndInv'
  BY <1>1, <1>4, WalkerKeeps
<1>5. CASE WalkerSend
  BY <1>1, <1>5, SendKeeps
<1>6. ASSUME NEW w \in Workers, WorkerStep(w)
      PROVE  IndInv'
  BY <1>1, <1>6, RecvKeeps, WorkerKeeps DEF WorkerStep
<1>7. ASSUME NEW w \in Workers, CommitFails(w) \/ WorkerPanics(w)
      PROVE  IndInv'
  BY <1>1, <1>7, FaultKeeps
<1>8. CASE Join
  BY <1>1, <1>8, JoinKeeps
<1>9. CASE TailStep \/ TailFails
  BY <1>1, <1>9, TailKeeps
<1>10. CASE Crash
  BY <1>1, <1>10, CrashKeeps
<1> QED
  BY <1>2, <1>3, <1>4, <1>5, <1>6, <1>7, <1>8, <1>9, <1>10
  DEF Next, WalkerStep, Fault

LEMMA IndInvAlways == Spec => []IndInv
BY IndInvInit, IndInvStep, PTL DEF Spec

----------------------------------------------------------------------------
(* What follows. *)

(* Whatever `hide(watermark)` hides from a walk is in the index, or a fault
   made a run give it up. *)
THEOREM CoverageHolds == Spec => []IndexCoversWatermark
<1>1. IndInv => IndexCoversWatermark
  BY DEF IndInv
<1> QED
  BY <1>1, IndInvAlways, PTL

(* A row without its hunks has a worker between its two transactions, or a
   fault struck between them. *)
THEOREM TornIsExplained == Spec => []TornExplained
<1>1. IndInv => TornExplained
  BY DEF IndInv
<1> QED
  BY <1>1, IndInvAlways, PTL

(* Only SetWatermark moves the watermark, and never to a commit it already
   covered. *)
THEOREM NoRewind == Spec => WatermarkNeverRewinds
<1>1. IndInv /\ [Next]_vars => [watermark' # watermark => watermark' \notin Hidden]_vars
  <2> SUFFICES ASSUME IndInv, [Next]_vars, watermark' # watermark
               PROVE  watermark' \notin Hidden
    OBVIOUS
  <2>1. SetWatermark
    BY DEF Next, vars, store, walker, workers, faults, MoveHead, StartRun,
           WalkerStep, WalkerSkip, WalkerTake, WalkerTakeUnchecked, WalkerSend,
           WorkerStep, WorkerRecv, WorkerExit, Prepare, PutCommit, PutHunks,
           CommitFails, WorkerPanics, Join, TailStep, PutHeadSymbols,
           PutMetadata, Fault, TailFails, Crash
  <2> QED
    BY <2>1 DEF SetWatermark, IndInv, TargetIsNew
<1> QED
  BY <1>1, IndInvAlways, PTL DEF Spec, WatermarkNeverRewinds

----------------------------------------------------------------------------
(* IndexPipeline implements IndexContract. *)

(* One action at a time: PutCommit adds a row, PutHunks adds hunks below a row,
   the faults, Join and Crash give up, SetWatermark advances; the others
   stutter. *)
LEMMA StepsImplement ==
  IndInv /\ [Next]_vars => [Contract!Next]_(Contract!contractVars)
<1> SUFFICES ASSUME IndInv, [Next]_vars
             PROVE  Contract!Next \/ UNCHANGED Contract!contractVars
  OBVIOUS
<1> USE DEF store, walker, workers, faults
<1>1. CASE \/ MoveHead \/ StartRun \/ WalkerSend \/ TailFails \/ UNCHANGED vars
           \/ PutHeadSymbols \/ PutMetadata
  BY <1>1
  DEF MoveHead, StartRun, WalkerSend, TailFails, PutHeadSymbols, PutMetadata, vars,
      Contract!contractVars
<1>2. ASSUME NEW c \in Commit,
             WalkerSkip(c) \/ WalkerTake(c) \/ WalkerTakeUnchecked(c)
      PROVE  UNCHANGED Contract!contractVars
  BY <1>2 DEF WalkerSkip, WalkerTake, WalkerTakeUnchecked, Contract!contractVars
<1>3. ASSUME NEW w \in Workers, WorkerRecv(w) \/ WorkerExit(w) \/ Prepare(w)
      PROVE  UNCHANGED Contract!contractVars
  BY <1>3 DEF WorkerRecv, WorkerExit, Prepare, Contract!contractVars
<1>4. ASSUME NEW w \in Workers, Busy(w)
      PROVE  job[w] \in Commit
  BY <1>4 DEF IndInv, TypeInv, JobInHand
<1>5. ASSUME NEW w \in Workers, PutCommit(w)
      PROVE  Contract!Next
  <2>1. Contract!AddRow(job[w])
    BY <1>5 DEF PutCommit, Contract!AddRow
  <2> QED
    BY <1>4, <1>5, <2>1 DEF PutCommit, Busy, Contract!Next
<1>6. ASSUME NEW w \in Workers, PutHunks(w)
      PROVE  Contract!Next \/ UNCHANGED Contract!contractVars
  <2>1. job[w] \in rows
    BY <1>6 DEF PutHunks, IndInv, RowBeforeHunks
  <2>2. CASE job[w] \in NoHunks
    BY <1>6, <2>2 DEF PutHunks, Contract!contractVars
  <2>3. CASE job[w] \notin NoHunks
    <3>1. Contract!AddHunks(job[w])
      BY <1>6, <2>1, <2>3 DEF PutHunks, Contract!AddHunks
    <3> QED
      BY <1>4, <1>6, <3>1 DEF PutHunks, Busy, Contract!Next
  <2> QED
    BY <2>2, <2>3
<1>7. ASSUME NEW S \in SUBSET Commit, lost' = lost \union S,
             UNCHANGED <<rows, hunks, watermark>>
      PROVE  Contract!Next
  BY <1>7 DEF Contract!Next, Contract!GiveUp
<1>8. ASSUME NEW w \in Workers, CommitFails(w) \/ WorkerPanics(w)
      PROVE  Contract!Next
  <2>1. {job[w]} \in SUBSET Commit
    BY <1>4, <1>8 DEF CommitFails, WorkerPanics
  <2> QED
    BY <1>7, <1>8, <2>1 DEF CommitFails, WorkerPanics
<1>9. CASE Join
  <2>1. InQueue \in SUBSET Commit
    BY DEF InQueue, IndInv, TypeInv, TypeOK
  <2> QED
    BY <1>7, <1>9, <2>1 DEF Join
<1>10. CASE Crash
  <2>1. Torn \in SUBSET Commit
    BY DEF Torn, IndInv, TypeInv, TypeOK
  <2> QED
    BY <1>7, <1>10, <2>1 DEF Crash
<1>11. CASE SetWatermark
  <2>1. CASE target = None
    BY <1>11, <2>1 DEF SetWatermark, Contract!contractVars
  <2>2. CASE target # None
    <3>1. IndInv'
      BY IndInvStep
    <3>2. watermark' = target /\ target \in Commit /\ target # None
      BY <1>11, <2>2 DEF SetWatermark, IndInv, TypeInv, TypeOK
    <3>3. UNCHANGED <<rows, hunks, lost>>
      BY <1>11 DEF SetWatermark
    <3>4. \A a \in Anc[target] : Settled(a) \/ a \in lost
      BY <3>1, <3>2, <3>3
      DEF IndInv, IndexCoversWatermark, Hidden, Settled, Contract!Settled
    <3>5. Contract!Advance(target)
      BY <3>2, <3>3, <3>4 DEF Contract!Advance, Settled
    <3> QED
      BY <3>2, <3>5 DEF Contract!Next
  <2> QED
    BY <2>1, <2>2
<1> QED
  BY <1>1, <1>2, <1>3, <1>5, <1>6, <1>8, <1>9, <1>10, <1>11
  DEF Next, WalkerStep, WorkerStep, TailStep, Fault

(* Every behaviour of the indexer, faults included, is one a reader of the
   index may rely on. *)
THEOREM PipelineImplementsContract == Spec => ImplementsContract
<1>1. Init => Contract!Init
  BY DEF Init, Contract!Init
<1> QED
  BY <1>1, StepsImplement, IndInvAlways, PTL
  DEF Spec, ImplementsContract, Contract!Spec

----------------------------------------------------------------------------
(* One worker per commit. *)

(* Receiving takes a commit out of the channel for good: it was there once. *)
LEMMA RecvTakesOut ==
  ASSUME TypeInv, OneWorkerPerCommit, NEW w \in Workers, WorkerRecv(w)
  PROVE  /\ InQueue' = InQueue \ {Head(queue)}
         /\ Head(queue) \in InQueue
         /\ \A i, j \in 1..Len(queue') : queue'[i] = queue'[j] => i = j
<1>1. queue \in Seq(Commit) /\ queue # <<>> /\ queue' = Tail(queue)
  BY DEF WorkerRecv, TypeInv, TypeOK
<1>2. Len(queue) \in Nat /\ Len(queue) > 0 /\ Head(queue) = queue[1]
  BY <1>1
<1>3. Len(queue') = Len(queue) - 1 /\ \A i \in 1..Len(queue') : queue'[i] = queue[i + 1]
  BY <1>1
<1>4. \A i, j \in 1..Len(queue) : queue[i] = queue[j] => i = j
  BY DEF OneWorkerPerCommit
<1>5. \A i, j \in 1..Len(queue') : queue'[i] = queue'[j] => i = j
  <2> SUFFICES ASSUME NEW i \in 1..Len(queue'), NEW j \in 1..Len(queue'),
                      queue'[i] = queue'[j]
               PROVE  i = j
    OBVIOUS
  <2>1. i + 1 \in 1..Len(queue) /\ j + 1 \in 1..Len(queue)
    BY <1>2, <1>3
  <2>2. i + 1 = j + 1
    BY <1>3, <1>4, <2>1
  <2> QED
    BY <1>3, <2>2
<1>6. InQueue' \subseteq InQueue \ {Head(queue)}
  <2> SUFFICES ASSUME NEW i \in 1..Len(queue')
               PROVE  queue'[i] \in InQueue /\ queue'[i] # Head(queue)
    BY DEF InQueue
  <2>1. i + 1 \in 1..Len(queue) /\ 1 \in 1..Len(queue) /\ i + 1 # 1
    BY <1>2, <1>3
  <2> QED
    BY <1>2, <1>3, <1>4, <2>1 DEF InQueue
<1>7. InQueue \ {Head(queue)} \subseteq InQueue'
  <2> SUFFICES ASSUME NEW i \in 1..Len(queue), queue[i] # queue[1]
               PROVE  queue[i] \in InQueue'
    BY <1>2 DEF InQueue
  <2>1. i - 1 \in 1..Len(queue') /\ (i - 1) + 1 = i
    BY <1>2, <1>3
  <2> QED
    BY <1>3, <2>1 DEF InQueue
<1>8. Head(queue) \in InQueue
  <2>1. 1 \in 1..Len(queue)
    BY <1>2
  <2> QED
    BY <1>2, <2>1 DEF InQueue
<1>9. InQueue' = InQueue \ {Head(queue)}
  BY <1>6, <1>7
<1> QED
  BY <1>5, <1>8, <1>9

(* A commit moves from the walk to the channel to one worker, and is in one of
   them at a time. *)
LEMMA OneWorkerStep ==
  ASSUME TypeInv, TypeInv', OneWorkerPerCommit, [Next]_vars
  PROVE  OneWorkerPerCommit'
<1> USE DEF store, walker, workers, faults
<1>1. /\ todo \subseteq Commit /\ InQueue \subseteq Commit /\ InHand \subseteq Commit
      /\ None \notin Commit
  BY HistoryAssumption DEF TypeInv, TypeOK, JobInHand, InQueue, InHand
<1>2. at \in [Workers -> Stage] /\ job \in [Workers -> Commit \union {None}]
  BY DEF TypeInv, TypeOK
<1>3. ASSUME UNCHANGED <<todo, held, queue, at, job>>
      PROVE  OneWorkerPerCommit'
  BY <1>3 DEF OneWorkerPerCommit, InQueue, InHand, Busy
<1>4. CASE StartRun \/ Crash
  <2>1. queue' = <<>> /\ held' = None /\ InQueue' = {} /\ InHand' = {}
    BY <1>2, <1>4 DEF StartRun, Crash, InQueue, InHand, Busy
  <2>2. todo' \subseteq Commit
    BY DEF TypeInv, TypeOK
  <2>3. \A w \in Workers : ~Busy(w)'
    BY <1>2, <1>4 DEF StartRun, Crash, Busy
  <2> QED
    BY <1>1, <2>1, <2>2, <2>3 DEF OneWorkerPerCommit
<1>5. ASSUME NEW c \in Commit,
             WalkerSkip(c) \/ WalkerTake(c) \/ WalkerTakeUnchecked(c)
      PROVE  OneWorkerPerCommit'
  <2>1. /\ c \in todo /\ held = None /\ todo' = todo \ {c} /\ held' \in {None, c}
        /\ UNCHANGED <<queue, at, job>>
    BY <1>5 DEF WalkerSkip, WalkerTake, WalkerTakeUnchecked, Oldest
  <2> QED
    BY <1>1, <2>1 DEF OneWorkerPerCommit, InQueue, InHand, Busy
<1>6. CASE WalkerSend
  <2>1. /\ held \in Commit /\ queue \in Seq(Commit) /\ queue' = Append(queue, held)
        /\ held' = None /\ UNCHANGED <<todo, at, job>>
    BY <1>6 DEF WalkerSend, TypeInv, TypeOK
  <2>2. InQueue' = InQueue \union {held} /\ InHand' = InHand
    BY <2>1 DEF InQueue, InHand, Busy
  <2>3. \A i, j \in 1..Len(queue') : queue'[i] = queue'[j] => i = j
    BY <2>1 DEF OneWorkerPerCommit, InQueue
  <2> QED
    BY <1>1, <2>1, <2>2, <2>3 DEF OneWorkerPerCommit, Busy
<1>7. ASSUME NEW w \in Workers, WorkerRecv(w)
      PROVE  OneWorkerPerCommit'
  <2> DEFINE c == Head(queue)
  <2>1. /\ ~Busy(w) /\ at' = [at EXCEPT ![w] = "prepare"]
        /\ job' = [job EXCEPT ![w] = c] /\ UNCHANGED <<todo, held>>
    BY <1>7 DEF WorkerRecv, Busy
  <2>2. c \in InQueue /\ InQueue' = InQueue \ {c}
    BY <1>7, RecvTakesOut
  <2>3. InHand' \subseteq InHand \union {c}
    BY <1>2, <2>1 DEF InHand, Busy
  <2>4. \A v \in Workers : Busy(v) => job[v] # c
    BY <2>2 DEF OneWorkerPerCommit, InHand
  <2>5. \A u, v \in Workers : (Busy(u) /\ Busy(v) /\ job[u] = job[v])' => u = v
    BY <1>2, <2>1, <2>4 DEF OneWorkerPerCommit, Busy
  <2>6. \A i, j \in 1..Len(queue') : queue'[i] = queue'[j] => i = j
    BY <1>7, RecvTakesOut
  <2> HIDE DEF c
  <2> QED
    BY <2>1, <2>2, <2>3, <2>5, <2>6 DEF OneWorkerPerCommit
<1>8. ASSUME UNCHANGED <<todo, held, queue>>,
             \A v \in Workers : Busy(v)' => Busy(v) /\ job'[v] = job[v]
      PROVE  OneWorkerPerCommit'
  <2>1. InQueue' = InQueue /\ InHand' \subseteq InHand
    BY <1>8 DEF InQueue, InHand
  <2>2. \A u, v \in Workers : (Busy(u) /\ Busy(v) /\ job[u] = job[v])' => u = v
    BY <1>8 DEF OneWorkerPerCommit
  <2> QED
    BY <1>8, <2>1, <2>2 DEF OneWorkerPerCommit
<1>9. ASSUME NEW w \in Workers,
             WorkerExit(w) \/ Prepare(w) \/ PutCommit(w) \/ PutHunks(w)
               \/ CommitFails(w) \/ WorkerPanics(w)
      PROVE  OneWorkerPerCommit'
  BY <1>2, <1>8, <1>9
  DEF WorkerExit, Prepare, PutCommit, PutHunks, CommitFails, WorkerPanics, Release,
      Busy
<1>10. CASE Join
  <2>1. /\ queue' = <<>> /\ Len(<<>>) = 0 /\ InQueue' = {}
        /\ UNCHANGED <<todo, held, at, job>>
    BY <1>10 DEF Join, InQueue
  <2> QED
    BY <2>1 DEF OneWorkerPerCommit, InHand, Busy
<1>11. CASE MoveHead \/ TailStep \/ TailFails \/ UNCHANGED vars
  BY <1>3, <1>11
  DEF MoveHead, TailStep, PutHeadSymbols, SetWatermark, PutMetadata, TailFails, vars
<1> QED
  BY <1>4, <1>5, <1>6, <1>7, <1>9, <1>10, <1>11
  DEF Next, WalkerStep, WorkerStep, Fault

(* No two workers, and no worker and the channel, ever hold the same commit. *)
THEOREM NoSharedCommit == Spec => []OneWorkerPerCommit
<1>1. Init => OneWorkerPerCommit
  BY HistoryAssumption DEF Init, OneWorkerPerCommit, InQueue, InHand, Busy
<1> QED
  BY <1>1, OneWorkerStep, TypeInvInit, TypeInvStep, PTL DEF Spec

----------------------------------------------------------------------------
(* What the report accounts for. *)

(* A worker leaves only when the walk and the channel are empty: whatever is
   left in the channel, every worker panicked. *)
ExitLeavesNothing ==
  phase = "pipeline" => \A w \in Workers : at[w] = "exited" => WalkerDone /\ queue = <<>>

(* What the workers have counted so far, the running ones included. *)
Counted == UNION {failed[w] : w \in Workers}

(* Until a worker panics, each commit of the walk has a row, is ignored, is
   counted, or is on its way. *)
ReportInv ==
  phase \in {"pipeline", "symbols", "watermark"} /\ target # None
    /\ (\A w \in Workers : at[w] # "dead")
  => \A c \in Anc[target] \ Hidden : c \in rows \union Ignored \union Counted \/ OnItsWay(c)

LEMMA ExitStepKeeps ==
  ASSUME TypeInv, ExitLeavesNothing, [Next]_vars
  PROVE  ExitLeavesNothing'
<1> USE DEF ExitLeavesNothing, WalkerDone, TypeInv, TypeOK, store, walker, workers, faults
<1>1. CASE StartRun
  BY <1>1 DEF StartRun
<1>2. ASSUME NEW c \in Commit,
             WalkerSkip(c) \/ WalkerTake(c) \/ WalkerTakeUnchecked(c)
      PROVE  ExitLeavesNothing'
  BY <1>2 DEF WalkerSkip, WalkerTake, WalkerTakeUnchecked, Oldest
<1>3. CASE WalkerSend
  BY <1>3 DEF WalkerSend
<1>4. ASSUME NEW w \in Workers,
             WorkerStep(w) \/ CommitFails(w) \/ WorkerPanics(w)
      PROVE  ExitLeavesNothing'
  BY <1>4
  DEF WorkerStep, WorkerRecv, WorkerExit, Prepare, PutCommit, PutHunks,
      CommitFails, WorkerPanics, Release
<1>5. CASE MoveHead \/ UNCHANGED vars
  BY <1>5 DEF MoveHead, vars
<1>6. CASE Join \/ TailStep \/ TailFails \/ Crash
  BY <1>6 DEF Join, TailStep, PutHeadSymbols, SetWatermark, PutMetadata, TailFails, Crash
<1> QED
  BY <1>1, <1>2, <1>3, <1>4, <1>5, <1>6 DEF Next, WalkerStep, Fault

LEMMA ReportStepKeeps ==
  ASSUME IndInv, ExitLeavesNothing, ReportInv, [Next]_vars
  PROVE  ReportInv'
<1> USE DEF IndInv, TypeInv, TypeOK, store, walker, workers, faults
<1>1. CASE MoveHead \/ UNCHANGED vars
  BY <1>1 DEF MoveHead, vars, ReportInv, Hidden, Counted, OnItsWay, InQueue, Busy
<1>2. CASE StartRun
  BY <1>2 DEF StartRun, ReportInv, Hidden, OnItsWay
<1>3. ASSUME NEW c \in Commit,
             WalkerSkip(c) \/ WalkerTake(c) \/ WalkerTakeUnchecked(c)
      PROVE  ReportInv'
  <2>1. /\ held = None /\ todo' = todo \ {c} /\ (c \in rows \/ held' = c)
        /\ UNCHANGED <<rows, watermark, phase, target, queue, at, job, failed>>
    BY <1>3 DEF WalkerSkip, WalkerTake, WalkerTakeUnchecked
  <2>2. target # None => None \notin Anc[target]
    BY HistoryAssumption
  <2> QED
    BY <2>1, <2>2 DEF ReportInv, Hidden, Counted, OnItsWay, InQueue, Busy
<1>4. CASE WalkerSend
  <2>1. InQueue' = InQueue \union {held}
    <3>1. held \in Commit /\ queue \in Seq(Commit) /\ queue' = Append(queue, held)
      BY <1>4 DEF WalkerSend
    <3> QED
      BY <3>1 DEF InQueue
  <2> QED
    BY <1>4, <2>1 DEF WalkerSend, ReportInv, Hidden, Counted, OnItsWay, Busy
<1>5. ASSUME NEW w \in Workers, WorkerRecv(w)
      PROVE  ReportInv'
  <2>1. InQueue \subseteq InQueue' \union {Head(queue)}
    <3>1. queue \in Seq(Commit) /\ queue # <<>> /\ queue' = Tail(queue)
      BY <1>5 DEF WorkerRecv
    <3>2. ASSUME NEW i \in 1..Len(queue), i # 1
          PROVE  i - 1 \in 1..Len(queue') /\ queue'[i - 1] = queue[i]
      BY <3>1, <3>2
    <3> QED
      BY <3>1, <3>2 DEF InQueue
  <2>2. /\ job' = [job EXCEPT ![w] = Head(queue)] /\ at' = [at EXCEPT ![w] = "prepare"]
        /\ at[w] = "recv" /\ UNCHANGED <<rows, watermark, phase, target, todo, held, failed>>
    BY <1>5 DEF WorkerRecv
  <2>3. \A c : OnItsWay(c) => OnItsWay(c)'
    BY <2>1, <2>2 DEF OnItsWay, Busy
  <2>4. (\A v \in Workers : at'[v] # "dead") => \A v \in Workers : at[v] # "dead"
    BY <2>2
  <2> QED
    BY <2>2, <2>3, <2>4 DEF ReportInv, Hidden, Counted
<1>6. ASSUME NEW w \in Workers, WorkerExit(w) \/ PutCommit(w)
      PROVE  ReportInv'
  <2>1. /\ rows \subseteq rows' /\ \A v \in Workers : at'[v] # "dead" => at[v] # "dead"
        /\ \A v \in Workers : Busy(v) => Busy(v)' /\ job'[v] = job[v]
        /\ UNCHANGED <<watermark, phase, target, todo, held, queue, failed>>
    BY <1>6 DEF WorkerExit, PutCommit, Busy
  <2>2. \A c : OnItsWay(c) => OnItsWay(c)'
    BY <2>1 DEF OnItsWay, InQueue
  <2> QED
    BY <2>1, <2>2 DEF ReportInv, Hidden, Counted
<1>7. ASSUME NEW w \in Workers, Prepare(w) \/ PutHunks(w) \/ CommitFails(w)
      PROVE  ReportInv'
  <2>1. /\ rows' = rows /\ \A v \in Workers : at'[v] # "dead" => at[v] # "dead"
        /\ \A v \in Workers : v # w /\ Busy(v) => Busy(v)' /\ job'[v] = job[v]
        /\ UNCHANGED <<watermark, phase, target, todo, held, queue>>
    BY <1>7 DEF Prepare, PutHunks, CommitFails, Release, Busy
  <2>2. Counted \subseteq Counted'
    BY <1>7 DEF Prepare, PutHunks, CommitFails, Counted
  <2>3. \/ Busy(w)' /\ job'[w] = job[w]
        \/ job[w] \in rows' \union Ignored \union Counted'
    BY <1>7 DEF Prepare, PutHunks, CommitFails, Release, Busy, Counted, RowBeforeHunks
  <2>4. \A c : OnItsWay(c) =>
                 OnItsWay(c)' \/ c \in rows' \union Ignored \union Counted'
    BY <2>1, <2>3 DEF OnItsWay, InQueue
  <2> QED
    BY <2>1, <2>2, <2>4 DEF ReportInv, Hidden
<1>8. ASSUME NEW w \in Workers, WorkerPanics(w)
      PROVE  ReportInv'
  BY <1>8 DEF WorkerPanics, ReportInv
<1>9. CASE Join
  <2>1. (\A w \in Workers : at[w] # "dead") => queue = <<>>
    BY <1>9, PipelineAssumption DEF Join, Finished, ExitLeavesNothing
  <2>2. queue' = <<>> /\ UNCHANGED <<rows, watermark, target, todo, held, at, job, failed>>
    BY <1>9 DEF Join
  <2>3. (\A w \in Workers : at[w] # "dead") => \A c : OnItsWay(c) => OnItsWay(c)'
    BY <2>1, <2>2 DEF OnItsWay, Busy, InQueue
  <2> QED
    BY <1>9, <2>2, <2>3 DEF Join, ReportInv, Hidden, Counted
<1>10. CASE PutHeadSymbols
  BY <1>10 DEF PutHeadSymbols, ReportInv, Hidden, Counted, OnItsWay, InQueue, Busy
<1>11. CASE SetWatermark \/ PutMetadata \/ TailFails \/ Crash
  BY <1>11 DEF SetWatermark, PutMetadata, TailFails, Crash, ReportInv
<1> QED
  BY <1>1, <1>2, <1>3, <1>4, <1>5, <1>6, <1>7, <1>8, <1>9, <1>10, <1>11
  DEF Next, WalkerStep, WorkerStep, TailStep, Fault

(* As long as no worker panics, `commits_failed` and the index between them
   account for every commit of the walk before the watermark hides it. *)
THEOREM ReportHolds == Spec => []ReportAccountsForWalk
<1>1. Init => ExitLeavesNothing /\ ReportInv
  BY DEF Init, ExitLeavesNothing, ReportInv
<1>2. IndInv /\ ExitLeavesNothing /\ ReportInv => ReportAccountsForWalk
  <2> SUFFICES ASSUME IndInv, ReportInv, phase \in {"symbols", "watermark"}, target # None,
                      \A w \in Workers : at[w] = "exited",
                      NEW c \in Anc[target] \ Hidden
               PROVE  c \in rows \union Ignored \union Reported
    BY DEF ReportAccountsForWalk
  <2>1. c # None
    BY HistoryAssumption DEF IndInv, TypeInv, TypeOK
  <2>2. ~OnItsWay(c)
    BY <2>1 DEF IndInv, NothingInFlight, WalkerDone, Finished, Busy, OnItsWay, InQueue
  <2>3. Reported = Counted
    BY DEF Reported, Counted
  <2> QED
    BY <2>2, <2>3 DEF ReportInv
<1> QED
  BY <1>1, <1>2, ExitStepKeeps, ReportStepKeeps, IndInvAlways, PTL DEF Spec, IndInv

----------------------------------------------------------------------------
(* What the faults may cost. *)

Capacity == Cardinality(Workers)
Dead == {w \in Workers : at[w] = "dead"}

(* k runs have lost every worker, and with them what the channel held: they
   took all the panics but those of the run there is. *)
Wiped(k) ==
  Capacity * k + (IF phase = "pipeline" THEN Cardinality(Dead) ELSE 0) <= panics

LossInv ==
  /\ IsFiniteSet(lost)
  /\ \E k \in Nat : Wiped(k) /\ Cardinality(lost) <= errors + panics + Capacity * (crashes + k)

(* The image of a finite set is no larger than the set. *)
LEMMA ImageBound ==
  ASSUME NEW S, IsFiniteSet(S), NEW f, NEW T, T \subseteq {f[x] : x \in S}
  PROVE  /\ IsFiniteSet(T) /\ Cardinality(T) \in Nat
         /\ Cardinality(T) <= Cardinality(S)
<1> DEFINE R == {f[x] : x \in S}
           g == [x \in S |-> f[x]]
<1>1. g \in Surjection(S, R)
  BY DEF Surjection
<1>2. IsFiniteSet(R) /\ Cardinality(R) <= Cardinality(S)
  BY <1>1, FS_Surjection
<1> HIDE DEF R, g
<1>3. T \in SUBSET R
  BY DEF R
<1>4. IsFiniteSet(T) /\ Cardinality(T) <= Cardinality(R)
  BY <1>2, <1>3, FS_Subset
<1> QED
  BY <1>2, <1>4, FS_CardinalityType

(* Giving up T costs at most the size of T. *)
LEMMA GiveUpBound ==
  ASSUME IsFiniteSet(lost), NEW T, IsFiniteSet(T), lost' = lost \union T
  PROVE  /\ IsFiniteSet(lost') /\ Cardinality(lost) \in Nat /\ Cardinality(lost') \in Nat
         /\ Cardinality(lost') <= Cardinality(lost) + Cardinality(T)
<1>1. /\ IsFiniteSet(lost')
      /\ Cardinality(lost') = Cardinality(lost) + Cardinality(T) - Cardinality(lost \intersect T)
  BY FS_Union
<1>2. IsFiniteSet(lost \intersect T)
  BY FS_Intersection
<1> QED
  BY <1>1, <1>2, FS_CardinalityType

(* One more commit is paid for by one more error or one more panic. *)
LEMMA OneMore ==
  \A l, n, e, p, x, f, q \in Nat :
    /\ l <= e + p + x /\ n <= l + 1
    /\ \/ f = e + 1 /\ q = p
       \/ f = e /\ q = p + 1
    => n <= f + q + x
OBVIOUS

LEMMA LossStepKeeps ==
  ASSUME IndInv, ExitLeavesNothing, LossInv, [Next]_vars
  PROVE  LossInv'
<1> USE PipelineAssumption DEF IndInv, TypeInv, TypeOK, store, walker, workers, faults
<1>1. Capacity \in Nat \ {0} /\ Capacity' = Capacity
  BY FS_EmptySet, FS_CardinalityType DEF Capacity
<1>2. IsFiniteSet(Dead) /\ Cardinality(Dead) \in Nat
  BY FS_Subset, FS_CardinalityType DEF Dead
<1>3. crashes \in Nat /\ errors \in Nat /\ panics \in Nat
  OBVIOUS
<1>4. PICK k \in Nat : Wiped(k) /\ Cardinality(lost) <= errors + panics + Capacity * (crashes + k)
  BY DEF LossInv
<1>5. IsFiniteSet(lost) /\ Cardinality(lost) \in Nat
  BY FS_CardinalityType DEF LossInv
<1>6. Capacity * k \in Nat /\ Capacity * (crashes + k) \in Nat /\ crashes + k \in Nat
  BY <1>1, <1>3
<1>7. ASSUME UNCHANGED <<crashes, panics, lost>>, errors' \in Nat, errors <= errors',
             phase' = "pipeline" => Dead' = {} \/ (phase = "pipeline" /\ Dead' = Dead)
      PROVE  LossInv'
  <2>1. Wiped(k)'
    <3>1. Capacity' * k = Capacity * k
      BY <1>1
    <3>2. CASE phase' # "pipeline"
      BY <1>2, <1>3, <1>4, <1>6, <1>7, <3>1, <3>2 DEF Wiped
    <3>3. CASE phase' = "pipeline" /\ Dead' = {}
      BY <1>2, <1>3, <1>4, <1>6, <1>7, <3>1, <3>3, FS_EmptySet DEF Wiped
    <3>4. CASE phase' = "pipeline" /\ phase = "pipeline" /\ Dead' = Dead
      BY <1>2, <1>3, <1>4, <1>6, <1>7, <3>1, <3>4 DEF Wiped
    <3> QED
      BY <1>7, <3>2, <3>3, <3>4
  <2>2. Cardinality(lost') <= errors' + panics' + Capacity' * (crashes' + k)
    BY <1>1, <1>3, <1>4, <1>5, <1>6, <1>7
  <2> QED
    BY <2>1, <2>2, <1>5, <1>7 DEF LossInv
<1>8. CASE MoveHead \/ UNCHANGED vars
  BY <1>3, <1>7, <1>8 DEF MoveHead, vars, Dead
<1>9. CASE StartRun
  BY <1>3, <1>7, <1>9 DEF StartRun, Dead
<1>10. ASSUME NEW c \in Commit,
              WalkerSkip(c) \/ WalkerTake(c) \/ WalkerTakeUnchecked(c)
       PROVE  LossInv'
  BY <1>3, <1>7, <1>10 DEF WalkerSkip, WalkerTake, WalkerTakeUnchecked, Dead
<1>11. CASE WalkerSend
  BY <1>3, <1>7, <1>11 DEF WalkerSend, Dead
<1>12. ASSUME NEW w \in Workers, WorkerStep(w)
       PROVE  LossInv'
  <2>1. Dead' = Dead /\ UNCHANGED <<phase, errors, crashes, panics, lost>>
    BY <1>12 DEF WorkerStep, WorkerRecv, WorkerExit, Prepare, PutCommit, PutHunks, Release, Dead
  <2> QED
    BY <1>3, <1>7, <1>12, <2>1
       DEF WorkerStep, WorkerRecv, WorkerExit, Prepare, PutCommit, PutHunks,
           NothingInFlight, Finished, WalkerDone
<1>13. ASSUME NEW w \in Workers, CommitFails(w) \/ WorkerPanics(w)
       PROVE  LossInv'
  <2>1. lost' = lost \union {job[w]} /\ IsFiniteSet({job[w]}) /\ Cardinality({job[w]}) = 1
    BY <1>13, FS_Singleton DEF CommitFails, WorkerPanics
  <2>2. IsFiniteSet(lost') /\ Cardinality(lost') \in Nat
        /\ Cardinality(lost') <= Cardinality(lost) + 1
    BY <1>5, <2>1, GiveUpBound
  <2>3. /\ crashes' = crashes
        /\ \/ errors' = errors + 1 /\ panics' = panics
           \/ errors' = errors /\ panics' = panics + 1
    BY <1>13 DEF CommitFails, WorkerPanics
  <2>4. Cardinality(lost') <= errors' + panics' + Capacity' * (crashes' + k)
    <3>1. Capacity' * (crashes' + k) = Capacity * (crashes + k)
      BY <1>1, <2>3
    <3>2. Cardinality(lost') <= errors' + panics' + Capacity * (crashes + k)
      BY ONLY <1>3, <1>4, <1>5, <1>6, <2>2, <2>3, OneMore
    <3> QED
      BY <3>1, <3>2
  <2>5. CASE CommitFails(w)
    <3>1. Dead' = Dead /\ panics' = panics /\ phase' = phase
      BY <2>5 DEF CommitFails, Release, Dead, Busy
    <3>2. Wiped(k)'
      BY <1>1, <1>4, <3>1 DEF Wiped
    <3> QED
      BY <2>2, <2>4, <3>2 DEF LossInv
  <2>6. CASE WorkerPanics(w)
    <3>1. Dead' = Dead \union {w} /\ panics' = panics + 1 /\ phase' = phase
      BY <2>6 DEF WorkerPanics, Dead, Busy, Stage
    <3>2. Cardinality(Dead') \in Nat /\ Cardinality(Dead') <= Cardinality(Dead) + 1
      <4>1. /\ IsFiniteSet(Dead \union {w})
            /\ Cardinality(Dead \union {w}) = IF w \in Dead THEN Cardinality(Dead)
                                               ELSE Cardinality(Dead) + 1
        BY ONLY <1>2, FS_AddElement
      <4> QED
        BY ONLY <1>2, <3>1, <4>1
    <3>3. Wiped(k)'
      BY <1>1, <1>2, <1>3, <1>4, <1>6, <3>1, <3>2 DEF Wiped
    <3> QED
      BY <2>2, <2>4, <3>3 DEF LossInv
  <2> QED
    BY <1>13, <2>5, <2>6
<1>14. CASE Join
  <2>1. phase' = "symbols" /\ phase = "pipeline" /\ lost' = lost \union InQueue
        /\ UNCHANGED <<errors, panics, crashes>>
    BY <1>14 DEF Join
  <2>2. CASE InQueue = {}
    BY <1>3, <1>7, <2>1, <2>2
  <2>3. CASE InQueue # {}
    <3>1. Dead = Workers
      BY <1>14, <2>3 DEF Join, Finished, ExitLeavesNothing, InQueue, Dead
    <3>2. Len(queue) \in Nat /\ IsFiniteSet(1..Len(queue)) /\ Cardinality(1..Len(queue)) <= Capacity
      <4>1. Len(queue) \in Nat /\ Len(queue) <= Capacity
        BY DEF Capacity
      <4>2. IsFiniteSet(1..Len(queue)) /\ Cardinality(1..Len(queue)) = Len(queue)
        <5> DEFINE n == Len(queue)
        <5>1. 1 \in Int /\ n \in Int /\ n \in Nat
          BY <4>1
        <5> HIDE DEF n
        <5>2. IsFiniteSet(1..n) /\ Cardinality(1..n) = IF 1 > n THEN 0 ELSE n - 1 + 1
          BY <5>1, FS_Interval
        <5>3. IsFiniteSet(1..n) /\ Cardinality(1..n) = n
          BY <5>1, <5>2
        <5> QED
          BY <5>3 DEF n
      <4> QED
        BY <4>1, <4>2
    <3>3. IsFiniteSet(InQueue) /\ Cardinality(InQueue) <= Capacity /\ Cardinality(InQueue) \in Nat
      <4>1. InQueue \subseteq {queue[i] : i \in 1..Len(queue)}
        BY DEF InQueue
      <4>2. IsFiniteSet(InQueue) /\ Cardinality(InQueue) \in Nat
            /\ Cardinality(InQueue) <= Cardinality(1..Len(queue))
        BY <3>2, <4>1, ImageBound
      <4> QED
        BY <1>1, <3>2, <4>2, FS_CardinalityType
    <3>4. /\ IsFiniteSet(lost') /\ Cardinality(lost') \in Nat
          /\ Cardinality(lost') <= Cardinality(lost) + Capacity
      <4>1. /\ IsFiniteSet(lost') /\ Cardinality(lost') \in Nat
            /\ Cardinality(lost') <= Cardinality(lost) + Cardinality(InQueue)
        BY <1>5, <2>1, <3>3, GiveUpBound
      <4> QED
        BY <1>1, <1>5, <3>3, <4>1
    <3>5. /\ Capacity * (k + 1) = Capacity * k + Capacity
          /\ Capacity * (crashes + (k + 1)) = Capacity * (crashes + k) + Capacity
      BY <1>1, <1>3
    <3>6. Wiped(k + 1)'
      BY <1>1, <1>3, <1>4, <1>6, <2>1, <3>1, <3>5 DEF Wiped, Capacity
    <3>7. Cardinality(lost') <= errors' + panics' + Capacity' * (crashes' + (k + 1))
      BY <1>1, <1>3, <1>4, <1>5, <1>6, <2>1, <3>4, <3>5
    <3> QED
      BY <3>4, <3>6, <3>7 DEF LossInv
  <2> QED
    BY <2>2, <2>3
<1>15. CASE TailStep \/ TailFails
  BY <1>3, <1>7, <1>15 DEF TailStep, PutHeadSymbols, SetWatermark, PutMetadata, TailFails
<1>16. CASE Crash
  <2> DEFINE T == Torn \ lost
  <2>1. T \subseteq {job[w] : w \in Workers}
    BY DEF TornExplained
  <2>2. IsFiniteSet(T) /\ Cardinality(T) <= Capacity /\ Cardinality(T) \in Nat
    BY <2>1, ImageBound DEF Capacity
  <2>3. lost' = lost \union T
    BY <1>16 DEF Crash
  <2> HIDE DEF T
  <2>4. /\ IsFiniteSet(lost') /\ Cardinality(lost') \in Nat
        /\ Cardinality(lost') <= Cardinality(lost) + Capacity
    <3>1. /\ IsFiniteSet(lost') /\ Cardinality(lost') \in Nat
          /\ Cardinality(lost') <= Cardinality(lost) + Cardinality(T)
      BY <1>5, <2>2, <2>3, GiveUpBound
    <3> QED
      BY <1>1, <1>5, <2>2, <3>1
  <2>5. phase' = "idle" /\ crashes' = crashes + 1 /\ UNCHANGED <<errors, panics>>
    BY <1>16 DEF Crash
  <2>6. Capacity * (crashes' + k) = Capacity * (crashes + k) + Capacity
    BY <1>1, <1>3, <2>5
  <2>7. Wiped(k)'
    BY <1>1, <1>2, <1>3, <1>4, <1>6, <2>5 DEF Wiped
  <2>8. Cardinality(lost') <= errors' + panics' + Capacity' * (crashes' + k)
    BY <1>1, <1>3, <1>4, <1>5, <1>6, <2>4, <2>5, <2>6
  <2> QED
    BY <2>4, <2>7, <2>8 DEF LossInv
<1> QED
  BY <1>8, <1>9, <1>10, <1>11, <1>12, <1>13, <1>14, <1>15, <1>16 DEF Next, WalkerStep, Fault

LEMMA QuotientBound ==
  ASSUME NEW n \in Nat \ {0}, NEW k \in Nat, NEW p \in Nat, n * k <= p
  PROVE  p \div n \in Nat /\ k <= p \div n
OBVIOUS

(* One error or panic costs one commit, one crash at most one per worker, and
   what the channel held is lost only when every worker has panicked. *)
THEOREM LossBoundHolds == Spec => []LossBound
<1>1. Init => ExitLeavesNothing /\ LossInv
  <2> SUFFICES ASSUME Init PROVE ExitLeavesNothing /\ LossInv
    OBVIOUS
  <2>1. Capacity \in Nat
    BY CapacityNat DEF Capacity
  <2>2. Capacity * 0 = 0 /\ Capacity * (crashes + 0) = 0
    BY <2>1 DEF Init
  <2>3. Wiped(0) /\ Cardinality(lost) <= errors + panics + Capacity * (crashes + 0)
    BY <2>2, FS_EmptySet DEF Init, Wiped
  <2> QED
    BY <2>3, FS_EmptySet DEF Init, LossInv, ExitLeavesNothing
<1>2. IndInv /\ LossInv => LossBound
  <2> SUFFICES ASSUME IndInv, LossInv PROVE LossBound
    OBVIOUS
  <2>1. PICK k \in Nat : Wiped(k) /\ Cardinality(lost) <= errors + panics + Capacity * (crashes + k)
    BY DEF LossInv
  <2>2. /\ Capacity \in Nat \ {0} /\ panics \in Nat /\ crashes \in Nat /\ errors \in Nat
        /\ Cardinality(lost) \in Nat /\ Cardinality(Dead) \in Nat
    BY PipelineAssumption, FS_EmptySet, FS_CardinalityType, FS_Subset
    DEF IndInv, TypeInv, TypeOK, Capacity, LossInv, Dead
  <2>3. Capacity * k <= panics
    BY <2>1, <2>2 DEF Wiped
  <2>4. panics \div Capacity \in Nat /\ k <= panics \div Capacity
    BY <2>2, <2>3, QuotientBound
  <2>5. \A q \in Nat : k <= q => Capacity * (crashes + k) <= Capacity * (crashes + q)
    BY <2>2
  <2>6. /\ Capacity * (crashes + k) <= Capacity * (crashes + panics \div Capacity)
        /\ Capacity * (crashes + k) \in Nat
        /\ Capacity * (crashes + panics \div Capacity) \in Nat
    BY <2>2, <2>4, <2>5
  <2>7. Cardinality(lost) <= errors + panics + Capacity * (crashes + panics \div Capacity)
    BY <2>1, <2>2, <2>6
  <2> QED
    BY <2>7 DEF LossBound, Capacity
<1> QED
  BY <1>1, <1>2, ExitStepKeeps, LossStepKeeps, IndInvAlways, PTL DEF Spec, IndInv

----------------------------------------------------------------------------
(* HEAD moving forward only. *)

ForwardOnly == \A m \in HeadMoves : m[1] \in Anc[m[2]]

(* The HEAD symbols are never ahead of HEAD nor behind the watermark, and in
   the phase between the two not behind the end of the walk. *)
SymbolsInv ==
  /\ SymbolsCoverWatermark
  /\ target # None => target \in Anc[head]
  /\ symbols # None => symbols \in Anc[head]
  /\ phase = "watermark" /\ target # None =>
       symbols # None /\ target \in Anc[symbols]

LEMMA SymbolsInvStep ==
  ASSUME ForwardOnly, TypeInv, SymbolsInv, [Next]_vars
  PROVE  SymbolsInv'
<1> USE HistoryAssumption
    DEF SymbolsInv, SymbolsCoverWatermark, TypeInv, TypeOK, store, walker, workers, faults
<1>1. CASE MoveHead
  <2>1. PICK d \in Commit : <<head, d>> \in HeadMoves /\ head' = d
    BY <1>1 DEF MoveHead
  <2>2. Anc[head] \subseteq Anc[head']
    BY <2>1 DEF ForwardOnly
  <2> QED
    BY <1>1, <2>2 DEF MoveHead
<1>2. CASE StartRun
  BY <1>2 DEF StartRun
<1>3. CASE PutHeadSymbols
  BY <1>3 DEF PutHeadSymbols
<1>4. CASE SetWatermark
  BY <1>4 DEF SetWatermark
<1>5. CASE PutMetadata \/ TailFails \/ Crash \/ Join \/ WalkerSend \/ UNCHANGED vars
  BY <1>5 DEF PutMetadata, TailFails, Crash, Join, WalkerSend, vars, Phase
<1>6. ASSUME NEW c \in Commit,
             WalkerSkip(c) \/ WalkerTake(c) \/ WalkerTakeUnchecked(c)
      PROVE  SymbolsInv'
  BY <1>6 DEF WalkerSkip, WalkerTake, WalkerTakeUnchecked
<1>7. ASSUME NEW w \in Workers,
             WorkerStep(w) \/ CommitFails(w) \/ WorkerPanics(w)
      PROVE  SymbolsInv'
  BY <1>7
  DEF WorkerStep, WorkerRecv, WorkerExit, Prepare, PutCommit, PutHunks,
      CommitFails, WorkerPanics
<1> QED
  BY <1>1, <1>2, <1>3, <1>4, <1>5, <1>6, <1>7 DEF Next, WalkerStep, TailStep, Fault

(* With HEAD moving forward only, a watermark that names HEAD means the HEAD
   symbols are HEAD's too, wherever a run was cut short. *)
THEOREM SymbolsStayAhead ==
  ASSUME ForwardOnly
  PROVE  Spec => []SymbolsCoverWatermark
<1>1. Init => SymbolsInv
  BY DEF Init, SymbolsInv, SymbolsCoverWatermark
<1>2. TypeInv /\ SymbolsInv /\ [Next]_vars => SymbolsInv'
  BY SymbolsInvStep
<1>3. SymbolsInv => SymbolsCoverWatermark
  BY DEF SymbolsInv
<1> QED
  BY <1>1, <1>2, <1>3, TypeInvAlways, PTL DEF Spec

=============================================================================
