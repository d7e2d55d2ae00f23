---------------------------- MODULE Commands_proofs ----------------------------
(***************************************************************************)
(* Proofs about the commands.  IndexCommand, for every length of the       *)
(* history, every sequence of releases and any number of runs: its types,  *)
(* that an index holds vectors of the recorded kind, and that "index       *)
(* up-to-date" is true.  RepoFiles, for any paths, rules, edits and        *)
(* commands: what users write into the two files stays in them, in order,  *)
(* and decides.  ModelFiles, for any loads of a machine: why a load fails, *)
(* and where the files are.  FrontEnds, for any calls through any doors:   *)
(* which index, and which engine, their answers are of.  IndexOptions, for any  *)
(* answers and machines: that a run has the options that were agreed to.   *)
(***************************************************************************)
EXTENDS IndexCommand, RepoFiles, ModelFiles, FrontEnds, IndexOptions, Ranking_proofs,
        FiniteSetTheorems, TLAPS

LEMMA OptionsHaveMode ==
  ASSUME NEW o \in Options
  PROVE  o.mode \in Modes /\ {o.rebuild, o.force, o.incremental} \subseteq BOOLEAN
BY DEF Options

LEMMA KindOfRun ==
  ASSUME NEW r \in Runs
  PROVE  Kind(r.bin, r.opts.mode) \in Kinds
<1>1. r.opts.mode \in Modes /\ r.bin \in 1..Len(Binaries)
  BY OptionsHaveMode DEF Runs
<1> QED
  BY <1>1 DEF Kinds

LEMMA NoneIsNot == None \notin Kinds /\ None \notin Snapshots /\ None \notin Runs
BY NoneAssumption

(* What a run records has a model and a mode. *)
LEMMA ExpectedIs ==
  ASSUME NEW b \in 1..Len(Binaries), NEW mode
  PROVE  /\ VectorAffecting \subseteq DOMAIN Expected(b, mode)
         /\ Expected(b, mode)["embedding_model"] = Binaries[b]["embedding_model"]
         /\ Expected(b, mode)["embed_input_mode"] = mode
<1>1. {"embedding_model", "embed_input_mode"}
        \subseteq DOMAIN Binaries[b] \union {"embed_input_mode"}
  BY CommandAssumption
<1> QED
  BY <1>1 DEF Expected, VectorAffecting

LEMMA TypeInit == Init => TypeOK
<1> SUFFICES ASSUME Init PROVE TypeOK
  OBVIOUS
<1>1. VectorAffecting \intersect DOMAIN meta = {}
  BY DEF Init, VectorAffecting
<1>2. rows \in [Commits -> Kinds \union {None}]
  BY DEF Init
<1>3. {switched, cleared, strayed} \subseteq BOOLEAN
  BY DEF Init
<1> QED
  BY <1>1, <1>2, <1>3, CommandAssumption DEF Init, TypeOK

LEMMA TypeStep == TypeOK /\ [Next]_vars => TypeOK'
<1> SUFFICES ASSUME TypeOK, [Next]_vars PROVE TypeOK'
  OBVIOUS
<1> USE NoneIsNot, CommandAssumption DEF TypeOK, At, Proceed, tables, history
<1>1. ASSUME NEW o \in Options, Start(o) PROVE TypeOK'
  BY <1>1 DEF Start, Runs, Steps
<1>2. CASE Delete
  <2>1. VectorAffecting \intersect DOMAIN meta' = {}
    BY <1>2 DEF Delete, VectorAffecting
  <2>2. rows' \in [Commits -> Kinds \union {None}]
    BY <1>2 DEF Delete
  <2>3. run' \in Runs
    BY <1>2 DEF Delete, Runs, Steps
  <2>4. {switched', cleared', strayed'} \subseteq BOOLEAN
    BY <1>2 DEF Delete
  <2> QED
    BY <1>2, <2>1, <2>2, <2>3, <2>4 DEF Delete
<1>3. CASE Refuse \/ UpToDate \/ Die
  BY <1>3 DEF Refuse, UpToDate, Die
<1>4. CASE Accept
  <2>1. run \in Runs /\ run.opts \in Options
    BY <1>4 DEF Accept, Runs
  <2>2. run.opts.force \in BOOLEAN /\ run.opts.incremental \in BOOLEAN
    BY <2>1, OptionsHaveMode
  <2>3. PICK s \in Steps : run' = [run EXCEPT !.step = s]
    BY <1>4, <2>2 DEF Accept, Steps
  <2> QED
    BY <1>4, <2>1, <2>3 DEF Accept, Runs
<1>5. CASE Clear
  BY <1>5 DEF Clear, Runs, Steps
<1>6. CASE Behind
  BY <1>6 DEF Behind, Runs, Steps
<1>7. CASE Walk
  <2>1. watermark + 1 .. head \subseteq Commits
    BY DEF Commits
  <2>2. (IF watermark < head THEN head ELSE 0) \in 0..Newest
    BY DEF Commits
  <2>3. switched' \in BOOLEAN
    BY <1>7 DEF Walk
  <2> QED
    BY <1>7, <2>1, <2>2, <2>3 DEF Walk, Runs, Steps
<1>8. ASSUME NEW i \in Commits, IndexCommit(i) PROVE TypeOK'
  BY <1>8, KindOfRun DEF IndexCommit, Runs
<1>9. ASSUME NEW i \in Commits, MoveHead(i) PROVE TypeOK'
  <2>1. strayed' \in BOOLEAN
    BY <1>9 DEF MoveHead
  <2> QED
    BY <1>9, <2>1 DEF MoveHead
<1>10. CASE PutHeadSymbols
  BY <1>10 DEF PutHeadSymbols, Runs, Steps, Snapshots, Chunkers
<1>11. CASE SetWatermark
  BY <1>11 DEF SetWatermark, Runs, Steps
<1>12. CASE PutMetadata
  <2>1. run \in Runs /\ run.bin \in 1..Len(Binaries)
    BY <1>12 DEF PutMetadata, Runs
  <2>2. VectorAffecting \subseteq DOMAIN meta'
    BY <1>12, <2>1, ExpectedIs DEF PutMetadata
  <2> QED
    BY <1>12, <2>2 DEF PutMetadata
<1>13. CASE Upgrade
  BY <1>13 DEF Upgrade
<1>14. CASE UNCHANGED vars
  BY <1>14 DEF vars
<1> QED
  BY <1>1, <1>2, <1>3, <1>4, <1>5, <1>6, <1>7, <1>8, <1>9, <1>10, <1>11, <1>12,
     <1>13, <1>14 DEF Next

(* Every state has the types of TypeOK. *)
THEOREM TypeCorrect == Spec => []TypeOK
BY TypeInit, TypeStep, PTL DEF Spec

----------------------------------------------------------------------------
(* One kind of vectors. *)

MyKind == Kind(run.bin, run.opts.mode)
RecordedKind == [model |-> meta["embedding_model"], mode |-> meta["embed_input_mode"]]

Guarded == run # None /\ run.step \notin {"delete", "guard"}
Walking == run # None /\ run.step \in {"commits", "watermark", "metadata"}

(* Past the guard a run is of the recorded kind, if there is one; past its walk
   the rows are of its kind, recorded or not. *)
GuardHolds == Guarded /\ Recorded => RecordedKind = MyKind
RowsRecorded == Recorded => \A i \in Commits : rows[i] \in {None, RecordedKind}
RowsMine == Walking => \A i \in Commits : rows[i] \in {None, MyKind}

KindInv ==
  /\ GuardHolds
  /\ switched \/ (RowsRecorded /\ RowsMine)

(* A verdict other than a rebuild leaves model and mode alike. *)
LEMMA VerdictAgrees ==
  ASSUME TypeOK, run # None, Recorded, RunVerdict # "needs rebuild"
  PROVE  RecordedKind = MyKind
<1>1. run \in Runs /\ run.bin \in 1..Len(Binaries)
  BY DEF TypeOK, Runs
<1> DEFINE want == Expected(run.bin, run.opts.mode)
<1>2. /\ VectorAffecting \subseteq DOMAIN want
      /\ want["embedding_model"] = Binaries[run.bin]["embedding_model"]
      /\ want["embed_input_mode"] = run.opts.mode
  BY <1>1, ExpectedIs
<1> HIDE DEF want
<1>3. ~Clash(VectorAffecting, want, meta)
  BY DEF RunVerdict, Assess, want, Clash
<1>4. meta["embedding_model"] = want["embedding_model"]
      /\ meta["embed_input_mode"] = want["embed_input_mode"]
  BY <1>2, <1>3 DEF Clash, Recorded, VectorAffecting
<1> QED
  BY <1>2, <1>4 DEF RecordedKind, MyKind, Kind

LEMMA KindInit == Init => KindInv
BY DEF Init, KindInv, GuardHolds, RowsRecorded, RowsMine, Guarded, Walking, Recorded,
       VectorAffecting

LEMMA KindStep == TypeOK /\ KindInv /\ [Next]_vars => KindInv'
<1> SUFFICES ASSUME TypeOK, KindInv, [Next]_vars PROVE KindInv'
  OBVIOUS
<1> USE NoneIsNot DEF KindInv, GuardHolds, RowsRecorded, RowsMine, Guarded, Walking,
        RecordedKind, MyKind, Recorded, At, Proceed, tables, history
<1>0. run # None => run \in Runs
  BY DEF TypeOK
<1>1. ASSUME NEW o \in Options, Start(o) PROVE KindInv'
  BY <1>1 DEF Start
<1>2. CASE Delete
  <2>1. ~Recorded'
    BY <1>2 DEF Delete, VectorAffecting
  <2>2. run' = [run EXCEPT !.step = "walk"] /\ ~Walking'
    BY <1>0, <1>2 DEF Delete, Runs
  <2> QED
    BY <2>1, <2>2
<1>3. CASE Refuse \/ UpToDate \/ Die
  BY <1>3 DEF Refuse, UpToDate, Die
<1>4. CASE Accept
  <2>1. PICK s : run' = [run EXCEPT !.step = s] /\ s \in {"clear", "fast", "walk"}
    <3>1. run.opts.force \in BOOLEAN /\ run.opts.incremental \in BOOLEAN
      BY <1>0, <1>4, OptionsHaveMode DEF Accept, Runs
    <3> QED
      BY <1>4, <3>1 DEF Accept
  <2>2. MyKind' = MyKind /\ ~Walking'
    BY <1>0, <1>4, <2>1 DEF Accept, Runs
  <2>3. Recorded => RecordedKind = MyKind
    BY <1>4, VerdictAgrees DEF Accept
  <2> QED
    BY <1>4, <2>2, <2>3 DEF Accept
<1>5. CASE Clear
  BY <1>0, <1>5 DEF Clear, Runs
<1>6. CASE Behind
  BY <1>0, <1>6 DEF Behind, Runs
<1>7. CASE Walk
  <2>1. MyKind' = MyKind /\ UNCHANGED <<rows, meta>> /\ Guarded
    BY <1>0, <1>7 DEF Walk, Runs
  <2>2. RecordedKind' = RecordedKind /\ Recorded' = Recorded
    BY <2>1
  <2>3. GuardHolds'
    BY <2>1, <2>2
  <2>4. ASSUME ~switched' PROVE RowsMine'
    <3>1. ~switched /\ RowsRecorded
      BY <1>7, <2>4 DEF Walk
    <3>2. CASE Recorded
      BY <2>1, <3>1, <3>2
    <3>3. CASE ~Recorded
      BY <1>7, <2>1, <2>4, <3>3 DEF Walk
    <3> QED
      BY <3>2, <3>3
  <2>5. ASSUME ~switched' PROVE RowsRecorded'
    BY <1>7, <2>1, <2>2, <2>5 DEF Walk
  <2> QED
    BY <2>3, <2>4, <2>5
<1>8. ASSUME NEW j \in Commits, IndexCommit(j) PROVE KindInv'
  <2>1. MyKind' = MyKind /\ UNCHANGED <<meta, switched>> /\ Walking /\ Guarded
    BY <1>0, <1>8 DEF IndexCommit, Runs
  <2>2. RecordedKind' = RecordedKind /\ Recorded' = Recorded
    BY <2>1
  <2>3. \A i \in Commits : rows'[i] \in {rows[i], MyKind}
    BY <1>8 DEF IndexCommit, TypeOK
  <2>4. GuardHolds'
    BY <2>1, <2>2
  <2>5. ASSUME ~switched PROVE (RowsRecorded /\ RowsMine)'
    BY <2>1, <2>2, <2>3, <2>5
  <2> QED
    BY <2>1, <2>4, <2>5
<1>9. ASSUME NEW i \in Commits, MoveHead(i) PROVE KindInv'
  BY <1>9 DEF MoveHead
<1>10. CASE PutHeadSymbols
  BY <1>0, <1>10 DEF PutHeadSymbols, Runs
<1>11. CASE SetWatermark
  BY <1>0, <1>11 DEF SetWatermark, Runs
<1>12. CASE PutMetadata
  <2>1. run \in Runs /\ run.bin \in 1..Len(Binaries)
    BY <1>0, <1>12 DEF PutMetadata, Runs
  <2>2. RecordedKind' = MyKind
    <3> DEFINE new == Expected(run.bin, run.opts.mode)
    <3>1. /\ {"embedding_model", "embed_input_mode"} \subseteq DOMAIN new
          /\ new["embedding_model"] = Binaries[run.bin]["embedding_model"]
          /\ new["embed_input_mode"] = run.opts.mode
      BY <2>1, ExpectedIs DEF VectorAffecting
    <3> HIDE DEF new
    <3>2. meta' = [k \in DOMAIN meta \union DOMAIN new |->
                     IF k \in DOMAIN new THEN new[k] ELSE meta[k]]
      BY <1>12 DEF PutMetadata, new
    <3>3. meta'["embedding_model"] = new["embedding_model"]
          /\ meta'["embed_input_mode"] = new["embed_input_mode"]
      BY <3>1, <3>2
    <3> QED
      BY <3>1, <3>3 DEF Kind
  <2>3. run' = None /\ UNCHANGED <<rows, switched>> /\ Walking
    BY <1>12 DEF PutMetadata
  <2> QED
    BY <2>2, <2>3
<1>13. CASE Upgrade
  BY <1>13 DEF Upgrade
<1>14. CASE UNCHANGED vars
  BY <1>14 DEF vars
<1> QED
  BY <1>1, <1>2, <1>3, <1>4, <1>5, <1>6, <1>7, <1>8, <1>9, <1>10, <1>11, <1>12,
     <1>13, <1>14 DEF Next

(* Vectors are of the recorded kind, unless a run went on over rows that were
   never recorded: the guard of `ohara index` lets nothing else past. *)
THEOREM OneKindHolds == Spec => []OneKindOfVectors
<1>1. KindInv => OneKindOfVectors
  BY DEF KindInv, RowsRecorded, RecordedKind, OneKindOfVectors, VectorsAreRecordedKind
<1> QED
  BY TypeInit, TypeStep, KindInit, KindStep, <1>1, PTL DEF Spec

----------------------------------------------------------------------------
(* "Index up-to-date". *)

Covered(n) == \A i \in 1..n : rows[i] # None
Recording == run # None /\ run.step \in {"watermark", "metadata"}

(* The watermark covers rows, and so will the run's target. *)
RowsCovered ==
  /\ Covered(watermark)
  /\ At("commits") => \A i \in 1..run.target : rows[i] # None \/ i \in run.todo
  /\ Recording => Covered(run.target)

(* While HEAD only moves forward the symbols are ahead of the watermark. *)
SymbolsAhead ==
  /\ watermark <= head
  /\ Walking => run.target <= head
  /\ symbols # None => symbols.at <= head
  /\ watermark > 0 => cleared \/ (symbols # None /\ watermark <= symbols.at)
  /\ Recording => symbols # None /\ run.target <= symbols.at

UpToDateInv == RowsCovered /\ (strayed \/ SymbolsAhead)

LEMMA UpToDateInit == Init => UpToDateInv
<1> SUFFICES ASSUME Init PROVE UpToDateInv
  OBVIOUS
<1>1. watermark = 0 /\ 1..watermark = {} /\ run = None /\ symbols = None /\ head \in 1..Newest
  BY DEF Init, Commits
<1> QED
  BY <1>1, CommandAssumption DEF UpToDateInv, RowsCovered, SymbolsAhead, Covered, Recording,
     Walking, At

(* Only Delete takes rows away, and the watermark goes with them. *)
LEMMA RowsCoveredStep == TypeOK /\ RowsCovered /\ [Next]_vars => RowsCovered'
<1> SUFFICES ASSUME TypeOK, RowsCovered, [Next]_vars PROVE RowsCovered'
  OBVIOUS
<1> USE NoneIsNot, CommandAssumption
    DEF RowsCovered, Covered, Recording, At, Proceed, tables, history
<1>0. /\ run # None => run \in Runs
      /\ watermark \in Nat /\ head \in Nat
  BY DEF TypeOK, Commits
<1>1. ASSUME NEW o \in Options, Start(o) PROVE RowsCovered'
  BY <1>1 DEF Start
<1>2. CASE Delete
  <2>1. 1..watermark' = {} /\ run' = [run EXCEPT !.step = "walk"]
    BY <1>2 DEF Delete
  <2>2. run'.step = "walk"
    BY <1>0, <1>2, <2>1 DEF Delete, Runs
  <2> QED
    BY <2>1, <2>2
<1>3. CASE Refuse \/ UpToDate \/ Die
  BY <1>3 DEF Refuse, UpToDate, Die
<1>4. CASE Accept
  <2>1. PICK s : run' = [run EXCEPT !.step = s] /\ s \in {"clear", "fast", "walk"}
    <3>1. run.opts.force \in BOOLEAN /\ run.opts.incremental \in BOOLEAN
      BY <1>0, <1>4, OptionsHaveMode DEF Accept, Runs
    <3> QED
      BY <1>4, <3>1 DEF Accept
  <2>2. run'.step = s
    BY <1>0, <1>4, <2>1 DEF Accept, Runs
  <2> QED
    BY <1>4, <2>1, <2>2 DEF Accept
<1>5. CASE Clear
  BY <1>0, <1>5 DEF Clear, Runs
<1>6. CASE Behind
  BY <1>0, <1>6 DEF Behind, Runs
<1>7. CASE Walk
  <2>1. /\ run'.step = "commits" /\ run'.todo = watermark + 1 .. head
        /\ run'.target = IF watermark < head THEN head ELSE 0
        /\ UNCHANGED <<rows, watermark>>
    BY <1>0, <1>7 DEF Walk, Runs
  <2>2. \A i \in 1..run'.target : i \in 1..watermark \/ i \in run'.todo
    BY <1>0, <2>1
  <2> QED
    BY <2>1, <2>2
<1>8. ASSUME NEW j \in Commits, IndexCommit(j) PROVE RowsCovered'
  <2>1. /\ run'.step = "commits" /\ run'.todo = run.todo \ {j} /\ run'.target = run.target
        /\ watermark' = watermark /\ At("commits")
    BY <1>0, <1>8 DEF IndexCommit, Runs
  <2>2. rows'[j] # None
    BY <1>0, <1>8, KindOfRun DEF IndexCommit, TypeOK
  <2>3. \A i \in Commits : i # j => rows'[i] = rows[i]
    BY <1>8 DEF IndexCommit, TypeOK
  <2>4. 1..watermark \subseteq Commits /\ 1..run.target \subseteq Commits
    BY <1>0, <2>1 DEF TypeOK, Commits, Runs
  <2> QED
    BY <2>1, <2>2, <2>3, <2>4
<1>9. ASSUME NEW i \in Commits, MoveHead(i) PROVE RowsCovered'
  BY <1>9 DEF MoveHead
<1>10. CASE PutHeadSymbols
  <2>1. run'.step = "watermark" /\ run'.target = run.target /\ run.todo = {}
    BY <1>0, <1>10 DEF PutHeadSymbols, Runs
  <2> QED
    BY <1>10, <2>1 DEF PutHeadSymbols
<1>11. CASE SetWatermark
  <2>1. run'.step = "metadata" /\ run'.target = run.target
    BY <1>0, <1>11 DEF SetWatermark, Runs
  <2> QED
    BY <1>11, <2>1 DEF SetWatermark
<1>12. CASE PutMetadata
  BY <1>12 DEF PutMetadata
<1>13. CASE Upgrade
  BY <1>13 DEF Upgrade
<1>14. CASE UNCHANGED vars
  BY <1>14 DEF vars
<1> QED
  BY <1>1, <1>2, <1>3, <1>4, <1>5, <1>6, <1>7, <1>8, <1>9, <1>10, <1>11, <1>12,
     <1>13, <1>14 DEF Next

(* The symbols are put before the watermark moves, from a HEAD the target is
   not ahead of. *)
LEMMA SymbolsAheadStep ==
  TypeOK /\ (strayed \/ SymbolsAhead) /\ [Next]_vars => (strayed \/ SymbolsAhead)'
<1> SUFFICES ASSUME TypeOK, ~strayed => SymbolsAhead, [Next]_vars, ~strayed'
             PROVE  SymbolsAhead'
  BY DEF TypeOK
<1> USE NoneIsNot, CommandAssumption
    DEF SymbolsAhead, Recording, Walking, At, Proceed, tables, history
<1>0. /\ run # None => run \in Runs /\ run.target \in Nat
      /\ watermark \in Nat /\ head \in Nat /\ head > 0
      /\ symbols # None => symbols \in Snapshots /\ symbols.at \in Nat
  BY DEF TypeOK, Commits, Runs, Snapshots
<1>1. ASSUME NEW o \in Options, Start(o) PROVE SymbolsAhead'
  BY <1>1 DEF Start
<1>2. CASE Delete
  <2>1. run'.step = "walk"
    BY <1>0, <1>2 DEF Delete, Runs
  <2> QED
    BY <1>0, <1>2, <2>1 DEF Delete
<1>3. CASE Refuse \/ UpToDate \/ Die
  BY <1>3 DEF Refuse, UpToDate, Die
<1>4. CASE Accept
  <2>1. PICK s : run' = [run EXCEPT !.step = s] /\ s \in {"clear", "fast", "walk"}
    <3>1. run.opts.force \in BOOLEAN /\ run.opts.incremental \in BOOLEAN
      BY <1>0, <1>4, OptionsHaveMode DEF Accept, Runs
    <3> QED
      BY <1>4, <3>1 DEF Accept
  <2>2. run'.step = s
    BY <1>0, <1>4, <2>1 DEF Accept, Runs
  <2> QED
    BY <1>4, <2>1, <2>2 DEF Accept
<1>5. CASE Clear
  BY <1>0, <1>5 DEF Clear, Runs
<1>6. CASE Behind
  BY <1>0, <1>6 DEF Behind, Runs
<1>7. CASE Walk
  <2>1. /\ run'.step = "commits" /\ run'.target = IF watermark < head THEN head ELSE 0
        /\ UNCHANGED <<head, symbols, watermark, cleared, strayed>>
    BY <1>0, <1>7 DEF Walk, Runs
  <2> QED
    BY <1>0, <2>1
<1>8. ASSUME NEW j \in Commits, IndexCommit(j) PROVE SymbolsAhead'
  BY <1>0, <1>8 DEF IndexCommit, Runs
<1>9. ASSUME NEW i \in Commits, MoveHead(i) PROVE SymbolsAhead'
  <2>0. ~strayed /\ ~(i < head)
    BY <1>9, Zenon DEF MoveHead
  <2>1. ~strayed /\ head <= i /\ i \in Nat
    BY <1>0, <2>0 DEF Commits
  <2> QED
    BY <1>0, <1>9, <2>1 DEF MoveHead
<1>10. CASE PutHeadSymbols
  <2>1. /\ run'.step = "watermark" /\ run'.target = run.target
        /\ symbols' = [at |-> head, chunker |-> Binaries[run.bin]["chunker_version"]]
        /\ UNCHANGED <<head, watermark, strayed>>
    BY <1>0, <1>10 DEF PutHeadSymbols, Runs
  <2>2. symbols' \in Snapshots /\ symbols'.at = head
    <3>1. run.bin \in 1..Len(Binaries)
      BY <1>0, <1>10 DEF PutHeadSymbols, Runs
    <3> QED
      BY <2>1, <3>1 DEF Snapshots, Chunkers, TypeOK
  <2> QED
    BY <1>0, <1>10, <2>1, <2>2 DEF PutHeadSymbols
<1>11. CASE SetWatermark
  <2>1. run'.step = "metadata" /\ run'.target = run.target
    BY <1>0, <1>11 DEF SetWatermark, Runs
  <2> QED
    BY <1>0, <1>11, <2>1 DEF SetWatermark
<1>12. CASE PutMetadata
  BY <1>12 DEF PutMetadata
<1>13. CASE Upgrade
  BY <1>13 DEF Upgrade
<1>14. CASE UNCHANGED vars
  BY <1>14 DEF vars
<1> QED
  BY <1>1, <1>2, <1>3, <1>4, <1>5, <1>6, <1>7, <1>8, <1>9, <1>10, <1>11, <1>12,
     <1>13, <1>14 DEF Next

LEMMA UpToDateStep == TypeOK /\ UpToDateInv /\ [Next]_vars => UpToDateInv'
BY RowsCoveredStep, SymbolsAheadStep DEF UpToDateInv

(* "Index up-to-date" is said of an index that has rows for HEAD's history and
   HEAD's symbols, unless HEAD moved back or a --force was cut short. *)
THEOREM UpToDateHolds == Spec => UpToDateIsTrue
<1>1. TypeOK /\ UpToDateInv /\ [Next]_vars =>
        [UpToDate =>
           /\ \A i \in 1..head : rows[i] # None
           /\ cleared \/ strayed \/ (symbols # None /\ symbols.at = head)]_vars
  <2> SUFFICES ASSUME TypeOK, UpToDateInv, UpToDate
               PROVE  /\ \A i \in 1..head : rows[i] # None
                      /\ cleared \/ strayed \/ (symbols # None /\ symbols.at = head)
    OBVIOUS
  <2>1. watermark = head
    BY DEF UpToDate
  <2>2. head \in Nat /\ head > 0 /\ (symbols # None => symbols.at \in Nat)
    BY CommandAssumption DEF TypeOK, Commits, Snapshots
  <2> QED
    BY <2>1, <2>2 DEF UpToDateInv, RowsCovered, Covered, SymbolsAhead, TypeOK
<1> QED
  BY TypeInit, TypeStep, UpToDateInit, UpToDateStep, <1>1, PTL DEF Spec, UpToDateIsTrue

----------------------------------------------------------------------------
(* "Compatible". *)

Chunker(b) == Binaries[b]["chunker_version"]

(* No release takes up a chunker version an earlier one has left. *)
ChunkersMoveOn ==
  \A a, b, c \in 1..Len(Binaries) :
    a <= b /\ b <= c /\ Chunker(a) = Chunker(c) => Chunker(b) = Chunker(c)

(* No process is of a later release than r. *)
Until(r) == r <= bin /\ (run # None => r <= run.bin)

(* The recorded chunker is of an earlier release than the symbols', or the
   same: a run puts its symbols before it records its versions. *)
ChunkerInv ==
  /\ run # None => run.bin <= bin
  /\ Recording => symbols # None /\ symbols.chunker = Chunker(run.bin)
  /\ "chunker_version" \in DOMAIN meta =>
       \E a \in 1..Len(Binaries) :
         /\ Until(a) /\ meta["chunker_version"] = Chunker(a)
         /\ \/ cleared
            \/ \E b \in 1..Len(Binaries) :
                 a <= b /\ Until(b) /\ symbols # None /\ symbols.chunker = Chunker(b)

LEMMA ChunkerInit == Init => ChunkerInv
BY DEF Init, ChunkerInv, Recording

LEMMA ChunkerStep == TypeOK /\ ChunkerInv /\ [Next]_vars => ChunkerInv'
<1> SUFFICES ASSUME TypeOK, ChunkerInv, [Next]_vars PROVE ChunkerInv'
  OBVIOUS
<1> USE NoneIsNot, CommandAssumption
    DEF ChunkerInv, Until, Recording, At, Proceed, tables, history
<1>0. /\ run # None => run \in Runs /\ run.bin \in 1..Len(Binaries)
      /\ bin \in 1..Len(Binaries) /\ Len(Binaries) \in Nat
  BY DEF TypeOK, Runs
<1>1. ASSUME NEW o \in Options, Start(o) PROVE ChunkerInv'
  <2>1. /\ run = None /\ run'.bin = bin /\ run'.step \in {"delete", "guard"}
        /\ UNCHANGED <<bin, symbols, meta, cleared>>
    BY <1>1 DEF Start
  <2> QED
    BY <1>0, <2>1
<1>2. CASE Delete
  <2>1. run'.step = "walk" /\ run'.bin = run.bin /\ meta' = <<>> /\ bin' = bin
    BY <1>0, <1>2 DEF Delete, Runs
  <2> QED
    BY <1>0, <1>2, <2>1 DEF Delete
<1>3. CASE Refuse \/ UpToDate \/ Die
  BY <1>3 DEF Refuse, UpToDate, Die
<1>4. CASE Accept
  <2>1. PICK s : run' = [run EXCEPT !.step = s] /\ s \in {"clear", "fast", "walk"}
    <3>1. run.opts.force \in BOOLEAN /\ run.opts.incremental \in BOOLEAN
      BY <1>0, <1>4, OptionsHaveMode DEF Accept, Runs
    <3> QED
      BY <1>4, <3>1 DEF Accept
  <2>2. run'.step = s /\ run'.bin = run.bin /\ run # None
    BY <1>0, <1>4, <2>1 DEF Accept, Runs
  <2> QED
    BY <1>0, <1>4, <2>1, <2>2 DEF Accept
<1>5. CASE Clear
  <2>1. run'.step = "walk" /\ run'.bin = run.bin /\ run # None
    BY <1>0, <1>5 DEF Clear, Runs
  <2> QED
    BY <1>0, <1>5, <2>1 DEF Clear
<1>6. CASE Behind \/ Walk
  <2>1. run'.step \in {"walk", "commits"} /\ run'.bin = run.bin /\ run # None
    BY <1>0, <1>6 DEF Behind, Walk, Runs
  <2>2. UNCHANGED <<bin, symbols, meta, cleared>>
    BY <1>6 DEF Behind, Walk
  <2> QED
    BY <1>0, <2>1, <2>2
<1>7. ASSUME NEW j \in Commits, IndexCommit(j) PROVE ChunkerInv'
  <2>1. run'.step = "commits" /\ run'.bin = run.bin /\ run # None
    BY <1>0, <1>7 DEF IndexCommit, Runs
  <2> QED
    BY <1>0, <1>7, <2>1 DEF IndexCommit
<1>8. ASSUME NEW i \in Commits, MoveHead(i) PROVE ChunkerInv'
  BY <1>8 DEF MoveHead
<1>9. CASE PutHeadSymbols
  <2>1. /\ run'.step = "watermark" /\ run'.bin = run.bin /\ run # None
        /\ symbols' = [at |-> head, chunker |-> Chunker(run.bin)]
        /\ UNCHANGED <<bin, meta>>
    BY <1>0, <1>9 DEF PutHeadSymbols, Runs, Chunker
  <2>2. symbols' \in Snapshots
    BY <1>0, <2>1 DEF Snapshots, Chunkers, Chunker, TypeOK
  <2>3. symbols' # None /\ symbols'.chunker = Chunker(run.bin)
    BY <2>1, <2>2
  <2>4. \A a \in 1..Len(Binaries) : Until(a) => a <= run.bin /\ Until(a)'
    BY <1>0, <2>1
  <2>5. Until(run.bin)'
    BY <1>0, <2>1
  <2> QED
    BY <1>0, <2>1, <2>3, <2>4, <2>5
<1>10. CASE SetWatermark
  <2>1. run'.step = "metadata" /\ run'.bin = run.bin /\ run # None /\ Recording
    BY <1>0, <1>10 DEF SetWatermark, Runs
  <2> QED
    BY <1>0, <1>10, <2>1 DEF SetWatermark
<1>11. CASE PutMetadata
  <2>1. meta'["chunker_version"] = Chunker(run.bin)
    <3> DEFINE new == Expected(run.bin, run.opts.mode)
    <3>1. "chunker_version" \in DOMAIN new /\ new["chunker_version"] = Chunker(run.bin)
      BY <1>0, <1>11 DEF PutMetadata, Expected, Chunker
    <3> HIDE DEF new
    <3>2. meta' = [k \in DOMAIN meta \union DOMAIN new |->
                     IF k \in DOMAIN new THEN new[k] ELSE meta[k]]
      BY <1>11 DEF PutMetadata, new
    <3> QED
      BY <3>1, <3>2
  <2>2. run' = None /\ UNCHANGED <<bin, symbols, cleared>> /\ Recording
    BY <1>11 DEF PutMetadata
  <2> QED
    BY <1>0, <2>1, <2>2
<1>12. CASE Upgrade
  <2>1. bin' = bin + 1 /\ UNCHANGED <<run, symbols, meta, cleared>>
    BY <1>12 DEF Upgrade
  <2> QED
    BY <1>0, <2>1
<1>13. CASE UNCHANGED vars
  BY <1>13 DEF vars
<1> QED
  BY <1>1, <1>2, <1>3, <1>4, <1>5, <1>6, <1>7, <1>8, <1>9, <1>10, <1>11, <1>12,
     <1>13 DEF Next

(* An index a query finds compatible has the symbols of the installed chunker,
   unless a --force was cut short, as long as no release goes back to a chunker
   version that another has replaced. *)
THEOREM CompatibleHolds ==
  ASSUME ChunkersMoveOn
  PROVE  Spec => []CompatibleMeansCurrent
<1>1. TypeOK /\ ChunkerInv => CompatibleMeansCurrent
  <2> SUFFICES ASSUME TypeOK, ChunkerInv, Verdict = "compatible", ~cleared
               PROVE  symbols # None /\ symbols.chunker = Chunker(bin)
    BY DEF CompatibleMeansCurrent, Chunker
  <2> PICK mode : Verdict = Assess(Expected(bin, mode), meta)
    BY DEF Verdict
  <2> DEFINE want == Expected(bin, mode)
  <2>1. "chunker_version" \in DOMAIN want /\ want["chunker_version"] = Chunker(bin)
    BY CommandAssumption DEF TypeOK, Expected, Chunker
  <2> HIDE DEF want
  <2>2. DOMAIN want \subseteq DOMAIN meta /\ ~Clash(DOMAIN want, want, meta)
    BY DEF Assess, want, Clash
  <2>3. "chunker_version" \in DOMAIN meta /\ meta["chunker_version"] = Chunker(bin)
    BY <2>1, <2>2 DEF Clash
  <2>4. PICK a \in 1..Len(Binaries), b \in 1..Len(Binaries) :
          /\ meta["chunker_version"] = Chunker(a) /\ a <= b /\ b <= bin
          /\ symbols # None /\ symbols.chunker = Chunker(b)
    BY <2>3 DEF ChunkerInv, Until
  <2>5. Chunker(b) = Chunker(bin)
    BY <2>3, <2>4 DEF ChunkersMoveOn, TypeOK
  <2> QED
    BY <2>4, <2>5
<1> QED
  BY TypeInit, TypeStep, ChunkerInit, ChunkerStep, <1>1, PTL DEF Spec

----------------------------------------------------------------------------
HookLines == {Begin, Body, End, Quote} \union {Hand(n) : n \in Nat}

(* The kinds of the block's lines, and the block, which lies at b. *)
Marks == {"begin", "body", "end"}
BlockAt(b) ==
  /\ b + 2 <= Len(hook)
  /\ hook[b] = Begin /\ hook[b + 1] = Body /\ hook[b + 2] = End
  /\ Places(hook, Marks) = b..b + 2

OneBlockAtMost == Places(hook, Marks) = {} \/ \E b \in Nat \ {0} : BlockAt(b)

(* The hook has the lines written by hand and perhaps one block, whole. *)
HookInv ==
  ~cut => /\ hook \in Seq(HookLines) /\ script \in Seq(HookLines)
          /\ KeptInOrder(script, hook, Places(hook, {"hand"}))
          /\ OneBlockAtMost

(* What plan may suggest. *)
Generated == [name : TopDirs, dir : {TRUE}, keep : {FALSE}]
FileLines == {Begin, End, Quote} \union {Line(r) : r \in Rules \union Generated}

LinesOf(rules) == [n \in DOMAIN rules |-> Line(rules[n])]

RulesBefore(file, b) == {n \in Places(file, {"rule"}) : n < b}

(* The rules written above the block come before place b, in order. *)
TopBefore(above, file, b) == KeptInOrder(LinesOf(above), file, RulesBefore(file, b))

(* The block lies from b to e, with suggestions between its markers, and what
   was written below it follows, line by line. *)
SectionAt(above, below, file, b, e) ==
  /\ b < e /\ e + Len(below) = Len(file)
  /\ file[b] = Begin /\ file[e] = End
  /\ Places(file, {"begin", "end"}) = {b, e}
  /\ \A n \in b + 1..e - 1 : file[n] \in {Line(r) : r \in Generated}
  /\ \A n \in DOMAIN below : file[e + n] = Line(below[n])
  /\ TopBefore(above, file, b)

NoSection(above, below, file) ==
  /\ Places(file, {"begin", "end"}) = {}
  /\ below = <<>>
  /\ TopBefore(above, file, Len(file) + 1)

IsIgnoreFile(above, below, file) ==
  /\ file \in Seq(FileLines) /\ above \in Seq(Rules) /\ below \in Seq(Rules)
  /\ \/ NoSection(above, below, file)
     \/ \E b, e \in 1..Len(file) : SectionAt(above, below, file, b, e)

IgnoreInv == IsIgnoreFile(top, bottom, ignoreFile)

FilesInv == edits \in Nat /\ HookInv /\ IgnoreInv

----------------------------------------------------------------------------
(* Sets of numbers, and lists of lines in a file. *)

LEMMA MinIs ==
  ASSUME NEW S \in SUBSET Nat, NEW m \in S, \A n \in S : m <= n
  PROVE  Min(S) = m
<1>1. m \in S /\ \A n \in S : m <= n
  OBVIOUS
<1>2. Min(S) \in S /\ \A n \in S : Min(S) <= n
  BY <1>1 DEF Min
<1>3. m \in Nat /\ Min(S) \in Nat
  BY <1>1, <1>2
<1>4. Min(S) <= m /\ m <= Min(S)
  BY <1>1, <1>2
<1> QED
  BY <1>3, <1>4

LEMMA MaxIs ==
  ASSUME NEW S \in SUBSET Nat, NEW m \in S, \A n \in S : n <= m
  PROVE  Max(S) = m
<1>1. m \in S /\ \A n \in S : m >= n
  OBVIOUS
<1>2. Max(S) \in S /\ \A n \in S : Max(S) >= n
  BY <1>1 DEF Max
<1>3. m \in Nat /\ Max(S) \in Nat
  BY <1>1, <1>2
<1>4. Max(S) >= m /\ m >= Max(S)
  BY <1>1, <1>2
<1> QED
  BY <1>3, <1>4

LEMMA MaxExists ==
  ASSUME NEW k \in Nat, NEW S \in SUBSET (0..k), S # {}
  PROVE  Max(S) \in S /\ \A n \in S : n <= Max(S)
<1> DEFINE T == {d \in Nat : d <= k /\ k - d \in S}
<1>1. PICK s \in S : TRUE
  OBVIOUS
<1>2. k - s \in T
  BY <1>1
<1>3. PICK d \in T : \A e \in T : d <= e
  BY <1>2, LeastNatural
<1>4. k - d \in S
  BY <1>3
<1>5. ASSUME NEW n \in S PROVE n <= k - d
  <2>1. n \in 0..k /\ k - (k - n) = n
    OBVIOUS
  <2>2. k - n \in T
    BY <2>1
  <2>3. d \in Nat /\ d <= k - n
    BY <1>3, <2>2
  <2> QED
    BY <2>1, <2>3
<1> QED
  BY <1>4, <1>5, MaxIs

(* A line put before the file, or after it, which is not one of the list's. *)
LEMMA KeptBehind ==
  ASSUME NEW S, NEW lines, NEW file \in Seq(S), NEW x \in S,
         NEW places \in SUBSET (1..Len(file)), KeptInOrder(lines, file, places)
  PROVE  KeptInOrder(lines, <<x>> \o file, {l + 1 : l \in places})
<1>1. PICK place \in [DOMAIN lines -> places] :
        /\ \A m, n \in DOMAIN lines : m < n => place[m] < place[n]
        /\ \A n \in DOMAIN lines : file[place[n]] = lines[n]
        /\ \A l \in places : \E n \in DOMAIN lines : place[n] = l
  BY DEF KeptInOrder
<1> DEFINE moved == [n \in DOMAIN lines |-> place[n] + 1]
<1>2. \A n \in DOMAIN lines : place[n] \in 1..Len(file)
  OBVIOUS
<1>3. \A l \in 1..Len(file) : (<<x>> \o file)[l + 1] = file[l]
  OBVIOUS
<1>4. moved \in [DOMAIN lines -> {l + 1 : l \in places}]
  OBVIOUS
<1>5. \A m, n \in DOMAIN lines : m < n => moved[m] < moved[n]
  BY <1>1, <1>2
<1>6. \A n \in DOMAIN lines : (<<x>> \o file)[moved[n]] = lines[n]
  BY <1>1, <1>2, <1>3
<1>7. ASSUME NEW q \in places PROVE \E n \in DOMAIN lines : moved[n] = q + 1
  <2>1. PICK n \in DOMAIN lines : place[n] = q
    BY <1>1
  <2> QED
    BY <2>1
<1> HIDE DEF moved
<1>8. \A l \in {q + 1 : q \in places} : \E n \in DOMAIN lines : moved[n] = l
  BY <1>7
<1> QED
  BY <1>4, <1>5, <1>6, <1>8 DEF KeptInOrder

LEMMA KeptAhead ==
  ASSUME NEW S, NEW lines, NEW file \in Seq(S), NEW more \in Seq(S),
         NEW places \in SUBSET (1..Len(file)), KeptInOrder(lines, file, places)
  PROVE  KeptInOrder(lines, file \o more, places)
<1>1. PICK place \in [DOMAIN lines -> places] :
        /\ \A m, n \in DOMAIN lines : m < n => place[m] < place[n]
        /\ \A n \in DOMAIN lines : file[place[n]] = lines[n]
        /\ \A l \in places : \E n \in DOMAIN lines : place[n] = l
  BY DEF KeptInOrder
<1>2. \A l \in 1..Len(file) : (file \o more)[l] = file[l]
  OBVIOUS
<1>3. \A n \in DOMAIN lines : place[n] \in 1..Len(file)
  OBVIOUS
<1>4. \A n \in DOMAIN lines : (file \o more)[place[n]] = lines[n]
  BY <1>1, <1>2, <1>3
<1> QED
  BY <1>1, <1>4 DEF KeptInOrder

(* A line put before both, or after both. *)
LEMMA KeptWithFirst ==
  ASSUME NEW S, NEW lines \in Seq(S), NEW file \in Seq(S), NEW x \in S,
         NEW places \in SUBSET (1..Len(file)), KeptInOrder(lines, file, places)
  PROVE  KeptInOrder(<<x>> \o lines, <<x>> \o file, {1} \union {l + 1 : l \in places})
<1>1. PICK place \in [DOMAIN lines -> places] :
        /\ \A m, n \in DOMAIN lines : m < n => place[m] < place[n]
        /\ \A n \in DOMAIN lines : file[place[n]] = lines[n]
        /\ \A l \in places : \E n \in DOMAIN lines : place[n] = l
  BY DEF KeptInOrder
<1> DEFINE more == <<x>> \o lines
           moved == [n \in DOMAIN more |-> IF n = 1 THEN 1 ELSE place[n - 1] + 1]
<1>2. DOMAIN more = 1..Len(lines) + 1 /\ DOMAIN lines = 1..Len(lines) /\ Len(lines) \in Nat
      /\ more[1] = x /\ \A n \in 2..Len(lines) + 1 : more[n] = lines[n - 1]
  OBVIOUS
<1>3. \A n \in 2..Len(lines) + 1 : n - 1 \in DOMAIN lines /\ place[n - 1] \in places
  <2>1. \A i \in DOMAIN lines : place[i] \in places
    OBVIOUS
  <2> HIDE DEF more
  <2>2. PICK len \in Nat : len = Len(lines) /\ DOMAIN lines = 1..len
    BY <1>2
  <2>3. \A n \in 2..len + 1 : n - 1 \in 1..len
    BY <2>2
  <2> QED
    BY <2>1, <2>2, <2>3
<1>4. (<<x>> \o file)[1] = x /\ \A l \in 1..Len(file) : (<<x>> \o file)[l + 1] = file[l]
  OBVIOUS
<1> HIDE DEF more
<1>5. /\ 1 \in DOMAIN more /\ moved[1] = 1
      /\ \A n \in 2..Len(lines) + 1 : n \in DOMAIN more /\ moved[n] = place[n - 1] + 1
  BY <1>2
<1>6. moved \in [DOMAIN more -> {1} \union {l + 1 : l \in places}]
  <2>1. ASSUME NEW n \in DOMAIN more
        PROVE  (IF n = 1 THEN 1 ELSE place[n - 1] + 1) \in {1} \union {l + 1 : l \in places}
    <3>1. CASE n = 1
      BY <3>1
    <3>2. CASE n # 1
      <4>1. place[n - 1] \in places
        BY <1>2, <1>3, <3>2
      <4> QED
        BY <3>2, <4>1
    <3> QED
      BY <3>1, <3>2
  <2> QED
    BY <2>1
<1> HIDE DEF moved
<1>7. \A m, n \in DOMAIN more : m < n => moved[m] < moved[n]
  <2> SUFFICES ASSUME NEW m \in DOMAIN more, NEW n \in DOMAIN more, m < n
               PROVE  moved[m] < moved[n]
    OBVIOUS
  <2>1. n \in 2..Len(lines) + 1 /\ moved[n] = place[n - 1] + 1 /\ place[n - 1] \in 1..Len(file)
    <3>1. n \in 2..Len(lines) + 1
      BY <1>2
    <3> QED
      BY <1>3, <1>5, <3>1
  <2>2. CASE m = 1
    BY <1>5, <2>1, <2>2
  <2>3. CASE m # 1
    <3>1. m \in 2..Len(lines) + 1 /\ moved[m] = place[m - 1] + 1 /\ place[m - 1] \in 1..Len(file)
      <4>1. m \in 2..Len(lines) + 1
        BY <1>2, <2>3
      <4> QED
        BY <1>3, <1>5, <4>1
    <3>2. place[m - 1] < place[n - 1]
      BY <1>1, <1>3, <2>1, <3>1
    <3> QED
      BY <2>1, <3>1, <3>2
  <2> QED
    BY <2>2, <2>3
<1>8. \A n \in DOMAIN more : (<<x>> \o file)[moved[n]] = more[n]
  <2> SUFFICES ASSUME NEW n \in DOMAIN more PROVE (<<x>> \o file)[moved[n]] = more[n]
    OBVIOUS
  <2>1. CASE n = 1
    BY <1>2, <1>4, <1>5, <2>1
  <2>2. CASE n # 1
    <3>1. n \in 2..Len(lines) + 1
      BY <1>2, <2>2
    <3>2. n - 1 \in DOMAIN lines /\ place[n - 1] \in 1..Len(file) /\ moved[n] = place[n - 1] + 1
      BY <1>3, <1>5, <3>1
    <3> QED
      BY <1>1, <1>2, <1>4, <3>1, <3>2
  <2> QED
    BY <2>1, <2>2
<1>9. \A l \in {1} \union {q + 1 : q \in places} : \E n \in DOMAIN more : moved[n] = l
  <2>1. \E n \in DOMAIN more : moved[n] = 1
    BY <1>2, <1>5
  <2>2. ASSUME NEW q \in places PROVE \E n \in DOMAIN more : moved[n] = q + 1
    <3>1. PICK n \in DOMAIN lines : place[n] = q
      BY <1>1
    <3>2. n + 1 \in 2..Len(lines) + 1 /\ (n + 1) - 1 = n
      BY <1>2
    <3> QED
      BY <1>2, <1>5, <3>1, <3>2
  <2> QED
    BY <2>1, <2>2
<1>10. KeptInOrder(more, <<x>> \o file, {1} \union {l + 1 : l \in places})
  BY <1>6, <1>7, <1>8, <1>9 DEF KeptInOrder
<1> QED
  BY <1>10 DEF more

LEMMA KeptWithLast ==
  ASSUME NEW S, NEW lines \in Seq(S), NEW file \in Seq(S), NEW x \in S,
         NEW places \in SUBSET (1..Len(file)), KeptInOrder(lines, file, places)
  PROVE  KeptInOrder(Append(lines, x), Append(file, x), places \union {Len(file) + 1})
<1>1. PICK place \in [DOMAIN lines -> places] :
        /\ \A m, n \in DOMAIN lines : m < n => place[m] < place[n]
        /\ \A n \in DOMAIN lines : file[place[n]] = lines[n]
        /\ \A l \in places : \E n \in DOMAIN lines : place[n] = l
  BY DEF KeptInOrder
<1> DEFINE more == Append(lines, x)
           last == Len(lines) + 1
           moved == [n \in DOMAIN more |-> IF n = last THEN Len(file) + 1 ELSE place[n]]
<1>2. DOMAIN more = 1..last /\ DOMAIN lines = 1..last - 1 /\ last \in Nat \ {0}
      /\ more[last] = x /\ \A n \in DOMAIN lines : more[n] = lines[n]
  OBVIOUS
<1>3. \A n \in DOMAIN lines : place[n] \in places /\ place[n] \in 1..Len(file)
  OBVIOUS
<1>4. Append(file, x)[Len(file) + 1] = x /\ \A l \in 1..Len(file) : Append(file, x)[l] = file[l]
  OBVIOUS
<1> HIDE DEF more, last
<1>5. moved[last] = Len(file) + 1 /\ \A n \in DOMAIN lines : moved[n] = place[n]
  BY <1>2
<1>6. moved \in [DOMAIN more -> places \union {Len(file) + 1}]
  BY <1>2, <1>3
<1>7. \A m, n \in DOMAIN more : m < n => moved[m] < moved[n]
  <2> SUFFICES ASSUME NEW m \in DOMAIN more, NEW n \in DOMAIN more, m < n
               PROVE  moved[m] < moved[n]
    OBVIOUS
  <2>1. m \in DOMAIN lines
    BY <1>2
  <2>2. CASE n = last
    BY <1>3, <1>5, <2>1, <2>2
  <2>3. CASE n # last
    BY <1>1, <1>2, <1>5, <2>1, <2>3
  <2> QED
    BY <2>2, <2>3
<1>8. \A n \in DOMAIN more : Append(file, x)[moved[n]] = more[n]
  <2> SUFFICES ASSUME NEW n \in DOMAIN more PROVE Append(file, x)[moved[n]] = more[n]
    OBVIOUS
  <2>1. CASE n = last
    BY <1>2, <1>4, <1>5, <2>1
  <2>2. CASE n # last
    BY <1>1, <1>2, <1>3, <1>4, <1>5, <2>2
  <2> QED
    BY <2>1, <2>2
<1>9. \A l \in places \union {Len(file) + 1} : \E n \in DOMAIN more : moved[n] = l
  <2>1. \E n \in DOMAIN more : moved[n] = Len(file) + 1
    BY <1>2, <1>5
  <2>2. ASSUME NEW q \in places PROVE \E n \in DOMAIN more : moved[n] = q
    BY <1>1, <1>2, <1>5
  <2> QED
    BY <2>1, <2>2
<1> HIDE DEF moved
<1>10. KeptInOrder(more, Append(file, x), places \union {Len(file) + 1})
  BY <1>6, <1>7, <1>8, <1>9 DEF KeptInOrder
<1> QED
  BY <1>10 DEF more

LEMMA PlacesIn ==
  ASSUME NEW S, NEW file \in Seq(S), NEW kinds
  PROVE  Places(file, kinds) \subseteq 1..Len(file)
BY DEF Places

LEMMA PlacesBehind ==
  ASSUME NEW S, NEW file \in Seq(S), NEW x \in S, NEW kinds
  PROVE  Places(<<x>> \o file, kinds)
           = {l + 1 : l \in Places(file, kinds)} \union {n \in {1} : x.kind \in kinds}
<1> DEFINE more == <<x>> \o file
<1>1. more \in Seq(S) /\ DOMAIN more = 1..Len(file) + 1 /\ more[1] = x /\ Len(file) \in Nat
      /\ \A n \in 1..Len(file) : more[n + 1] = file[n]
  OBVIOUS
<1>2. DOMAIN file = 1..Len(file)
  OBVIOUS
<1> HIDE DEF more
<1>3. ASSUME NEW n \in Places(more, kinds), n # 1
      PROVE  n \in {l + 1 : l \in Places(file, kinds)}
  <2>1. n - 1 \in 1..Len(file) /\ (n - 1) + 1 = n /\ more[n].kind \in kinds
    BY <1>1, <1>3 DEF Places
  <2>2. n - 1 \in Places(file, kinds)
    BY <1>1, <1>2, <2>1 DEF Places
  <2> QED
    BY <2>1, <2>2
<1>4. ASSUME NEW l \in Places(file, kinds) PROVE l + 1 \in Places(more, kinds)
  BY <1>1, <1>2 DEF Places
<1>5. 1 \in Places(more, kinds) <=> x.kind \in kinds
  BY <1>1 DEF Places
<1>6. Places(more, kinds) = {l + 1 : l \in Places(file, kinds)} \union {n \in {1} : x.kind \in kinds}
  BY <1>3, <1>4, <1>5
<1> QED
  BY <1>6 DEF more

LEMMA PlacesAhead ==
  ASSUME NEW S, NEW file \in Seq(S), NEW more \in Seq(S), NEW kinds
  PROVE  Places(file \o more, kinds)
           = Places(file, kinds) \union {Len(file) + l : l \in Places(more, kinds)}
<1> DEFINE both == file \o more
<1>1. /\ DOMAIN both = 1..Len(file) + Len(more) /\ Len(file) \in Nat /\ Len(more) \in Nat
      /\ \A n \in 1..Len(file) : both[n] = file[n]
      /\ \A n \in 1..Len(more) : both[Len(file) + n] = more[n]
  OBVIOUS
<1>2. DOMAIN file = 1..Len(file) /\ DOMAIN more = 1..Len(more)
  OBVIOUS
<1> HIDE DEF both
<1>3. ASSUME NEW n \in Places(both, kinds), ~(n \in Places(file, kinds))
      PROVE  n \in {Len(file) + l : l \in Places(more, kinds)}
  <2>1. n \in DOMAIN both /\ both[n].kind \in kinds
    BY DEF Places
  <2>2. n \notin 1..Len(file)
    BY <1>1, <1>2, <1>3, <2>1 DEF Places
  <2>3. n - Len(file) \in 1..Len(more) /\ Len(file) + (n - Len(file)) = n
    BY <1>1, <2>1, <2>2
  <2>4. n - Len(file) \in Places(more, kinds)
    BY <1>1, <1>2, <2>1, <2>3 DEF Places
  <2> QED
    BY <2>3, <2>4
<1>4. ASSUME NEW l \in Places(more, kinds) PROVE Len(file) + l \in Places(both, kinds)
  <2>1. l \in 1..Len(more) /\ more[l].kind \in kinds
    BY <1>2 DEF Places
  <2>2. Len(file) + l \in DOMAIN both /\ both[Len(file) + l] = more[l]
    BY <1>1, <2>1
  <2> QED
    BY <2>1, <2>2 DEF Places
<1>5. ASSUME NEW l \in Places(file, kinds) PROVE l \in Places(both, kinds)
  BY <1>1, <1>2 DEF Places
<1>6. Places(both, kinds) = Places(file, kinds) \union {Len(file) + l : l \in Places(more, kinds)}
  BY <1>3, <1>4, <1>5
<1> QED
  BY <1>6 DEF both

LEMMA ConcatIs ==
  ASSUME NEW S, NEW file \in Seq(S), NEW more \in Seq(S)
  PROVE  /\ file \o more \in Seq(S) /\ Len(file \o more) = Len(file) + Len(more)
         /\ \A n \in 1..Len(file) : (file \o more)[n] = file[n]
         /\ \A n \in 1..Len(more) : (file \o more)[Len(file) + n] = more[n]
OBVIOUS

(* What stands where in a file with a new section from b to e. *)
SplicedWith(new, file, b, e, section) ==
  /\ Len(new) = (b - 1) + Len(section) + (Len(file) - e)
  /\ \A n \in 1..b - 1 : new[n] = file[n]
  /\ \A n \in 1..Len(section) : new[(b - 1) + n] = section[n]
  /\ \A n \in 1..Len(file) - e : new[(b - 1) + Len(section) + n] = file[e + n]

LEMMA SplicedIs ==
  ASSUME NEW S, NEW file \in Seq(S), NEW section \in Seq(S),
         NEW b \in 1..Len(file), NEW e \in 1..Len(file), b <= e
  PROVE  /\ Spliced(file, b, e, section) \in Seq(S)
         /\ SplicedWith(Spliced(file, b, e, section), file, b, e, section)
<1> DEFINE before == SubSeq(file, 1, b - 1)
           after == SubSeq(file, e + 1, Len(file))
<1>1. before \in Seq(S) /\ Len(before) = b - 1 /\ \A n \in 1..b - 1 : before[n] = file[n]
  OBVIOUS
<1>2. after \in Seq(S) /\ Len(after) = Len(file) - e
      /\ \A n \in 1..Len(file) - e : after[n] = file[e + n]
  OBVIOUS
<1> HIDE DEF before, after
<1> DEFINE front == before \o section
<1>3. /\ front \in Seq(S) /\ Len(front) = (b - 1) + Len(section) /\ Len(section) \in Nat
      /\ \A n \in 1..b - 1 : front[n] = file[n]
      /\ \A n \in 1..Len(section) : front[(b - 1) + n] = section[n]
  <2>1. before \in Seq(S)
    BY <1>1
  <2>2. /\ front \in Seq(S) /\ Len(front) = Len(before) + Len(section)
        /\ \A n \in 1..Len(before) : front[n] = before[n]
        /\ \A n \in 1..Len(section) : front[Len(before) + n] = section[n]
    BY <2>1, ConcatIs
  <2> HIDE DEF front
  <2> QED
    BY <1>1, <2>2
<1> HIDE DEF front
<1> DEFINE new == front \o after
<1>4. /\ new \in Seq(S) /\ Len(new) = Len(front) + Len(after)
      /\ \A n \in 1..Len(front) : new[n] = front[n]
      /\ \A n \in 1..Len(after) : new[Len(front) + n] = after[n]
  <2>1. front \in Seq(S) /\ after \in Seq(S)
    BY <1>2, <1>3
  <2> QED
    BY <2>1, ConcatIs
<1>5. new = Spliced(file, b, e, section)
  BY DEF Spliced, front, before, after
<1> HIDE DEF new
<1>6. \A n \in 1..b - 1 : new[n] = file[n]
  <2> SUFFICES ASSUME NEW n \in 1..b - 1 PROVE new[n] = file[n]
    OBVIOUS
  <2>1. n \in 1..Len(front)
    BY <1>3
  <2> QED
    BY <1>3, <1>4, <2>1
<1>7. \A n \in 1..Len(section) : new[(b - 1) + n] = section[n]
  <2> SUFFICES ASSUME NEW n \in 1..Len(section) PROVE new[(b - 1) + n] = section[n]
    OBVIOUS
  <2>1. (b - 1) + n \in 1..Len(front)
    BY <1>3
  <2> QED
    BY <1>3, <1>4, <2>1
<1>8. \A n \in 1..Len(file) - e : new[(b - 1) + Len(section) + n] = file[e + n]
  BY <1>2, <1>3, <1>4
<1>9. new \in Seq(S) /\ Len(new) = (b - 1) + Len(section) + (Len(file) - e)
  BY <1>2, <1>3, <1>4
<1> QED
  BY <1>5, <1>6, <1>7, <1>8, <1>9 DEF SplicedWith

----------------------------------------------------------------------------
(* The hook. *)

Managed == <<Begin, Body, End>>

LEMMA ManagedIs ==
  /\ Managed \in Seq(HookLines) /\ Len(Managed) = 3
  /\ Managed[1] = Begin /\ Managed[2] = Body /\ Managed[3] = End
  /\ Places(Managed, Marks) = 1..3 /\ Places(Managed, {"hand"}) = {}
<1>1. Managed \in Seq(HookLines) /\ Len(Managed) = 3 /\ DOMAIN Managed = 1..3
      /\ Managed[1] = Begin /\ Managed[2] = Body /\ Managed[3] = End
  BY DEF Managed, HookLines
<1>2. Begin.kind = "begin" /\ Body.kind = "body" /\ End.kind = "end"
  BY DEF Begin, Body, End
<1>3. \A n \in 1..3 : Managed[n].kind \in Marks /\ Managed[n].kind # "hand"
  BY <1>1, <1>2 DEF Marks
<1> QED
  BY <1>1, <1>3 DEF Places

(* A hook with nothing but the block. *)
LEMMA JustTheBlock ==
  ASSUME hook' = Managed, script' = <<>>
  PROVE  HookInv'
<1>1. KeptInOrder(<<>>, Managed, {})
  <2>1. <<>> \in [DOMAIN <<>> -> {}]
    OBVIOUS
  <2> QED
    BY <2>1 DEF KeptInOrder
<1>2. hook' \in Seq(HookLines) /\ script' \in Seq(HookLines)
  BY ManagedIs
<1>3. KeptInOrder(script', hook', Places(hook', {"hand"}))
  BY <1>1, ManagedIs
<1>4. BlockAt(1)'
  BY ManagedIs DEF BlockAt, Marks
<1> QED
  BY <1>2, <1>3, <1>4 DEF HookInv, OneBlockAtMost

LEMMA HookUnchanged ==
  ASSUME HookInv, hook' = hook, script' = script, cut' = cut \/ ~cut
  PROVE  HookInv'
<1>1. Places(hook', {"hand"}) = Places(hook, {"hand"}) /\ Places(hook', Marks) = Places(hook, Marks)
  OBVIOUS
<1>2. \A b : BlockAt(b) => BlockAt(b)'
  BY <1>1 DEF BlockAt
<1>3. OneBlockAtMost => OneBlockAtMost'
  BY <1>1, <1>2 DEF OneBlockAtMost
<1> QED
  BY <1>1, <1>3 DEF HookInv

(* The block is replaced by itself. *)
LEMMA ReplacedBySelf ==
  ASSUME hook \in Seq(HookLines), NEW b \in Nat \ {0}, BlockAt(b)
  PROVE  /\ Opens(hook) = b /\ Closes(hook) = b + 2
         /\ Spliced(hook, Opens(hook), Closes(hook), Managed) = hook
<1>1. b + 2 <= Len(hook) /\ Len(hook) \in Nat /\ DOMAIN hook = 1..Len(hook)
  BY DEF BlockAt
<1>2. Begin.kind = "begin" /\ Body.kind = "body" /\ End.kind = "end"
  BY DEF Begin, Body, End
<1>3. b \in DOMAIN hook /\ b + 1 \in DOMAIN hook /\ b + 2 \in DOMAIN hook
  BY <1>1
<1>4. hook[b].kind = "begin" /\ hook[b + 1].kind = "body" /\ hook[b + 2].kind = "end"
  BY <1>2 DEF BlockAt
<1>5. \A n \in DOMAIN hook : hook[n].kind \in Marks => n \in {b, b + 1, b + 2}
  BY DEF BlockAt, Places, Marks
<1>6. Places(hook, {"begin"}) = {b}
  BY <1>3, <1>4, <1>5 DEF Places, Marks
<1>7. Opens(hook) = b
  BY <1>6, MinIs DEF Opens
<1> DEFINE closing == {n \in Places(hook, {"end", "quote"}) : n > b}
<1>8. closing \in SUBSET Nat /\ b + 2 \in closing
  BY <1>1, <1>3, <1>4 DEF Places
<1>9. \A n \in closing : b + 2 <= n
  <2> SUFFICES ASSUME NEW n \in closing PROVE n # b + 1
    BY <1>8
  <2> QED
    BY <1>4 DEF Places
<1> HIDE DEF closing
<1>10. Min(closing) = b + 2
  BY <1>8, <1>9, MinIs
<1>11. Closes(hook) = b + 2
  BY <1>7, <1>10 DEF Closes, closing
<1> DEFINE new == Spliced(hook, b, b + 2, Managed)
<1>12. /\ new \in Seq(HookLines) /\ Len(new) = (b - 1) + 3 + (Len(hook) - (b + 2))
       /\ \A n \in 1..b - 1 : new[n] = hook[n]
       /\ \A n \in 1..3 : new[(b - 1) + n] = Managed[n]
       /\ \A n \in 1..Len(hook) - (b + 2) : new[(b - 1) + 3 + n] = hook[(b + 2) + n]
  <2>1. b \in 1..Len(hook) /\ b + 2 \in 1..Len(hook) /\ b <= b + 2
    BY <1>1
  <2>2. Managed \in Seq(HookLines) /\ Len(Managed) = 3
    BY ManagedIs
  <2> HIDE DEF new
  <2>3. /\ new \in Seq(HookLines) /\ Len(new) = (b - 1) + Len(Managed) + (Len(hook) - (b + 2))
        /\ \A n \in 1..b - 1 : new[n] = hook[n]
        /\ \A n \in 1..Len(Managed) : new[(b - 1) + n] = Managed[n]
        /\ \A n \in 1..Len(hook) - (b + 2) : new[(b - 1) + Len(Managed) + n] = hook[(b + 2) + n]
    <3>1. PICK e \in 1..Len(hook) : e = b + 2
      BY <2>1
    <3>2. PICK file \in Seq(HookLines) : file = hook
      OBVIOUS
    <3>3. b \in 1..Len(file) /\ e \in 1..Len(file) /\ b <= e /\ new = Spliced(file, b, e, Managed)
      BY <2>1, <3>1, <3>2 DEF new
    <3>4. new \in Seq(HookLines) /\ SplicedWith(new, file, b, e, Managed)
      BY <2>2, <3>3, SplicedIs
    <3> QED
      BY <3>1, <3>2, <3>4 DEF SplicedWith
  <2> QED
    BY <2>2, <2>3
<1> HIDE DEF new
<1>13. Len(new) = Len(hook)
  BY <1>1, <1>12
<1>14. ASSUME NEW n \in 1..Len(hook) PROVE new[n] = hook[n]
  <2>1. CASE n < b
    <3>1. n \in 1..b - 1
      BY <2>1
    <3>2. \A m \in 1..b - 1 : new[m] = hook[m]
      BY <1>12
    <3> QED
      BY <3>1, <3>2
  <2>2. CASE n \in {b, b + 1, b + 2}
    <3>1. new[b] = Managed[1] /\ new[b + 1] = Managed[2] /\ new[b + 2] = Managed[3]
      <4>1. (b - 1) + 1 = b /\ (b - 1) + 2 = b + 1 /\ (b - 1) + 3 = b + 2
        OBVIOUS
      <4> QED
        BY <1>12, <4>1
    <3> QED
      BY <2>2, <3>1, ManagedIs DEF BlockAt
  <2>3. CASE n > b + 2
    <3>1. n - (b + 2) \in 1..Len(hook) - (b + 2)
          /\ (b - 1) + 3 + (n - (b + 2)) = n /\ (b + 2) + (n - (b + 2)) = n
      BY <1>1, <2>3
    <3> QED
      BY <1>12, <3>1
  <2> QED
    BY <2>1, <2>2, <2>3
<1>15. new = hook
  BY <1>12, <1>13, <1>14
<1> QED
  BY <1>7, <1>11, <1>15 DEF new

(* The block keeps its lines when others come before it or after. *)
LEMMA BlockBehind ==
  ASSUME hook \in Seq(HookLines), OneBlockAtMost,
         NEW x \in HookLines, x.kind \notin Marks, hook' = <<x>> \o hook
  PROVE  OneBlockAtMost'
<1>1. Places(hook', Marks) = {l + 1 : l \in Places(hook, Marks)}
  <2>1. PICK file \in Seq(HookLines) : file = hook
    OBVIOUS
  <2>2. Places(<<x>> \o file, Marks)
          = {l + 1 : l \in Places(file, Marks)} \union {n \in {1} : x.kind \in Marks}
    BY PlacesBehind
  <2> QED
    BY <2>1, <2>2
<1>2. Len(hook') = Len(hook) + 1 /\ Len(hook) \in Nat
      /\ \A l \in 1..Len(hook) : hook'[l + 1] = hook[l]
  OBVIOUS
<1>3. CASE Places(hook, Marks) = {}
  BY <1>1, <1>3 DEF OneBlockAtMost
<1>4. ASSUME NEW b \in Nat \ {0}, BlockAt(b)
      PROVE  BlockAt(b + 1)'
  <2>1. b + 2 <= Len(hook) /\ b \in 1..Len(hook) /\ b + 1 \in 1..Len(hook) /\ b + 2 \in 1..Len(hook)
        /\ (b + 1) + 1 = b + 2 /\ (b + 1) + 2 = (b + 2) + 1 /\ b + 3 <= Len(hook) + 1
    BY <1>2, <1>4 DEF BlockAt
  <2>2. hook'[b + 1] = Begin /\ hook'[(b + 1) + 1] = Body /\ hook'[(b + 1) + 2] = End
    BY <1>2, <1>4, <2>1 DEF BlockAt
  <2>3. {l + 1 : l \in b..b + 2} = b + 1..(b + 1) + 2
    <3>1. \A k \in b + 1..(b + 1) + 2 : k - 1 \in b..b + 2 /\ (k - 1) + 1 = k
      OBVIOUS
    <3>2. \A l \in b..b + 2 : l + 1 \in b + 1..(b + 1) + 2
      OBVIOUS
    <3>3. \A k \in b + 1..(b + 1) + 2 : k \in {l + 1 : l \in b..b + 2}
      BY <3>1
    <3>4. \A k \in {l + 1 : l \in b..b + 2} : k \in b + 1..(b + 1) + 2
      BY <3>2
    <3> QED
      BY <3>3, <3>4
  <2>4. Places(hook', Marks) = b + 1..(b + 1) + 2
    BY <1>1, <1>4, <2>3 DEF BlockAt
  <2> QED
    BY <1>2, <2>1, <2>2, <2>4 DEF BlockAt
<1>5. \A b \in Nat \ {0} : b + 1 \in Nat \ {0}
  OBVIOUS
<1> QED
  BY <1>3, <1>4, <1>5 DEF OneBlockAtMost

LEMMA BlockAhead ==
  ASSUME hook \in Seq(HookLines), OneBlockAtMost,
         NEW x \in HookLines, x.kind \notin Marks, hook' = Append(hook, x)
  PROVE  OneBlockAtMost'
<1>1. Places(hook', Marks) = Places(hook, Marks)
  <2>1. PICK file \in Seq(HookLines) : file = hook
    OBVIOUS
  <2>2. PICK more \in Seq(HookLines) : more = <<x>>
    <3>1. <<x>> \in Seq(HookLines)
      OBVIOUS
    <3> QED
      BY <3>1
  <2>3. DOMAIN more = {1} /\ more[1] = x /\ hook' = file \o more
    BY <2>1, <2>2
  <2>4. Places(more, Marks) = {}
    BY <2>3 DEF Places
  <2>5. Places(file \o more, Marks) = Places(file, Marks) \union {Len(file) + l : l \in Places(more, Marks)}
    BY PlacesAhead
  <2> QED
    BY <2>1, <2>3, <2>4, <2>5
<1>2. Len(hook') = Len(hook) + 1 /\ Len(hook) \in Nat /\ \A l \in 1..Len(hook) : hook'[l] = hook[l]
  OBVIOUS
<1>3. CASE Places(hook, Marks) = {}
  BY <1>1, <1>3 DEF OneBlockAtMost
<1>4. ASSUME NEW b \in Nat \ {0}, BlockAt(b)
      PROVE  BlockAt(b)'
  <2>1. b + 2 <= Len(hook) /\ b \in 1..Len(hook) /\ b + 1 \in 1..Len(hook) /\ b + 2 \in 1..Len(hook)
    BY <1>2, <1>4 DEF BlockAt
  <2> QED
    BY <1>1, <1>2, <1>4, <2>1 DEF BlockAt
<1> QED
  BY <1>3, <1>4 DEF OneBlockAtMost

(* The hook's three ways to grow by a line: a comment, or a line of the user's
   before it or after it. *)
LEMMA HookCommented ==
  ASSUME HookInv, ~cut, NEW x \in HookLines, x.kind \notin Marks \union {"hand"},
         script' = script, hook' = <<x>> \o hook
  PROVE  HookInv'
<1>1. hook \in Seq(HookLines) /\ script \in Seq(HookLines) /\ OneBlockAtMost
  BY DEF HookInv
<1>2. PICK file \in Seq(HookLines), lines \in Seq(HookLines),
          places \in {Places(hook, {"hand"})} :
        /\ file = hook /\ lines = script /\ places = Places(file, {"hand"})
  BY <1>1
<1>3. places \in SUBSET (1..Len(file)) /\ KeptInOrder(lines, file, places)
  BY <1>2, PlacesIn DEF HookInv
<1>4. KeptInOrder(lines, <<x>> \o file, {l + 1 : l \in places})
  BY <1>3, KeptBehind
<1>5. Places(<<x>> \o file, {"hand"}) = {l + 1 : l \in Places(file, {"hand"})} \union {n \in {1} : x.kind \in {"hand"}}
  BY PlacesBehind
<1>6. Places(hook', {"hand"}) = {l + 1 : l \in places}
  BY <1>2, <1>5
<1>7. OneBlockAtMost'
  BY <1>1, BlockBehind
<1>8. hook' \in Seq(HookLines) /\ script' \in Seq(HookLines)
  BY <1>1
<1>9. KeptInOrder(script', hook', Places(hook', {"hand"}))
  BY <1>2, <1>4, <1>6
<1> QED
  BY <1>7, <1>8, <1>9 DEF HookInv

LEMMA HookStarts ==
  ASSUME HookInv, ~cut, NEW x \in HookLines, x.kind = "hand",
         script' = <<x>> \o script, hook' = <<x>> \o hook
  PROVE  HookInv'
<1>1. hook \in Seq(HookLines) /\ script \in Seq(HookLines) /\ OneBlockAtMost
  BY DEF HookInv
<1>2. PICK file \in Seq(HookLines), lines \in Seq(HookLines),
          places \in {Places(hook, {"hand"})} :
        /\ file = hook /\ lines = script /\ places = Places(file, {"hand"})
  BY <1>1
<1>3. places \in SUBSET (1..Len(file)) /\ KeptInOrder(lines, file, places)
  BY <1>2, PlacesIn DEF HookInv
<1>4. KeptInOrder(<<x>> \o lines, <<x>> \o file, {1} \union {l + 1 : l \in places})
  BY <1>3, KeptWithFirst
<1>5. Places(<<x>> \o file, {"hand"}) = {l + 1 : l \in Places(file, {"hand"})} \union {n \in {1} : x.kind \in {"hand"}}
  BY PlacesBehind
<1>6. Places(hook', {"hand"}) = {1} \union {l + 1 : l \in places}
  BY <1>2, <1>5
<1>7. OneBlockAtMost'
  BY <1>1, BlockBehind DEF Marks
<1>8. hook' \in Seq(HookLines) /\ script' \in Seq(HookLines)
  BY <1>1
<1>9. KeptInOrder(script', hook', Places(hook', {"hand"}))
  BY <1>2, <1>4, <1>6
<1> QED
  BY <1>7, <1>8, <1>9 DEF HookInv

LEMMA HookEnds ==
  ASSUME HookInv, ~cut, NEW x \in HookLines, x.kind = "hand",
         script' = Append(script, x), hook' = Append(hook, x)
  PROVE  HookInv'
<1>1. hook \in Seq(HookLines) /\ script \in Seq(HookLines) /\ OneBlockAtMost
  BY DEF HookInv
<1>2. PICK file \in Seq(HookLines), lines \in Seq(HookLines),
          places \in {Places(hook, {"hand"})} :
        /\ file = hook /\ lines = script /\ places = Places(file, {"hand"})
  BY <1>1
<1>3. places \in SUBSET (1..Len(file)) /\ KeptInOrder(lines, file, places)
  BY <1>2, PlacesIn DEF HookInv
<1>4. KeptInOrder(Append(lines, x), Append(file, x), places \union {Len(file) + 1})
  BY <1>3, KeptWithLast
<1>5. Places(hook', {"hand"}) = places \union {Len(file) + 1}
  <2>1. PICK more \in Seq(HookLines) : more = <<x>>
    <3>1. <<x>> \in Seq(HookLines)
      OBVIOUS
    <3> QED
      BY <3>1
  <2>2. DOMAIN more = {1} /\ more[1] = x /\ hook' = file \o more
    BY <1>2, <2>1
  <2>3. Places(more, {"hand"}) = {1}
    BY <2>2 DEF Places
  <2>4. Places(file \o more, {"hand"})
          = Places(file, {"hand"}) \union {Len(file) + l : l \in Places(more, {"hand"})}
    BY PlacesAhead
  <2>5. {Len(file) + l : l \in Places(more, {"hand"})} = {Len(file) + 1}
    BY ONLY <2>3
  <2>6. Places(hook', {"hand"}) = Places(file, {"hand"}) \union {Len(file) + 1}
    BY ONLY <2>2, <2>4, <2>5
  <2> QED
    BY <1>2, <2>6
<1>6. OneBlockAtMost'
  BY <1>1, BlockAhead DEF Marks
<1>7. hook' \in Seq(HookLines) /\ script' \in Seq(HookLines)
  BY <1>1
<1>8. KeptInOrder(script', hook', Places(hook', {"hand"}))
  BY <1>2, <1>4, <1>5
<1> QED
  BY <1>6, <1>7, <1>8 DEF HookInv

(* What init appends when it finds no block. *)
LEMMA BlockAppended ==
  ASSUME HookInv, ~cut, Places(hook, Marks) = {}, hook' = hook \o Managed, script' = script
  PROVE  HookInv'
<1>1. hook \in Seq(HookLines) /\ script \in Seq(HookLines)
  BY DEF HookInv
<1>2. PICK file \in Seq(HookLines), lines \in Seq(HookLines),
          places \in {Places(hook, {"hand"})} :
        /\ file = hook /\ lines = script /\ places = Places(file, {"hand"})
  BY <1>1
<1>0. PICK more \in Seq(HookLines) : more = Managed
  BY ManagedIs
<1>3. places \in SUBSET (1..Len(file)) /\ KeptInOrder(lines, file, places)
  BY <1>2, PlacesIn DEF HookInv
<1>4. KeptInOrder(lines, file \o more, places)
  BY <1>3, KeptAhead
<1>5. /\ Places(file \o more, {"hand"})
           = Places(file, {"hand"}) \union {Len(file) + l : l \in Places(more, {"hand"})}
      /\ Places(file \o more, Marks)
           = Places(file, Marks) \union {Len(file) + l : l \in Places(more, Marks)}
  BY PlacesAhead
<1>6. Places(hook', {"hand"}) = places
  BY <1>0, <1>2, <1>5, ManagedIs
<1>7. PICK k \in Nat : k = Len(file)
  OBVIOUS
<1>8. Places(hook', Marks) = k + 1..(k + 1) + 2
  <2>1. Places(hook', Marks) = {k + l : l \in 1..3}
    BY <1>0, <1>2, <1>5, <1>7, ManagedIs
  <2>2. \A n \in k + 1..(k + 1) + 2 : n - k \in 1..3 /\ k + (n - k) = n
    OBVIOUS
  <2>3. \A n \in k + 1..(k + 1) + 2 : n \in {k + l : l \in 1..3}
    BY <2>2
  <2>4. \A n \in {k + l : l \in 1..3} : n \in k + 1..(k + 1) + 2
    OBVIOUS
  <2> QED
    BY <2>1, <2>3, <2>4
<1>9. /\ Len(hook') = k + 3 /\ hook'[k + 1] = Begin /\ hook'[(k + 1) + 1] = Body
      /\ hook'[(k + 1) + 2] = End
  <2>1. Len(file \o more) = Len(file) + Len(more)
        /\ \A n \in 1..Len(more) : (file \o more)[Len(file) + n] = more[n]
    BY ConcatIs
  <2>2. Len(more) = 3 /\ (k + 1) + 1 = k + 2 /\ (k + 1) + 2 = k + 3
    BY <1>0, ManagedIs
  <2> QED
    BY <1>0, <1>2, <1>7, <2>1, <2>2, ManagedIs
<1>10. BlockAt(k + 1)'
  BY <1>8, <1>9 DEF BlockAt
<1>11. OneBlockAtMost'
  <2>1. k + 1 \in Nat \ {0}
    OBVIOUS
  <2> QED
    BY <1>10, <2>1 DEF OneBlockAtMost
<1>12. hook' \in Seq(HookLines) /\ script' \in Seq(HookLines)
  BY <1>1, ManagedIs
<1>13. KeptInOrder(script', hook', Places(hook', {"hand"}))
  BY <1>0, <1>2, <1>4, <1>6
<1> QED
  BY <1>11, <1>12, <1>13 DEF HookInv

LEMMA HookInstalled ==
  ASSUME HookInv, InstallHook
  PROVE  HookInv'
<1> SUFFICES ASSUME ~cut PROVE HookInv'
  BY DEF InstallHook, HookInv
<1>1. hook \in Seq(HookLines) /\ script \in Seq(HookLines) /\ OneBlockAtMost
      /\ KeptInOrder(script, hook, Places(hook, {"hand"}))
  BY DEF HookInv
<1>2. script' = script
  BY DEF InstallHook, written
<1>3. Managed = <<Begin, Body, End>>
  BY DEF Managed
<1>4. CASE hook = <<>> /\ hook' = <<Begin, Body, End>>
  <2>1. Places(hook, {"hand"}) = {}
    BY <1>4 DEF Places
  <2>2. DOMAIN script = {}
    BY <1>1, <2>1 DEF KeptInOrder
  <2>3. script = <<>>
    BY <1>1, <2>2
  <2> QED
    BY <1>2, <1>3, <1>4, <2>3, JustTheBlock
<1>5. CASE hook # <<>> /\ HasBlock(hook)
           /\ hook' = Spliced(hook, Opens(hook), Closes(hook), <<Begin, Body, End>>)
  <2>1. Places(hook, Marks) # {}
    BY <1>5 DEF HasBlock, Places, Marks
  <2>2. PICK b \in Nat \ {0} : BlockAt(b)
    BY <1>1, <2>1 DEF OneBlockAtMost
  <2>3. hook' = hook
    BY <1>1, <1>3, <1>5, <2>2, ReplacedBySelf
  <2> QED
    BY <1>2, <2>3, HookUnchanged
<1>6. CASE /\ hook # <<>>
           /\ Places(hook, {"begin"}) = {} \/ Places(hook, {"end", "quote"}) = {}
           /\ hook' = hook \o <<Begin, Body, End>>
  <2>1. ASSUME NEW b \in Nat \ {0}, BlockAt(b) PROVE FALSE
    <3>1. b \in DOMAIN hook /\ b + 2 \in DOMAIN hook
      BY <1>1, <2>1 DEF BlockAt
    <3>2. hook[b].kind = "begin" /\ hook[b + 2].kind = "end"
      BY <2>1 DEF BlockAt, Begin, End
    <3> QED
      BY <1>6, <3>1, <3>2 DEF Places
  <2>2. Places(hook, Marks) = {}
    BY <1>1, <2>1 DEF OneBlockAtMost
  <2> QED
    BY <1>2, <1>3, <1>6, <2>2, BlockAppended
<1> QED
  BY <1>4, <1>5, <1>6 DEF InstallHook

LEMMA HookStep ==
  ASSUME HookInv, edits \in Nat, [FilesNext]_filesVars
  PROVE  HookInv'
<1>1. CASE InstallHook
  BY <1>1, HookInstalled
<1>2. CASE ReplaceHook
  BY <1>2, JustTheBlock DEF ReplaceHook, Managed
<1>3. CASE QuoteMarker
  <2>1. CASE cut
    BY <1>3, <2>1 DEF QuoteMarker, HookInv
  <2>2. CASE ~cut /\ hook' = hook
    BY <1>3, <2>2, HookUnchanged DEF QuoteMarker
  <2>3. CASE ~cut /\ hook' = <<Quote>> \o hook
    <3>1. Quote \in HookLines /\ Quote.kind \notin Marks \union {"hand"}
      BY DEF Quote, HookLines, Marks
    <3> QED
      BY <1>3, <2>3, <3>1, HookCommented DEF QuoteMarker
  <2> QED
    BY <1>3, <2>1, <2>2, <2>3 DEF QuoteMarker
<1>4. CASE ExtendHook
  <2>1. Hand(edits) \in HookLines /\ Hand(edits).kind = "hand"
    BY DEF Hand, HookLines
  <2>2. PICK x \in HookLines : x = Hand(edits)
    BY <2>1
  <2>3. CASE cut
    BY <1>4, <2>3 DEF ExtendHook, HookInv
  <2>4. CASE ~cut /\ hook' = Append(hook, x) /\ script' = Append(script, x)
    BY <2>1, <2>2, <2>4, HookEnds
  <2>5. CASE ~cut /\ hook' = <<x>> \o hook /\ script' = <<x>> \o script
    BY <2>1, <2>2, <2>5, HookStarts
  <2> QED
    BY <1>4, <2>2, <2>3, <2>4, <2>5 DEF ExtendHook
<1>5. CASE CutMarker
  BY <1>5 DEF CutMarker, HookInv
<1>6. CASE hook' = hook /\ script' = script /\ cut' = cut
  BY <1>6, HookUnchanged
<1> QED
  <2>1. ASSUME NEW S \in SUBSET Paths, Commit(S)
        PROVE  hook' = hook /\ script' = script /\ cut' = cut
    BY <2>1 DEF Commit
  <2>2. ASSUME NEW rule \in Rules, AddBelow(rule) \/ AddAbove(rule)
        PROVE  hook' = hook /\ script' = script /\ cut' = cut
    BY <2>2 DEF AddBelow, AddAbove
  <2>3. PlanWrites \/ PlanReplaces \/ UNCHANGED filesVars
        => hook' = hook /\ script' = script /\ cut' = cut
    BY DEF PlanWrites, PlanReplaces, filesVars
  <2> QED
    BY <1>1, <1>2, <1>3, <1>4, <1>5, <1>6, <2>1, <2>2, <2>3 DEF FilesNext

----------------------------------------------------------------------------
(* .oharaignore. *)

LEMMA SetToSeqIs ==
  ASSUME NEW S, IsFiniteSet(S)
  PROVE  Cardinality(S) \in Nat /\ SetToSeq(S) \in [1..Cardinality(S) -> S]
<1>1. PICK n \in Nat : ExistsBijection(1..n, S)
  BY FS_NatBijection
<1>2. Cardinality(S) = n
  BY <1>1, FS_CountingElements
<1>3. \E f \in [1..n -> S] : IsInjective(f)
  BY <1>1 DEF ExistsBijection, Bijection, Injection
<1> QED
  BY <1>2, <1>3 DEF SetToSeq

LEMMA LineKinds ==
  /\ Begin.kind = "begin" /\ End.kind = "end" /\ Quote.kind = "quote"
  /\ \A r : Line(r).kind = "rule" /\ Line(r).rule = r
BY DEF Begin, End, Quote, Line

(* What plan writes: suggestions between two markers. *)
IsSection(section) ==
  /\ section \in Seq(FileLines) /\ 2 <= Len(section)
  /\ section[1] = Begin /\ section[Len(section)] = End
  /\ \A n \in 2..Len(section) - 1 : section[n] \in {Line(r) : r \in Generated}

LEMMA SectionIs == IsSection(Section)
<1>1. IsFiniteSet(TopDirs)
  <2>1. IsFiniteSet({q \in Paths : Len(q) > 1})
    BY FilesAssumption, FS_Subset
  <2> DEFINE Nested == {q \in Paths : Len(q) > 1}
             First == [p \in Nested |-> p[1]]
  <2>2. First \in Surjection(Nested, TopDirs)
    BY DEF Surjection, TopDirs
  <2> QED
    BY <2>1, <2>2, FS_Surjection DEF ExistsSurjection
<1>2. Suggestions \subseteq TopDirs
  BY DEF Suggestions
<1>3. PICK suggested : suggested = Suggestions
  OBVIOUS
<1>4. IsFiniteSet(suggested)
  BY <1>1, <1>2, <1>3, FS_Subset
<1>5. PICK k \in Nat : k = Cardinality(suggested)
  BY <1>4, SetToSeqIs
<1>6. PICK dirs \in [1..k -> suggested] : dirs = SetToSeq(suggested)
  BY <1>4, <1>5, SetToSeqIs
<1> DEFINE lines == [n \in DOMAIN dirs |-> Line([name |-> dirs[n], dir |-> TRUE, keep |-> FALSE])]
<1>7. lines \in [1..k -> {Line(r) : r \in Generated}]
  <2>1. \A n \in 1..k : [name |-> dirs[n], dir |-> TRUE, keep |-> FALSE] \in Generated
    BY <1>2, <1>3 DEF Generated
  <2> QED
    BY <2>1
<1>8. lines \in Seq(FileLines) /\ Len(lines) = k
      /\ \A n \in 1..k : lines[n] \in {Line(r) : r \in Generated}
  <2>1. {Line(r) : r \in Generated} \subseteq FileLines
    BY DEF FileLines
  <2> HIDE DEF lines
  <2> QED
    BY <1>7, <2>1
<1>9. Section = <<Begin>> \o lines \o <<End>>
  BY <1>3, <1>6 DEF Section
<1> HIDE DEF lines
<1>10. Begin \in FileLines /\ End \in FileLines
  BY DEF FileLines
<1> DEFINE section == <<Begin>> \o lines \o <<End>>
<1>11. /\ section \in Seq(FileLines) /\ Len(section) = k + 2
       /\ section[1] = Begin /\ section[k + 2] = End
       /\ \A n \in 2..k + 1 : section[n] = lines[n - 1]
  BY <1>8, <1>10
<1> HIDE DEF section
<1>12. \A n \in 2..k + 1 : n - 1 \in 1..k
  OBVIOUS
<1>13. IsSection(section)
  BY <1>8, <1>11, <1>12 DEF IsSection
<1> QED
  BY <1>9, <1>13 DEF section

LEMMA LinesOfIs ==
  ASSUME NEW rules \in Seq(Rules)
  PROVE  LinesOf(rules) \in Seq(FileLines) /\ DOMAIN LinesOf(rules) = 1..Len(rules)
         /\ \A n \in 1..Len(rules) : LinesOf(rules)[n] = Line(rules[n])
<1>1. \A r \in Rules : Line(r) \in FileLines
  BY DEF FileLines
<1> QED
  BY <1>1 DEF LinesOf

LEMMA KeptSame ==
  ASSUME NEW lines, NEW file, NEW new, NEW places, KeptInOrder(lines, file, places),
         \A l \in places : new[l] = file[l]
  PROVE  KeptInOrder(lines, new, places)
BY DEF KeptInOrder

(* A file of plan's. *)
LEMMA JustTheSection ==
  ASSUME NEW section, IsSection(section)
  PROVE  IsIgnoreFile(<<>>, <<>>, section)
<1>1. /\ section \in Seq(FileLines) /\ Len(section) \in Nat /\ 2 <= Len(section)
      /\ DOMAIN section = 1..Len(section)
      /\ section[1] = Begin /\ section[Len(section)] = End
      /\ \A n \in 2..Len(section) - 1 : section[n].kind = "rule"
  BY LineKinds DEF IsSection
<1>2. Places(section, {"begin", "end"}) = {1, Len(section)}
  BY <1>1, LineKinds DEF Places
<1>3. RulesBefore(section, 1) = {}
  BY <1>1 DEF RulesBefore, Places
<1>4. LinesOf(<<>>) = <<>> /\ <<>> \in [DOMAIN <<>> -> {}] /\ DOMAIN <<>> = {}
  BY DEF LinesOf
<1>5. TopBefore(<<>>, section, 1)
  BY <1>3, <1>4 DEF TopBefore, KeptInOrder
<1>6. SectionAt(<<>>, <<>>, section, 1, Len(section))
  BY <1>1, <1>2, <1>5 DEF SectionAt, IsSection
<1>7. 1 \in 1..Len(section) /\ Len(section) \in 1..Len(section)
  BY <1>1
<1> QED
  BY <1>1, <1>6, <1>7 DEF IsIgnoreFile

(* A line before the file, which is a rule or a comment. *)
LEMMA TopBehind ==
  ASSUME NEW above \in Seq(Rules), NEW file \in Seq(FileLines), NEW b \in 1..Len(file) + 1,
         TopBefore(above, file, b)
  PROVE  /\ TopBefore(above, <<Quote>> \o file, b + 1)
         /\ \A r \in Rules : TopBefore(<<r>> \o above, <<Line(r)>> \o file, b + 1)
<1>1. PICK places \in SUBSET (1..Len(file)) : places = RulesBefore(file, b)
  <2>1. RulesBefore(file, b) \in SUBSET (1..Len(file))
    BY PlacesIn DEF RulesBefore
  <2> QED
    BY <2>1
<1>2. PICK lines \in Seq(FileLines) : lines = LinesOf(above)
  BY LinesOfIs
<1>3. KeptInOrder(lines, file, places)
  BY <1>1, <1>2 DEF TopBefore
<1>4. \A x \in FileLines : RulesBefore(<<x>> \o file, b + 1)
        = {l + 1 : l \in places} \union {n \in {1} : x.kind = "rule"}
  <2> SUFFICES ASSUME NEW x \in FileLines
               PROVE  RulesBefore(<<x>> \o file, b + 1)
                        = {l + 1 : l \in places} \union {n \in {1} : x.kind = "rule"}
    OBVIOUS
  <2>1. Places(<<x>> \o file, {"rule"})
          = {l + 1 : l \in Places(file, {"rule"})} \union {n \in {1} : x.kind \in {"rule"}}
    BY PlacesBehind
  <2>2. \A l \in Places(file, {"rule"}) : l \in Nat \ {0} /\ (l + 1 < b + 1 <=> l < b)
    BY PlacesIn
  <2>3. \A n \in Places(<<x>> \o file, {"rule"}) :
          n < b + 1 <=> n \in {l + 1 : l \in places} \union {m \in {1} : x.kind = "rule"}
    <3>1. \A l \in Places(file, {"rule"}) : l + 1 < b + 1 <=> l \in places
      BY <1>1, <2>2 DEF RulesBefore
    <3>2. x.kind = "rule" => 1 < b + 1
      OBVIOUS
    <3>3. \A l \in Places(file, {"rule"}) : l + 1 # 1
      BY <2>2
    <3>4. \A l \in Places(file, {"rule"}), m \in places : l + 1 = m + 1 => l = m
      BY <1>1, <2>2
    <3> QED
      BY <2>1, <3>1, <3>2, <3>3, <3>4
  <2>4. {l + 1 : l \in places} \subseteq Places(<<x>> \o file, {"rule"})
    BY <1>1, <2>1 DEF RulesBefore
  <2> QED
    BY <2>1, <2>3, <2>4 DEF RulesBefore
<1>5. TopBefore(above, <<Quote>> \o file, b + 1)
  <2>1. Quote \in FileLines /\ Quote.kind # "rule"
    BY LineKinds DEF FileLines
  <2>2. PICK x \in FileLines : x = Quote
    BY <2>1
  <2>3. KeptInOrder(lines, <<x>> \o file, {l + 1 : l \in places})
    BY <1>3, KeptBehind
  <2>4. RulesBefore(<<x>> \o file, b + 1) = {l + 1 : l \in places}
    BY <1>4, <2>1, <2>2
  <2> QED
    BY <1>2, <2>2, <2>3, <2>4 DEF TopBefore
<1>6. ASSUME NEW r \in Rules
      PROVE  TopBefore(<<r>> \o above, <<Line(r)>> \o file, b + 1)
  <2>1. Line(r) \in FileLines /\ Line(r).kind = "rule"
    BY LineKinds DEF FileLines
  <2>2. PICK x \in FileLines : x = Line(r)
    BY <2>1
  <2>3. KeptInOrder(<<x>> \o lines, <<x>> \o file, {1} \union {l + 1 : l \in places})
    BY <1>3, KeptWithFirst
  <2>4. RulesBefore(<<x>> \o file, b + 1) = {1} \union {l + 1 : l \in places}
    BY <1>4, <2>1, <2>2
  <2>5. LinesOf(<<r>> \o above) = <<x>> \o lines
    <3>1. PICK more \in Seq(Rules) : more = <<r>> \o above
      <4>1. <<r>> \o above \in Seq(Rules)
        OBVIOUS
      <4> QED
        BY <4>1
    <3>2. Len(more) = Len(above) + 1 /\ more[1] = r /\ Len(above) \in Nat
          /\ \A n \in 2..Len(above) + 1 : more[n] = above[n - 1]
      BY <3>1
    <3>3. LinesOf(more) \in Seq(FileLines) /\ Len(LinesOf(more)) = Len(above) + 1
          /\ \A n \in 1..Len(above) + 1 : LinesOf(more)[n] = Line(more[n])
      BY <3>2, LinesOfIs
    <3>4. Len(lines) = Len(above) /\ \A n \in 1..Len(above) : lines[n] = Line(above[n])
      BY <1>2, LinesOfIs
    <3>5. PICK both \in Seq(FileLines) : both = <<x>> \o lines
      <4>1. <<x>> \o lines \in Seq(FileLines)
        OBVIOUS
      <4> QED
        BY <4>1
    <3>6. Len(both) = Len(above) + 1 /\ both[1] = x
          /\ \A n \in 2..Len(above) + 1 : both[n] = lines[n - 1]
      BY <3>4, <3>5
    <3>7. ASSUME NEW n \in 1..Len(above) + 1 PROVE LinesOf(more)[n] = both[n]
      <4>1. CASE n = 1
        BY <2>2, <3>2, <3>3, <3>6, <4>1
      <4>2. CASE n # 1
        <5>1. n \in 2..Len(above) + 1 /\ n - 1 \in 1..Len(above)
          BY <3>2, <4>2
        <5> QED
          BY <3>2, <3>3, <3>4, <3>6, <5>1
      <4> QED
        BY <4>1, <4>2
    <3>8. LinesOf(more) = both
      BY <3>3, <3>6, <3>7
    <3> QED
      BY <3>1, <3>5, <3>8
  <2> QED
    BY <2>2, <2>3, <2>4, <2>5 DEF TopBefore
<1> QED
  BY <1>5, <1>6

(* The markers do not move but by the lines before them. *)
LEMMA MarkersBehind ==
  ASSUME NEW file \in Seq(FileLines), NEW x \in FileLines, x.kind \notin {"begin", "end"}
  PROVE  /\ Places(<<x>> \o file, {"begin", "end"}) = {l + 1 : l \in Places(file, {"begin", "end"})}
         /\ Len(<<x>> \o file) = Len(file) + 1 /\ <<x>> \o file \in Seq(FileLines)
         /\ \A l \in 1..Len(file) : (<<x>> \o file)[l + 1] = file[l]
<1>1. Places(<<x>> \o file, {"begin", "end"})
        = {l + 1 : l \in Places(file, {"begin", "end"})} \union {n \in {1} : x.kind \in {"begin", "end"}}
  BY PlacesBehind
<1>2. Len(<<x>> \o file) = Len(file) + 1 /\ <<x>> \o file \in Seq(FileLines)
      /\ \A l \in 1..Len(file) : (<<x>> \o file)[l + 1] = file[l]
  OBVIOUS
<1> QED
  BY <1>1, <1>2

(* What the two ways to put a line before the file have in common. *)
LEMMA IgnoreBehind ==
  ASSUME NEW above \in Seq(Rules), NEW below \in Seq(Rules), NEW file \in Seq(FileLines),
         IsIgnoreFile(above, below, file),
         NEW x \in FileLines, x.kind \notin {"begin", "end"}, NEW more \in Seq(Rules),
         \A b \in 1..Len(file) + 1 :
           TopBefore(above, file, b) => TopBefore(more, <<x>> \o file, b + 1)
  PROVE  IsIgnoreFile(more, below, <<x>> \o file)
<1>1. PICK new \in Seq(FileLines) : new = <<x>> \o file
  BY MarkersBehind
<1>2. /\ Places(new, {"begin", "end"}) = {l + 1 : l \in Places(file, {"begin", "end"})}
      /\ Len(new) = Len(file) + 1 /\ Len(file) \in Nat
      /\ \A l \in 1..Len(file) : new[l + 1] = file[l]
  BY <1>1, MarkersBehind
<1>3. CASE NoSection(above, below, file)
  <2>1. Len(file) + 1 \in 1..Len(file) + 1
    BY <1>2
  <2>2. TopBefore(more, new, (Len(file) + 1) + 1)
    BY <1>1, <1>3, <2>1 DEF NoSection
  <2>3. NoSection(more, below, new)
    BY <1>2, <1>3, <2>2 DEF NoSection
  <2> QED
    BY <1>1, <2>3 DEF IsIgnoreFile
<1>4. ASSUME NEW b \in 1..Len(file), NEW e \in 1..Len(file), SectionAt(above, below, file, b, e)
      PROVE  SectionAt(more, below, new, b + 1, e + 1)
  <2>1. /\ b < e /\ e + Len(below) = Len(file) /\ file[b] = Begin /\ file[e] = End
        /\ Places(file, {"begin", "end"}) = {b, e} /\ TopBefore(above, file, b)
    BY <1>4 DEF SectionAt
  <2>2. TopBefore(more, new, b + 1)
    <3>1. b \in 1..Len(file) + 1
      BY <1>2
    <3>2. TopBefore(more, <<x>> \o file, b + 1)
      BY <2>1, <3>1
    <3> QED
      BY <1>1, <3>2
  <2>3. new[b + 1] = Begin /\ new[e + 1] = End /\ Places(new, {"begin", "end"}) = {b + 1, e + 1}
    BY <1>2, <2>1
  <2>4. ASSUME NEW n \in (b + 1) + 1..(e + 1) - 1
        PROVE  new[n] \in {Line(r) : r \in Generated}
    <3>1. n - 1 \in b + 1..e - 1 /\ n - 1 \in 1..Len(file) /\ (n - 1) + 1 = n
      OBVIOUS
    <3>2. new[n] = file[n - 1]
      BY <1>2, <3>1
    <3> QED
      BY <1>4, <3>1, <3>2 DEF SectionAt
  <2>5. ASSUME NEW n \in DOMAIN below
        PROVE  new[(e + 1) + n] = Line(below[n])
    <3>1. n \in 1..Len(below) /\ e + n \in 1..Len(file) /\ (e + 1) + n = (e + n) + 1
      BY <2>1
    <3>2. new[(e + 1) + n] = file[e + n]
      BY <1>2, <3>1
    <3> QED
      BY <1>4, <3>2 DEF SectionAt
  <2>6. b + 1 < e + 1 /\ (e + 1) + Len(below) = Len(new)
    <3>1. PICK k \in Nat : k = Len(below)
      OBVIOUS
    <3>2. PICK l \in Nat : l = Len(file)
      OBVIOUS
    <3>3. Len(new) = l + 1 /\ b < e /\ e + k = l
      BY <1>2, <2>1, <3>1, <3>2
    <3>4. b + 1 < e + 1 /\ (e + 1) + k = l + 1
      BY <3>3
    <3> QED
      BY <3>1, <3>3, <3>4
  <2> QED
    BY <2>2, <2>3, <2>4, <2>5, <2>6 DEF SectionAt
<1>5. \A n \in 1..Len(file) : n + 1 \in 1..Len(new)
  BY <1>2
<1> QED
  BY <1>1, <1>3, <1>4, <1>5 DEF IsIgnoreFile

LEMMA Quoted ==
  ASSUME NEW above, NEW below, NEW file, IsIgnoreFile(above, below, file)
  PROVE  IsIgnoreFile(above, below, <<Quote>> \o file)
<1>1. above \in Seq(Rules) /\ below \in Seq(Rules) /\ file \in Seq(FileLines)
  BY DEF IsIgnoreFile
<1>2. Quote \in FileLines /\ Quote.kind \notin {"begin", "end"}
  BY LineKinds DEF FileLines
<1>3. \A b \in 1..Len(file) + 1 :
        TopBefore(above, file, b) => TopBefore(above, <<Quote>> \o file, b + 1)
  BY <1>1, TopBehind
<1> QED
  BY <1>1, <1>2, <1>3, IgnoreBehind

LEMMA AddedAbove ==
  ASSUME NEW above, NEW below, NEW file, IsIgnoreFile(above, below, file), NEW rule \in Rules
  PROVE  IsIgnoreFile(<<rule>> \o above, below, <<Line(rule)>> \o file)
<1>1. above \in Seq(Rules) /\ below \in Seq(Rules) /\ file \in Seq(FileLines)
  BY DEF IsIgnoreFile
<1>2. Line(rule) \in FileLines /\ Line(rule).kind \notin {"begin", "end"}
  BY LineKinds DEF FileLines
<1>3. \A b \in 1..Len(file) + 1 :
        TopBefore(above, file, b) => TopBefore(<<rule>> \o above, <<Line(rule)>> \o file, b + 1)
  BY <1>1, TopBehind
<1>4. <<rule>> \o above \in Seq(Rules)
  BY <1>1
<1> QED
  BY <1>1, <1>2, <1>3, <1>4, IgnoreBehind

(* A rule at the end of the file, where it has a block and where it has none. *)
LEMMA EndsWith ==
  ASSUME NEW file \in Seq(FileLines), NEW x \in FileLines, NEW kinds
  PROVE  Places(Append(file, x), kinds)
           = Places(file, kinds) \union {n \in {Len(file) + 1} : x.kind \in kinds}
<1>1. PICK more \in Seq(FileLines) : more = <<x>>
  <2>1. <<x>> \in Seq(FileLines)
    OBVIOUS
  <2> QED
    BY <2>1
<1>2. Append(file, x) = file \o more /\ DOMAIN more = {1} /\ more[1] = x /\ Len(file) \in Nat
  BY <1>1
<1>3. Places(file \o more, kinds) = Places(file, kinds) \union {Len(file) + l : l \in Places(more, kinds)}
  BY PlacesAhead
<1>4. Places(more, kinds) = {n \in {1} : x.kind \in kinds}
  BY <1>2 DEF Places
<1> QED
  BY <1>2, <1>3, <1>4

LEMMA AddedFirst ==
  ASSUME NEW above, NEW below, NEW file, IsIgnoreFile(above, below, file), ~HasBlock(file),
         NEW rule \in Rules
  PROVE  IsIgnoreFile(Append(above, rule), below, Append(file, Line(rule)))
<1>1. above \in Seq(Rules) /\ below \in Seq(Rules) /\ file \in Seq(FileLines) /\ Len(file) \in Nat
      /\ DOMAIN file = 1..Len(file)
  BY DEF IsIgnoreFile
<1>2. NoSection(above, below, file)
  <2> SUFFICES ASSUME NEW b \in 1..Len(file), NEW e \in 1..Len(file),
                      SectionAt(above, below, file, b, e)
               PROVE  FALSE
    BY DEF IsIgnoreFile
  <2>1. b \in Places(file, {"begin"}) /\ e \in Places(file, {"end", "quote"}) /\ b < e
    BY <1>1, LineKinds DEF SectionAt, Places
  <2> QED
    BY <2>1 DEF HasBlock
<1>3. PICK x \in FileLines : x = Line(rule)
  BY DEF FileLines
<1>4. x.kind = "rule"
  BY <1>3, LineKinds
<1>5. Places(Append(file, x), {"begin", "end"}) = {}
  BY <1>1, <1>2, <1>4, EndsWith DEF NoSection
<1>6. PICK places \in SUBSET (1..Len(file)) : places = Places(file, {"rule"})
  BY <1>1, PlacesIn
<1>7. RulesBefore(file, Len(file) + 1) = places
  BY <1>1, <1>6 DEF RulesBefore
<1>8. RulesBefore(Append(file, x), Len(Append(file, x)) + 1) = places \union {Len(file) + 1}
  <2>1. Places(Append(file, x), {"rule"}) = places \union {Len(file) + 1}
    BY <1>1, <1>4, <1>6, EndsWith
  <2>2. Len(Append(file, x)) = Len(file) + 1
    BY <1>1
  <2> QED
    <3>1. \A n \in places \union {Len(file) + 1} : n < (Len(file) + 1) + 1
      BY <1>1
    <3> QED
      BY <2>1, <2>2, <3>1 DEF RulesBefore
<1>9. PICK lines \in Seq(FileLines) : lines = LinesOf(above)
  BY <1>1, LinesOfIs
<1>10. KeptInOrder(Append(lines, x), Append(file, x), places \union {Len(file) + 1})
  <2>1. KeptInOrder(lines, file, places)
    BY <1>2, <1>7, <1>9 DEF NoSection, TopBefore
  <2> QED
    BY <1>1, <2>1, KeptWithLast
<1>11. LinesOf(Append(above, rule)) = Append(lines, x)
  <2>1. PICK more \in Seq(Rules) : more = Append(above, rule)
    <3>1. Append(above, rule) \in Seq(Rules)
      BY <1>1
    <3> QED
      BY <3>1
  <2>2. /\ Len(more) = Len(above) + 1 /\ Len(above) \in Nat /\ more[Len(above) + 1] = rule
        /\ \A n \in 1..Len(above) : more[n] = above[n]
    BY <1>1, <2>1
  <2>3. LinesOf(more) \in Seq(FileLines) /\ Len(LinesOf(more)) = Len(above) + 1
        /\ \A n \in 1..Len(above) + 1 : LinesOf(more)[n] = Line(more[n])
    BY <2>2, LinesOfIs
  <2>4. Len(lines) = Len(above) /\ \A n \in 1..Len(above) : lines[n] = Line(above[n])
    BY <1>1, <1>9, LinesOfIs
  <2>5. PICK both \in Seq(FileLines) : both = Append(lines, x)
    <3>1. Append(lines, x) \in Seq(FileLines)
      OBVIOUS
    <3> QED
      BY <3>1
  <2>6. Len(both) = Len(above) + 1 /\ both[Len(above) + 1] = x
        /\ \A n \in 1..Len(above) : both[n] = lines[n]
    BY <2>4, <2>5
  <2>7. ASSUME NEW n \in 1..Len(above) + 1 PROVE LinesOf(more)[n] = both[n]
    <3>1. CASE n = Len(above) + 1
      BY <1>3, <2>2, <2>3, <2>6, <3>1
    <3>2. CASE n # Len(above) + 1
      <4>1. n \in 1..Len(above)
        BY <2>2, <3>2
      <4> QED
        BY <2>2, <2>3, <2>4, <2>6, <4>1
    <3> QED
      BY <3>1, <3>2
  <2>8. LinesOf(more) = both
    BY <2>3, <2>6, <2>7
  <2> QED
    BY <2>1, <2>5, <2>8
<1>12. TopBefore(Append(above, rule), Append(file, x), Len(Append(file, x)) + 1)
  BY <1>8, <1>10, <1>11 DEF TopBefore
<1>13. NoSection(Append(above, rule), below, Append(file, x))
  BY <1>2, <1>5, <1>12 DEF NoSection
<1>14. Append(above, rule) \in Seq(Rules) /\ Append(file, x) \in Seq(FileLines)
  BY <1>1
<1> QED
  BY <1>1, <1>3, <1>13, <1>14 DEF IsIgnoreFile

LEMMA AddedLast ==
  ASSUME NEW above, NEW below, NEW file, IsIgnoreFile(above, below, file), HasBlock(file),
         NEW rule \in Rules
  PROVE  IsIgnoreFile(above, Append(below, rule), Append(file, Line(rule)))
<1>1. above \in Seq(Rules) /\ below \in Seq(Rules) /\ file \in Seq(FileLines) /\ Len(file) \in Nat
      /\ Len(below) \in Nat /\ DOMAIN below = 1..Len(below)
  BY DEF IsIgnoreFile
<1>2. PICK b \in 1..Len(file), e \in 1..Len(file) : SectionAt(above, below, file, b, e)
  <2>1. Places(file, {"begin", "end"}) # {}
    BY DEF HasBlock, Places
  <2> QED
    BY <2>1 DEF IsIgnoreFile, NoSection
<1>3. PICK x \in FileLines : x = Line(rule)
  BY DEF FileLines
<1>4. x.kind = "rule"
  BY <1>3, LineKinds
<1>5. PICK new \in Seq(FileLines) : new = Append(file, x)
  <2>1. Append(file, x) \in Seq(FileLines)
    BY <1>1
  <2> QED
    BY <2>1
<1>6. Len(new) = Len(file) + 1 /\ new[Len(file) + 1] = x /\ \A l \in 1..Len(file) : new[l] = file[l]
  BY <1>1, <1>5
<1>7. /\ b < e /\ e + Len(below) = Len(file) /\ file[b] = Begin /\ file[e] = End
      /\ Places(file, {"begin", "end"}) = {b, e} /\ TopBefore(above, file, b)
  BY <1>2 DEF SectionAt
<1>8. Places(new, {"begin", "end"}) = {b, e}
  <2>1. Places(Append(file, x), {"begin", "end"})
          = Places(file, {"begin", "end"}) \union {n \in {Len(file) + 1} : x.kind \in {"begin", "end"}}
    BY <1>1, EndsWith
  <2> QED
    BY <1>4, <1>5, <1>7, <2>1
<1>9. RulesBefore(new, b) = RulesBefore(file, b) /\ RulesBefore(file, b) \subseteq 1..Len(file)
  <2>1. Places(new, {"rule"}) = Places(file, {"rule"}) \union {Len(file) + 1}
    BY <1>1, <1>4, <1>5, EndsWith
  <2>2. ~(Len(file) + 1 < b)
    BY <1>1
  <2>3. Places(file, {"rule"}) \subseteq 1..Len(file)
    BY <1>1, PlacesIn
  <2> QED
    BY <2>1, <2>2, <2>3 DEF RulesBefore
<1>10. TopBefore(above, new, b)
  BY <1>6, <1>7, <1>9, KeptSame DEF TopBefore
<1>11. \A n \in b + 1..e - 1 : new[n] \in {Line(r) : r \in Generated}
  <2> SUFFICES ASSUME NEW n \in b + 1..e - 1 PROVE new[n] \in {Line(r) : r \in Generated}
    OBVIOUS
  <2>1. n \in 1..Len(file)
    BY <1>1
  <2> QED
    BY <1>2, <1>6, <2>1 DEF SectionAt
<1>12. PICK more \in Seq(Rules) : more = Append(below, rule)
  <2>1. Append(below, rule) \in Seq(Rules)
    BY <1>1
  <2> QED
    BY <2>1
<1>13. /\ Len(more) = Len(below) + 1 /\ DOMAIN more = 1..Len(below) + 1
       /\ more[Len(below) + 1] = rule /\ \A n \in 1..Len(below) : more[n] = below[n]
  BY <1>1, <1>12
<1>14. ASSUME NEW n \in DOMAIN more PROVE new[e + n] = Line(more[n])
  <2>1. CASE n = Len(below) + 1
    <3>1. e + n = Len(file) + 1
      <4>1. e + Len(below) = Len(file) /\ e \in Nat /\ Len(below) \in Nat /\ Len(file) \in Nat
        BY <1>1, <1>7
      <4> QED
        BY <2>1, <4>1
    <3> QED
      BY <1>3, <1>6, <1>13, <2>1, <3>1
  <2>2. CASE n # Len(below) + 1
    <3>1. n \in DOMAIN below /\ n \in 1..Len(below) /\ e + n \in 1..Len(file)
      BY <1>1, <1>7, <1>13, <2>2
    <3>2. file[e + n] = Line(below[n])
      BY <1>2, <3>1 DEF SectionAt
    <3> QED
      BY <1>6, <1>13, <3>1, <3>2
  <2> QED
    BY <2>1, <2>2
<1>15. e + Len(more) = Len(new)
  <2>1. e + Len(below) = Len(file) /\ e \in Nat /\ Len(below) \in Nat /\ Len(file) \in Nat
    BY <1>1, <1>7
  <2>2. Len(more) = Len(below) + 1 /\ Len(new) = Len(file) + 1
    BY <1>6, <1>13
  <2> QED
    BY <2>1, <2>2
<1>16. new[b] = Begin /\ new[e] = End
  BY <1>6, <1>7
<1>17. SectionAt(above, more, new, b, e)
  BY <1>7, <1>8, <1>10, <1>11, <1>14, <1>15, <1>16 DEF SectionAt
<1>18. b \in 1..Len(new) /\ e \in 1..Len(new)
  BY <1>1, <1>6
<1>19. IsIgnoreFile(above, more, new)
  BY <1>1, <1>17, <1>18 DEF IsIgnoreFile
<1> QED
  BY <1>3, <1>5, <1>12, <1>19

(* plan puts a new section in the old one's place. *)
LEMMA SectionFound ==
  ASSUME NEW above, NEW below, NEW file, IsIgnoreFile(above, below, file), HasBlock(file)
  PROVE  \E b, e \in 1..Len(file) :
           SectionAt(above, below, file, b, e) /\ Opens(file) = b /\ Closes(file) = e
<1>1. file \in Seq(FileLines) /\ Len(file) \in Nat /\ DOMAIN file = 1..Len(file)
      /\ below \in Seq(Rules) /\ Len(below) \in Nat /\ DOMAIN below = 1..Len(below)
  BY DEF IsIgnoreFile
<1>2. PICK b \in 1..Len(file), e \in 1..Len(file) : SectionAt(above, below, file, b, e)
  <2>1. Places(file, {"begin", "end"}) # {}
    BY DEF HasBlock, Places
  <2> QED
    BY <2>1 DEF IsIgnoreFile, NoSection
<1>3. /\ b < e /\ e + Len(below) = Len(file) /\ file[b].kind = "begin" /\ file[e].kind = "end"
      /\ Places(file, {"begin", "end"}) = {b, e}
  BY <1>2, LineKinds DEF SectionAt
<1>4. Places(file, {"begin"}) = {b}
  BY <1>1, <1>3 DEF Places
<1>5. Opens(file) = b
  BY <1>4, MinIs DEF Opens
<1> DEFINE closing == {n \in Places(file, {"end", "quote"}) : n > b}
<1>6. closing \in SUBSET Nat /\ e \in closing
  BY <1>1, <1>3 DEF Places
<1>7. ASSUME NEW n \in closing PROVE e <= n
  <2>1. n \in 1..Len(file) /\ n > b /\ file[n].kind # "rule"
    BY <1>1 DEF Places
  <2>2. ASSUME n < e PROVE FALSE
    <3>1. n \in b + 1..e - 1
      BY <2>1, <2>2
    <3>2. file[n].kind = "rule"
      BY <1>2, <3>1, LineKinds DEF SectionAt
    <3> QED
      BY <2>1, <3>2
  <2> QED
    BY <2>1, <2>2
<1> HIDE DEF closing
<1>8. Min(closing) = e
  BY <1>6, <1>7, MinIs
<1>9. Closes(file) = e
  BY <1>5, <1>8 DEF Closes, closing
<1> QED
  BY <1>2, <1>5, <1>9

LEMMA Rewritten ==
  ASSUME NEW above, NEW below, NEW file, IsIgnoreFile(above, below, file), HasBlock(file),
         NEW section, IsSection(section)
  PROVE  IsIgnoreFile(above, below, Spliced(file, Opens(file), Closes(file), section))
<1>1. above \in Seq(Rules) /\ below \in Seq(Rules) /\ file \in Seq(FileLines)
  BY DEF IsIgnoreFile
<1>2. PICK b \in 1..Len(file), e \in 1..Len(file) :
        SectionAt(above, below, file, b, e) /\ Opens(file) = b /\ Closes(file) = e
  BY SectionFound
<1>3. /\ b < e /\ e + Len(below) = Len(file) /\ Places(file, {"begin", "end"}) = {b, e}
      /\ TopBefore(above, file, b) /\ \A n \in DOMAIN below : file[e + n] = Line(below[n])
  BY <1>2 DEF SectionAt
<1>4. /\ section \in Seq(FileLines) /\ 2 <= Len(section)
      /\ section[1] = Begin /\ section[Len(section)] = End
      /\ \A n \in 2..Len(section) - 1 : section[n] \in {Line(r) : r \in Generated}
  BY DEF IsSection
<1>5. PICK new \in Seq(FileLines) : new = Spliced(file, b, e, section)
  BY <1>1, <1>3, <1>4, SplicedIs
<1>6. SplicedWith(new, file, b, e, section)
  BY <1>1, <1>3, <1>4, <1>5, SplicedIs
<1>7. PICK k \in Nat : k = Len(section)
  BY <1>4
<1>8. PICK l \in Nat : l = Len(file)
  BY <1>1
<1>9. PICK m \in Nat : m = Len(below) /\ DOMAIN below = 1..m
  BY <1>1
<1>10. b \in 1..l /\ e \in 1..l /\ b < e /\ e + m = l /\ 2 <= k /\ DOMAIN file = 1..l
  BY <1>1, <1>3, <1>4, <1>7, <1>8, <1>9
<1>11. PICK last \in Nat : last = (b - 1) + k
  BY <1>10
<1>12. b < last /\ last \in 1..last + m /\ b \in 1..last + m
  BY <1>10, <1>11
<1>13. /\ Len(new) = last + m
       /\ \A n \in 1..b - 1 : new[n] = file[n]
       /\ \A n \in 1..k : new[(b - 1) + n] = section[n]
       /\ \A n \in 1..m : new[last + n] = file[e + n]
  <2>1. l - e = m
    BY <1>10
  <2> QED
    BY <1>6, <1>7, <1>8, <1>11, <2>1 DEF SplicedWith
<1>14. DOMAIN new = 1..last + m
  BY <1>5, <1>13
<1>15. new[b] = Begin /\ new[last] = End
  <2>1. 1 \in 1..k /\ k \in 1..k /\ (b - 1) + 1 = b
    BY <1>10
  <2> QED
    BY <1>4, <1>7, <1>11, <1>13, <2>1
<1>16. ASSUME NEW n \in b + 1..last - 1
       PROVE  new[n] \in {Line(r) : r \in Generated}
  <2>1. PICK i \in 2..k - 1 : (b - 1) + i = n
    <3>1. n - (b - 1) \in 2..k - 1 /\ (b - 1) + (n - (b - 1)) = n
      BY <1>10, <1>11
    <3> QED
      BY <3>1
  <2>2. new[n] = section[i]
    <3>1. i \in 1..k
      BY <2>1
    <3>2. \A p \in 1..k : new[(b - 1) + p] = section[p]
      BY <1>13
    <3>3. new[(b - 1) + i] = section[i]
      BY <3>1, <3>2
    <3> QED
      BY <2>1, <3>3
  <2> QED
    BY <1>4, <1>7, <2>1, <2>2
<1>17. \A n \in DOMAIN below : new[last + n] = Line(below[n])
  BY <1>3, <1>9, <1>13
<1>18. Places(new, {"begin", "end"}) = {b, last}
  <2>1. ASSUME NEW n \in 1..last + m, n # b, n # last
        PROVE  new[n].kind \notin {"begin", "end"}
    <3>1. CASE n \in 1..b - 1
      <4>1. n \in 1..l /\ n # b /\ n # e /\ new[n] = file[n]
        BY <1>10, <1>13, <3>1
      <4> QED
        BY <1>3, <1>10, <4>1 DEF Places
    <3>2. CASE n \in b + 1..last - 1
      BY <1>16, <3>2, LineKinds
    <3>3. CASE n \in last + 1..last + m
      <4>1. n - last \in 1..m /\ last + (n - last) = n
        BY <3>3
      <4>2. new[n] = Line(below[n - last])
        BY <1>9, <1>17, <4>1
      <4> QED
        BY <4>2, LineKinds
    <3>4. n \in 1..b - 1 \/ n \in b + 1..last - 1 \/ n \in last + 1..last + m
      BY <1>10, <1>12, <2>1
    <3> QED
      BY <3>1, <3>2, <3>3, <3>4
  <2> QED
    BY <1>12, <1>14, <1>15, <2>1, LineKinds DEF Places
<1>19. RulesBefore(new, b) = RulesBefore(file, b) /\ RulesBefore(file, b) \subseteq 1..b - 1
  <2>1. \A n : n \in DOMAIN file /\ n < b <=> n \in 1..b - 1
    BY <1>10
  <2>2. \A n : n \in DOMAIN new /\ n < b <=> n \in 1..b - 1
    BY <1>10, <1>12, <1>14
  <2> QED
    BY <1>13, <2>1, <2>2 DEF RulesBefore, Places
<1>20. TopBefore(above, new, b)
  BY <1>3, <1>13, <1>19, KeptSame DEF TopBefore
<1>21. SectionAt(above, below, new, b, last)
  BY <1>9, <1>12, <1>13, <1>15, <1>16, <1>17, <1>18, <1>20 DEF SectionAt
<1> QED
  BY <1>1, <1>2, <1>5, <1>12, <1>13, <1>21 DEF IsIgnoreFile

LEMMA IgnoreUnchanged ==
  ASSUME IgnoreInv, ignoreFile' = ignoreFile, UNCHANGED written
  PROVE  IgnoreInv'
BY DEF IgnoreInv, written

LEMMA IgnoreStep ==
  ASSUME IgnoreInv, [FilesNext]_filesVars
  PROVE  IgnoreInv'
<1>1. PICK file, above, below : file = ignoreFile /\ above = top /\ below = bottom
  OBVIOUS
<1>2. IsIgnoreFile(above, below, file)
  BY <1>1 DEF IgnoreInv
<1>3. PICK section : section = Section
  OBVIOUS
<1>4. IsSection(section)
  BY <1>3, SectionIs
<1>5. CASE PlanWrites
  <2>1. HasBlock(file) /\ ignoreFile' = Spliced(file, Opens(file), Closes(file), section)
        /\ UNCHANGED written
    BY <1>1, <1>3, <1>5 DEF PlanWrites
  <2>2. IsIgnoreFile(above, below, Spliced(file, Opens(file), Closes(file), section))
    BY <1>2, <1>4, <2>1, Rewritten
  <2> QED
    BY <1>1, <2>1, <2>2 DEF IgnoreInv, written
<1>6. CASE PlanReplaces
  <2>1. IsIgnoreFile(<<>>, <<>>, section)
    BY <1>4, JustTheSection
  <2> QED
    BY <1>3, <1>6, <2>1 DEF PlanReplaces, IgnoreInv
<1>7. CASE QuoteMarker
  <2>1. CASE ignoreFile' = <<Quote>> \o ignoreFile
    <3>1. IsIgnoreFile(above, below, <<Quote>> \o file)
      BY <1>2, Quoted
    <3> QED
      BY <1>1, <1>7, <2>1, <3>1 DEF QuoteMarker, IgnoreInv, written
  <2>2. CASE ignoreFile' = ignoreFile
    BY <1>7, <2>2, IgnoreUnchanged DEF QuoteMarker
  <2> QED
    BY <1>7, <2>1, <2>2 DEF QuoteMarker
<1>8. ASSUME NEW rule \in Rules, AddAbove(rule)
      PROVE  IgnoreInv'
  <2>1. IsIgnoreFile(<<rule>> \o above, below, <<Line(rule)>> \o file)
    BY <1>2, AddedAbove
  <2> QED
    BY <1>1, <1>8, <2>1 DEF AddAbove, IgnoreInv
<1>9. ASSUME NEW rule \in Rules, AddBelow(rule)
      PROVE  IgnoreInv'
  <2>1. CASE HasBlock(file)
    <3>1. IsIgnoreFile(above, Append(below, rule), Append(file, Line(rule)))
      BY <1>2, <2>1, AddedLast
    <3> QED
      BY <1>1, <1>9, <2>1, <3>1 DEF AddBelow, IgnoreInv
  <2>2. CASE ~HasBlock(file)
    <3>1. IsIgnoreFile(Append(above, rule), below, Append(file, Line(rule)))
      BY <1>2, <2>2, AddedFirst
    <3> QED
      BY <1>1, <1>9, <2>2, <3>1 DEF AddBelow, IgnoreInv
  <2> QED
    BY <2>1, <2>2
<1>10. ASSUME NEW S \in SUBSET Paths, Commit(S)
       PROVE  IgnoreInv'
  BY <1>10, IgnoreUnchanged DEF Commit
<1>11. CASE InstallHook \/ ReplaceHook \/ ExtendHook \/ CutMarker \/ UNCHANGED filesVars
  BY <1>11, IgnoreUnchanged DEF InstallHook, ReplaceHook, ExtendHook, CutMarker, filesVars
<1> QED
  BY <1>5, <1>6, <1>7, <1>8, <1>9, <1>10, <1>11 DEF FilesNext

----------------------------------------------------------------------------
(* The inductive invariant. *)

LEMMA NothingKept ==
  ASSUME NEW file, NEW places, places = {}
  PROVE  KeptInOrder(<<>>, file, places)
<1>1. <<>> \in [DOMAIN <<>> -> {}] /\ DOMAIN <<>> = {}
  OBVIOUS
<1> QED
  BY <1>1 DEF KeptInOrder

LEMMA FilesInvInit ==
  ASSUME FilesInit
  PROVE  FilesInv
<1>1. hook = <<>> /\ script = <<>> /\ ignoreFile = <<>> /\ top = <<>> /\ bottom = <<>> /\ edits = 0
  BY DEF FilesInit
<1>2. \A kinds : Places(<<>>, kinds) = {}
  BY DEF Places
<1>3. HookInv
  <2>1. hook \in Seq(HookLines) /\ script \in Seq(HookLines)
    BY <1>1
  <2>2. KeptInOrder(script, hook, Places(hook, {"hand"})) /\ OneBlockAtMost
    BY <1>1, <1>2, NothingKept DEF OneBlockAtMost
  <2> QED
    BY <2>1, <2>2 DEF HookInv
<1>4. IgnoreInv
  <2>1. LinesOf(<<>>) = <<>>
    BY DEF LinesOf
  <2>2. RulesBefore(<<>>, Len(<<>>) + 1) = {}
    BY <1>2 DEF RulesBefore
  <2>3. TopBefore(<<>>, <<>>, Len(<<>>) + 1)
    BY <2>1, <2>2, NothingKept DEF TopBefore
  <2>4. NoSection(<<>>, <<>>, <<>>)
    BY <1>2, <2>3 DEF NoSection
  <2>5. <<>> \in Seq(FileLines) /\ <<>> \in Seq(Rules)
    OBVIOUS
  <2> QED
    BY <1>1, <2>4, <2>5 DEF IgnoreInv, IsIgnoreFile
<1> QED
  BY <1>1, <1>3, <1>4 DEF FilesInv

LEMMA FilesInvStep ==
  ASSUME FilesInv, [FilesNext]_filesVars
  PROVE  FilesInv'
<1>1. edits' = edits \/ Edit
  <2>1. \A S \in SUBSET Paths : Commit(S) => edits' = edits
    BY DEF Commit
  <2>2. PlanWrites \/ PlanReplaces \/ InstallHook \/ ReplaceHook \/ UNCHANGED filesVars
          => edits' = edits
    BY DEF PlanWrites, PlanReplaces, InstallHook, ReplaceHook, filesVars
  <2>3. \A rule \in Rules : AddBelow(rule) \/ AddAbove(rule) => Edit
    BY DEF AddBelow, AddAbove
  <2>4. QuoteMarker \/ ExtendHook \/ CutMarker => Edit
    BY DEF QuoteMarker, ExtendHook, CutMarker
  <2> QED
    BY <2>1, <2>2, <2>3, <2>4 DEF FilesNext
<1>2. HookInv'
  BY HookStep DEF FilesInv
<1>3. IgnoreInv'
  BY IgnoreStep DEF FilesInv
<1>4. edits' \in Nat
  BY <1>1 DEF FilesInv, Edit
<1> QED
  BY <1>2, <1>3, <1>4 DEF FilesInv

(* RepoFiles.tla, the hook and .oharaignore: the invariant of both files. *)
THEOREM FilesInvAlways == FilesSpec => []FilesInv
<1>1. FilesInit => FilesInv
  BY FilesInvInit
<1>2. FilesInv /\ [FilesNext]_filesVars => FilesInv'
  BY FilesInvStep
<1> QED
  BY <1>1, <1>2, PTL DEF FilesSpec

(* init.rs:118: as long as nobody has cut the closing marker out, the lines of
   the hook written by hand stay, in order, and the block is there at most once. *)
THEOREM HookKeepsLinesHolds == FilesSpec => []HookKeepsLines
<1>1. ASSUME FilesInv PROVE HookKeepsLines
  <2> SUFFICES ASSUME ~cut
               PROVE  /\ KeptInOrder(script, hook, Places(hook, {"hand"}))
                      /\ \A m, n \in Places(hook, {"body"}) : m = n
    BY DEF HookKeepsLines
  <2>1. KeptInOrder(script, hook, Places(hook, {"hand"})) /\ OneBlockAtMost
    BY <1>1 DEF FilesInv, HookInv
  <2>2. Places(hook, {"body"}) \subseteq Places(hook, Marks)
    BY DEF Places, Marks
  <2>3. ASSUME NEW b \in Nat, BlockAt(b) PROVE Places(hook, {"body"}) \subseteq {b + 1}
    <3>1. Places(hook, Marks) = b..b + 2 /\ hook[b].kind = "begin" /\ hook[b + 2].kind = "end"
      BY <2>3, LineKinds DEF BlockAt
    <3>2. b \notin Places(hook, {"body"}) /\ b + 2 \notin Places(hook, {"body"})
      BY <3>1 DEF Places
    <3> QED
      BY <2>2, <3>1, <3>2
  <2> QED
    BY <2>1, <2>2, <2>3 DEF OneBlockAtMost
<1> QED
  BY <1>1, FilesInvAlways, PTL

----------------------------------------------------------------------------
(* What decides of a path. *)

(* The rule at m meets the path at n, none comes nearer and no later one as near. *)
Deciding(rules, path, n, m) ==
  /\ n \in DOMAIN path /\ m \in DOMAIN rules /\ Meets(rules[m], path, n)
  /\ \A i \in DOMAIN path, j \in DOMAIN rules :
       Meets(rules[j], path, i) => i < n \/ (i = n /\ j <= m)

PathVerdict(rule) == IF rule.keep THEN "kept" ELSE "ignored"

LEMMA DecisionIs ==
  ASSUME NEW k \in Nat, NEW rules, DOMAIN rules \subseteq 1..k,
         NEW l \in Nat, NEW path, DOMAIN path = 1..l,
         NEW n, NEW m, Deciding(rules, path, n, m)
  PROVE  Nearest(rules, path) = n /\ Decision(rules, path) = PathVerdict(rules[m])
<1> DEFINE near == {0} \union {i \in DOMAIN path : \E j \in DOMAIN rules : Meets(rules[j], path, i)}
           meeting == {j \in DOMAIN rules : n > 0 /\ Meets(rules[j], path, n)}
<1>1. n \in 1..l /\ m \in 1..k /\ m \in DOMAIN rules /\ Meets(rules[m], path, n)
  BY DEF Deciding
<1>2. near \in SUBSET Nat /\ n \in near /\ \A i \in near : i <= n
  <2>1. near \in SUBSET Nat /\ n \in near
    BY <1>1
  <2>2. ASSUME NEW i \in DOMAIN path, NEW j \in DOMAIN rules, Meets(rules[j], path, i)
        PROVE  i <= n
    <3>1. i < n \/ i = n
      BY <2>2 DEF Deciding
    <3> QED
      BY <1>1, <3>1
  <2>3. ASSUME NEW i \in near PROVE i <= n
    <3>1. CASE i = 0
      BY <1>1, <3>1
    <3>2. CASE i # 0
      BY <2>2, <3>2
    <3> QED
      BY <3>1, <3>2
  <2> QED
    BY <2>1, <2>3
<1>3. meeting \in SUBSET Nat /\ m \in meeting /\ \A j \in meeting : j <= m
  BY <1>1 DEF Deciding
<1>4. Nearest(rules, path) = Max(near)
  BY DEF Nearest
<1> HIDE DEF near
<1>5. Nearest(rules, path) = n
  BY <1>2, <1>4, MaxIs
<1>6. Decision(rules, path)
        = IF meeting = {} THEN "none" ELSE PathVerdict(rules[Max(meeting)])
  BY <1>5 DEF Decision, PathVerdict
<1> HIDE DEF meeting
<1>7. Max(meeting) = m
  BY <1>3, MaxIs
<1> QED
  BY <1>3, <1>5, <1>6, <1>7

LEMMA DecidingExists ==
  ASSUME NEW k \in Nat, NEW rules, DOMAIN rules \subseteq 1..k,
         NEW l \in Nat, NEW path, DOMAIN path = 1..l,
         NEW i \in DOMAIN path, NEW j \in DOMAIN rules, Meets(rules[j], path, i)
  PROVE  \E n \in DOMAIN path : \E m \in DOMAIN rules : Deciding(rules, path, n, m)
<1> DEFINE near == {x \in DOMAIN path : \E y \in DOMAIN rules : Meets(rules[y], path, x)}
<1>1. near \in SUBSET (0..l) /\ near # {}
  OBVIOUS
<1>2. PICK n \in near : \A x \in near : x <= n
  <2> HIDE DEF near
  <2> QED
    BY <1>1, MaxExists
<1> DEFINE meeting == {y \in DOMAIN rules : Meets(rules[y], path, n)}
<1>3. meeting \in SUBSET (0..k) /\ meeting # {}
  OBVIOUS
<1>4. PICK m \in meeting : \A y \in meeting : y <= m
  <2> HIDE DEF meeting
  <2> QED
    BY <1>3, MaxExists
<1>5. ASSUME NEW x \in DOMAIN path, NEW y \in DOMAIN rules, Meets(rules[y], path, x)
      PROVE  x < n \/ (x = n /\ y <= m)
  <2>1. x \in near /\ x <= n /\ x \in Nat /\ n \in Nat
    BY <1>2, <1>5
  <2>2. x = n => y \in meeting
    BY <1>5
  <2> QED
    BY <1>4, <2>1, <2>2
<1>6. Deciding(rules, path, n, m)
  BY <1>5 DEF Deciding
<1> QED
  BY <1>6

LEMMA SomeDecides ==
  ASSUME NEW k \in Nat, NEW rules, DOMAIN rules \subseteq 1..k,
         NEW l \in Nat, NEW path, DOMAIN path = 1..l, Decision(rules, path) # "none"
  PROVE  \E n \in DOMAIN path : \E m \in DOMAIN rules : Deciding(rules, path, n, m)
<1> DEFINE near == {0} \union {i \in DOMAIN path : \E j \in DOMAIN rules : Meets(rules[j], path, i)}
<1>1. PICK n : n = Nearest(rules, path)
  OBVIOUS
<1>2. n \in near
  <2>1. near \in SUBSET (0..l) /\ near # {}
    OBVIOUS
  <2>2. n = Max(near)
    BY <1>1 DEF Nearest
  <2> HIDE DEF near
  <2> QED
    BY <2>1, <2>2, MaxExists
<1>3. n > 0
  BY <1>1 DEF Decision
<1>4. n \in DOMAIN path /\ \E j \in DOMAIN rules : Meets(rules[j], path, n)
  BY <1>2, <1>3
<1>5. PICK j \in DOMAIN rules : Meets(rules[j], path, n)
  BY <1>4
<1> HIDE DEF near
<1> QED
  BY <1>4, <1>5, DecidingExists

(* The rules above stand at their places, up to c, the rules below after c, and
   what else there is, up to c, has been generated. *)
Stacked(rules, above, below, place, c) ==
  /\ \A t \in DOMAIN above :
       place[t] \in DOMAIN rules /\ rules[place[t]] = above[t] /\ place[t] <= c
  /\ \A t, u \in DOMAIN above : t <= u => place[t] <= place[u]
  /\ \A i \in DOMAIN below : c + i \in DOMAIN rules /\ rules[c + i] = below[i]
  /\ \A j \in DOMAIN rules :
       \/ \E t \in DOMAIN above : place[t] = j
       \/ \E i \in DOMAIN below : c + i = j
       \/ rules[j] \in Generated /\ j <= c

(* A rule below decides, with no nearer rule above or generated. *)
LEMMA LowerDecides ==
  ASSUME NEW c \in Nat, NEW rules, DOMAIN rules \subseteq Nat, NEW above,
         NEW below, DOMAIN below \subseteq Nat \ {0}, NEW place, Stacked(rules, above, below, place, c),
         NEW path, DOMAIN path \subseteq Nat, NEW n, NEW m, Deciding(below, path, n, m),
         \A i \in DOMAIN path : \A g \in Generated : Meets(g, path, i) => i <= n,
         \A i \in DOMAIN path : \A t \in DOMAIN above : Meets(above[t], path, i) => i <= n
  PROVE  Deciding(rules, path, n, c + m)
<1>1. n \in DOMAIN path /\ n \in Nat /\ m \in DOMAIN below /\ m \in Nat \ {0}
      /\ Meets(below[m], path, n)
  BY DEF Deciding
<1>2. c + m \in DOMAIN rules /\ rules[c + m] = below[m]
  BY <1>1 DEF Stacked
<1>3. ASSUME NEW i \in DOMAIN path, NEW j \in DOMAIN rules, Meets(rules[j], path, i)
      PROVE  i < n \/ (i = n /\ j <= c + m)
  <2>1. ASSUME NEW t \in DOMAIN above, place[t] = j PROVE i <= n /\ j <= c
    BY <1>3, <2>1 DEF Stacked
  <2>2. ASSUME rules[j] \in Generated, j <= c PROVE i <= n /\ j <= c
    BY <1>3, <2>2
  <2>3. ASSUME NEW x \in DOMAIN below, c + x = j PROVE i < n \/ (i = n /\ j <= c + m)
    <3>1. Meets(below[x], path, i)
      BY <1>3, <2>3 DEF Stacked
    <3>2. i < n \/ (i = n /\ x <= m)
      BY <3>1 DEF Deciding
    <3> QED
      BY <1>1, <2>3, <3>2
  <2>4. i <= n /\ j <= c => i < n \/ (i = n /\ j <= c + m)
    BY <1>1
  <2> QED
    BY <2>1, <2>2, <2>3, <2>4 DEF Stacked
<1> QED
  BY <1>1, <1>2, <1>3 DEF Deciding

(* A rule above decides, nearer than what is below or generated. *)
LEMMA UpperDecides ==
  ASSUME NEW c \in Nat, NEW rules, DOMAIN rules \subseteq Nat, NEW above, DOMAIN above \subseteq Nat,
         NEW below, DOMAIN below \subseteq Nat \ {0}, NEW place, Stacked(rules, above, below, place, c),
         NEW path, DOMAIN path \subseteq Nat, NEW n, NEW m, Deciding(below, path, n, m),
         \A i \in DOMAIN path : \A g \in Generated : Meets(g, path, i) => i <= n,
         NEW far, NEW t, Deciding(above, path, far, t), n < far
  PROVE  Deciding(rules, path, far, place[t])
<1>1. n \in DOMAIN path /\ n \in Nat /\ far \in DOMAIN path /\ far \in Nat /\ t \in DOMAIN above
      /\ Meets(above[t], path, far)
  BY DEF Deciding
<1>2. place[t] \in DOMAIN rules /\ rules[place[t]] = above[t]
  BY <1>1 DEF Stacked
<1>3. ASSUME NEW i \in DOMAIN path, NEW j \in DOMAIN rules, Meets(rules[j], path, i)
      PROVE  i < far \/ (i = far /\ j <= place[t])
  <2>1. ASSUME NEW u \in DOMAIN above, place[u] = j PROVE i < far \/ (i = far /\ j <= place[t])
    <3>1. Meets(above[u], path, i)
      BY <1>3, <2>1 DEF Stacked
    <3>2. i < far \/ (i = far /\ u <= t)
      BY <3>1 DEF Deciding
    <3> QED
      BY <1>1, <2>1, <3>2 DEF Stacked
  <2>2. ASSUME rules[j] \in Generated PROVE i <= n
    BY <1>3, <2>2
  <2>3. ASSUME NEW x \in DOMAIN below, c + x = j PROVE i <= n
    <3>1. Meets(below[x], path, i)
      BY <1>3, <2>3 DEF Stacked
    <3> QED
      BY <1>1, <3>1 DEF Deciding
  <2>4. i <= n => i < far
    BY <1>1
  <2> QED
    BY <2>1, <2>2, <2>3, <2>4 DEF Stacked
<1> QED
  BY <1>1, <1>2, <1>3 DEF Deciding

StackOf(rules, above, below) ==
  \E k, c \in Nat : \E place :
    DOMAIN rules \subseteq 1..k /\ Stacked(rules, above, below, place, c)

(* Of two stacks of the same rules the same decides. *)
LEMMA StacksAgree ==
  ASSUME NEW above \in Seq(Rules), NEW below \in Seq(Rules),
         NEW rules, StackOf(rules, above, below), NEW others, StackOf(others, above, below),
         NEW l \in Nat, NEW path, DOMAIN path = 1..l, NEW n, NEW m, Deciding(below, path, n, m),
         \A i \in DOMAIN path : \A g \in Generated : Meets(g, path, i) => i <= n
  PROVE  Decision(rules, path) = Decision(others, path) /\ Decision(rules, path) # "none"
<1>1. PICK k, c \in Nat : \E place :
        DOMAIN rules \subseteq 1..k /\ Stacked(rules, above, below, place, c)
  BY DEF StackOf
<1>2. PICK place : DOMAIN rules \subseteq 1..k /\ Stacked(rules, above, below, place, c)
  BY <1>1
<1>3. PICK kk, d \in Nat : \E other :
        DOMAIN others \subseteq 1..kk /\ Stacked(others, above, below, other, d)
  BY DEF StackOf
<1>4. PICK other : DOMAIN others \subseteq 1..kk /\ Stacked(others, above, below, other, d)
  BY <1>3
<1>5. /\ DOMAIN above \subseteq Nat /\ DOMAIN below \subseteq Nat \ {0} /\ DOMAIN path \subseteq Nat
      /\ DOMAIN rules \subseteq Nat /\ DOMAIN others \subseteq Nat
      /\ DOMAIN above \subseteq 1..Len(above) /\ Len(above) \in Nat
  BY <1>2, <1>4
<1>6. \A rule : PathVerdict(rule) # "none"
  BY DEF PathVerdict
<1>7. CASE \A i \in DOMAIN path : \A t \in DOMAIN above : Meets(above[t], path, i) => i <= n
  <2>1. Deciding(rules, path, n, c + m) /\ Deciding(others, path, n, d + m)
    BY <1>2, <1>4, <1>5, <1>7, LowerDecides
  <2>2. Decision(rules, path) = PathVerdict(rules[c + m])
    BY <1>2, <2>1, DecisionIs
  <2>3. Decision(others, path) = PathVerdict(others[d + m])
    BY <1>4, <2>1, DecisionIs
  <2>4. rules[c + m] = below[m] /\ others[d + m] = below[m]
    BY <1>2, <1>4 DEF Stacked, Deciding
  <2> QED
    BY <1>6, <2>2, <2>3, <2>4
<1>8. CASE \E i \in DOMAIN path : \E t \in DOMAIN above : Meets(above[t], path, i) /\ ~(i <= n)
  <2>1. PICK i \in DOMAIN path, t \in DOMAIN above : Meets(above[t], path, i) /\ ~(i <= n)
    BY <1>8
  <2>2. PICK far \in DOMAIN path : \E u \in DOMAIN above : Deciding(above, path, far, u)
    BY <1>5, <2>1, DecidingExists
  <2>3. PICK u \in DOMAIN above : Deciding(above, path, far, u)
    BY <2>2
  <2>4. n < far
    <3>1. i \in Nat /\ n \in Nat /\ far \in Nat
      BY <1>5 DEF Deciding
    <3>2. i <= far
      BY <2>1, <2>3, <3>1 DEF Deciding
    <3> QED
      BY <2>1, <3>1, <3>2
  <2>5. Deciding(rules, path, far, place[u]) /\ Deciding(others, path, far, other[u])
    BY <1>2, <1>4, <1>5, <2>3, <2>4, UpperDecides
  <2>6. Decision(rules, path) = PathVerdict(rules[place[u]])
    BY <1>2, <2>5, DecisionIs
  <2>7. Decision(others, path) = PathVerdict(others[other[u]])
    BY <1>4, <2>5, DecisionIs
  <2>8. rules[place[u]] = above[u] /\ others[other[u]] = above[u]
    BY <1>2, <1>4 DEF Stacked
  <2> QED
    BY <1>6, <2>6, <2>7, <2>8
<1> QED
  BY <1>7, <1>8
LEMMA FileStacked ==
  ASSUME NEW above \in Seq(Rules), NEW below \in Seq(Rules), NEW file \in Seq(FileLines),
         NEW b \in 1..Len(file), NEW e \in 1..Len(file), SectionAt(above, below, file, b, e)
  PROVE  StackOf(RulesIn(file), above, below)
<1>1. /\ DOMAIN file = 1..Len(file) /\ Len(file) \in Nat
      /\ DOMAIN below = 1..Len(below) /\ Len(below) \in Nat
      /\ DOMAIN above = 1..Len(above) /\ Len(above) \in Nat
  OBVIOUS
<1>2. PICK lines : lines = LinesOf(above) /\ DOMAIN lines = DOMAIN above
                   /\ \A t \in DOMAIN above : lines[t] = Line(above[t])
  BY <1>1, LinesOfIs
<1>3. PICK places : places = RulesBefore(file, b)
  OBVIOUS
<1>4. KeptInOrder(lines, file, places)
  BY <1>2, <1>3 DEF SectionAt, TopBefore
<1>5. PICK place \in [DOMAIN lines -> places] :
        /\ \A m, n \in DOMAIN lines : m < n => place[m] < place[n]
        /\ \A n \in DOMAIN lines : file[place[n]] = lines[n]
        /\ \A l \in places : \E n \in DOMAIN lines : place[n] = l
  BY <1>4 DEF KeptInOrder
<1>6. /\ b < e /\ e + Len(below) = Len(file)
      /\ file[b].kind = "begin" /\ file[e].kind = "end"
      /\ \A n \in b + 1..e - 1 : file[n] \in {Line(r) : r \in Generated}
      /\ \A n \in DOMAIN below : file[e + n] = Line(below[n])
  BY LineKinds DEF SectionAt
<1>7. PICK rules : rules = RulesIn(file)
  OBVIOUS
<1>8. DOMAIN rules = Places(file, {"rule"}) /\ \A j \in DOMAIN rules : rules[j] = file[j].rule
  BY <1>7 DEF RulesIn
<1>9. ASSUME NEW t \in DOMAIN above
      PROVE  place[t] \in DOMAIN rules /\ rules[place[t]] = above[t] /\ place[t] <= e
             /\ place[t] \in Nat
  <2>1. place[t] \in Places(file, {"rule"}) /\ place[t] < b
    BY <1>2, <1>3, <1>5 DEF RulesBefore
  <2>2. place[t] \in 1..Len(file)
    BY <1>1, <2>1 DEF Places
  <2>3. file[place[t]] = Line(above[t])
    BY <1>2, <1>5
  <2>4. place[t] <= e
    BY <1>1, <1>6, <2>1, <2>2
  <2>5. place[t] \in DOMAIN rules /\ rules[place[t]] = file[place[t]].rule
    BY <1>8, <2>1
  <2>6. rules[place[t]] = above[t]
    BY <2>3, <2>5, LineKinds
  <2> QED
    BY <2>2, <2>4, <2>5, <2>6
<1>10. ASSUME NEW t \in DOMAIN above, NEW u \in DOMAIN above, t <= u
       PROVE  place[t] <= place[u]
  <2>1. CASE t = u
    BY <1>9, <2>1
  <2>2. CASE t < u
    BY <1>2, <1>5, <1>9, <2>2
  <2> QED
    BY <1>1, <1>10, <2>1, <2>2
<1>11. ASSUME NEW i \in DOMAIN below
       PROVE  e + i \in DOMAIN rules /\ rules[e + i] = below[i]
  <2>1. e + i \in DOMAIN file
    BY <1>1, <1>6
  <2>2. file[e + i] = Line(below[i])
    BY <1>6
  <2>3. e + i \in Places(file, {"rule"})
    BY <2>1, <2>2, LineKinds DEF Places
  <2> QED
    BY <1>8, <2>2, <2>3, LineKinds
<1>12. ASSUME NEW j \in DOMAIN rules
       PROVE  \/ \E t \in DOMAIN above : place[t] = j
              \/ \E i \in DOMAIN below : e + i = j
              \/ rules[j] \in Generated /\ j <= e
  <2>1. j \in 1..Len(file) /\ file[j].kind = "rule" /\ rules[j] = file[j].rule
    BY <1>1, <1>8 DEF Places
  <2>2. CASE j < b
    <3>1. j \in places
      BY <1>3, <1>8, <2>2 DEF RulesBefore
    <3> QED
      BY <1>2, <1>5, <3>1
  <2>3. CASE j \in b + 1..e - 1
    <3>1. PICK r \in Generated : file[j] = Line(r)
      BY <1>6, <2>3
    <3> QED
      BY <2>1, <2>3, <3>1, LineKinds
  <2>4. CASE j > e
    <3>1. j - e \in DOMAIN below /\ e + (j - e) = j
      BY <1>1, <1>6, <2>1, <2>4
    <3> QED
      BY <3>1
  <2>5. j # b /\ j # e
    BY <1>6, <2>1
  <2> QED
    BY <1>6, <2>1, <2>2, <2>3, <2>4, <2>5
<1>13. Stacked(rules, above, below, place, e)
  BY <1>9, <1>10, <1>11, <1>12 DEF Stacked
<1>14. DOMAIN rules \subseteq 1..Len(file) /\ e \in Nat
  BY <1>8, PlacesIn
<1> QED
  BY <1>1, <1>7, <1>13, <1>14 DEF StackOf

LEMMA BothStacked ==
  ASSUME NEW above \in Seq(Rules), NEW below \in Seq(Rules)
  PROVE  StackOf(above \o below, above, below)
<1>1. PICK rules \in Seq(Rules) : rules = above \o below
  <2>1. above \o below \in Seq(Rules)
    OBVIOUS
  <2> QED
    BY <2>1
<1>2. PICK k \in Nat : k = Len(above) /\ DOMAIN above = 1..k
  OBVIOUS
<1>3. PICK l \in Nat : l = Len(below) /\ DOMAIN below = 1..l
  OBVIOUS
<1>4. /\ DOMAIN rules = 1..k + l
      /\ \A t \in 1..k : rules[t] = above[t]
      /\ \A i \in 1..l : rules[k + i] = below[i]
  BY <1>1, <1>2, <1>3
<1>5. ASSUME NEW j \in DOMAIN rules
      PROVE  (\E t \in DOMAIN above : t = j) \/ (\E i \in DOMAIN below : k + i = j)
  <2>1. CASE j \in 1..k
    BY <1>2, <2>1
  <2>2. CASE j \notin 1..k
    <3>1. j - k \in 1..l /\ k + (j - k) = j
      BY <1>4, <2>2
    <3> QED
      BY <1>3, <3>1
  <2> QED
    BY <2>1, <2>2
<1>6. PICK place : place = [t \in DOMAIN above |-> t]
  OBVIOUS
<1>7. \A t \in DOMAIN above : place[t] = t /\ place[t] \in DOMAIN rules /\ rules[place[t]] = above[t]
                              /\ place[t] <= k
  BY <1>2, <1>4, <1>6
<1>8. \A i \in DOMAIN below : k + i \in DOMAIN rules /\ rules[k + i] = below[i]
  BY <1>3, <1>4
<1>9. Stacked(rules, above, below, place, k)
  BY <1>5, <1>7, <1>8 DEF Stacked
<1>10. PICK all \in Nat : DOMAIN rules \subseteq 1..all
  <2>1. k + l \in Nat
    OBVIOUS
  <2> QED
    BY <1>4, <2>1
<1>11. StackOf(rules, above, below)
  BY <1>9, <1>10 DEF StackOf
<1> QED
  BY <1>1, <1>11

(* .oharaignore is the first layer: when it has a verdict, it is the verdict. *)
LEMMA FirstLayer ==
  ASSUME NEW path, Decision(RulesIn(ignoreFile), path) # "none"
  PROVE  Ignored(path) = (Decision(RulesIn(ignoreFile), path) = "ignored")
<1> DEFINE layers == <<RulesIn(ignoreFile), Attributes, BuiltIns>>
           deciding == {n \in DOMAIN layers : Decision(layers[n], path) # "none"}
<1>1. layers[1] = RulesIn(ignoreFile) /\ DOMAIN layers = 1..3
  OBVIOUS
<1>2. Ignored(path) = (deciding # {} /\ Decision(layers[Min(deciding)], path) = "ignored")
  BY DEF Ignored
<1> HIDE DEF layers
<1>3. deciding \in SUBSET Nat /\ 1 \in deciding /\ \A n \in deciding : 1 <= n
  BY <1>1
<1> HIDE DEF deciding
<1>4. Min(deciding) = 1
  BY <1>3, MinIs
<1> QED
  BY <1>1, <1>2, <1>3, <1>4

(* ignore.rs:5-7, plan.rs:23: whatever ohara plan has written in between, the
   rules below its block that come at least as near to a path as the block's
   decide of it as if there were no block, and whatever the other layers say. *)
THEOREM HandWrittenRulesWinHolds == FilesSpec => []HandWrittenRulesWin
<1>1. ASSUME FilesInv PROVE HandWrittenRulesWin
  <2> DEFINE generated(p) == {n \in DOMAIN p : n < Len(p) /\ p[n] \in TopDirs}
  <2> SUFFICES ASSUME NEW p \in Paths, Decision(bottom, p) # "none",
                      \A n \in generated(p) : Nearest(bottom, p) >= n
               PROVE  Ignored(p) = (Decision(top \o bottom, p) = "ignored")
    BY DEF HandWrittenRulesWin
  <2>1. PICK file, above, below : file = ignoreFile /\ above = top /\ below = bottom
    OBVIOUS
  <2>2. IsIgnoreFile(above, below, file)
    BY <1>1, <2>1 DEF FilesInv, IgnoreInv
  <2>3. above \in Seq(Rules) /\ below \in Seq(Rules) /\ file \in Seq(FileLines)
    BY <2>2 DEF IsIgnoreFile
  <2>4. Len(p) \in Nat /\ DOMAIN p = 1..Len(p)
    BY FilesAssumption
  <2>5. Len(below) \in Nat /\ DOMAIN below \subseteq 1..Len(below)
    BY <2>3
  <2>6. PICK n \in DOMAIN p : \E m \in DOMAIN below : Deciding(below, p, n, m)
    BY <2>1, <2>4, <2>5, SomeDecides
  <2>7. PICK m \in DOMAIN below : Deciding(below, p, n, m)
    BY <2>6
  <2>8. Nearest(below, p) = n
    BY <2>4, <2>5, <2>7, DecisionIs
  <2>9. ASSUME NEW i \in DOMAIN p, NEW g \in Generated, Meets(g, p, i) PROVE i <= n
    <3>1. i < Len(p) /\ p[i] \in TopDirs
      BY <2>9 DEF Meets, Generated
    <3>2. n >= i
      BY <2>1, <2>8, <3>1
    <3> QED
      BY <2>4, <3>2
  <2>10. PICK b \in 1..Len(file), e \in 1..Len(file) : SectionAt(above, below, file, b, e)
    <3>1. below # <<>>
      BY <2>7
    <3> QED
      BY <2>2, <3>1 DEF IsIgnoreFile, NoSection
  <2>11. PICK rules : rules = RulesIn(file)
    OBVIOUS
  <2>12. PICK both : both = above \o below
    OBVIOUS
  <2>13. StackOf(rules, above, below) /\ StackOf(both, above, below)
    BY <2>3, <2>10, <2>11, <2>12, FileStacked, BothStacked
  <2>14. PICK l \in Nat : DOMAIN p = 1..l
    BY <2>4
  <2>15. Decision(rules, p) = Decision(both, p) /\ Decision(rules, p) # "none"
    <3>1. \A i \in DOMAIN p : \A g \in Generated : Meets(g, p, i) => i <= n
      BY <2>9
    <3>2. above \in Seq(Rules) /\ below \in Seq(Rules)
      BY <2>3
    <3>3. Deciding(below, p, n, m)
      BY <2>7
    <3> HIDE DEF generated
    <3> QED
      BY <2>13, <2>14, <3>1, <3>2, <3>3, StacksAgree
  <2>16. Ignored(p) = (Decision(rules, p) = "ignored")
    BY <2>1, <2>11, <2>15, FirstLayer
  <2> QED
    BY <2>1, <2>12, <2>15, <2>16
<1> QED
  BY <1>1, FilesInvAlways, PTL

----------------------------------------------------------------------------
(* The files of the models. *)

(* A chosen provider that the build lacks was asked for by name, or is CUDA on
   a machine that lists a device. *)
ProviderLacks(s) ==
  \/ s.arg # "auto" /\ s.arg \notin Enabled(s)
  \/ s.arg = "auto" /\ s.cuda /\ "cuda" \notin s.features

(* A provider that is not in the build was asked for, or seen as a device. *)
LEMMA LacksIsSaid ==
  ASSUME NEW s \in Setup, Provider(s) \notin Enabled(s)
  PROVE  ProviderLacks(s)
<1>1. Provider(s) = ResolveProvider(s)
  BY DEF Provider, Enabled
<1>2. CASE s.arg # "auto"
  BY <1>1, <1>2 DEF ResolveProvider, ProviderLacks
<1>3. CASE s.arg = "auto"
  BY <1>1, <1>3 DEF ResolveProvider, DetectProvider, CoreMlAvailable, Enabled, ProviderLacks, Setup
<1> QED
  BY <1>2, <1>3

(* INT8 is a reranker. *)
LEMMA ModelIs ==
  ASSUME NEW s \in Setup
  PROVE  Model(s) \in Models /\ (Model(s) = "int8" => s.role = "reranker")
BY DEF Setup, Model, Models

(* Where a load looks and for what. *)
LEMMA PlaceIs ==
  ASSUME LoadTypeOK, NEW l \in Loads
  PROVE  /\ setup[l] \in Setup
         /\ Place(l) \in Directories
         /\ Model(setup[l]) \in Models
<1>1. setup[l] \in Setup
  BY LoadAssumption DEF LoadTypeOK
<1>2. setup[l].pinned \in BOOLEAN /\ setup[l].home \in BOOLEAN
  BY <1>1 DEF Setup
<1>3. CacheDir(l) \in Directories
  BY <1>2 DEF CacheDir, Directories
<1> QED
  BY <1>1, <1>3, ModelIs DEF Place, Directories

(* What a load that reads the files may count on, and one that has failed. *)
LoadFine(l) ==
  /\ step[l] = "read" => Present(l) = Files \/ "cleared" \in reasons[l]
  /\ step[l] = "failed" =>
       \/ reasons[l] \intersect {"network", "cleared"} # {}
       \/ ProviderLacks(setup[l])

(* Every file is where a load of this machine looks for it. *)
FilesPlaced ==
  \A d \in Directories, m \in Models :
    disk[d][m] # {} => \E l \in Loads : Place(l) = d /\ Model(setup[l]) = m

LoadInv ==
  /\ LoadTypeOK
  /\ \A l \in Loads : LoadFine(l)
  /\ FilesPlaced

(* No files yet. *)
LEMMA LoadInitially == LoadInit => LoadInv
<1> SUFFICES ASSUME LoadInit PROVE LoadInv
  OBVIOUS
<1>1. LoadTypeOK
  BY DEF LoadInit, LoadTypeOK, LoadSteps
<1>2. \A d \in Directories, m \in Models : disk[d][m] = {}
  BY DEF LoadInit
<1>3. \A l \in Loads : step[l] = "idle"
  BY DEF LoadInit
<1> QED
  BY <1>1, <1>2, <1>3 DEF LoadInv, LoadFine, FilesPlaced

(* A load that only moves on leaves the others, the files and their places. *)
LEMMA MovesOn ==
  ASSUME LoadInv, NEW l \in Loads, NEW to \in LoadSteps, Move(l, to), UNCHANGED <<setup, disk>>,
         NEW what \in SUBSET {"provider", "network", "cleared"},
         reasons' = [reasons EXCEPT ![l] = what],
         to = "read" => Present(l) = Files \/ "cleared" \in what,
         to = "failed" => what \intersect {"network", "cleared"} # {} \/ ProviderLacks(setup[l])
  PROVE  LoadInv'
<1>1. LoadTypeOK'
  BY DEF LoadInv, LoadTypeOK, Move
<1>2. step' = [step EXCEPT ![l] = to] /\ step \in [Loads -> LoadSteps]
      /\ reasons \in [Loads -> SUBSET {"provider", "network", "cleared"}]
  BY DEF LoadInv, LoadTypeOK, Move
<1>3. \A k \in Loads : Present(k)' = Present(k) /\ Place(k)' = Place(k)
  BY DEF Present, Place, CacheDir
<1>4. ASSUME NEW k \in Loads PROVE LoadFine(k)'
  <2>1. CASE k = l
    <3>1. step'[k] = to /\ reasons'[k] = what
      BY <1>2, <2>1
    <3> QED
      BY <2>1, <3>1, <1>3 DEF LoadFine
  <2>2. CASE k # l
    <3>1. step'[k] = step[k] /\ reasons'[k] = reasons[k]
      BY <1>2, <2>2
    <3> QED
      BY <3>1, <1>3 DEF LoadFine, LoadInv
  <2> QED
    BY <2>1, <2>2
<1>5. FilesPlaced'
  BY <1>3 DEF LoadInv, FilesPlaced
<1> QED
  BY <1>1, <1>4, <1>5 DEF LoadInv

(* A file comes to where its load looks for it; nobody lacks one for it. *)
LEMMA FetchKeeps ==
  ASSUME LoadInv, NEW l \in Loads, NEW f \in Files, Fetch(l, f)
  PROVE  LoadInv'
<1> PICK d, m : d = Place(l) /\ m = Model(setup[l])
  OBVIOUS
<1>1. d \in Directories /\ m \in Models
  BY PlaceIs DEF LoadInv
<1>2. disk \in [Directories -> [Models -> SUBSET Files]]
  BY DEF LoadInv, LoadTypeOK
<1>3. /\ disk' = [disk EXCEPT ![d] = disk'[d]]
      /\ disk'[d] = [disk[d] EXCEPT ![m] = disk[d][m] \union {f}]
  BY <1>1, <1>2 DEF Fetch, Present
<1>4. disk'[d] \in [Models -> SUBSET Files]
  <2>1. disk[d] \in [Models -> SUBSET Files] /\ disk[d][m] \union {f} \in SUBSET Files
    BY <1>1, <1>2
  <2> QED
    BY <2>1, <1>3
<1>5. /\ disk' \in [Directories -> [Models -> SUBSET Files]]
      /\ \A e \in Directories \ {d} : disk'[e] = disk[e]
  BY <1>1, <1>2, <1>3, <1>4
<1>6. \A n \in Models : disk'[d][n] = IF n = m THEN disk[d][n] \union {f} ELSE disk[d][n]
  <2>1. disk[d] \in [Models -> SUBSET Files]
    BY <1>1, <1>2
  <2>2. disk'[d] = [disk[d] EXCEPT ![m] = disk[d][m] \union {f}]
    BY <1>3
  <2> QED
    BY <2>1, <2>2
<1>7. UNCHANGED <<setup, step, reasons>>
  BY DEF Fetch
<1>8. \A k \in Loads : Place(k)' = Place(k)
  BY <1>7 DEF Place, CacheDir
<1>9. ASSUME NEW k \in Loads PROVE LoadFine(k)'
  <2>1. Place(k) \in Directories /\ Model(setup[k]) \in Models
    BY PlaceIs DEF LoadInv
  <2>2. Present(k) \subseteq Present(k)' /\ Present(k)' \subseteq Files
    BY <2>1, <1>5, <1>6, <1>7, <1>8 DEF Present
  <2> QED
    BY <2>2, <1>7 DEF LoadInv, LoadFine
<1>10. FilesPlaced'
  <2> SUFFICES ASSUME NEW e \in Directories, NEW n \in Models, disk'[e][n] # {}
               PROVE  \E k \in Loads : Place(k) = e /\ Model(setup[k]) = n
    BY <1>7, <1>8 DEF FilesPlaced
  <2>1. CASE e = d /\ n = m
    BY <2>1
  <2>2. CASE e # d \/ n # m
    <3>1. disk'[e][n] = disk[e][n]
      BY <1>5, <1>6, <2>2
    <3> QED
      BY <3>1 DEF LoadInv, FilesPlaced
  <2> QED
    BY <2>1, <2>2
<1> QED
  BY <1>5, <1>7, <1>9, <1>10 DEF LoadInv, LoadTypeOK

(* Whose files are cleared while it needs them has it against it. *)
LEMMA ClearKeeps ==
  ASSUME LoadInv, NEW d \in Directories, ClearCache(d)
  PROVE  LoadInv'
<1>1. /\ disk \in [Directories -> [Models -> SUBSET Files]]
      /\ disk' = [disk EXCEPT ![d] = [m \in Models |-> {}]]
  BY DEF LoadInv, LoadTypeOK, ClearCache
<1>2. disk' \in [Directories -> [Models -> SUBSET Files]]
  BY <1>1
<1>3. \A e \in Directories, m \in Models : /\ disk'[e][m] \subseteq disk[e][m]
                                           /\ e # d => disk'[e][m] = disk[e][m]
  BY <1>1
<1>4. UNCHANGED <<setup, step>>
  BY DEF ClearCache
<1>5. \A k \in Loads : Place(k)' = Place(k)
  BY <1>4 DEF Place, CacheDir
<1>6. /\ reasons' \in [Loads -> SUBSET {"provider", "network", "cleared"}]
      /\ \A k \in Loads : reasons[k] \subseteq reasons'[k]
      /\ \A k \in Loads : step[k] = "read" /\ Place(k) = d => "cleared" \in reasons'[k]
  BY DEF LoadInv, LoadTypeOK, ClearCache
<1>7. ASSUME NEW k \in Loads PROVE LoadFine(k)'
  <2>1. Place(k) \in Directories /\ Model(setup[k]) \in Models
    BY PlaceIs DEF LoadInv
  <2>2. Place(k) # d => Present(k)' = Present(k)
    BY <2>1, <1>3, <1>4, <1>5 DEF Present
  <2> QED
    BY <2>2, <1>4, <1>6 DEF LoadInv, LoadFine
<1>8. FilesPlaced'
  BY <1>3, <1>4, <1>5 DEF LoadInv, FilesPlaced
<1> QED
  BY <1>2, <1>4, <1>6, <1>7, <1>8 DEF LoadInv, LoadTypeOK

(* Every step keeps it. *)
LEMMA LoadStep == LoadInv /\ [LoadNext]_loadVars => LoadInv'
<1> SUFFICES ASSUME LoadInv, [LoadNext]_loadVars PROVE LoadInv'
  OBVIOUS
<1> DEFINE Why == {"provider", "network", "cleared"}
<1>0. reasons \in [Loads -> SUBSET Why]
  BY DEF LoadInv, LoadTypeOK
<1>1. ASSUME NEW l \in Loads, NEW to \in LoadSteps \ {"read", "failed"}, Move(l, to),
             UNCHANGED <<setup, disk>>, NEW what \in SUBSET Why,
             reasons' = [reasons EXCEPT ![l] = what]
      PROVE  LoadInv'
  BY <1>1, MovesOn
<1>2. ASSUME UNCHANGED reasons, NEW l \in Loads
      PROVE  reasons' = [reasons EXCEPT ![l] = reasons[l]] /\ reasons[l] \in SUBSET Why
  BY <1>0, <1>2
<1>3. ASSUME NEW l \in Loads, BeginLoad(l) PROVE LoadInv'
  <2>1. CASE Provider(setup[l]) \in Enabled(setup[l]) \/ Model(setup[l]) = "int8"
    <3>1. PICK to \in {"look", "fetch"} : Move(l, to)
      BY <1>3, <2>1 DEF BeginLoad
    <3>2. UNCHANGED <<setup, disk, reasons>> /\ to \in LoadSteps \ {"read", "failed"}
      BY <1>3, <2>1 DEF BeginLoad, LoadSteps
    <3> QED
      BY <3>1, <3>2, <1>1, <1>2
  <2>2. CASE ~ (Provider(setup[l]) \in Enabled(setup[l]) \/ Model(setup[l]) = "int8")
    <3>1. ProviderLacks(setup[l])
      BY <2>2, LacksIsSaid, PlaceIs DEF LoadInv
    <3>2. /\ Move(l, "failed") /\ UNCHANGED <<setup, disk>>
          /\ reasons' = [reasons EXCEPT ![l] = reasons[l] \union {"provider"}]
      BY <1>3, <2>2 DEF BeginLoad, Blame
    <3>3. reasons[l] \union {"provider"} \in SUBSET Why /\ "failed" \in LoadSteps
      BY <1>0 DEF LoadSteps
    <3> QED
      BY <3>1, <3>2, <3>3, MovesOn
  <2> QED
    BY <2>1, <2>2
<1>4. ASSUME NEW l \in Loads, Look(l) PROVE LoadInv'
  <2>1. UNCHANGED <<setup, disk, reasons>> /\ {"read", "fetch"} \subseteq LoadSteps
    BY <1>4 DEF Look, LoadSteps
  <2>2. CASE Complete(l)
    <3>1. Move(l, "read") /\ Present(l) = Files
      BY <1>4, <2>2 DEF Look, Complete
    <3> QED
      BY <3>1, <2>1, <1>2, MovesOn
  <2>3. CASE ~ Complete(l)
    <3>1. Move(l, "fetch")
      BY <1>4, <2>3 DEF Look
    <3> QED
      BY <3>1, <2>1, <1>1, <1>2
  <2> QED
    BY <2>2, <2>3
<1>5. ASSUME NEW l \in Loads, NetworkFails(l) PROVE LoadInv'
  <2>1. /\ Move(l, "failed") /\ UNCHANGED <<setup, disk>>
        /\ reasons' = [reasons EXCEPT ![l] = reasons[l] \union {"network"}]
    BY <1>5 DEF NetworkFails, Blame
  <2>2. reasons[l] \union {"network"} \in SUBSET Why /\ "failed" \in LoadSteps
    BY <1>0 DEF LoadSteps
  <2> QED
    BY <2>1, <2>2, MovesOn
<1>6. ASSUME NEW l \in Loads, Fetched(l) PROVE LoadInv'
  <2>1. Move(l, "read") /\ Present(l) = Files /\ UNCHANGED <<setup, disk, reasons>>
        /\ "read" \in LoadSteps
    BY <1>6 DEF Fetched, LoadSteps
  <2> QED
    BY <2>1, <1>2, MovesOn
<1>7. ASSUME NEW l \in Loads, Open(l) PROVE LoadInv'
  <2> DEFINE lacks == IF Provider(setup[l]) \in Enabled(setup[l]) THEN {} ELSE {"provider"}
  <2>1. /\ step[l] = "read" /\ UNCHANGED <<setup, disk>>
        /\ reasons' = [reasons EXCEPT ![l] = reasons[l] \union lacks]
        /\ Move(l, IF Present(l) = Files /\ lacks = {} THEN "ready" ELSE "failed")
    BY <1>7 DEF Open, Blame
  <2>2. reasons[l] \union lacks \in SUBSET Why /\ {"ready", "failed"} \subseteq LoadSteps
    BY <1>0 DEF LoadSteps
  <2>3. lacks # {} => ProviderLacks(setup[l])
    BY LacksIsSaid, PlaceIs DEF LoadInv
  <2>4. Present(l) = Files \/ "cleared" \in reasons[l]
    BY <2>1 DEF LoadInv, LoadFine
  <2> HIDE DEF lacks
  <2>5. CASE Present(l) = Files /\ lacks = {}
    BY <2>1, <2>2, <2>5, <1>1
  <2>6. CASE ~ (Present(l) = Files /\ lacks = {})
    <3>1. Move(l, "failed")
      BY <2>1, <2>6
    <3>2. (reasons[l] \union lacks) \intersect {"network", "cleared"} # {} \/ ProviderLacks(setup[l])
      BY <2>3, <2>4, <2>6
    <3> QED
      BY <2>1, <2>2, <3>1, <3>2, MovesOn
  <2> QED
    BY <2>5, <2>6
<1>8. ASSUME NEW l \in Loads, Retry(l) \/ Leave(l) PROVE LoadInv'
  <2>1. Move(l, "idle") /\ reasons' = [reasons EXCEPT ![l] = {}] /\ UNCHANGED <<setup, disk>>
    BY <1>8 DEF Retry, Leave
  <2>2. "idle" \in LoadSteps \ {"read", "failed"} /\ {} \in SUBSET Why
    BY DEF LoadSteps
  <2> QED
    BY <2>1, <2>2, <1>1
<1>9. CASE UNCHANGED loadVars
  <2>1. UNCHANGED <<setup, step, disk, reasons>>
    BY <1>9 DEF loadVars
  <2>2. \A k \in Loads : LoadFine(k)' = LoadFine(k)
    BY <2>1 DEF LoadFine, Present, Place, CacheDir
  <2>3. FilesPlaced' = FilesPlaced
    BY <2>1 DEF FilesPlaced, Place, CacheDir
  <2> QED
    BY <2>1, <2>2, <2>3 DEF LoadInv, LoadTypeOK
<1> QED
  BY <1>3, <1>4, <1>5, <1>6, <1>7, <1>8, <1>9, FetchKeeps, ClearKeeps DEF LoadNext

(* So it holds of every behaviour. *)
LEMMA LoadInvHolds == LoadSpec => []LoadInv
BY LoadInitially, LoadStep, PTL DEF LoadSpec

(* For any number of loads of any builds: no death, no other process and no
   order of their downloads makes one fail. *)
THEOREM FailuresHaveReasons == LoadSpec => []FailsForAReason
<1>1. LoadInv => FailsForAReason
  BY DEF LoadInv, LoadFine, FailsForAReason, ProviderLacks
<1> QED
  BY <1>1, LoadInvHolds, PTL

(* Wherever they are run from, processes with a home and without a directory of
   their own share one place for each file. *)
THEOREM OneCopyPerMachine == LoadSpec => []OncePerMachine
<1>1. ASSUME LoadInv PROVE OncePerMachine
  <2> SUFFICES ASSUME \A l \in Loads : setup[l].home, NEW m \in Models, NEW f \in Files
               PROVE  Cardinality({d \in Directories \ {Pinned} : f \in disk[d][m]}) <= 1
    BY DEF OncePerMachine
  <2> PICK S : S = {d \in Directories \ {Pinned} : f \in disk[d][m]}
    OBVIOUS
  <2>1. ASSUME NEW l \in Loads, Place(l) # Pinned
        PROVE  Place(l) = IF Model(setup[l]) = "int8" THEN Hub ELSE Machine
    <3>1. setup[l].pinned \in BOOLEAN /\ setup[l].home
      BY <1>1, PlaceIs DEF LoadInv, Setup
    <3> QED
      BY <2>1, <3>1 DEF Place, CacheDir
  <2>2. \A d \in S : d = IF m = "int8" THEN Hub ELSE Machine
    BY <1>1, <2>1 DEF LoadInv, FilesPlaced
  <2>3. PICK one : S \subseteq {one}
    BY <2>2
  <2>4. IsFiniteSet({one}) /\ Cardinality({one}) = 1
    BY FS_Singleton
  <2>5. Cardinality(S) <= Cardinality({one})
    BY <2>3, <2>4, FS_Subset
  <2> QED
    BY <2>4, <2>5
<1> QED
  BY <1>1, LoadInvHolds, PTL

----------------------------------------------------------------------------
(* FrontEnds. *)

(* An engine all of whose connections and kept metas are of this edition. *)
InStep(e) == files[e] \subseteq {edition} /\ verdict[e] \in {Missing, Meta(edition)}

(* The shared engines that have heard of the last rebuild are in step; no call is
   calm while one is under way. *)
EnginesInStep ==
  /\ running => calm = {}
  /\ ~ running => \A e \in Shared \ unheard : InStep(e)

(* An explain_change is of daemons or of the caller's own engine. *)
Unmixed(c) == by[c] \subseteq Daemons \/ by[c] = {Own(c)}

(* Where a call can be, through its door, and what it has by then. *)
InPlace(c) ==
  /\ stage[c] \in Serving \union {"ask"} => server[c] \in Daemons \union {Own(c)}
  /\ stage[c] # "done" => out[c] = "none"
  /\ stage[c] = "start" => files[c] = {} /\ verdict[c] = Missing
  /\ stage[c] \in {"start", "verdict", "blame"} => by[c] = {} /\ noted[c] = Missing /\ hits[c] = Missing
  /\ stage[c] \in {"verdict", "retrieve"} => door[c] \in Finds
  /\ stage[c] = "retrieve" => noted[c] \in Metas /\ ~ noted[c].foreign
  /\ stage[c] = "blame" => door[c] \in {"explain", "explain_change"}
  /\ stage[c] = "ask" => door[c] = "explain_change" /\ server[c] \in Daemons
  /\ stage[c] = "status" => door[c] \in {"status", "explain_change"}
  /\ stage[c] \in {"ask", "status"} /\ door[c] = "explain_change" =>
       /\ server[c] \in Daemons => by[c] \subseteq Daemons
       /\ server[c] \notin Daemons => by[c] = {Own(c)} /\ hits[c] \in Editions
  /\ door[c] = "explain_change" /\ out[c] = "answer" =>
       Unmixed(c) /\ hits[c] \in Editions /\ noted[c] \in Metas

(* A calm call has only seen this edition. *)
CalmInStep(c) ==
  /\ InStep(c)
  /\ noted[c] \in {Missing, Meta(edition)} /\ hits[c] \in {Missing, edition}
  /\ door[c] \in Finds =>
       /\ out[c] = "answer" => hits[c] = edition /\ edition \notin foreign
       /\ out[c] = "refused" => edition \in foreign

Excused(c) ==
  out[c] = "error" =>
    failedBy[c] = Own(c) \/ (door[c] = "find_pattern" /\ failedBy[c] \in Daemons)

CallInv(c) == InPlace(c) /\ (c \in calm => CalmInStep(c)) /\ Excused(c)

DoorInv == DoorTypeOK /\ EnginesInStep /\ \A c \in Calls : CallInv(c)

LEMMA DoorInitially == DoorInit => DoorInv
<1> SUFFICES ASSUME DoorInit PROVE DoorInv
  OBVIOUS
<1>1. DoorTypeOK
  <2>1. 0 \in Editions /\ door \in [Calls -> Doors]
    BY DoorAssumption DEF DoorInit, Editions
  <2>2. files \in [Engines -> SUBSET (0..edition)] /\ verdict \in [Engines -> Metas \union {Missing}]
    BY DEF DoorInit
  <2>3. "start" \notin Serving \union {"ask"}
    BY DEF Serving
  <2> QED
    BY <2>1, <2>2, <2>3 DEF DoorInit, DoorTypeOK
<1>2. EnginesInStep
  BY DEF DoorInit, EnginesInStep, InStep, Engines, Shared
<1>3. \A c \in Calls : CallInv(c)
  BY DEF DoorInit, CallInv, InPlace, Excused, Engines, Serving
<1> QED
  BY <1>1, <1>2, <1>3 DEF DoorInv

LEMMA OwnIs ==
  ASSUME NEW c \in Calls
  PROVE  /\ Own(c) \in {Session, c} /\ Own(c) \in Engines /\ Own(c) \notin Daemons
         /\ c \in Engines /\ c \notin Shared
         /\ Shared \subseteq Engines /\ Daemons \subseteq Shared /\ Session \in Shared
BY DoorAssumption DEF Own, Engines, Shared

LEMMA EntryIs ==
  ASSUME NEW c \in Calls, NEW e, DoorTypeOK
  PROVE  /\ Entry(c, e) \in {"verdict", "blame", "status"}
         /\ Entry(c, e) = "verdict" => door[c] \in Finds
         /\ Entry(c, e) = "blame" => door[c] \in {"explain", "explain_change"}
         /\ Entry(c, e) = "status" => door[c] = "status"
<1>1. door[c] \in Doors
  BY DEF DoorTypeOK
<1> QED
  BY <1>1 DEF Entry, Finds, Doors

LEMMA MetaIs ==
  ASSUME NEW g \in Editions
  PROVE  Meta(g) \in Metas /\ Meta(g).edition = g
         /\ Meta(g).foreign = (g \in foreign /\ ~ (running /\ g = edition))
BY DEF Meta, Metas

(* Nothing changes for a call that a step is not about. *)
LEMMA OthersKeep ==
  ASSUME DoorInv, NEW d \in Calls,
         UNCHANGED <<indexState, door>>,
         UNCHANGED <<stage[d], server[d], noted[d], hits[d], out[d], by[d], failedBy[d],
                     files[d], verdict[d]>>,
         d \in calm' => d \in calm
  PROVE  CallInv(d)'
<1>1. CallInv(d)
  BY DEF DoorInv
<1>2. UNCHANGED <<edition, foreign, running, Own(d)>>
  BY DEF indexState, Own
<1>3. InPlace(d)' /\ Excused(d)'
  BY <1>1, <1>2 DEF CallInv, InPlace, Unmixed, Excused
<1>4. ASSUME d \in calm' PROVE CalmInStep(d)'
  BY <1>1, <1>2, <1>4 DEF CallInv, CalmInStep, InStep, Meta
<1> QED
  BY <1>3, <1>4 DEF CallInv

(* Missing is neither a meta nor an edition. *)
LEMMA MissingIs == Missing \notin Metas /\ Missing \notin Editions
BY DoorAssumption

(* What an engine that a step does not touch is in step with. *)
LEMMA InStepKept ==
  ASSUME NEW e, UNCHANGED <<indexState, files[e], verdict[e]>>, InStep(e)
  PROVE  InStep(e)'
<1>1. Meta(edition)' = Meta(edition) /\ edition' = edition
  BY DEF Meta, indexState
<1> QED
  BY <1>1 DEF InStep

(* A call is started, or started again, on engine e; the daemon it leaves may have
   worked for nothing. *)
LEMMA Served ==
  ASSUME DoorInv, NEW c \in Calls, NEW e \in Daemons \union {Own(c)}, Serve(c, e),
         stage[c] # "done",
         UNCHANGED <<indexState, door, unheard, failedBy>>,
         files' \in [Engines -> SUBSET (0..edition)],
         verdict' \in [Engines -> Metas \union {Missing}],
         \A d \in Calls : UNCHANGED <<files[d], verdict[d]>>,
         \A x \in Shared : InStep(x) => InStep(x)',
         calm' = calm \/ (stage[c] = "start" /\ BeginCall(c))
  PROVE  DoorInv'
<1> USE DEF DoorInv
<1>0. /\ e \in Shared \union {c} /\ e \in Engines /\ c \in Engines
      /\ calm' \in {calm, calm \union {c}}
      /\ c \in calm' => c \in calm \/ (stage[c] = "start" /\ ~ running)
      /\ running => calm' = calm
  BY OwnIs DEF BeginCall
<1>1. DoorTypeOK'
  <2>1. stage' \in [Calls -> {"start", "ask", "done"} \union Serving]
        /\ server' \in [Calls -> Engines \union {Missing}]
        /\ noted' \in [Calls -> Metas \union {Missing}]
        /\ hits' \in [Calls -> Editions \union {Missing}]
        /\ by' \in [Calls -> SUBSET Engines] /\ out' = out /\ calm' \subseteq Calls
    BY <1>0, EntryIs DEF DoorTypeOK, Serve, Serving
  <2>2. \A d \in Calls : stage'[d] \in Serving \union {"ask"} => server'[d] \in Shared \union {d}
    BY <1>0 DEF DoorTypeOK, Serve
  <2> QED
    BY <2>1, <2>2 DEF DoorTypeOK, indexState
<1>2. EnginesInStep'
  BY <1>0 DEF EnginesInStep, indexState
<1>3. \A d \in Calls \ {c} : CallInv(d)'
  <2> TAKE d \in Calls \ {c}
  <2>1. UNCHANGED <<stage[d], server[d], noted[d], hits[d], out[d], by[d], failedBy[d],
                    files[d], verdict[d]>>
    BY DEF Serve, DoorTypeOK
  <2> QED
    BY <2>1, <1>0, OthersKeep
<1>4. CallInv(c)'
  <2>1. CallInv(c) /\ out[c] = "none" /\ UNCHANGED <<files[c], verdict[c], door[c], out[c]>>
    BY DEF CallInv, InPlace, Serve
  <2>2. server'[c] = e /\ stage'[c] = Entry(c, e) /\ by'[c] = {} /\ noted'[c] = Missing
        /\ hits'[c] = Missing
    BY DEF Serve, DoorTypeOK
  <2>3. InPlace(c)'
    BY <2>1, <2>2, EntryIs DEF InPlace, Own, Doors, Serving
  <2>4. ASSUME c \in calm' PROVE CalmInStep(c)'
    <3>1. InStep(c)
      <4>1. CASE c \in calm
        BY <4>1, <2>1 DEF CallInv, CalmInStep
      <4>2. CASE stage[c] = "start"
        BY <4>2, <2>1 DEF CallInv, InPlace, InStep
      <4> QED
        BY <4>1, <4>2, <2>4, <1>0
    <3>2. InStep(c)'
      BY <3>1, <2>1 DEF InStep, Meta, indexState
    <3> QED
      BY <3>2, <2>1, <2>2, EntryIs DEF CalmInStep
  <2> QED
    BY <2>1, <2>3, <2>4 DEF CallInv, Excused
<1> QED
  BY <1>1, <1>2, <1>3, <1>4

(* What a read of engine e can be of. *)
LEMMA ReadsIs ==
  ASSUME DoorInv, NEW e \in Engines, NEW g, Reads(e, g)
  PROVE  /\ g \in Editions
         /\ files' \in [Engines -> SUBSET (0..edition)]
         /\ \A x \in Engines \ {e} : files'[x] = files[x]
         /\ InStep(e) => g = edition /\ files'[e] \subseteq {edition}
<1>1. g \in 0..edition /\ edition \in Editions
  BY DEF Reads, DoorInv, DoorTypeOK, Editions
<1>2. g \in Editions
  BY <1>1, DoorAssumption DEF Editions
<1> QED
  BY <1>1, <1>2 DEF Reads, DoorInv, DoorTypeOK, InStep

(* One engine serves one request: it stays in step if it was, and so does what
   the request has from it. *)
LEMMA EngineServes ==
  ASSUME DoorInv, NEW c \in Calls, stage[c] \in Serving,
         UNCHANGED <<indexState, server, unheard>>, Uses(c),
         files' \in [Engines -> SUBSET (0..edition)],
         verdict' \in [Engines -> Metas \union {Missing}],
         \A x \in Engines \ {server[c]} : UNCHANGED <<files[x], verdict[x]>>,
         InStep(server[c]) => InStep(server[c])'
  PROVE  /\ EnginesInStep'
         /\ \A d \in Calls \ {c} : UNCHANGED <<files[d], verdict[d]>> /\ (d \in calm' => d \in calm)
         /\ c \in calm' => c \in calm /\ InStep(server[c]) /\ InStep(c)'
         /\ server[c] \in Engines
<1>1. server[c] \in Shared \union {c} /\ server[c] \in Engines
  BY OwnIs DEF DoorInv, CallInv, InPlace
<1>2. calm' \subseteq calm /\ (c \in calm' => server[c] \notin unheard)
  BY DEF Uses
<1>3. EnginesInStep'
  <2>1. ASSUME ~ running, NEW e \in Shared \ unheard PROVE InStep(e)'
    <3>1. InStep(e)
      BY <2>1 DEF DoorInv, EnginesInStep
    <3>2. CASE e = server[c]
      BY <3>1, <3>2
    <3>3. CASE e # server[c]
      BY <3>1, <3>3, OwnIs, InStepKept
    <3> QED
      BY <3>2, <3>3
  <2> QED
    BY <2>1, <1>2 DEF DoorInv, EnginesInStep, indexState
<1>4. ASSUME NEW d \in Calls \ {c} PROVE UNCHANGED <<files[d], verdict[d]>> /\ (d \in calm' => d \in calm)
  BY <1>1, <1>2, OwnIs
<1>5. ASSUME c \in calm' PROVE c \in calm /\ InStep(server[c]) /\ InStep(c)'
  <2>1. c \in calm /\ InStep(c) /\ ~ running
    BY <1>5, <1>2 DEF DoorInv, CallInv, CalmInStep, EnginesInStep
  <2>2. InStep(server[c])
    <3>1. CASE server[c] = c
      BY <3>1, <2>1
    <3>2. CASE server[c] \in Shared
      BY <3>2, <1>5, <1>2, <2>1 DEF DoorInv, EnginesInStep
    <3> QED
      BY <3>1, <3>2, <1>1
  <2>3. InStep(c)'
    <3>1. CASE server[c] = c
      BY <3>1, <2>1
    <3>2. CASE server[c] # c
      BY <3>2, <2>1, OwnIs, InStepKept
    <3> QED
      BY <3>1, <3>2
  <2> QED
    BY <2>1, <2>2, <2>3
<1> QED
  BY <1>1, <1>3, <1>4, <1>5

(* cached_meta is of this edition if the engine is in step. *)
LEMMA CachedMetaIs ==
  ASSUME DoorInv, NEW e \in Engines, NEW m \in Metas, CachedMeta(e, m), UNCHANGED indexState
  PROVE  /\ files' \in [Engines -> SUBSET (0..edition)]
         /\ verdict' \in [Engines -> Metas \union {Missing}]
         /\ \A x \in Engines \ {e} : UNCHANGED <<files[x], verdict[x]>>
         /\ InStep(e) => InStep(e)' /\ m = Meta(edition)
<1>0. /\ verdict \in [Engines -> Metas \union {Missing}]
      /\ files \in [Engines -> SUBSET (0..edition)]
  BY DEF DoorInv, DoorTypeOK
<1>1. CASE m = verdict[e] /\ UNCHANGED <<files, verdict>>
  <2>1. InStep(e) => m = Meta(edition) /\ InStep(e)'
    BY <1>1, MissingIs DEF InStep, Meta, indexState
  <2> QED
    BY <1>0, <1>1, <2>1
<1>2. ASSUME NEW g \in Editions, Reads(e, g), m = Meta(g), verdict' = [verdict EXCEPT ![e] = m]
      PROVE  /\ files' \in [Engines -> SUBSET (0..edition)]
             /\ verdict' \in [Engines -> Metas \union {Missing}]
             /\ \A x \in Engines \ {e} : UNCHANGED <<files[x], verdict[x]>>
             /\ InStep(e) => InStep(e)' /\ m = Meta(edition)
  <2>1. InStep(e) => InStep(e)' /\ m = Meta(edition)
    BY <1>0, <1>2, ReadsIs DEF InStep, Meta, indexState
  <2> QED
    BY <1>0, <1>2, <2>1, ReadsIs
<1> QED
  BY <1>1, <1>2 DEF CachedMeta

(* A step of c that leaves what it is served by: what remains to be shown is
   about c, and about the engine. *)
LEMMA CallMoves ==
  ASSUME DoorInv, NEW c \in Calls, stage[c] \in Serving,
         UNCHANGED <<indexState, door, server, unheard>>, Uses(c),
         files' \in [Engines -> SUBSET (0..edition)],
         verdict' \in [Engines -> Metas \union {Missing}],
         \A x \in Engines \ {server[c]} : UNCHANGED <<files[x], verdict[x]>>,
         InStep(server[c]) => InStep(server[c])',
         NEW m \in Metas \union {Missing}, noted' = [noted EXCEPT ![c] = m],
         NEW h \in Editions \union {Missing}, hits' = [hits EXCEPT ![c] = h],
         NEW s \in {"retrieve", "ask", "status", "done"}, stage' = [stage EXCEPT ![c] = s],
         NEW o \in {"none", "answer", "refused"}, out' = [out EXCEPT ![c] = o],
         s # "done" => o = "none",
         UNCHANGED failedBy,
         c \in calm /\ InStep(server[c]) =>
           m \in {Missing, Meta(edition)} /\ h \in {Missing, edition},
         s = "retrieve" => door[c] \in Finds /\ m \in Metas /\ ~ m.foreign,
         s \in {"ask", "status"} => door[c] = "explain_change" /\ h \in Editions /\ by[c] = {},
         s = "ask" => server[c] \in Daemons,
         s = "status" => server[c] \notin Daemons,
         door[c] = "explain_change" /\ o = "answer" =>
           /\ h \in Editions /\ m \in Metas
           /\ IF server[c] \in Daemons THEN by[c] \subseteq Daemons ELSE by[c] \subseteq {Own(c)},
         door[c] \in Finds /\ o = "answer" => m \in Metas /\ ~ m.foreign /\ h \in Editions,
         door[c] \in Finds /\ o = "refused" => m \in Metas /\ m.foreign
  PROVE  DoorInv'
<1>1. /\ EnginesInStep'
      /\ \A d \in Calls \ {c} : UNCHANGED <<files[d], verdict[d]>> /\ (d \in calm' => d \in calm)
      /\ c \in calm' => c \in calm /\ InStep(server[c]) /\ InStep(c)'
      /\ server[c] \in Engines
  BY EngineServes
<1>2. DoorTypeOK /\ CallInv(c)
  BY DEF DoorInv
<1>3. by' = [by EXCEPT ![c] = @ \union {server[c]}] /\ calm' \subseteq calm
  BY DEF Uses
<1>4. DoorTypeOK'
  <2>1. noted' \in [Calls -> Metas \union {Missing}] /\ hits' \in [Calls -> Editions \union {Missing}]
        /\ stage' \in [Calls -> {"start", "ask", "done"} \union Serving]
        /\ out' \in [Calls -> {"none", "answer", "refused", "error"}]
        /\ by' \in [Calls -> SUBSET Engines]
    BY <1>1, <1>2, <1>3 DEF DoorTypeOK, Serving
  <2>2. \A d \in Calls : stage'[d] \in Serving \union {"ask"} => server[d] \in Shared \union {d}
    BY <1>2 DEF DoorTypeOK, Serving
  <2> QED
    BY <1>2, <1>3, <2>1, <2>2 DEF DoorTypeOK, indexState
<1>5. \A d \in Calls \ {c} : CallInv(d)'
  <2> TAKE d \in Calls \ {c}
  <2>1. UNCHANGED <<stage[d], server[d], noted[d], hits[d], out[d], by[d], failedBy[d],
                    files[d], verdict[d]>>
    BY <1>1, <1>2, <1>3 DEF DoorTypeOK
  <2> QED
    BY <2>1, <1>1, OthersKeep
<1>6. CallInv(c)'
  <2>1. stage'[c] = s /\ noted'[c] = m /\ hits'[c] = h /\ out'[c] = o
        /\ by'[c] = by[c] \union {server[c]} /\ door[c] \in Doors
    BY <1>2, <1>3 DEF DoorTypeOK
  <2>2. Own(c)' = Own(c) /\ server[c] \in Daemons \union {Own(c)} /\ Own(c) \notin Daemons
    BY <1>2, OwnIs DEF Own, CallInv, InPlace
  <2>3. s \in {"ask", "status"} =>
          IF server[c] \in Daemons THEN by'[c] \subseteq Daemons ELSE by'[c] = {Own(c)}
    BY <2>1, <2>2
  <2>6. door[c] = "explain_change" /\ o = "answer" => by'[c] \subseteq Daemons \/ by'[c] = {Own(c)}
    BY <2>1, <2>2
  <2>7. InPlace(c)'
    BY <2>1, <2>2, <2>3, <2>6 DEF InPlace, Unmixed, Finds
  <2>4. ASSUME c \in calm' PROVE CalmInStep(c)'
    <3>1. InStep(c)' /\ m \in {Missing, Meta(edition)} /\ h \in {Missing, edition} /\ ~ running
      BY <2>4, <1>1 DEF DoorInv, EnginesInStep
    <3>2. edition \in Editions /\ Missing \notin Metas /\ Missing \notin Editions
      BY <1>2, DoorAssumption, MissingIs DEF DoorTypeOK, Editions
    <3>3. Meta(edition).foreign = (edition \in foreign) /\ Meta(edition)' = Meta(edition)
          /\ edition' = edition /\ foreign' = foreign
      BY <3>1, <3>2, MetaIs DEF Meta, indexState
    <3>4. m \in Metas => m = Meta(edition)
      BY <3>1, <3>2
    <3>5. h \in Editions => h = edition
      BY <3>1, <3>2
    <3> QED
      BY <3>1, <3>3, <3>4, <3>5, <2>1 DEF CalmInStep
  <2>5. Excused(c)'
    BY <2>1 DEF Excused
  <2> QED
    BY <2>4, <2>5, <2>7 DEF CallInv
<1> QED
  BY <1>1, <1>4, <1>5, <1>6 DEF DoorInv

LEMMA GuardKeeps == ASSUME DoorInv, NEW c \in Calls, Guard(c) PROVE DoorInv'
<1>1. stage[c] \in Serving /\ CallInv(c) /\ server[c] \in Engines
      /\ UNCHANGED <<indexState, door, server, unheard, failedBy, hits>>
  BY OwnIs DEF Guard, Serving, DoorInv, CallInv, InPlace
<1>2. PICK m \in Metas :
        /\ CachedMeta(server[c], m)
        /\ noted' = [noted EXCEPT ![c] = m]
        /\ IF m.foreign
           THEN Reply(c, "refused")
           ELSE stage' = [stage EXCEPT ![c] = "retrieve"] /\ UNCHANGED out
  BY DEF Guard
<1>3. /\ out[c] = "none" /\ hits[c] = Missing /\ door[c] \in Finds
      /\ hits' = [hits EXCEPT ![c] = Missing]
      /\ door[c] # "explain_change"
  BY <1>1 DEF Guard, CallInv, InPlace, DoorInv, DoorTypeOK, Finds
<1> DEFINE s == IF m.foreign THEN "done" ELSE "retrieve"
           o == IF m.foreign THEN "refused" ELSE "none"
<1>4. stage' = [stage EXCEPT ![c] = s] /\ out' = [out EXCEPT ![c] = o] /\ Uses(c)
  BY <1>2, <1>3 DEF Guard, Reply, DoorInv, DoorTypeOK
<1>5. s \in {"retrieve", "ask", "status", "done"} /\ o \in {"none", "answer", "refused"}
      /\ (s # "done" => o = "none") /\ s \notin {"ask", "status"} /\ o # "answer"
      /\ (s = "retrieve" => ~ m.foreign) /\ (o = "refused" => m.foreign)
  OBVIOUS
<1>6. /\ files' \in [Engines -> SUBSET (0..edition)]
      /\ verdict' \in [Engines -> Metas \union {Missing}]
      /\ \A x \in Engines \ {server[c]} : UNCHANGED <<files[x], verdict[x]>>
      /\ InStep(server[c]) => InStep(server[c])' /\ m = Meta(edition)
  BY <1>1, <1>2, CachedMetaIs
<1> HIDE DEF s, o
<1> QED
  BY <1>1, <1>2, <1>3, <1>4, <1>5, <1>6, CallMoves

LEMMA RetrieveKeeps == ASSUME DoorInv, NEW c \in Calls, Retrieve(c) PROVE DoorInv'
<1>1. stage[c] \in Serving /\ CallInv(c) /\ server[c] \in Engines /\ DoorTypeOK
      /\ UNCHANGED <<indexState, door, server, unheard, failedBy, verdict, noted>>
  BY OwnIs DEF Retrieve, Serving, DoorInv, CallInv, InPlace
<1>2. PICK g \in Editions : Reads(server[c], g) /\ hits' = [hits EXCEPT ![c] = g]
  BY DEF Retrieve
<1>3. noted[c] \in Metas /\ ~ noted[c].foreign /\ door[c] \in Finds
      /\ door[c] # "explain_change" /\ noted' = [noted EXCEPT ![c] = noted[c]]
  BY <1>1 DEF Retrieve, CallInv, InPlace, Finds, DoorTypeOK
<1>4. /\ files' \in [Engines -> SUBSET (0..edition)]
      /\ verdict' \in [Engines -> Metas \union {Missing}]
      /\ \A x \in Engines \ {server[c]} : UNCHANGED <<files[x], verdict[x]>>
      /\ InStep(server[c]) => InStep(server[c])' /\ g = edition
  BY <1>1, <1>2, ReadsIs DEF DoorTypeOK, InStep, Meta, indexState
<1>5. c \in calm => noted[c] \in {Missing, Meta(edition)}
  BY <1>1 DEF CallInv, CalmInStep
<1>6. Uses(c) /\ stage' = [stage EXCEPT ![c] = "done"] /\ out' = [out EXCEPT ![c] = "answer"]
  BY DEF Retrieve, Reply
<1> QED
  BY <1>1, <1>2, <1>3, <1>4, <1>5, <1>6, CallMoves

LEMMA ExplainKeeps == ASSUME DoorInv, NEW c \in Calls, ExplainLines(c) PROVE DoorInv'
<1> DEFINE s == IF door[c] = "explain_change"
                THEN IF server[c] \in Daemons THEN "ask" ELSE "status"
                ELSE "done"
           o == IF door[c] = "explain_change" THEN "none" ELSE "answer"
<1>1. stage[c] \in Serving /\ CallInv(c) /\ server[c] \in Engines /\ DoorTypeOK
      /\ UNCHANGED <<indexState, door, server, unheard, failedBy, verdict, noted>>
  BY OwnIs DEF ExplainLines, Serving, DoorInv, CallInv, InPlace
<1>2. PICK g \in Editions : Reads(server[c], g) /\ hits' = [hits EXCEPT ![c] = g]
  BY DEF ExplainLines
<1>3. noted[c] = Missing /\ by[c] = {} /\ out[c] = "none" /\ door[c] \notin Finds
      /\ noted' = [noted EXCEPT ![c] = noted[c]]
  BY <1>1 DEF ExplainLines, CallInv, InPlace, Finds, DoorTypeOK
<1>4. /\ files' \in [Engines -> SUBSET (0..edition)]
      /\ verdict' \in [Engines -> Metas \union {Missing}]
      /\ \A x \in Engines \ {server[c]} : UNCHANGED <<files[x], verdict[x]>>
      /\ InStep(server[c]) => InStep(server[c])' /\ g = edition
  BY <1>1, <1>2, ReadsIs DEF DoorTypeOK, InStep, Meta, indexState
<1>5. Uses(c) /\ stage' = [stage EXCEPT ![c] = s] /\ out' = [out EXCEPT ![c] = o]
  BY <1>1, <1>3 DEF ExplainLines, AsksAgain, Reply, DoorTypeOK
<1>6. /\ s \in {"retrieve", "ask", "status", "done"} /\ o \in {"none", "answer", "refused"}
      /\ (s # "done" => o = "none") /\ s # "retrieve" /\ o # "refused"
      /\ (s \in {"ask", "status"} => door[c] = "explain_change")
      /\ (s = "ask" => server[c] \in Daemons) /\ (s = "status" => server[c] \notin Daemons)
      /\ (o = "answer" => door[c] # "explain_change")
  OBVIOUS
<1> HIDE DEF s, o
<1> QED
  BY <1>1, <1>2, <1>3, <1>4, <1>5, <1>6, CallMoves

LEMMA StatusKeeps == ASSUME DoorInv, NEW c \in Calls, IndexStatus(c) PROVE DoorInv'
<1>1. stage[c] \in Serving /\ CallInv(c) /\ server[c] \in Engines /\ DoorTypeOK
      /\ UNCHANGED <<indexState, door, server, unheard, failedBy, hits>>
  BY OwnIs DEF IndexStatus, Serving, DoorInv, CallInv, InPlace
<1>2. PICK m \in Metas :
        /\ IF server[c] \in Daemons THEN CachedMeta(server[c], m) ELSE StatusHere(server[c], m)
        /\ noted' = [noted EXCEPT ![c] = m]
  BY DEF IndexStatus
<1>3. /\ files' \in [Engines -> SUBSET (0..edition)]
      /\ verdict' \in [Engines -> Metas \union {Missing}]
      /\ \A x \in Engines \ {server[c]} : UNCHANGED <<files[x], verdict[x]>>
      /\ InStep(server[c]) => InStep(server[c])' /\ m = Meta(edition)
  <2>1. CASE server[c] \in Daemons
    BY <2>1, <1>1, <1>2, CachedMetaIs
  <2>2. CASE server[c] \notin Daemons
    <3>1. PICK g \in Editions : Reads(server[c], g) /\ m = Meta(g)
      BY <1>2, <2>2 DEF StatusHere
    <3>2. verdict' = verdict
      BY <1>2, <2>2 DEF StatusHere
    <3>3. /\ files' \in [Engines -> SUBSET (0..edition)]
          /\ \A x \in Engines \ {server[c]} : files'[x] = files[x]
          /\ InStep(server[c]) => InStep(server[c])' /\ g = edition
      BY <1>1, <3>1, <3>2, ReadsIs DEF InStep, Meta, indexState
    <3> QED
      BY <1>1, <3>1, <3>2, <3>3 DEF DoorTypeOK
  <2> QED
    BY <2>1, <2>2
<1>4. /\ door[c] \notin Finds /\ hits[c] \in Editions \union {Missing}
      /\ hits' = [hits EXCEPT ![c] = hits[c]]
      /\ door[c] = "explain_change" =>
           /\ hits[c] \in Editions
           /\ IF server[c] \in Daemons THEN by[c] \subseteq Daemons ELSE by[c] \subseteq {Own(c)}
  BY <1>1 DEF IndexStatus, Halved, CallInv, InPlace, Finds, DoorTypeOK
<1>5. Uses(c) /\ stage' = [stage EXCEPT ![c] = "done"] /\ out' = [out EXCEPT ![c] = "answer"]
  BY DEF IndexStatus, Reply
<1>6. c \in calm => hits[c] \in {Missing, edition}
  BY <1>1 DEF CallInv, CalmInStep
<1> QED
  BY <1>1, <1>2, <1>3, <1>4, <1>5, <1>6, CallMoves

(* A step of c in which no engine does anything, and c keeps what it has. *)
LEMMA CallTurns ==
  ASSUME DoorInv, NEW c \in Calls, stage[c] # "start",
         UNCHANGED <<indexState, engineState, door, unheard, calm, noted, hits, by>>,
         NEW s \in {"ask", "status", "done"}, stage' = [stage EXCEPT ![c] = s],
         NEW o \in {"none", "error"}, out' = [out EXCEPT ![c] = o], s # "done" => o = "none",
         NEW e \in Engines \union {Missing}, server' = [server EXCEPT ![c] = e],
         NEW b \in Engines \union {Missing}, failedBy' = [failedBy EXCEPT ![c] = b],
         s \in {"ask", "status"} =>
           door[c] = "explain_change" /\ e \in Daemons /\ by[c] \subseteq Daemons,
         o = "error" => b = Own(c) \/ (door[c] = "find_pattern" /\ b \in Daemons)
  PROVE  DoorInv'
<1>1. DoorTypeOK /\ CallInv(c)
  BY DEF DoorInv
<1>2. /\ stage'[c] = s /\ out'[c] = o /\ server'[c] = e /\ failedBy'[c] = b
      /\ \A d \in Calls \ {c} : UNCHANGED <<stage[d], out[d], server[d], failedBy[d]>>
  BY <1>1 DEF DoorTypeOK
<1>3. DoorTypeOK'
  <2>1. /\ stage' \in [Calls -> {"start", "ask", "done"} \union Serving]
        /\ out' \in [Calls -> {"none", "answer", "refused", "error"}]
        /\ server' \in [Calls -> Engines \union {Missing}]
        /\ failedBy' \in [Calls -> Engines \union {Missing}]
    BY <1>1 DEF DoorTypeOK, Serving
  <2>2. \A d \in Calls : stage'[d] \in Serving \union {"ask"} => server'[d] \in Shared \union {d}
    BY <1>1, <1>2, OwnIs DEF DoorTypeOK, Serving
  <2> QED
    BY <1>1, <2>1, <2>2 DEF DoorTypeOK, indexState, engineState
<1>4. EnginesInStep'
  BY DEF DoorInv, EnginesInStep, InStep, Meta, indexState, engineState
<1>5. \A d \in Calls \ {c} : CallInv(d)'
  BY <1>2, OthersKeep DEF engineState
<1>6. CallInv(c)'
  <2>1. Own(c)' = Own(c) /\ door' = door /\ by' = by
    BY DEF Own
  <2>2. Excused(c)'
    BY <1>2, <2>1 DEF Excused
  <2>3. InPlace(c)'
    BY <1>1, <1>2, <2>1 DEF CallInv, InPlace, Unmixed, Serving
  <2>4. ASSUME c \in calm' PROVE CalmInStep(c)'
    BY <2>4, <1>1, <1>2 DEF CallInv, CalmInStep, InStep, Meta, indexState, engineState
  <2> QED
    BY <2>2, <2>3, <2>4 DEF CallInv
<1> QED
  BY <1>3, <1>4, <1>5, <1>6 DEF DoorInv

LEMMA FailureKeeps == ASSUME DoorInv, NEW c \in Calls, EngineFails(c) PROVE DoorInv'
<1>1. stage[c] \in Serving /\ stage[c] \notin {"start", "done"} /\ CallInv(c) /\ DoorTypeOK
      /\ server[c] \in Daemons \union {Own(c)} /\ server[c] \in Engines
      /\ UNCHANGED <<indexState, engineState, door, unheard, calm>>
  BY OwnIs DEF EngineFails, Serving, DoorInv, CallInv, InPlace
<1>2. CASE AsksAgain(c) /\ stage' = [stage EXCEPT ![c] = "ask"]
           /\ UNCHANGED <<server, noted, hits, by, out, failedBy>>
  <2>1. /\ door[c] = "explain_change" /\ server[c] \in Daemons /\ by[c] = {} /\ out[c] = "none"
    BY <1>1, <1>2 DEF AsksAgain, CallInv, InPlace
  <2>2. /\ out' = [out EXCEPT ![c] = "none"] /\ server' = [server EXCEPT ![c] = server[c]]
        /\ failedBy' = [failedBy EXCEPT ![c] = failedBy[c]]
        /\ failedBy[c] \in Engines \union {Missing}
    BY <1>1, <1>2, <2>1 DEF DoorTypeOK
  <2> QED
    BY <1>1, <1>2, <2>1, <2>2, CallTurns
<1>3. CASE Serve(c, Own(c)) /\ UNCHANGED failedBy
  BY <1>1, <1>3, Served, InStepKept DEF engineState, DoorTypeOK
<1>4. CASE ~ FallsBack(c) /\ Reply(c, "error") /\ failedBy' = [failedBy EXCEPT ![c] = server[c]]
           /\ UNCHANGED <<server, noted, hits, by>>
  <2>1. server' = [server EXCEPT ![c] = server[c]]
    BY <1>1, <1>4 DEF DoorTypeOK
  <2>2. server[c] = Own(c) \/ (door[c] = "find_pattern" /\ server[c] \in Daemons)
    BY <1>1, <1>4 DEF FallsBack
  <2> QED
    BY <1>1, <1>4, <2>1, <2>2, CallTurns DEF Reply
<1> QED
  BY <1>2, <1>3, <1>4 DEF EngineFails

LEMMA AskingKeeps == ASSUME DoorInv, NEW c \in Calls, AskStatus(c) PROVE DoorInv'
<1>1. CallInv(c) /\ DoorTypeOK
  BY DEF DoorInv
<1>2. PICK d \in Daemons : server' = [server EXCEPT ![c] = d]
  BY DEF AskStatus
<1>3. /\ door[c] = "explain_change" /\ by[c] \subseteq Daemons /\ out[c] = "none"
      /\ d \in Engines /\ failedBy[c] \in Engines \union {Missing}
  BY <1>1, OwnIs DEF AskStatus, CallInv, InPlace, DoorTypeOK
<1>4. out' = [out EXCEPT ![c] = "none"] /\ failedBy' = [failedBy EXCEPT ![c] = failedBy[c]]
      /\ stage' = [stage EXCEPT ![c] = "status"] /\ stage[c] # "start"
  BY <1>1, <1>3 DEF AskStatus, DoorTypeOK
<1> QED
  BY <1>2, <1>3, <1>4, CallTurns DEF AskStatus

LEMMA BeginningKeeps ==
  ASSUME DoorInv, NEW c \in Calls,
         CallDaemon(c) \/ StayInProcess(c) \/ DaemonLost(c) \/ StatusInVain(c)
  PROVE  DoorInv'
<1>1. PICK e \in Daemons \union {Own(c)} : Serve(c, e)
  BY DEF CallDaemon, StayInProcess, DaemonLost, StatusInVain
<1>2. /\ stage[c] # "done"
      /\ UNCHANGED <<indexState, door, unheard, failedBy>>
      /\ calm' = calm \/ (stage[c] = "start" /\ BeginCall(c))
  BY DEF CallDaemon, StayInProcess, DaemonLost, StatusInVain, Serving
<1>3. CASE UNCHANGED engineState
  <2>1. /\ files' \in [Engines -> SUBSET (0..edition)]
        /\ verdict' \in [Engines -> Metas \union {Missing}]
        /\ \A d \in Calls : UNCHANGED <<files[d], verdict[d]>>
    BY <1>3 DEF DoorInv, DoorTypeOK, engineState
  <2>2. \A x \in Shared : InStep(x) => InStep(x)'
    BY <1>2, <1>3, InStepKept DEF engineState
  <2> QED
    BY <1>1, <1>2, <2>1, <2>2, Served
<1>4. CASE StatusInVain(c)
  <2>1. PICK d \in Engines : d = server[c] /\ d \notin Calls
    BY <1>4, DoorAssumption DEF StatusInVain, Halved, Engines, Shared
  <2>2. PICK m \in Metas : CachedMeta(d, m)
    BY <1>4, <2>1 DEF StatusInVain
  <2>3. /\ files' \in [Engines -> SUBSET (0..edition)]
        /\ verdict' \in [Engines -> Metas \union {Missing}]
        /\ \A x \in Engines \ {d} : UNCHANGED <<files[x], verdict[x]>>
        /\ InStep(d) => InStep(d)'
    BY <1>2, <2>2, CachedMetaIs
  <2>4. \A x \in Shared : InStep(x) => InStep(x)'
    <3> TAKE x \in Shared
    <3>1. CASE x = d
      BY <3>1, <2>3
    <3>2. CASE x # d
      BY <3>2, <1>2, <2>3, OwnIs, InStepKept
    <3> QED
      BY <3>1, <3>2
  <2>5. \A x \in Calls : UNCHANGED <<files[x], verdict[x]>>
    BY <2>1, <2>3, OwnIs
  <2> QED
    BY <1>1, <1>2, <2>3, <2>4, <2>5, Served
<1> QED
  BY <1>3, <1>4 DEF CallDaemon, StayInProcess, DaemonLost

LEMMA AgainKeeps == ASSUME DoorInv, NEW c \in Calls, CallAgain(c) PROVE DoorInv'
<1>1. DoorTypeOK /\ c \in Engines \ Shared
  BY OwnIs DEF DoorInv
<1>2. /\ stage'[c] = "start" /\ out'[c] = "none" /\ files'[c] = {} /\ verdict'[c] = Missing
      /\ by'[c] = {} /\ noted'[c] = Missing /\ hits'[c] = Missing /\ c \notin calm'
  BY <1>1 DEF CallAgain, DoorTypeOK
<1>3. \A d \in Calls \ {c} :
        /\ UNCHANGED <<stage[d], server[d], noted[d], hits[d], out[d], by[d], failedBy[d],
                       files[d], verdict[d]>>
        /\ d \in calm' => d \in calm
  BY <1>1 DEF CallAgain, DoorTypeOK, Engines
<1>4. DoorTypeOK'
  <2>1. /\ files' \in [Engines -> SUBSET (0..edition)]
        /\ verdict' \in [Engines -> Metas \union {Missing}]
        /\ stage' \in [Calls -> {"start", "ask", "done"} \union Serving]
        /\ server' \in [Calls -> Engines \union {Missing}]
        /\ noted' \in [Calls -> Metas \union {Missing}]
        /\ hits' \in [Calls -> Editions \union {Missing}]
    BY <1>1 DEF CallAgain, DoorTypeOK
  <2>2. /\ out' \in [Calls -> {"none", "answer", "refused", "error"}]
        /\ calm' \subseteq Calls
        /\ by' \in [Calls -> SUBSET Engines] /\ failedBy' \in [Calls -> Engines \union {Missing}]
        /\ UNCHANGED <<edition, foreign, running, door, unheard>>
    BY <1>1 DEF CallAgain, DoorTypeOK, indexState
  <2>3. \A d \in Calls : stage'[d] \in Serving \union {"ask"} => server'[d] \in Shared \union {d}
    BY <1>1, <1>2, <1>3 DEF DoorTypeOK, Serving
  <2> QED
    BY <1>1, <2>1, <2>2, <2>3 DEF DoorTypeOK
<1>5. EnginesInStep'
  <2>1. \A e \in Shared : UNCHANGED <<files[e], verdict[e]>>
    BY <1>1, OwnIs DEF CallAgain, DoorTypeOK
  <2>2. \A e \in Shared : InStep(e) => InStep(e)'
    BY <2>1, InStepKept DEF CallAgain
  <2> QED
    BY <2>2 DEF CallAgain, DoorInv, EnginesInStep, indexState
<1>6. \A d \in Calls \ {c} : CallInv(d)'
  BY <1>3, OthersKeep DEF CallAgain
<1>7. CallInv(c)'
  BY <1>2 DEF CallInv, InPlace, Excused, Serving
<1> QED
  BY <1>4, <1>5, <1>6, <1>7 DEF DoorInv

(* What happens outside a call, if it moves no edition a calm call has seen. *)
LEMMA AroundCalls ==
  ASSUME DoorInv, DoorTypeOK', EnginesInStep',
         UNCHANGED <<door, stage, server, noted, hits, out, by, failedBy>>,
         calm' \subseteq calm, calm' # {} => UNCHANGED indexState,
         \A c \in Calls : UNCHANGED files[c]
                         /\ verdict'[c] \in {verdict[c], Missing}
  PROVE  DoorInv'
<1> SUFFICES ASSUME NEW c \in Calls PROVE CallInv(c)'
  BY DEF DoorInv
<1>1. CallInv(c)
  BY DEF DoorInv
<1>2. Own(c)' = Own(c)
  BY DEF Own
<1>3. InPlace(c)' /\ Excused(c)'
  BY <1>1, <1>2 DEF CallInv, InPlace, Unmixed, Excused
<1>4. ASSUME c \in calm' PROVE CalmInStep(c)'
  BY <1>1, <1>4 DEF CallInv, CalmInStep, InStep, Meta, indexState
<1> QED
  BY <1>3, <1>4 DEF CallInv

LEMMA RebuildBeginsKeeps == ASSUME DoorInv, RebuildBegins PROVE DoorInv'
<1>1. DoorTypeOK'
  <2>1. edition' \in Editions /\ foreign' \subseteq Editions /\ 0..edition \subseteq 0..edition'
    BY DoorAssumption DEF DoorInv, DoorTypeOK, RebuildBegins, Editions
  <2>2. files' \in [Engines -> SUBSET (0..edition')]
    BY <2>1 DEF DoorInv, DoorTypeOK, RebuildBegins, engineState
  <2> QED
    BY <2>1, <2>2 DEF DoorInv, DoorTypeOK, RebuildBegins, engineState
<1>2. EnginesInStep'
  BY DEF RebuildBegins, EnginesInStep
<1> QED
  BY <1>1, <1>2, AroundCalls DEF RebuildBegins, engineState

LEMMA RebuildEndsKeeps == ASSUME DoorInv, RebuildEnds PROVE DoorInv'
<1>1. DoorTypeOK'
  BY DEF DoorInv, DoorTypeOK, RebuildEnds, engineState
<1>2. calm = {} /\ calm' = {}
  BY DEF DoorInv, EnginesInStep, RebuildEnds
<1>3. \A e \in Shared \ unheard' : files'[e] = {} /\ verdict'[e] = Missing
  BY DEF RebuildEnds, engineState
<1>4. EnginesInStep'
  BY <1>2, <1>3 DEF RebuildEnds, EnginesInStep, InStep
<1> QED
  BY <1>1, <1>2, <1>4, AroundCalls DEF RebuildEnds, engineState

LEMMA HearingKeeps == ASSUME DoorInv, NEW d \in Daemons, DaemonHears(d) PROVE DoorInv'
<1>1. DoorTypeOK'
  BY DEF DoorInv, DoorTypeOK, DaemonHears, indexState
<1>2. /\ files'[d] = {} /\ verdict'[d] = Missing
      /\ \A e \in Engines \ {d} : UNCHANGED <<files[e], verdict[e]>>
  BY DEF DoorInv, DoorTypeOK, DaemonHears, Engines, Shared
<1>3. EnginesInStep'
  <2>1. ASSUME ~ running, NEW e \in Shared \ unheard' PROVE InStep(e)'
    <3>1. CASE e = d
      BY <3>1, <1>2 DEF InStep
    <3>2. CASE e # d
      <4>1. InStep(e) /\ e \in Engines
        BY <2>1, <3>2 DEF DaemonHears, DoorInv, EnginesInStep, Engines
      <4> QED
        BY <4>1, <3>2, <1>2, InStepKept DEF DaemonHears
    <3> QED
      BY <3>1, <3>2
  <2> QED
    BY <2>1 DEF DaemonHears, DoorInv, EnginesInStep, indexState
<1>4. \A c \in Calls : c \in Engines \ {d}
  BY OwnIs
<1> QED
  BY <1>1, <1>2, <1>3, <1>4, AroundCalls DEF DaemonHears

LEMMA ExpiryKeeps == ASSUME DoorInv, NEW e \in Shared, VerdictExpires(e) PROVE DoorInv'
<1>1. DoorTypeOK'
  BY DEF DoorInv, DoorTypeOK, VerdictExpires, indexState
<1>2. files' = files /\ \A x \in Engines : verdict'[x] \in {verdict[x], Missing}
  BY DEF DoorInv, DoorTypeOK, VerdictExpires
<1>3. EnginesInStep'
  BY <1>2 DEF VerdictExpires, DoorInv, EnginesInStep, InStep, Meta, indexState, Engines, Shared
<1>4. Calls \subseteq Engines
  BY DEF Engines
<1> QED
  BY <1>1, <1>2, <1>3, <1>4, AroundCalls DEF VerdictExpires

LEMMA DoorStep == DoorInv /\ [DoorNext]_doorVars => DoorInv'
<1> SUFFICES ASSUME DoorInv, [DoorNext]_doorVars PROVE DoorInv'
  OBVIOUS
<1>1. ASSUME NEW c \in Calls, CallStep(c) PROVE DoorInv'
  BY <1>1, BeginningKeeps, AskingKeeps, FailureKeeps, GuardKeeps, RetrieveKeeps, ExplainKeeps,
     StatusKeeps, AgainKeeps
  DEF CallStep
<1>2. ASSUME NEW e \in Shared, VerdictExpires(e) PROVE DoorInv'
  BY <1>2, ExpiryKeeps
<1>3. CASE UNCHANGED doorVars
  <2>1. DoorTypeOK' /\ EnginesInStep'
    BY <1>3 DEF DoorInv, DoorTypeOK, EnginesInStep, InStep, Meta, doorVars, indexState, engineState
  <2> QED
    BY <1>3, <2>1, AroundCalls DEF doorVars, engineState
<1> QED
  BY <1>1, <1>2, <1>3, RebuildBeginsKeeps, RebuildEndsKeeps, HearingKeeps DEF DoorNext

LEMMA DoorInvHolds == DoorSpec => []DoorInv
BY DoorInitially, DoorStep, PTL DEF DoorSpec

(* Through either door and by whichever engine in the end, a find that begins on
   a current index is answered from it, or refused if another model wrote it:
   Retriever behind the guard of RetrievalEngine::find_pattern, in the daemon,
   in the MCP server and in `ohara query`. *)
THEOREM FindsGuarded == DoorSpec => []FindsAreGuarded
<1>1. DoorInv => FindsAreGuarded
  BY DEF DoorInv, DoorTypeOK, CallInv, CalmInStep, FindsAreGuarded
<1> QED
  BY <1>1, DoorInvHolds, PTL

(* OharaService::explain_change never puts a daemon's answer together with one of
   its own engine, whichever of its two calls is lost or fails; and from two
   daemons, too, its halves are of one index unless one of them missed a rebuild. *)
THEOREM ExplainedUnmixed == DoorSpec => []ExplainIsUnmixed
<1>1. ASSUME DoorInv, NEW c \in Calls, door[c] = "explain_change", out[c] = "answer"
      PROVE  /\ by[c] \subseteq Daemons \/ by[c] = {Own(c)}
             /\ c \in calm => hits[c] = edition /\ noted[c].edition = edition
  <2>1. /\ Unmixed(c) /\ hits[c] \in Editions /\ noted[c] \in Metas
        /\ c \in calm => noted[c] \in {Missing, Meta(edition)} /\ hits[c] \in {Missing, edition}
    BY <1>1 DEF DoorInv, CallInv, InPlace, CalmInStep
  <2>2. edition \in Editions
    BY <1>1 DEF DoorInv, DoorTypeOK
  <2> QED
    BY <2>1, <2>2, MissingIs, MetaIs DEF Unmixed
<1>2. DoorInv => ExplainIsUnmixed
  BY <1>1 DEF ExplainIsUnmixed
<1> QED
  BY <1>2, DoorInvHolds, PTL

(* try_daemon_call's None and a daemon's errors lead to the engine in the
   caller's process, except for find_pattern's errors. *)
THEOREM DaemonOptional == DoorSpec => []DaemonIsOptional
<1>1. DoorInv => DaemonIsOptional
  BY DEF DoorInv, CallInv, Excused, DaemonIsOptional
<1> QED
  BY <1>1, DoorInvHolds, PTL

----------------------------------------------------------------------------
(* IndexOptions: what is parsed, printed and sized. *)

(* What a setting may be. *)
AllValues == UNION {Values(o) \union {DefaultOf(o)} : o \in Settings}
SettingsOf ==
  {f \in [Settings -> AllValues] : \A o \in Settings : f[o] \in Values(o) \union {DefaultOf(o)}}

ModeChoices == {"standard", "incremental", "force", "rebuild"}
AnswersOf ==
  [mode : ModeChoices, switches : SUBSET {"no_progress", "profile"}, option : SettingsOf]

LEMMA SettingChanged ==
  ASSUME NEW f \in SettingsOf, NEW o \in Settings, NEW v \in Values(o) \union {DefaultOf(o)}
  PROVE  [f EXCEPT ![o] = v] \in SettingsOf
<1>1. v \in AllValues
  BY DEF AllValues
<1> QED
  BY <1>1 DEF SettingsOf

(* What was given is what the settings are read from. *)
LEMMA ParsedSettings == ASSUME NEW l PROVE Parsed(l).option \in SettingsOf
<1> DEFINE F(o) == IF Given(l, o) = {} THEN DefaultOf(o) ELSE CHOOSE v \in Given(l, o) : TRUE
<1>1. ASSUME NEW o \in Settings PROVE F(o) \in Values(o) \union {DefaultOf(o)}
  BY DEF Given
<1>2. Parsed(l).option = [o \in Settings |-> F(o)]
  BY DEF Parsed
<1> HIDE DEF F
<1>3. \A o \in Settings : F(o) \in AllValues
  BY <1>1 DEF AllValues
<1> QED
  BY <1>1, <1>2, <1>3 DEF SettingsOf

LEMMA AssembledIs ==
  ASSUME NEW a \in AnswersOf, NEW b
  PROVE  LET c == Assembled(a, b) IN
         /\ c.path = b.path /\ c.option \in SettingsOf
         /\ \A o \in Settings \ {"embed_provider"} : c.option[o] = a.option[o]
         /\ c.option["embed_provider"] =
              IF a.option["embed_provider"] = "auto" THEN Unset ELSE a.option["embed_provider"]
         /\ "interactive" \notin c.switches /\ ("yes" \in c.switches <=> "rebuild" \in c.switches)
         /\ \A s \in {"incremental", "force", "rebuild"} : s \in c.switches <=> a.mode = s
         /\ c.switches \intersect {"no_progress", "profile"} = a.switches
<1> DEFINE c == Assembled(a, b)
<1> DEFINE v == IF a.option["embed_provider"] = "auto" THEN Unset ELSE a.option["embed_provider"]
<1>1. a.option \in SettingsOf /\ a.mode \in ModeChoices /\ a.switches \subseteq {"no_progress", "profile"}
  BY DEF AnswersOf
<1>2. "embed_provider" \in Settings /\ DefaultOf("embed_provider") = Unset
  BY DEF Settings, DefaultOf, Sizes
<1>3. v \in Values("embed_provider") \union {DefaultOf("embed_provider")}
  BY <1>1, <1>2 DEF SettingsOf
<1>4. c.option = [a.option EXCEPT !["embed_provider"] = v]
  BY DEF Assembled
<1>5. c.option \in SettingsOf
  BY <1>1, <1>2, <1>3, <1>4, SettingChanged
<1>6. /\ \A o \in Settings \ {"embed_provider"} : c.option[o] = a.option[o]
      /\ c.option["embed_provider"] = v
  BY <1>1, <1>2, <1>4 DEF SettingsOf
<1>7. c.path = b.path
  BY DEF Assembled
<1>8. c.switches = a.switches \union {s \in {"incremental", "force", "rebuild"} : a.mode = s}
                              \union {s \in {"yes"} : a.mode = "rebuild"}
  BY DEF Assembled
<1> QED
  BY <1>1, <1>5, <1>6, <1>7, <1>8 DEF ModeChoices

(* The printed command says what the wizard has made of the answers, or more
   words than a path has. *)
LEMMA PrintedParses ==
  ASSUME NEW a \in AnswersOf, NEW b, b.path \in Targets
  PROVE  LET c == Assembled(a, b) IN
         /\ ~ Parses(Printed(c)) => Len(b.path) > 1
         /\ Parses(Printed(c)) => Parsed(Printed(c)) = c
         /\ "interactive" \notin Printed(c).switches
<1> DEFINE c == Assembled(a, b)
<1> DEFINE p == Printed(c)
<1>1. /\ c.path = b.path /\ c.option \in SettingsOf /\ "interactive" \notin c.switches
      /\ "yes" \in c.switches <=> "rebuild" \in c.switches
      /\ \A s \in {"incremental", "force", "rebuild"} : s \in c.switches <=> a.mode = s
  BY AssembledIs
<1>2. c = [path |-> c.path, switches |-> c.switches, option |-> c.option]
  BY DEF Assembled
<1> HIDE DEF c
<1>3. p.switches = c.switches
  BY <1>1 DEF Printed
<1>4. p.given = {<<o, c.option[o]>> : o \in {q \in Settings : c.option[q] # DefaultOf(q)}}
  BY DEF Printed
<1>5. p.words = IF c.path = Here THEN <<>> ELSE [n \in DOMAIN c.path |-> <<c.path[n]>>]
  BY DEF Printed
<1> HIDE DEF p
<1>6. ASSUME NEW o \in Settings
      PROVE  Given(p, o) = IF c.option[o] # DefaultOf(o) THEN {c.option[o]} ELSE {}
  <2>1. c.option[o] \in Values(o) \union {DefaultOf(o)}
    BY <1>1 DEF SettingsOf
  <2>2. \A v : <<o, v>> \in p.given <=> v = c.option[o] /\ c.option[o] # DefaultOf(o)
    BY <1>4
  <2> QED
    BY <2>1, <2>2 DEF Given
<1>7. /\ "rebuild" \in p.switches => p.switches \intersect {"incremental", "force"} = {}
      /\ "yes" \in p.switches => "rebuild" \in p.switches
  BY <1>1, <1>3
<1>8. Parses(p) <=> Len(p.words) <= 1
  BY <1>6, <1>7 DEF Parses
<1>9. PICK W : c.path \in Seq(W) /\ Len(c.path) > 0
  BY <1>1, OptionAssumption
<1>10. /\ c.path = Here => p.words = <<>> /\ Len(p.words) = 0
       /\ c.path # Here => Len(p.words) = Len(c.path) /\ p.words[1] = <<c.path[1]>>
  <2>1. ASSUME c.path # Here
        PROVE  Len(p.words) = Len(c.path) /\ p.words[1] = <<c.path[1]>>
    <3>1. /\ Len(c.path) \in Nat /\ DOMAIN c.path = 1..Len(c.path)
          /\ p.words = [n \in 1..Len(c.path) |-> <<c.path[n]>>]
      BY <1>5, <1>9, <2>1
    <3>2. 1 \in 1..Len(c.path)
      BY <1>9, <3>1
    <3> QED
      BY <3>1, <3>2
  <2> QED
    BY <1>5, <2>1
<1>11. ASSUME Parses(p) PROVE Parsed(p) = c
  <2>1. Parsed(p).path = c.path
    <3>1. CASE c.path = Here
      BY <1>10, <3>1 DEF Parsed
    <3>2. CASE c.path # Here
      <4>1. PICK k \in Nat : k = Len(c.path) /\ k > 0
        BY <1>9
      <4>2. Len(p.words) = k
        BY <1>10, <3>2, <4>1
      <4>3. k <= 1
        BY <1>8, <1>11, <4>2
      <4>4. k = 1 /\ Len(c.path) = 1 /\ Len(p.words) = 1
        <5>1. k = 1
          <6>1. k \in Nat /\ k > 0
            BY <4>1
          <6> QED
            BY <4>3, <6>1
        <5> QED
          BY <4>1, <4>2, <5>1
      <4>5. c.path = <<c.path[1]>>
        BY <1>9, <4>4
      <4> QED
        BY <1>10, <3>2, <4>4, <4>5 DEF Parsed
    <3> QED
      BY <3>1, <3>2
  <2>2. Parsed(p).option = c.option
    <3>1. c.option = [o \in Settings |-> c.option[o]]
      BY <1>1 DEF SettingsOf
    <3>2. ASSUME NEW o \in Settings
          PROVE  (IF Given(p, o) = {} THEN DefaultOf(o) ELSE CHOOSE v \in Given(p, o) : TRUE)
                   = c.option[o]
      <4>1. CASE c.option[o] = DefaultOf(o)
        BY <1>6, <4>1
      <4>2. CASE c.option[o] # DefaultOf(o)
        <5>1. Given(p, o) = {c.option[o]}
          BY <1>6, <4>2
        <5> QED
          BY <5>1
      <4> QED
        BY <4>1, <4>2
    <3> QED
      BY <3>1, <3>2 DEF Parsed
  <2>3. Parsed(p) = [path |-> Parsed(p).path, switches |-> Parsed(p).switches,
                     option |-> Parsed(p).option]
        /\ Parsed(p).switches = p.switches
    BY DEF Parsed
  <2> QED
    BY <1>2, <1>3, <2>1, <2>2, <2>3
<1>12. ASSUME ~ Parses(p) PROVE Len(b.path) > 1
  <2>1. ~ (Len(p.words) <= 1)
    BY <1>8, <1>12
  <2>2. c.path # Here
    BY <1>10, <2>1
  <2> QED
    BY <1>1, <1>9, <1>10, <2>1, <2>2
<1> QED
  BY <1>1, <1>3, <1>11, <1>12 DEF c, p

LEMMA NoAnswersAre == NoAnswers \in AnswersOf /\ NoAnswers.option["embed_provider"] = "auto"
<1> DEFINE F(o) == IF o = "embed_provider" THEN "auto" ELSE DefaultOf(o)
<1>1. "embed_provider" \in Settings /\ "auto" \in Values("embed_provider")
  BY DEF Settings, Sizes, Values
<1>2. \A o \in Settings : F(o) \in Values(o) \union {DefaultOf(o)}
  BY <1>1
<1>3. NoAnswers.option = [o \in Settings |-> F(o)] /\ F("embed_provider") = "auto"
  BY DEF NoAnswers
<1> HIDE DEF F
<1>4. \A o \in Settings : F(o) \in AllValues
  BY <1>2 DEF AllValues
<1>5. NoAnswers.option \in SettingsOf /\ NoAnswers.option["embed_provider"] = "auto"
  BY <1>1, <1>2, <1>3, <1>4 DEF SettingsOf
<1>6. NoAnswers = [mode |-> "standard", switches |-> {}, option |-> NoAnswers.option]
  BY DEF NoAnswers
<1> QED
  BY <1>5, <1>6 DEF AnswersOf, ModeChoices

(* Whatever is given, and whatever the machine has. *)
LEMMA SizedIs ==
  ASSUME NEW h \in Hosts, NEW a, a.option \in SettingsOf
  PROVE  LET z == Sized(h, a) IN
         /\ \A s \in Sizes : a.option[s] # Unset => z.size[s] = a.option[s]
         /\ {a.option["embed_batch"], a.option["commit_batch"]} = {Unset} =>
              z.size["embed_batch"] \in 1..z.size["commit_batch"]
         /\ a.option["threads"] = Unset => z.size["threads"] > 0
         /\ z.texts > 0 /\ z.tasks > 0
<1> DEFINE r == a.option["resources"]
<1> DEFINE sizes == ApplyIntensity(PickResources(h), r)
<1> DEFINE z == Sized(h, a)
<1>1. \A s \in Sizes : z.size[s] = IF a.option[s] # Unset THEN a.option[s] ELSE sizes[s]
  BY DEF Sized, Plan
<1>2. r \in {"auto", "conservative", "aggressive"}
  <2>1. "resources" \in Settings
    BY DEF Settings
  <2>2. r \in Values("resources") \union {DefaultOf("resources")}
    BY <2>1 DEF SettingsOf
  <2> QED
    BY <2>2 DEF Values, DefaultOf, Sizes
<1>3. h.cores \in Nat
  BY OptionAssumption
<1>4. /\ PickResources(h)["commit_batch"] = Tier(h.cores, 128, 256, 512)
      /\ PickResources(h)["embed_batch"] = Tier(h.cores, 64, 128, 256)
      /\ PickResources(h)["threads"] = AtLeastOne(h.cores)
  BY DEF PickResources, Sizes
<1>5. ASSUME NEW s \in Sizes
      PROVE  /\ r = "auto" => sizes[s] = PickResources(h)[s]
             /\ r = "conservative" => sizes[s] = AtLeastOne(PickResources(h)[s] \div 2)
             /\ r = "aggressive" => sizes[s] = 2 * PickResources(h)[s]
  BY DEF ApplyIntensity
<1> HIDE DEF sizes, r
<1>6. sizes["threads"] \in Nat /\ sizes["threads"] > 0
  <2>1. PICK k \in Nat : k > 0 /\ PickResources(h)["threads"] = k
    BY <1>3, <1>4 DEF AtLeastOne
  <2>2. k \div 2 \in Nat
    BY <2>1
  <2>3. "threads" \in Sizes
    BY DEF Sizes
  <2>4. AtLeastOne(k \div 2) > 0 /\ AtLeastOne(k \div 2) \in Nat
    BY <2>2 DEF AtLeastOne
  <2>5. 2 * k > 0 /\ 2 * k \in Nat
    BY <2>1
  <2>6. /\ r = "auto" => sizes["threads"] = k
        /\ r = "conservative" => sizes["threads"] = AtLeastOne(k \div 2)
        /\ r = "aggressive" => sizes["threads"] = 2 * k
    BY <1>5, <2>1, <2>3
  <2> QED
    BY <1>2, <2>1, <2>4, <2>5, <2>6
<1>7. sizes["embed_batch"] \in 1..sizes["commit_batch"]
  <2>1. PICK e \in {64, 128, 256} :
          PickResources(h)["embed_batch"] = e /\ PickResources(h)["commit_batch"] = 2 * e
    BY <1>4 DEF Tier
  <2>2. "embed_batch" \in Sizes /\ "commit_batch" \in Sizes
    BY DEF Sizes
  <2>3. AtLeastOne(e \div 2) \in 1..e /\ AtLeastOne((2 * e) \div 2) = e
    <3>1. CASE e = 64
      BY <3>1, 64 \div 2 = 32, 128 \div 2 = 64 DEF AtLeastOne
    <3>2. CASE e = 128
      BY <3>2, 128 \div 2 = 64, 256 \div 2 = 128 DEF AtLeastOne
    <3>3. CASE e = 256
      BY <3>3, 256 \div 2 = 128, 512 \div 2 = 256 DEF AtLeastOne
    <3> QED
      BY <2>1, <3>1, <3>2, <3>3
  <2>4. CASE r = "auto"
    <3>1. sizes["embed_batch"] = e /\ sizes["commit_batch"] = 2 * e
      BY <1>5, <2>1, <2>2, <2>4
    <3> QED
      BY <2>1, <3>1
  <2>5. CASE r = "conservative"
    <3>1. sizes["embed_batch"] = AtLeastOne(e \div 2) /\ sizes["commit_batch"] = e
      BY <1>5, <2>1, <2>2, <2>3, <2>5
    <3> QED
      BY <2>3, <3>1
  <2>6. CASE r = "aggressive"
    <3>1. sizes["embed_batch"] = 2 * e /\ sizes["commit_batch"] = 2 * (2 * e)
      BY <1>5, <2>1, <2>2, <2>6
    <3> QED
      BY <2>1, <3>1
  <2> QED
    BY <1>2, <2>4, <2>5, <2>6
<1>8. {"embed_batch", "commit_batch", "threads"} = Sizes
  BY DEF Sizes
<1>9. \A n \in Nat : AtLeastOne(n) > 0
  BY DEF AtLeastOne
<1>10. ASSUME NEW o \in {"embed_batch", "workers"}, a.option[o] # Unset
       PROVE  a.option[o] \in Nat
  <2>1. o \in Settings /\ Values(o) = Numbers /\ DefaultOf(o) = Unset
    BY DEF Settings, Sizes, Values, DefaultOf
  <2>2. a.option[o] \in Numbers
    BY <1>10, <2>1 DEF SettingsOf
  <2> QED
    BY <2>2, OptionAssumption
<1>11. z.texts > 0
  <2>1. z.texts = AtLeastOne(z.size["embed_batch"])
    BY DEF Sized, Texts
  <2>2. CASE a.option["embed_batch"] # Unset
    BY <1>1, <1>8, <1>9, <1>10, <2>1, <2>2
  <2>3. CASE a.option["embed_batch"] = Unset
    <3>1. PICK e \in Nat : e = sizes["embed_batch"]
      BY <1>7
    <3>2. z.size["embed_batch"] = e
      BY <1>1, <1>8, <2>3, <3>1
    <3> QED
      BY <1>9, <2>1, <3>1, <3>2
  <2> QED
    BY <2>2, <2>3
<1>12. z.tasks > 0
  BY <1>3, <1>9, <1>10 DEF Sized, Tasks
<1> HIDE DEF z
<1> QED
  BY <1>1, <1>6, <1>7, <1>8, <1>11, <1>12 DEF z

ArgsInv ==
  /\ prompt \in {"parsed", "runs"} =>
       /\ args.option \in SettingsOf
       /\ args = IF guided THEN Assembled(answers, base) ELSE Parsed(line)
  /\ prompt = "runs" =>
       /\ sized = Sized(host, args)
       /\ "rebuild" \in args.switches => "yes" \in args.switches

WizardInv ==
  /\ answers \in AnswersOf
  /\ answers.option["embed_provider"] \in ProviderChoices(host)
  /\ answers.mode = "rebuild" => confirmed \/ prompt \in {"rebuild", "cancelled"}
  /\ prompt \in Prompts => ~ guided
  /\ prompt \in Prompts \/ guided => base.path \in Targets
  /\ ~ guided => line \in Lines
  /\ guided /\ prompt \in {"printed", "typed"} => line = Printed(Assembled(answers, base))
  /\ prompt = "printed" => guided
  /\ prompt = "refused" /\ guided => Len(base.path) > 1

OptionsInv == host \in Hosts /\ ArgsInv /\ WizardInv

LEMMA OptionsInitially == OptionsInit => OptionsInv
<1>1. "auto" \in ProviderChoices(host)
  BY DEF ProviderChoices
<1> QED
  BY <1>1, NoAnswersAre DEF OptionsInit, OptionsInv, ArgsInv, WizardInv, Prompts, NoAnswers

LEMMA AgreedFromInv == OptionsInv => RunsAsAgreed
<1> SUFFICES ASSUME OptionsInv PROVE RunsAsAgreed
  OBVIOUS
<1>1. ASSUME prompt = "runs", guided
      PROVE  /\ args.path = base.path
             /\ \A s \in {"incremental", "force", "rebuild"} : s \in args.switches <=> answers.mode = s
             /\ args.switches \intersect {"no_progress", "profile"} = answers.switches
             /\ \A o \in Settings \ {"embed_provider"} : args.option[o] = answers.option[o]
             /\ answers.option["embed_provider"] # "auto" =>
                  args.option["embed_provider"] = answers.option["embed_provider"]
             /\ answers.mode = "rebuild" => confirmed
  <2>1. answers \in AnswersOf /\ args = Assembled(answers, base)
    BY <1>1 DEF OptionsInv, ArgsInv, WizardInv
  <2>2. answers.mode = "rebuild" => confirmed
    BY <1>1 DEF OptionsInv, WizardInv
  <2> QED
    BY <2>1, <2>2, AssembledIs
<1>2. ASSUME prompt = "runs", guided, answers.option["embed_provider"] # "auto"
      PROVE  /\ sized.provider = answers.option["embed_provider"]
             /\ sized.provider \in Enabled(host)
  <2> DEFINE e == answers.option["embed_provider"]
  <2>1. e \in ProviderChoices(host) /\ e # "auto" /\ args.option["embed_provider"] = e
    BY <1>1, <1>2 DEF OptionsInv, WizardInv
  <2>2. e # Unset
    <3>1. "embed_provider" \in Settings /\ e \in Values("embed_provider")
      BY <2>1 DEF Settings, Sizes, Values, ProviderChoices
    <3> QED
      BY <3>1, OptionAssumption
  <2>3. sized = Sized(host, args)
    BY <1>2 DEF OptionsInv, ArgsInv
  <2>4. sized.provider = e
    BY <2>1, <2>2, <2>3 DEF Sized, ResolveProvider
  <2>5. e \in Enabled(host)
    BY <2>1 DEF ProviderChoices, Enabled
  <2> QED
    BY <2>4, <2>5
<1>3. ASSUME prompt = "runs"
      PROVE  /\ \A s \in Sizes : args.option[s] # Unset => sized.size[s] = args.option[s]
             /\ {args.option["embed_batch"], args.option["commit_batch"]} = {Unset} =>
                  sized.size["embed_batch"] \in 1..sized.size["commit_batch"]
             /\ args.option["threads"] = Unset => sized.size["threads"] > 0
             /\ sized.texts > 0 /\ sized.tasks > 0
  <2>1. host \in Hosts /\ args.option \in SettingsOf /\ sized = Sized(host, args)
    BY <1>3 DEF OptionsInv, ArgsInv
  <2> QED
    BY <2>1, SizedIs
<1>4. ASSUME prompt = "runs", "rebuild" \in args.switches
      PROVE  IF guided THEN confirmed ELSE "yes" \in line.switches
  <2>1. CASE guided
    BY <1>1, <1>4, <2>1
  <2>2. CASE ~ guided
    <3>1. args = Parsed(line) /\ "yes" \in args.switches
      BY <1>4, <2>2 DEF OptionsInv, ArgsInv
    <3> QED
      BY <2>2, <3>1 DEF Parsed
  <2> QED
    BY <2>1, <2>2
<1>5. prompt = "refused" /\ guided => Len(base.path) > 1
  BY DEF OptionsInv, WizardInv
<1> QED
  BY <1>1, <1>2, <1>3, <1>4, <1>5 DEF RunsAsAgreed

----------------------------------------------------------------------------
(* IndexOptions: one step after another. *)

LEMMA OnlyOne ==
  ASSUME NEW T, NEW w \in Seq(T), Len(w) <= 1, Len(w) # 0
  PROVE  w[1] \in T
<1>1. PICK k \in Nat : k = Len(w)
  OBVIOUS
<1>2. k <= 1 /\ k # 0
  BY <1>1
<1>3. k = 1
  BY <1>2
<1>4. \A n \in 1..k : w[n] \in T
  BY <1>1
<1> QED
  BY <1>3, <1>4

LEMMA ParsedPath == ASSUME NEW l \in Lines, Parses(l) PROVE Parsed(l).path \in Targets
<1>1. l.words \in Seq(Targets) /\ Len(l.words) <= 1
  BY OptionAssumption DEF Parses
<1>2. CASE Len(l.words) = 0
  BY <1>2, OptionAssumption DEF Parsed
<1>3. CASE Len(l.words) # 0
  <2>1. l.words[1] \in Targets
    BY <1>1, <1>3, OnlyOne
  <2> QED
    BY <1>3, <2>1 DEF Parsed
<1> QED
  BY <1>2, <1>3

(* A command line that comes from the wizard. *)
LEMMA PastedParses ==
  ASSUME OptionsInv, guided, prompt = "typed"
  PROVE  /\ ~ Parses(line) => Len(base.path) > 1
         /\ Parses(line) => Parsed(line) = Assembled(answers, base)
         /\ "interactive" \notin line.switches
<1>1. /\ answers \in AnswersOf /\ base.path \in Targets
      /\ line = Printed(Assembled(answers, base))
  BY DEF OptionsInv, WizardInv
<1> QED
  BY <1>1, PrintedParses

LEMMA ParsingKeeps ==
  ASSUME OptionsInv, ParseFails \/ Parse \/ StartWizard
  PROVE  OptionsInv'
<1>1. CASE ParseFails
  <2>1. guided => Len(base.path) > 1
    BY <1>1, PastedParses DEF ParseFails
  <2> QED
    BY <1>1, <2>1 DEF OptionsInv, ArgsInv, WizardInv, ParseFails, Prompts
<1>2. CASE Parse
  <2>1. guided => Parsed(line) = Assembled(answers, base)
    BY <1>2, PastedParses DEF Parse
  <2>2. Parsed(line).option \in SettingsOf
    BY ParsedSettings
  <2>3. args' = Parsed(line)
    BY <1>2 DEF Parse
  <2> QED
    BY <1>2, <2>1, <2>2, <2>3 DEF OptionsInv, ArgsInv, WizardInv, Parse, Prompts
<1>3. CASE StartWizard
  <2>1. ~ guided
    BY <1>3, PastedParses DEF StartWizard
  <2>2. base'.path \in Targets
    BY <1>3, <2>1, ParsedPath DEF StartWizard, OptionsInv, WizardInv
  <2> QED
    BY <1>3, <2>1, <2>2 DEF OptionsInv, ArgsInv, WizardInv, StartWizard, Prompts
<1> QED
  BY <1>1, <1>2, <1>3

(* An answer that leaves the mode alone, or is to the prompts about it. *)
LEMMA AnswerKeeps ==
  ASSUME OptionsInv, prompt \in Prompts,
         NEW to \in Prompts, NEW a \in AnswersOf, Answer(to, a),
         a.option["embed_provider"] \in ProviderChoices(host),
         a.mode = "rebuild" => confirmed' \/ to = "rebuild"
  PROVE  OptionsInv'
<1>1. /\ prompt' = to /\ answers' = a
      /\ UNCHANGED <<host, line, args, base, sized, guided>>
  BY DEF Answer
<1>2. to \notin {"parsed", "runs", "printed", "typed", "refused"} /\ to \in Prompts
  BY DEF Prompts
<1>3. ArgsInv' /\ host' \in Hosts
  BY <1>1, <1>2 DEF OptionsInv, ArgsInv
<1>4. WizardInv'
  BY <1>1, <1>2 DEF OptionsInv, WizardInv
<1> QED
  BY <1>3, <1>4 DEF OptionsInv

(* Another value of one setting. *)
LEMMA AnswerChanged ==
  ASSUME NEW a \in AnswersOf, NEW o \in Settings, NEW v \in Values(o) \union {DefaultOf(o)}
  PROVE  LET b == [a EXCEPT !.option = [@ EXCEPT ![o] = v]] IN
         /\ b \in AnswersOf /\ b.mode = a.mode
         /\ b.option["embed_provider"] =
              IF o = "embed_provider" THEN v ELSE a.option["embed_provider"]
<1> DEFINE f == [a.option EXCEPT ![o] = v]
<1> DEFINE b == [a EXCEPT !.option = [@ EXCEPT ![o] = v]]
<1>1. a.option \in SettingsOf
  BY DEF AnswersOf
<1>2. f \in SettingsOf
  BY <1>1, SettingChanged
<1>3. "embed_provider" \in Settings
  BY DEF Settings
<1>4. f["embed_provider"] = IF o = "embed_provider" THEN v ELSE a.option["embed_provider"]
  BY <1>1, <1>3 DEF SettingsOf
<1> HIDE DEF f
<1>5. b.option = f /\ b.mode = a.mode /\ b \in AnswersOf
  BY <1>2 DEF AnswersOf, f
<1> QED
  BY <1>4, <1>5

LEMMA AnsweringKeeps ==
  ASSUME OptionsInv,
         PickProvider \/ PickIntensity \/ PickMode \/ ConfirmRebuild \/ Knobs \/ PickKnob \/ PickSwitch
  PROVE  OptionsInv'
<1>1. answers \in AnswersOf /\ answers.option["embed_provider"] \in ProviderChoices(host)
  BY DEF OptionsInv, WizardInv
<1>2. ASSUME prompt \in Prompts \ {"rebuild"}, answers.mode = "rebuild" PROVE confirmed
  BY <1>2 DEF OptionsInv, WizardInv, Prompts
<1>3. CASE PickProvider
  <2>1. PICK p \in ProviderChoices(host) :
          Answer("resources", [answers EXCEPT !.option = [@ EXCEPT !["embed_provider"] = p]])
    BY <1>3 DEF PickProvider
  <2>2. "embed_provider" \in Settings /\ p \in Values("embed_provider")
    BY DEF Settings, Sizes, Values, ProviderChoices
  <2>3. prompt \in Prompts \ {"rebuild"} /\ "resources" \in Prompts /\ UNCHANGED confirmed
    BY <1>3 DEF PickProvider, Prompts
  <2> DEFINE a == [answers EXCEPT !.option = [@ EXCEPT !["embed_provider"] = p]]
  <2>4. /\ a \in AnswersOf /\ a.mode = answers.mode
        /\ a.option["embed_provider"] \in ProviderChoices(host)
    BY <1>1, <2>1, <2>2, <2>3, AnswerChanged
  <2>5. Answer("resources", a)
    BY <2>1
  <2> HIDE DEF a
  <2> QED
    BY <1>1, <1>2, <2>1, <2>2, <2>3, <2>4, <2>5, AnswerKeeps
<1>4. CASE PickIntensity
  <2>1. PICK r \in Values("resources") :
          Answer("mode", [answers EXCEPT !.option = [@ EXCEPT !["resources"] = r]])
    BY <1>4 DEF PickIntensity
  <2>2. "resources" \in Settings /\ "resources" # "embed_provider"
    BY DEF Settings
  <2>3. prompt \in Prompts \ {"rebuild"} /\ "mode" \in Prompts /\ UNCHANGED confirmed
    BY <1>4 DEF PickIntensity, Prompts
  <2> DEFINE a == [answers EXCEPT !.option = [@ EXCEPT !["resources"] = r]]
  <2>4. /\ a \in AnswersOf /\ a.mode = answers.mode
        /\ a.option["embed_provider"] \in ProviderChoices(host)
    BY <1>1, <2>1, <2>2, <2>3, AnswerChanged
  <2>5. Answer("mode", a)
    BY <2>1
  <2> HIDE DEF a
  <2> QED
    BY <1>1, <1>2, <2>1, <2>2, <2>3, <2>4, <2>5, AnswerKeeps
<1>5. CASE PickMode
  <2>1. PICK m \in ModeChoices :
          Answer(IF m = "rebuild" THEN "rebuild" ELSE "knobs", [answers EXCEPT !.mode = m])
    BY <1>5 DEF PickMode, ModeChoices
  <2>2. /\ [answers EXCEPT !.mode = m] \in AnswersOf
        /\ [answers EXCEPT !.mode = m].mode = m
        /\ [answers EXCEPT !.mode = m].option = answers.option
    BY <1>1 DEF AnswersOf
  <2>3. prompt \in Prompts /\ {"rebuild", "knobs"} \subseteq Prompts
    BY <1>5 DEF PickMode, Prompts
  <2> QED
    BY <1>1, <2>1, <2>2, <2>3, AnswerKeeps
<1>6. CASE ConfirmRebuild
  <2>1. PICK yes \in BOOLEAN :
          /\ Answer("knobs", [answers EXCEPT !.mode = IF yes THEN @ ELSE "standard"])
          /\ confirmed' = yes
    BY <1>6 DEF ConfirmRebuild
  <2> DEFINE a == [answers EXCEPT !.mode = IF yes THEN @ ELSE "standard"]
  <2>2. /\ a \in AnswersOf /\ a.option = answers.option
        /\ a.mode = "rebuild" => yes
    BY <1>1 DEF AnswersOf, ModeChoices
  <2>3. prompt \in Prompts /\ "knobs" \in Prompts
    BY <1>6 DEF ConfirmRebuild, Prompts
  <2> QED
    BY <1>1, <2>1, <2>2, <2>3, AnswerKeeps
<1>7. CASE Knobs
  <2>1. PICK yes \in BOOLEAN : Answer(IF yes THEN "threads" ELSE "run", answers)
    BY <1>7 DEF Knobs
  <2>2. prompt \in Prompts \ {"rebuild"} /\ {"threads", "run"} \subseteq Prompts /\ UNCHANGED confirmed
    BY <1>7 DEF Knobs, Prompts
  <2> QED
    BY <1>1, <1>2, <2>1, <2>2, AnswerKeeps
<1>8. CASE PickKnob
  <2>1. PICK v \in Values(prompt) \union {DefaultOf(prompt)} :
          Answer(AfterKnob(prompt), [answers EXCEPT !.option = [@ EXCEPT ![prompt] = v]])
    BY <1>8 DEF PickKnob
  <2>2. /\ prompt \in Settings \ {"embed_provider"} /\ prompt \in Prompts \ {"rebuild"}
        /\ AfterKnob(prompt) \in Prompts /\ UNCHANGED confirmed
    BY <1>8 DEF PickKnob, Settings, Sizes, Prompts, AfterKnob
  <2> DEFINE a == [answers EXCEPT !.option = [@ EXCEPT ![prompt] = v]]
  <2>4. /\ a \in AnswersOf /\ a.mode = answers.mode
        /\ a.option["embed_provider"] \in ProviderChoices(host)
    BY <1>1, <2>1, <2>2, AnswerChanged
  <2>5. Answer(AfterKnob(prompt), a)
    BY <2>1
  <2> HIDE DEF a
  <2> QED
    BY <1>1, <1>2, <2>1, <2>2, <2>4, <2>5, AnswerKeeps
<1>9. CASE PickSwitch
  <2>1. PICK t \in SUBSET {prompt} :
          Answer(IF prompt = "profile" THEN "run" ELSE "profile",
                 [answers EXCEPT !.switches = @ \union t])
    BY <1>9 DEF PickSwitch
  <2>2. /\ prompt \in {"no_progress", "profile"} /\ prompt \in Prompts \ {"rebuild"}
        /\ {"run", "profile"} \subseteq Prompts /\ UNCHANGED confirmed
    BY <1>9 DEF PickSwitch, Prompts
  <2>3. answers.switches \union t \subseteq {"no_progress", "profile"}
    BY <1>1, <2>2 DEF AnswersOf
  <2>4. /\ [answers EXCEPT !.switches = @ \union t] \in AnswersOf
        /\ [answers EXCEPT !.switches = @ \union t].mode = answers.mode
        /\ [answers EXCEPT !.switches = @ \union t].option = answers.option
    BY <1>1, <2>3 DEF AnswersOf
  <2> QED
    BY <1>1, <1>2, <2>1, <2>2, <2>4, AnswerKeeps
<1> QED
  BY <1>3, <1>4, <1>5, <1>6, <1>7, <1>8, <1>9

LEMMA LeavingKeeps ==
  ASSUME OptionsInv, Cancel \/ RunNow \/ PrintOnly \/ Paste
  PROVE  OptionsInv'
<1>1. CASE Cancel
  BY <1>1 DEF OptionsInv, ArgsInv, WizardInv, Cancel, Prompts
<1>2. CASE RunNow
  <2>1. answers \in AnswersOf /\ base.path \in Targets
    BY <1>2 DEF RunNow, OptionsInv, WizardInv, Prompts
  <2>2. Assembled(answers, base).option \in SettingsOf
    BY <2>1, AssembledIs
  <2>3. args' = Assembled(answers, base)
    BY <1>2 DEF RunNow
  <2> QED
    BY <1>2, <2>1, <2>2, <2>3 DEF OptionsInv, ArgsInv, WizardInv, RunNow, Prompts
<1>3. CASE PrintOnly
  <2>1. base.path \in Targets
    BY <1>3 DEF PrintOnly, OptionsInv, WizardInv, Prompts
  <2> QED
    BY <1>3, <2>1 DEF OptionsInv, ArgsInv, WizardInv, PrintOnly, Prompts
<1>4. CASE Paste
  BY <1>4 DEF OptionsInv, ArgsInv, WizardInv, Paste, Prompts
<1> QED
  BY <1>1, <1>2, <1>3, <1>4

LEMMA RunningKeeps ==
  ASSUME OptionsInv, RefuseRebuild \/ Run \/ Type
  PROVE  OptionsInv'
<1>1. CASE RefuseRebuild
  <2>1. ~ guided
    <3>1. ASSUME guided PROVE FALSE
      <4>1. answers \in AnswersOf /\ args = Assembled(answers, base)
        BY <1>1, <3>1 DEF RefuseRebuild, OptionsInv, ArgsInv, WizardInv
      <4> QED
        BY <1>1, <4>1, AssembledIs DEF RefuseRebuild
    <3> QED
      BY <3>1
  <2> QED
    BY <1>1, <2>1 DEF OptionsInv, ArgsInv, WizardInv, RefuseRebuild, Prompts
<1>2. CASE Run
  BY <1>2 DEF OptionsInv, ArgsInv, WizardInv, Run, Prompts
<1>3. CASE Type
  <2>1. "auto" \in ProviderChoices(host)
    BY DEF ProviderChoices
  <2>2. NoAnswers.mode = "standard"
    BY DEF NoAnswers
  <2> QED
    BY <1>3, <2>1, <2>2, NoAnswersAre DEF OptionsInv, ArgsInv, WizardInv, Type, Prompts
<1> QED
  BY <1>1, <1>2, <1>3

(* Whatever the answers and the machine, an `ohara index` runs with the options that
   were agreed to, at once or pasted. *)
THEOREM AgreedHolds == OptionsSpec => []RunsAsAgreed
<1>1. OptionsInv /\ [OptionsNext]_optionVars => OptionsInv'
  <2> SUFFICES ASSUME OptionsInv, [OptionsNext]_optionVars PROVE OptionsInv'
    OBVIOUS
  <2>1. CASE UNCHANGED optionVars
    BY <2>1 DEF optionVars, OptionsInv, ArgsInv, WizardInv
  <2>2. CASE OptionsNext
    BY <2>2, ParsingKeeps, AnsweringKeeps, LeavingKeeps, RunningKeeps DEF OptionsNext
  <2> QED
    BY <2>1, <2>2
<1> QED
  BY <1>1, OptionsInitially, AgreedFromInv, PTL DEF OptionsSpec

================================================================================
