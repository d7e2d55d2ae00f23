-------------------------- MODULE EngineCache_proofs --------------------------
(***************************************************************************)
(* Proofs about EngineCache, for any number of requests, index runs,       *)
(* rebuilds and lost notifications: who runs on which handle, which file a *)
(* handle reads, and what the two caches may still say of it.  And         *)
(* ModelCalls, for any batch size, texts and users of a session: each      *)
(* answer is of its own texts, in their places, and of one shape.          *)
(***************************************************************************)
EXTENDS EngineCache, ModelCalls, SequenceTheorems, TLAPS

(* A request's own step, of whatever kind, and how it may change the handles
   and the connections. *)
Opens(r) == OpenHit(r) \/ OpenStorage(r) \/ Insert(r)

(* What the index process does to the engine or behind its back. *)
IndexStep == Rebuild \/ IndexDone \/ NotifyLost \/ DropHandle \/ DropMeta \/ DropBlame

LEMMA TypeOKInit == Init => TypeOK
<1> SUFFICES ASSUME Init PROVE TypeOK
  OBVIOUS
<1> USE EngineAssumption DEF Init
<1>1. file \in [Gens -> Contents]
  BY DEF Gens, Contents
<1>2. /\ gen \in Gens /\ runs \in 1..MaxRuns /\ lostRuns \in 0..MaxLost
      /\ moves \in 0..MaxMoves /\ head \in Heads
  BY DEF Gens
<1>3. kind \in [Requests -> {"find", "status", "explain"}] /\ range \in [Requests -> Ranges]
  OBVIOUS
<1> QED
  BY <1>1, <1>2, <1>3 DEF TypeOK, Steps

(* The index process keeps the types: a rebuild and a completed run stay
   within their bounds. *)
LEMMA IndexStepKeepsTypes ==
  ASSUME TypeOK, IndexStep
  PROVE  TypeOK'
<1> USE EngineAssumption DEF TypeOK, Gens, git, caches, request
<1>1. CASE Rebuild
  <2>1. gen' \in 0..MaxRuns /\ 0..gen \subseteq 0..gen'
    BY <1>1 DEF Rebuild
  <2> QED
    BY <1>1, <2>1 DEF Rebuild
<1>2. CASE IndexDone
  <2>1. PICK b \in BOOLEAN : file' = [file EXCEPT ![gen] = [ver |-> runs + 1, foreign |-> b]]
    BY <1>2 DEF IndexDone
  <2>2. runs' \in 1..MaxRuns /\ [ver |-> runs + 1, foreign |-> b] \in Contents
    BY <1>2 DEF IndexDone, Contents
  <2>3. file' \in [Gens -> Contents]
    BY <2>1, <2>2
  <2> QED
    BY <1>2, <2>2, <2>3 DEF IndexDone
<1>3. CASE NotifyLost
  BY <1>3 DEF NotifyLost
<1>4. CASE DropHandle
  BY <1>4 DEF DropHandle
<1>5. CASE DropMeta
  BY <1>5 DEF DropMeta
<1>6. CASE DropBlame
  BY <1>6 DEF DropBlame
<1> QED
  BY <1>1, <1>2, <1>3, <1>4, <1>5, <1>6 DEF IndexStep

(* An answer is of a type its reader knows, and leaves nothing held. *)
LEMMA AnswerKeepsTypes ==
  ASSUME TypeOK, NEW r \in Requests,
         NEW a \in Contents \union Blames \union {None, Refused, Error},
         Answer(r, a),
         UNCHANGED <<index, git, repos, meta, blame, kind, range, evicted, missed,
                     metaBy, late, crossed>>,
         conns' \in [Requests -> SUBSET (0..gen)], calm' \subseteq Requests
  PROVE  TypeOK'
BY DEF TypeOK, Answer, Goto, Steps, index, git

LEMMA ReadsKeepsTypes ==
  ASSUME TypeOK, NEW r \in Requests, at[r] \notin {"open", "done"}, NEW g \in Gens, Reads(r, g)
  PROVE  conns' \in [Requests -> SUBSET (0..gen)] /\ file[g] \in Contents
<1>1. handle[r] \in Requests /\ gen \in 0..gen
  BY EngineAssumption DEF TypeOK, Gens
<1>2. g \in 0..gen
  BY <1>1 DEF TypeOK, Reads
<1> QED
  BY <1>1, <1>2 DEF TypeOK, Reads

LEMMA OpensKeepsTypes ==
  ASSUME TypeOK, NEW r \in Requests, Opens(r)
  PROVE  TypeOK'
<1> USE EngineAssumption DEF TypeOK, Goto, AfterOpen, Steps, index, git, caches, history, Begin
<1>1. CASE OpenHit(r)
  BY <1>1 DEF OpenHit
<1>2. CASE OpenStorage(r)
  BY <1>2 DEF OpenStorage
<1>3. CASE Insert(r)
  BY <1>3 DEF Insert
<1> QED
  BY <1>1, <1>2, <1>3 DEF Opens

LEMMA MetaKeepsTypes ==
  ASSUME TypeOK, NEW r \in Requests,
         MetaHit(r) \/ MetaMiss(r) \/ MetaCompose(r) \/ MetaPut(r)
  PROVE  TypeOK'
<1> USE EngineAssumption DEF Goto, Steps, index, git, caches, history
<1>1. ASSUME NEW m \in Contents, at[r] \in {"meta", "put"}, GoesBy(r, m),
             UNCHANGED <<index, git, repos, conns, blame, kind, range, evicted, missed,
                         late, crossed>>,
             meta' \in Contents \union {None}, metaBy' \in Requests \union {None},
             calm' \subseteq Requests
      PROVE  TypeOK'
  BY <1>1 DEF TypeOK, GoesBy, Answer
<1>2. CASE MetaHit(r)
  BY <1>1, <1>2 DEF MetaHit, TypeOK
<1>3. CASE MetaMiss(r)
  BY <1>3 DEF MetaMiss, TypeOK
<1>4. CASE MetaCompose(r)
  <2>1. PICK g \in Gens : Reads(r, g) /\ seen' = [seen EXCEPT ![r] = file[g]]
    BY <1>4 DEF MetaCompose
  <2>2. conns' \in [Requests -> SUBSET (0..gen)] /\ file[g] \in Contents
    BY <1>4, <2>1, ReadsKeepsTypes DEF MetaCompose
  <2> QED
    BY <1>4, <2>1, <2>2 DEF MetaCompose, TypeOK
<1>5. CASE MetaPut(r)
  BY <1>1, <1>5 DEF MetaPut, TypeOK
<1> QED
  BY <1>2, <1>3, <1>4, <1>5

LEMMA RetrieveKeepsTypes ==
  ASSUME TypeOK, NEW r \in Requests, Refuse(r) \/ Retrieve(r) \/ Hydrate(r) \/ Fails(r)
  PROVE  TypeOK'
<1> USE DEF index, git, caches, history
<1>1. CASE Refuse(r)
  BY <1>1, AnswerKeepsTypes DEF Refuse, TypeOK
<1>2. CASE Retrieve(r)
  <2>1. PICK g \in Gens : Reads(r, g) /\ Answer(r, file[g])
    BY <1>2 DEF Retrieve
  <2>2. conns' \in [Requests -> SUBSET (0..gen)] /\ file[g] \in Contents
    BY <1>2, <2>1, ReadsKeepsTypes DEF Retrieve
  <2> QED
    BY <1>2, <2>1, <2>2, AnswerKeepsTypes DEF Retrieve, TypeOK
<1>3. CASE Hydrate(r)
  <2>1. PICK g \in Gens : Reads(r, g)
    BY <1>3 DEF Hydrate
  <2>2. conns' \in [Requests -> SUBSET (0..gen)]
    BY <1>3, <2>1, ReadsKeepsTypes DEF Hydrate
  <2>3. seen[r] \in Blames
    BY <1>3 DEF Hydrate, TypeOK
  <2> QED
    BY <1>3, <2>2, <2>3, AnswerKeepsTypes DEF Hydrate, TypeOK
<1>4. CASE Fails(r)
  BY <1>4, AnswerKeepsTypes DEF Fails, TypeOK
<1> QED
  BY <1>1, <1>2, <1>3, <1>4

LEMMA BlameKeepsTypes ==
  ASSUME TypeOK, NEW r \in Requests,
         Hash(r) \/ BlameHit(r) \/ BlameMiss(r) \/ BlameRange(r) \/ BlamePut(r)
  PROVE  TypeOK'
<1> USE EngineAssumption DEF TypeOK, Goto, Steps, index, git, caches, history
<1>1. CASE Hash(r)
  <2>1. Blob[head] \in Blobs \union {None}
    BY DEF Blobs
  <2> QED
    BY <1>1, <2>1 DEF Hash
<1>2. CASE BlameHit(r)
  BY <1>2 DEF BlameHit
<1>3. CASE BlameMiss(r)
  BY <1>3 DEF BlameMiss
<1>4. CASE BlameRange(r)
  <2>1. [head |-> head, lines |-> IF Blob[head] = None THEN {} ELSE range[r]] \in Blames
    BY DEF Blames
  <2> QED
    BY <1>4, <2>1 DEF BlameRange
<1>5. CASE BlamePut(r)
  BY <1>5 DEF BlamePut
<1> QED
  BY <1>1, <1>2, <1>3, <1>4, <1>5

LEMMA TypeOKStep == TypeOK /\ [Next]_vars => TypeOK'
<1> SUFFICES ASSUME TypeOK, [Next]_vars PROVE TypeOK'
  OBVIOUS
<1>1. CASE IndexStep
  BY <1>1, IndexStepKeepsTypes
<1>2. CASE MoveHead
  BY <1>2, EngineAssumption DEF MoveHead, TypeOK, index, caches, request, history
<1>3. CASE MetaExpires \/ \E b \in Blobs : BlameEvicted(b)
  BY <1>3 DEF MetaExpires, BlameEvicted, TypeOK, index, git, request, history
<1>4. ASSUME NEW r \in Requests, RequestStep(r)
      PROVE  TypeOK'
  BY <1>4, OpensKeepsTypes, MetaKeepsTypes, RetrieveKeepsTypes, BlameKeepsTypes
  DEF RequestStep, Opens
<1>5. CASE UNCHANGED vars
  BY <1>5 DEF vars, index, git, caches, request, history, TypeOK
<1> QED
  BY <1>1, <1>2, <1>3, <1>4, <1>5 DEF Next, IndexStep

(* Every variable stays in its type, and a request has in hand what its next
   step needs. *)
THEOREM TypeCorrect == Spec => []TypeOK
BY TypeOKInit, TypeOKStep, PTL DEF Spec

----------------------------------------------------------------------------
(* Who runs on which handle. *)

(* Until a request inserts its handle nobody else knows of it and its pool has
   no connection; a handle once dropped stays dropped. *)
HandleInv ==
  /\ \A r \in Requests : at[r] \in {"open", "insert"} =>
       /\ r \notin evicted /\ repos # r /\ conns[r] = {}
       /\ \A s \in Requests \ {r} : handle[s] # r
  /\ \A r \in Requests : at[r] = "insert" => handle[r] = r
  /\ repos \notin evicted
  /\ OneHandle

(* Requests that neither open nor answer, and whatever goes on around them. *)
LEMMA HandleFrame ==
  ASSUME TypeOK, HandleInv, UNCHANGED <<repos, evicted>>,
         \A r \in Requests : handle'[r] = handle[r] \/ (handle'[r] = None /\ at'[r] = "done"),
         \A r \in Requests : at'[r] \in {"open", "insert"} => at'[r] = at[r],
         \A r \in Requests : at[r] = "insert" => at'[r] = "insert",
         \A r \in Requests : at[r] \in {"open", "insert"} => conns'[r] = conns[r]
  PROVE  HandleInv'
BY EngineAssumption DEF TypeOK, HandleInv, OneHandle

LEMMA OpensKeepsHandles ==
  ASSUME TypeOK, HandleInv, NEW r \in Requests, Opens(r)
  PROVE  HandleInv'
<1> USE EngineAssumption DEF TypeOK, HandleInv, OneHandle, Goto, AfterOpen
<1>1. CASE OpenHit(r)
  BY <1>1 DEF OpenHit, caches
<1>2. CASE OpenStorage(r)
  BY <1>2 DEF OpenStorage, caches
<1>3. CASE Insert(r)
  BY <1>3 DEF Insert, history
<1> QED
  BY <1>1, <1>2, <1>3 DEF Opens

(* A query uses the pool of its own handle alone. *)
LEMMA QueryKeepsHandles ==
  ASSUME TypeOK, HandleInv, NEW r \in Requests, RequestStep(r), ~Opens(r)
  PROVE  HandleInv'
<1>1. /\ UNCHANGED <<repos, evicted>>
      /\ at[r] = "insert" => FALSE
      /\ \A s \in Requests \ {r} : at'[s] = at[s] /\ handle'[s] = handle[s]
      /\ at'[r] \notin {"open", "insert"}
      /\ handle'[r] = handle[r] \/ (handle'[r] = None /\ at'[r] = "done")
  <2> USE DEF TypeOK, Goto, caches, history
  <2>1. CASE MetaHit(r) \/ MetaPut(r)
    BY <2>1 DEF MetaHit, MetaPut, GoesBy, Answer
  <2>2. CASE MetaMiss(r) \/ MetaCompose(r)
    BY <2>2 DEF MetaMiss, MetaCompose
  <2>3. CASE Refuse(r) \/ Retrieve(r) \/ Hydrate(r) \/ Fails(r)
    BY <2>3 DEF Refuse, Retrieve, Hydrate, Fails, Answer
  <2>4. CASE Hash(r) \/ BlameHit(r) \/ BlameMiss(r) \/ BlameRange(r) \/ BlamePut(r)
    BY <2>4 DEF Hash, BlameHit, BlameMiss, BlameRange, BlamePut
  <2> QED
    BY <2>1, <2>2, <2>3, <2>4 DEF RequestStep, Opens
<1>2. \/ conns' = conns
      \/ at[r] \notin {"open", "done"} /\ \E g \in Gens : Reads(r, g)
  BY DEF RequestStep, Opens, MetaHit, MetaMiss, MetaCompose, MetaPut, Refuse,
         Retrieve, Hash, BlameHit, BlameMiss, BlameRange, BlamePut, Hydrate, Fails, caches
<1>3. \A s \in Requests : at[s] \in {"open", "insert"} => conns'[s] = conns[s]
  BY <1>1, <1>2, EngineAssumption DEF HandleInv, Reads, TypeOK
<1> QED
  BY <1>1, <1>3, HandleFrame

LEMMA HandleInvStep == TypeOK /\ HandleInv /\ [Next]_vars => HandleInv'
<1> SUFFICES ASSUME TypeOK, HandleInv, [Next]_vars PROVE HandleInv'
  OBVIOUS
<1>1. CASE DropHandle
  BY <1>1, EngineAssumption DEF DropHandle, HandleInv, OneHandle, TypeOK, request
<1>2. CASE \/ Rebuild \/ IndexDone \/ NotifyLost \/ DropMeta \/ DropBlame \/ MoveHead
           \/ MetaExpires \/ (\E b \in Blobs : BlameEvicted(b)) \/ UNCHANGED vars
  <2>1. UNCHANGED <<repos, evicted, conns, at, handle>>
    BY <1>2 DEF Rebuild, IndexDone, NotifyLost, DropMeta, DropBlame, MoveHead, MetaExpires,
                BlameEvicted, vars, caches, request, history
  <2> QED
    BY <2>1, HandleFrame
<1>3. ASSUME NEW r \in Requests, RequestStep(r)
      PROVE  HandleInv'
  BY <1>3, OpensKeepsHandles, QueryKeepsHandles
<1> QED
  BY <1>1, <1>2, <1>3 DEF Next

LEMMA HandleInvInit == Init => HandleInv
BY EngineAssumption DEF Init, HandleInv, OneHandle

LEMMA HandlesAlways == Spec => [](TypeOK /\ HandleInv)
BY TypeOKInit, TypeOKStep, HandleInvInit, HandleInvStep, PTL DEF Spec

(* However many requests open the repository at once, all of them end up on
   the handle in the map. *)
THEOREM OneHandleHolds == Spec => []OneHandle
<1>1. HandleInv => OneHandle
  BY DEF HandleInv
<1> QED
  BY <1>1, HandlesAlways, PTL

----------------------------------------------------------------------------
(* Which file a handle reads, and what its metas are worth. *)

(* The engine has heard of everything that has happened to the index. *)
Heard == run \notin {"writing", "notify"} /\ ~missed

(* Requests whose handle was dropped are in `late`, but for those the
   invalidation under way has not come to; a meta on its way into the cache,
   or in it, is the current one's or theirs. *)
MetaInv ==
  /\ CurrentFile
  /\ run # "dropMeta" => \A r \in Requests : handle[r] \in evicted => r \in late
  /\ run \in {"none", "dropBlame"} /\ ~missed =>
       \A r \in Requests : at[r] = "put" => seen[r] = file[gen] \/ r \in late
  /\ MetaExplained

(* Where the steps of a find_pattern that nothing has disturbed may be, and
   with what in hand. *)
CalmInv ==
  /\ calm # {} => run = "none" /\ ~missed
  /\ \A r \in Requests :
       /\ kind[r] = "find" => at[r] \notin {"hash", "lookup", "blame", "keep", "hydrate"}
       /\ at[r] # "done" => out[r] = None
       /\ at[r] = "open" => r \notin late \union calm
  /\ \A r \in calm :
       /\ r \notin late
       /\ at[r] = "retrieve" => seen[r] = file[gen]
  /\ CalmFindIsCurrent

(* The ranges a request is about to keep. *)
BlameInv ==
  /\ \A r \in Requests : at[r] = "keep" =>
       Blob[seen[r].head] = hash[r] \/ hash[r] \in crossed
  /\ BlameExplained

IndInv == HandleInv /\ MetaInv /\ CalmInv /\ BlameInv

LEMMA IndInvInit == Init => IndInv
<1> SUFFICES ASSUME Init PROVE IndInv
  OBVIOUS
<1>1. MetaInv
  BY EngineAssumption DEF Init, MetaInv, CurrentFile, MetaExplained
<1>2. CalmInv
  BY DEF Init, CalmInv, CalmFindIsCurrent
<1>3. BlameInv
  BY DEF Init, BlameInv, BlameExplained
<1> QED
  BY <1>1, <1>2, <1>3, HandleInvInit DEF IndInv

(* The index process: what it changes nobody has heard of until the handle is
   dropped, and then the metas read before are late. *)
LEMMA IndexStepKeepsMeta ==
  ASSUME TypeOK, HandleInv, MetaInv, CalmInv, IndexStep
  PROVE  MetaInv' /\ CalmInv'
<1> USE EngineAssumption DEF TypeOK, MetaInv, CalmInv, CurrentFile, MetaExplained,
        CalmFindIsCurrent, git, caches, request
<1>1. CASE Rebuild
  BY <1>1 DEF Rebuild
<1>2. CASE IndexDone
  BY <1>2 DEF IndexDone
<1>3. CASE NotifyLost
  BY <1>3 DEF NotifyLost
<1>4. CASE DropHandle
  BY <1>4 DEF DropHandle
<1>5. CASE DropMeta
  BY <1>5 DEF DropMeta
<1>6. CASE DropBlame
  BY <1>6 DEF DropBlame
<1> QED
  BY <1>1, <1>2, <1>3, <1>4, <1>5, <1>6 DEF IndexStep

(* A handle in the map has an empty pool, or one that reads the current file. *)
LEMMA OpensKeepsMeta ==
  ASSUME TypeOK, HandleInv, MetaInv, CalmInv, NEW r \in Requests, Opens(r)
  PROVE  MetaInv' /\ CalmInv'
<1> USE EngineAssumption DEF TypeOK, HandleInv, MetaInv, CalmInv, CurrentFile, MetaExplained,
        CalmFindIsCurrent, Goto, AfterOpen, Begin, index, git, caches, history
<1>1. CASE OpenHit(r)
  BY <1>1 DEF OpenHit
<1>2. CASE OpenStorage(r)
  BY <1>2 DEF OpenStorage
<1>3. CASE Insert(r)
  BY <1>3 DEF Insert
<1> QED
  BY <1>1, <1>2, <1>3 DEF Opens

(* Once the engine has heard of the last run, a request reads the current file,
   or it has a dropped handle. *)
LEMMA ReadsCurrent ==
  ASSUME TypeOK, HandleInv, MetaInv, NEW r \in Requests,
         at[r] \notin {"open", "insert", "done"}, NEW g \in Gens, Reads(r, g),
         Heard, run # "dropMeta"
  PROVE  g = gen \/ r \in late
<1>1. handle[r] # None
  BY DEF TypeOK
<1>2. handle[r] = repos \/ r \in late
  BY <1>1 DEF HandleInv, OneHandle, MetaInv
<1>3. handle[r] = repos => conns[handle[r]] \subseteq {gen}
  BY <1>1 DEF MetaInv, CurrentFile, Heard
<1> QED
  BY <1>2, <1>3 DEF Reads

LEMMA ReadsKeepsCurrent ==
  ASSUME TypeOK, HandleInv, CurrentFile, NEW r \in Requests,
         at[r] \notin {"open", "insert", "done"}, NEW g \in Gens, Reads(r, g),
         UNCHANGED <<run, missed, gen, repos>>
  PROVE  CurrentFile'
BY DEF TypeOK, CurrentFile, Reads

LEMMA MetaKeepsMeta ==
  ASSUME TypeOK, HandleInv, MetaInv, CalmInv, NEW r \in Requests,
         MetaHit(r) \/ MetaMiss(r) \/ MetaCompose(r) \/ MetaPut(r)
  PROVE  MetaInv' /\ CalmInv'
<1> USE EngineAssumption DEF index, git, caches, history, Goto
<1>1. CASE MetaHit(r)
  BY <1>1 DEF MetaHit, GoesBy, Answer, TypeOK, MetaInv, CalmInv, CurrentFile, MetaExplained,
              CalmFindIsCurrent
<1>2. CASE MetaMiss(r)
  BY <1>2 DEF MetaMiss, TypeOK, MetaInv, CalmInv, CurrentFile, MetaExplained,
              CalmFindIsCurrent
<1>3. CASE MetaCompose(r)
  <2>1. PICK g \in Gens : Reads(r, g) /\ seen' = [seen EXCEPT ![r] = file[g]]
    BY <1>3 DEF MetaCompose
  <2>2. CurrentFile'
    BY <1>3, <2>1, ReadsKeepsCurrent DEF MetaCompose, MetaInv
  <2>3. run \in {"none", "dropBlame"} /\ ~missed => g = gen \/ r \in late
    BY <1>3, <2>1, ReadsCurrent DEF MetaCompose, Heard
  <2> QED
    BY <1>3, <2>1, <2>2, <2>3 DEF MetaCompose, TypeOK, MetaInv, CalmInv, MetaExplained,
                                 CalmFindIsCurrent
<1>4. CASE MetaPut(r)
  BY <1>4 DEF MetaPut, GoesBy, Answer, TypeOK, MetaInv, CalmInv, CurrentFile, MetaExplained,
              CalmFindIsCurrent
<1> QED
  BY <1>1, <1>2, <1>3, <1>4

LEMMA RetrieveKeepsMeta ==
  ASSUME TypeOK, HandleInv, MetaInv, CalmInv, NEW r \in Requests,
         Refuse(r) \/ Retrieve(r) \/ Hydrate(r) \/ Fails(r)
  PROVE  MetaInv' /\ CalmInv'
<1> USE EngineAssumption DEF index, git, caches, history, Goto
<1>1. CASE Refuse(r) \/ Fails(r)
  BY <1>1 DEF Refuse, Fails, Answer, TypeOK, MetaInv, CalmInv, CurrentFile, MetaExplained,
              CalmFindIsCurrent
<1>2. CASE Retrieve(r)
  <2>1. PICK g \in Gens : Reads(r, g) /\ Answer(r, file[g])
    BY <1>2 DEF Retrieve
  <2>2. CurrentFile'
    BY <1>2, <2>1, ReadsKeepsCurrent DEF Retrieve, MetaInv
  <2>3. r \in calm => g = gen
    BY <1>2, <2>1, ReadsCurrent DEF Retrieve, Heard, CalmInv
  <2> QED
    BY <1>2, <2>1, <2>2, <2>3 DEF Retrieve, Answer, TypeOK, MetaInv, CalmInv, MetaExplained,
                                  CalmFindIsCurrent
<1>3. CASE Hydrate(r)
  <2>1. PICK g \in Gens : Reads(r, g)
    BY <1>3 DEF Hydrate
  <2>2. CurrentFile'
    BY <1>3, <2>1, ReadsKeepsCurrent DEF Hydrate, MetaInv
  <2> QED
    BY <1>3, <2>1, <2>2 DEF Hydrate, Answer, TypeOK, MetaInv, CalmInv, MetaExplained,
                            CalmFindIsCurrent
<1> QED
  BY <1>1, <1>2, <1>3

LEMMA BlameKeepsMeta ==
  ASSUME TypeOK, MetaInv, CalmInv, NEW r \in Requests,
         Hash(r) \/ BlameHit(r) \/ BlameMiss(r) \/ BlameRange(r) \/ BlamePut(r)
  PROVE  MetaInv' /\ CalmInv'
<1> USE DEF TypeOK, MetaInv, CalmInv, CurrentFile, MetaExplained, CalmFindIsCurrent,
            index, git, caches, history, Goto
<1>1. CASE Hash(r)
  BY <1>1 DEF Hash
<1>2. CASE BlameHit(r) \/ BlameMiss(r)
  BY <1>2 DEF BlameHit, BlameMiss
<1>3. CASE BlameRange(r)
  BY <1>3 DEF BlameRange
<1>4. CASE BlamePut(r)
  BY <1>4 DEF BlamePut
<1> QED
  BY <1>1, <1>2, <1>3, <1>4

(* Ranges are kept under the blob that was hashed, and the blame is of the
   commit HEAD named then. *)
LEMMA BlameInvStep ==
  ASSUME TypeOK, BlameInv, [Next]_vars
  PROVE  BlameInv'
<1> USE DEF TypeOK, BlameInv, BlameExplained
<1>1. CASE IndexStep \/ MoveHead \/ MetaExpires \/ UNCHANGED vars
  BY <1>1 DEF IndexStep, Rebuild, IndexDone, NotifyLost, DropHandle, DropMeta, DropBlame,
              MoveHead, MetaExpires, vars, caches, request, history
<1>2. ASSUME NEW b \in Blobs, BlameEvicted(b)
      PROVE  BlameInv'
  BY <1>2 DEF BlameEvicted, request, history
<1>3. ASSUME NEW r \in Requests, RequestStep(r)
      PROVE  BlameInv'
  <2> USE DEF Goto, index, git, caches, history
  <2>1. CASE Opens(r)
    BY <2>1 DEF Opens, OpenHit, OpenStorage, Insert, AfterOpen
  <2>2. CASE MetaHit(r) \/ MetaMiss(r) \/ MetaCompose(r) \/ MetaPut(r)
    BY <2>2 DEF MetaHit, MetaMiss, MetaCompose, MetaPut, GoesBy, Answer
  <2>3. CASE Refuse(r) \/ Retrieve(r) \/ Hydrate(r) \/ Fails(r)
    BY <2>3 DEF Refuse, Retrieve, Hydrate, Fails, Answer
  <2>4. CASE Hash(r) \/ BlameHit(r) \/ BlameMiss(r)
    BY <2>4 DEF Hash, BlameHit, BlameMiss
  <2>5. CASE BlameRange(r)
    BY <2>5 DEF BlameRange
  <2>6. CASE BlamePut(r)
    BY <2>6 DEF BlamePut
  <2> QED
    BY <1>3, <2>1, <2>2, <2>3, <2>4, <2>5, <2>6 DEF RequestStep, Opens
<1> QED
  BY <1>1, <1>2, <1>3 DEF Next, IndexStep

LEMMA IndInvStep == TypeOK /\ IndInv /\ [Next]_vars => IndInv'
<1> SUFFICES ASSUME TypeOK, IndInv, [Next]_vars PROVE IndInv'
  OBVIOUS
<1> USE DEF IndInv
<1>1. HandleInv' /\ BlameInv'
  BY HandleInvStep, BlameInvStep
<1>2. CASE IndexStep
  BY <1>1, <1>2, IndexStepKeepsMeta
<1>3. CASE MoveHead \/ UNCHANGED vars \/ \E b \in Blobs : BlameEvicted(b)
  <2>1. UNCHANGED <<gen, file, run, repos, conns, meta, request, missed, metaBy, late, calm,
                    evicted>>
    BY <1>3 DEF MoveHead, BlameEvicted, vars, index, caches, history
  <2> QED
    BY <1>1, <2>1 DEF request, MetaInv, CalmInv, CurrentFile, MetaExplained, CalmFindIsCurrent
<1>4. CASE MetaExpires
  BY <1>1, <1>4 DEF MetaExpires, index, request, MetaInv, CalmInv, CurrentFile, MetaExplained,
                    CalmFindIsCurrent
<1>5. ASSUME NEW r \in Requests, RequestStep(r)
      PROVE  IndInv'
  BY <1>1, <1>5, OpensKeepsMeta, MetaKeepsMeta, RetrieveKeepsMeta, BlameKeepsMeta
  DEF RequestStep, Opens
<1> QED
  BY <1>2, <1>3, <1>4, <1>5 DEF Next, IndexStep

LEMMA IndInvAlways == Spec => [](TypeOK /\ IndInv)
BY TypeOKInit, TypeOKStep, IndInvInit, IndInvStep, PTL DEF Spec

(* Once an index run has been heard of, the handle in the map reads the
   current database file and no deleted one. *)
THEOREM CurrentFileHolds == Spec => []CurrentFile
<1>1. IndInv => CurrentFile
  BY DEF IndInv, MetaInv
<1> QED
  BY <1>1, IndInvAlways, PTL

(* A cached meta is the current index's, or was put by a request that had read
   before the invalidation or holds the handle it dropped. *)
THEOREM MetaExplainedHolds == Spec => []MetaExplained
<1>1. IndInv => MetaExplained
  BY DEF IndInv, MetaInv
<1> QED
  BY <1>1, IndInvAlways, PTL

(* An undisturbed find_pattern answers from the current index, or refuses. *)
THEOREM CalmFindHolds == Spec => []CalmFindIsCurrent
<1>1. IndInv => CalmFindIsCurrent
  BY DEF IndInv, CalmInv
<1> QED
  BY <1>1, IndInvAlways, PTL

(* Cached ranges are those of the blob they are filed under, unless HEAD moved
   between its hash and its blame. *)
THEOREM BlameExplainedHolds == Spec => []BlameExplained
<1>1. IndInv => BlameExplained
  BY DEF IndInv, BlameInv
<1> QED
  BY <1>1, IndInvAlways, PTL

----------------------------------------------------------------------------
(* A loaded model at work. *)

Text == STRING \X (Nat \ {0})
VectorOf == {Vector(t) : t \in Text}

(* The vectors a thread has got are those of the first of its texts. *)
InFront(c) ==
  /\ Len(call[c].out) <= Len(call[c].texts)
  /\ \A i \in 1..Len(call[c].out) : call[c].out[i] = Vector(call[c].texts[i])

AnswerInPlace(c) ==
  answer[c].kind = "ok" =>
    /\ Len(answer[c].out) = Len(answer[c].texts)
    /\ \A i \in DOMAIN answer[c].texts :
         answer[c].out[i] = IF session = "rerank" THEN Score(answer[c].texts[i])
                                                  ELSE Vector(answer[c].texts[i])

OneShapeRun == session = "coreml" => shapes \subseteq {<<FixedBatch, FixedSeq>>}

CallRecord == [at : {"none", "spawned", "queued"}, texts : Seq(Text), out : Seq(VectorOf)]
AnswerRecord ==
  [kind : {"none", "ok", "error"}, texts : Seq(Text), out : Seq(VectorOf \union Nat)]

CallInv ==
  /\ call \in [Users -> CallRecord] /\ answer \in [Users -> AnswerRecord]
  /\ session \in {"coreml", "cpu", "rerank"}
  /\ \A c \in Users : InFront(c) /\ AnswerInPlace(c)
  /\ OneShapeRun

(* What a text is answered with. *)
LEMMA TextParts ==
  ASSUME NEW t \in Text
  PROVE  Vector(t) \in VectorOf /\ Score(t) \in Nat
BY DEF Text, VectorOf, Score

(* The next texts, no more than fit. *)
NextOf(texts, done) == SubSeq(texts, done + 1, Least(done + FixedBatch, Len(texts)))

LEMMA NextTexts ==
  ASSUME NEW texts \in Seq(Text), NEW done \in 0..Len(texts),
         NEW chunk, chunk = NextOf(texts, done)
  PROVE  /\ chunk \in Seq(Text) /\ Len(chunk) <= FixedBatch /\ done + Len(chunk) <= Len(texts)
         /\ \A i \in 1..Len(chunk) : chunk[i] = texts[done + i]
<1>1. Len(texts) \in Nat /\ done \in Nat /\ done <= Len(texts) /\ FixedBatch \in Nat \ {0}
  BY CallAssumption
<1>2. PICK upto \in Nat : /\ upto = Least(done + FixedBatch, Len(texts))
                          /\ upto <= done + FixedBatch /\ upto <= Len(texts) /\ done <= upto
  BY <1>1 DEF Least
<1>3. \A i \in (done + 1)..upto : texts[i] \in Text
  BY <1>1, <1>2
<1>4. /\ chunk \in Seq(Text)
      /\ Len(chunk) = IF done + 1 <= upto THEN upto - (done + 1) + 1 ELSE 0
      /\ \A i \in 1..(upto - (done + 1) + 1) : chunk[i] = texts[(done + 1) + i - 1]
  <2>1. chunk = SubSeq(texts, done + 1, upto) /\ done + 1 \in Int /\ upto \in Int
    BY <1>1, <1>2 DEF NextOf
  <2> QED
    BY <2>1, <1>3, SubSeqProperties
<1>5. upto - (done + 1) + 1 = upto - done /\ \A i \in Int : (done + 1) + i - 1 = done + i
  BY <1>1, <1>2
<1>6. Len(chunk) = upto - done /\ \A i \in 1..(upto - done) : chunk[i] = texts[done + i]
  BY <1>4, <1>5, <1>1, <1>2
<1> QED
  BY <1>1, <1>2, <1>4, <1>6

(* Filled up, they are first, and a whole batch. *)
LEMMA PaddedTexts ==
  ASSUME NEW chunk \in Seq(Text), NEW n, n = Len(chunk), n <= FixedBatch
  PROVE  LET rows == PadRows(chunk, FixedBatch)
         IN  /\ DOMAIN rows = 1..FixedBatch /\ Len(rows) = FixedBatch
             /\ \A i \in 1..n : rows[i] = chunk[i]
<1> PICK rows : rows = PadRows(chunk, FixedBatch)
  OBVIOUS
<1>1. n \in Nat /\ FixedBatch \in Nat
  BY CallAssumption
<1>2. rows = [i \in 1..FixedBatch |-> IF i <= n THEN chunk[i] ELSE Empty]
  BY DEF PadRows
<1>3. \A i \in 1..n : i \in 1..FixedBatch /\ chunk[i] \in Text
  BY <1>1
<1>4. \A i \in 1..n : rows[i] = chunk[i]
  BY <1>2, <1>3
<1>5. rows \in [1..FixedBatch -> Text \union {Empty}]
  <2>1. \A i \in 1..FixedBatch : i <= n => i \in 1..n
    BY <1>1
  <2> QED
    BY <2>1, <1>2, <1>3
<1>6. rows \in Seq(Text \union {Empty})
  BY <1>5, <1>1
<1> QED
  BY <1>1, <1>4, <1>5, <1>6

(* A chunk's answer is of its own texts, and of no others. *)
LEMMA ChunkIs ==
  ASSUME NEW chunk \in Seq(Text), NEW n, n = Len(chunk),
         NEW rows, \A i \in 1..n : i \in DOMAIN rows /\ rows[i] = chunk[i]
  PROVE  /\ Chunk(rows, chunk) \in Seq(VectorOf) /\ Len(Chunk(rows, chunk)) = n
         /\ \A i \in 1..n : Chunk(rows, chunk)[i] = Vector(chunk[i])
<1>1. n \in Nat /\ \A i \in 1..n : chunk[i] \in Text
  OBVIOUS
<1>2. \A i \in 1..n : Embed(rows)[i] = Vector(chunk[i])
  BY DEF Embed
<1>3. \A i \in 1..n : Embed(rows)[i] \in VectorOf
  BY <1>1, <1>2, TextParts
<1>4. PICK vectors : vectors = Embed(rows)
  OBVIOUS
<1>5. /\ SubSeq(vectors, 1, n) \in Seq(VectorOf)
      /\ Len(SubSeq(vectors, 1, n)) = IF 1 <= n THEN n - 1 + 1 ELSE 0
      /\ \A i \in 1..(n - 1 + 1) : SubSeq(vectors, 1, n)[i] = vectors[1 + i - 1]
  BY <1>1, <1>3, <1>4, SubSeqProperties
<1>6. n - 1 + 1 = n /\ \A i \in 1..n : 1 + i - 1 = i
  BY <1>1
<1>7. PICK part : part = SubSeq(vectors, 1, n)
  OBVIOUS
<1>8. part \in Seq(VectorOf) /\ Len(part) = n /\ \A i \in 1..n : part[i] = vectors[i]
  BY <1>1, <1>5, <1>6, <1>7
<1>9. Chunk(rows, chunk) = part
  BY <1>4, <1>7 DEF Chunk
<1> QED
  BY <1>2, <1>4, <1>8, <1>9

(* What a thread has got, and the next chunk's. *)
LEMMA MoreInFront ==
  ASSUME NEW texts \in Seq(Text), NEW got \in Seq(VectorOf), Len(got) <= Len(texts),
         \A i \in 1..Len(got) : got[i] = Vector(texts[i]),
         NEW more \in Seq(VectorOf), Len(got) + Len(more) <= Len(texts),
         \A i \in 1..Len(more) : more[i] = Vector(texts[Len(got) + i])
  PROVE  /\ got \o more \in Seq(VectorOf) /\ Len(got \o more) = Len(got) + Len(more)
         /\ \A i \in 1..Len(got \o more) : (got \o more)[i] = Vector(texts[i])
<1>1. /\ got \o more \in Seq(VectorOf) /\ Len(got \o more) = Len(got) + Len(more)
      /\ \A i \in 1..(Len(got) + Len(more)) :
           (got \o more)[i] = IF i <= Len(got) THEN got[i] ELSE more[i - Len(got)]
  BY ConcatProperties
<1>2. ASSUME NEW i \in 1..(Len(got) + Len(more)) PROVE (got \o more)[i] = Vector(texts[i])
  <2>0. Len(got) \in Nat /\ Len(more) \in Nat
    OBVIOUS
  <2>1. CASE i <= Len(got)
    <3>1. i \in 1..Len(got)
      BY <2>0, <2>1
    <3> QED
      BY <3>1, <2>1, <1>1
  <2>2. CASE ~ (i <= Len(got))
    <3>1. i - Len(got) \in 1..Len(more) /\ Len(got) + (i - Len(got)) = i
      BY <2>0, <2>2
    <3>2. more[i - Len(got)] = Vector(texts[Len(got) + (i - Len(got))])
      BY <3>1
    <3> QED
      BY <3>1, <3>2, <2>2, <1>1
  <2> QED
    BY <2>1, <2>2
<1> QED
  BY <1>1, <1>2

(* Whatever order the reranker gives its scores in, each goes to its place. *)
LEMMA Aligned ==
  ASSUME NEW texts \in Seq(Text), NEW results \in Reranked(texts)
  PROVE  AlignByIndex(results, Len(texts)) = [i \in 1..Len(texts) |-> Score(texts[i])]
<1>1. DOMAIN texts = 1..Len(texts)
  OBVIOUS
<1>2. PICK order \in [DOMAIN texts -> DOMAIN texts] :
        /\ \A i \in DOMAIN texts : \E j \in DOMAIN texts : order[j] = i
        /\ results = [i \in DOMAIN texts |-> [index |-> order[i], score |-> Score(texts[order[i]])]]
  BY DEF Reranked
<1>3. \A r \in DOMAIN results : results[r].score = Score(texts[results[r].index])
  BY <1>2
<1>4. \A i \in 1..Len(texts) : \E r \in DOMAIN results : results[r].index = i
  BY <1>1, <1>2
<1>5. ASSUME NEW i \in 1..Len(texts)
      PROVE  (IF \E r \in DOMAIN results : results[r].index = i
              THEN results[CHOOSE r \in DOMAIN results : results[r].index = i].score ELSE 0)
             = Score(texts[i])
  <2>1. PICK r \in DOMAIN results : /\ r = CHOOSE q \in DOMAIN results : results[q].index = i
                                    /\ results[r].index = i
    BY <1>4
  <2> QED
    BY <2>1, <1>3, <1>4
<1> QED
  BY <1>5 DEF AlignByIndex

(* Nobody has asked yet. *)
LEMMA CallInitially == CallInit => CallInv
<1> SUFFICES ASSUME CallInit PROVE CallInv
  OBVIOUS
<1>1. <<>> \in Seq(Text) /\ <<>> \in Seq(VectorOf) /\ <<>> \in Seq(VectorOf \union Nat)
  OBVIOUS
<1>2. NoCall \in CallRecord /\ NoAnswer \in AnswerRecord
  BY <1>1 DEF NoCall, NoAnswer, CallRecord, AnswerRecord
<1>3. call \in [Users -> CallRecord] /\ answer \in [Users -> AnswerRecord]
  BY <1>2 DEF CallInit
<1>4. \A c \in Users : call[c] = NoCall /\ answer[c] = NoAnswer
  BY DEF CallInit
<1>5. \A c \in Users : InFront(c) /\ AnswerInPlace(c)
  BY <1>4 DEF InFront, AnswerInPlace, NoCall, NoAnswer
<1> QED
  BY <1>3, <1>5 DEF CallInit, CallInv, OneShapeRun

(* A call whose thread goes on with what is in front of its texts, and an answer
   that is in place, leave the others as they are. *)
LEMMA OneCall ==
  ASSUME CallInv, NEW c \in Users, UNCHANGED session,
         NEW was \in CallRecord, call' = [call EXCEPT ![c] = was],
         Len(was.out) <= Len(was.texts),
         \A i \in 1..Len(was.out) : was.out[i] = Vector(was.texts[i])
  PROVE  call' \in [Users -> CallRecord] /\ \A d \in Users : InFront(d)'
<1>1. call' \in [Users -> CallRecord]
  BY DEF CallInv
<1>2. call'[c] = was /\ \A d \in Users \ {c} : call'[d] = call[d]
  BY DEF CallInv
<1>3. InFront(c)'
  BY <1>2 DEF InFront
<1>4. \A d \in Users \ {c} : InFront(d)'
  BY <1>2 DEF InFront, CallInv
<1> QED
  BY <1>1, <1>3, <1>4

(* A task that is told leaves the others' answers. *)
LEMMA OneAnswer ==
  ASSUME CallInv, NEW c \in Users, UNCHANGED session,
         NEW said \in AnswerRecord, answer' = [answer EXCEPT ![c] = said],
         said.kind = "ok" =>
           /\ Len(said.out) = Len(said.texts)
           /\ \A i \in DOMAIN said.texts :
                said.out[i] = IF session = "rerank" THEN Score(said.texts[i]) ELSE Vector(said.texts[i])
  PROVE  answer' \in [Users -> AnswerRecord] /\ \A d \in Users : AnswerInPlace(d)'
<1>1. answer' \in [Users -> AnswerRecord]
  BY DEF CallInv
<1>2. answer'[c] = said /\ \A d \in Users \ {c} : answer'[d] = answer[d]
  BY DEF CallInv
<1>3. AnswerInPlace(c)'
  BY <1>2 DEF AnswerInPlace
<1>4. \A d \in Users \ {c} : AnswerInPlace(d)'
  BY <1>2 DEF AnswerInPlace, CallInv
<1> QED
  BY <1>1, <1>3, <1>4

(* No task is told anything. *)
LEMMA NoAnswerChange ==
  ASSUME CallInv, UNCHANGED <<session, answer>>
  PROVE  answer' \in [Users -> AnswerRecord] /\ \A d \in Users : AnswerInPlace(d)'
BY DEF CallInv, AnswerInPlace

(* A thread that ends well has something for each of its texts. *)
LEMMA EndKeeps ==
  ASSUME CallInv, NEW c \in Users, NEW said \in {"ok", "error"},
         NEW vectors \in Seq(VectorOf \union Nat), End(c, said, vectors), OneShapeRun',
         said = "ok" =>
           /\ Len(vectors) = Len(call[c].texts)
           /\ \A i \in DOMAIN call[c].texts :
                vectors[i] = IF session = "rerank" THEN Score(call[c].texts[i]) ELSE Vector(call[c].texts[i])
  PROVE  CallInv'
<1>1. UNCHANGED session /\ call' = [call EXCEPT ![c] = NoCall]
  BY DEF End
<1>2. <<>> \in Seq(Text) /\ <<>> \in Seq(VectorOf) /\ Len(<<>>) = 0
  OBVIOUS
<1>3. /\ NoCall \in CallRecord /\ Len(NoCall.out) <= Len(NoCall.texts)
      /\ \A i \in 1..Len(NoCall.out) : NoCall.out[i] = Vector(NoCall.texts[i])
  BY <1>2 DEF NoCall, CallRecord
<1>4. call' \in [Users -> CallRecord] /\ \A d \in Users : InFront(d)'
  BY <1>1, <1>3, OneCall
<1>5. answer' \in [Users -> AnswerRecord] /\ \A d \in Users : AnswerInPlace(d)'
  <2>1. CASE waiting[c]
    <3> DEFINE new == [kind |-> said, texts |-> call[c].texts, out |-> vectors]
    <3>1. answer' = [answer EXCEPT ![c] = new]
      BY <2>1 DEF End, Tell
    <3>2. new \in AnswerRecord
      BY DEF CallInv, CallRecord, AnswerRecord
    <3>3. new.kind = said /\ new.texts = call[c].texts /\ new.out = vectors
      OBVIOUS
    <3> HIDE DEF new
    <3> QED
      BY <1>1, <3>1, <3>2, <3>3, OneAnswer
  <2>2. CASE ~ waiting[c]
    BY <1>1, <2>2, NoAnswerChange DEF End
  <2> QED
    BY <2>1, <2>2
<1> QED
  BY <1>1, <1>4, <1>5 DEF CallInv

(* The next chunk of a fixed-shape session, the last one among them. *)
LEMMA RunChunkKeeps ==
  ASSUME CallInv, NEW c \in Users, RunChunk(c)
  PROVE  CallInv'
<1>0. PICK texts, got, done, chunk, rows, more, vectors :
        /\ texts = call[c].texts /\ got = call[c].out /\ done = Len(got)
        /\ chunk = NextOf(texts, done)
        /\ rows = PadRows(chunk, FixedBatch) /\ more = Chunk(rows, chunk) /\ vectors = got \o more
  OBVIOUS
<1>1. /\ texts \in Seq(Text) /\ got \in Seq(VectorOf) /\ done \in 0..Len(texts)
      /\ Len(texts) \in Nat /\ done = Len(got) /\ \A i \in 1..done : got[i] = Vector(texts[i])
  BY <1>0 DEF CallInv, CallRecord, InFront
<1>11. PICK n : n = Len(chunk)
  OBVIOUS
<1>12. /\ chunk \in Seq(Text) /\ n \in Nat /\ n <= FixedBatch /\ done + n <= Len(texts)
       /\ \A i \in 1..n : chunk[i] = texts[done + i]
  <2>1. chunk = NextOf(texts, done)
    BY <1>0
  <2>2. /\ chunk \in Seq(Text) /\ Len(chunk) <= FixedBatch /\ done + Len(chunk) <= Len(texts)
        /\ \A i \in 1..Len(chunk) : chunk[i] = texts[done + i]
    BY <2>1, <1>1, NextTexts
  <2> QED
    BY <2>2, <1>11
<1>13. Len(rows) = FixedBatch /\ \A i \in 1..n : i \in DOMAIN rows /\ rows[i] = chunk[i]
  <2>1. /\ DOMAIN rows = 1..FixedBatch /\ Len(rows) = FixedBatch
        /\ \A i \in 1..n : rows[i] = chunk[i]
    <3>1. rows = PadRows(chunk, FixedBatch)
      BY <1>0
    <3>2. chunk \in Seq(Text) /\ n = Len(chunk) /\ n <= FixedBatch
      BY <1>11, <1>12
    <3> QED
      BY <3>1, <3>2, PaddedTexts
  <2>2. \A i \in 1..n : i \in 1..FixedBatch
    BY <1>12, CallAssumption
  <2> QED
    BY <2>1, <2>2
<1>2. /\ more \in Seq(VectorOf) /\ Len(more) = n
      /\ \A i \in 1..n : more[i] = Vector(texts[done + i])
  <2>1. /\ more \in Seq(VectorOf) /\ Len(more) = n
        /\ \A i \in 1..n : more[i] = Vector(chunk[i])
    <3>1. more = Chunk(rows, chunk)
      BY <1>0
    <3>2. chunk \in Seq(Text) /\ n = Len(chunk)
      BY <1>11, <1>12
    <3> QED
      BY <3>1, <3>2, <1>13, ChunkIs
  <2> QED
    BY <2>1, <1>12
<1>3. /\ vectors \in Seq(VectorOf) /\ Len(vectors) = done + n
      /\ \A i \in 1..Len(vectors) : vectors[i] = Vector(texts[i])
  <2>1. vectors = got \o more
    BY <1>0
  <2> QED
    <3>1. Len(got) <= Len(texts) /\ Len(got) + Len(more) <= Len(texts)
      BY <1>1, <1>2, <1>12
    <3>2. \A i \in 1..Len(got) : got[i] = Vector(texts[i])
      BY <1>1
    <3>3. \A i \in 1..Len(more) : more[i] = Vector(texts[Len(got) + i])
      BY <1>1, <1>2
    <3>4. texts \in Seq(Text) /\ got \in Seq(VectorOf) /\ more \in Seq(VectorOf)
      BY <1>1, <1>2
    <3>5. /\ vectors \in Seq(VectorOf) /\ Len(vectors) = Len(got) + Len(more)
          /\ \A i \in 1..Len(vectors) : vectors[i] = Vector(texts[i])
      BY <2>1, <3>1, <3>2, <3>3, <3>4, MoreInFront
    <3> QED
      BY <3>5, <1>1, <1>2
<1>4. /\ session = "coreml" /\ Ran(rows)
      /\ IF done + n < Len(texts)
         THEN call' = [call EXCEPT ![c].out = vectors] /\ UNCHANGED <<session, waiting, answer, lock, made>>
         ELSE End(c, "ok", vectors)
  BY <1>0, <1>11 DEF RunChunk, NextOf
<1>5. OneShapeRun'
  BY <1>13, <1>4 DEF CallInv, OneShapeRun, Ran, Padded, End
<1>6. CASE done + n < Len(texts)
  <2>1. call' = [call EXCEPT ![c] = [call[c] EXCEPT !.out = vectors]] /\ UNCHANGED <<session, answer>>
    BY <1>4, <1>6
  <2>2. /\ [call[c] EXCEPT !.out = vectors] \in CallRecord
        /\ [call[c] EXCEPT !.out = vectors].out = vectors /\ [call[c] EXCEPT !.out = vectors].texts = texts
    <3>1. texts = call[c].texts /\ vectors \in Seq(VectorOf) /\ call[c] \in CallRecord
      BY <1>0, <1>3 DEF CallInv
    <3> QED
      BY <3>1 DEF CallRecord
  <2>3. Len(vectors) <= Len(texts)
    BY <1>3, <1>6, <1>1, <1>12
  <2>4. call' \in [Users -> CallRecord] /\ \A d \in Users : InFront(d)'
    BY <2>1, <2>2, <2>3, <1>3, OneCall
  <2>5. answer' \in [Users -> AnswerRecord] /\ \A d \in Users : AnswerInPlace(d)'
    BY <2>1, NoAnswerChange
  <2> QED
    BY <2>1, <2>4, <2>5, <1>5 DEF CallInv
<1>7. CASE ~ (done + n < Len(texts))
  <2>1. Len(vectors) = Len(texts)
    BY <1>7, <1>1, <1>12, <1>3
  <2>2. vectors \in Seq(VectorOf \union Nat)
    BY <1>3
  <2>3. \A i \in DOMAIN texts : vectors[i] = Vector(texts[i])
    BY <1>1, <1>3, <2>1
  <2>4. End(c, "ok", vectors) /\ session # "rerank"
    BY <1>4, <1>7
  <2> QED
    BY <2>1, <2>2, <2>3, <2>4, <1>0, <1>5, EndKeeps
<1> QED
  BY <1>6, <1>7

(* All the texts at once. *)
LEMMA RunBatchKeeps ==
  ASSUME CallInv, NEW c \in Users, RunBatch(c)
  PROVE  CallInv'
<1>0. PICK texts, vectors : texts = call[c].texts /\ vectors = [i \in DOMAIN texts |-> Vector(texts[i])]
  OBVIOUS
<1>1. texts \in Seq(Text) /\ DOMAIN texts = 1..Len(texts) /\ Len(texts) \in Nat
  BY <1>0 DEF CallInv, CallRecord
<1>2. \A i \in 1..Len(texts) : vectors[i] \in VectorOf \union Nat
  BY <1>0, <1>1, TextParts
<1>3. vectors \in Seq(VectorOf \union Nat) /\ Len(vectors) = Len(texts)
  <2>1. vectors \in [1..Len(texts) -> VectorOf \union Nat]
    BY <1>0, <1>1, <1>2
  <2> QED
    BY <2>1, <1>1
<1>4. End(c, "ok", vectors) /\ session = "cpu"
  BY <1>0 DEF RunBatch, Embed
<1>5. OneShapeRun'
  BY <1>4 DEF OneShapeRun, End
<1> QED
  BY <1>0, <1>3, <1>4, <1>5, EndKeeps

(* A score for each text, put where it belongs. *)
LEMMA RerankKeeps ==
  ASSUME CallInv, NEW c \in Users, Rerank(c)
  PROVE  CallInv'
<1>0. PICK texts, vectors : texts = call[c].texts /\ vectors = [i \in 1..Len(texts) |-> Score(texts[i])]
  OBVIOUS
<1>1. texts \in Seq(Text) /\ DOMAIN texts = 1..Len(texts) /\ Len(texts) \in Nat
  BY <1>0 DEF CallInv, CallRecord
<1>2. \A i \in 1..Len(texts) : vectors[i] \in VectorOf \union Nat
  BY <1>0, <1>1, TextParts
<1>3. vectors \in Seq(VectorOf \union Nat) /\ Len(vectors) = Len(texts)
  <2>1. vectors \in [1..Len(texts) -> VectorOf \union Nat]
    BY <1>0, <1>1, <1>2
  <2> QED
    BY <2>1, <1>1
<1>4. End(c, "ok", vectors) /\ session = "rerank"
  BY <1>0, <1>1, Aligned DEF Rerank
<1>5. OneShapeRun'
  BY <1>4 DEF OneShapeRun, End
<1> QED
  BY <1>0, <1>1, <1>3, <1>4, <1>5, EndKeeps

(* Every step keeps it. *)
LEMMA CallStep == CallInv /\ [CallNext]_callVars => CallInv'
<1> SUFFICES ASSUME CallInv, [CallNext]_callVars PROVE CallInv'
  OBVIOUS
<1>1. ASSUME NEW c \in Users, NEW texts \in Inputs, Ask(c, texts) PROVE CallInv'
  <2>1. texts \in Seq(Text) /\ <<>> \in Seq(Text) /\ <<>> \in Seq(VectorOf)
        /\ <<>> \in Seq(VectorOf \union Nat) /\ Len(<<>>) = 0 /\ Len(texts) >= 0
    BY CallAssumption DEF Text
  <2>2. UNCHANGED <<session, shapes>>
    BY <1>1 DEF Ask
  <2>3. OneShapeRun'
    BY <2>2 DEF CallInv, OneShapeRun
  <2>4. CASE texts = <<>>
    <3> DEFINE new == [kind |-> "ok", texts |-> <<>>, out |-> <<>>]
    <3>1. answer' = [answer EXCEPT ![c] = new] /\ UNCHANGED call
      BY <1>1, <2>4 DEF Ask
    <3>2. new \in AnswerRecord /\ Len(new.out) = Len(new.texts) /\ DOMAIN new.texts = {}
      BY <2>1 DEF AnswerRecord
    <3> HIDE DEF new
    <3>3. answer' \in [Users -> AnswerRecord] /\ \A d \in Users : AnswerInPlace(d)'
      BY <3>1, <3>2, <2>2, OneAnswer
    <3>4. call' \in [Users -> CallRecord] /\ \A d \in Users : InFront(d)'
      BY <3>1 DEF CallInv, InFront
    <3> QED
      BY <3>3, <3>4, <2>2, <2>3 DEF CallInv
  <2>5. CASE texts # <<>>
    <3> DEFINE new == [at |-> "spawned", texts |-> texts, out |-> <<>>]
    <3>1. call' = [call EXCEPT ![c] = new] /\ UNCHANGED answer
      BY <1>1, <2>5 DEF Ask
    <3>2. /\ new \in CallRecord /\ Len(new.out) <= Len(new.texts)
          /\ \A i \in 1..Len(new.out) : new.out[i] = Vector(new.texts[i])
      BY <2>1 DEF CallRecord
    <3> HIDE DEF new
    <3>3. call' \in [Users -> CallRecord] /\ \A d \in Users : InFront(d)'
      BY <3>1, <3>2, <2>2, OneCall
    <3>4. answer' \in [Users -> AnswerRecord] /\ \A d \in Users : AnswerInPlace(d)'
      BY <3>1, <2>2, NoAnswerChange
    <3> QED
      BY <3>3, <3>4, <2>2, <2>3 DEF CallInv
  <2> QED
    BY <2>4, <2>5
<1>2. ASSUME NEW c \in Users, QueueUp(c) PROVE CallInv'
  <2>1. /\ call' = [call EXCEPT ![c] = [call[c] EXCEPT !.at = "queued"]]
        /\ UNCHANGED <<session, answer, shapes>>
    BY <1>2 DEF QueueUp
  <2>2. /\ [call[c] EXCEPT !.at = "queued"] \in CallRecord
        /\ [call[c] EXCEPT !.at = "queued"].out = call[c].out
        /\ [call[c] EXCEPT !.at = "queued"].texts = call[c].texts
    BY DEF CallInv, CallRecord
  <2>3. call' \in [Users -> CallRecord] /\ \A d \in Users : InFront(d)'
    BY <2>1, <2>2, OneCall DEF CallInv, InFront
  <2>4. answer' \in [Users -> AnswerRecord] /\ \A d \in Users : AnswerInPlace(d)'
    BY <2>1, NoAnswerChange
  <2> QED
    BY <2>1, <2>3, <2>4 DEF CallInv, OneShapeRun
<1>3. ASSUME NEW c \in Users, Fail(c) PROVE CallInv'
  <2>1. End(c, "error", <<>>) /\ UNCHANGED <<session, shapes>>
    BY <1>3 DEF Fail, End
  <2>2. OneShapeRun'
    BY <2>1 DEF CallInv, OneShapeRun
  <2>3. <<>> \in Seq(VectorOf \union Nat)
    OBVIOUS
  <2> QED
    BY <2>1, <2>2, <2>3, EndKeeps
<1>4. ASSUME UNCHANGED <<session, call, answer, shapes>> PROVE CallInv'
  BY <1>4 DEF CallInv, InFront, AnswerInPlace, OneShapeRun
<1>5. ASSUME NEW c \in Users, Drop(c) PROVE CallInv'
  BY <1>4, <1>5 DEF Drop
<1>6. CASE UNCHANGED callVars
  BY <1>4, <1>6 DEF callVars
<1> QED
  BY <1>1, <1>2, <1>3, <1>5, <1>6, RunChunkKeeps, RunBatchKeeps, RerankKeeps DEF CallNext, Thread

(* So it holds of every behaviour. *)
LEMMA CallInvHolds == CallSpec => []CallInv
BY CallInitially, CallStep, PTL DEF CallSpec

(* For any batch size, any lists of texts and any users, of whom some give up:
   each answer is of its own texts, in their order. *)
THEOREM EachInItsPlace == CallSpec => []AnswersInPlace
<1>1. CallInv => AnswersInPlace
  BY DEF CallInv, AnswerInPlace, AnswersInPlace
<1> QED
  BY <1>1, CallInvHolds, PTL

(* The baked graph has the one shape. *)
LEMMA BakedIs ==
  \A i \in 1..2 : /\ Baked["input"][i] = [dim_value |-> IF i = 1 THEN FixedBatch ELSE FixedSeq]
                  /\ Baked["output"][i] = Baked["input"][i]
<1> DEFINE dims == [batch_size |-> FixedBatch, sequence_length |-> FixedSeq]
<1>1. DOMAIN dims = {"batch_size", "sequence_length"}
  OBVIOUS
<1>2. dims["batch_size"] = FixedBatch /\ dims["sequence_length"] = FixedSeq
  OBVIOUS
<1>3. \A x : "dim_param" \in DOMAIN [dim_param |-> x]
  OBVIOUS
<1> HIDE DEF dims
<1>4. /\ Fixed([dim_param |-> "batch_size"], dims) = [dim_value |-> FixedBatch]
      /\ Fixed([dim_param |-> "sequence_length"], dims) = [dim_value |-> FixedSeq]
  BY <1>1, <1>2, <1>3 DEF Fixed
<1>5. ByRows[1] = [dim_param |-> "batch_size"] /\ ByRows[2] = [dim_param |-> "sequence_length"]
      /\ DOMAIN ByRows = 1..2
  BY DEF ByRows
<1>6. \A place \in {"input", "output"}, i \in 1..2 :
        i \in DOMAIN Graph[place] /\ Graph[place][i] = ByRows[i]
  BY <1>5, CallAssumption
<1>7. \A place \in {"input", "output"}, i \in 1..2 : Baked[place][i] = Fixed(ByRows[i], dims)
  BY <1>6 DEF Baked, FixGraphIoDims, Places, dims
<1> QED
  BY <1>4, <1>5, <1>7

(* A graph whose inputs and outputs are rows by tokens is baked with the shape
   that the tokenizer and the chunks have, on every run of the session. *)
THEOREM ShapesAgree == CallSpec => []OneShape
<1>1. ASSUME CallInv PROVE OneShape
  <2> SUFFICES ASSUME session = "coreml", NEW shape \in shapes
               PROVE  /\ Baked["input"] = [i \in 1..2 |-> [dim_value |-> shape[i]]]
                      /\ \A i \in 1..2 : Baked["output"][i] = Baked["input"][i]
    BY DEF OneShape
  <2>1. shape[1] = FixedBatch /\ shape[2] = FixedSeq
    BY <1>1 DEF CallInv, OneShapeRun
  <2>2. Baked["input"] = [i \in 1..2 |-> Baked["input"][i]]
    <3>1. DOMAIN Graph["input"] = 1..2
      BY CallAssumption DEF ByRows
    <3> QED
      BY <3>1 DEF Baked, FixGraphIoDims, Places
  <2>3. \A i \in 1..2 : Baked["input"][i] = [dim_value |-> shape[i]]
    BY <2>1, BakedIs
  <2> QED
    BY <2>2, <2>3, BakedIs
<1> QED
  BY <1>1, CallInvHolds, PTL

OnceEach(q) == \A i, j \in DOMAIN q : q[i] = q[j] => i = j
In(c, q) == \E i \in DOMAIN q : q[i] = c

(* The queue for the session, of the threads that say they are in it. *)
QueueInv ==
  /\ call \in [Users -> CallRecord] /\ waiting \in [Users -> BOOLEAN]
  /\ answer \in [Users -> AnswerRecord]
  /\ made \in [Users -> 0..MaxUses] /\ lock \in Seq(Users)
  /\ \A c \in Users : call[c].at = "queued" <=> In(c, lock)
  /\ OnceEach(lock)

(* The head of the queue goes, and nobody else. *)
LEMMA HeadGoes ==
  ASSUME NEW q \in Seq(Users), q # <<>>, OnceEach(q),
         NEW t, t = Tail(q), NEW first, first = Head(q)
  PROVE  /\ t \in Seq(Users) /\ OnceEach(t)
         /\ \A c \in Users : In(c, t) <=> c # first /\ In(c, q)
<1>1. PICK n \in Nat : n = Len(q) /\ n >= 1
  OBVIOUS
<1>2. t \in Seq(Users) /\ Len(t) = n - 1 /\ \A i \in 1..(n - 1) : t[i] = q[i + 1]
  <2>1. t \in Seq(Users) /\ Len(t) = Len(q) - 1 /\ \A i \in 1..Len(t) : t[i] = q[i + 1]
    BY HeadTailProperties
  <2> QED
    BY <2>1, <1>1
<1>3. DOMAIN q = 1..n /\ DOMAIN t = 1..(n - 1) /\ first = q[1] /\ 1 \in 1..n
  BY <1>1, <1>2
<1>4. \A i \in 1..(n - 1) : i + 1 \in 1..n
  BY <1>1
<1>5. ASSUME NEW i \in 1..(n - 1), NEW j \in 1..(n - 1), t[i] = t[j] PROVE i = j
  <2>1. q[i + 1] = q[j + 1] /\ i + 1 \in DOMAIN q /\ j + 1 \in DOMAIN q
    BY <1>2, <1>3, <1>4, <1>5
  <2>2. i + 1 = j + 1
    BY <2>1 DEF OnceEach
  <2> QED
    BY <2>2
<1>6. ASSUME NEW i \in 1..(n - 1) PROVE t[i] # q[1] /\ t[i] = q[i + 1] /\ i + 1 \in 1..n
  <2>1. i + 1 \in DOMAIN q /\ 1 \in DOMAIN q /\ i + 1 # 1
    BY <1>1, <1>3, <1>4
  <2> QED
    BY <2>1, <1>2, <1>3 DEF OnceEach
<1>7. ASSUME NEW i \in 1..n, q[i] # q[1] PROVE i - 1 \in 1..(n - 1) /\ t[i - 1] = q[i]
  <2>1. i - 1 \in 1..(n - 1) /\ (i - 1) + 1 = i
    BY <1>1, <1>7
  <2> QED
    BY <2>1, <1>2
<1>8. ASSUME NEW c \in Users
      PROVE  In(c, t) <=> c # first /\ In(c, q)
  <2>1. ASSUME NEW i \in DOMAIN t, t[i] = c PROVE c # first /\ \E j \in DOMAIN q : q[j] = c
    BY <2>1, <1>3, <1>6
  <2>2. ASSUME c # first, NEW i \in DOMAIN q, q[i] = c PROVE \E j \in DOMAIN t : t[j] = c
    BY <2>2, <1>3, <1>7
  <2> QED
    BY <2>1, <2>2 DEF In
<1> QED
  BY <1>2, <1>3, <1>5, <1>8 DEF OnceEach

(* One who is not in the queue goes to its end. *)
LEMMA EndComes ==
  ASSUME NEW q \in Seq(Users), NEW c \in Users, OnceEach(q), ~ In(c, q),
         NEW t, t = Append(q, c)
  PROVE  /\ t \in Seq(Users) /\ OnceEach(t)
         /\ \A d \in Users : In(d, t) <=> d = c \/ In(d, q)
<1>1. PICK n \in Nat : n = Len(q)
  OBVIOUS
<1>2. t \in Seq(Users) /\ Len(t) = n + 1 /\ (\A i \in 1..n : t[i] = q[i]) /\ t[n + 1] = c
  <2>1. /\ t \in Seq(Users) /\ Len(t) = Len(q) + 1
        /\ \A i \in 1..Len(q) : t[i] = q[i]
        /\ t[Len(q) + 1] = c
    BY AppendProperties
  <2> QED
    BY <2>1, <1>1
<1>3. DOMAIN q = 1..n /\ DOMAIN t = 1..(n + 1) /\ 1..(n + 1) = 1..n \union {n + 1}
  BY <1>1, <1>2
<1>4. OnceEach(t)
  BY <1>2, <1>3 DEF OnceEach, In
<1>5. \A d \in Users : In(d, t) <=> d = c \/ In(d, q)
  BY <1>2, <1>3 DEF In
<1> QED
  BY <1>2, <1>4, <1>5

(* Every step keeps the queue. *)
LEMMA QueueStep == QueueInv /\ CallInv' /\ [CallNext]_callVars => QueueInv'
<1> SUFFICES ASSUME QueueInv, CallInv', [CallNext]_callVars PROVE QueueInv'
  OBVIOUS
<1>0. call' \in [Users -> CallRecord] /\ answer' \in [Users -> AnswerRecord]
  BY DEF CallInv
<1>1. ASSUME UNCHANGED <<lock, made>>, waiting' \in [Users -> BOOLEAN],
             \A c \in Users : call'[c].at = "queued" <=> call[c].at = "queued"
      PROVE  QueueInv'
  BY <1>0, <1>1 DEF QueueInv
<1>2. ASSUME NEW c \in Users, NEW texts \in Inputs, Ask(c, texts) PROVE QueueInv'
  <2>1. UNCHANGED lock /\ made' \in [Users -> 0..MaxUses]
    <3>1. made[c] \in Nat /\ made[c] < MaxUses
      BY <1>2 DEF Ask, QueueInv
    <3>2. made[c] + 1 \in 0..MaxUses
      BY <3>1, CallAssumption
    <3> QED
      BY <1>2, <3>2 DEF Ask, QueueInv
  <2>2. waiting' \in [Users -> BOOLEAN]
    BY <1>2 DEF Ask, QueueInv
  <2>3. \A d \in Users : call'[d].at = "queued" <=> call[d].at = "queued"
    <3>1. CASE texts = <<>>
      BY <1>2, <3>1 DEF Ask
    <3>2. CASE texts # <<>>
      <4> DEFINE new == [at |-> "spawned", texts |-> texts, out |-> <<>>]
      <4>1. call' = [call EXCEPT ![c] = new]
        BY <1>2, <3>2 DEF Ask
      <4>2. call[c].at = "none"
        BY <1>2 DEF Ask
      <4> QED
        BY <4>1, <4>2 DEF QueueInv
    <3> QED
      BY <3>1, <3>2
  <2> QED
    BY <1>0, <2>1, <2>2, <2>3 DEF QueueInv
<1>3. ASSUME NEW c \in Users, QueueUp(c) PROVE QueueInv'
  <2>1. ~ In(c, lock)
    BY <1>3 DEF QueueUp, QueueInv
  <2>2. \A d \in Users : call'[d].at = "queued" <=> d = c \/ call[d].at = "queued"
    BY <1>3 DEF QueueUp, QueueInv
  <2>3. lock' = Append(lock, c) /\ UNCHANGED <<waiting, made>>
    BY <1>3 DEF QueueUp
  <2>4. /\ lock' \in Seq(Users) /\ OnceEach(lock')
        /\ \A d \in Users : In(d, lock') <=> d = c \/ In(d, lock)
    <3>1. lock \in Seq(Users) /\ OnceEach(lock)
      BY DEF QueueInv
    <3> QED
      BY <2>1, <2>3, <3>1, EndComes
  <2> QED
    BY <1>0, <2>2, <2>3, <2>4 DEF QueueInv
<1>4. ASSUME NEW c \in Users, Runs(c), NEW said, NEW told, End(c, said, told) PROVE QueueInv'
  <2>1. lock # <<>> /\ Head(lock) = c
    BY <1>4 DEF Runs
  <2>2. \A d \in Users : call'[d].at = "queued" <=> d # c /\ call[d].at = "queued"
    BY <1>4 DEF End, NoCall, QueueInv
  <2>3. lock' = Tail(lock) /\ UNCHANGED made /\ waiting' \in [Users -> BOOLEAN]
    BY <1>4 DEF End, QueueInv
  <2>4. /\ lock' \in Seq(Users) /\ OnceEach(lock')
        /\ \A d \in Users : In(d, lock') <=> d # c /\ In(d, lock)
    <3>1. lock \in Seq(Users) /\ OnceEach(lock)
      BY DEF QueueInv
    <3> QED
      BY <2>1, <2>3, <3>1, HeadGoes
  <2> QED
    BY <1>0, <2>2, <2>3, <2>4 DEF QueueInv
<1>5. ASSUME NEW c \in Users, RunChunk(c) PROVE QueueInv'
  <2>1. \/ \E told : End(c, "ok", told)
        \/ \E told : call' = [call EXCEPT ![c].out = told] /\ UNCHANGED <<waiting, lock, made>>
    BY <1>5 DEF RunChunk
  <2>2. ASSUME NEW told, call' = [call EXCEPT ![c].out = told], UNCHANGED <<waiting, lock, made>>
        PROVE  QueueInv'
    <3>1. \A d \in Users : call'[d].at = call[d].at
      BY <2>2 DEF QueueInv, CallRecord
    <3> QED
      BY <3>1, <2>2, <1>1 DEF QueueInv
  <2>3. Runs(c)
    BY <1>5 DEF RunChunk
  <2> QED
    BY <2>1, <2>2, <2>3, <1>4
<1>6. ASSUME NEW c \in Users, RunBatch(c) \/ Rerank(c) \/ Fail(c) PROVE QueueInv'
  <2>1. Runs(c) /\ \E said, told : End(c, said, told)
    BY <1>6 DEF RunBatch, Rerank, Fail
  <2> QED
    BY <2>1, <1>4
<1>7. ASSUME NEW c \in Users, Drop(c) PROVE QueueInv'
  BY <1>1, <1>7 DEF Drop, QueueInv
<1>8. CASE UNCHANGED callVars
  BY <1>1, <1>8 DEF callVars, QueueInv
<1> QED
  BY <1>2, <1>3, <1>5, <1>6, <1>7, <1>8 DEF CallNext, Thread

(* For any number of users: a thread that waits for the session or has it is in
   its queue once, and nobody else is, whoever's task has gone. *)
THEOREM CallTypes == CallSpec => []CallTypeOK
<1>1. ASSUME CallInit PROVE QueueInv
  <2>1. CallInv
    BY <1>1, CallInitially
  <2>2. <<>> \in Seq(Users) /\ DOMAIN <<>> = {} /\ 0 \in 0..MaxUses
    BY CallAssumption
  <2> QED
    BY <1>1, <2>1, <2>2 DEF QueueInv, CallInv, CallInit, NoCall, OnceEach, In
<1>2. QueueInv => CallTypeOK
  BY DEF QueueInv, CallTypeOK, CallRecord, AnswerRecord, OnceEach, In
<1> QED
  BY <1>1, <1>2, QueueStep, CallInvHolds, PTL DEF CallSpec

===============================================================================
