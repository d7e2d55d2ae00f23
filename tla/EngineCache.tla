---------------------------- MODULE EngineCache ----------------------------
(***************************************************************************)
(* The daemon's RetrievalEngine over one repository: concurrent            *)
(* find_pattern, index_status and explain_change requests share the repo   *)
(* handle, the meta cache and the blame cache, while `ohara index`         *)
(* refreshes or rebuilds the database behind them and sends InvalidateRepo *)
(* when it is done.  A rebuild deletes the database file: connections      *)
(* opened before keep reading the deleted one.                             *)
(***************************************************************************)
EXTENDS Naturals, FiniteSets

CONSTANTS
  Requests,   \* the requests; each is made once
  Heads,      \* commits HEAD may name
  Blob,       \* Blob[h]: the blob of the file in h, None if h lacks it
  Ranges,     \* the line ranges a request may ask for: sets of lines
  Kinds,      \* which requests are made: the methods they may have
  None, Refused, Error,
  MaxRuns,    \* bound on index runs
  MaxMoves,   \* bound on movements of HEAD
  MaxLost     \* bound on lost notifications

ASSUME EngineAssumption ==
  /\ DOMAIN Blob = Heads
  /\ Kinds \subseteq [Requests -> {"find", "status", "explain"}]
  /\ {MaxMoves, MaxLost} \subseteq Nat /\ MaxRuns \in Nat \ {0}
  /\ None \notin Requests

VARIABLES
  gen,        \* the database file: how often it has been rebuilt
  file,       \* file[g]: what file g holds: the run that completed it (0: none),
              \* and whether that run had another embedding model
  run,        \* where the index process is
  runs, lostRuns,
  head, moves,
  repos,      \* the handle in the engine's map, named by who opened it
  conns,      \* conns[h]: the files handle h's read pool has connections to
  meta,       \* the meta cache
  blame,      \* blame[b]: the blame cache, by blob
  at, kind, range,   \* of each request: its step, its method, its lines
  handle,     \* the handle it holds
  hash,       \* the blob it hashed
  seen,       \* the meta or the blame ranges it goes by
  out,        \* its answer
  evicted,    \* history: handles dropped from the map
  missed,     \* history: the last notification was lost
  metaBy,     \* history: who put the cached meta
  late,       \* history: who might put a meta read before the last drop
  crossed,    \* history: blobs blamed after HEAD had left them
  calm        \* history: requests begun on a current index, no run since

index == <<gen, file, run, runs, lostRuns>>
git == <<head, moves>>
caches == <<repos, conns, meta, blame>>
request == <<at, kind, range, handle, hash, seen, out>>
history == <<evicted, missed, metaBy, late, crossed, calm>>
vars == <<index, git, caches, request, history>>

Gens == 0..MaxRuns
Contents == [ver : 0..MaxRuns, foreign : BOOLEAN]
Blames == [head : Heads, lines : Ranges \union {{}}]
Blobs == {Blob[h] : h \in Heads} \ {None}
Steps == {"open", "insert", "meta", "compose", "put", "retrieve",
          "hash", "lookup", "blame", "keep", "hydrate", "done"}

TypeOK ==
  /\ gen \in Gens
  /\ file \in [Gens -> Contents]
  /\ run \in {"none", "writing", "notify", "dropMeta", "dropBlame"}
  /\ runs \in 1..MaxRuns /\ lostRuns \in 0..MaxLost
  /\ head \in Heads /\ moves \in 0..MaxMoves
  /\ repos \in Requests \union {None}
  /\ conns \in [Requests -> SUBSET (0..gen)]
  /\ meta \in Contents \union {None}
  /\ blame \in [Blobs -> Blames \union {None}]
  /\ at \in [Requests -> Steps]
  /\ kind \in [Requests -> {"find", "status", "explain"}]
  /\ range \in [Requests -> Ranges]
  /\ handle \in [Requests -> Requests \union {None}]
  /\ hash \in [Requests -> Blobs \union {None}]
  /\ seen \in [Requests -> Contents \union Blames \union {None}]
  /\ out \in [Requests -> Contents \union Blames \union {None, Refused, Error}]
  /\ \A r \in Requests :
       /\ handle[r] = None <=> at[r] \in {"open", "done"}
       /\ at[r] \in {"lookup", "keep"} => hash[r] \in Blobs
       /\ at[r] \in {"put", "retrieve"} => seen[r] \in Contents
       /\ at[r] \in {"keep", "hydrate"} => seen[r] \in Blames
  /\ evicted \subseteq Requests /\ late \subseteq Requests
  /\ missed \in BOOLEAN
  /\ metaBy \in Requests \union {None}
  /\ crossed \subseteq Blobs
  /\ calm \subseteq Requests

(* The index of a repository that has been indexed once by this build. *)
Init ==
  /\ gen = 0
  /\ file = [g \in Gens |-> [ver |-> IF g = 0 THEN 1 ELSE 0, foreign |-> FALSE]]
  /\ run = "none" /\ runs = 1 /\ lostRuns = 0
  /\ head \in Heads /\ moves = 0
  /\ repos = None
  /\ conns = [r \in Requests |-> {}]
  /\ meta = None
  /\ blame = [b \in Blobs |-> None]
  /\ at = [r \in Requests |-> "open"]
  /\ kind \in Kinds
  /\ range \in {f \in [Requests -> Ranges] :
                  \A r \in Requests : kind[r] # "explain" =>
                    f[r] = CHOOSE s \in Ranges : TRUE}
  /\ handle = [r \in Requests |-> None]
  /\ hash = [r \in Requests |-> None]
  /\ seen = [r \in Requests |-> None]
  /\ out = [r \in Requests |-> None]
  /\ evicted = {} /\ late = {} /\ crossed = {} /\ calm = {}
  /\ missed = FALSE /\ metaBy = None

Goto(r, step) == at' = [at EXCEPT ![r] = step]

(* The reply goes out and the task lets go of the handle. *)
Answer(r, a) ==
  /\ out' = [out EXCEPT ![r] = a]
  /\ handle' = [handle EXCEPT ![r] = None]
  /\ hash' = [hash EXCEPT ![r] = None]
  /\ seen' = [seen EXCEPT ![r] = None]
  /\ Goto(r, "done")

(* Where a request goes once it has its handle. *)
AfterOpen(r) == IF kind[r] = "explain" THEN "hash" ELSE "meta"

(* index_status answers with the meta, find_pattern goes on with it. *)
GoesBy(r, m) ==
  IF kind[r] = "status"
  THEN Answer(r, m)
  ELSE /\ seen' = [seen EXCEPT ![r] = m]
       /\ Goto(r, "retrieve")
       /\ UNCHANGED <<handle, hash, out>>

(* No index run is under way, and the engine has heard of the last one. *)
Begin(r) ==
  calm' = IF run = "none" /\ ~missed THEN calm \union {r} ELSE calm

(* A query on r's handle uses a connection of its pool, or opens one. *)
Reads(r, g) ==
  /\ g \in conns[handle[r]] \union {gen}
  /\ conns' = [conns EXCEPT ![handle[r]] = @ \union {g}]

----------------------------------------------------------------------------
(* Mutations. *)

(* SqliteStorage::open fills the read pool. *)
OpenStorage_eager(r) ==
  /\ at[r] = "open" /\ repos = None
  /\ handle' = [handle EXCEPT ![r] = r]
  /\ conns' = [conns EXCEPT ![r] = {gen}]
  /\ Goto(r, "insert")
  /\ Begin(r)
  /\ UNCHANGED <<index, git, repos, meta, blame, kind, range, hash, seen, out,
                 evicted, missed, metaBy, late, crossed>>

(* find_pattern retrieves without looking at the verdict. *)
Retrieve_unguarded(r) ==
  /\ at[r] = "retrieve"
  /\ \E g \in Gens : Reads(r, g) /\ Answer(r, file[g])
  /\ UNCHANGED <<index, git, repos, meta, blame, kind, range, history>>

(* The ranges are kept under the blob HEAD has by then. *)
BlamePut_rehashed(r) ==
  /\ at[r] = "keep"
  /\ blame' = [blame EXCEPT ![Blob[head]] = seen[r]]
  /\ Goto(r, "hydrate")
  /\ UNCHANGED <<index, git, repos, conns, meta, kind, range, handle, hash, seen,
                 out, history>>

----------------------------------------------------------------------------
(* The index process and the user. *)

(* --rebuild deletes the file and starts an empty one, perhaps by a build
   with another embedding model; its metadata comes last. *)
Rebuild ==
  /\ run = "none" /\ runs < MaxRuns /\ gen < MaxRuns
  /\ gen' = gen + 1
  /\ run' = "writing"
  /\ calm' = {}
  /\ UNCHANGED <<file, runs, lostRuns, git, caches, request, evicted, missed,
                 metaBy, late, crossed>>

(* The run is complete; a refresh in place keeps the model. *)
IndexDone ==
  /\ run \in {"none", "writing"} /\ runs < MaxRuns
  /\ runs' = runs + 1
  /\ \E b \in BOOLEAN :
       /\ run = "none" => b = file[gen].foreign
       /\ file' = [file EXCEPT ![gen] = [ver |-> runs + 1, foreign |-> b]]
  /\ run' = "notify"
  /\ calm' = {}
  /\ UNCHANGED <<gen, lostRuns, git, caches, request, evicted, missed, metaBy,
                 late, crossed>>

(* The run fails half-way and notifies nobody, or
   notify_daemons_of_invalidation gives up without a word. *)
NotifyLost ==
  /\ run \in {"writing", "notify"} /\ lostRuns < MaxLost
  /\ lostRuns' = lostRuns + 1
  /\ missed' = TRUE
  /\ run' = "none"
  /\ UNCHANGED <<gen, file, runs, git, caches, request, evicted, metaBy, late,
                 crossed, calm>>

MoveHead ==
  /\ moves < MaxMoves
  /\ head' \in Heads \ {head}
  /\ moves' = moves + 1
  /\ UNCHANGED <<index, caches, request, history>>

----------------------------------------------------------------------------
(* invalidate_repo: three drops, each under its own lock. *)

DropHandle ==
  /\ run = "notify"
  /\ repos' = None
  /\ evicted' = evicted \union ({repos} \ {None})
  /\ missed' = FALSE
  /\ run' = "dropMeta"
  /\ UNCHANGED <<gen, file, runs, lostRuns, git, conns, meta, blame, request,
                 metaBy, late, crossed, calm>>

DropMeta ==
  /\ run = "dropMeta"
  /\ meta' = None /\ metaBy' = None
  /\ late' = {r \in Requests : at[r] = "put" \/ handle[r] \in evicted}
  /\ run' = "dropBlame"
  /\ UNCHANGED <<gen, file, runs, lostRuns, git, repos, conns, blame, request,
                 evicted, missed, crossed, calm>>

DropBlame ==
  /\ run = "dropBlame"
  /\ blame' = [b \in Blobs |-> None]
  /\ run' = "none"
  /\ UNCHANGED <<gen, file, runs, lostRuns, git, repos, conns, meta, request,
                 evicted, missed, metaBy, late, crossed, calm>>

(* An entry is past its TTL. *)
MetaExpires ==
  /\ meta # None
  /\ meta' = None /\ metaBy' = None
  /\ UNCHANGED <<index, git, repos, conns, blame, request, evicted, missed, late,
                 crossed, calm>>

(* The least recently used entry makes room. *)
BlameEvicted(b) ==
  /\ blame[b] # None
  /\ blame' = [blame EXCEPT ![b] = None]
  /\ UNCHANGED <<index, git, repos, conns, meta, request, history>>

----------------------------------------------------------------------------
(* open_repo. *)

OpenHit(r) ==
  /\ at[r] = "open" /\ repos # None
  /\ handle' = [handle EXCEPT ![r] = repos]
  /\ Goto(r, AfterOpen(r))
  /\ Begin(r)
  /\ UNCHANGED <<index, git, caches, kind, range, hash, seen, out, evicted,
                 missed, metaBy, late, crossed>>

(* The slow path: open storage, with an empty read pool. *)
OpenStorage(r) ==
  /\ at[r] = "open" /\ repos = None
  /\ handle' = [handle EXCEPT ![r] = r]
  /\ Goto(r, "insert")
  /\ Begin(r)
  /\ UNCHANGED <<index, git, caches, kind, range, hash, seen, out, evicted,
                 missed, metaBy, late, crossed>>

(* Under the write lock: the first one in wins. *)
Insert(r) ==
  /\ at[r] = "insert"
  /\ repos' = IF repos = None THEN r ELSE repos
  /\ handle' = [handle EXCEPT ![r] = repos']
  /\ Goto(r, AfterOpen(r))
  /\ UNCHANGED <<index, git, conns, meta, blame, kind, range, hash, seen, out,
                 history>>

----------------------------------------------------------------------------
(* cached_meta, find_pattern and index_status. *)

MetaHit(r) ==
  /\ at[r] = "meta" /\ meta # None
  /\ GoesBy(r, meta)
  /\ calm' = IF metaBy \in late THEN calm \ {r} ELSE calm
  /\ UNCHANGED <<index, git, caches, kind, range, evicted, missed, metaBy, late,
                 crossed>>

MetaMiss(r) ==
  /\ at[r] = "meta" /\ meta = None
  /\ Goto(r, "compose")
  /\ UNCHANGED <<index, git, caches, kind, range, handle, hash, seen, out, history>>

(* compose_response_meta: status and stored metadata, read as one. *)
MetaCompose(r) ==
  /\ at[r] = "compose"
  /\ \E g \in Gens : Reads(r, g) /\ seen' = [seen EXCEPT ![r] = file[g]]
  /\ Goto(r, "put")
  /\ UNCHANGED <<index, git, repos, meta, blame, kind, range, handle, hash, out,
                 history>>

MetaPut(r) ==
  /\ at[r] = "put"
  /\ meta' = seen[r] /\ metaBy' = r
  /\ GoesBy(r, seen[r])
  /\ UNCHANGED <<index, git, repos, conns, blame, kind, range, evicted, missed,
                 late, crossed, calm>>

Refuse(r) ==
  /\ at[r] = "retrieve" /\ seen[r].foreign
  /\ Answer(r, Refused)
  /\ UNCHANGED <<index, git, caches, kind, range, history>>

Retrieve(r) ==
  /\ at[r] = "retrieve" /\ ~seen[r].foreign
  /\ \E g \in Gens : Reads(r, g) /\ Answer(r, file[g])
  /\ UNCHANGED <<index, git, repos, meta, blame, kind, range, history>>

----------------------------------------------------------------------------
(* explain_change. *)

Hash(r) ==
  /\ at[r] = "hash"
  /\ hash' = [hash EXCEPT ![r] = Blob[head]]
  /\ Goto(r, IF Blob[head] = None THEN "blame" ELSE "lookup")
  /\ UNCHANGED <<index, git, caches, kind, range, handle, seen, out, history>>

BlameHit(r) ==
  /\ at[r] = "lookup" /\ blame[hash[r]] # None
  /\ seen' = [seen EXCEPT ![r] = blame[hash[r]]]
  /\ Goto(r, "hydrate")
  /\ UNCHANGED <<index, git, caches, kind, range, handle, hash, out, history>>

BlameMiss(r) ==
  /\ at[r] = "lookup" /\ blame[hash[r]] = None
  /\ Goto(r, "blame")
  /\ UNCHANGED <<index, git, caches, kind, range, handle, hash, seen, out, history>>

(* Blamer::blame_range, at whatever HEAD is by now; nothing is kept of a file
   that had no blob. *)
BlameRange(r) ==
  /\ at[r] = "blame"
  /\ seen' = [seen EXCEPT ![r] =
       [head |-> head, lines |-> IF Blob[head] = None THEN {} ELSE range[r]]]
  /\ crossed' = IF Blob[head] = hash[r] THEN crossed
                ELSE crossed \union ({hash[r]} \ {None})
  /\ Goto(r, IF hash[r] = None THEN "hydrate" ELSE "keep")
  /\ UNCHANGED <<index, git, caches, kind, range, handle, hash, out, evicted,
                 missed, metaBy, late, calm>>

BlamePut(r) ==
  /\ at[r] = "keep"
  /\ blame' = [blame EXCEPT ![hash[r]] = seen[r]]
  /\ Goto(r, "hydrate")
  /\ UNCHANGED <<index, git, repos, conns, meta, kind, range, handle, hash, seen,
                 out, history>>

(* hydrate_blame_results and assemble_explain_result. *)
Hydrate(r) ==
  /\ at[r] = "hydrate"
  /\ \E g \in Gens : Reads(r, g)
  /\ Answer(r, seen[r])
  /\ UNCHANGED <<index, git, repos, meta, blame, kind, range, history>>

(* Any `?` on the way: the request ends, the caches stay as they are. *)
Fails(r) ==
  /\ at[r] \in {"open", "compose", "retrieve", "blame", "hydrate"}
  /\ at[r] = "retrieve" => ~seen[r].foreign
  /\ Answer(r, Error)
  /\ UNCHANGED <<index, git, caches, kind, range, history>>

----------------------------------------------------------------------------
RequestStep(r) ==
  \/ OpenHit(r) \/ OpenStorage(r) \/ Insert(r)
  \/ MetaHit(r) \/ MetaMiss(r) \/ MetaCompose(r) \/ MetaPut(r)
  \/ Refuse(r) \/ Retrieve(r)
  \/ Hash(r) \/ BlameHit(r) \/ BlameMiss(r) \/ BlameRange(r) \/ BlamePut(r)
  \/ Hydrate(r) \/ Fails(r)

Next ==
  \/ Rebuild \/ IndexDone \/ NotifyLost \/ MoveHead
  \/ DropHandle \/ DropMeta \/ DropBlame
  \/ MetaExpires \/ \E b \in Blobs : BlameEvicted(b)
  \/ \E r \in Requests : RequestStep(r)

Spec == Init /\ [][Next]_vars

----------------------------------------------------------------------------
(* Correctness. *)

(* However many requests open the repository at once, those that run on a
   handle not yet dropped all run on the one in the map. *)
OneHandle ==
  \A r \in Requests :
    handle[r] \notin evicted \union {None} /\ at[r] # "insert" => handle[r] = repos

(* Once an index run has been heard of, the handle in the map reads the
   current database file and no deleted one, even if the request that opened
   it had begun before: its pool is still empty when it is inserted. *)
CurrentFile ==
  run \notin {"writing", "notify"} /\ ~missed /\ repos # None
  => conns[repos] \subseteq {gen}

(* After an invalidation a cached meta describes the current index, unless a
   request that had read before it, or holds a dropped handle, has put it. *)
MetaExplained ==
  run \in {"none", "dropBlame"} /\ ~missed /\ meta # None
  => meta = file[gen] \/ metaBy \in late

(* A find_pattern that begins when the engine has heard of the last index run,
   goes by no such late meta and sees no other run answers from the current
   index, and refuses when another model wrote its vectors. *)
CalmFindIsCurrent ==
  \A r \in calm :
    kind[r] = "find" /\ out[r] \notin {None, Error} =>
      IF file[gen].foreign THEN out[r] = Refused ELSE out[r] = file[gen]

(* Cached ranges describe the blob they are filed under, unless HEAD moved
   between the hash and the blame of the request that filed them. *)
BlameExplained ==
  \A b \in Blobs : blame[b] # None => Blob[blame[b].head] = b \/ b \in crossed

(* docs-book/src/introduction.md:19: given a file and a line range, the
   commits behind those lines. *)
AnswersOwnRange ==
  \A r \in Requests :
    kind[r] = "explain" /\ out[r] \notin {None, Error}
    => out[r].lines \subseteq range[r]

=============================================================================
