----------------------------- MODULE ModelFiles -----------------------------
(***************************************************************************)
(* How a model comes to run: the execution provider that is chosen, the    *)
(* directory the model's files are kept in, and their download, by several *)
(* processes of one machine at once, which may die, while the network      *)
(* fails and somebody clears the caches.  What a loaded session is used    *)
(* for is in ModelCalls.                                                   *)
(***************************************************************************)
EXTENDS Naturals, FiniteSets

CONSTANTS
  Loads,        \* the loads of a model, each by a process of its own
  Setups,       \* what each may be: see Setup
  Files         \* the files of a model: REQUIRED_FILES

(* command: index, query, or serve for the daemon and the MCP server; role: the
   model that is wanted; arg: --embed-provider; features, macos: the build;
   cuda: CUDA_VISIBLE_DEVICES lists a device; int8: OHARA_RERANKER;
   pinned: FASTEMBED_CACHE_DIR is set; home: HOME or XDG_CACHE_HOME is. *)
Setup ==
  [command : {"index", "query", "serve"}, role : {"embedder", "reranker"},
   arg : {"auto", "cpu", "coreml", "cuda"}, features : SUBSET {"coreml", "cuda"},
   macos : BOOLEAN, cuda : BOOLEAN, int8 : BOOLEAN, pinned : BOOLEAN, home : BOOLEAN]

ASSUME LoadAssumption ==
  /\ Files # {}
  /\ Setups \subseteq {s \in Setup : s.command = "index" => s.role = "embedder"}

Models == {"quantized", "fp32", "base", "int8"}

Pinned == <<"pinned">>
Machine == <<"machine">>
Hub == <<"hub">>
Working(l) == <<"working", l>>
Directories == {Pinned, Machine, Hub} \union {Working(l) : l \in Loads}

VARIABLES
  setup,        \* setup[l]
  step,         \* how far l is
  disk,         \* disk[d][m]: the files of m in d
  reasons       \* history: what stood in the way of l's attempt

loadVars == <<setup, step, disk, reasons>>

LoadSteps == {"idle", "look", "fetch", "read", "ready", "failed"}

(* All that is ever seen of a file on disk is the whole of it. *)
LoadTypeOK ==
  /\ setup \in [Loads -> Setups] /\ step \in [Loads -> LoadSteps]
  /\ disk \in [Directories -> [Models -> SUBSET Files]]
  /\ reasons \in [Loads -> SUBSET {"provider", "network", "cleared"}]

LoadInit ==
  /\ setup \in [Loads -> Setups] /\ \A k, l \in Loads : setup[k].macos = setup[l].macos
  /\ step = [l \in Loads |-> "idle"]
  /\ disk = [d \in Directories |-> [m \in Models |-> {}]]
  /\ reasons = [l \in Loads |-> {}]

----------------------------------------------------------------------------
(* The provider. *)

CoreMlAvailable(s) == "coreml" \in s.features /\ s.macos

DetectProvider(s) ==
  IF s.cuda THEN "cuda" ELSE IF CoreMlAvailable(s) THEN "coreml" ELSE "cpu"

ResolveProvider(s) == IF s.arg = "auto" THEN DetectProvider(s) ELSE s.arg

(* A query embeds on the CPU instead of with CoreML, the daemon on the CPU. *)
Provider(s) ==
  IF s.command = "serve" \/ (s.command = "query" /\ ResolveProvider(s) = "coreml")
  THEN "cpu" ELSE ResolveProvider(s)

(* execution_providers_for: the ones this build has. *)
Enabled(s) ==
  {"cpu"} \union {x \in {"coreml"} : x \in s.features /\ s.macos}
          \union {x \in {"cuda"} : x \in s.features}

Model(s) ==
  CASE s.role = "reranker" -> IF s.int8 THEN "int8" ELSE "base"
    [] s.role = "embedder" -> IF Provider(s) = "coreml" THEN "fp32" ELSE "quantized"

----------------------------------------------------------------------------
(* The files. *)

(* resolve_cache_dir. *)
CacheDir(l) ==
  CASE setup[l].pinned -> Pinned
    [] ~ setup[l].pinned /\ setup[l].home -> Machine
    [] ~ setup[l].pinned /\ ~ setup[l].home -> Working(l)

(* Where l's model is looked for: the INT8 reranker with hf-hub's own default. *)
Place(l) == IF Model(setup[l]) = "int8" THEN Hub ELSE CacheDir(l)

Present(l) == disk[Place(l)][Model(setup[l])]

(* Mutation: one file will do. *)
Complete_some(l) == Present(l) # {}

(* find_complete_snapshot. *)
Complete(l) == Present(l) = Files

Move(l, to) == step' = [step EXCEPT ![l] = to]
Blame(l, what) == reasons' = [reasons EXCEPT ![l] = @ \union what]

(* The provider is looked at before anything is fetched, but for INT8. *)
BeginLoad(l) ==
  /\ step[l] = "idle"
  /\ IF Provider(setup[l]) \in Enabled(setup[l]) \/ Model(setup[l]) = "int8"
     THEN Move(l, IF Model(setup[l]) = "fp32" THEN "look" ELSE "fetch") /\ UNCHANGED reasons
     ELSE Move(l, "failed") /\ Blame(l, {"provider"})
  /\ UNCHANGED <<setup, disk>>

(* ensure_fp32_snapshot, before and after the download. *)
Look(l) ==
  /\ step[l] = "look"
  /\ Move(l, IF Complete(l) THEN "read" ELSE "fetch")
  /\ UNCHANGED <<setup, disk, reasons>>

(* hf-hub fetches a file it has not got, and shows it whole or not at all. *)
Fetch(l, f) ==
  /\ step[l] = "fetch" /\ f \notin Present(l)
  /\ disk' = [disk EXCEPT ![Place(l)][Model(setup[l])] = @ \union {f}]
  /\ UNCHANGED <<setup, step, reasons>>

NetworkFails(l) ==
  /\ step[l] = "fetch" /\ Present(l) # Files
  /\ Move(l, "failed") /\ Blame(l, {"network"})
  /\ UNCHANGED <<setup, disk>>

(* The second find_complete_snapshot may not find it any more. *)
Fetched(l) ==
  /\ step[l] = "fetch" /\ Present(l) = Files
  /\ Move(l, "read")
  /\ UNCHANGED <<setup, disk, reasons>>

(* The session is made of the files as they are now; an INT8 reranker's
   provider is looked at only here. *)
Open(l) ==
  /\ step[l] = "read"
  /\ LET lacks == IF Provider(setup[l]) \in Enabled(setup[l]) THEN {} ELSE {"provider"}
     IN  /\ Blame(l, lacks)
         /\ Move(l, IF Present(l) = Files /\ lacks = {} THEN "ready" ELSE "failed")
  /\ UNCHANGED <<setup, disk>>

(* The next call of a lazy provider, the next `ohara index`. *)
Retry(l) ==
  /\ step[l] = "failed"
  /\ Move(l, "idle") /\ reasons' = [reasons EXCEPT ![l] = {}]
  /\ UNCHANGED <<setup, disk>>

(* The process ends, with what it had fetched left as it is, or drops its
   session; another takes its place. *)
Leave(l) ==
  /\ step[l] \notin {"idle", "failed"}
  /\ Move(l, "idle") /\ reasons' = [reasons EXCEPT ![l] = {}]
  /\ UNCHANGED <<setup, disk>>

(* A cache directory is cleared. *)
ClearCache(d) ==
  /\ disk' = [disk EXCEPT ![d] = [m \in Models |-> {}]]
  /\ disk' # disk
  /\ reasons' = [l \in Loads |-> IF step[l] \in {"look", "fetch", "read"} /\ Place(l) = d
                                 THEN reasons[l] \union {"cleared"} ELSE reasons[l]]
  /\ UNCHANGED <<setup, step>>

LoadNext ==
  \/ \E l \in Loads : BeginLoad(l) \/ Look(l) \/ NetworkFails(l) \/ Fetched(l) \/ Open(l)
                      \/ Retry(l) \/ Leave(l)
  \/ \E l \in Loads, f \in Files : Fetch(l, f)
  \/ \E d \in Directories : ClearCache(d)

LoadSpec == LoadInit /\ [][LoadNext]_loadVars

----------------------------------------------------------------------------
(* Correctness. *)

(* No death in the middle of a download, of this process or of another one,
   makes a later load fail: a load fails for want of the network, because the
   cache was cleared under it, or because the provider that was asked for is
   not in the build; `auto` only where a CUDA device is listed. *)
FailsForAReason ==
  \A l \in Loads : step[l] = "failed" =>
    \/ reasons[l] \intersect {"network", "cleared"} # {}
    \/ setup[l].arg # "auto" /\ setup[l].arg \notin Enabled(setup[l])
    \/ setup[l].arg = "auto" /\ setup[l].cuda /\ "cuda" \notin setup[l].features

(* cache.rs:11: "models download and compile once per machine, not once per
   working directory": processes that are given no directory of their own and
   have a home keep a file in one place, wherever they are run from. *)
OncePerMachine ==
  (\A l \in Loads : setup[l].home) =>
    \A m \in Models, f \in Files :
      Cardinality({d \in Directories \ {Pinned} : f \in disk[d][m]}) <= 1

=============================================================================
