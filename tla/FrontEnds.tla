----------------------------- MODULE FrontEnds -----------------------------
(***************************************************************************)
(* The doors of one repository: the commands `query`, `explain` and        *)
(* `status`, each a process of its own, and the tools find_pattern and     *)
(* explain_change of an MCP server.  A call goes to a daemon first, the    *)
(* one that is found or spawned, and falls back to an engine in its own    *)
(* process: a command's is made for the call, the MCP server keeps one for *)
(* its session, which no index run ever notifies.  explain_change asks     *)
(* twice, and looks for a daemon each time.  A daemon is a process: the    *)
(* one that replaces another is another member of Daemons, and calls that  *)
(* look at different times may reach different ones.  Meanwhile the index  *)
(* is rebuilt.  A request sees an engine's cache and its file each at one  *)
(* moment: the races of requests inside one engine are EngineCache's.      *)
(***************************************************************************)
EXTENDS Naturals, FiniteSets

CONSTANTS
  Calls,        \* the calls; each is made again and again
  DoorsUsed,    \* through which doors: functions from Calls
  Daemons,      \* the engines that are shared: of the daemons,
  Session,      \* and of the MCP server
  Missing,
  MaxEditions   \* bound on rebuilds

Doors == {"query", "explain", "status", "find_pattern", "explain_change"}
Finds == {"query", "find_pattern"}
Editions == 0..MaxEditions
Metas == [edition : Editions, foreign : BOOLEAN]
Serving == {"verdict", "retrieve", "blame", "status"}

ASSUME DoorAssumption ==
  /\ DoorsUsed \subseteq [Calls -> Doors]
  /\ MaxEditions \in Nat
  /\ Session \notin Daemons /\ (Daemons \union {Session}) \intersect Calls = {}
  /\ Missing \notin Editions \union Metas

VARIABLES
  edition,      \* the database file: how often it has been rebuilt
  foreign,      \* the editions whose vectors are another model's
  running,      \* `ohara index --rebuild` is under way
  files,        \* files[e]: the editions engine e has connections to
  verdict,      \* verdict[e]: the meta e keeps, or Missing
  door,         \* of each call: its door,
  stage,        \* where it is,
  server,       \* the engine that serves it,
  noted,        \* the meta it goes by,
  hits,         \* the edition its hits are read from
  out,          \* and what it came to
  unheard,      \* history: engines with something from before the last rebuild
  calm,         \* history: calls begun on a current index, by engines in step with it
  by,           \* history: by[c]: the engines c's answer is made of
  failedBy      \* history: failedBy[c]: the engine whose error c ends with

indexState == <<edition, foreign, running>>
engineState == <<files, verdict>>
doorVars == <<indexState, engineState, door, stage, server, noted, hits, out,
              unheard, calm, by, failedBy>>

Shared == Daemons \union {Session}
Engines == Calls \union Shared

DoorTypeOK ==
  /\ edition \in Editions /\ foreign \subseteq Editions /\ running \in BOOLEAN
  /\ files \in [Engines -> SUBSET (0..edition)]
  /\ verdict \in [Engines -> Metas \union {Missing}]
  /\ door \in [Calls -> Doors]
  /\ stage \in [Calls -> {"start", "ask", "done"} \union Serving]
  /\ server \in [Calls -> Engines \union {Missing}]
  /\ \A c \in Calls : stage[c] \in Serving \union {"ask"} => server[c] \in Shared \union {c}
  /\ noted \in [Calls -> Metas \union {Missing}]
  /\ hits \in [Calls -> Editions \union {Missing}]
  /\ out \in [Calls -> {"none", "answer", "refused", "error"}]
  /\ unheard \subseteq Shared /\ calm \subseteq Calls
  /\ by \in [Calls -> SUBSET Engines] /\ failedBy \in [Calls -> Engines \union {Missing}]

DoorInit ==
  /\ edition = 0 /\ foreign = {} /\ running = FALSE
  /\ files = [e \in Engines |-> {}]
  /\ verdict = [e \in Engines |-> Missing]
  /\ door \in DoorsUsed
  /\ stage = [c \in Calls |-> "start"]
  /\ server = [c \in Calls |-> Missing]
  /\ noted = [c \in Calls |-> Missing]
  /\ hits = [c \in Calls |-> Missing]
  /\ out = [c \in Calls |-> "none"]
  /\ unheard = {} /\ calm = {}
  /\ by = [c \in Calls |-> {}]
  /\ failedBy = [c \in Calls |-> Missing]

----------------------------------------------------------------------------
(* The engine in the caller's process: OharaServer::engine, or run_standalone's. *)
Own(c) == IF door[c] \in {"find_pattern", "explain_change"} THEN Session ELSE c

(* Mutation: run_standalone with a retriever of its own. *)
Entry_unguarded(c, e) ==
  CASE door[c] = "query" -> IF e = c THEN "retrieve" ELSE "verdict"
    [] door[c] = "find_pattern" -> "verdict"
    [] door[c] = "status" -> "status"
    [] OTHER -> "blame"

(* Where a call begins on engine e: a find with the engine's guard, whichever
   engine it is. *)
Entry(c, e) ==
  CASE door[c] \in Finds -> "verdict"
    [] door[c] = "status" -> "status"
    [] OTHER -> "blame"

(* Mutation: only what is missing is asked of the next engine. *)
Serve_statusOnly(c, e) ==
  /\ server' = [server EXCEPT ![c] = e]
  /\ stage' = [stage EXCEPT ![c] =
       IF @ \in {"ask", "status"} /\ hits[c] # Missing THEN "status" ELSE Entry(c, e)]
  /\ UNCHANGED <<noted, hits, by, out>>

(* Engine e serves c, from the start: nothing another one has answered is kept. *)
Serve(c, e) ==
  /\ server' = [server EXCEPT ![c] = e]
  /\ stage' = [stage EXCEPT ![c] = Entry(c, e)]
  /\ noted' = [noted EXCEPT ![c] = Missing]
  /\ hits' = [hits EXCEPT ![c] = Missing]
  /\ by' = [by EXCEPT ![c] = {}]
  /\ UNCHANGED out

Reply(c, what) ==
  /\ out' = [out EXCEPT ![c] = what]
  /\ stage' = [stage EXCEPT ![c] = "done"]

(* What an edition's metadata say: nothing as long as the run has not ended. *)
Meta(g) == [edition |-> g, foreign |-> g \in foreign /\ ~ (running /\ g = edition)]

(* Engine e reads edition g, by a connection it has or a new one. *)
Reads(e, g) ==
  /\ g \in files[e] \union {edition}
  /\ files' = [files EXCEPT ![e] = @ \union {g}]

(* c has gone by an engine: its answer is no better than the engine. *)
Uses(c) ==
  /\ by' = [by EXCEPT ![c] = @ \union {server[c]}]
  /\ calm' = IF server[c] \in unheard THEN calm \ {c} ELSE calm

BeginCall(c) == calm' = IF running THEN calm ELSE calm \union {c}

----------------------------------------------------------------------------
(* A call. *)

(* try_daemon_call reaches one. *)
CallDaemon(c) ==
  /\ stage[c] = "start" /\ door[c] # "status"
  /\ \E d \in Daemons : Serve(c, d)
  /\ BeginCall(c)
  /\ UNCHANGED <<indexState, engineState, door, unheard, failedBy>>

(* --no-daemon, OHARA_NO_DAEMON, or there is none to be reached. *)
StayInProcess(c) ==
  /\ stage[c] = "start"
  /\ Serve(c, Own(c)) /\ BeginCall(c)
  /\ UNCHANGED <<indexState, engineState, door, unheard, failedBy>>

(* explain_change's second daemon_call, whatever the first one was answered: it
   finds a daemon of its own. *)
AskStatus(c) ==
  /\ stage[c] = "ask"
  /\ \E d \in Daemons : server' = [server EXCEPT ![c] = d]
  /\ stage' = [stage EXCEPT ![c] = "status"]
  /\ UNCHANGED <<indexState, engineState, door, noted, hits, out, unheard, calm, by,
                 failedBy>>

(* The daemon dies, takes more than 30 s, answers more than a frame holds, or
   NotImplemented; or there is none the second time. *)
DaemonLost(c) ==
  /\ stage[c] \in Serving \union {"ask"} /\ server[c] \in Daemons
  /\ Serve(c, Own(c))
  /\ UNCHANGED <<indexState, engineState, door, unheard, calm, failedBy>>

(* Mutation: `ohara query` takes the daemon's word for it. *)
FallsBack_explainOnly(c) == server[c] \in Daemons /\ door[c] \notin Finds

(* What is done about an error the daemon answers: classify_daemon_error,
   decode_find_pattern and decode_ok. *)
FallsBack(c) == server[c] \in Daemons /\ door[c] # "find_pattern"

(* explain_change goes on to its second daemon_call. *)
AsksAgain(c) == door[c] = "explain_change" /\ stage[c] = "blame" /\ server[c] \in Daemons

EngineFails(c) ==
  /\ stage[c] \in Serving
  /\ \/ /\ AsksAgain(c)
        /\ stage' = [stage EXCEPT ![c] = "ask"]
        /\ UNCHANGED <<server, noted, hits, by, out, failedBy>>
     \/ ~ AsksAgain(c) /\ FallsBack(c) /\ Serve(c, Own(c)) /\ UNCHANGED failedBy
     \/ /\ ~ FallsBack(c)
        /\ Reply(c, "error") /\ failedBy' = [failedBy EXCEPT ![c] = server[c]]
        /\ UNCHANGED <<server, noted, hits, by>>
  /\ UNCHANGED <<indexState, engineState, door, unheard, calm>>

(* cached_meta of engine e: the meta that is kept, or what is read now. *)
CachedMeta(e, m) ==
  \/ m = verdict[e] /\ UNCHANGED <<files, verdict>>
  \/ /\ verdict[e] = Missing
     /\ \E g \in Editions : Reads(e, g) /\ m = Meta(g)
     /\ verdict' = [verdict EXCEPT ![e] = m]

(* NeedsRebuild is passed on by every door. *)
Guard(c) ==
  /\ stage[c] = "verdict"
  /\ \E m \in Metas :
       /\ CachedMeta(server[c], m)
       /\ noted' = [noted EXCEPT ![c] = m]
       /\ IF m.foreign
          THEN Reply(c, "refused")
          ELSE stage' = [stage EXCEPT ![c] = "retrieve"] /\ UNCHANGED out
  /\ Uses(c)
  /\ UNCHANGED <<indexState, door, server, hits, unheard, failedBy>>

Retrieve(c) ==
  /\ stage[c] = "retrieve"
  /\ \E g \in Editions : Reads(server[c], g) /\ hits' = [hits EXCEPT ![c] = g]
  /\ Uses(c) /\ Reply(c, "answer")
  /\ UNCHANGED <<indexState, verdict, door, server, noted, unheard, failedBy>>

(* The tool wants the index status, too. *)
ExplainLines(c) ==
  /\ stage[c] = "blame"
  /\ \E g \in Editions : Reads(server[c], g) /\ hits' = [hits EXCEPT ![c] = g]
  /\ Uses(c)
  /\ IF door[c] = "explain_change"
     THEN /\ stage' = [stage EXCEPT ![c] = IF AsksAgain(c) THEN "ask" ELSE "status"]
          /\ UNCHANGED out
     ELSE Reply(c, "answer")
  /\ UNCHANGED <<indexState, verdict, door, server, noted, unheard, failedBy>>

(* compute_index_status, in a process of one's own. *)
StatusHere(e, m) ==
  /\ \E g \in Editions : Reads(e, g) /\ m = Meta(g)
  /\ UNCHANGED verdict

(* What the daemons have answered is not enough: the first half was an error. *)
Halved(c) == server[c] \in Daemons /\ hits[c] = Missing

(* `ohara status`, and the second half of the tool's explain_change. *)
IndexStatus(c) ==
  /\ stage[c] = "status" /\ ~ Halved(c)
  /\ \E m \in Metas :
       /\ IF server[c] \in Daemons THEN CachedMeta(server[c], m) ELSE StatusHere(server[c], m)
       /\ noted' = [noted EXCEPT ![c] = m]
  /\ Uses(c) /\ Reply(c, "answer")
  /\ UNCHANGED <<indexState, door, server, hits, unheard, failedBy>>

StatusInVain(c) ==
  /\ stage[c] = "status" /\ Halved(c)
  /\ \E m \in Metas : CachedMeta(server[c], m)
  /\ Serve(c, Own(c))
  /\ UNCHANGED <<indexState, door, unheard, calm, failedBy>>

(* The next call through the door; a command's engine has ended with its process. *)
CallAgain(c) ==
  /\ stage[c] = "done"
  /\ files' = [files EXCEPT ![c] = {}]
  /\ verdict' = [verdict EXCEPT ![c] = Missing]
  /\ stage' = [stage EXCEPT ![c] = "start"]
  /\ server' = [server EXCEPT ![c] = Missing]
  /\ noted' = [noted EXCEPT ![c] = Missing]
  /\ hits' = [hits EXCEPT ![c] = Missing]
  /\ out' = [out EXCEPT ![c] = "none"]
  /\ calm' = calm \ {c}
  /\ by' = [by EXCEPT ![c] = {}]
  /\ failedBy' = [failedBy EXCEPT ![c] = Missing]
  /\ UNCHANGED <<indexState, door, unheard>>

----------------------------------------------------------------------------
(* Everything else. *)

(* The file is deleted and begun anew, perhaps by a build with another model. *)
RebuildBegins ==
  /\ ~ running /\ edition < MaxEditions
  /\ edition' = edition + 1 /\ running' = TRUE
  /\ foreign' \in {foreign, foreign \union {edition + 1}}
  /\ calm' = {}
  /\ UNCHANGED <<engineState, door, stage, server, noted, hits, out, unheard, by,
                 failedBy>>

RebuildEnds ==
  /\ running
  /\ running' = FALSE
  /\ unheard' = {e \in Shared : files[e] # {} \/ verdict[e] # Missing}
  /\ UNCHANGED <<edition, foreign, engineState, door, stage, server, noted, hits,
                 out, calm, by, failedBy>>

(* InvalidateRepo, of this run or a late one of the run before. *)
DaemonHears(d) ==
  /\ files[d] # {} \/ verdict[d] # Missing
  /\ files' = [files EXCEPT ![d] = {}]
  /\ verdict' = [verdict EXCEPT ![d] = Missing]
  /\ unheard' = unheard \ {d}
  /\ UNCHANGED <<indexState, door, stage, server, noted, hits, out, calm, by, failedBy>>

(* A meta is past its TTL; a command asks its engine's but once. *)
VerdictExpires(e) ==
  /\ verdict[e] # Missing
  /\ verdict' = [verdict EXCEPT ![e] = Missing]
  /\ UNCHANGED <<indexState, files, door, stage, server, noted, hits, out, unheard,
                 calm, by, failedBy>>

CallStep(c) ==
  \/ CallDaemon(c) \/ AskStatus(c) \/ StayInProcess(c) \/ DaemonLost(c) \/ EngineFails(c)
  \/ Guard(c) \/ Retrieve(c) \/ ExplainLines(c) \/ IndexStatus(c) \/ StatusInVain(c)
  \/ CallAgain(c)

DoorNext ==
  \/ \E c \in Calls : CallStep(c)
  \/ RebuildBegins \/ RebuildEnds
  \/ \E d \in Daemons : DaemonHears(d)
  \/ \E e \in Shared : VerdictExpires(e)

DoorSpec == DoorInit /\ [][DoorNext]_doorVars

----------------------------------------------------------------------------
(* Correctness. *)

(* Through either door and by whichever engine in the end, a find that begins on
   a current index, and goes by no engine that keeps something from before it,
   answers from that index, or refuses if another model wrote its vectors. *)
FindsAreGuarded ==
  \A c \in calm : door[c] \in Finds =>
    /\ out[c] = "answer" => hits[c] = edition /\ edition \notin foreign
    /\ out[c] = "refused" => edition \in foreign

(* What daemons answer to explain_change is never put together with what the
   server's own engine does, though they may be lost, or err, in either of the two
   calls; and hits and status are of one index, also from two daemons, unless an
   engine they are from has missed a rebuild. *)
ExplainIsUnmixed ==
  \A c \in Calls : door[c] = "explain_change" /\ out[c] = "answer" =>
    /\ by[c] \subseteq Daemons \/ by[c] = {Own(c)}
    /\ c \in calm => hits[c] = edition /\ noted[c].edition = edition

(* Nothing a daemon does, or fails to do, keeps a command or an explain_change
   from its answer: an error it ends with is the error of the engine in the
   caller's own process.  find_pattern reports an error the daemon answers. *)
DaemonIsOptional ==
  \A c \in Calls : out[c] = "error" =>
    failedBy[c] = Own(c) \/ (door[c] = "find_pattern" /\ failedBy[c] \in Daemons)

=============================================================================
