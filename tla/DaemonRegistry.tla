--------------------------- MODULE DaemonRegistry ---------------------------
(***************************************************************************)
(* The shared daemon: client processes find it in the registry file or     *)
(* spawn it under the file's lock, call it over its socket and fall back   *)
(* when that fails; `ohara daemon stop` shuts it down; it heartbeats, exits *)
(* when idle and drains; its process ends once no blocking call is under   *)
(* way in it.  Clients and daemons may be killed, a registry operation may *)
(* fail or be cut short, and the host may sleep through the five minutes   *)
(* after which a record is stale.  A client spawns at most one daemon,     *)
(* which is named after it.  All are of one version.                       *)
(***************************************************************************)
EXTENDS Naturals, FiniteSets

CONSTANTS
  Procs,       \* the client processes, and the daemons they may spawn
  Kinds,       \* which clients call a daemon and which stop them
  None,
  MaxFaults    \* bound on killed processes, I/O errors and sleeps of the host

ASSUME RegistryAssumption ==
  /\ Kinds \subseteq [Procs -> {"call", "stop"}]
  /\ MaxFaults \in Nat
  /\ None \notin Procs

VARIABLES
  recs,        \* the daemons with a record in the file
  torn,        \* the file is empty: truncated and never written
  fresh,       \* the daemons whose last heartbeat is at most five minutes old
  lock,        \* the client that holds the file's lock while it spawns
  daemon,      \* daemon[d]: where that process is
  ready,       \* the daemons whose readiness and pid files exist
  at, kind,    \* of each client: its step, and what it does
  pick,        \* pick[c]: the daemon c calls
  list,        \* list[c]: the daemons c has yet to stop
  conn,        \* conn[c]: c's connection
  blocked,     \* the clients whose request is inside a blocking call
  faults,      \* how many faults there have been
  excused      \* history: daemons a fault cut off from the registry

registry == <<recs, torn, fresh, lock>>
daemons == <<daemon, ready>>
clients == <<at, kind, pick, list>>
luck == <<faults, excused>>
vars == <<registry, daemons, clients, conn, blocked, luck>>

Ended == {"done", "killed"}

TypeOK ==
  /\ recs \in SUBSET Procs /\ fresh \in SUBSET Procs
  /\ torn \in BOOLEAN /\ (torn => recs = {})
  /\ lock \in Procs \union {None} /\ (lock # None => at[lock] = "wait")
  /\ daemon \in [Procs -> {"unborn", "booting", "up", "told", "draining",
                           "leaving", "zombie", "gone"}]
  /\ ready \in SUBSET Procs
  /\ at \in [Procs -> {"open", "lock", "wait", "call", "sent", "unlist"} \union Ended]
  /\ kind \in [Procs -> {"call", "stop"}]
  /\ pick \in [Procs -> Procs \union {None}]
  /\ list \in [Procs -> SUBSET Procs]
  /\ conn \in [Procs -> {"none", "backlog", "handled", "answered", "closed"}]
  /\ blocked \in SUBSET Procs
  /\ faults \in 0..MaxFaults /\ excused \in SUBSET Procs

Init ==
  /\ recs = {} /\ torn = FALSE /\ fresh = {} /\ lock = None
  /\ daemon = [d \in Procs |-> "unborn"] /\ ready = {}
  /\ at = [c \in Procs |-> "open"]
  /\ kind \in Kinds
  /\ pick = [c \in Procs |-> None]
  /\ list = [c \in Procs |-> {}]
  /\ conn = [c \in Procs |-> "none"]
  /\ blocked = {}
  /\ faults = 0 /\ excused = {}

Running(d) == daemon[d] \in {"booting", "up", "told", "draining", "leaving"}
Listening(d) == daemon[d] \in {"up", "told"}
Bound(d) == Listening(d) \/ daemon[d] = "draining"

(* pid_alive: kill(pid, 0) succeeds for a child nobody has waited for. *)
PidAlive(d) == Running(d) \/ daemon[d] = "zombie"

(* prune_dead: a dead daemon's heartbeat is five minutes old sooner or later. *)
Pruned == {d \in recs : PidAlive(d) /\ d \in fresh}

(* A spawn_blocking call for one of d's requests has not returned: dropping the
   task that waits for it does not stop it. *)
Busy(d) == \E c \in blocked : pick[c] = d

Faulty == faults < MaxFaults /\ faults' = faults + 1

(* What exit leaves: a zombie until the process that spawned d ends too. *)
Remains(d) == IF at[d] = "killed" THEN "gone" ELSE "zombie"

Goto(c, step) == at' = [at EXCEPT ![c] = step]

(* try_daemon_call returns None: the caller goes on by itself, which FrontEnds
   models; a stop goes on to the next daemon. *)
FallBack(c) ==
  IF kind[c] = "stop"
  THEN Goto(c, "unlist") /\ pick' = [pick EXCEPT ![c] = None]
  ELSE Goto(c, "done") /\ UNCHANGED pick

(* The connections of d are reset; its socket and files are removed. *)
Closed(d) ==
  conn' = [c \in Procs |->
             IF pick[c] = d /\ conn[c] \in {"backlog", "handled"} THEN "closed"
             ELSE conn[c]]

(* A process dies, or an operation fails, within a registry write: after
   set_len(0), before write_all. *)
CutWrite(who) ==
  /\ torn' = TRUE
  /\ recs' = {}
  /\ excused' = excused \union {d \in recs \union who : Running(d)}

----------------------------------------------------------------------------
(* A client: Registry::open, then find_or_spawn_daemon or list_alive. *)

(* An empty file is seeded, under the lock. *)
Open(c) ==
  /\ at[c] = "open" /\ lock = None
  /\ torn' = FALSE
  /\ Goto(c, "lock")
  /\ UNCHANGED <<recs, fresh, lock, daemons, kind, pick, list, conn, blocked, luck>>

(* The file was cut short since: it does not parse. *)
ParseFails(c) ==
  /\ at[c] = "lock" /\ lock = None /\ torn
  /\ Goto(c, "done")
  /\ UNCHANGED <<registry, daemons, kind, pick, list, conn, blocked, luck>>

(* locked_update finds a daemon, and writes the pruned list back. *)
Find(c) ==
  /\ at[c] = "lock" /\ lock = None /\ ~torn /\ kind[c] = "call"
  /\ \E d \in Pruned : pick' = [pick EXCEPT ![c] = d]
  /\ recs' = Pruned
  /\ Goto(c, "call")
  /\ UNCHANGED <<torn, fresh, lock, daemons, kind, list, conn, blocked, luck>>

(* Mutation: the lock is let go of as soon as the list has been looked at. *)
Spawn_unlocked(c) ==
  /\ at[c] = "lock" /\ lock = None /\ ~torn /\ kind[c] = "call"
  /\ Pruned = {}
  /\ daemon' = [daemon EXCEPT ![c] = "booting"]
  /\ Goto(c, "wait")
  /\ UNCHANGED <<registry, ready, kind, pick, list, conn, blocked, luck>>

(* None is left: spawn one and keep the lock. *)
Spawn(c) ==
  /\ at[c] = "lock" /\ lock = None /\ ~torn /\ kind[c] = "call"
  /\ Pruned = {}
  /\ lock' = c
  /\ daemon' = [daemon EXCEPT ![c] = "booting"]
  /\ Goto(c, "wait")
  /\ UNCHANGED <<recs, torn, fresh, ready, kind, pick, list, conn, blocked, luck>>

(* Command::spawn fails; the pruned list is written all the same. *)
SpawnFails(c) ==
  /\ at[c] = "lock" /\ lock = None /\ ~torn /\ kind[c] = "call"
  /\ Pruned = {}
  /\ recs' = {}
  /\ Goto(c, "done")
  /\ UNCHANGED <<torn, fresh, lock, daemons, kind, pick, list, conn, blocked, luck>>

(* The readiness file is there: record the daemon and let go of the lock. *)
Register(c) ==
  /\ at[c] = "wait" /\ c \in ready
  /\ recs' = {c} /\ fresh' = fresh \union {c}
  /\ lock' = None
  /\ pick' = [pick EXCEPT ![c] = c]
  /\ Goto(c, "call")
  /\ UNCHANGED <<torn, daemons, kind, list, conn, blocked, luck>>

(* Mutation: the child is left to boot. *)
ReadinessTimeout_orphans(c) ==
  /\ at[c] = "wait"
  /\ recs' = {}
  /\ lock' = None
  /\ Goto(c, "done")
  /\ UNCHANGED <<torn, fresh, daemons, kind, pick, list, conn, blocked, luck>>

(* terminate_and_reap, and the child's files removed. *)
Reaped(c) ==
  /\ daemon' = [daemon EXCEPT ![c] = "gone"]
  /\ ready' = ready \ {c}

(* Ten seconds are over: terminate_and_reap the child, record nothing. *)
ReadinessTimeout(c) ==
  /\ at[c] = "wait"
  /\ Reaped(c)
  /\ recs' = {}
  /\ lock' = None
  /\ Goto(c, "done")
  /\ UNCHANGED <<torn, fresh, kind, pick, list, conn, blocked, luck>>

(* The readiness file is there, but the pid file cannot be read: the child runs
   on, and nothing is recorded. *)
PidUnread(c) ==
  /\ at[c] = "wait" /\ c \in ready
  /\ Faulty
  /\ recs' = {}
  /\ lock' = None
  /\ Goto(c, "done")
  /\ excused' = excused \union {c}
  /\ UNCHANGED <<torn, fresh, daemons, kind, pick, list, conn, blocked>>

(* An I/O error in Registry::open, or in mutate before or within the write: what
   the closure did to the list is lost, a child it has spawned runs on. *)
RegistryFails(c) ==
  /\ \/ at[c] \in {"open", "lock"} /\ lock = None /\ UNCHANGED daemons
     \/ at[c] = "wait" /\ c \in ready /\ UNCHANGED daemons
     \/ at[c] = "wait" /\ Reaped(c)
  /\ Faulty
  /\ \/ /\ excused' = IF lock = c THEN excused \union {c} ELSE excused
        /\ UNCHANGED <<recs, torn>>
     \/ at[c] # "open" /\ ~torn /\ CutWrite(IF lock = c THEN {c} ELSE {})
  /\ lock' = None
  /\ Goto(c, "done")
  /\ UNCHANGED <<fresh, kind, pick, list, conn, blocked>>

(* list_alive, the first thing `ohara daemon stop` does. *)
ListAlive(c) ==
  /\ at[c] = "lock" /\ lock = None /\ ~torn /\ kind[c] = "stop"
  /\ recs' = Pruned
  /\ list' = [list EXCEPT ![c] = Pruned]
  /\ Goto(c, "unlist")
  /\ UNCHANGED <<torn, fresh, lock, daemons, kind, pick, conn, blocked, luck>>

(* The next daemon of the list, or the end of it. *)
StopNext(c) ==
  /\ at[c] = "unlist" /\ pick[c] = None
  /\ \/ /\ list[c] = {}
        /\ Goto(c, "done")
        /\ UNCHANGED <<pick, list>>
     \/ \E d \in list[c] :
          /\ pick' = [pick EXCEPT ![c] = d]
          /\ list' = [list EXCEPT ![c] = @ \ {d}]
          /\ Goto(c, "call")
  /\ UNCHANGED <<registry, daemons, kind, conn, blocked, luck>>

(* unregister, once Shutdown has been answered; a torn file is left alone. *)
Unregister(c) ==
  /\ at[c] = "unlist" /\ pick[c] # None /\ lock = None
  /\ recs' = recs \ {pick[c]}
  /\ pick' = [pick EXCEPT ![c] = None]
  /\ UNCHANGED <<torn, fresh, lock, daemons, at, kind, list, conn, blocked, luck>>

(* An error of unregister is ignored. *)
UnregisterFails(c) ==
  /\ at[c] = "unlist" /\ pick[c] # None /\ lock = None
  /\ Faulty
  /\ \/ UNCHANGED <<recs, torn, excused>>
     \/ ~torn /\ CutWrite({})
  /\ pick' = [pick EXCEPT ![c] = None]
  /\ UNCHANGED <<fresh, lock, daemons, at, kind, list, conn, blocked>>

----------------------------------------------------------------------------
(* A client: Client::call, bounded by its timeout. *)

(* The socket takes connections until the draining daemon removes it. *)
Connect(c) ==
  /\ at[c] = "call"
  /\ \/ /\ Bound(pick[c])
        /\ conn' = [conn EXCEPT ![c] = "backlog"]
        /\ Goto(c, "sent")
        /\ UNCHANGED pick
     \/ /\ ~Bound(pick[c])
        /\ FallBack(c)
        /\ UNCHANGED conn
  /\ UNCHANGED <<registry, daemons, kind, list, blocked, luck>>

GetReply(c) ==
  /\ at[c] = "sent" /\ conn[c] = "answered"
  /\ conn' = [conn EXCEPT ![c] = "none"]
  /\ Goto(c, IF kind[c] = "call" THEN "done" ELSE "unlist")
  /\ UNCHANGED <<registry, daemons, kind, pick, list, blocked, luck>>

GetEof(c) ==
  /\ at[c] = "sent" /\ conn[c] = "closed"
  /\ conn' = [conn EXCEPT ![c] = "none"]
  /\ FallBack(c)
  /\ UNCHANGED <<registry, daemons, kind, list, blocked, luck>>

(* Mutation: the timeout is for connecting, not for reading the response. *)
CallTimeout_connectOnly(c) ==
  /\ at[c] = "sent" /\ conn[c] = "backlog"
  /\ conn' = [conn EXCEPT ![c] = "none"]
  /\ FallBack(c)
  /\ UNCHANGED <<registry, daemons, kind, list, blocked, luck>>

(* The whole round trip is under one timeout, whatever the daemon does; the
   handler goes on without its client. *)
CallTimeout(c) ==
  /\ at[c] = "sent" /\ conn[c] # "closed"
  /\ conn' = [conn EXCEPT ![c] = "none"]
  /\ FallBack(c)
  /\ UNCHANGED <<registry, daemons, kind, list, blocked, luck>>

----------------------------------------------------------------------------
(* A daemon: run_daemon_with_engine and serve_unix. *)

(* The socket is bound, the pid and readiness files are written. *)
Boot(d) ==
  /\ daemon[d] = "booting"
  /\ daemon' = [daemon EXCEPT ![d] = "up"]
  /\ ready' = ready \union {d}
  /\ UNCHANGED <<registry, clients, conn, blocked, luck>>

BootFails(d) ==
  /\ daemon[d] = "booting"
  /\ daemon' = [daemon EXCEPT ![d] = Remains(d)]
  /\ UNCHANGED <<registry, ready, clients, conn, blocked, luck>>

(* touch_health: nothing happens to a daemon without a record. *)
Heartbeat(d) ==
  /\ Listening(d) /\ lock = None
  /\ torn' = FALSE
  /\ fresh' = fresh \union ({d} \intersect recs)
  /\ excused' = excused \ ({d} \intersect recs)
  /\ UNCHANGED <<recs, lock, daemons, clients, conn, blocked, faults>>

(* An error of touch_health is ignored; the next one is thirty seconds away. *)
HeartbeatFails(d) ==
  /\ Listening(d) /\ lock = None /\ ~torn
  /\ Faulty
  /\ CutWrite({})
  /\ UNCHANGED <<fresh, lock, daemons, clients, conn, blocked>>

Accept(d, c) ==
  /\ Listening(d) /\ pick[c] = d /\ conn[c] = "backlog"
  /\ conn' = [conn EXCEPT ![c] = "handled"]
  /\ UNCHANGED <<registry, daemons, clients, blocked, luck>>

(* Mutation: the token is looked at after the next connection only. *)
Cancel_onAccept(d) ==
  /\ daemon[d] = "told"
  /\ \E c \in Procs : pick[c] = d /\ conn[c] = "backlog"
  /\ daemon' = [daemon EXCEPT ![d] = "draining"]
  /\ UNCHANGED <<registry, ready, clients, conn, blocked, luck>>

(* A load of a model, an embedding, a blame or a statement on the database: a
   thread the handler waits for, which may never return. *)
StartBlocking(d, c) ==
  /\ Bound(d) /\ pick[c] = d /\ conn[c] = "handled" /\ kind[c] = "call"
  /\ blocked' = blocked \union {c}
  /\ UNCHANGED <<registry, daemons, clients, conn, luck>>

FinishBlocking(c) ==
  /\ c \in blocked
  /\ blocked' = blocked \ {c}
  /\ UNCHANGED <<registry, daemons, clients, conn, luck>>

(* A Shutdown is answered before the token is cancelled. *)
Answer(d, c) ==
  /\ Bound(d) /\ pick[c] = d /\ conn[c] = "handled" /\ c \notin blocked
  /\ conn' = [conn EXCEPT ![c] = "answered"]
  /\ daemon' = IF kind[c] = "stop" /\ daemon[d] = "up"
               THEN [daemon EXCEPT ![d] = "told"] ELSE daemon
  /\ UNCHANGED <<registry, ready, clients, blocked, luck>>

Cancel(d) ==
  /\ daemon[d] = "told"
  /\ daemon' = [daemon EXCEPT ![d] = "draining"]
  /\ UNCHANGED <<registry, ready, clients, conn, blocked, luck>>

(* The idle watchdog looks, then cancels: a request may have come in between. *)
IdleExit(d) ==
  /\ daemon[d] = "up"
  /\ daemon' = [daemon EXCEPT ![d] = "draining"]
  /\ UNCHANGED <<registry, ready, clients, conn, blocked, luck>>

(* The handlers are done or five seconds are over, and what is left of them is
   aborted: the socket and the files are removed, the record stays. *)
Exit(d) ==
  /\ daemon[d] = "draining"
  /\ daemon' = [daemon EXCEPT ![d] = "leaving"]
  /\ ready' = ready \ {d}
  /\ Closed(d)
  /\ UNCHANGED <<registry, clients, blocked, luck>>

(* main returns: dropping the runtime waits for the blocking calls. *)
End(d) ==
  /\ daemon[d] = "leaving" /\ ~Busy(d)
  /\ daemon' = [daemon EXCEPT ![d] = Remains(d)]
  /\ UNCHANGED <<registry, ready, clients, conn, blocked, luck>>

----------------------------------------------------------------------------
(* The system. *)

(* The process that spawned d ends. *)
Reap(d) ==
  /\ daemon[d] = "zombie" /\ at[d] \in Ended
  /\ daemon' = [daemon EXCEPT ![d] = "gone"]
  /\ UNCHANGED <<registry, ready, clients, conn, blocked, luck>>

(* Five minutes have gone by since d's last heartbeat in its record: it beats no
   more once its token is cancelled. *)
Stale(d) ==
  /\ d \in recs \intersect fresh /\ (~Running(d) \/ daemon[d] = "leaving")
  /\ fresh' = fresh \ {d}
  /\ UNCHANGED <<recs, torn, lock, daemons, clients, conn, blocked, luck>>

(* The host sleeps for longer than that: every heartbeat is old. *)
HostSleeps ==
  /\ Faulty
  /\ fresh' = {}
  /\ excused' = excused \union {d \in recs : Running(d)}
  /\ UNCHANGED <<recs, torn, lock, daemons, clients, conn, blocked>>

(* A client is killed; the kernel releases its lock.  A daemon it has spawned
   runs on. *)
KillClient(c) ==
  /\ at[c] \notin Ended
  /\ Faulty
  /\ Goto(c, "killed")
  /\ lock' = IF lock = c THEN None ELSE lock
  /\ conn' = [conn EXCEPT ![c] = "none"]
  /\ daemon' = [daemon EXCEPT ![c] = IF @ = "zombie" THEN "gone" ELSE @]
  /\ \/ /\ excused' = IF lock = c THEN excused \union {c} ELSE excused
        /\ UNCHANGED <<recs, torn>>
     \/ /\ at[c] \in {"lock", "wait", "unlist"} /\ lock \in {None, c}
        /\ CutWrite(IF lock = c THEN {c} ELSE {})
  /\ UNCHANGED <<fresh, ready, kind, pick, list, blocked>>

KillDaemon(d) ==
  /\ Running(d)
  /\ Faulty
  /\ daemon' = [daemon EXCEPT ![d] = Remains(d)]
  /\ Closed(d)
  /\ blocked' = {c \in blocked : pick[c] # d}
  /\ \/ UNCHANGED <<recs, torn, excused>>
     \/ Listening(d) /\ lock = None /\ CutWrite({})
  /\ UNCHANGED <<fresh, lock, ready, clients>>

----------------------------------------------------------------------------
ClientStep(c) ==
  \/ ParseFails(c) \/ Find(c) \/ Spawn(c) \/ SpawnFails(c) \/ Register(c)
  \/ ReadinessTimeout(c) \/ ListAlive(c) \/ StopNext(c) \/ Unregister(c)
  \/ Connect(c) \/ GetReply(c) \/ GetEof(c) \/ CallTimeout(c)

Serves(d) ==
  \/ Boot(d) \/ BootFails(d) \/ Heartbeat(d) \/ IdleExit(d)
  \/ \E c \in Procs : Accept(d, c) \/ StartBlocking(d, c) \/ Answer(d, c)

Fault ==
  \/ HostSleeps
  \/ \E p \in Procs : KillClient(p) \/ KillDaemon(p)
  \/ \E p \in Procs : PidUnread(p) \/ RegistryFails(p) \/ UnregisterFails(p) \/ HeartbeatFails(p)

Next ==
  \/ \E c \in Procs : Open(c) \/ ClientStep(c) \/ FinishBlocking(c)
  \/ \E d \in Procs : Serves(d) \/ Cancel(d) \/ Exit(d) \/ End(d) \/ Reap(d) \/ Stale(d)
  \/ Fault

Spec == Init /\ [][Next]_vars

(* A client that has begun goes on, its timers included; a daemon leaves its
   loop once cancelled, drains for five seconds at most, and ends when nothing
   blocks it.  It may take for ever to boot, to answer or in a blocking call. *)
Fairness ==
  /\ \A c \in Procs : WF_vars(ClientStep(c))
  /\ \A d \in Procs : WF_vars(Cancel(d)) /\ WF_vars(Exit(d)) /\ WF_vars(End(d))

FairSpec == Spec /\ Fairness

----------------------------------------------------------------------------
(* Correctness. *)

(* client/spawn.rs:73: no daemon holds a socket nobody can find.  A daemon that
   serves is in the registry, or the client that spawned it is about to record
   it, or a fault has cut it off: no concurrent update loses a record. *)
Discoverable ==
  \A d \in Procs : daemon[d] = "up" => d \in recs \/ lock = d \/ d \in excused

(* Concurrent cold starts, exits and stops leave one daemon to share: only
   one that a fault has cut off may run beside it. *)
OneDaemon ==
  \A d, e \in Procs \ excused : daemon[d] = "up" /\ daemon[e] = "up" => d = e

(* Whatever the daemon and the holders of the lock do or fail to do, a client
   that has begun gets an answer or falls back: in the end none is under way. *)
CallsEnd == <>[](\A c \in Procs : at[c] \in {"open"} \union Ended)

(* server.rs:65-69: a daemon that has accepted a Shutdown, or gone idle, gives up
   its socket even if one of its handlers never finishes, and ends; only a
   blocking call that never returns keeps the process. *)
ToldDaemonsExit ==
  <>[](\A d \in Procs :
         /\ daemon[d] \notin {"told", "draining"}
         /\ daemon[d] = "leaving" => Busy(d))

=============================================================================
