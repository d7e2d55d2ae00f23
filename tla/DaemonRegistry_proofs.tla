------------------------- MODULE DaemonRegistry_proofs -------------------------
(***************************************************************************)
(* Proofs about DaemonRegistry, for any number of clients, callers or      *)
(* stops, and any bound on the faults: every serving daemon can be found,  *)
(* and there is one to share, but for those a fault has cut off.           *)
(***************************************************************************)
EXTENDS DaemonRegistry, TLAPS

(* What a shutdown that has been answered leaves of a daemon. *)
Told(d) == daemon[d] \notin {"unborn", "booting", "up"}

(* A client has one life, and waits for its daemon under the lock. *)
ClientInv ==
  /\ \A c \in Procs : at[c] = "wait" <=> lock = c
  /\ \A c \in Procs : at[c] \in {"open", "lock"} => daemon[c] = "unborn"
  /\ \A c \in Procs : at[c] \in {"open", "lock", "wait"} => pick[c] = None
  /\ \A c \in Procs : at[c] \in {"call", "sent"} => pick[c] \in Procs
  /\ \A c \in Procs : conn[c] # "none" => at[c] = "sent"

(* Only a daemon that has been told to stop is taken out of the registry by
   name. *)
StopInv ==
  \A c \in Procs :
    /\ conn[c] = "answered" /\ kind[c] = "stop" => Told(pick[c])
    /\ at[c] = "unlist" /\ pick[c] # None => Told(pick[c])

(* The file holds one record at most, never of a daemon that has yet to boot;
   the record of a daemon with a socket is fresh.  Whoever holds the lock has seen that
   the file has no daemon to share. *)
RecordInv ==
  /\ \A d, e \in recs : d = e
  /\ \A d \in recs : daemon[d] \notin {"unborn", "booting"}
  /\ \A d \in ready : daemon[d] \notin {"unborn", "booting"}
  /\ \A d \in recs : Bound(d) => d \in fresh \union excused
  /\ lock # None => ~torn /\ \A d \in recs : Bound(d) => d \in excused
  /\ \A d \in Procs : daemon[d] = "booting" => lock = d \/ d \in excused

Inv == TypeOK /\ ClientInv /\ StopInv /\ RecordInv /\ Discoverable

LEMMA InvInit == Init => Inv
<1> SUFFICES ASSUME Init PROVE Inv
  OBVIOUS
<1> USE RegistryAssumption DEF Init
<1>1. TypeOK
  <2>1. kind \in [Procs -> {"call", "stop"}] /\ faults \in 0..MaxFaults
    OBVIOUS
  <2>2. /\ daemon \in [Procs -> {"unborn", "booting", "up", "told", "draining",
                           "leaving", "zombie", "gone"}]
        /\ at \in [Procs -> {"open", "lock", "wait", "call", "sent", "unlist"} \union Ended]
        /\ pick \in [Procs -> Procs \union {None}] /\ list \in [Procs -> SUBSET Procs]
        /\ conn \in [Procs -> {"none", "backlog", "handled", "answered", "closed"}]
    OBVIOUS
  <2> QED
    BY <2>1, <2>2 DEF TypeOK
<1>2. ClientInv /\ StopInv /\ RecordInv /\ Discoverable
  BY DEF ClientInv, StopInv, RecordInv, Discoverable, Bound, Listening
<1> QED
  BY <1>1, <1>2 DEF Inv

(* Two daemons that serve and that no fault has cut off are one. *)
LEMMA InvShares == Inv => OneDaemon
<1> SUFFICES ASSUME Inv, NEW d \in Procs \ excused, NEW e \in Procs \ excused,
                    daemon[d] = "up", daemon[e] = "up"
             PROVE  d = e
  BY DEF OneDaemon
<1>1. (d \in recs \/ lock = d) /\ (e \in recs \/ lock = e)
  BY DEF Inv, Discoverable
<1>2. lock # None => d \notin recs /\ e \notin recs
  BY DEF Inv, RecordInv, Bound, Listening
<1> QED
  BY <1>1, <1>2, RegistryAssumption DEF Inv, RecordInv

----------------------------------------------------------------------------
(* The steps, in the groups of the next-state relation. *)

Opening(c) == Open(c) \/ ParseFails(c)
Finding(c) == Find(c) \/ Spawn(c) \/ SpawnFails(c) \/ Register(c) \/ ReadinessTimeout(c)
Stopping(c) == ListAlive(c) \/ StopNext(c) \/ Unregister(c)
Calling(c) == Connect(c) \/ GetReply(c) \/ GetEof(c) \/ CallTimeout(c)
Serving(d) ==
  Boot(d) \/ BootFails(d) \/ Heartbeat(d) \/ IdleExit(d) \/ Cancel(d) \/ Exit(d) \/ End(d)
Talking(d, c) == Accept(d, c) \/ StartBlocking(d, c) \/ Answer(d, c) \/ FinishBlocking(c)
Failing(c) == PidUnread(c) \/ RegistryFails(c) \/ UnregisterFails(c) \/ HeartbeatFails(c)
Passing(d) == Reap(d) \/ Stale(d)

LEMMA NextCases ==
  ASSUME [Next]_vars
  PROVE  \/ \E c \in Procs : Opening(c) \/ Finding(c) \/ Stopping(c) \/ Calling(c)
         \/ \E d \in Procs : Serving(d) \/ Passing(d) \/ KillClient(d) \/ KillDaemon(d)
         \/ \E d, c \in Procs : Talking(d, c)
         \/ \E c \in Procs : Failing(c)
         \/ HostSleeps \/ UNCHANGED vars
BY DEF Next, ClientStep, Serves, Fault, Opening, Finding, Stopping, Calling, Serving, Talking,
       Passing, Failing

(* A registry write cut short leaves a torn file without records. *)
LEMMA CutTypes ==
  ASSUME TypeOK, NEW who \in SUBSET Procs, CutWrite(who)
  PROVE  recs' = {} /\ torn' = TRUE /\ excused' \in SUBSET Procs
BY DEF CutWrite, TypeOK

LEMMA TypesStep ==
  ASSUME TypeOK, ClientInv, RecordInv, [Next]_vars
  PROVE  TypeOK'
<1> USE RegistryAssumption
    DEF TypeOK, registry, daemons, clients, luck, Faulty, Goto, FallBack, Pruned, Ended
<1>1. ASSUME NEW c \in Procs, Opening(c) PROVE TypeOK'
  <2>1. CASE Open(c)
    BY <2>1 DEF Open
  <2>2. CASE ParseFails(c)
    BY <2>2 DEF ParseFails
  <2> QED
    BY <1>1, <2>1, <2>2 DEF Opening
<1>2. ASSUME NEW c \in Procs, Finding(c) PROVE TypeOK'
  <2>1. CASE Find(c)
    BY <2>1 DEF Find
  <2>2. CASE Spawn(c)
    BY <2>2 DEF Spawn, RecordInv
  <2>3. CASE SpawnFails(c)
    BY <2>3 DEF SpawnFails
  <2>4. CASE Register(c)
    <3>1. lock = c /\ ~torn
      BY <2>4 DEF Register, ClientInv, RecordInv
    <3>2. /\ torn' = FALSE /\ recs' \in SUBSET Procs /\ fresh' \in SUBSET Procs
          /\ lock' = None /\ pick' \in [Procs -> Procs \union {None}]
      BY <2>4, <3>1 DEF Register
    <3>3. at' \in [Procs -> {"open", "lock", "wait", "call", "sent", "unlist"} \union Ended]
      BY <2>4 DEF Register
    <3> QED
      BY <2>4, <3>2, <3>3 DEF Register
  <2>5. CASE ReadinessTimeout(c)
    BY <2>5 DEF ReadinessTimeout, Reaped
  <2> QED
    BY <1>2, <2>1, <2>2, <2>3, <2>4, <2>5 DEF Finding
<1>3. ASSUME NEW c \in Procs, Stopping(c) PROVE TypeOK'
  BY <1>3 DEF Stopping, ListAlive, StopNext, Unregister
<1>4. ASSUME NEW c \in Procs, Calling(c) PROVE TypeOK'
  BY <1>4 DEF Calling, Connect, GetReply, GetEof, CallTimeout
<1>5. ASSUME NEW d \in Procs, Serving(d) \/ Passing(d) PROVE TypeOK'
  <2>1. CASE Boot(d)
    BY <2>1 DEF Boot
  <2>2. CASE BootFails(d)
    BY <2>2 DEF BootFails, Remains
  <2>3. CASE Heartbeat(d)
    BY <2>3 DEF Heartbeat
  <2>4. CASE IdleExit(d)
    BY <2>4 DEF IdleExit
  <2>5. CASE Cancel(d)
    BY <2>5 DEF Cancel
  <2>6. CASE Exit(d)
    BY <2>6 DEF Exit, Remains, Closed
  <2>7. CASE Reap(d)
    BY <2>7 DEF Reap
  <2>8. CASE Stale(d)
    BY <2>8 DEF Stale
  <2>9. CASE End(d)
    BY <2>9 DEF End, Remains
  <2> QED
    BY <1>5, <2>1, <2>2, <2>3, <2>4, <2>5, <2>6, <2>7, <2>8, <2>9 DEF Serving, Passing
<1>6. ASSUME NEW d \in Procs, NEW c \in Procs, Talking(d, c) PROVE TypeOK'
  BY <1>6 DEF Talking, Accept, StartBlocking, Answer, FinishBlocking
<1>7. ASSUME NEW c \in Procs, KillClient(c) PROVE TypeOK'
  <2>1. faults' \in 0..MaxFaults
    BY <1>7 DEF KillClient
  <2>2. /\ recs' \in SUBSET Procs /\ torn' \in BOOLEAN /\ (torn' => recs' = {})
        /\ excused' \in SUBSET Procs
    <3>1. CASE recs' = {} /\ torn' = TRUE
      BY <1>7, <3>1 DEF KillClient, CutWrite
    <3>2. CASE UNCHANGED <<recs, torn>>
      <4>1. recs' \in SUBSET Procs /\ torn' \in BOOLEAN /\ (torn' => recs' = {})
        BY <3>2
      <4>2. excused' \in SUBSET Procs
        BY <1>7 DEF KillClient, CutWrite
      <4> QED
        BY <4>1, <4>2
    <3> QED
      BY <1>7, <3>1, <3>2 DEF KillClient, CutWrite
  <2>3. lock' \in Procs \union {None} /\ (lock' # None => at'[lock'] = "wait")
    BY <1>7 DEF KillClient
  <2>4. daemon' \in [Procs -> {"unborn", "booting", "up", "told", "draining",
                           "leaving", "zombie", "gone"}]
    <3>1. daemon' = [daemon EXCEPT ![c] = IF daemon[c] = "zombie" THEN "gone" ELSE daemon[c]]
      BY <1>7 DEF KillClient
    <3> QED
      BY <3>1
  <2>5. /\ at' \in [Procs -> {"open", "lock", "wait", "call", "sent", "unlist"} \union Ended]
        /\ conn' \in [Procs -> {"none", "backlog", "handled", "answered", "closed"}]
    BY <1>7 DEF KillClient
  <2> QED
    BY <1>7, <2>1, <2>2, <2>3, <2>4, <2>5 DEF KillClient
<1>8. ASSUME NEW d \in Procs, KillDaemon(d) PROVE TypeOK'
  <2>1. faults' \in 0..MaxFaults
    BY <1>8 DEF KillDaemon
  <2>2. /\ recs' \in SUBSET Procs /\ torn' \in BOOLEAN /\ (torn' => recs' = {})
        /\ excused' \in SUBSET Procs
    <3>1. CASE recs' = {} /\ torn' = TRUE
      BY <1>8, <3>1 DEF KillDaemon, CutWrite
    <3>2. CASE UNCHANGED <<recs, torn>>
      <4>1. recs' \in SUBSET Procs /\ torn' \in BOOLEAN /\ (torn' => recs' = {})
        BY <3>2
      <4>2. excused' \in SUBSET Procs
        BY <1>8 DEF KillDaemon, CutWrite
      <4> QED
        BY <4>1, <4>2
    <3> QED
      BY <1>8, <3>1, <3>2 DEF KillDaemon, CutWrite
  <2>3. daemon' \in [Procs -> {"unborn", "booting", "up", "told", "draining",
                           "leaving", "zombie", "gone"}]
    BY <1>8 DEF KillDaemon, Remains
  <2>4. conn' \in [Procs -> {"none", "backlog", "handled", "answered", "closed"}]
    BY <1>8 DEF KillDaemon, Closed
  <2> QED
    BY <1>8, <2>1, <2>2, <2>3, <2>4 DEF KillDaemon
<1>9. CASE HostSleeps \/ UNCHANGED vars
  BY <1>9 DEF HostSleeps, vars
<1>10. ASSUME NEW c \in Procs, Failing(c) PROVE TypeOK'
  <2>1. CASE PidUnread(c)
    BY <2>1 DEF PidUnread
  <2>2. CASE RegistryFails(c)
    <3>1. /\ recs' \in SUBSET Procs /\ torn' \in BOOLEAN /\ (torn' => recs' = {})
          /\ excused' \in SUBSET Procs
      <4>1. CASE UNCHANGED <<recs, torn>>
        BY <2>2, <4>1, CutTypes DEF RegistryFails, CutWrite
      <4>2. CASE CutWrite(IF lock = c THEN {c} ELSE {})
        BY <4>2, CutTypes
      <4> QED
        BY <2>2, <4>1, <4>2 DEF RegistryFails
    <3>2. daemon' \in [Procs -> {"unborn", "booting", "up", "told", "draining",
                                 "leaving", "zombie", "gone"}] /\ ready' \in SUBSET Procs
      BY <2>2 DEF RegistryFails, Reaped
    <3>3. /\ lock' = None /\ faults' \in 0..MaxFaults
          /\ at' \in [Procs -> {"open", "lock", "wait", "call", "sent", "unlist"} \union Ended]
      BY <2>2 DEF RegistryFails
    <3> QED
      BY <2>2, <3>1, <3>2, <3>3 DEF RegistryFails
  <2>3. CASE UnregisterFails(c)
    <3>1. /\ recs' \in SUBSET Procs /\ torn' \in BOOLEAN /\ (torn' => recs' = {})
          /\ excused' \in SUBSET Procs
      <4>1. CASE UNCHANGED <<recs, torn, excused>>
        BY <4>1
      <4>2. CASE CutWrite({})
        BY <4>2, CutTypes
      <4> QED
        BY <2>3, <4>1, <4>2 DEF UnregisterFails
    <3>2. pick' \in [Procs -> Procs \union {None}] /\ faults' \in 0..MaxFaults
      BY <2>3 DEF UnregisterFails
    <3> QED
      BY <2>3, <3>1, <3>2 DEF UnregisterFails
  <2>4. CASE HeartbeatFails(c)
    <3>1. CutWrite({}) /\ lock = None /\ faults' \in 0..MaxFaults
      BY <2>4 DEF HeartbeatFails
    <3>2. recs' = {} /\ torn' = TRUE /\ excused' \in SUBSET Procs
      BY <3>1, CutTypes
    <3> QED
      BY <2>4, <3>1, <3>2 DEF HeartbeatFails
  <2> QED
    BY <1>10, <2>1, <2>2, <2>3, <2>4 DEF Failing
<1> QED
  BY NextCases, <1>1, <1>2, <1>3, <1>4, <1>5, <1>6, <1>7, <1>8, <1>9, <1>10

LEMMA ClientStepKeeps ==
  ASSUME TypeOK, ClientInv, [Next]_vars
  PROVE  ClientInv'
<1> USE RegistryAssumption
    DEF TypeOK, ClientInv, registry, daemons, clients, luck, Faulty, Goto, FallBack, Ended
<1>1. ASSUME NEW c \in Procs, Opening(c) PROVE ClientInv'
  BY <1>1 DEF Opening, Open, ParseFails
<1>2. ASSUME NEW c \in Procs, Finding(c) PROVE ClientInv'
  <2>1. CASE Find(c)
    BY <2>1 DEF Find, Pruned
  <2>2. CASE Spawn(c)
    BY <2>2 DEF Spawn
  <2>3. CASE SpawnFails(c)
    BY <2>3 DEF SpawnFails
  <2>4. CASE Register(c)
    BY <2>4 DEF Register
  <2>5. CASE ReadinessTimeout(c)
    BY <2>5 DEF ReadinessTimeout, Reaped
  <2> QED
    BY <1>2, <2>1, <2>2, <2>3, <2>4, <2>5 DEF Finding
<1>3. ASSUME NEW c \in Procs, Stopping(c) PROVE ClientInv'
  BY <1>3 DEF Stopping, ListAlive, StopNext, Unregister
<1>4. ASSUME NEW c \in Procs, Calling(c) PROVE ClientInv'
  <2>1. CASE Connect(c)
    BY <2>1 DEF Connect, Bound, Listening
  <2>2. CASE GetReply(c)
    BY <2>2 DEF GetReply
  <2>3. CASE GetEof(c)
    BY <2>3 DEF GetEof
  <2>4. CASE CallTimeout(c)
    BY <2>4 DEF CallTimeout
  <2> QED
    BY <1>4, <2>1, <2>2, <2>3, <2>4 DEF Calling
<1>5. ASSUME NEW d \in Procs, Serving(d) \/ Passing(d) PROVE ClientInv'
  BY <1>5 DEF Serving, Passing, Boot, BootFails, Heartbeat, IdleExit, Cancel, Exit, End, Reap, Stale,
              Remains, Closed, Listening
<1>6. ASSUME NEW d \in Procs, NEW c \in Procs, Talking(d, c) PROVE ClientInv'
  BY <1>6 DEF Talking, Accept, StartBlocking, Answer, FinishBlocking
<1>7. ASSUME NEW c \in Procs, KillClient(c) PROVE ClientInv'
  BY <1>7 DEF KillClient
<1>8. ASSUME NEW d \in Procs, KillDaemon(d) PROVE ClientInv'
  BY <1>8 DEF KillDaemon, Remains, Closed, Running
<1>9. CASE HostSleeps \/ UNCHANGED vars
  BY <1>9 DEF HostSleeps, vars
<1>10. ASSUME NEW c \in Procs, Failing(c) PROVE ClientInv'
  BY <1>10 DEF Failing, PidUnread, RegistryFails, UnregisterFails, HeartbeatFails, Reaped
<1> QED
  BY NextCases, <1>1, <1>2, <1>3, <1>4, <1>5, <1>6, <1>7, <1>8, <1>9, <1>10

(* A daemon that has been told to stop serves no more. *)
LEMMA StopStepKeeps ==
  ASSUME TypeOK, ClientInv, StopInv, [Next]_vars
  PROVE  StopInv'
<1> USE RegistryAssumption
    DEF TypeOK, ClientInv, StopInv, Told, registry, daemons, clients, luck, Faulty, Goto, FallBack, Ended
<1>1. ASSUME NEW c \in Procs, Opening(c) PROVE StopInv'
  BY <1>1 DEF Opening, Open, ParseFails
<1>2. ASSUME NEW c \in Procs, Finding(c) PROVE StopInv'
  BY <1>2 DEF Finding, Find, Spawn, SpawnFails, Register, ReadinessTimeout, Reaped
<1>3. ASSUME NEW c \in Procs, Stopping(c) PROVE StopInv'
  <2>1. CASE ListAlive(c)
    BY <2>1 DEF ListAlive
  <2>2. CASE StopNext(c)
    BY <2>2 DEF StopNext
  <2>3. CASE Unregister(c)
    BY <2>3 DEF Unregister
  <2> QED
    BY <1>3, <2>1, <2>2, <2>3 DEF Stopping
<1>4. ASSUME NEW c \in Procs, Calling(c) PROVE StopInv'
  BY <1>4 DEF Calling, Connect, GetReply, GetEof, CallTimeout
<1>5. ASSUME NEW d \in Procs, Serving(d) \/ Passing(d) PROVE StopInv'
  BY <1>5 DEF Serving, Passing, Boot, BootFails, Heartbeat, IdleExit, Cancel, Exit, End, Reap, Stale,
              Remains, Closed
<1>6. ASSUME NEW d \in Procs, NEW c \in Procs, Talking(d, c) PROVE StopInv'
  BY <1>6 DEF Talking, Accept, StartBlocking, Answer, FinishBlocking, Bound, Listening
<1>7. ASSUME NEW c \in Procs, KillClient(c) PROVE StopInv'
  BY <1>7 DEF KillClient
<1>8. ASSUME NEW d \in Procs, KillDaemon(d) PROVE StopInv'
  BY <1>8 DEF KillDaemon, Remains, Closed, Running
<1>9. CASE HostSleeps \/ UNCHANGED vars
  BY <1>9 DEF HostSleeps, vars
<1>10. ASSUME NEW c \in Procs, Failing(c) PROVE StopInv'
  BY <1>10 DEF Failing, PidUnread, RegistryFails, UnregisterFails, HeartbeatFails, Reaped
<1> QED
  BY NextCases, <1>1, <1>2, <1>3, <1>4, <1>5, <1>6, <1>7, <1>8, <1>9, <1>10

(* The file changes under the lock alone, or by a fault that excuses whom it
   hides. *)
LEMMA RecordStepKeeps ==
  ASSUME Inv, [Next]_vars
  PROVE  RecordInv' /\ Discoverable'
<1> USE RegistryAssumption
    DEF Inv, TypeOK, RecordInv, Discoverable, registry, daemons, clients, luck, Faulty, Goto, Running,
        Bound, Listening
<1>1. ASSUME NEW c \in Procs, Opening(c) PROVE RecordInv' /\ Discoverable'
  BY <1>1 DEF Opening, Open, ParseFails
<1>2. ASSUME NEW c \in Procs, Finding(c) PROVE RecordInv' /\ Discoverable'
  <2> USE DEF Pruned, PidAlive, ClientInv
  <2>1. CASE Find(c)
    BY <2>1 DEF Find
  <2>2. CASE Spawn(c)
    BY <2>2 DEF Spawn
  <2>3. CASE SpawnFails(c)
    BY <2>3 DEF SpawnFails
  <2>4. CASE Register(c)
    BY <2>4 DEF Register
  <2>5. CASE ReadinessTimeout(c)
    BY <2>5 DEF ReadinessTimeout, Reaped
  <2> QED
    BY <1>2, <2>1, <2>2, <2>3, <2>4, <2>5 DEF Finding
<1>3. ASSUME NEW c \in Procs, Stopping(c) PROVE RecordInv' /\ Discoverable'
  BY <1>3 DEF Stopping, ListAlive, StopNext, Unregister, Pruned, PidAlive, StopInv, Told
<1>4. ASSUME NEW c \in Procs, Calling(c) PROVE RecordInv' /\ Discoverable'
  BY <1>4 DEF Calling, Connect, GetReply, GetEof, CallTimeout
<1>5. ASSUME NEW d \in Procs, Serving(d) \/ Passing(d) PROVE RecordInv' /\ Discoverable'
  <2>1. CASE Boot(d) \/ BootFails(d)
    BY <2>1 DEF Boot, BootFails, Remains
  <2>2. CASE Heartbeat(d)
    BY <2>2 DEF Heartbeat, Listening
  <2>3. CASE IdleExit(d) \/ Cancel(d) \/ Exit(d) \/ End(d)
    BY <2>3 DEF IdleExit, Cancel, Exit, End, Remains
  <2>4. CASE Passing(d)
    BY <2>4 DEF Passing, Reap, Stale
  <2> QED
    BY <1>5, <2>1, <2>2, <2>3, <2>4 DEF Serving
<1>6. ASSUME NEW d \in Procs, NEW c \in Procs, Talking(d, c) PROVE RecordInv' /\ Discoverable'
  BY <1>6 DEF Talking, Accept, StartBlocking, Answer, FinishBlocking
<1>7. ASSUME NEW c \in Procs, KillClient(c) PROVE RecordInv' /\ Discoverable'
  BY <1>7 DEF KillClient, CutWrite
<1>8. ASSUME NEW d \in Procs, KillDaemon(d) PROVE RecordInv' /\ Discoverable'
  BY <1>8 DEF KillDaemon, CutWrite, Remains
<1>9. CASE HostSleeps \/ UNCHANGED vars
  BY <1>9 DEF HostSleeps, vars
<1>10. ASSUME NEW c \in Procs, Failing(c) PROVE RecordInv' /\ Discoverable'
  <2> USE DEF ClientInv, CutWrite
  <2>1. CASE PidUnread(c)
    BY <2>1 DEF PidUnread
  <2>2. CASE RegistryFails(c)
    BY <2>2 DEF RegistryFails, Reaped
  <2>3. CASE UnregisterFails(c)
    BY <2>3 DEF UnregisterFails
  <2>4. CASE HeartbeatFails(c)
    BY <2>4 DEF HeartbeatFails, Listening
  <2> QED
    BY <1>10, <2>1, <2>2, <2>3, <2>4 DEF Failing
<1> QED
  BY NextCases, <1>1, <1>2, <1>3, <1>4, <1>5, <1>6, <1>7, <1>8, <1>9, <1>10

LEMMA InvStep == Inv /\ [Next]_vars => Inv'
BY TypesStep, ClientStepKeeps, StopStepKeeps, RecordStepKeeps DEF Inv

LEMMA InvAlways == Spec => []Inv
BY InvInit, InvStep, PTL DEF Spec

----------------------------------------------------------------------------
(* What follows. *)

(* The registry, the processes and the connections stay in their types; a torn
   file holds no record, and the lock's holder is waiting for its daemon. *)
THEOREM TypeCorrect == Spec => []TypeOK
<1>1. Inv => TypeOK
  BY DEF Inv
<1> QED
  BY <1>1, InvAlways, PTL

(* No daemon serves that nobody can find, unless a fault has cut it off. *)
THEOREM DiscoverableHolds == Spec => []Discoverable
<1>1. Inv => Discoverable
  BY DEF Inv
<1> QED
  BY <1>1, InvAlways, PTL

(* Cold starts at once, exits and stops leave one daemon to share. *)
THEOREM OneDaemonHolds == Spec => []OneDaemon
BY InvShares, InvAlways, PTL

=============================================================================
