------------------------------- MODULE IdleSlot -------------------------------
(***************************************************************************)
(* ohara-embed's IdleSlot: a model session that is loaded by the first     *)
(* call to need it, shared by the calls that follow, and dropped by the    *)
(* daemon's watchdog after a quiet time.  The slot is behind tokio's       *)
(* RwLock, which is given in the order it is asked for.                    *)
(***************************************************************************)
EXTENDS Naturals, Sequences, FiniteSets

CONSTANTS
  Tasks,      \* the requests that rerank
  Watchdog,   \* the daemon's task that unloads
  IdleFor,    \* reranker_idle_secs, in ticks of the clock
  Never       \* last_used_unix = 0

ASSUME SlotAssumption ==
  /\ Watchdog \notin Tasks
  /\ IdleFor \in Nat \ {0}
  /\ Never \notin Nat

VARIABLES
  doing,      \* doing[t]: where t's call is
  lockQueue,  \* who has the lock, first, and who waits for it, in order
  loaded,     \* the slot holds a session
  unused      \* how long ago the slot was last asked for, at most one past IdleFor

slotVars == <<doing, lockQueue, loaded, unused>>

Processes == Tasks \union {Watchdog}

(* idle: no call; read: asks for the read lock; missed: saw the slot empty and
   has let go of the lock; write: asks for the write lock; load: has it, and
   init runs; use: works with the session. *)
TaskSteps == {"idle", "read", "missed", "write", "load", "use"}
InQueue(p) == \E n \in DOMAIN lockQueue : lockQueue[n] = p
Holds(p) == lockQueue # <<>> /\ Head(lockQueue) = p

SlotTypeOK ==
  /\ doing \in [Processes -> TaskSteps]
  /\ lockQueue \in Seq(Processes)
  /\ loaded \in BOOLEAN
  /\ unused \in 0..IdleFor + 1 \union {Never}

SlotInit ==
  /\ doing = [p \in Processes |-> "idle"]
  /\ lockQueue = <<>>
  /\ loaded = FALSE
  /\ unused = Never

----------------------------------------------------------------------------
(* Mutations. *)

(* The guard of the first look is kept while the write lock is asked for. *)
Look_guardKept(t) ==
  /\ doing[t] = "read" /\ Holds(t)
  /\ lockQueue' = IF loaded THEN Tail(lockQueue) ELSE lockQueue
  /\ doing' = [doing EXCEPT ![t] = IF loaded THEN "use" ELSE "missed"]
  /\ UNCHANGED <<loaded, unused>>

(* The quiet time is compared for equality. *)
CheckIdle_exact ==
  /\ doing[Watchdog] = "idle"
  /\ unused = IdleFor
  /\ lockQueue' = Append(lockQueue, Watchdog)
  /\ doing' = [doing EXCEPT ![Watchdog] = "write"]
  /\ UNCHANGED <<loaded, unused>>

----------------------------------------------------------------------------
(* get_or_try_init. *)

(* The stamp, and the read lock asked for. *)
AskForSession(t) ==
  /\ doing[t] = "idle"
  /\ unused' = 0
  /\ doing' = [doing EXCEPT ![t] = "read"]
  /\ lockQueue' = Append(lockQueue, t)
  /\ UNCHANGED loaded

Look(t) ==
  /\ doing[t] = "read" /\ Holds(t)
  /\ lockQueue' = Tail(lockQueue)
  /\ doing' = [doing EXCEPT ![t] = IF loaded THEN "use" ELSE "missed"]
  /\ UNCHANGED <<loaded, unused>>

AskForWrite(t) ==
  /\ doing[t] = "missed"
  /\ doing' = [doing EXCEPT ![t] = "write"]
  /\ lockQueue' = Append(lockQueue, t)
  /\ UNCHANGED <<loaded, unused>>

(* Somebody may have loaded it meanwhile. *)
Recheck(t) ==
  /\ doing[t] = "write" /\ Holds(t)
  /\ lockQueue' = IF loaded THEN Tail(lockQueue) ELSE lockQueue
  /\ doing' = [doing EXCEPT ![t] = IF loaded THEN "use" ELSE "load"]
  /\ UNCHANGED <<loaded, unused>>

SessionLoads(t) ==
  /\ doing[t] = "load"
  /\ loaded' = TRUE
  /\ lockQueue' = Tail(lockQueue)
  /\ doing' = [doing EXCEPT ![t] = "use"]
  /\ UNCHANGED unused

(* The call returns the error, the slot stays empty. *)
LoadFails(t) ==
  /\ doing[t] = "load"
  /\ lockQueue' = Tail(lockQueue)
  /\ doing' = [doing EXCEPT ![t] = "idle"]
  /\ UNCHANGED <<loaded, unused>>

(* The session is an Arc of the call's own by now. *)
EndUse(t) ==
  /\ doing[t] = "use"
  /\ doing' = [doing EXCEPT ![t] = "idle"]
  /\ UNCHANGED <<lockQueue, loaded, unused>>

----------------------------------------------------------------------------
(* unload_if_idle, which the daemon's watchdog calls again and again. *)

(* The stamp is read before the lock is asked for, and not again. *)
CheckIdle ==
  /\ doing[Watchdog] = "idle"
  /\ unused # Never /\ unused >= IdleFor
  /\ lockQueue' = Append(lockQueue, Watchdog)
  /\ doing' = [doing EXCEPT ![Watchdog] = "write"]
  /\ UNCHANGED <<loaded, unused>>

Unload ==
  /\ doing[Watchdog] = "write" /\ Holds(Watchdog)
  /\ loaded' = FALSE
  /\ lockQueue' = Tail(lockQueue)
  /\ doing' = [doing EXCEPT ![Watchdog] = "idle"]
  /\ UNCHANGED unused

(* Past IdleFor nothing changes any more. *)
ClockTicks ==
  /\ unused # Never /\ unused <= IdleFor
  /\ unused' = unused + 1
  /\ UNCHANGED <<doing, lockQueue, loaded>>

----------------------------------------------------------------------------
CallSteps(t) == Look(t) \/ AskForWrite(t) \/ Recheck(t) \/ SessionLoads(t) \/ LoadFails(t)

SlotNext ==
  \/ \E t \in Tasks : AskForSession(t) \/ CallSteps(t) \/ EndUse(t)
  \/ CheckIdle \/ Unload
  \/ ClockTicks

SlotSpec == SlotInit /\ [][SlotNext]_slotVars

(* Tasks are polled and a load comes back; the watchdog looks once in every
   period; time passes.  Nothing obliges anybody to make a call. *)
SlotFairness ==
  /\ \A t \in Tasks : WF_slotVars(CallSteps(t))
  /\ WF_slotVars(CheckIdle) /\ WF_slotVars(Unload)
  /\ WF_slotVars(ClockTicks)

----------------------------------------------------------------------------
(* Correctness. *)

(* lazy.rs:26, "concurrent first callers funnel through a single blocking
   init": whoever loads has the lock, is the only one to load, and fills a slot
   that is empty. *)
OneLoad ==
  \A t \in Tasks : doing[t] = "load" => Holds(t) /\ ~loaded
    /\ \A s \in Tasks \ {t} : doing[s] # "load"

(* Each process is in the lock's queue at most once, and just while it waits for
   the lock or holds it: none is forgotten there, none left behind in it. *)
QueueIsExact ==
  /\ \A m, n \in DOMAIN lockQueue : lockQueue[m] = lockQueue[n] => m = n
  /\ \A p \in Processes : InQueue(p) <=> doing[p] \in {"read", "write", "load"}

(* idle_slot.rs:30: a call gets a session, or the error of its own load,
   however often the session is dropped between its two looks. *)
CallsServed == \A t \in Tasks : (doing[t] = "read") ~> (doing[t] \in {"use", "idle"})

(* idle_slot.rs:51: once nobody calls any more, the session goes, and stays
   away, also when it was loaded while the watchdog waited for the lock. *)
SessionShed == <>[](\A t \in Tasks : doing[t] \in {"idle", "use"}) => <>[]~loaded

=============================================================================
