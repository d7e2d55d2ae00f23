-------------------------- MODULE BatchingEmbedder --------------------------
(***************************************************************************)
(* ohara-embed's BatchingEmbedder: concurrent embed_batch calls go through *)
(* a bounded channel to one coalescer task, which regroups their rows into *)
(* batches for the inner embedder and scatters the vectors back.  The      *)
(* inner embedder may fail, return the wrong number of vectors or panic.   *)
(* A row stands for its own vector.                                        *)
(***************************************************************************)
EXTENDS Naturals, Sequences, FiniteSets

CONSTANTS
  Callers,    \* the tasks that share the embedder
  Sizes,      \* how many rows a call may have
  Batch,      \* batch_rows
  Capacity,   \* the channel's bound
  Waiting, Error, None,
  MaxCalls,   \* bound on the calls of one caller
  MaxFaults   \* bound on the inner embedder's failures

ASSUME BatchingAssumption ==
  /\ IsFiniteSet(Callers)
  /\ Sizes \subseteq Nat
  /\ {Batch, Capacity} \subseteq Nat \ {0}
  /\ {MaxCalls, MaxFaults} \subseteq Nat

VARIABLES
  at,         \* at[c]: where c's embed_batch is: idle, send, reply
  calls,      \* calls[c]: how many calls c has made
  asked,      \* asked[c]: the rows of its last call
  out,        \* out[c]: what that call returned
  held,       \* some caller still holds the BatchingEmbedder
  chan,       \* the channel: callers whose request is in it
  pending,    \* rows not yet embedded: request id, index, text
  reqs,       \* reqs[id]: the reply channel and the slots of a request
  nextId,
  flight,     \* the rows inner.embed_batch is embedding; <<>>: not called
  alive,      \* the coalescer task runs
  faults,     \* failures so far
  struck      \* history: callers whose call met a failure

callers == <<at, calls, asked, out>>
coalescer == <<pending, reqs, nextId, flight, alive>>
vars == <<callers, held, chan, coalescer, faults, struck>>

Rows(c, k, n) == [i \in 1..n |-> <<c, k, i>>]
Row == {<<c, k, i>> : c \in Callers, k \in 1..MaxCalls, i \in UNION {1..n : n \in Sizes}}
Entry == [id : Nat, idx : Nat \ {0}, text : Row]
Texts == UNION {[1..n -> Row] : n \in Sizes}
Slots == UNION {[1..n -> Row \union {None}] : n \in Sizes}

(* An answer that is due, an error and an empty slot are no rows. *)
ASSUME TokenAssumption ==
  /\ Waiting # Error
  /\ {Waiting, Error} \intersect (Texts \union {<<>>}) = {}
  /\ None \notin Row

TypeOK ==
  /\ at \in [Callers -> {"idle", "send", "reply"}]
  /\ calls \in [Callers -> 0..MaxCalls]
  /\ asked \in [Callers -> Texts \union {<<>>}]
  /\ out \in [Callers -> Texts \union {<<>>, Waiting, Error}]
  /\ held \in BOOLEAN /\ alive \in BOOLEAN
  /\ chan \in Seq(Callers) /\ Len(chan) <= Capacity
  /\ pending \in Seq(Entry)
  /\ flight \in Seq(Entry) /\ Len(flight) <= Batch
  /\ nextId \in Nat
  /\ DOMAIN reqs \subseteq 0..nextId - 1
  /\ \A id \in DOMAIN reqs : reqs[id] \in [caller : Callers, slots : Slots]
  /\ faults \in 0..MaxFaults
  /\ struck \in SUBSET Callers

Init ==
  /\ at = [c \in Callers |-> "idle"]
  /\ calls = [c \in Callers |-> 0]
  /\ asked = [c \in Callers |-> <<>>]
  /\ out = [c \in Callers |-> <<>>]
  /\ held = TRUE
  /\ chan = <<>>
  /\ pending = <<>> /\ flight = <<>>
  /\ reqs = <<>> /\ nextId = 0
  /\ alive = TRUE
  /\ faults = 0 /\ struck = {}

(* The coalescer is at its loop head: no inner call is being awaited. *)
Looping == alive /\ flight = <<>>

(* Each request of DOMAIN answer is answered. *)
Reply(answer) ==
  LET answered == {reqs[id].caller : id \in DOMAIN answer}
      idOf(c) == CHOOSE id \in DOMAIN answer : reqs[id].caller = c
  IN  /\ out' = [c \in Callers |->
                   IF c \in answered THEN answer[idOf(c)] ELSE out[c]]
      /\ at' = [c \in Callers |-> IF c \in answered THEN "idle" ELSE at[c]]

(* The front k rows leave for one inner call. *)
Dispatch(k) ==
  /\ flight' = SubSeq(pending, 1, k)
  /\ pending' = SubSeq(pending, k + 1, Len(pending))
  /\ UNCHANGED <<callers, held, chan, reqs, nextId, alive, faults, struck>>

----------------------------------------------------------------------------
(* Mutations. *)

(* A partial batch waits for the channel to fill it. *)
FlushPartial_never ==
  /\ Looping /\ Len(pending) \in 1..Batch - 1 /\ chan = <<>> /\ ~held
  /\ Dispatch(Len(pending))

(* next_id is not advanced. *)
Enqueue_idReused ==
  /\ Looping /\ Len(pending) < Batch /\ chan # <<>>
  /\ LET c == Head(chan)
         n == Len(asked[c])
     IN  /\ pending' = pending \o
              [i \in 1..n |-> [id |-> nextId, idx |-> i, text |-> asked[c][i]]]
         /\ reqs' = [id \in DOMAIN reqs \union {nextId} |->
                       IF id = nextId
                       THEN [caller |-> c, slots |-> [i \in 1..n |-> None]]
                       ELSE reqs[id]]
  /\ chan' = Tail(chan)
  /\ nextId' = IF nextId = 0 THEN 1 ELSE nextId
  /\ UNCHANGED <<callers, held, flight, alive, faults, struck>>

(* Vectors are scattered by index alone, whoever the row belongs to. *)
Filled_anyOwner(id) ==
  [i \in DOMAIN reqs[id].slots |->
     LET mine == {j \in 1..Len(flight) : flight[j].idx = i}
     IN  IF mine # {} /\ reqs[id].slots[i] = None
         THEN flight[CHOOSE j \in mine : TRUE].text
         ELSE reqs[id].slots[i]]

(* An inner error ends the task instead of failing the batch's requests. *)
InnerFails_stops ==
  /\ alive /\ flight # <<>>
  /\ faults < MaxFaults
  /\ faults' = faults + 1
  /\ alive' = FALSE
  /\ out' = [c \in Callers |-> IF at[c] = "reply" THEN Error ELSE out[c]]
  /\ at' = [c \in Callers |-> IF at[c] = "reply" THEN "idle" ELSE at[c]]
  /\ struck' = struck \union {reqs[id].caller : id \in DOMAIN reqs \intersect
                                {flight[j].id : j \in 1..Len(flight)}}
  /\ chan' = <<>> /\ pending' = <<>> /\ flight' = <<>> /\ reqs' = <<>>
  /\ UNCHANGED <<calls, asked, held, nextId>>

----------------------------------------------------------------------------
(* The callers: BatchingEmbedder::embed_batch. *)

(* An empty call returns at once, any other waits for room in the channel. *)
Call(c) ==
  /\ held /\ at[c] = "idle" /\ calls[c] < MaxCalls
  /\ \E n \in Sizes :
       /\ calls' = [calls EXCEPT ![c] = @ + 1]
       /\ asked' = [asked EXCEPT ![c] = Rows(c, calls[c] + 1, n)]
       /\ out' = [out EXCEPT ![c] = IF n = 0 THEN <<>> ELSE Waiting]
       /\ at' = [at EXCEPT ![c] = IF n = 0 THEN "idle" ELSE "send"]
  /\ struck' = struck \ {c}
  /\ UNCHANGED <<held, chan, coalescer, faults>>

Send(c) ==
  /\ at[c] = "send" /\ alive /\ Len(chan) < Capacity
  /\ chan' = Append(chan, c)
  /\ at' = [at EXCEPT ![c] = "reply"]
  /\ UNCHANGED <<calls, asked, out, held, coalescer, faults, struck>>

(* "batching embedder task stopped" *)
SendFails(c) ==
  /\ at[c] = "send" /\ ~alive
  /\ out' = [out EXCEPT ![c] = Error]
  /\ at' = [at EXCEPT ![c] = "idle"]
  /\ struck' = struck \union {c}
  /\ UNCHANGED <<calls, asked, held, chan, coalescer, faults>>

(* The last Arc goes when no call is left. *)
DropEmbedder ==
  /\ held /\ \A c \in Callers : at[c] = "idle"
  /\ held' = FALSE
  /\ UNCHANGED <<callers, chan, coalescer, faults, struck>>

----------------------------------------------------------------------------
(* The coalescer. *)

DispatchFull ==
  /\ Looping /\ Len(pending) >= Batch
  /\ Dispatch(Batch)

(* recv and try_recv: take a request when less than a batch is pending. *)
Enqueue ==
  /\ Looping /\ Len(pending) < Batch /\ chan # <<>>
  /\ LET c == Head(chan)
         n == Len(asked[c])
     IN  /\ pending' = pending \o
              [i \in 1..n |-> [id |-> nextId, idx |-> i, text |-> asked[c][i]]]
         /\ reqs' = [id \in DOMAIN reqs \union {nextId} |->
                       IF id = nextId
                       THEN [caller |-> c, slots |-> [i \in 1..n |-> None]]
                       ELSE reqs[id]]
  /\ chan' = Tail(chan)
  /\ nextId' = nextId + 1
  /\ UNCHANGED <<callers, held, flight, alive, faults, struck>>

(* The producers are idle: flush what there is. *)
FlushPartial ==
  /\ Looping /\ Len(pending) \in 1..Batch - 1 /\ chan = <<>>
  /\ Dispatch(Len(pending))

(* Every sender has dropped and nothing is buffered. *)
Stop ==
  /\ Looping /\ pending = <<>> /\ chan = <<>> /\ ~held
  /\ alive' = FALSE
  /\ UNCHANGED <<callers, held, chan, pending, reqs, nextId, flight, faults, struck>>

(* The slots of request id once the rows in flight have their vectors. *)
Filled(id) ==
  [i \in DOMAIN reqs[id].slots |->
     LET mine == {j \in 1..Len(flight) : flight[j].id = id /\ flight[j].idx = i}
     IN  IF mine # {} /\ reqs[id].slots[i] = None
         THEN flight[CHOOSE j \in mine : TRUE].text
         ELSE reqs[id].slots[i]]

(* Requests of a failed batch; a row of one failed before has no owner. *)
Owners == DOMAIN reqs \intersect {flight[j].id : j \in 1..Len(flight)}

(* As many vectors as rows: scatter them, complete what is complete. *)
InnerReturns ==
  /\ alive /\ flight # <<>>
  /\ LET done == {id \in Owners : \A i \in DOMAIN reqs[id].slots : Filled(id)[i] # None}
     IN  /\ Reply([id \in done |-> Filled(id)])
         /\ reqs' = [id \in DOMAIN reqs \ done |->
                       [reqs[id] EXCEPT !.slots = Filled(id)]]
  /\ flight' = <<>>
  /\ UNCHANGED <<calls, asked, held, chan, pending, nextId, alive, faults, struck>>

(* An error, or the wrong number of vectors: fail_owners. *)
InnerFails ==
  /\ alive /\ flight # <<>>
  /\ faults < MaxFaults
  /\ faults' = faults + 1
  /\ Reply([id \in Owners |-> Error])
  /\ struck' = struck \union {reqs[id].caller : id \in Owners}
  /\ reqs' = [id \in DOMAIN reqs \ Owners |-> reqs[id]]
  /\ flight' = <<>>
  /\ UNCHANGED <<calls, asked, held, chan, pending, nextId, alive>>

(* The task unwinds: channel and reply senders drop, "dropped reply". *)
InnerPanics ==
  /\ alive /\ flight # <<>>
  /\ faults < MaxFaults
  /\ faults' = faults + 1
  /\ alive' = FALSE
  /\ LET cut == {c \in Callers : at[c] = "reply"}
     IN  /\ out' = [c \in Callers |-> IF c \in cut THEN Error ELSE out[c]]
         /\ at' = [c \in Callers |-> IF c \in cut THEN "idle" ELSE at[c]]
         /\ struck' = struck \union cut
  /\ chan' = <<>> /\ pending' = <<>> /\ flight' = <<>> /\ reqs' = <<>>
  /\ UNCHANGED <<calls, asked, held, nextId>>

----------------------------------------------------------------------------
CallerStep(c) == Send(c) \/ SendFails(c)

CoalescerStep == DispatchFull \/ Enqueue \/ FlushPartial \/ Stop

InnerAnswers == InnerReturns \/ InnerFails \/ InnerPanics

Next ==
  \/ \E c \in Callers : Call(c) \/ CallerStep(c)
  \/ DropEmbedder
  \/ CoalescerStep
  \/ InnerAnswers

Spec == Init /\ [][Next]_vars

(* Tasks are polled; an inner call comes back; a sender blocked on the full
   channel is served in turn (finitely many calls: weak fairness is enough). *)
Fairness ==
  /\ \A c \in Callers : WF_vars(CallerStep(c))
  /\ WF_vars(CoalescerStep)
  /\ WF_vars(InnerAnswers)

FairSpec == Spec /\ Fairness

----------------------------------------------------------------------------
(* Correctness. *)

(* Each call gets its own rows back in its own order, or an error, once. *)
Service == INSTANCE EmbedService WITH asked <- asked, out <- out
ImplementsService == Service!Spec

(* Each empty slot of an outstanding request has exactly one row on its way,
   with that slot's text, and a filled one has none: no caller is left with a
   hole no batch will fill. *)
RowsConserved ==
  LET buffered == flight \o pending
      coming(id, i) ==
        {j \in 1..Len(buffered) : buffered[j].id = id /\ buffered[j].idx = i}
  IN  \A id \in DOMAIN reqs : \A i \in DOMAIN reqs[id].slots :
        IF reqs[id].slots[i] = None
        THEN \E j \in coming(id, i) :
               /\ coming(id, i) = {j}
               /\ buffered[j].text = asked[reqs[id].caller][i]
        ELSE coming(id, i) = {}

(* A failure reaches the callers with a row in the failed batch and no other. *)
ErrorsExplained == \A c \in Callers : out[c] = Error => c \in struck

(* No call waits for ever: not for a batch to fill, not for rows of a request
   that failed, not for a coalescer that is gone. *)
EveryCallAnswered == \A c \in Callers : (out[c] = Waiting) ~> (out[c] # Waiting)

=============================================================================
