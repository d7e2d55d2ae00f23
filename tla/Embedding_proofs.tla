--------------------------- MODULE Embedding_proofs ---------------------------
(***************************************************************************)
(* Proofs about what the embedding crate shares between tasks.             *)
(* BatchingEmbedder, for any callers, calls, sizes, batch and capacity:    *)
(* every empty slot has its one row on the way, a failure hits the callers *)
(* of the failed batch alone, and the coalescer implements EmbedService.   *)
(* IdleSlot, for any number of requests and any quiet time: at most one of *)
(* them loads, under the lock and into an empty slot, and the lock's queue *)
(* forgets nobody.                                                         *)
(***************************************************************************)
EXTENDS BatchingEmbedder, IdleSlot, SequenceTheorems, TLAPS

Buffered == flight \o pending

(* A caller is owed an answer from its call to its reply. *)
WaitInv ==
  \A c \in Callers :
    /\ at[c] = "idle" <=> out[c] # Waiting
    /\ at[c] # "idle" => asked[c] \in Texts

(* A call is in the channel once, or one of the requests, or neither. *)
ChanInv ==
  /\ \A m \in 1..Len(chan) : at[chan[m]] = "reply"
  /\ \A m, n \in 1..Len(chan) : chan[m] = chan[n] => m = n
  /\ \A m \in 1..Len(chan) : \A id \in DOMAIN reqs : reqs[id].caller # chan[m]

(* A request is that of its caller's last call, filled from its own rows. *)
ReqInv ==
  /\ \A id \in DOMAIN reqs :
       /\ at[reqs[id].caller] = "reply"
       /\ DOMAIN reqs[id].slots = DOMAIN asked[reqs[id].caller]
       /\ \A i \in DOMAIN reqs[id].slots :
            reqs[id].slots[i] \in {None, asked[reqs[id].caller][i]}
  /\ \A id, jd \in DOMAIN reqs : reqs[id].caller = reqs[jd].caller => id = jd

(* A row on its way is the only one for its slot, which is empty. *)
RowInv ==
  /\ \A j \in 1..Len(Buffered) : Buffered[j].id < nextId
  /\ \A j, k \in 1..Len(Buffered) :
       Buffered[j].id = Buffered[k].id /\ Buffered[j].idx = Buffered[k].idx => j = k
  /\ \A j \in 1..Len(Buffered) : Buffered[j].id \in DOMAIN reqs =>
       LET r == reqs[Buffered[j].id]
       IN  /\ Buffered[j].idx \in DOMAIN r.slots
           /\ Buffered[j].text = asked[r.caller][Buffered[j].idx]
           /\ r.slots[Buffered[j].idx] = None

(* And every empty slot has one. *)
SlotInv ==
  \A id \in DOMAIN reqs : \A i \in DOMAIN reqs[id].slots :
    reqs[id].slots[i] = None =>
      \E j \in 1..Len(Buffered) : Buffered[j].id = id /\ Buffered[j].idx = i

Inv == TypeOK /\ WaitInv /\ ChanInv /\ ReqInv /\ RowInv /\ SlotInv

LEMMA InvInit == Init => Inv
<1> SUFFICES ASSUME Init PROVE Inv
  OBVIOUS
<1> USE BatchingAssumption, TokenAssumption DEF Init
<1>1. /\ <<>> \in Seq(Callers) /\ <<>> \in Seq(Entry) /\ Len(<<>>) = 0 /\ DOMAIN <<>> = {}
      /\ <<>> \o <<>> = <<>>
  OBVIOUS
<1>2. TypeOK
  <2>1. /\ calls \in [Callers -> 0..MaxCalls] /\ faults \in 0..MaxFaults /\ nextId \in Nat
        /\ Len(chan) <= Capacity /\ Len(flight) <= Batch
    BY <1>1
  <2>2. DOMAIN reqs = {}
    BY <1>1
  <2>3. at \in [Callers -> {"idle", "send", "reply"}] /\ asked \in [Callers -> Texts \union {<<>>}]
        /\ out \in [Callers -> Texts \union {<<>>, Waiting, Error}]
    OBVIOUS
  <2> QED
    BY <1>1, <2>1, <2>2, <2>3 DEF TypeOK
<1>3. WaitInv
  BY DEF WaitInv
<1>4. 1..Len(Buffered) = {} /\ 1..Len(chan) = {} /\ DOMAIN reqs = {}
  BY <1>1 DEF Buffered
<1>5. ChanInv /\ ReqInv /\ RowInv /\ SlotInv
  BY <1>4 DEF ChanInv, ReqInv, RowInv, SlotInv
<1> QED
  BY <1>2, <1>3, <1>5 DEF Inv

----------------------------------------------------------------------------
(* The model's operators. *)

LEMMA TextsAre ==
  ASSUME NEW t \in Texts
  PROVE  /\ t \in Seq(Row) /\ Len(t) \in Sizes /\ Len(t) \in Nat
         /\ DOMAIN t = 1..Len(t) /\ t # Waiting /\ t # Error
<1>1. PICK n \in Sizes : t \in [1..n -> Row]
  BY DEF Texts
<1>2. n \in Nat
  BY BatchingAssumption
<1>3. t \in Seq(Row) /\ Len(t) = n /\ DOMAIN t = 1..n
  BY <1>1, <1>2
<1> QED
  BY <1>1, <1>2, <1>3, TokenAssumption

LEMMA BufferedIs ==
  ASSUME TypeOK
  PROVE  /\ Buffered \in Seq(Entry)
         /\ Len(flight) \in Nat /\ Len(pending) \in Nat
         /\ Len(Buffered) = Len(flight) + Len(pending)
         /\ \A j \in 1..Len(flight) : Buffered[j] = flight[j]
         /\ \A j \in 1..Len(pending) : Buffered[Len(flight) + j] = pending[j]
<1>1. flight \in Seq(Entry) /\ pending \in Seq(Entry)
  BY DEF TypeOK
<1>2. Len(flight) \in Nat /\ Len(pending) \in Nat
  BY <1>1
<1> QED
  BY <1>1, <1>2, ConcatProperties DEF Buffered

(* A slot keeps its row, or gets the one in flight that is its own. *)
LEMMA FilledIs ==
  ASSUME Inv, NEW id \in DOMAIN reqs
  PROVE  /\ Filled(id) \in Slots /\ DOMAIN Filled(id) = DOMAIN reqs[id].slots
         /\ \A i \in DOMAIN reqs[id].slots :
              /\ Filled(id)[i] \in {None, asked[reqs[id].caller][i]}
              /\ Filled(id)[i] = None <=>
                   /\ reqs[id].slots[i] = None
                   /\ ~\E j \in 1..Len(flight) : flight[j].id = id /\ flight[j].idx = i
         /\ (\A i \in DOMAIN reqs[id].slots : Filled(id)[i] # None)
              => Filled(id) = asked[reqs[id].caller]
<1> DEFINE c == reqs[id].caller
           sl == reqs[id].slots
           Mine(i) == {j \in 1..Len(flight) : flight[j].id = id /\ flight[j].idx = i}
<1>1. /\ c \in Callers /\ sl \in Slots /\ asked[c] \in Texts
      /\ DOMAIN sl = DOMAIN asked[c] /\ \A i \in DOMAIN sl : sl[i] \in {None, asked[c][i]}
  BY DEF Inv, TypeOK, ReqInv, WaitInv
<1>2. \A i \in DOMAIN sl : asked[c][i] \in Row /\ asked[c][i] # None
  BY <1>1, TextsAre, TokenAssumption
<1>3. ASSUME NEW i \in DOMAIN sl, NEW j \in Mine(i)
      PROVE  flight[j].text = asked[c][i]
  <2>1. j \in 1..Len(Buffered) /\ Buffered[j] = flight[j]
    BY BufferedIs DEF Inv
  <2> QED
    BY <2>1 DEF Inv, RowInv
<1>4. Filled(id) = [i \in DOMAIN sl |->
                      IF Mine(i) # {} /\ sl[i] = None
                      THEN flight[CHOOSE j \in Mine(i) : TRUE].text ELSE sl[i]]
  BY DEF Filled
<1>5. ASSUME NEW i \in DOMAIN sl
      PROVE  /\ Filled(id)[i] \in {None, asked[c][i]}
             /\ Filled(id)[i] = None <=> sl[i] = None /\ Mine(i) = {}
  <2>1. CASE Mine(i) # {} /\ sl[i] = None
    <3> DEFINE k == CHOOSE j \in Mine(i) : TRUE
    <3>1. k \in Mine(i)
      BY <2>1
    <3>2. Filled(id)[i] = flight[k].text
      BY <1>4, <2>1
    <3> HIDE DEF k, Mine
    <3> QED
      BY <1>2, <1>3, <2>1, <3>1, <3>2
  <2>2. CASE ~(Mine(i) # {} /\ sl[i] = None)
    <3>1. Filled(id)[i] = sl[i]
      BY <1>4, <2>2
    <3> QED
      BY <1>1, <2>2, <3>1
  <2> QED
    BY <2>1, <2>2
<1>6. DOMAIN Filled(id) = DOMAIN sl
  BY <1>4
<1>7. Filled(id) \in Slots
  <2>1. PICK n \in Sizes : sl \in [1..n -> Row \union {None}]
    BY <1>1 DEF Slots
  <2>2. \A i \in 1..n : Filled(id)[i] \in Row \union {None}
    BY <1>2, <1>5, <2>1
  <2>3. Filled(id) = [i \in 1..n |-> Filled(id)[i]]
    BY <1>4, <2>1
  <2>4. Filled(id) \in [1..n -> Row \union {None}]
    BY <2>2, <2>3
  <2> QED
    BY <2>4 DEF Slots
<1>8. ASSUME \A i \in DOMAIN sl : Filled(id)[i] # None
      PROVE  Filled(id) = asked[c]
  <2>1. \A i \in DOMAIN sl : Filled(id)[i] = asked[c][i]
    BY <1>5, <1>8
  <2>2. Filled(id) = [i \in DOMAIN sl |-> Filled(id)[i]]
    BY <1>4
  <2>3. asked[c] = [i \in DOMAIN sl |-> asked[c][i]]
    BY <1>1 DEF Texts
  <2> QED
    BY <2>1, <2>2, <2>3
<1>9. \A i \in DOMAIN sl : Mine(i) = {} <=>
        ~\E j \in 1..Len(flight) : flight[j].id = id /\ flight[j].idx = i
  OBVIOUS
<1> HIDE DEF Mine
<1> QED
  BY <1>5, <1>6, <1>7, <1>8, <1>9

(* The requests of D are answered, with their own rows or an error; an answer
   reaches the caller of its request and nobody else. *)
Answered(D) ==
  /\ at' \in [Callers -> {"idle", "send", "reply"}]
  /\ \A S : (\A c \in Callers : out'[c] \in S) => out' \in [Callers -> S]
  /\ \A c \in Callers :
       \/ /\ out'[c] = out[c] /\ at'[c] = at[c]
          /\ \A id \in D : reqs[id].caller # c
       \/ /\ at'[c] = "idle" /\ at[c] = "reply"
          /\ \E id \in D : reqs[id].caller = c /\ out'[c] \in {asked[c], Error}

----------------------------------------------------------------------------
(* The steps. *)

LEMMA CallKeeps ==
  ASSUME Inv, NEW c \in Callers, Call(c)
  PROVE  Inv'
<1> USE BatchingAssumption DEF Call, coalescer
<1> PICK n \in Sizes :
      /\ calls' = [calls EXCEPT ![c] = @ + 1]
      /\ asked' = [asked EXCEPT ![c] = Rows(c, calls[c] + 1, n)]
      /\ out' = [out EXCEPT ![c] = IF n = 0 THEN <<>> ELSE Waiting]
      /\ at' = [at EXCEPT ![c] = IF n = 0 THEN "idle" ELSE "send"]
  OBVIOUS
<1>0. /\ at[c] = "idle" /\ calls[c] < MaxCalls /\ struck' = struck \ {c}
      /\ UNCHANGED <<held, chan, pending, reqs, nextId, flight, alive, faults>>
      /\ TypeOK
  BY DEF Inv
<1>1. Rows(c, calls[c] + 1, n) \in Texts
  <2>1. calls[c] + 1 \in 1..MaxCalls
    BY <1>0 DEF TypeOK
  <2>2. \A i \in 1..n : <<c, calls[c] + 1, i>> \in Row
    BY <2>1 DEF Row
  <2>3. Rows(c, calls[c] + 1, n) \in [1..n -> Row]
    BY <2>2 DEF Rows
  <2> QED
    BY <2>3 DEF Texts
<1>2. TypeOK'
  <2>1. calls' \in [Callers -> 0..MaxCalls]
    BY <1>0 DEF TypeOK
  <2>2. asked' \in [Callers -> Texts \union {<<>>}]
    BY <1>0, <1>1 DEF TypeOK
  <2>3. /\ out' \in [Callers -> Texts \union {<<>>, Waiting, Error}]
        /\ at' \in [Callers -> {"idle", "send", "reply"}]
    BY <1>0 DEF TypeOK
  <2> QED
    BY <1>0, <2>1, <2>2, <2>3 DEF TypeOK
<1>3. WaitInv'
  BY <1>0, <1>1, TokenAssumption DEF WaitInv, Inv, TypeOK
<1>4. \A d \in Callers : at[d] = "reply" => d # c /\ at'[d] = at[d] /\ asked'[d] = asked[d]
  BY <1>0 DEF TypeOK
<1>5. ChanInv'
  BY <1>0, <1>4 DEF Inv, ChanInv, TypeOK
<1>6. \A id \in DOMAIN reqs : at[reqs[id].caller] = "reply" /\ reqs[id].caller \in Callers
  BY DEF Inv, ReqInv, TypeOK
<1>7. ReqInv'
  BY <1>0, <1>4, <1>6 DEF Inv, ReqInv
<1>8. Buffered' = Buffered
  BY <1>0 DEF Buffered
<1>9. RowInv' /\ SlotInv'
  BY <1>0, <1>4, <1>6, <1>8 DEF Inv, RowInv, SlotInv
<1> QED
  BY <1>2, <1>3, <1>5, <1>7, <1>9 DEF Inv

LEMMA SendKeeps ==
  ASSUME Inv, NEW c \in Callers, Send(c) \/ SendFails(c)
  PROVE  Inv'
<1> USE BatchingAssumption DEF coalescer
<1>0. /\ at[c] = "send" /\ TypeOK
      /\ UNCHANGED <<calls, asked, held, pending, reqs, nextId, flight, alive, faults>>
  BY DEF Inv, Send, SendFails
<1>1. \A d \in Callers : at[d] = "reply" => d # c /\ at'[d] = at[d]
  BY <1>0 DEF Send, SendFails, TypeOK
<1>2. \A id \in DOMAIN reqs : at[reqs[id].caller] = "reply" /\ reqs[id].caller \in Callers
  BY DEF Inv, ReqInv, TypeOK
<1>3. ReqInv' /\ RowInv' /\ SlotInv'
  <2>1. Buffered' = Buffered
    BY <1>0 DEF Buffered
  <2>2. ReqInv'
    BY <1>0, <1>1, <1>2 DEF Inv, ReqInv
  <2>3. RowInv' /\ SlotInv'
    BY <1>0, <2>1 DEF Inv, RowInv, SlotInv
  <2> QED
    BY <2>2, <2>3
<1>4. CASE Send(c)
  <2>1. /\ chan' = Append(chan, c) /\ at' = [at EXCEPT ![c] = "reply"]
        /\ UNCHANGED <<out, struck>> /\ chan \in Seq(Callers) /\ Len(chan) < Capacity
    BY <1>4, <1>0 DEF Send, TypeOK
  <2>2. /\ chan' \in Seq(Callers) /\ Len(chan') = Len(chan) + 1 /\ Len(chan) \in Nat
        /\ \A m \in 1..Len(chan) : chan'[m] = chan[m] /\ chan[m] \in Callers
        /\ chan'[Len(chan) + 1] = c
    BY <2>1
  <2>3. TypeOK'
    BY <1>0, <2>1, <2>2 DEF TypeOK
  <2>4. WaitInv'
    BY <1>0, <2>1 DEF Inv, WaitInv, TypeOK
  <2>5. \A m \in 1..Len(chan) : chan[m] # c /\ at[chan[m]] = "reply"
    BY <1>0 DEF Inv, ChanInv
  <2>6. \A m \in 1..Len(chan') : m \in 1..Len(chan) \/ m = Len(chan) + 1
    BY <2>2
  <2>7. ChanInv'
    <3>1. \A m \in 1..Len(chan') : at'[chan'[m]] = "reply"
      BY <1>0, <2>1, <2>2, <2>5, <2>6 DEF TypeOK
    <3>2. \A m, n \in 1..Len(chan') : chan'[m] = chan'[n] => m = n
      BY <2>2, <2>5, <2>6 DEF Inv, ChanInv
    <3>3. \A m \in 1..Len(chan') : \A id \in DOMAIN reqs' : reqs'[id].caller # chan'[m]
      BY <1>0, <1>2, <2>2, <2>6 DEF Inv, ChanInv
    <3> QED
      BY <3>1, <3>2, <3>3 DEF ChanInv
  <2> QED
    BY <1>3, <2>3, <2>4, <2>7 DEF Inv
<1>5. CASE SendFails(c)
  <2>1. /\ out' = [out EXCEPT ![c] = Error] /\ at' = [at EXCEPT ![c] = "idle"]
        /\ struck' = struck \union {c} /\ chan' = chan
    BY <1>5 DEF SendFails
  <2>2. TypeOK'
    BY <1>0, <2>1 DEF TypeOK
  <2>3. WaitInv'
    BY <1>0, <2>1, TokenAssumption DEF Inv, WaitInv, TypeOK
  <2>4. ChanInv'
    BY <1>0, <1>1, <2>1 DEF Inv, ChanInv, TypeOK
  <2> QED
    BY <1>3, <2>2, <2>3, <2>4 DEF Inv
<1> QED
  BY <1>4, <1>5

(* The rows of one inner call leave in order: what is buffered stays. *)
LEMMA DispatchKeeps ==
  ASSUME Inv, Looping, NEW k \in Nat, k <= Len(pending), k <= Batch, Dispatch(k)
  PROVE  Inv'
<1> USE BatchingAssumption DEF Dispatch, callers
<1>1. flight = <<>> /\ pending \in Seq(Entry) /\ Len(pending) \in Nat /\ TypeOK
  BY DEF Looping, Inv, TypeOK
<1>2. /\ flight' \in Seq(Entry) /\ Len(flight') = k
  <2>1. \A i \in 1..k : pending[i] \in Entry
    BY <1>1
  <2>2. SubSeq(pending, 1, k) \in Seq(Entry)
        /\ Len(SubSeq(pending, 1, k)) = IF 1 <= k THEN k - 1 + 1 ELSE 0
    BY <2>1, SubSeqProperties
  <2> QED
    BY <2>2
<1>3. pending' \in Seq(Entry)
  <2>1. \A i \in k + 1 .. Len(pending) : pending[i] \in Entry
    BY <1>1
  <2>2. k + 1 \in Int /\ Len(pending) \in Int
    BY <1>1
  <2>3. SubSeq(pending, k + 1, Len(pending)) \in Seq(Entry)
    BY <2>1, <2>2, SubSeqProperties
  <2> QED
    BY <2>3
<1>4. Buffered' = Buffered
  <2>1. 1 \in 1..Len(pending) + 1 /\ k \in 1 - 1 .. Len(pending) /\ Len(pending) \in k..Len(pending)
    BY <1>1
  <2>2. SubSeq(pending, 1, k) \o SubSeq(pending, k + 1, Len(pending))
          = SubSeq(pending, 1, Len(pending))
    BY <1>1, <2>1, ConcatAdjacentSubSeq
  <2>3. SubSeq(pending, 1, Len(pending)) = pending /\ <<>> \o pending = pending
    BY <1>1, SubSeqFull, ConcatEmptySeq
  <2> QED
    BY <1>1, <2>2, <2>3 DEF Buffered
<1>5. TypeOK'
  BY <1>1, <1>2, <1>3 DEF TypeOK
<1>6. WaitInv' /\ ChanInv' /\ ReqInv' /\ RowInv' /\ SlotInv'
  BY <1>4 DEF Inv, WaitInv, ChanInv, ReqInv, RowInv, SlotInv
<1> QED
  BY <1>5, <1>6 DEF Inv

(* The call at the head of the channel becomes a request of a new number, with
   a row buffered for each of its slots. *)
LEMMA EnqueueKeeps ==
  ASSUME Inv, Enqueue
  PROVE  Inv'
<1> USE BatchingAssumption DEF callers
<1> DEFINE c == Head(chan)
           n == Len(asked[c])
           new == [i \in 1..n |-> [id |-> nextId, idx |-> i, text |-> asked[c][i]]]
<1>1. /\ flight = <<>> /\ flight' = flight /\ nextId' = nextId + 1 /\ chan' = Tail(chan)
      /\ chan # <<>> /\ pending' = pending \o new
      /\ reqs' = [id \in DOMAIN reqs \union {nextId} |->
                    IF id = nextId THEN [caller |-> c, slots |-> [i \in 1..n |-> None]]
                    ELSE reqs[id]]
      /\ UNCHANGED <<at, calls, asked, out, held, alive, faults, struck>>
  BY DEF Enqueue, Looping
<1>2. TypeOK /\ chan \in Seq(Callers) /\ Len(chan) \in Nat \ {0} /\ nextId \in Nat
      /\ pending \in Seq(Entry) /\ Len(pending) \in Nat /\ DOMAIN reqs \subseteq 0..nextId - 1
  <2>1. TypeOK
    BY DEF Inv
  <2>2. /\ chan \in Seq(Callers) /\ nextId \in Nat /\ pending \in Seq(Entry)
        /\ DOMAIN reqs \subseteq 0..nextId - 1
    BY <2>1 DEF TypeOK
  <2>3. Len(chan) \in Nat \ {0} /\ Len(pending) \in Nat
    BY ONLY <1>1, <2>2
  <2> QED
    BY <2>1, <2>2, <2>3
<1>3. /\ c \in Callers /\ c = chan[1] /\ 1 \in 1..Len(chan) /\ chan' \in Seq(Callers)
      /\ Len(chan') = Len(chan) - 1
      /\ \A m \in 1..Len(chan') : m + 1 \in 1..Len(chan) /\ chan'[m] = chan[m + 1]
  BY <1>1, <1>2, HeadTailProperties
<1>4. at[c] = "reply" /\ asked[c] \in Texts
  BY <1>3 DEF Inv, ChanInv, WaitInv
<1>5. /\ asked[c] \in Seq(Row) /\ n \in Sizes /\ n \in Nat /\ DOMAIN asked[c] = 1..n
      /\ \A i \in 1..n : asked[c][i] \in Row
  BY <1>4, TextsAre
<1> HIDE DEF c, n
<1>6. new \in Seq(Entry) /\ Len(new) = n
      /\ \A i \in 1..n : new[i].id = nextId /\ new[i].idx = i /\ new[i].text = asked[c][i]
  <2>1. \A i \in 1..n : [id |-> nextId, idx |-> i, text |-> asked[c][i]] \in Entry
    BY <1>2, <1>5 DEF Entry
  <2>2. new \in Seq(Entry)
    BY <1>5, <2>1
  <2>3. Len(new) = n
    BY <1>5
  <2> QED
    BY <2>2, <2>3
<1> HIDE DEF new
<1>7. nextId \notin DOMAIN reqs
  BY <1>2
<1>8. /\ DOMAIN reqs' = DOMAIN reqs \union {nextId}
      /\ \A id \in DOMAIN reqs : reqs'[id] = reqs[id]
      /\ reqs'[nextId] = [caller |-> c, slots |-> [i \in 1..n |-> None]]
  BY <1>1, <1>7
<1>9. /\ Buffered = pending /\ Buffered' = pending \o new /\ Buffered' \in Seq(Entry)
      /\ Len(Buffered') = Len(pending) + n
      /\ \A j \in 1..Len(pending) : Buffered'[j] = pending[j]
      /\ \A i \in 1..n : Buffered'[Len(pending) + i] = new[i]
  <2>1. Buffered = pending /\ Buffered' = pending \o new
    BY <1>1, <1>2, <1>6, ConcatProperties, ConcatEmptySeq DEF Buffered
  <2> QED
    <3>1. /\ pending \o new \in Seq(Entry) /\ Len(pending \o new) = Len(pending) + Len(new)
          /\ \A i \in 1..Len(pending) + Len(new) :
               (pending \o new)[i] = IF i <= Len(pending) THEN pending[i] ELSE new[i - Len(pending)]
      BY ONLY <1>2, <1>6, ConcatProperties
    <3>2. \A j \in 1..Len(pending) : (pending \o new)[j] = pending[j]
      BY <1>2, <1>5, <1>6, <3>1
    <3>3. \A i \in 1..n : (pending \o new)[Len(pending) + i] = new[i]
      <4> SUFFICES ASSUME NEW i \in 1..n PROVE (pending \o new)[Len(pending) + i] = new[i]
        OBVIOUS
      <4>1. /\ Len(pending) + i \in 1..Len(pending) + Len(new)
            /\ ~(Len(pending) + i <= Len(pending)) /\ (Len(pending) + i) - Len(pending) = i
        BY <1>2, <1>5, <1>6
      <4> QED
        BY <3>1, <4>1
    <3> QED
      BY <1>6, <2>1, <3>1, <3>2, <3>3
<1>10. \A j \in 1..Len(Buffered') :
         j \in 1..Len(pending) \/ \E i \in 1..n : j = Len(pending) + i
  <2> SUFFICES ASSUME NEW j \in 1..Len(Buffered'), j \notin 1..Len(pending)
               PROVE  \E i \in 1..n : j = Len(pending) + i
    OBVIOUS
  <2>1. j - Len(pending) \in 1..n /\ j = Len(pending) + (j - Len(pending))
    BY <1>2, <1>5, <1>9
  <2> QED
    BY <2>1
<1>11. TypeOK'
  <2>1. pending' \in Seq(Entry) /\ Len(chan') <= Capacity /\ nextId' \in Nat
    BY <1>1, <1>2, <1>3, <1>6, ConcatProperties DEF TypeOK
  <2>2. DOMAIN reqs' \subseteq 0..nextId' - 1
    BY <1>1, <1>2, <1>8
  <2>3. [caller |-> c, slots |-> [i \in 1..n |-> None]] \in [caller : Callers, slots : Slots]
    BY <1>3, <1>5 DEF Slots
  <2>4. \A id \in DOMAIN reqs' : reqs'[id] \in [caller : Callers, slots : Slots]
    BY <1>2, <1>8, <2>3 DEF TypeOK
  <2> QED
    BY <1>1, <1>2, <1>3, <2>1, <2>2, <2>4 DEF TypeOK
<1>12. WaitInv'
  BY <1>1 DEF Inv, WaitInv
<1>13. ChanInv'
  <2>1. \A m \in 1..Len(chan') : at'[chan'[m]] = "reply" /\ chan'[m] # c
    <3> SUFFICES ASSUME NEW m \in 1..Len(chan') PROVE at'[chan'[m]] = "reply" /\ chan'[m] # c
      OBVIOUS
    <3>1. m + 1 \in 1..Len(chan) /\ m + 1 # 1 /\ chan'[m] = chan[m + 1]
      BY <1>2, <1>3
    <3> QED
      BY <1>1, <1>3, <3>1 DEF Inv, ChanInv
  <2>2. \A m, l \in 1..Len(chan') : chan'[m] = chan'[l] => m = l
    <3> SUFFICES ASSUME NEW m \in 1..Len(chan'), NEW l \in 1..Len(chan'), chan'[m] = chan'[l]
                 PROVE  m = l
      OBVIOUS
    <3>1. m + 1 = l + 1
      BY <1>3 DEF Inv, ChanInv
    <3> QED
      BY <1>2, <1>3, <3>1
  <2>3. \A m \in 1..Len(chan') : \A id \in DOMAIN reqs : reqs[id].caller # chan'[m]
    BY <1>3 DEF Inv, ChanInv
  <2> QED
    BY <1>8, <2>1, <2>2, <2>3 DEF ChanInv
<1>14. \A id \in DOMAIN reqs : reqs[id].caller # c
  BY <1>3 DEF Inv, ChanInv
<1>15. ReqInv'
  <2>1. reqs'[nextId].caller = c /\ DOMAIN reqs'[nextId].slots = DOMAIN asked[c]
        /\ \A i \in 1..n : reqs'[nextId].slots[i] = None
    BY <1>5, <1>8
  <2>2. \A id \in DOMAIN reqs' :
          /\ at'[reqs'[id].caller] = "reply"
          /\ DOMAIN reqs'[id].slots = DOMAIN asked'[reqs'[id].caller]
          /\ \A i \in DOMAIN reqs'[id].slots :
               reqs'[id].slots[i] \in {None, asked'[reqs'[id].caller][i]}
    <3> SUFFICES ASSUME NEW id \in DOMAIN reqs'
                 PROVE  /\ at'[reqs'[id].caller] = "reply"
                        /\ DOMAIN reqs'[id].slots = DOMAIN asked'[reqs'[id].caller]
                        /\ \A i \in DOMAIN reqs'[id].slots :
                             reqs'[id].slots[i] \in {None, asked'[reqs'[id].caller][i]}
      OBVIOUS
    <3>1. CASE id = nextId
      BY <1>1, <1>4, <1>5, <2>1, <3>1
    <3>2. CASE id \in DOMAIN reqs
      BY <1>1, <1>8, <3>2 DEF Inv, ReqInv
    <3> QED
      BY <1>8, <3>1, <3>2
  <2>3. \A id, jd \in DOMAIN reqs' : reqs'[id].caller = reqs'[jd].caller => id = jd
    BY <1>8, <1>14, <2>1 DEF Inv, ReqInv
  <2> QED
    BY <2>2, <2>3 DEF ReqInv
<1>16. RowInv'
  <2>1. \A j \in 1..Len(pending) : Buffered'[j] = pending[j] /\ pending[j].id < nextId
          /\ pending[j].id \in Nat /\ pending[j].id # nextId
    <3> SUFFICES ASSUME NEW j \in 1..Len(pending)
                 PROVE  /\ Buffered'[j] = pending[j] /\ pending[j].id < nextId
                        /\ pending[j].id \in Nat /\ pending[j].id # nextId
      OBVIOUS
    <3>1. Buffered'[j] = pending[j] /\ pending[j] \in Entry
      BY <1>2, <1>9
    <3>2. pending[j].id \in Nat
      BY <3>1 DEF Entry
    <3>3. pending[j].id < nextId
      BY <1>9 DEF Inv, RowInv
    <3> QED
      BY <1>2, <3>1, <3>2, <3>3
  <2>2. \A i \in 1..n : Buffered'[Len(pending) + i].id = nextId
          /\ Buffered'[Len(pending) + i].idx = i /\ Buffered'[Len(pending) + i].text = asked[c][i]
    BY <1>6, <1>9
  <2>3. \A j \in 1..Len(Buffered') : Buffered'[j].id < nextId'
    <3> SUFFICES ASSUME NEW j \in 1..Len(Buffered') PROVE Buffered'[j].id < nextId'
      OBVIOUS
    <3>1. CASE j \in 1..Len(pending)
      <4>1. Buffered'[j].id < nextId /\ Buffered'[j].id \in Nat
        BY <2>1, <3>1
      <4>2. nextId \in Nat /\ nextId' = nextId + 1
        BY <1>1, <1>2
      <4> QED
        BY ONLY <4>1, <4>2
    <3>2. CASE j \notin 1..Len(pending)
      <4>1. PICK i \in 1..n : j = Len(pending) + i
        BY <1>10, <3>2
      <4>2. Buffered'[j].id = nextId
        BY <2>2, <4>1
      <4>3. nextId \in Nat /\ nextId' = nextId + 1
        BY <1>1, <1>2
      <4> QED
        BY ONLY <4>2, <4>3
    <3> QED
      BY <3>1, <3>2
  <2>4. ASSUME NEW j \in 1..Len(Buffered'), NEW k \in 1..Len(Buffered'),
               Buffered'[j].id = Buffered'[k].id, Buffered'[j].idx = Buffered'[k].idx
        PROVE  j = k
    <3>1. CASE j \in 1..Len(pending)
      <4>1. k \in 1..Len(pending)
        <5>1. Buffered'[j].id # nextId
          BY <2>1, <3>1
        <5>2. \A i \in 1..n : k # Len(pending) + i
          BY ONLY <2>2, <2>4, <5>1
        <5> QED
          BY <1>10, <5>2
      <4> QED
        <5>1. \A l, m \in 1..Len(pending) :
                pending[l].id = pending[m].id /\ pending[l].idx = pending[m].idx => l = m
          BY <1>9 DEF Inv, RowInv
        <5> QED
          BY ONLY <2>1, <2>4, <3>1, <4>1, <5>1
    <3>2. CASE j \notin 1..Len(pending)
      <4>1. PICK i \in 1..n : j = Len(pending) + i
        BY <1>10, <3>2
      <4>2. k \notin 1..Len(pending)
        BY <2>1, <2>2, <2>4, <4>1
      <4>3. PICK l \in 1..n : k = Len(pending) + l
        BY <1>10, <4>2
      <4> QED
        BY <2>2, <2>4, <4>1, <4>3
    <3> QED
      BY <3>1, <3>2
  <2>5. ASSUME NEW j \in 1..Len(Buffered'), Buffered'[j].id \in DOMAIN reqs'
        PROVE  /\ Buffered'[j].idx \in DOMAIN reqs'[Buffered'[j].id].slots
               /\ Buffered'[j].text = asked'[reqs'[Buffered'[j].id].caller][Buffered'[j].idx]
               /\ reqs'[Buffered'[j].id].slots[Buffered'[j].idx] = None
    <3>1. CASE j \in 1..Len(pending)
      <4>1. Buffered'[j] = Buffered[j] /\ j \in 1..Len(Buffered) /\ Buffered[j].id # nextId
        BY <1>9, <2>1, <3>1
      <4>2. Buffered[j].id \in DOMAIN reqs /\ reqs'[Buffered[j].id] = reqs[Buffered[j].id]
        BY <1>8, <2>5, <4>1
      <4> QED
        BY <1>1, <4>1, <4>2 DEF Inv, RowInv
    <3>2. CASE j \notin 1..Len(pending)
      <4>1. PICK i \in 1..n : j = Len(pending) + i
        BY <1>10, <3>2
      <4> QED
        BY <1>1, <1>8, <2>2, <4>1
    <3> QED
      BY <3>1, <3>2
  <2> QED
    BY <2>3, <2>4, <2>5 DEF RowInv
<1>17. SlotInv'
  <2> SUFFICES ASSUME NEW id \in DOMAIN reqs', NEW i \in DOMAIN reqs'[id].slots,
                      reqs'[id].slots[i] = None
               PROVE  \E j \in 1..Len(Buffered') : Buffered'[j].id = id /\ Buffered'[j].idx = i
    BY DEF SlotInv
  <2>1. CASE id = nextId
    <3>1. i \in 1..n
      <4>1. reqs'[nextId].slots = [l \in 1..n |-> None]
        BY <1>8
      <4> QED
        BY <2>1, <4>1
    <3>2. Len(pending) + i \in 1..Len(Buffered')
      BY <1>2, <1>5, <1>9, <3>1
    <3> QED
      BY <1>6, <1>9, <2>1, <3>1, <3>2
  <2>2. CASE id # nextId
    <3>1. id \in DOMAIN reqs /\ reqs'[id] = reqs[id]
      BY <1>8, <2>2
    <3>2. PICK j \in 1..Len(Buffered) : Buffered[j].id = id /\ Buffered[j].idx = i
      BY <3>1 DEF Inv, SlotInv
    <3>3. j \in 1..Len(Buffered') /\ Buffered'[j] = Buffered[j]
      BY <1>2, <1>5, <1>9, <3>2
    <3> QED
      BY <3>2, <3>3
  <2> QED
    BY <2>1, <2>2
<1> QED
  BY <1>11, <1>12, <1>13, <1>15, <1>16, <1>17 DEF Inv

(* The rows in flight land: the requests of D are answered and the vectors of
   the others are filled in. *)
LEMMA LandKeeps ==
  ASSUME Inv, NEW D \in SUBSET DOMAIN reqs, Answered(D),
         reqs' = [id \in DOMAIN reqs \ D |-> [reqs[id] EXCEPT !.slots = Filled(id)]],
         flight' = <<>>, faults' \in 0..MaxFaults, struck' \in SUBSET Callers,
         UNCHANGED <<calls, asked, held, chan, pending, nextId, alive>>
  PROVE  Inv'
<1> USE BatchingAssumption
<1>1. TypeOK /\ pending \in Seq(Entry) /\ Len(pending) \in Nat /\ Len(flight) \in Nat
  BY DEF Inv, TypeOK
<1>2. Buffered' = pending
  BY <1>1, ConcatEmptySeq DEF Buffered
<1>3. \A j \in 1..Len(Buffered') :
        Len(flight) + j \in 1..Len(Buffered) /\ Buffered[Len(flight) + j] = Buffered'[j]
  BY <1>1, <1>2, BufferedIs
<1>4. /\ DOMAIN reqs' = DOMAIN reqs \ D
      /\ \A id \in DOMAIN reqs' : /\ id \in DOMAIN reqs /\ reqs'[id].caller = reqs[id].caller
                                  /\ reqs'[id].slots = Filled(id)
                                  /\ reqs'[id] \in [caller : Callers, slots : Slots]
  <2>1. ASSUME NEW id \in DOMAIN reqs \ D
        PROVE  /\ [reqs[id] EXCEPT !.slots = Filled(id)].caller = reqs[id].caller
               /\ [reqs[id] EXCEPT !.slots = Filled(id)].slots = Filled(id)
               /\ [reqs[id] EXCEPT !.slots = Filled(id)] \in [caller : Callers, slots : Slots]
    <3>1. reqs[id] \in [caller : Callers, slots : Slots] /\ Filled(id) \in Slots
      BY <1>1, FilledIs DEF TypeOK
    <3> QED
      BY <3>1
  <2> QED
    BY <2>1
<1>5. /\ at' \in [Callers -> {"idle", "send", "reply"}]
      /\ \A S : (\A c \in Callers : out'[c] \in S) => out' \in [Callers -> S]
      /\ \A c \in Callers :
           \/ /\ out'[c] = out[c] /\ at'[c] = at[c]
              /\ \A id \in D : reqs[id].caller # c
           \/ /\ at'[c] = "idle" /\ at[c] = "reply"
              /\ \E id \in D : reqs[id].caller = c /\ out'[c] \in {asked[c], Error}
  BY DEF Answered
<1>6. \A c \in Callers :
        \/ /\ out'[c] = out[c] /\ at'[c] = at[c]
           /\ \A id \in D : reqs[id].caller # c
        \/ /\ at'[c] = "idle" /\ out'[c] \in Texts \union {Error} /\ out'[c] # Waiting
  <2>1. \A c \in Callers : at[c] = "reply" =>
          asked[c] \in Texts /\ asked[c] # Waiting /\ Error # Waiting
    BY TextsAre, TokenAssumption DEF Inv, WaitInv
  <2> QED
    BY <1>5, <2>1
<1>7. TypeOK'
  <2>1. \A c \in Callers : out'[c] \in Texts \union {<<>>, Waiting, Error}
    BY <1>1, <1>6 DEF TypeOK
  <2>2. out' \in [Callers -> Texts \union {<<>>, Waiting, Error}]
    BY <1>5, <2>1
  <2>3. flight' \in Seq(Entry) /\ Len(flight') <= Batch
    OBVIOUS
  <2> QED
    BY <1>1, <1>4, <1>5, <2>2, <2>3 DEF TypeOK
<1>8. WaitInv'
  BY <1>6 DEF Inv, WaitInv
<1>9. ChanInv'
  <2>1. \A m \in 1..Len(chan) :
          /\ chan[m] \in Callers /\ at[chan[m]] = "reply"
          /\ \A id \in DOMAIN reqs : reqs[id].caller # chan[m]
    BY <1>1 DEF Inv, ChanInv, TypeOK
  <2>2. \A m \in 1..Len(chan) : at'[chan[m]] = "reply"
    BY <1>5, <2>1
  <2>3. \A m \in 1..Len(chan) : \A id \in DOMAIN reqs' : reqs'[id].caller # chan[m]
    BY ONLY <1>4, <2>1
  <2>4. \A m, n \in 1..Len(chan) : chan[m] = chan[n] => m = n
    BY DEF Inv, ChanInv
  <2> QED
    BY <2>2, <2>3, <2>4 DEF ChanInv
<1>10. ReqInv'
  <2>1. \A id \in DOMAIN reqs' : at'[reqs[id].caller] = "reply"
    <3> SUFFICES ASSUME NEW id \in DOMAIN reqs' PROVE at'[reqs[id].caller] = "reply"
      OBVIOUS
    <3>1. id \in DOMAIN reqs /\ id \notin D
      BY <1>4
    <3>2. reqs[id].caller \in Callers /\ at[reqs[id].caller] = "reply"
      BY <1>1, <3>1 DEF Inv, ReqInv, TypeOK
    <3>3. \A jd \in D : reqs[jd].caller # reqs[id].caller
      BY <3>1 DEF Inv, ReqInv
    <3> QED
      BY <1>5, <3>2, <3>3
  <2>2. \A id \in DOMAIN reqs' :
          /\ DOMAIN Filled(id) = DOMAIN asked[reqs[id].caller]
          /\ \A i \in DOMAIN Filled(id) : Filled(id)[i] \in {None, asked[reqs[id].caller][i]}
    BY <1>4, FilledIs DEF Inv, ReqInv
  <2> QED
    BY <1>4, <2>1, <2>2 DEF Inv, ReqInv
<1>11. RowInv'
  <2>1. \A j \in 1..Len(Buffered') : Buffered'[j].id < nextId'
    BY <1>3 DEF Inv, RowInv
  <2>2. ASSUME NEW j \in 1..Len(Buffered'), NEW k \in 1..Len(Buffered'),
               Buffered'[j].id = Buffered'[k].id, Buffered'[j].idx = Buffered'[k].idx
        PROVE  j = k
    <3> DEFINE J == Len(flight) + j
               K == Len(flight) + k
    <3>0. /\ J \in 1..Len(Buffered) /\ Buffered[J] = Buffered'[j]
          /\ K \in 1..Len(Buffered) /\ Buffered[K] = Buffered'[k]
      BY <1>3
    <3> HIDE DEF J, K
    <3>2. J = K
      BY <2>2, <3>0 DEF Inv, RowInv
    <3>1. Len(flight) + j = Len(flight) + k
      BY <3>2 DEF J, K
    <3> QED
      BY <1>1, <1>2, <3>1
  <2>3. ASSUME NEW j \in 1..Len(Buffered'), Buffered'[j].id \in DOMAIN reqs'
        PROVE  /\ Buffered'[j].idx \in DOMAIN reqs'[Buffered'[j].id].slots
               /\ Buffered'[j].text = asked'[reqs'[Buffered'[j].id].caller][Buffered'[j].idx]
               /\ reqs'[Buffered'[j].id].slots[Buffered'[j].idx] = None
    <3> DEFINE id == Buffered'[j].id
               i == Buffered'[j].idx
    <3>1. /\ id \in DOMAIN reqs /\ reqs'[id].slots = Filled(id)
          /\ reqs'[id].caller = reqs[id].caller
      BY <1>4, <2>3
    <3>2. /\ i \in DOMAIN reqs[id].slots /\ reqs[id].slots[i] = None
          /\ Buffered'[j].text = asked[reqs[id].caller][i]
      <4>1. PICK J \in 1..Len(Buffered) : Buffered[J] = Buffered'[j]
        BY <1>3
      <4>2. Buffered[J].id \in DOMAIN reqs
        BY <3>1, <4>1
      <4>3. /\ Buffered[J].idx \in DOMAIN reqs[Buffered[J].id].slots
            /\ reqs[Buffered[J].id].slots[Buffered[J].idx] = None
            /\ Buffered[J].text = asked[reqs[Buffered[J].id].caller][Buffered[J].idx]
        BY <4>2 DEF Inv, RowInv
      <4> QED
        BY <4>1, <4>3
    <3>3. \A k \in 1..Len(flight) : ~(flight[k].id = id /\ flight[k].idx = i)
      <4> SUFFICES ASSUME NEW k \in 1..Len(flight), flight[k].id = id, flight[k].idx = i
                   PROVE  FALSE
        OBVIOUS
      <4>1. k \in 1..Len(Buffered) /\ Buffered[k] = flight[k]
        BY <1>1, BufferedIs
      <4> DEFINE J == Len(flight) + j
      <4>0. J \in 1..Len(Buffered) /\ Buffered[J] = Buffered'[j]
        BY <1>3
      <4> HIDE DEF J
      <4>3. k = J
        BY <4>0, <4>1 DEF Inv, RowInv
      <4>2. k = Len(flight) + j
        BY <4>3 DEF J
      <4> QED
        BY <1>1, <1>2, <4>2
    <3>4. DOMAIN Filled(id) = DOMAIN reqs[id].slots /\ Filled(id)[i] = None
      BY <3>1, <3>2, <3>3, FilledIs
    <3> HIDE DEF id, i
    <3>5. /\ i \in DOMAIN reqs'[id].slots
          /\ Buffered'[j].text = asked'[reqs'[id].caller][i]
          /\ reqs'[id].slots[i] = None
      BY <3>1, <3>2, <3>4
    <3> QED
      BY <3>5 DEF id, i
  <2> QED
    BY <2>1, <2>2, <2>3 DEF RowInv
<1>12. SlotInv'
  <2> SUFFICES ASSUME NEW id \in DOMAIN reqs', NEW i \in DOMAIN reqs'[id].slots,
                      reqs'[id].slots[i] = None
               PROVE  \E j \in 1..Len(Buffered') : Buffered'[j].id = id /\ Buffered'[j].idx = i
    BY DEF SlotInv
  <2>1. id \in DOMAIN reqs /\ reqs'[id].slots = Filled(id)
    BY <1>4
  <2>2. /\ i \in DOMAIN reqs[id].slots /\ reqs[id].slots[i] = None
        /\ ~\E j \in 1..Len(flight) : flight[j].id = id /\ flight[j].idx = i
    BY <2>1, FilledIs
  <2>3. PICK j \in 1..Len(Buffered) : Buffered[j].id = id /\ Buffered[j].idx = i
    BY <2>1, <2>2 DEF Inv, SlotInv
  <2>4. j \notin 1..Len(flight)
    BY <1>1, <2>2, <2>3, BufferedIs
  <2>5. j - Len(flight) \in 1..Len(Buffered') /\ Len(flight) + (j - Len(flight)) = j
    BY <1>1, <1>2, <2>4, BufferedIs
  <2> QED
    BY <1>3, <2>3, <2>5
<1> QED
  BY <1>7, <1>8, <1>9, <1>10, <1>11, <1>12 DEF Inv

(* The requests completed by the rows in flight. *)
Done == {id \in Owners : \A i \in DOMAIN reqs[id].slots : Filled(id)[i] # None}

LEMMA ReturnsAnswer ==
  ASSUME Inv, InnerReturns
  PROVE  /\ Answered(Done)
         /\ \A c \in Callers : out'[c] = out[c] \/ (at[c] = "reply" /\ out'[c] = asked[c])
<1> DEFINE answer == [id \in Done |-> Filled(id)]
           answered == {reqs[id].caller : id \in DOMAIN answer}
           idOf(c) == CHOOSE id \in DOMAIN answer : reqs[id].caller = c
<1>1. Reply(answer)
  BY DEF InnerReturns, Done
<1>2. DOMAIN answer = Done /\ Done \subseteq DOMAIN reqs
  BY DEF Done, Owners
<1>3. \A id \in Done : answer[id] = asked[reqs[id].caller]
  BY FilledIs DEF Done, Owners
<1> HIDE DEF answer
<1>4. /\ out' = [c \in Callers |-> IF c \in answered THEN answer[idOf(c)] ELSE out[c]]
      /\ at' = [c \in Callers |-> IF c \in answered THEN "idle" ELSE at[c]]
  BY <1>1 DEF Reply
<1>5. \A c \in answered : idOf(c) \in Done /\ reqs[idOf(c)].caller = c /\ at[c] = "reply"
  BY <1>2 DEF Inv, ReqInv
<1>6. \A c : c \notin answered => \A id \in Done : reqs[id].caller # c
  BY <1>2
<1> HIDE DEF answered, idOf
<1>7. at' \in [Callers -> {"idle", "send", "reply"}]
  BY <1>4 DEF Inv, TypeOK
<1>8. ASSUME NEW S, \A c \in Callers : out'[c] \in S
      PROVE  out' \in [Callers -> S]
  BY <1>4, <1>8
<1>9. ASSUME NEW c \in Callers, c \in answered
      PROVE  /\ at'[c] = "idle" /\ at[c] = "reply" /\ out'[c] = asked[c]
             /\ \E id \in Done : reqs[id].caller = c /\ out'[c] \in {asked[c], Error}
  <2>1. out'[c] = answer[idOf(c)] /\ at'[c] = "idle"
    BY <1>4, <1>9
  <2> QED
    BY <1>3, <1>5, <1>9, <2>1
<1>10. ASSUME NEW c \in Callers, c \notin answered
       PROVE  out'[c] = out[c] /\ at'[c] = at[c] /\ \A id \in Done : reqs[id].caller # c
  BY <1>4, <1>6, <1>10
<1> QED
  BY <1>7, <1>8, <1>9, <1>10 DEF Answered

LEMMA FailsAnswer ==
  ASSUME Inv, InnerFails
  PROVE  /\ Answered(Owners)
         /\ \A c \in Callers : out'[c] = out[c]
              \/ (at[c] = "reply" /\ out'[c] = Error /\ c \in struck')
<1> DEFINE answer == [id \in Owners |-> Error]
           answered == {reqs[id].caller : id \in DOMAIN answer}
           idOf(c) == CHOOSE id \in DOMAIN answer : reqs[id].caller = c
<1>1. Reply(answer) /\ struck' = struck \union {reqs[id].caller : id \in Owners}
  BY DEF InnerFails
<1>2. DOMAIN answer = Owners /\ \A id \in Owners : answer[id] = Error
  OBVIOUS
<1> HIDE DEF answer
<1>3. /\ out' = [c \in Callers |-> IF c \in answered THEN answer[idOf(c)] ELSE out[c]]
      /\ at' = [c \in Callers |-> IF c \in answered THEN "idle" ELSE at[c]]
  BY <1>1 DEF Reply
<1>4. \A c \in answered : idOf(c) \in Owners /\ reqs[idOf(c)].caller = c /\ at[c] = "reply"
  BY <1>2 DEF Inv, ReqInv, Owners
<1>5. \A c : c \notin answered => \A id \in Owners : reqs[id].caller # c
  BY <1>2
<1>6. \A c \in answered : c \in struck'
  BY <1>1, <1>2
<1> HIDE DEF answered, idOf
<1>7. at' \in [Callers -> {"idle", "send", "reply"}]
  BY <1>3 DEF Inv, TypeOK
<1>8. ASSUME NEW S, \A c \in Callers : out'[c] \in S
      PROVE  out' \in [Callers -> S]
  BY <1>3, <1>8
<1>9. ASSUME NEW c \in Callers, c \in answered
      PROVE  /\ at'[c] = "idle" /\ at[c] = "reply" /\ out'[c] = Error /\ c \in struck'
             /\ \E id \in Owners : reqs[id].caller = c /\ out'[c] \in {asked[c], Error}
  <2>1. out'[c] = answer[idOf(c)] /\ at'[c] = "idle"
    BY <1>3, <1>9
  <2> QED
    BY <1>2, <1>4, <1>6, <1>9, <2>1
<1>10. ASSUME NEW c \in Callers, c \notin answered
       PROVE  out'[c] = out[c] /\ at'[c] = at[c] /\ \A id \in Owners : reqs[id].caller # c
  BY <1>3, <1>5, <1>10
<1> QED
  BY <1>7, <1>8, <1>9, <1>10 DEF Answered

LEMMA ReturnsKeeps ==
  ASSUME Inv, InnerReturns
  PROVE  Inv'
<1>1. PICK D \in SUBSET DOMAIN reqs : D = Done
  BY DEF Done, Owners
<1>2. Answered(D)
  BY <1>1, ReturnsAnswer DEF Answered
<1>3. reqs' = [id \in DOMAIN reqs \ D |-> [reqs[id] EXCEPT !.slots = Filled(id)]]
  BY <1>1 DEF InnerReturns, Done
<1>4. /\ flight' = <<>> /\ faults' \in 0..MaxFaults /\ struck' \in SUBSET Callers
      /\ UNCHANGED <<calls, asked, held, chan, pending, nextId, alive>>
  BY DEF InnerReturns, Inv, TypeOK
<1> QED
  BY <1>2, <1>3, <1>4, LandKeeps DEF Answered

(* No row of a request that stays is in the failed batch. *)
LEMMA FailsKeeps ==
  ASSUME Inv, InnerFails
  PROVE  Inv'
<1>1. PICK D \in SUBSET DOMAIN reqs : D = Owners
  BY DEF Owners
<1>2. Answered(D)
  BY <1>1, FailsAnswer DEF Answered
<1>3. \A id \in DOMAIN reqs \ D : [reqs[id] EXCEPT !.slots = Filled(id)] = reqs[id]
  <2> SUFFICES ASSUME NEW id \in DOMAIN reqs \ D
               PROVE  [reqs[id] EXCEPT !.slots = Filled(id)] = reqs[id]
    OBVIOUS
  <2>1. \A j \in 1..Len(flight) : flight[j].id # id
    BY <1>1 DEF Owners
  <2>2. \A i \in DOMAIN reqs[id].slots :
          {j \in 1..Len(flight) : flight[j].id = id /\ flight[j].idx = i} = {}
    BY <2>1
  <2>3. Filled(id) = [i \in DOMAIN reqs[id].slots |-> reqs[id].slots[i]]
    BY <2>2 DEF Filled
  <2>4. reqs[id] \in [caller : Callers, slots : Slots]
    BY DEF Inv, TypeOK
  <2>5. [i \in DOMAIN reqs[id].slots |-> reqs[id].slots[i]] = reqs[id].slots
    BY <2>4 DEF Slots
  <2> QED
    BY <2>3, <2>4, <2>5
<1>4. reqs' = [id \in DOMAIN reqs \ D |-> [reqs[id] EXCEPT !.slots = Filled(id)]]
  BY <1>1, <1>3 DEF InnerFails
<1>5. /\ flight' = <<>> /\ faults' \in 0..MaxFaults
      /\ UNCHANGED <<calls, asked, held, chan, pending, nextId, alive>>
  BY BatchingAssumption DEF InnerFails, Inv, TypeOK
<1>6. struck' \in SUBSET Callers
  BY DEF InnerFails, Owners, Inv, TypeOK
<1> QED
  BY <1>2, <1>4, <1>5, <1>6, LandKeeps DEF Answered

(* The task unwinds: every request and every call in the channel is cut off. *)
LEMMA PanicsKeeps ==
  ASSUME Inv, InnerPanics
  PROVE  Inv'
<1>1. /\ TypeOK /\ chan' = <<>> /\ pending' = <<>> /\ flight' = <<>> /\ reqs' = <<>>
      /\ alive' = FALSE /\ UNCHANGED <<calls, asked, held, nextId>>
      /\ faults < MaxFaults /\ faults' = faults + 1
  BY DEF InnerPanics, Inv
<1>2. /\ out' = [c \in Callers |-> IF at[c] = "reply" THEN Error ELSE out[c]]
      /\ at' = [c \in Callers |-> IF at[c] = "reply" THEN "idle" ELSE at[c]]
      /\ struck' \in SUBSET Callers
  BY DEF InnerPanics, Inv, TypeOK
<1>3. /\ <<>> \in Seq(Callers) /\ <<>> \in Seq(Entry) /\ Len(<<>>) = 0 /\ <<>> \o <<>> = <<>>
      /\ DOMAIN <<>> = {}
  OBVIOUS
<1>4. TypeOK'
  <2>1. faults' \in 0..MaxFaults /\ Len(chan') <= Capacity /\ Len(flight') <= Batch
    BY <1>1, <1>3, BatchingAssumption DEF TypeOK
  <2>2. DOMAIN reqs' = {}
    BY <1>1, <1>3
  <2>3. at' \in [Callers -> {"idle", "send", "reply"}]
        /\ out' \in [Callers -> Texts \union {<<>>, Waiting, Error}]
    BY <1>1, <1>2 DEF TypeOK
  <2> QED
    BY <1>1, <1>2, <1>3, <2>1, <2>2, <2>3 DEF TypeOK
<1>5. WaitInv'
  BY <1>1, <1>2, TokenAssumption DEF Inv, WaitInv
<1>6. 1..Len(Buffered') = {} /\ 1..Len(chan') = {} /\ DOMAIN reqs' = {}
  BY <1>1, <1>3 DEF Buffered
<1>7. ChanInv' /\ ReqInv' /\ RowInv' /\ SlotInv'
  BY <1>6 DEF ChanInv, ReqInv, RowInv, SlotInv
<1> QED
  BY <1>4, <1>5, <1>7 DEF Inv

LEMMA QuietKeeps ==
  ASSUME Inv, Stop \/ DropEmbedder \/ UNCHANGED vars
  PROVE  Inv'
<1>1. /\ UNCHANGED <<at, calls, asked, out, chan, pending, reqs, nextId, flight, faults, struck>>
      /\ held' \in BOOLEAN /\ alive' \in BOOLEAN
  BY DEF Stop, DropEmbedder, vars, callers, coalescer, Inv, TypeOK
<1>2. Buffered' = Buffered
  BY <1>1 DEF Buffered
<1>3. TypeOK'
  BY <1>1 DEF Inv, TypeOK
<1>4. WaitInv' /\ ChanInv' /\ ReqInv' /\ RowInv' /\ SlotInv'
  BY <1>1, <1>2 DEF Inv, WaitInv, ChanInv, ReqInv, RowInv, SlotInv
<1> QED
  BY <1>3, <1>4 DEF Inv

LEMMA InvStep == Inv /\ [Next]_vars => Inv'
<1> SUFFICES ASSUME Inv, [Next]_vars PROVE Inv'
  OBVIOUS
<1>1. ASSUME NEW c \in Callers, Call(c) \/ CallerStep(c) PROVE Inv'
  BY <1>1, CallKeeps, SendKeeps DEF CallerStep
<1>2. CASE Stop \/ DropEmbedder \/ UNCHANGED vars
  BY <1>2, QuietKeeps
<1>3. pending \in Seq(Entry) /\ Len(pending) \in Nat /\ Batch \in Nat \ {0}
  BY BatchingAssumption DEF Inv, TypeOK
<1>4. CASE DispatchFull
  <2>1. Looping /\ Dispatch(Batch) /\ Batch <= Len(pending) /\ Batch \in Nat /\ Batch <= Batch
    BY <1>3, <1>4 DEF DispatchFull
  <2>2. PICK k \in Nat : k = Batch
    BY <2>1
  <2> QED
    BY <2>1, <2>2, DispatchKeeps DEF Dispatch
<1>5. CASE FlushPartial
  <2>1. Looping /\ Dispatch(Len(pending)) /\ Len(pending) <= Batch
    BY <1>3, <1>5 DEF FlushPartial
  <2>2. PICK k \in Nat : k = Len(pending)
    BY <1>3
  <2>3. k <= Len(pending) /\ k <= Batch
    BY <1>3, <2>1, <2>2
  <2> QED
    BY <2>1, <2>2, <2>3, DispatchKeeps DEF Dispatch
<1>6. CASE Enqueue
  BY <1>6, EnqueueKeeps
<1>7. CASE InnerAnswers
  BY <1>7, ReturnsKeeps, FailsKeeps, PanicsKeeps DEF InnerAnswers
<1> QED
  BY <1>1, <1>2, <1>4, <1>5, <1>6, <1>7 DEF Next, CoalescerStep

LEMMA InvAlways == Spec => []Inv
BY InvInit, InvStep, PTL DEF Spec

----------------------------------------------------------------------------
(* The theorems. *)

(* Every empty slot of an outstanding request has exactly one row on its way,
   with its own text, and a filled one has none. *)
THEOREM RowsConservedHolds == Spec => []RowsConserved
<1>1. ASSUME Inv PROVE RowsConserved
  <2> DEFINE coming(id, i) ==
        {j \in 1..Len(Buffered) : Buffered[j].id = id /\ Buffered[j].idx = i}
  <2> SUFFICES ASSUME NEW id \in DOMAIN reqs, NEW i \in DOMAIN reqs[id].slots
               PROVE  IF reqs[id].slots[i] = None
                      THEN \E j \in coming(id, i) :
                             /\ coming(id, i) = {j}
                             /\ Buffered[j].text = asked[reqs[id].caller][i]
                      ELSE coming(id, i) = {}
    BY DEF RowsConserved, Buffered
  <2>1. \A j \in coming(id, i) :
          reqs[id].slots[i] = None /\ Buffered[j].text = asked[reqs[id].caller][i]
    BY <1>1 DEF Inv, RowInv
  <2>2. \A j, k \in coming(id, i) : j = k
    BY <1>1 DEF Inv, RowInv
  <2>3. reqs[id].slots[i] = None => \E j \in coming(id, i) : TRUE
    BY <1>1 DEF Inv, SlotInv
  <2> HIDE DEF coming
  <2> QED
    BY <2>1, <2>2, <2>3
<1> QED
  BY <1>1, InvAlways, PTL

(* What a step can do to a call's answer: end it with its rows or with an
   error that is recorded, or start the next call. *)
LEMMA AnswersExplained ==
  ASSUME Inv, [Next]_vars, NEW c \in Callers, ~Call(c)
  PROVE  /\ asked'[c] = asked[c] /\ (c \in struck => c \in struck')
         /\ out'[c] # out[c] =>
              out[c] = Waiting /\ (out'[c] = asked[c] \/ (out'[c] = Error /\ c \in struck'))
<1> USE DEF callers, coalescer
<1>1. at[c] # "idle" => out[c] = Waiting
  BY DEF Inv, WaitInv
<1>2. ASSUME NEW d \in Callers, Call(d)
      PROVE  asked'[c] = asked[c] /\ out'[c] = out[c] /\ (c \in struck => c \in struck')
  BY <1>2 DEF Call, Inv, TypeOK
<1>3. ASSUME NEW d \in Callers, CallerStep(d)
      PROVE  /\ asked'[c] = asked[c] /\ (c \in struck => c \in struck')
             /\ out'[c] # out[c] => c = d /\ at[c] = "send" /\ out'[c] = Error /\ c \in struck'
  BY <1>3 DEF CallerStep, Send, SendFails, Inv, TypeOK
<1>4. CASE DropEmbedder \/ CoalescerStep \/ UNCHANGED vars
  BY <1>4 DEF DropEmbedder, CoalescerStep, DispatchFull, Enqueue, FlushPartial, Dispatch, Stop, vars
<1>5. CASE InnerReturns
  <2>1. UNCHANGED <<asked, struck>>
    BY <1>5 DEF InnerReturns
  <2> QED
    BY <1>1, <1>5, <2>1, ReturnsAnswer
<1>6. CASE InnerFails
  <2>1. asked' = asked /\ struck \subseteq struck'
    BY <1>6 DEF InnerFails
  <2> QED
    BY <1>1, <1>6, <2>1, FailsAnswer
<1>7. CASE InnerPanics
  <2>1. /\ asked' = asked /\ struck \subseteq struck'
        /\ out' = [d \in Callers |-> IF at[d] = "reply" THEN Error ELSE out[d]]
        /\ at[c] = "reply" => c \in struck'
    BY <1>7 DEF InnerPanics
  <2> QED
    BY <1>1, <2>1
<1> QED
  BY <1>1, <1>2, <1>3, <1>4, <1>5, <1>6, <1>7 DEF Next, InnerAnswers

(* A failure reaches the callers with a row in the failed batch, those cut off
   by a panic or refused by a stopped task, and no other. *)
THEOREM ErrorsExplainedHolds == Spec => []ErrorsExplained
<1>1. Init => ErrorsExplained
  BY TokenAssumption DEF Init, ErrorsExplained
<1>2. Inv /\ ErrorsExplained /\ [Next]_vars => ErrorsExplained'
  <2> SUFFICES ASSUME Inv, ErrorsExplained, [Next]_vars, NEW c \in Callers, out'[c] = Error
               PROVE  c \in struck'
    BY DEF ErrorsExplained
  <2>1. ~Call(c)
    BY TokenAssumption DEF Call, Inv, TypeOK
  <2>2. asked[c] # Error
    BY TokenAssumption DEF Inv, TypeOK
  <2>3. c \in struck => c \in struck'
    BY <2>1, AnswersExplained
  <2>4. out'[c] # out[c] => c \in struck'
    BY <2>1, <2>2, AnswersExplained
  <2> QED
    BY <2>3, <2>4 DEF ErrorsExplained
<1> QED
  BY <1>1, <1>2, InvAlways, PTL DEF Spec

(* A step of the embedder is a step of EmbedService: a call, answers to calls
   that wait with their own rows in order or an error, or nothing. *)
LEMMA ServiceStep == Inv /\ [Next]_vars => [Service!Next]_(Service!serviceVars)
<1> SUFFICES ASSUME Inv, [Next]_vars PROVE Service!Next \/ UNCHANGED Service!serviceVars
  OBVIOUS
<1>1. ASSUME NEW c \in Callers, Call(c)
      PROVE  Service!Ask(c)
  <2> PICK n \in Sizes :
        /\ asked' = [asked EXCEPT ![c] = Rows(c, calls[c] + 1, n)]
        /\ out' = [out EXCEPT ![c] = IF n = 0 THEN <<>> ELSE Waiting]
    BY <1>1 DEF Call
  <2>1. out[c] # Waiting
    BY <1>1 DEF Call, Inv, WaitInv
  <2>2. \A d \in Callers \ {c} : asked'[d] = asked[d] /\ out'[d] = out[d]
    BY DEF Inv, TypeOK
  <2>3. out'[c] = (IF n = 0 THEN <<>> ELSE Waiting) /\ asked'[c] = Rows(c, calls[c] + 1, n)
    BY DEF Inv, TypeOK
  <2>4. n = 0 => Rows(c, calls[c] + 1, n) = <<>>
    BY DEF Rows
  <2>5. Waiting # <<>>
    BY TokenAssumption
  <2> QED
    BY <2>1, <2>2, <2>3, <2>4, <2>5 DEF Service!Ask
<1>2. CASE \A c \in Callers : ~Call(c)
  <2>1. \A c \in Callers : asked'[c] = asked[c]
          /\ (out'[c] # out[c] => out[c] = Waiting /\ out'[c] \in {asked[c], Error})
    BY <1>2, AnswersExplained
  <2>2. asked' = asked
    <3>1. asked \in [Callers -> Texts \union {<<>>}] /\ asked' \in [Callers -> Texts \union {<<>>}]
      BY InvStep DEF Inv, TypeOK
    <3> QED
      BY <2>1, <3>1
  <2> QED
    BY <2>1, <2>2 DEF Service!Next, Service!Answer
<1> QED
  BY <1>1, <1>2 DEF Service!Next

(* Each call gets its own rows back in its own order, or an error, once: the
   embedder implements EmbedService. *)
THEOREM ImplementsServiceHolds == Spec => ImplementsService
<1>1. Init => Service!Init
  BY DEF Init, Service!Init
<1> QED
  BY <1>1, InvAlways, ServiceStep, PTL DEF Spec, ImplementsService, Service!Spec

----------------------------------------------------------------------------
(* The idle slot. *)


Distinct(q) == \A m, n \in DOMAIN q : q[m] = q[n] => m = n
Among(p, q) == \E n \in DOMAIN q : q[n] = p
InLine == {"read", "write", "load"}

(* Asking for the lock: p, who is not in line, goes to its end. *)
LEMMA JoinsQueue ==
  ASSUME NEW S, NEW q \in Seq(S), NEW p \in S, Distinct(q), ~Among(p, q)
  PROVE  /\ Append(q, p) \in Seq(S)
         /\ Distinct(Append(q, p))
         /\ \A r : Among(r, Append(q, p)) <=> Among(r, q) \/ r = p
         /\ q # <<>> => Head(Append(q, p)) = Head(q)
         /\ Append(q, p) # <<>>
<1> DEFINE a == Append(q, p)
<1>1. /\ a \in Seq(S) /\ Len(a) = Len(q) + 1 /\ Len(q) \in Nat
      /\ DOMAIN a = 1..Len(q) + 1 /\ DOMAIN q = 1..Len(q)
      /\ a[Len(q) + 1] = p
      /\ \A n \in 1..Len(q) : a[n] = q[n]
  OBVIOUS
<1>2. Distinct(a)
  <2> SUFFICES ASSUME NEW m \in DOMAIN a, NEW n \in DOMAIN a, a[m] = a[n]
               PROVE  m = n
    BY DEF Distinct
  <2> QED BY <1>1 DEF Distinct, Among
<1>3. ASSUME NEW r PROVE Among(r, a) <=> Among(r, q) \/ r = p
  <2>1. Among(r, q) => Among(r, a) BY <1>1 DEF Among
  <2>2. r = p => Among(r, a) BY <1>1 DEF Among
  <2>3. Among(r, a) => Among(r, q) \/ r = p BY <1>1 DEF Among
  <2> QED BY <2>1, <2>2, <2>3
<1>4. q # <<>> => Head(a) = Head(q) BY <1>1
<1>5. a # <<>> BY <1>1
<1> QED BY <1>1, <1>2, <1>3, <1>4, <1>5

(* Letting go of the lock: the first leaves, the others stay in order. *)
LEMMA LeavesQueue ==
  ASSUME NEW S, NEW q \in Seq(S), q # <<>>, Distinct(q)
  PROVE  /\ Tail(q) \in Seq(S)
         /\ Distinct(Tail(q))
         /\ \A r : Among(r, Tail(q)) <=> Among(r, q) /\ r # Head(q)
<1> DEFINE t == Tail(q)
<1>1. /\ t \in Seq(S) /\ Len(q) \in Nat \ {0} /\ Len(t) = Len(q) - 1
      /\ DOMAIN q = 1..Len(q) /\ DOMAIN t = 1..Len(q) - 1
      /\ Head(q) = q[1]
      /\ \A n \in 1..Len(q) - 1 : t[n] = q[n + 1]
  OBVIOUS
<1>2. Distinct(t)
  <2> SUFFICES ASSUME NEW m \in DOMAIN t, NEW n \in DOMAIN t, t[m] = t[n]
               PROVE  m = n
    BY DEF Distinct
  <2>1. /\ m \in Nat /\ n \in Nat /\ m + 1 \in DOMAIN q /\ n + 1 \in DOMAIN q
        /\ q[m + 1] = q[n + 1]
    BY <1>1
  <2> QED BY <2>1 DEF Distinct
<1>3. ASSUME NEW r PROVE Among(r, t) <=> Among(r, q) /\ r # Head(q)
  <2>1. ASSUME NEW n \in DOMAIN t, t[n] = r PROVE Among(r, q) /\ r # Head(q)
    <3>1. n \in Nat /\ n # 0 /\ n + 1 \in DOMAIN q /\ 1 \in DOMAIN q /\ q[n + 1] = r BY <1>1, <2>1
    <3>2. q[1] # r BY <3>1 DEF Distinct
    <3> QED BY <1>1, <3>1, <3>2 DEF Among
  <2>2. ASSUME NEW n \in DOMAIN q, q[n] = r, r # Head(q) PROVE Among(r, t)
    <3>1. n - 1 \in DOMAIN t /\ t[n - 1] = r BY <1>1, <2>2
    <3> QED BY <3>1 DEF Among
  <2> QED BY <2>1, <2>2 DEF Among
<1> QED BY <1>1, <1>2, <1>3

(* The state in terms of these. *)
IdleInv ==
  /\ SlotTypeOK
  /\ Distinct(lockQueue)
  /\ \A p \in Processes : Among(p, lockQueue) <=> doing[p] \in InLine
  /\ \A t \in Tasks : doing[t] = "load" => Holds(t) /\ ~loaded

LEMMA IdleInvInit == SlotInit => IdleInv
<1> SUFFICES ASSUME SlotInit PROVE IdleInv
  OBVIOUS
<1>1. SlotTypeOK
  <2>1. doing \in [Processes -> TaskSteps] BY DEF SlotInit, TaskSteps
  <2>2. lockQueue \in Seq(Processes)
    <3>1. <<>> \in Seq(Processes) OBVIOUS
    <3> QED BY <3>1 DEF SlotInit
  <2>3. loaded \in BOOLEAN /\ unused \in 0..IdleFor + 1 \union {Never} BY DEF SlotInit
  <2> QED BY <2>1, <2>2, <2>3 DEF SlotTypeOK
<1>2. lockQueue = <<>> /\ DOMAIN lockQueue = {} BY DEF SlotInit
<1>3. \A p \in Processes : doing[p] = "idle" BY DEF SlotInit
<1>4. Distinct(lockQueue) /\ \A p : ~Among(p, lockQueue) BY <1>2 DEF Distinct, Among
<1>5. \A t \in Tasks : doing[t] # "load" BY <1>3 DEF Processes
<1> QED BY <1>1, <1>3, <1>4, <1>5 DEF IdleInv, InLine

(* Whoever asks for a lock, at the step it is at afterwards. *)
LEMMA AskKeepsInv ==
  ASSUME IdleInv, NEW p \in Processes, doing[p] \notin InLine,
         NEW step \in {"read", "write"},
         doing' = [doing EXCEPT ![p] = step],
         lockQueue' = Append(lockQueue, p),
         loaded' = loaded, unused' \in 0..IdleFor + 1 \union {Never}
  PROVE  IdleInv'
<1> USE DEF IdleInv
<1>1. /\ lockQueue' \in Seq(Processes) /\ Distinct(lockQueue')
      /\ \A r : Among(r, lockQueue') <=> Among(r, lockQueue) \/ r = p
      /\ lockQueue # <<>> => Head(lockQueue') = Head(lockQueue)
      /\ lockQueue' # <<>>
  <2>1. lockQueue \in Seq(Processes) /\ ~Among(p, lockQueue) BY DEF SlotTypeOK
  <2> QED BY <2>1, JoinsQueue
<1>2. SlotTypeOK' BY <1>1 DEF SlotTypeOK, TaskSteps
<1>3. \A r \in Processes : Among(r, lockQueue') <=> doing'[r] \in InLine
  BY <1>1 DEF SlotTypeOK, InLine
<1>4. ASSUME NEW t \in Tasks, doing'[t] = "load" PROVE Holds(t)' /\ ~loaded'
  <2>1. t \in Processes /\ t # p BY <1>4 DEF Processes, SlotTypeOK
  <2>2. doing[t] = "load" BY <1>4, <2>1 DEF SlotTypeOK
  <2> QED BY <1>1, <2>2 DEF Holds
<1> QED BY <1>1, <1>2, <1>3, <1>4

(* The holder lets go of the lock. *)
LEMMA LeaveKeepsInv ==
  ASSUME IdleInv, NEW p \in Processes, Holds(p),
         NEW step \in {"idle", "missed", "use"},
         doing' = [doing EXCEPT ![p] = step],
         lockQueue' = Tail(lockQueue),
         loaded' \in BOOLEAN, unused' = unused
  PROVE  IdleInv'
<1> USE DEF IdleInv
<1>1. /\ lockQueue' \in Seq(Processes) /\ Distinct(lockQueue')
      /\ \A r : Among(r, lockQueue') <=> Among(r, lockQueue) /\ r # p
  BY LeavesQueue DEF SlotTypeOK, Holds
<1>2. SlotTypeOK' BY <1>1 DEF SlotTypeOK, TaskSteps
<1>3. \A r \in Processes : Among(r, lockQueue') <=> doing'[r] \in InLine
  BY <1>1 DEF SlotTypeOK, InLine
<1>4. ASSUME NEW t \in Tasks PROVE doing'[t] # "load"
  <2>1. t \in Processes BY DEF Processes
  <2>2. CASE t = p BY <2>1, <2>2 DEF SlotTypeOK
  <2>3. CASE t # p
    <3>1. doing[t] # "load" BY <2>3 DEF Holds
    <3> QED BY <2>1, <2>3, <3>1 DEF SlotTypeOK
  <2> QED BY <2>2, <2>3
<1> QED BY <1>1, <1>2, <1>3, <1>4

LEMMA IdleInvStep == IdleInv /\ [SlotNext]_slotVars => IdleInv'
<1> SUFFICES ASSUME IdleInv, [SlotNext]_slotVars PROVE IdleInv'
  OBVIOUS
<1>t. /\ \A t \in Tasks : t \in Processes
      /\ Watchdog \in Processes /\ Watchdog \notin Tasks
      /\ unused \in 0..IdleFor + 1 \union {Never}
      /\ loaded \in BOOLEAN
  BY SlotAssumption DEF Processes, IdleInv, SlotTypeOK
<1>1. ASSUME NEW t \in Tasks, AskForSession(t) PROVE IdleInv'
  <2>1. 0 \in 0..IdleFor + 1 BY SlotAssumption
  <2>2. doing[t] \notin InLine BY <1>1 DEF AskForSession, InLine
  <2> QED BY <1>1, <1>t, <2>1, <2>2, AskKeepsInv DEF AskForSession
<1>2. ASSUME NEW t \in Tasks, Look(t) PROVE IdleInv'
  <2>1. CASE loaded BY <1>2, <1>t, <2>1, LeaveKeepsInv DEF Look
  <2>2. CASE ~loaded BY <1>2, <1>t, <2>2, LeaveKeepsInv DEF Look
  <2> QED BY <2>1, <2>2
<1>3. ASSUME NEW t \in Tasks, AskForWrite(t) PROVE IdleInv'
  <2>1. doing[t] \notin InLine BY <1>3 DEF AskForWrite, InLine
  <2> QED BY <1>3, <1>t, <2>1, AskKeepsInv DEF AskForWrite
<1>4. ASSUME NEW t \in Tasks, Recheck(t) PROVE IdleInv'
  <2>1. CASE loaded BY <1>4, <1>t, <2>1, LeaveKeepsInv DEF Recheck
  <2>2. CASE ~loaded
    <3>1. doing' = [doing EXCEPT ![t] = "load"] /\ UNCHANGED <<lockQueue, loaded, unused>>
      BY <1>4, <2>2 DEF Recheck
    <3>2. SlotTypeOK' BY <3>1 DEF IdleInv, SlotTypeOK, TaskSteps
    <3>3. \A r \in Processes : Among(r, lockQueue') <=> doing'[r] \in InLine
      BY <1>4, <1>t, <3>1 DEF IdleInv, SlotTypeOK, InLine, Recheck
    <3>4. ASSUME NEW s \in Tasks, doing'[s] = "load" PROVE Holds(s)' /\ ~loaded'
      <4>1. Holds(t)' /\ ~loaded' BY <1>4, <2>2, <3>1 DEF Recheck, Holds
      <4>2. CASE s = t BY <4>1, <4>2
      <4>3. CASE s # t BY <1>t, <3>1, <3>4, <4>3 DEF IdleInv, SlotTypeOK, Holds
      <4> QED BY <4>2, <4>3
    <3> QED BY <3>1, <3>2, <3>3, <3>4 DEF IdleInv
  <2> QED BY <2>1, <2>2
<1>5. ASSUME NEW t \in Tasks, SessionLoads(t) PROVE IdleInv'
  <2>1. Holds(t) BY <1>5 DEF SessionLoads, IdleInv
  <2> QED BY <1>5, <1>t, <2>1, LeaveKeepsInv DEF SessionLoads
<1>6. ASSUME NEW t \in Tasks, LoadFails(t) PROVE IdleInv'
  <2>1. Holds(t) BY <1>6 DEF LoadFails, IdleInv
  <2> QED BY <1>6, <1>t, <2>1, LeaveKeepsInv DEF LoadFails
<1>7. ASSUME NEW t \in Tasks, EndUse(t) PROVE IdleInv'
  <2>1. SlotTypeOK' BY <1>7 DEF EndUse, IdleInv, SlotTypeOK, TaskSteps
  <2>2. \A r \in Processes : doing'[r] \in InLine <=> doing[r] \in InLine
    BY <1>7, <1>t DEF EndUse, IdleInv, SlotTypeOK, InLine
  <2>3. \A s \in Tasks : doing'[s] = "load" => doing[s] = "load"
    BY <1>7, <1>t DEF EndUse, IdleInv, SlotTypeOK
  <2> QED BY <1>7, <2>1, <2>2, <2>3 DEF EndUse, IdleInv, Holds
<1>8. CASE CheckIdle
  <2>1. doing[Watchdog] \notin InLine BY <1>8 DEF CheckIdle, InLine
  <2> QED BY <1>8, <1>t, <2>1, AskKeepsInv DEF CheckIdle
<1>9. CASE Unload BY <1>9, <1>t, LeaveKeepsInv DEF Unload
<1>10. CASE ClockTicks
  <2>1. unused' \in 0..IdleFor + 1 \union {Never}
    BY <1>10, <1>t, SlotAssumption DEF ClockTicks
  <2> QED BY <1>10, <2>1 DEF ClockTicks, IdleInv, SlotTypeOK, Holds
<1>11. CASE UNCHANGED slotVars
  BY <1>11 DEF slotVars, IdleInv, SlotTypeOK, Holds
<1> QED
  BY <1>1, <1>2, <1>3, <1>4, <1>5, <1>6, <1>7, <1>8, <1>9, <1>10, <1>11 DEF SlotNext, CallSteps

LEMMA IdleInvImplies == IdleInv => OneLoad /\ QueueIsExact
<1> SUFFICES ASSUME IdleInv PROVE OneLoad /\ QueueIsExact
  OBVIOUS
<1>1. OneLoad BY DEF IdleInv, OneLoad, Holds
<1>2. QueueIsExact BY DEF IdleInv, QueueIsExact, InQueue, Distinct, Among, InLine
<1> QED BY <1>1, <1>2

(* The variables keep to their types: a call is at one of the six places and
   the lock's queue is of requests and the watchdog. *)
THEOREM SlotTypes == SlotSpec => []SlotTypeOK
<1>1. IdleInv => SlotTypeOK BY DEF IdleInv
<1> QED BY <1>1, IdleInvInit, IdleInvStep, PTL DEF SlotSpec

(* idle_slot.rs:38-46: for any number of requests and however the watchdog
   comes in between, one call at a time loads the model, and never over a
   session the slot already holds. *)
THEOREM OneLoadHolds == SlotSpec => []OneLoad
BY IdleInvInit, IdleInvStep, IdleInvImplies, PTL DEF SlotSpec

(* The lock forgets none of those who wait for it, and keeps none who has let
   go of it or has been served. *)
THEOREM QueueIsExactHolds == SlotSpec => []QueueIsExact
BY IdleInvInit, IdleInvStep, IdleInvImplies, PTL DEF SlotSpec

=============================================================================
