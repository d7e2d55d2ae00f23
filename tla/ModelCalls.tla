----------------------------- MODULE ModelCalls -----------------------------
(***************************************************************************)
(* A loaded model at work: embed_batch of the CPU and of the fixed-shape   *)
(* CoreML provider, and rerank.  Each call is a blocking thread that waits *)
(* for the session's lock, in tokio's order, and goes on when the task     *)
(* that asked for it is dropped.                                           *)
(***************************************************************************)
EXTENDS Naturals, Sequences, FiniteSets, SequencesExt

CONSTANTS
  Users,      \* tasks
  Inputs,       \* the lists of texts they bring, sequences of <<name, tokens>>
  Graph,        \* the dimensions of the model file: Graph[place], named or numbers
  FixedBatch,   \* FIXED_BATCH
  FixedSeq,     \* FIXED_SEQ, also BGE's token limit
  MaxUses      \* bound on the calls of a caller

Empty == <<"", 1>>      \* the empty string, of one token
Places == {"input", "output", "inner"}

(* What the dimensions of a row and of a text's tokens are called. *)
ByRows == <<[dim_param |-> "batch_size"], [dim_param |-> "sequence_length"]>>

ASSUME CallAssumption ==
  /\ FixedBatch \in Nat \ {0} /\ FixedSeq \in Nat \ {0} /\ MaxUses \in Nat
  /\ Inputs \subseteq Seq(STRING \X (Nat \ {0}))
  /\ DOMAIN Graph = Places /\ Graph["input"] = ByRows
  /\ \A i \in 1..2 : i \in DOMAIN Graph["output"] /\ Graph["output"][i] = ByRows[i]

VARIABLES
  session,      \* what is loaded: "coreml", "cpu" or "rerank"
  call,         \* call[c]: where the thread is, its texts and what it has got
  waiting,      \* whether c's task still waits for it
  answer,       \* answer[c]: what c's task was told, its texts with it
  lock,         \* who has the session, first, and who waits for it
  shapes,       \* history: the shapes the session was run with
  made          \* made[c]: how many calls c has made

callVars == <<session, call, waiting, answer, lock, shapes, made>>

NoCall == [at |-> "none", texts |-> <<>>, out |-> <<>>]
NoAnswer == [kind |-> "none", texts |-> <<>>, out |-> <<>>]

CallInit ==
  /\ session \in {"coreml", "cpu", "rerank"}
  /\ call = [c \in Users |-> NoCall] /\ waiting = [c \in Users |-> FALSE]
  /\ answer = [c \in Users |-> NoAnswer] /\ lock = <<>>
  /\ shapes = {} /\ made = [c \in Users |-> 0]

----------------------------------------------------------------------------
(* The model. *)

(* rewrite_dimension. *)
Fixed(dim, dims) ==
  IF "dim_param" \in DOMAIN dim /\ dim.dim_param \in DOMAIN dims
  THEN [dim_value |-> dims[dim.dim_param]] ELSE dim

(* fix_graph_io_dims: named dimensions become numbers, those of the graph's
   inputs and outputs only. *)
FixGraphIoDims(graph, dims) ==
  [place \in Places |->
     IF place \in {"input", "output"} THEN [i \in DOMAIN graph[place] |-> Fixed(graph[place][i], dims)]
     ELSE graph[place]]

Baked == FixGraphIoDims(Graph, [batch_size |-> FixedBatch, sequence_length |-> FixedSeq])

Least(x, y) == IF x <= y THEN x ELSE y
Most(S) == CHOOSE n \in S : \A m \in S : m <= n

(* The tokenizer of the fixed-shape session pads to FIXED_SEQ and cuts there. *)
Padded(rows) ==
  IF session = "coreml" THEN FixedSeq ELSE Most({Least(rows[i][2], FixedSeq) : i \in DOMAIN rows})

Vector(text) == <<"vector", text[1]>>
Score(text) == text[2]

(* TextEmbedding::embed: a row for each text.  TextRerank::rerank: places with
   their scores, the best first; what it does with ties is its own business. *)
Embed(rows) == [i \in DOMAIN rows |-> Vector(rows[i])]
Reranked(rows) ==
  {[i \in DOMAIN rows |-> [index |-> order[i], score |-> Score(rows[order[i]])]] :
     order \in {o \in [DOMAIN rows -> DOMAIN rows] :
                  /\ \A i \in DOMAIN rows : \E j \in DOMAIN rows : o[j] = i
                  /\ \A i, j \in DOMAIN rows : i < j => Score(rows[o[i]]) >= Score(rows[o[j]])}}

----------------------------------------------------------------------------
(* The calls. *)

(* align_by_index. *)
AlignByIndex(results, n) ==
  [i \in 1..n |-> IF \E r \in DOMAIN results : results[r].index = i
                  THEN results[CHOOSE r \in DOMAIN results : results[r].index = i].score ELSE 0]

(* pad_rows. *)
PadRows(chunk, width) == [i \in 1..width |-> IF i <= Len(chunk) THEN chunk[i] ELSE Empty]

Tell(c, kind, out) == answer' = [answer EXCEPT ![c] = [kind |-> kind, texts |-> call[c].texts, out |-> out]]

(* An empty list is answered without the model. *)
Ask(c, texts) ==
  /\ ~ waiting[c] /\ call[c].at = "none" /\ made[c] < MaxUses
  /\ made' = [made EXCEPT ![c] = @ + 1]
  /\ IF texts = <<>>
     THEN /\ answer' = [answer EXCEPT ![c] = [kind |-> "ok", texts |-> <<>>, out |-> <<>>]]
          /\ UNCHANGED <<call, waiting>>
     ELSE /\ call' = [call EXCEPT ![c] = [at |-> "spawned", texts |-> texts, out |-> <<>>]]
          /\ waiting' = [waiting EXCEPT ![c] = TRUE] /\ UNCHANGED answer
  /\ UNCHANGED <<session, lock, shapes>>

(* blocking_lock. *)
QueueUp(c) ==
  /\ call[c].at = "spawned"
  /\ call' = [call EXCEPT ![c].at = "queued"] /\ lock' = Append(lock, c)
  /\ UNCHANGED <<session, waiting, answer, shapes, made>>

Runs(c) == call[c].at = "queued" /\ lock # <<>> /\ Head(lock) = c

(* The thread ends and lets go of the session; its task is told, if there is
   still one. *)
End(c, kind, out) ==
  /\ call' = [call EXCEPT ![c] = NoCall] /\ lock' = Tail(lock)
  /\ IF waiting[c] THEN Tell(c, kind, out) ELSE UNCHANGED answer
  /\ waiting' = [waiting EXCEPT ![c] = FALSE]
  /\ UNCHANGED <<session, made>>

Ran(rows) == shapes' = shapes \union {<<Len(rows), Padded(rows)>>}

(* Mutation: the rows that were added are answered too. *)
Chunk_untruncated(rows, chunk) == Embed(rows)

(* The answer to a chunk of which rows was made. *)
Chunk(rows, chunk) == SubSeq(Embed(rows), 1, Len(chunk))

(* CoreML: the next FIXED_BATCH rows, the last ones filled up. *)
RunChunk(c) ==
  /\ session = "coreml" /\ Runs(c)
  /\ LET done == Len(call[c].out)
         chunk == SubSeq(call[c].texts, done + 1, Least(done + FixedBatch, Len(call[c].texts)))
         rows == PadRows(chunk, FixedBatch)
         out == call[c].out \o Chunk(rows, chunk)
     IN  /\ Ran(rows)
         /\ IF done + Len(chunk) < Len(call[c].texts)
            THEN call' = [call EXCEPT ![c].out = out] /\ UNCHANGED <<session, waiting, answer, lock, made>>
            ELSE End(c, "ok", out)

RunBatch(c) ==
  /\ session = "cpu" /\ Runs(c)
  /\ Ran(call[c].texts) /\ End(c, "ok", Embed(call[c].texts))

Rerank(c) ==
  /\ session = "rerank" /\ Runs(c)
  /\ \E results \in Reranked(call[c].texts) :
       End(c, "ok", AlignByIndex(results, Len(call[c].texts)))
  /\ Ran(call[c].texts)

(* The model fails, or the thread panics: tokio's lock is let go of all the same. *)
Fail(c) == Runs(c) /\ End(c, "error", <<>>) /\ UNCHANGED shapes

(* The task is dropped; the thread is not. *)
Drop(c) ==
  /\ waiting[c] /\ waiting' = [waiting EXCEPT ![c] = FALSE]
  /\ UNCHANGED <<session, call, answer, lock, shapes, made>>

Thread(c) == QueueUp(c) \/ RunChunk(c) \/ RunBatch(c) \/ Rerank(c) \/ Fail(c)

CallNext ==
  \E c \in Users : Thread(c) \/ Drop(c) \/ (\E texts \in Inputs : Ask(c, texts))

CallSpec == CallInit /\ [][CallNext]_callVars

----------------------------------------------------------------------------
(* Correctness. *)

(* The session's queue is of the threads that wait for it or have it, once each,
   whether their tasks are still there or not. *)
CallTypeOK ==
  /\ \A c \in Users : /\ call[c].at \in {"none", "spawned", "queued"}
                        /\ answer[c].kind \in {"none", "ok", "error"}
                        /\ made[c] \in 0..MaxUses
  /\ waiting \in [Users -> BOOLEAN]
  /\ \A c \in Users : call[c].at = "queued" <=> \E i \in DOMAIN lock : lock[i] = c
  /\ \A i, j \in DOMAIN lock : lock[i] = lock[j] => i = j

(* Whatever is in flight beside it, was dropped or failed before it: a call
   that is answered has the vector of each of its texts, or the score of each
   of its candidates, in their places. *)
AnswersInPlace ==
  \A c \in Users : answer[c].kind = "ok" =>
    /\ Len(answer[c].out) = Len(answer[c].texts)
    /\ \A i \in DOMAIN answer[c].texts :
         answer[c].out[i] = IF session = "rerank" THEN Score(answer[c].texts[i])
                                                  ELSE Vector(answer[c].texts[i])

(* coreml_fixed.rs:15: "Three layers enforce one shape": the graph, the
   tokenizer and the chunks agree, on all the session is ever run with. *)
OneShape ==
  session = "coreml" =>
    \A shape \in shapes :
      /\ Baked["input"] = [i \in 1..2 |-> [dim_value |-> shape[i]]]
      /\ \A i \in 1..2 : Baked["output"][i] = Baked["input"][i]

=============================================================================
