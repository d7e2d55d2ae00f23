---------------------------- MODULE CommitStages ----------------------------
(***************************************************************************)
(* What the stages of an index run do to one commit after another, down to *)
(* the tables: chunk, attribute, embed through the cache, persist; then    *)
(* HEAD's symbols and the watermark.  Two processes may be at it at once,  *)
(* as when a commit hook starts a run while another is on its way: SQLite  *)
(* takes their transactions one at a time.  Each process has one worker;   *)
(* several, and the channel, are IndexPipeline's.  History is a line.      *)
(***************************************************************************)
EXTENDS IndexTables, Attribution, Ranking

CONSTANTS
  Newest,     \* the commits are 1..Newest, oldest first
  Procs,
  Model,      \* Model[p]: the embedding model of p's binary
  Modes,      \* the --embed-cache modes: "off", "semantic", "diff"
  EmbedBatch, \* texts in one call of the embedder
  ChunkMax,   \* CHUNK_MAX_TOKENS
  Tree,       \* Tree[c]: the paths of c's tree, as it is walked
  None,
  MaxRuns     \* bound on the runs

ASSUME StagesAssumption ==
  /\ Newest \in Nat /\ Commits = 1..Newest
  /\ Modes \subseteq {"off", "semantic", "diff"}
  /\ {EmbedBatch, ChunkMax} \subseteq Nat \ {0} /\ MaxRuns \in Nat

VARIABLES
  head,       \* the commit checked out
  proc,       \* proc[p]: its run, or Idle
  runs,       \* how many there have been
  reader,     \* a hit a query's lane returned, or None
  shown,      \* that hit with its symbols, or None
  gaveUp      \* history: commits a fault made a run give up on

vars == <<tables, head, proc, runs, reader, shown, gaveUp>>

(* Each commit's diff and tree, each file's atoms and each text is a list. *)
ASSUME ListAssumption ==
  \A c \in Commits :
    /\ Len(Diff[c]) \in Nat /\ DOMAIN Diff[c] = 1..Len(Diff[c])
    /\ \A path \in DOMAIN Source[c] :
         Len(Source[c][path]) \in Nat /\ DOMAIN Source[c][path] = 1..Len(Source[c][path])
    /\ Len(Tree[c]) \in Nat /\ DOMAIN Tree[c] = 1..Len(Tree[c])
    /\ Message[c] \in Seq(RangeOf(Message[c]))
    /\ \A n \in DOMAIN Diff[c] : Diff[c][n].text \in Seq(RangeOf(Diff[c][n].text))

(* No run. *)
Idle == [step |-> "idle", mode |-> "off", cached |-> None, out |-> None, todo |-> <<>>,
         target |-> 0]

StagesInit ==
  /\ TablesInit
  /\ head \in Commits
  /\ proc = [p \in Procs |-> Idle]
  /\ runs = 0
  /\ reader = None /\ shown = None
  /\ gaveUp = {}

At(p, step) == proc[p].step = step
Current(p) == Head(proc[p].todo)
Proceed(p, step) == proc' = [proc EXCEPT ![p].step = step]

(* On to the next commit, or to HEAD's symbols. *)
NextCommit(p) ==
  proc' = [proc EXCEPT ![p].todo = Tail(@), ![p].out = None, ![p].cached = None,
                       ![p].step = "take"]

----------------------------------------------------------------------------
(* EmbedStage::run *)

Input(mode, rec) == IF mode = "diff" THEN rec.text ELSE rec.semantic

(* One call for each chunk of the texts, the vectors one after the other.  A
   vector is the model and the text it was made from. *)
EmbedInChunks(model, texts) ==
  LET Chunk(n) == SubSeq(texts, n * EmbedBatch + 1, Min({(n + 1) * EmbedBatch, Len(texts)}))
      Vectors(s) == [i \in DOMAIN s |-> <<model, s[i]>>]
  IN  [i \in DOMAIN texts |->
         Vectors(Chunk((i - 1) \div EmbedBatch))[1 + ((i - 1) % EmbedBatch)]]

(* What the cache has not, each once, in the order of its first place. *)
Misses(inputs, cached) ==
  LET firsts == {n \in DOMAIN inputs : /\ inputs[n] \notin DOMAIN cached
                                       /\ \A m \in 1..n - 1 : inputs[m] # inputs[n]}
      places == Listed(firsts, {p \in firsts \X firsts : p[1] < p[2]})
  IN  [n \in DOMAIN places |-> inputs[places[n]]]

(* Mutation: the place in the batch is used as the place among the misses. *)
EmbedOutput_shifted(model, mode, recs, cached, message) ==
  LET inputs == [n \in DOMAIN recs |-> Input(mode, recs[n])]
      misses == Misses(inputs, cached)
      vecs == EmbedInChunks(model, <<message>> \o misses)
      At1(input) == vecs[CHOOSE n \in DOMAIN misses : misses[n] = input]
  IN  [message |-> vecs[1],
       hunks |-> [n \in DOMAIN recs |->
                    IF inputs[n] \in DOMAIN cached THEN cached[inputs[n]] ELSE At1(inputs[n])],
       entries |-> [input \in ToSet(misses) |-> At1(input)]]

(* The commit's message is the first text of the batch, then come the misses. *)
EmbedOutput(model, mode, recs, cached, message) ==
  LET inputs == [n \in DOMAIN recs |-> Input(mode, recs[n])]
      misses == Misses(inputs, cached)
      vecs == EmbedInChunks(model, <<message>> \o misses)
      Vector(input) == vecs[1 + CHOOSE n \in DOMAIN misses : misses[n] = input]
  IN  [message |-> vecs[1],
       hunks |-> [n \in DOMAIN recs |->
                    IF inputs[n] \in DOMAIN cached THEN cached[inputs[n]] ELSE Vector(inputs[n])],
       entries |-> [input \in ToSet(misses) |-> Vector(input)]]

----------------------------------------------------------------------------
(* A run. *)

(* The walk is what is newer than the watermark. *)
Begin(p, mode) ==
  /\ At(p, "idle")
  /\ runs < MaxRuns
  /\ runs' = runs + 1
  /\ proc' = [proc EXCEPT ![p] =
                [step |-> "take", mode |-> mode, cached |-> None, out |-> None,
                 todo |-> [n \in 1..(IF watermark < head THEN head - watermark ELSE 0) |->
                             watermark + n],
                 target |-> IF watermark < head THEN head ELSE 0]]
  /\ UNCHANGED <<tables, head, reader, shown, gaveUp>>

(* commit_exists. *)
Skip(p) ==
  /\ At(p, "take") /\ proc[p].todo # <<>>
  /\ Current(p) \in commits
  /\ NextCommit(p)
  /\ UNCHANGED <<tables, head, runs, reader, shown, gaveUp>>

(* There is no row, or the lookup fails, which counts as none. *)
Take(p) ==
  /\ At(p, "take") /\ proc[p].todo # <<>>
  /\ Proceed(p, "prepare")
  /\ UNCHANGED <<tables, head, runs, reader, shown, gaveUp>>

(* The records, and what the cache has of their inputs: nothing is asked in
   mode off. *)
Prepare(p) ==
  /\ At(p, "prepare")
  /\ LET inputs == {Input(proc[p].mode, r) : r \in ToSet(Records(Current(p)))}
     IN  proc' = [proc EXCEPT
           ![p].cached = IF proc[p].mode = "off" THEN Empty ELSE CacheGet(inputs, Model[p]),
           ![p].step = "embed"]
  /\ UNCHANGED <<tables, head, runs, reader, shown, gaveUp>>

Embed(p) ==
  /\ At(p, "embed")
  /\ proc' = [proc EXCEPT
       ![p].out = EmbedOutput(Model[p], proc[p].mode, Records(Current(p)), proc[p].cached,
                              Message[Current(p)]),
       ![p].cached = None,
       ![p].step = IF proc[p].mode = "off" \/ Diff[Current(p)] = <<>> THEN "commit" ELSE "cache"]
  /\ UNCHANGED <<tables, head, runs, reader, shown, gaveUp>>

WriteBack(p) ==
  /\ At(p, "cache")
  /\ CachePut(proc[p].out.entries, Model[p])
  /\ Proceed(p, "commit")
  /\ UNCHANGED <<commitTables, hunkTables, symbolTables, watermark, head, runs, reader, shown,
                 gaveUp>>

StoreCommit(p) ==
  /\ At(p, "commit")
  /\ PutCommit(Current(p), proc[p].out.message)
  /\ Proceed(p, "hunks")
  /\ UNCHANGED <<symbolTables, cache, watermark, head, runs, reader, shown, gaveUp>>

(* PersistStage's rows: the attributed texts with their vectors. *)
Rows(c, vecs) ==
  LET Stored(rec, vec) ==
        [sha |-> rec.sha, path |-> rec.path, text |-> rec.text, semantic |-> rec.semantic,
         symbols |-> rec.symbols, vec |-> vec]
  IN  [n \in DOMAIN Diff[c] |-> Stored(Records(c)[n], vecs[n])]

StoreHunks(p) ==
  /\ At(p, "hunks")
  /\ PutHunks(Rows(Current(p), proc[p].out.hunks))
  /\ NextCommit(p)
  /\ UNCHANGED <<commitTables, symbolTables, cache, watermark, head, runs, reader, shown,
                 gaveUp>>

(* Git, the embedder or SQLite fails: the commit is counted and left. *)
Fail(p) ==
  /\ \E step \in {"prepare", "embed", "cache", "commit", "hunks"} : At(p, step)
  /\ gaveUp' = gaveUp \union {Current(p)}
  /\ NextCommit(p)
  /\ UNCHANGED <<tables, head, runs, reader, shown>>

(* extract_head_symbols: the files of HEAD's tree, each in chunks. *)
HeadSymbols(c) ==
  FlattenSeq([n \in DOMAIN Tree[c] |-> ChunkSymbols(Tree[c][n], AtomsOf(c, Tree[c][n]), ChunkMax)])

StoreSymbols(p) ==
  /\ At(p, "take") /\ proc[p].todo = <<>>
  /\ PutSymbols(HeadSymbols(head))
  /\ Proceed(p, "watermark")
  /\ UNCHANGED <<commitTables, hunk, vecHunk, ftsText, ftsSemantic, hunkSymbol, cache, watermark,
                 head, runs, reader, shown, gaveUp>>

(* The end of the walk; the metadata is IndexCommand's. *)
Finish(p) ==
  /\ At(p, "watermark")
  /\ watermark' = IF proc[p].target = 0 THEN watermark ELSE proc[p].target
  /\ proc' = [proc EXCEPT ![p] = Idle]
  /\ UNCHANGED <<commitTables, hunkTables, symbolTables, cache, head, runs, reader, shown, gaveUp>>

(* The process is killed, or a call of the tail fails.  A row that is written
   hides from every later walk that its hunks are not. *)
Stop(p) ==
  /\ ~At(p, "idle")
  /\ gaveUp' = gaveUp \union (IF At(p, "hunks") THEN {Current(p)} ELSE {})
  /\ proc' = [proc EXCEPT ![p] = Idle]
  /\ UNCHANGED <<tables, head, runs, reader, shown>>

----------------------------------------------------------------------------
(* The repository, and a query. *)

MoveHead ==
  /\ head < Newest
  /\ head' = head + 1
  /\ UNCHANGED <<tables, proc, runs, reader, shown, gaveUp>>

(* One connection reads a lane's hits: the row with its id. *)
Read(i) ==
  /\ reader = None /\ shown = None
  /\ i \in DOMAIN hunk
  /\ reader' = [id |-> i, row |-> hunk[i]]
  /\ UNCHANGED <<tables, head, proc, runs, shown, gaveUp>>

(* Later another one reads the symbols of that id. *)
Hydrate ==
  /\ reader # None
  /\ shown' = [row |-> reader.row, symbols |-> HunkSymbols({reader.id})[reader.id]]
  /\ reader' = None
  /\ UNCHANGED <<tables, head, proc, runs, gaveUp>>

----------------------------------------------------------------------------
StagesNext ==
  \/ MoveHead
  \/ \E p \in Procs :
       \/ \E mode \in Modes : Begin(p, mode)
       \/ Skip(p) \/ Take(p) \/ Prepare(p) \/ Embed(p) \/ WriteBack(p)
       \/ StoreCommit(p) \/ StoreHunks(p) \/ StoreSymbols(p) \/ Finish(p)
       \/ Fail(p) \/ Stop(p)
  \/ \E i \in DOMAIN hunk : Read(i)
  \/ Hydrate

Spec == StagesInit /\ [][StagesNext]_vars

----------------------------------------------------------------------------
(* Correctness. *)

(* A stored vector was made from a text of its own hunk, and a cached one from
   the text and by the model it is stored under: the places in the batch, the
   duplicates taken out of it and the answers of the cache are put together
   again as they were taken apart, whatever the other process has written. *)
VectorsAreTheirs ==
  /\ \A c \in commits : \E p \in Procs : vecCommit[c] = <<Model[p], Message[c]>>
  /\ \A i \in DOMAIN hunk : \E p \in Procs :
       vecHunk[i] \in {<<Model[p], hunk[i].text>>, <<Model[p], hunk[i].semantic>>}
  /\ \A k \in DOMAIN cache : cache[k] = <<k[2], k[1]>>

(* What get_hunks_for_file_in_commit finds of a commit, by rowid. *)
Ids(c) == {i \in DOMAIN hunk : hunk[i].sha = c}
Content(c) ==
  LET Nth(n) == CHOOSE i \in Ids(c) : Cardinality({j \in Ids(c) : j <= i}) = n
  IN  [n \in 1..Cardinality(Ids(c)) |-> hunk[Nth(n)]]

WholeOf(c) == [n \in DOMAIN Diff[c] |-> Row(Records(c)[n])]

(* HunkStore, kept by put_hunks' delete and insert in one transaction, whoever
   wrote the commit's hunks before. *)
Reading == INSTANCE HunkStore WITH
  rows <- commits,
  content <- [c \in Commits |-> Content(c)],
  Whole <- [c \in Commits |-> WholeOf(c)]
ImplementsHunkStore == Reading!Spec

(* The symbols a hit is shown with are those of its own hunk, or none if its
   rows have been replaced in between: a rowid that comes again comes back to
   the same hunk. *)
HydratedSymbolsMatch ==
  shown # None =>
    \/ shown.symbols = {}
    \/ \E n \in DOMAIN Diff[shown.row.sha] :
         /\ Row(Records(shown.row.sha)[n]) = shown.row
         /\ {s.name : s \in shown.symbols} = {a.name : a \in ToSet(Records(shown.row.sha)[n].symbols)}

(* Whatever is at or before the watermark is stored whole, or a fault struck
   it, or the other process is between its two transactions. *)
WatermarkCovers ==
  \A c \in 1..watermark :
    \/ c \in commits /\ Content(c) = WholeOf(c)
    \/ c \in gaveUp
    \/ \E p \in Procs : At(p, "hunks") /\ Current(p) = c

(* What chunks are made of, and the atoms of a commit's tree, file after file. *)
Names(chunks) ==
  FlattenSeq([n \in DOMAIN chunks |-> <<chunks[n].name>> \o chunks[n].siblings])
TreeAtoms(c) == FlattenSeq([n \in DOMAIN Tree[c] |-> AtomsOf(c, Tree[c][n])])

(* The table of HEAD's symbols is one commit's: each of its atoms once, in
   order, under its own name or as a sibling. *)
OneSnapshot ==
  /\ ftsSymbol = symbol
  /\ symbol # <<>> =>
       \E c \in Commits :
         Names(symbol) = [n \in DOMAIN TreeAtoms(c) |-> TreeAtoms(c)[n].name]

(* tables/hunk_symbol.rs:5-8: hunks "that genuinely touched the symbol, not
   just at every hunk in a file that happens to contain it". *)
ExactSpanIsTouched ==
  \A i \in DOMAIN hunk : \A s \in HunkSymbols({i})[i] :
    s.attribution = "exact_span" =>
      \E n \in DOMAIN Diff[hunk[i].sha] :
        /\ Diff[hunk[i].sha][n].text = hunk[i].text
        /\ s.name \in ExactSpans(hunk[i].sha, n)

=============================================================================
