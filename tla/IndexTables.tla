---------------------------- MODULE IndexTables ----------------------------
(***************************************************************************)
(* The tables an index run writes, and what each writing call of Storage   *)
(* does to them.  A call is one transaction on the one write connection:   *)
(* one step.  Commits stand for their shas, and a row that a sha           *)
(* determines for its key.  Texts are sequences of pieces.                 *)
(***************************************************************************)
EXTENDS Naturals, Sequences

CONSTANT Commits

VARIABLES
  commits,      \* commit_record
  vecCommit,    \* vec_commit: the vector of a commit's message
  ftsCommit,    \* fts_commit: how many entries a commit has
  paths,        \* file_path
  hunk,         \* hunk, by rowid
  vecHunk,      \* vec_hunk, by hunk_id
  ftsText,      \* fts_hunk_text
  ftsSemantic,  \* fts_hunk_semantic
  hunkSymbol,   \* hunk_symbol
  symbol,       \* symbol: HEAD's, in the order they were inserted
  ftsSymbol,    \* fts_symbol_name
  cache,        \* chunk_embed_cache, by input and model
  watermark     \* repo.last_indexed_commit, or 0

commitTables == <<commits, vecCommit, ftsCommit>>
hunkTables == <<paths, hunk, vecHunk, ftsText, ftsSemantic, hunkSymbol>>
symbolTables == <<symbol, ftsSymbol>>
tables == <<commitTables, hunkTables, symbolTables, cache, watermark>>

Empty == [x \in {} |-> x]

TablesInit ==
  /\ commits = {} /\ vecCommit = Empty /\ ftsCommit = [c \in Commits |-> 0]
  /\ paths = {} /\ hunk = Empty /\ vecHunk = Empty
  /\ ftsText = {} /\ ftsSemantic = {} /\ hunkSymbol = {}
  /\ symbol = <<>> /\ ftsSymbol = <<>>
  /\ cache = Empty /\ watermark = 0

RangeOf(s) == {s[n] : n \in DOMAIN s}

----------------------------------------------------------------------------
(* put_commit *)

(* Mutation: the row is replaced, and its hunks go with it: ON DELETE CASCADE. *)
PutCommit_cascade(c, vec) ==
  LET kept == {i \in DOMAIN hunk : hunk[i].sha # c}
  IN  /\ commits' = commits \union {c}
      /\ vecCommit' = [d \in DOMAIN vecCommit \union {c} |-> IF d = c THEN vec ELSE vecCommit[d]]
      /\ ftsCommit' = [ftsCommit EXCEPT ![c] = 1]
      /\ hunk' = [i \in kept |-> hunk[i]]
      /\ hunkSymbol' = {s \in hunkSymbol : s.hunk \in kept}
      /\ UNCHANGED <<paths, vecHunk, ftsText, ftsSemantic>>

(* The mirrors are deleted and inserted, the row is replaced: hunk refers to it
   without ON DELETE, and loses nothing. *)
PutCommit(c, vec) ==
  /\ commits' = commits \union {c}
  /\ vecCommit' = [d \in DOMAIN vecCommit \union {c} |-> IF d = c THEN vec ELSE vecCommit[d]]
  /\ ftsCommit' = [ftsCommit EXCEPT ![c] = 1]
  /\ UNCHANGED hunkTables

----------------------------------------------------------------------------
(* put_hunks *)

(* The rows the records' commits have: found through hunk, then deleted, in
   the mirrors before the table itself. *)
Dead(recs) == {i \in DOMAIN hunk : \E n \in DOMAIN recs : hunk[i].sha = recs[n].sha}

Row(rec) ==
  [sha |-> rec.sha, path |-> rec.path, text |-> rec.text,
   semantic |-> IF rec.semantic = <<>> THEN rec.text ELSE rec.semantic]

Entry(i, content) == [hunk |-> i, content |-> content]

(* INSERT OR REPLACE by kind and name: the last of one name stays.  The kind
   goes with the name. *)
SymbolRows(i, rec) ==
  {[hunk |-> i, name |-> s.name, qualified |-> s.qualified, attribution |-> s.attribution] :
     s \in {rec.symbols[n] : n \in {m \in DOMAIN rec.symbols :
              \A l \in DOMAIN rec.symbols : l > m => rec.symbols[l].name # rec.symbols[m].name}}}

(* The rows `dead` go, the mirrors lose what the rows `found` had, the records
   come in.  A rowid is one more than the largest there is: deleted ones come
   again. *)
Replace(recs, dead, found, base) ==
  LET kept == DOMAIN hunk \ dead
      new == {base + n : n \in DOMAIN recs}
      Rec(i) == recs[i - base]
  IN  /\ base \in kept \union {0}
      /\ \A i \in kept : i <= base
      /\ paths' = paths \union {recs[n].path : n \in DOMAIN recs}
      /\ hunk' = [i \in kept \union new |-> IF i \in new THEN Row(Rec(i)) ELSE hunk[i]]
      /\ vecHunk' = [i \in (DOMAIN vecHunk \ found) \union new |->
                       IF i \in new THEN Rec(i).vec ELSE vecHunk[i]]
      /\ ftsText' = {e \in ftsText : e.hunk \notin found}
                      \union {Entry(i, Row(Rec(i)).text) : i \in new}
      /\ ftsSemantic' = {e \in ftsSemantic : e.hunk \notin found}
                          \union {Entry(i, Row(Rec(i)).semantic) : i \in new}
      /\ hunkSymbol' = {s \in hunkSymbol : s.hunk \notin dead}
                         \union UNION {SymbolRows(i, Rec(i)) : i \in new}

(* Mutation: hunk is deleted before its mirrors, and the subselects find nothing. *)
PutHunks_hunkFirst(recs) ==
  IF recs = <<>> THEN UNCHANGED hunkTables
  ELSE \E base \in DOMAIN hunk \union {0} : Replace(recs, Dead(recs), {}, base)

(* Mutation: a commit that has hunks gets them a second time. *)
PutHunks_append(recs) ==
  IF recs = <<>> THEN UNCHANGED hunkTables
  ELSE \E base \in DOMAIN hunk \union {0} : Replace(recs, {}, {}, base)

(* No records, no change: not even to the rows there are. *)
PutHunks(recs) ==
  IF recs = <<>> THEN UNCHANGED hunkTables
  ELSE \E base \in DOMAIN hunk \union {0} : Replace(recs, Dead(recs), Dead(recs), base)

----------------------------------------------------------------------------
(* put_head_symbols, embed_cache_put_many, set_last_indexed_commit. *)

PutSymbols(syms) ==
  /\ symbol' = syms /\ ftsSymbol' = syms
  /\ paths' = paths \union {s.path : s \in RangeOf(syms)}

(* INSERT OR IGNORE. *)
CachePut(entries, model) ==
  cache' = [k \in DOMAIN cache \union {<<input, model>> : input \in DOMAIN entries} |->
              IF k \in DOMAIN cache THEN cache[k] ELSE entries[k[1]]]

CacheGet(inputs, model) ==
  [input \in {x \in inputs : <<x, model>> \in DOMAIN cache} |-> cache[<<input, model>>]]

(* get_hunk_symbols_batch: each id asked for has an answer. *)
HunkSymbols(ids) == [i \in ids |-> {s \in hunkSymbol : s.hunk = i}]

----------------------------------------------------------------------------
(* Correctness. *)

(* Each hunk has one vector, one entry in each full-text mirror with its
   present text, and symbols only while it exists; each commit one vector and
   one entry; each hunk its commit's row: what put_commit and put_hunks delete
   from tables without keys is exactly what they insert again. *)
MirrorsAgree ==
  /\ DOMAIN vecCommit = commits
  /\ \A c \in Commits : ftsCommit[c] = IF c \in commits THEN 1 ELSE 0
  /\ DOMAIN vecHunk = DOMAIN hunk
  /\ ftsText = {Entry(i, hunk[i].text) : i \in DOMAIN hunk}
  /\ ftsSemantic = {Entry(i, hunk[i].semantic) : i \in DOMAIN hunk}
  /\ \A s \in hunkSymbol : s.hunk \in DOMAIN hunk
  /\ \A i \in DOMAIN hunk : hunk[i].sha \in commits /\ hunk[i].path \in paths

=============================================================================
