---------------------------- MODULE FileHistory ----------------------------
(***************************************************************************)
(* What git shows of the files of a repository and what the index tells    *)
(* of them: each commit's changes against its first parent, with renames   *)
(* detected; the language a file is found by; HEAD's symbols; how far      *)
(* behind the index is.  The user commits, merges, checks out and drops    *)
(* branches, also during a run.  Faults inside a commit are IndexPipeline's. *)
(***************************************************************************)
EXTENDS Naturals, Sequences, FiniteSets

CONSTANTS
  Path,         \* the paths there may be
  Extension,    \* Extension[p]
  File,         \* contents of regular files
  Link,         \* symbolic links
  Similar,      \* pairs of entries at least half alike, and of one type
  Parsed,       \* the contents with symbols (in none above the size that is attributed)
  Absent,       \* no entry
  Ignored,      \* the paths an ignore rule hides
  Trees,        \* the trees the user commits, each a function of Path
  MaxCommits,   \* bound on their number
  None          \* no commit, no language

Languages == {"rust", "python", "java", "kotlin", "typescript", "javascript", "go"}

ASSUME FileAssumption ==
  /\ Trees \subseteq [Path -> File \union Link \union {Absent}]
  /\ File \intersect Link = {} /\ Absent \notin File \union Link
  /\ Parsed \subseteq File \union Link
  /\ MaxCommits \in Nat \ {0}
  /\ None \notin Nat \union Languages

VARIABLES
  tree,         \* tree[c], of each commit there ever was
  parent,       \* parent[c]: its first parent, or None
  anc,          \* anc[c]: it and its ancestors
  line,         \* line[c]: those along first parents
  head,         \* the commit HEAD names
  kept,         \* the commits git has an object for
  rows,         \* commit_record
  records,      \* hunk, a row per path of a commit
  language,     \* file_path.language; None is NULL
  symbols,      \* the paths in symbol
  watermark,    \* repo.last_indexed_commit
  run,          \* the index run: where it is, what it has left, its last commit
  gaveUp        \* history: commits that could not be read

git == <<tree, parent, anc, line, head, kept>>
indexVars == <<rows, records, language, symbols, watermark>>
filesVars == <<git, indexVars, run, gaveUp>>

NoRun == [step |-> "idle", todo |-> {}, last |-> None]

FilesInit ==
  /\ tree \in {<<t>> : t \in Trees}
  /\ parent = <<None>>
  /\ anc = <<{1}>> /\ line = <<{1}>>
  /\ head = 1 /\ kept = {1}
  /\ rows = {} /\ records = {} /\ symbols = {}
  /\ language = [p \in Path |-> None]
  /\ watermark = None /\ run = NoRun /\ gaveUp = {}

----------------------------------------------------------------------------
(* The user. *)

(* A commit on HEAD, a merge of `others` into it. *)
Commit(t, others) ==
  LET c == Len(tree) + 1
  IN  /\ c <= MaxCommits
      /\ tree' = Append(tree, t) /\ parent' = Append(parent, head)
      /\ anc' = Append(anc, {c} \union anc[head] \union UNION {anc[o] : o \in others})
      /\ line' = Append(line, {c} \union line[head])
      /\ head' = c /\ kept' = kept \union {c}
      /\ UNCHANGED <<indexVars, run, gaveUp>>

Checkout(c) ==
  /\ c \in kept /\ head' = c
  /\ UNCHANGED <<tree, parent, anc, line, kept, indexVars, run, gaveUp>>

(* Every other branch is dropped, and git collects what only they reached. *)
Collect ==
  /\ kept # anc[head] /\ kept' = anc[head]
  /\ UNCHANGED <<tree, parent, anc, line, head, indexVars, run, gaveUp>>

----------------------------------------------------------------------------
(* hunks_for_commit: the changes against the first parent. *)

Kind(entry) == IF entry \in File THEN "file" ELSE IF entry \in Link THEN "link" ELSE "absent"

TreeBefore(c) == IF parent[c] = None THEN [p \in Path |-> Absent] ELSE tree[parent[c]]

(* A change of type is a deletion and an addition. *)
Gone(old, new) == {p \in Path : old[p] # Absent /\ Kind(old[p]) # Kind(new[p])}
Come(old, new) == Gone(new, old)
Changed(old, new) == {p \in Path : old[p] # new[p] /\ Kind(old[p]) = Kind(new[p])}

(* find_similar: an addition that is like a deletion is a rename of it.  Which
   one, where there are several, is libgit2's choice. *)
Renames(old, new) ==
  LET Possible(p, q) == <<old[q], new[p]>> \in Similar
      matchings == {R \in UNION {[S -> Gone(old, new)] : S \in SUBSET Come(old, new)} :
                      \A p, q \in DOMAIN R : Possible(p, R[p]) /\ (R[p] = R[q] => p = q)}
  IN  {R \in matchings :
         \A p \in Come(old, new) \ DOMAIN R :
           \A q \in Gone(old, new) \ {R[x] : x \in DOMAIN R} : ~ Possible(p, q)}

(* Mutation: a renamed file is filed under the path it had. *)
Kinds_oldPath(old, new, R, p) ==
     {"modified" : x \in {p} \intersect Changed(old, new)}
  \union {"renamed" : x \in {p} \intersect {R[q] : q \in DOMAIN R}}
  \union {"added" : x \in {p} \intersect (Come(old, new) \ DOMAIN R)}
  \union {"deleted" : x \in {p} \intersect (Gone(old, new) \ {R[q] : q \in DOMAIN R})}

(* The deltas are printed by path, a renamed file's under its new one only. *)
Kinds(old, new, R, p) ==
     {"modified" : x \in {p} \intersect Changed(old, new)}
  \union {"renamed" : x \in {p} \intersect DOMAIN R}
  \union {"added" : x \in {p} \intersect (Come(old, new) \ DOMAIN R)}
  \union {"deleted" : x \in {p} \intersect (Gone(old, new) \ {R[q] : q \in DOMAIN R})}

DiffLanguage ==
  [rs |-> "rust", py |-> "python", ts |-> "typescript", tsx |-> "typescript",
   js |-> "javascript", jsx |-> "javascript", mjs |-> "javascript", cjs |-> "javascript",
   go |-> "go"]

LanguageBy(table, p) == IF Extension[p] \in DOMAIN table THEN table[Extension[p]] ELSE None

DetectLanguage(p) == LanguageBy(DiffLanguage, p)

ParserLanguage ==
  [rs |-> "rust", py |-> "python", java |-> "java", kt |-> "kotlin", kts |-> "kotlin",
   ts |-> "typescript", tsx |-> "typescript",
   js |-> "javascript", jsx |-> "javascript", mjs |-> "javascript", cjs |-> "javascript"]

(* file_at_commit, and the symbols in its text.  A link's is its target. *)
HasSymbols(new, p) == Extension[p] \in DOMAIN ParserLanguage /\ new[p] \in Parsed

(* Consecutive deltas of one path are one record, of the kind of the first. *)
Hunk(c, new, p, kind) == [sha |-> c, path |-> p, kind |-> kind, symbols |-> HasSymbols(new, p)]

ChangeKind == {"added", "modified", "deleted", "renamed"}

(* What a diff may be printed as, where there are several renames. *)
Diffs(old, new) ==
  UNION {LET touched == {p \in Path : Kinds(old, new, R, p) # {}}
         IN  {kind \in [touched -> ChangeKind] :
                \A p \in touched : kind[p] \in Kinds(old, new, R, p)}
         : R \in Renames(old, new)}

HunksBetween(c, old, new) ==
  {{Hunk(c, new, p, kind[p]) : p \in DOMAIN kind} : kind \in Diffs(old, new)}

HunksForCommit(c) == HunksBetween(c, TreeBefore(c), tree[c])

----------------------------------------------------------------------------
(* The run. *)

Hidden == IF watermark = None THEN {} ELSE anc[watermark]

(* list_commits: a watermark that git has no object for is an error. *)
ListCommits == anc[head] \ Hidden
Listable == watermark = None \/ watermark \in kept

Begin ==
  /\ run.step = "idle" /\ Listable
  /\ run' = [step |-> "walk", todo |-> ListCommits, last |-> IF ListCommits = {} THEN None ELSE head]
  /\ UNCHANGED <<git, indexVars, gaveUp>>

(* Mutation: INSERT OR IGNORE. *)
Upsert_ignore(found) ==
  [p \in Path |-> IF \E r \in records : r.path = p THEN language[p] ELSE found[p]]

(* upsert_file_path: a language is never replaced by none. *)
Upsert(found) == [p \in Path |-> IF found[p] # None THEN found[p] ELSE language[p]]

(* One commit of the walk, in whatever order the workers come to them.  One
   whose every path is ignored gets no row. *)
IndexCommit(c) ==
  /\ run.step = "walk" /\ c \in run.todo
  /\ run' = [run EXCEPT !.todo = @ \ {c}]
  /\ \/ /\ c \in rows
        /\ UNCHANGED <<indexVars, gaveUp>>
     \/ /\ c \notin rows /\ c \in kept
        /\ \E all \in HunksForCommit(c) :
             LET hunks == {h \in all : h.path \notin Ignored}
             IN  /\ rows' = IF hunks = {} /\ all # {} THEN rows ELSE rows \union {c}
                 /\ records' = records \union hunks
                 /\ language' = Upsert([p \in Path |-> IF \E h \in hunks : h.path = p
                                                       THEN DetectLanguage(p) ELSE None])
        /\ UNCHANGED <<symbols, watermark, gaveUp>>
     \/ /\ c \notin rows /\ c \notin kept
        /\ gaveUp' = gaveUp \union {c}
        /\ UNCHANGED indexVars
  /\ UNCHANGED git

(* HEAD as it is now. *)
PutHeadSymbols ==
  /\ run.step = "walk" /\ run.todo = {}
  /\ run' = [run EXCEPT !.step = "watermark"]
  /\ symbols' = {p \in Path : HasSymbols(tree[head], p)}
  /\ language' = Upsert([p \in Path |-> IF HasSymbols(tree[head], p) THEN LanguageBy(ParserLanguage, p) ELSE None])
  /\ UNCHANGED <<git, rows, records, watermark, gaveUp>>

SetWatermark ==
  /\ run.step = "watermark" /\ run' = NoRun
  /\ watermark' = IF run.last = None THEN watermark ELSE run.last
  /\ UNCHANGED <<git, rows, records, language, symbols, gaveUp>>

(* The process ends, wherever it is. *)
Die == run.step # "idle" /\ run' = NoRun /\ UNCHANGED <<git, indexVars, gaveUp>>

FilesNext ==
  \/ \E t \in Trees, others \in {{}} \union {{c} : c \in kept} : Commit(t, others)
  \/ \E c \in kept : Checkout(c)
  \/ Collect
  \/ Begin
  \/ \E c \in run.todo : IndexCommit(c)
  \/ PutHeadSymbols
  \/ SetWatermark
  \/ Die

FilesSpec == FilesInit /\ [][FilesNext]_filesVars

----------------------------------------------------------------------------
(* Correctness. *)

(* count_since: the commits the next run would walk. *)
CommitsBehind == Cardinality(ListCommits)

UpToDate == run.step = "idle" /\ watermark # None /\ CommitsBehind = 0

(* hunk_query's language filter, which each lane joins to. *)
FoundBy(lang) == {r \in records : language[r.path] = lang}

(* p is another kind of entry than it was. *)
TypeChanged(c, p) == p \in Gone(TreeBefore(c), tree[c]) \intersect Come(TreeBefore(c), tree[c])

(* q is a renaming of p. *)
Succeeds(q, p, c) ==
  /\ p \in Gone(TreeBefore(c), tree[c]) /\ q \in Come(TreeBefore(c), tree[c])
  /\ <<TreeBefore(c)[p], tree[c][q]>> \in Similar

(* Whatever branches, merges and renames there were: once status says that
   nothing is behind, the newest record of a path along first parents says
   whether the path is at HEAD, and whether it has symbols there.  The index
   follows renames only forwards: a path that was renamed away has no record of
   it, but its successor has. *)
HistoryTellsHead ==
  UpToDate /\ gaveUp = {} =>
    \A p \in Path \ Ignored :
      LET touching == {r \in records : r.path = p /\ r.sha \in line[head]}
          newest == {r \in touching : \A o \in touching : o.sha <= r.sha}
      IN  IF tree[head][p] # Absent
          THEN \E r \in newest :
                /\ r.kind # "deleted" \/ TypeChanged(r.sha, p)
                /\ r.symbols = HasSymbols(tree[head], p)
          ELSE \A r \in newest :
                 \/ r.kind = "deleted"
                 \/ \E q \in Path, c \in line[head] :
                      /\ c > r.sha /\ Succeeds(q, p, c)
                      /\ \/ q \in Ignored
                         \/ \E s \in records : s.sha = c /\ s.path = q

(* The hunks of a file that has symbols in the index are found by its language,
   also those of before its language was known, of commits whose diff alone
   does not tell it, and while a run is going on. *)
FilterFindsKnown ==
  \A p \in symbols : \A r \in records :
    r.path = p => r \in FoundBy(LanguageBy(ParserLanguage, p))

(* docs-book/src/tools/find_pattern.md:35: "Optional language filter (e.g.
   "rust", "python", "java", "kotlin")". *)
LanguageFilterFindsAll ==
  UpToDate => \A r \in records :
    Extension[r.path] \in DOMAIN ParserLanguage => r \in FoundBy(LanguageBy(ParserLanguage, r.path))

=============================================================================
