----------------------------- MODULE Extraction -----------------------------
(***************************************************************************)
(* The symbols of one file.  The patterns of a language's query capture    *)
(* the declarations of its syntax tree, some of them twice; what is pushed *)
(* for the captures is cleared of duplicates through a hash map, in the    *)
(* languages that have a map, and sorted by where it starts.               *)
(***************************************************************************)
EXTENDS Naturals, Sequences, Ranking

CONSTANT Texts  \* the files, each the set of its declarations
                \* [what, inside, from, to, names]

Grammars == {"rust", "python", "java", "kotlin", "javascript", "typescript", "none"}
SymbolKinds == {"Function", "Method", "Class"}

(* A "class" is also an enum, a struct, a record or an object, an "interface" also
   a trait or an alias; a "binding" is a statement that gives functions names.
   Inside a class is directly in its body, or in a plain impl block. *)
ASSUME TextAssumption ==
  \A text \in Texts :
    /\ \A d \in text :
         /\ DOMAIN d = {"what", "inside", "from", "to", "names"}
         /\ d.from \in Nat /\ d.to \in Nat
    /\ \A d, e \in text : d.from = e.from => d = e

VARIABLES
  grammar,    \* the language, by the file's extension
  nodes,      \* the file
  captures,   \* the matches that are still to come
  pushed,     \* the symbols made of the others
  bySpan,     \* the hash map: one symbol for a span
  extracted,  \* the result
  extracting  \* "match", "dedupe", "sort", "done", "failed"

extractionVars == <<grammar, nodes, captures, pushed, bySpan, extracted, extracting>>

----------------------------------------------------------------------------
(* What the patterns of each language capture a declaration as. *)

RustKinds(d) ==
  {k \in SymbolKinds :
     \/ k = "Class" /\ d.what = "class"
     \/ k = "Function" /\ d.what = "function"
     \/ k = "Method" /\ d.what = "function" /\ d.inside = "class"}

PythonKinds(d) ==
  {k \in SymbolKinds :
     \/ k = "Class" /\ d.what = "class"
     \/ k = "Function" /\ d.what = "function"
     \/ k = "Method" /\ d.what = "function" /\ d.inside = "class"}

JavaKinds(d) ==
  {k \in SymbolKinds :
     \/ k = "Class" /\ d.what \in {"class", "interface"}
     \/ k = "Method" /\ d.what = "method"}

(* Of functions those of the file and of classes. *)
KotlinKinds(d) ==
  {k \in SymbolKinds :
     \/ k = "Class" /\ d.what \in {"class", "interface"}
     \/ k = "Function" /\ d.what = "function" /\ d.inside = "file"
     \/ k = "Method" /\ d.what = "function" /\ d.inside = "class"}

JavaScriptKinds(d) ==
  {k \in SymbolKinds :
     \/ k = "Class" /\ d.what = "class"
     \/ k = "Function" /\ d.what \in {"function", "binding"}
     \/ k = "Method" /\ d.what = "method" /\ d.inside = "class"}

TypeScriptKinds(d) ==
  JavaScriptKinds(d) \union {k \in {"Class"} : d.what = "interface"}

KindsOf(g, d) ==
  CASE g = "rust" -> RustKinds(d)
    [] g = "python" -> PythonKinds(d)
    [] g = "java" -> JavaKinds(d)
    [] g = "kotlin" -> KotlinKinds(d)
    [] g = "javascript" -> JavaScriptKinds(d)
    [] g = "typescript" -> TypeScriptKinds(d)
    [] g = "none" -> {}

(* Each name that a binding gives is a match of its own, with the whole
   statement's span. *)
Captures(g, text) ==
  UNION {{[kind |-> k, name |-> n, from |-> d.from, to |-> d.to] :
            k \in KindsOf(g, d), n \in d.names} : d \in text}

----------------------------------------------------------------------------
(* extract *)

ExtractionInit ==
  /\ grammar \in Grammars /\ nodes \in Texts
  /\ captures = Captures(grammar, nodes)
  /\ pushed = <<>> /\ bySpan = {} /\ extracted = <<>>
  /\ extracting = "match"

NextMatch ==
  /\ extracting = "match"
  /\ \E c \in captures :
       captures' = captures \ {c} /\ pushed' = Append(pushed, c)
  /\ UNCHANGED <<grammar, nodes, bySpan, extracted, extracting>>

(* No grammar, no tree or no query: the file counts as one without symbols. *)
Unparsed ==
  /\ extracting = "match" /\ grammar # "none" /\ pushed = <<>>
  /\ extracting' = "failed"
  /\ UNCHANGED <<grammar, nodes, captures, pushed, bySpan, extracted>>

Deduping == {"python", "kotlin", "javascript", "typescript"}

MatchesEnd ==
  /\ extracting = "match" /\ captures = {}
  /\ extracting' = IF grammar \in Deduping THEN "dedupe" ELSE "sort"
  /\ UNCHANGED <<grammar, nodes, captures, pushed, bySpan, extracted>>

SameSpan(s, t) == s.from = t.from /\ s.to = t.to

(* Mutation: the map keeps the last symbol of a span. *)
Replaces_last(s, t) == TRUE

(* s takes the place of t: or_insert never, the others for a function only. *)
Replaces(s, t) == grammar # "kotlin" /\ t.kind = "Function" /\ s.kind # "Function"

Insert ==
  /\ extracting = "dedupe" /\ pushed # <<>>
  /\ LET s == Head(pushed)
         there == {t \in bySpan : SameSpan(s, t)}
     IN  bySpan' = IF \A t \in there : Replaces(s, t)
                   THEN (bySpan \ there) \union {s} ELSE bySpan
  /\ pushed' = Tail(pushed)
  /\ UNCHANGED <<grammar, nodes, captures, extracted, extracting>>

(* into_values: in any order. *)
Orders(S) == {s \in [1..Cardinality(S) -> S] : \A m, n \in DOMAIN s : s[m] = s[n] => m = n}

IntoValues ==
  /\ extracting = "dedupe" /\ pushed = <<>>
  /\ pushed' \in Orders(bySpan)
  /\ extracting' = "sort"
  /\ UNCHANGED <<grammar, nodes, captures, bySpan, extracted>>

(* sort_by_key: symbols that start together stay as they were. *)
StartsBefore(s) ==
  {p \in (DOMAIN s) \X (DOMAIN s) :
     \/ s[p[1]].from < s[p[2]].from
     \/ s[p[1]].from = s[p[2]].from /\ p[1] < p[2]}

SortedByStart(s) ==
  LET places == Listed(DOMAIN s, StartsBefore(s)) IN [n \in DOMAIN s |-> s[places[n]]]

SortAtoms ==
  /\ extracting = "sort"
  /\ extracted' = SortedByStart(pushed)
  /\ extracting' = "done"
  /\ UNCHANGED <<grammar, nodes, captures, pushed, bySpan>>

ExtractionNext ==
  NextMatch \/ Unparsed \/ MatchesEnd \/ Insert \/ IntoValues \/ SortAtoms

ExtractionSpec == ExtractionInit /\ [][ExtractionNext]_extractionVars

----------------------------------------------------------------------------
(* Correctness. *)

(* In whatever order the patterns match and the map gives its values: no
   captured declaration is without a symbol, and the symbols are in the order of
   the file.  Where there is a map, a declaration has one symbol, a function only
   if no pattern knew better: a text that goes by the first symbol is the same
   each time.  Where there is none, nothing captured is dropped. *)
EachByItsBestKind ==
  extracting = "done" =>
    LET all == Captures(grammar, nodes) IN
    /\ \A n \in DOMAIN extracted : extracted[n] \in all
    /\ \A c \in all : \E n \in DOMAIN extracted :
         IF grammar \in Deduping
         THEN /\ SameSpan(extracted[n], c)
              /\ extracted[n].kind = "Function" => c.kind = "Function"
         ELSE extracted[n] = c
    /\ \A m, n \in DOMAIN extracted : m < n =>
         /\ extracted[m].from <= extracted[n].from
         /\ grammar \in Deduping => extracted[m].from # extracted[n].from

=============================================================================
