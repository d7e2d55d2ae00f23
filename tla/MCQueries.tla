------------------------------ MODULE MCQueries ------------------------------
(* The two questions an index answers, what looks like this (Retrieval) and why
   these lines are as they are (Explain), and what the index they ask tells of
   the repository's files (FileHistory).  A behaviour is of one of the three,
   the others stay as they started. *)
EXTENDS Retrieval, Explain, FileHistory, TLC

(* Three hunks, one of them older, one in another language; five queries, one for
   each intent. *)
MCHunks == 1..3
MCAge == <<1, 0, 0>>
MCRecency == <<500, 1000, 1000>>
MCInLanguage == {1, 2}
MCLogits == {-1, 0, 1}
MCMatches == {<<2, 1, 1>>, <<0, 2, 1>>, <<1, 0, 2>>, <<0, 0, 0>>}

Asked(cues, k, no_rerank, filtered, since, phrase) ==
  [cues |-> cues, k |-> k, no_rerank |-> no_rerank, language |-> filtered,
   since |-> since, phrase |-> phrase]

MCQueries ==
  {Asked({}, 4, TRUE, FALSE, AnyDate, AnyDate),
   Asked({"pattern"}, 1, FALSE, FALSE, AnyDate, 0),
   Asked({"fix", "usage"}, 2, FALSE, FALSE, AnyDate, AnyDate),
   Asked({"usage"}, 0, FALSE, FALSE, 1, 0),
   Asked({"config", "fix"}, 2, FALSE, TRUE, AnyDate, AnyDate)}

(* Five lines of four commits, one of which changes the file twice; a fifth commit
   changed its last line under another path. *)
MCShas == 1..5
MCDated == <<2, 1, 2, 3, 1>>
MCOwner == <<3, 2, 3, 1, 5>>
MCHunksIn == <<1, 2, 1, 1, 0>>
MCFirsts == {0, 2}
MCLastLines == {1, 4, 5}
MCCounts == {0, 3}
MCDiskLengths == {0, 3, 5}

(* A Kotlin and a Rust file and an ignored one: files that come and go, are
   edited, renamed into one another and out of sight, and become links. *)
CONSTANTS kotlin, rust, vendored, text, code, link

MCPath == {kotlin, rust, vendored}
MCExtension == kotlin :> "kt" @@ rust :> "rs" @@ vendored :> "rs"
Tree(x, y, z) == kotlin :> x @@ rust :> y @@ vendored :> z
MCCodeTrees ==
  {Tree(code, Absent, Absent), Tree(Absent, code, Absent), Tree(Absent, Absent, code)}
MCTrees == MCCodeTrees \union {Tree(link, text, Absent), Tree(text, code, Absent)}
MCSimilar == {<<x, x>> : x \in {text, code, link}}

VARIABLE subject
mcVars == <<subject, vars, explainVars, filesVars>>

MCInit ==
  /\ subject \in {"find_pattern", "explain_change", "files"}
  /\ Init /\ ExplainInit /\ FilesInit
  /\ subject = "find_pattern" \/ query = CHOOSE q \in Queries : TRUE
  /\ subject = "explain_change" \/ request = CHOOSE r \in Requests : TRUE
  /\ subject = "files" \/ tree[1] = Tree(code, Absent, Absent)

MCNext ==
  \/ subject = "find_pattern" /\ Next /\ UNCHANGED <<subject, explainVars, filesVars>>
  \/ subject = "explain_change" /\ ExplainNext /\ UNCHANGED <<subject, vars, filesVars>>
  \/ subject = "files" /\ FilesNext /\ UNCHANGED <<subject, vars, explainVars>>

MCSpec == MCInit /\ [][MCNext]_mcVars

=============================================================================
