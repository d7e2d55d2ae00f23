--------------------------- MODULE MCCommitStages ---------------------------
(* CommitStages for TLC: two commits to one file of two functions.  The first
   has two hunks of one text, the second that text once more and, in a file
   too large to attribute, another.  Where a file's atoms are from: Extraction.  A
   behaviour is of one of the two, the other stays as it started. *)
EXTENDS CommitStages, Extraction

MCCommits == 1..2
MCMessage == << <<"m1">>, <<"m2">> >>
MCDiff ==
  << << [path |-> "a", text |-> <<"x">>, from |-> 1, count |-> 1],
        [path |-> "a", text |-> <<"x">>, from |-> 4, count |-> 1] >>,
     << [path |-> "a", text |-> <<"x">>, from |-> 2, count |-> 1],
        [path |-> "b", text |-> <<"y">>, from |-> 1, count |-> 1] >> >>

Atom(name, from, to) == [name |-> name, qualified |-> None, from |-> from, to |-> to, tokens |-> 2]

MCSource ==
  << [a |-> <<Atom("g", 4, 5), Atom("f", 1, 2)>>],
     [a |-> <<Atom("f", 1, 3), Atom("g", 5, 6), Atom("h", 7, 8)>>,
      b |-> <<Atom("k", 1, 9)>>] >>
MCTooLarge == {"b"}
MCTree == << <<"a">>, <<"a", "b">> >>
MCModel == [p1 |-> "m", p2 |-> "n"]
MCProcs == {"p1", "p2"}

Declaration(what, inside, from, to, names) ==
  [what |-> what, inside |-> inside, from |-> from, to |-> to, names |-> names]

(* A class with a method and a function in it, a class with a method before an
   interface, a function after a statement that gives two of them names. *)
MCTexts ==
  {{},
   {Declaration("class", "file", 1, 9, {"C"}), Declaration("function", "class", 2, 4, {"f"}),
    Declaration("function", "elsewhere", 3, 4, {"g"})},
   {Declaration("class", "file", 1, 9, {"C"}), Declaration("method", "class", 2, 4, {"f"}),
    Declaration("interface", "file", 10, 12, {"I"})},
   {Declaration("function", "file", 5, 7, {"f"}), Declaration("binding", "file", 1, 3, {"a", "b"}),
    Declaration("method", "elsewhere", 2, 3, {"g"})}}

VARIABLE subject
mcVars == <<subject, vars, extractionVars>>

MCInit ==
  /\ subject \in {"commits", "symbols"}
  /\ StagesInit /\ ExtractionInit
  /\ subject = "commits" => grammar = "none" /\ nodes = {}
  /\ subject = "symbols" => head = Newest

MCNext ==
  \/ subject = "commits" /\ StagesNext /\ UNCHANGED <<subject, extractionVars>>
  \/ subject = "symbols" /\ ExtractionNext /\ UNCHANGED <<subject, vars>>

MCSpec == MCInit /\ [][MCNext]_mcVars

=============================================================================
