------------------------------ MODULE RepoFiles ------------------------------
(***************************************************************************)
(* The files of a repository that ohara and its users both write, and what *)
(* an index run makes of them: .oharaignore, where `ohara plan --write`    *)
(* keeps a block of its own between two markers, and the post-commit hook, *)
(* where `ohara init` does.  A file is a sequence of lines.                *)
(***************************************************************************)
EXTENDS Naturals, Sequences, SequencesExt

CONSTANTS
  Paths,        \* paths, each the sequence of its components
  BuiltIns, Attributes, \* the rules compiled in, and .gitattributes'
  Rules,        \* what users may write: [name, dir, keep]
  Docs,         \* DOCS_ALLOWLIST
  Threshold,    \* HIGH_SHARE_THRESHOLD is one in so many
  MaxCommits, MaxEdits \* bounds

ASSUME FilesAssumption ==
  /\ IsFiniteSet(Paths) /\ \A p \in Paths : p \in Seq(STRING) /\ p # <<>>
  /\ \A r \in Rules \union ToSet(BuiltIns \o Attributes) : DOMAIN r = {"name", "dir", "keep"}
  /\ Threshold \in Nat \ {0} /\ {MaxCommits, MaxEdits} \subseteq Nat

VARIABLES
  commitCount,  \* how many commits there are
  share,        \* share[d]: how many of them touch the top-level directory d
  ignoreFile,   \* .oharaignore; missing: <<>>
  hook,         \* .git/hooks/post-commit; missing: <<>>
  edits,        \* how many edits there have been
  top, bottom,  \* history: the rules written by hand, above the block and below
  script,       \* history: the hook's lines written by hand
  cut           \* history: the hook's closing marker has been cut out

written == <<top, bottom>>
filesVars == <<commitCount, share, ignoreFile, hook, edits, written, script, cut>>

Begin == [kind |-> "begin"]
End == [kind |-> "end"]
(* A comment in which somebody quotes the closing marker. *)
Quote == [kind |-> "quote"]
Line(rule) == [kind |-> "rule", rule |-> rule]
Body == [kind |-> "body"]
Hand(n) == [kind |-> "hand", n |-> n]

TopDirs == {p[1] : p \in {q \in Paths : Len(q) > 1}}

FilesInit ==
  /\ commitCount = 0 /\ share = [d \in TopDirs |-> 0]
  /\ ignoreFile = <<>> /\ hook = <<>>
  /\ edits = 0 /\ top = <<>> /\ bottom = <<>> /\ script = <<>> /\ cut = FALSE

----------------------------------------------------------------------------
(* The filter of an index run. *)

(* A pattern without a slash but at its end is met at any depth, one with a
   slash at its end by directories only. *)
Meets(rule, path, n) == rule.name = path[n] /\ (rule.dir => n < Len(path))

(* The longest prefix of the path that some rule meets, or 0. *)
Nearest(rules, path) ==
  Max({0} \union {n \in DOMAIN path : \E m \in DOMAIN rules : Meets(rules[m], path, n)})

(* The path itself, then its parents; of the rules that meet it the last. *)
Decision(rules, path) ==
  LET n == Nearest(rules, path)
      meeting == {m \in DOMAIN rules : n > 0 /\ Meets(rules[m], path, n)}
  IN  IF meeting = {} THEN "none"
      ELSE IF rules[Max(meeting)].keep THEN "kept" ELSE "ignored"

Places(file, kinds) == {n \in DOMAIN file : file[n].kind \in kinds}

(* The rules, each at its line. *)
RulesIn(file) == [n \in Places(file, {"rule"}) |-> file[n].rule]

(* is_ignored: the first layer that has a verdict. *)
Ignored(path) ==
  LET layers == <<RulesIn(ignoreFile), Attributes, BuiltIns>>
      deciding == {n \in DOMAIN layers : Decision(layers[n], path) # "none"}
  IN  deciding # {} /\ Decision(layers[Min(deciding)], path) = "ignored"

----------------------------------------------------------------------------
(* `ohara plan` *)

(* A commit counts once for each directory it touches. *)
Commit(S) ==
  /\ commitCount < MaxCommits
  /\ commitCount' = commitCount + 1
  /\ share' = [d \in TopDirs |-> share[d] + IF \E p \in S : Len(p) > 1 /\ p[1] = d THEN 1 ELSE 0]
  /\ UNCHANGED <<ignoreFile, hook, edits, written, script, cut>>

Suggestions ==
  IF commitCount = 0 THEN {}
  ELSE {d \in TopDirs \ Docs : share[d] * Threshold >= commitCount}

(* All ignore: their order does not matter. *)
Section ==
  LET dirs == SetToSeq(Suggestions)
  IN  <<Begin>> \o [n \in DOMAIN dirs |-> Line([name |-> dirs[n], dir |-> TRUE, keep |-> FALSE])]
        \o <<End>>

(* The first opening marker, and the first closing one after it. *)
Opens(file) == Min(Places(file, {"begin"}))
Closes(file) == Min({n \in Places(file, {"end", "quote"}) : n > Opens(file)})
HasBlock(file) ==
  \E m \in Places(file, {"begin"}), n \in Places(file, {"end", "quote"}) : m < n

Spliced(file, from, to, section) ==
  SubSeq(file, 1, from - 1) \o section \o SubSeq(file, to + 1, Len(file))

(* Mutation: the new block goes to the end of the file. *)
PlanWrites_atEnd ==
  /\ ignoreFile # <<>> /\ HasBlock(ignoreFile)
  /\ ignoreFile' = Spliced(ignoreFile, Opens(ignoreFile), Closes(ignoreFile), <<>>) \o Section
  /\ UNCHANGED <<commitCount, share, hook, edits, written, script, cut>>

(* --write over a file with a block; a file with content and no block is refused. *)
PlanWrites ==
  /\ ignoreFile # <<>> /\ HasBlock(ignoreFile)
  /\ ignoreFile' = Spliced(ignoreFile, Opens(ignoreFile), Closes(ignoreFile), Section)
  /\ UNCHANGED <<commitCount, share, hook, edits, written, script, cut>>

(* There is no file, or it is empty, or --replace. *)
PlanReplaces ==
  /\ ignoreFile' = Section
  /\ top' = <<>> /\ bottom' = <<>>
  /\ UNCHANGED <<commitCount, share, hook, edits, script, cut>>

----------------------------------------------------------------------------
(* `ohara init` *)

(* The markers are asked for anywhere, and in that order when it replaces: the
   other order is refused. *)
InstallHook ==
  /\ \/ hook = <<>> /\ hook' = <<Begin, Body, End>>
     \/ /\ hook # <<>> /\ HasBlock(hook)
        /\ hook' = Spliced(hook, Opens(hook), Closes(hook), <<Begin, Body, End>>)
     \/ /\ hook # <<>>
        /\ Places(hook, {"begin"}) = {} \/ Places(hook, {"end", "quote"}) = {}
        /\ hook' = hook \o <<Begin, Body, End>>
  /\ UNCHANGED <<commitCount, share, ignoreFile, edits, written, script, cut>>

(* --force. *)
ReplaceHook ==
  /\ hook' = <<Begin, Body, End>>
  /\ script' = <<>> /\ cut' = FALSE
  /\ UNCHANGED <<commitCount, share, ignoreFile, edits, written>>

----------------------------------------------------------------------------
(* The users. *)

Edit == edits < MaxEdits /\ edits' = edits + 1

AddBelow(rule) ==
  /\ Edit
  /\ ignoreFile' = Append(ignoreFile, Line(rule))
  /\ IF HasBlock(ignoreFile) THEN bottom' = Append(bottom, rule) /\ UNCHANGED top
     ELSE top' = Append(top, rule) /\ UNCHANGED bottom
  /\ UNCHANGED <<commitCount, share, hook, script, cut>>

AddAbove(rule) ==
  /\ Edit
  /\ ignoreFile' = <<Line(rule)>> \o ignoreFile
  /\ top' = <<rule>> \o top
  /\ UNCHANGED <<commitCount, share, hook, bottom, script, cut>>

QuoteMarker ==
  /\ Edit
  /\ \/ ignoreFile' = <<Quote>> \o ignoreFile /\ UNCHANGED hook
     \/ hook' = <<Quote>> \o hook /\ UNCHANGED ignoreFile
  /\ UNCHANGED <<commitCount, share, written, script, cut>>

(* To the end of the hook or to its start. *)
ExtendHook ==
  /\ Edit
  /\ \/ hook' = Append(hook, Hand(edits)) /\ script' = Append(script, Hand(edits))
     \/ hook' = <<Hand(edits)>> \o hook /\ script' = <<Hand(edits)>> \o script
  /\ UNCHANGED <<commitCount, share, ignoreFile, written, cut>>

CutMarker ==
  /\ Edit
  /\ Places(hook, {"end"}) # {}
  /\ hook' = RemoveAt(hook, Min(Places(hook, {"end"})))
  /\ cut' = TRUE
  /\ UNCHANGED <<commitCount, share, ignoreFile, written, script>>

FilesNext ==
  \/ \E S \in SUBSET Paths : Commit(S)
  \/ PlanWrites \/ PlanReplaces \/ InstallHook \/ ReplaceHook
  \/ \E rule \in Rules : AddBelow(rule) \/ AddAbove(rule)
  \/ QuoteMarker \/ ExtendHook \/ CutMarker

FilesSpec == FilesInit /\ [][FilesNext]_filesVars

----------------------------------------------------------------------------
(* Correctness. *)

(* ignore.rs:5-7, plan.rs:23: whatever ohara plan has written in between, the
   rules below its block that come at least as near to a path as the block's
   decide of it as if there were no block, and whatever the other layers say. *)
HandWrittenRulesWin ==
  \A p \in Paths :
    LET generated == {n \in DOMAIN p : n < Len(p) /\ p[n] \in TopDirs}
    IN  Decision(bottom, p) # "none" /\ (\A n \in generated : Nearest(bottom, p) >= n) =>
          Ignored(p) = (Decision(top \o bottom, p) = "ignored")

(* The lines are those at these places of the file, in order. *)
KeptInOrder(lines, file, places) ==
  \E place \in [DOMAIN lines -> places] :
    /\ \A m, n \in DOMAIN lines : m < n => place[m] < place[n]
    /\ \A n \in DOMAIN lines : file[place[n]] = lines[n]
    /\ \A l \in places : \E n \in DOMAIN lines : place[n] = l

(* init.rs:118, "preserving non-managed content": as long as nobody has cut the
   closing marker out, the hook's other lines are those written by hand, in
   order, and the block is there at most once. *)
HookKeepsLines ==
  ~cut => /\ KeptInOrder(script, hook, Places(hook, {"hand"}))
          /\ \A m, n \in Places(hook, {"body"}) : m = n

=============================================================================
