----------------------------- MODULE MCCommands -----------------------------
(* What the CLI's commands do to an index and to a repository's files, over
   any sequence of them: `ohara index` (IndexCommand), `plan` and `init`
   (RepoFiles); the loading of the models they and a query need (ModelFiles); and
   the calls that search and explain (FrontEnds); and the options of one `ohara
   index` (IndexOptions).  A behaviour is of one of the five, the others stay as
   they started. *)
EXTENDS IndexCommand, RepoFiles, ModelFiles, FrontEnds, IndexOptions, TLC

(* A new chunker and a new language, then a new model. *)
MCBinaries ==
  << [embedding_model |-> "m1", chunker_version |-> "c1"],
     [embedding_model |-> "m1", chunker_version |-> "c2", parser_java |-> "j1"],
     [embedding_model |-> "m2", chunker_version |-> "c2", parser_java |-> "j1"] >>

(* Two directories of one name, at the top and inside a directory that is built
   in; a file that .gitattributes calls generated. *)
Pattern(name, dir, keep) == [name |-> name, dir |-> dir, keep |-> keep]
MCPaths == {<<"engine", "x">>, <<"lib", "engine", "x">>, <<"docs", "y">>}
MCBuiltIns == <<Pattern("lib", TRUE, FALSE)>>
MCAttributes == <<Pattern("y", FALSE, FALSE)>>
MCRules == {Pattern("engine", TRUE, TRUE), Pattern("x", FALSE, FALSE), Pattern("lib", TRUE, TRUE)}
MCDocs == {"docs"}

(* Two processes of one machine, the second one of a few kinds. *)
CONSTANTS first, second, onnx, tokenizer

Plain == [command |-> "query", role |-> "embedder", arg |-> "cpu", features |-> {},
          macos |-> TRUE, cuda |-> FALSE, int8 |-> FALSE, pinned |-> FALSE, home |-> TRUE]
Indexing == [Plain EXCEPT !.command = "index", !.arg = "coreml", !.features = {"coreml"}]

(* What the provider depends on, in every combination, and what the directory
   does; the daemon has neither flag. *)
MCSetups ==
       {[Plain EXCEPT !.command = c, !.arg = a, !.features = f, !.macos = o, !.cuda = x] :
          c \in {"index", "query"}, a \in {"auto", "coreml"},
          f \in {{}, {"coreml"}, {"cuda"}}, o \in BOOLEAN, x \in BOOLEAN}
  \union {[Plain EXCEPT !.role = "reranker", !.int8 = i, !.arg = a, !.macos = o] :
          i \in BOOLEAN, a \in {"auto", "cuda"}, o \in BOOLEAN}
  \union {[Plain EXCEPT !.command = "serve", !.role = r, !.arg = "auto", !.macos = o,
                        !.features = {"coreml"}] :
          r \in {"embedder", "reranker"}, o \in BOOLEAN}
  \union {[Plain EXCEPT !.command = c, !.pinned = p, !.home = h, !.macos = o] :
          c \in {"index", "query"}, p \in BOOLEAN, h \in BOOLEAN, o \in BOOLEAN}

Seconds ==
  {Plain, Indexing} \union
  {[Plain EXCEPT !.macos = FALSE, !.pinned = p, !.home = ~ p] : p \in BOOLEAN}

(* Two calls of commands, or one tool called again and again. *)
CONSTANTS c1, c2, daemon1, daemon2

MCDoors ==
  {c1 :> d @@ c2 :> e : <<d, e>> \in
     {<<"find_pattern", "status">>, <<"explain_change", "status">>, <<"query", "query">>,
      <<"query", "explain">>, <<"query", "status">>}}

(* Nothing is called beside a tool: all that two calls share is what an engine
   keeps, which a call before them may have left as well. *)
ToolAlone == door[c1] \in {"find_pattern", "explain_change"} => stage'[c2] = stage[c2]

(* A Mac that has every accelerator, a small machine that is told of a device it
   cannot use, by a build for another, and one nobody sits at. *)
Host(cores, features, macos, cuda, terminal) ==
  [cores |-> cores, features |-> features, macos |-> macos, cuda |-> cuda, terminal |-> terminal]

MCHosts ==
  {Host(16, {"coreml", "cuda"}, TRUE, FALSE, TRUE), Host(1, {"coreml"}, FALSE, TRUE, TRUE),
   Host(8, {}, TRUE, FALSE, FALSE)}

MCHere == <<".">>
MCTargets == {MCHere, <<"a">>, <<"a", "b">>}

(* Rebuilds confirmed, unconfirmed and with another mode; a number, an option
   twice; the wizard for each path, beside flags it does not look at. *)
Typed(switches, given, words) == [switches |-> switches, given |-> given, words |-> words]

MCLines ==
  {Typed({}, {}, <<>>), Typed({"rebuild"}, {}, <<>>),
   Typed({"rebuild", "yes"}, {<<"threads", 0>>}, <<>>),
   Typed({"rebuild", "yes", "force"}, {}, <<>>),
   Typed({}, {<<"embed_batch", 0>>, <<"resources", "aggressive">>}, << <<"a">> >>),
   Typed({}, {<<"resources", "auto">>, <<"resources", "conservative">>}, <<>>),
   Typed({"interactive", "rebuild", "yes"}, {<<"workers", 0>>}, << <<"a", "b">> >>),
   Typed({"interactive"}, {}, << <<"a">> >>), Typed({"interactive", "force"}, {}, <<>>)}

VARIABLE subject
mcVars == <<subject, vars, filesVars, loadVars, doorVars, optionVars>>

MCInit ==
  /\ subject \in {"index", "files", "models", "doors", "options"}
  /\ Init /\ FilesInit /\ LoadInit /\ DoorInit /\ OptionsInit
  /\ subject \in {"files", "doors", "options"} => head = 1
  /\ setup[second] \in Seconds
  /\ subject # "models" => setup = [l \in Loads |-> Plain]
  /\ subject # "doors" => door = [c \in Calls |-> "query"]
  /\ subject # "options" => host.cores = 8 /\ line = Typed({}, {}, <<>>)

MCNext ==
  \/ subject = "index" /\ Next /\ UNCHANGED <<subject, filesVars, loadVars, doorVars, optionVars>>
  \/ subject = "files" /\ FilesNext /\ UNCHANGED <<subject, vars, loadVars, doorVars, optionVars>>
  \/ subject = "models" /\ LoadNext /\ UNCHANGED <<subject, vars, filesVars, doorVars, optionVars>>
  \/ /\ subject = "doors" /\ DoorNext /\ ToolAlone
     /\ UNCHANGED <<subject, vars, filesVars, loadVars, optionVars>>
  \/ /\ subject = "options" /\ OptionsNext
     /\ UNCHANGED <<subject, vars, filesVars, loadVars, doorVars>>

MCSpec == MCInit /\ [][MCNext]_mcVars

=============================================================================
