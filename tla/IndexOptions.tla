---------------------------- MODULE IndexOptions ----------------------------
(***************************************************************************)
(* With what options an `ohara index` runs: the command line, the wizard   *)
(* behind `-i` and the command it prints, which a user may paste, and what *)
(* the machine adds.  What the run then does is in IndexCommand.           *)
(***************************************************************************)
EXTENDS Naturals, Sequences, ModelFiles

CONSTANTS
  Hosts,        \* machine and build: [cores, features, macos, cuda, terminal]
  Lines,        \* the command lines that are typed
  Targets,        \* repositories, each the words that blanks divide its path into
  Numbers,      \* what is given for a number
  Here,         \* the path ".", which is the default
  Unset         \* no value

Switches == {"interactive", "incremental", "force", "rebuild", "yes", "no_progress", "profile"}
Sizes == {"commit_batch", "embed_batch", "threads"}
Settings == Sizes \union {"embed_provider", "resources", "workers", "embed_cache"}

Values(o) ==
  CASE o = "embed_provider" -> {"auto", "cpu", "coreml", "cuda"}
    [] o = "resources" -> {"auto", "conservative", "aggressive"}
    [] o = "embed_cache" -> {"off", "semantic", "diff"}
    [] o \in Sizes \union {"workers"} -> Numbers

DefaultOf(o) ==
  CASE o = "resources" -> "auto" [] o = "embed_cache" -> "off"
    [] o \in Sizes \union {"workers", "embed_provider"} -> Unset

(* words: the arguments that are no flags; given: pairs of an option and a value. *)
ASSUME OptionAssumption ==
  /\ Numbers \subseteq Nat /\ \A o \in Settings : Unset \notin Values(o)
  /\ \A p \in Targets : Len(p) > 0
  /\ Here \in Targets /\ Targets \subseteq Seq(UNION {{p[n] : n \in DOMAIN p} : p \in Targets})
  /\ \A h \in Hosts : h.cores \in Nat /\ h.terminal \in BOOLEAN
  /\ \A l \in Lines :
       /\ DOMAIN l = {"switches", "given", "words"} /\ l.switches \subseteq Switches
       /\ l.given \subseteq UNION {{o} \X Values(o) : o \in Settings}
       /\ l.words \in Seq(Targets)

VARIABLES
  host,         \* the machine and the build
  line,         \* the command line
  args,         \* the options of the run
  base,         \* what the wizard was started with
  answers,      \* what has been answered
  prompt,       \* how far the command is, the prompt that is shown
  sized,        \* the plan of its resources
  confirmed,    \* history: "Rebuild deletes ... Continue?" was answered with yes
  guided        \* history: the options are the wizard's

optionVars == <<host, line, args, base, answers, prompt, sized, confirmed, guided>>

Prompts ==
  {"provider", "resources", "mode", "rebuild", "knobs", "threads", "workers", "commit_batch",
   "embed_batch", "embed_cache", "no_progress", "profile", "run"}
Ends == {"runs", "printed", "cancelled", "refused"}

NoAnswers ==
  [mode |-> "standard", switches |-> {},
   option |-> [o \in Settings |-> IF o = "embed_provider" THEN "auto" ELSE DefaultOf(o)]]

OptionsInit ==
  /\ host \in Hosts /\ line \in Lines
  /\ args = Unset /\ base = Unset /\ answers = NoAnswers
  /\ prompt = "typed" /\ sized = Unset
  /\ confirmed = FALSE /\ guided = FALSE

----------------------------------------------------------------------------
(* The command line. *)

Given(l, o) == {v \in Values(o) : <<o, v>> \in l.given}

(* What clap takes: an option once, one path, --yes only with --rebuild, which
   excludes the other modes. *)
Parses(l) ==
  /\ Len(l.words) <= 1
  /\ \A o \in Settings : \A v, w \in Given(l, o) : v = w
  /\ "rebuild" \in l.switches => l.switches \intersect {"incremental", "force"} = {}
  /\ "yes" \in l.switches => "rebuild" \in l.switches

Parsed(l) ==
  [path |-> IF Len(l.words) = 0 THEN Here ELSE l.words[1],
   switches |-> l.switches,
   option |-> [o \in Settings |->
                 IF Given(l, o) = {} THEN DefaultOf(o) ELSE CHOOSE v \in Given(l, o) : TRUE]]

(* Mutation: the confirmation is left to who pastes the command. *)
Printed_bare(a) ==
  [switches |-> a.switches \ {"interactive", "yes"},
   given |-> {<<o, a.option[o]>> : o \in {p \in Settings : a.option[p] # DefaultOf(p)}},
   words |-> IF a.path = Here THEN <<>> ELSE [n \in DOMAIN a.path |-> <<a.path[n]>>]]

(* args_to_command, as the shell reads it: nothing is quoted. *)
Printed(a) ==
  [switches |-> (a.switches \ {"interactive", "yes"})
                  \union {s \in {"yes"} : "rebuild" \in a.switches},
   given |-> {<<o, a.option[o]>> : o \in {p \in Settings : a.option[p] # DefaultOf(p)}},
   words |-> IF a.path = Here THEN <<>> ELSE [n \in DOMAIN a.path |-> <<a.path[n]>>]]

ParseFails ==
  /\ prompt = "typed"
  /\ ~ Parses(line) \/ ("interactive" \in line.switches /\ ~ host.terminal)
  /\ prompt' = "refused"
  /\ UNCHANGED <<host, line, args, base, answers, sized, confirmed, guided>>

Parse ==
  /\ prompt = "typed" /\ Parses(line) /\ "interactive" \notin line.switches
  /\ args' = Parsed(line) /\ prompt' = "parsed"
  /\ UNCHANGED <<host, line, base, answers, sized, confirmed, guided>>

----------------------------------------------------------------------------
(* The wizard. *)

StartWizard ==
  /\ prompt = "typed" /\ Parses(line) /\ "interactive" \in line.switches /\ host.terminal
  /\ base' = Parsed(line) /\ prompt' = "provider"
  /\ UNCHANGED <<host, line, args, answers, sized, confirmed, guided>>

ProviderChoices(h) ==
  {"auto", "cpu"} \union {x \in {"coreml"} : h.macos /\ x \in h.features}
                  \union {x \in {"cuda"} : x \in h.features}

Answer(to, a) ==
  /\ prompt' = to /\ answers' = a
  /\ UNCHANGED <<host, line, args, base, sized, guided>>

PickProvider ==
  /\ prompt = "provider"
  /\ \E p \in ProviderChoices(host) :
       Answer("resources", [answers EXCEPT !.option = [@ EXCEPT !["embed_provider"] = p]])
  /\ UNCHANGED confirmed

PickIntensity ==
  /\ prompt = "resources"
  /\ \E r \in Values("resources") :
       Answer("mode", [answers EXCEPT !.option = [@ EXCEPT !["resources"] = r]])
  /\ UNCHANGED confirmed

PickMode ==
  /\ prompt = "mode"
  /\ \E m \in {"standard", "incremental", "force", "rebuild"} :
       Answer(IF m = "rebuild" THEN "rebuild" ELSE "knobs", [answers EXCEPT !.mode = m])
  /\ UNCHANGED confirmed

ConfirmRebuild ==
  /\ prompt = "rebuild"
  /\ \E yes \in BOOLEAN :
       /\ Answer("knobs", [answers EXCEPT !.mode = IF yes THEN @ ELSE "standard"])
       /\ confirmed' = yes

Knobs ==
  /\ prompt = "knobs"
  /\ \E yes \in BOOLEAN : Answer(IF yes THEN "threads" ELSE "run", answers)
  /\ UNCHANGED confirmed

AfterKnob(o) ==
  CASE o = "threads" -> "workers" [] o = "workers" -> "commit_batch"
    [] o = "commit_batch" -> "embed_batch" [] o = "embed_batch" -> "embed_cache"
    [] o = "embed_cache" -> "no_progress"

(* Blank or "auto" is no number; what is no number is asked for again. *)
PickKnob ==
  /\ prompt \in {"threads", "workers", "commit_batch", "embed_batch", "embed_cache"}
  /\ \E v \in Values(prompt) \union {DefaultOf(prompt)} :
       Answer(AfterKnob(prompt), [answers EXCEPT !.option = [@ EXCEPT ![prompt] = v]])
  /\ UNCHANGED confirmed

PickSwitch ==
  /\ prompt \in {"no_progress", "profile"}
  /\ \E s \in SUBSET {prompt} :
       Answer(IF prompt = "profile" THEN "run" ELSE "profile",
              [answers EXCEPT !.switches = @ \union s])
  /\ UNCHANGED confirmed

(* An interrupted prompt. *)
Cancel ==
  /\ prompt \in Prompts
  /\ prompt' = "cancelled"
  /\ UNCHANGED <<host, line, args, base, answers, sized, confirmed, guided>>

(* assemble_args: of the command line the path only. *)
Assembled(a, b) ==
  [path |-> b.path,
   switches |-> a.switches \union {s \in {"incremental", "force", "rebuild"} : a.mode = s}
                           \union {s \in {"yes"} : a.mode = "rebuild"},
   option |-> [a.option EXCEPT !["embed_provider"] = IF @ = "auto" THEN Unset ELSE @]]

RunNow ==
  /\ prompt = "run"
  /\ args' = Assembled(answers, base) /\ guided' = TRUE
  /\ prompt' = "parsed"
  /\ UNCHANGED <<host, line, base, answers, sized, confirmed>>

PrintOnly ==
  /\ prompt = "run"
  /\ line' = Printed(Assembled(answers, base)) /\ guided' = TRUE
  /\ prompt' = "printed"
  /\ UNCHANGED <<host, args, base, answers, sized, confirmed>>

(* The user runs what was printed. *)
Paste ==
  /\ prompt = "printed"
  /\ prompt' = "typed"
  /\ UNCHANGED <<host, line, args, base, answers, sized, confirmed, guided>>

----------------------------------------------------------------------------
(* The run. *)

Tier(cores, small, middle, large) ==
  IF cores < 8 THEN small ELSE IF cores < 16 THEN middle ELSE large

AtLeastOne(n) == IF n = 0 THEN 1 ELSE n

PickResources(h) ==
  [s \in Sizes |->
     CASE s = "commit_batch" -> Tier(h.cores, 128, 256, 512)
       [] s = "embed_batch" -> Tier(h.cores, 64, 128, 256)
       [] s = "threads" -> AtLeastOne(h.cores)]

ApplyIntensity(sizes, r) ==
  [s \in Sizes |->
     CASE r = "auto" -> sizes[s]
       [] r = "conservative" -> AtLeastOne(sizes[s] \div 2)
       [] r = "aggressive" -> 2 * sizes[s]]

(* merge_with_resource_plan. *)
Plan(h, a) ==
  LET sizes == ApplyIntensity(PickResources(h), a.option["resources"]) IN
  [s \in Sizes |-> IF a.option[s] # Unset THEN a.option[s] ELSE sizes[s]]

(* What the pipeline makes of the numbers: as many texts in a call, as many tasks
   and places in their channel. *)
Texts(plan) == AtLeastOne(plan["embed_batch"])

Tasks(h, a) ==
  AtLeastOne(IF a.option["workers"] # Unset THEN a.option["workers"] ELSE h.cores)

Sized(h, a) ==
  LET named == a.option["embed_provider"] IN
  [size |-> Plan(h, a), texts |-> Texts(Plan(h, a)), tasks |-> Tasks(h, a),
   provider |-> ResolveProvider([features |-> h.features, macos |-> h.macos, cuda |-> h.cuda,
                                 arg |-> IF named = Unset THEN "auto" ELSE named])]

RefuseRebuild ==
  /\ prompt = "parsed" /\ "rebuild" \in args.switches /\ "yes" \notin args.switches
  /\ prompt' = "refused"
  /\ UNCHANGED <<host, line, args, base, answers, sized, confirmed, guided>>

Run ==
  /\ prompt = "parsed"
  /\ "rebuild" \in args.switches => "yes" \in args.switches
  /\ sized' = Sized(host, args) /\ prompt' = "runs"
  /\ UNCHANGED <<host, line, args, base, answers, confirmed, guided>>

(* The next command. *)
Type ==
  /\ prompt \in Ends
  /\ line' \in Lines /\ args' = Unset /\ base' = Unset /\ answers' = NoAnswers
  /\ prompt' = "typed" /\ sized' = Unset /\ confirmed' = FALSE /\ guided' = FALSE
  /\ UNCHANGED host

OptionsNext ==
  \/ ParseFails \/ Parse \/ StartWizard
  \/ PickProvider \/ PickIntensity \/ PickMode \/ ConfirmRebuild
  \/ Knobs \/ PickKnob \/ PickSwitch \/ Cancel
  \/ RunNow \/ PrintOnly \/ Paste
  \/ RefuseRebuild \/ Run \/ Type

OptionsSpec == OptionsInit /\ [][OptionsNext]_optionVars

----------------------------------------------------------------------------
(* Correctness. *)

(* What runs is what was agreed to.  A rebuild was confirmed, at the prompt or on
   the command line that runs.  The wizard's answers are the options and no flag
   beside `-i` is, whether the run follows at once or its command is pasted, which
   works unless blanks are in the path, and then runs nothing.  The provider
   is one that was offered and this build has, "auto" aside.  A number that was
   given counts, and the others never make a batch of texts larger than one of
   commits; but whatever is given, there are no batches of nothing, and somebody works. *)
RunsAsAgreed ==
  /\ prompt = "runs" =>
       /\ "rebuild" \in args.switches =>
            IF guided THEN confirmed ELSE "yes" \in line.switches
       /\ guided =>
            /\ args.path = base.path
            /\ \A s \in {"incremental", "force", "rebuild"} :
                 s \in args.switches <=> answers.mode = s
            /\ args.switches \intersect {"no_progress", "profile"} = answers.switches
            /\ \A o \in Settings \ {"embed_provider"} : args.option[o] = answers.option[o]
            /\ answers.option["embed_provider"] # "auto" =>
                 /\ sized.provider = answers.option["embed_provider"]
                 /\ sized.provider \in Enabled(host)
       /\ \A s \in Sizes : args.option[s] # Unset => sized.size[s] = args.option[s]
       /\ {args.option["embed_batch"], args.option["commit_batch"]} = {Unset} =>
            sized.size["embed_batch"] \in 1..sized.size["commit_batch"]
       /\ args.option["threads"] = Unset => sized.size["threads"] > 0
       /\ sized.texts > 0 /\ sized.tasks > 0
  /\ prompt = "refused" /\ guided => Len(base.path) > 1

=============================================================================
