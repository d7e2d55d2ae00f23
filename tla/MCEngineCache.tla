--------------------------- MODULE MCEngineCache ---------------------------
(* The daemon's engine and its caches (EngineCache), or the session of a model
   it has loaded (ModelCalls).  A behaviour is of one of the two, the other stays
   as it started. *)
EXTENDS EngineCache, ModelCalls, TLC

CONSTANTS q1, q2, h1, h2, h3, b1, b2, one, other

(* The file changes from h1 to h2; h3 lacks it. *)
MCRequests == {q1, q2}
MCHeads == {h1, h2, h3}
MCBlob == h1 :> b1 @@ h2 :> b2 @@ h3 :> None
OneRange == {{1}}
TwoRanges == {{1}, {2}}
MCKinds ==
  {q1 :> m @@ q2 :> n :
     <<m, n>> \in {<<"find", "status">>, <<"status", "find">>,
                   <<"explain", "explain">>}}

(* The requests are interchangeable, and so are the commits with their blobs. *)
MCSymmetry ==
  {p @@ s : p \in Permutations(MCRequests),
            s \in {h1 :> h1 @@ h2 :> h2 @@ b1 :> b1 @@ b2 :> b2,
                   h1 :> h2 @@ h2 :> h1 @@ b1 :> b2 @@ b2 :> b1}}

(* Two users of the session; up to four texts, of fewer and of more tokens than
   fit.  The graph's dimensions are rows, tokens and, of its output, the
   vector's components. *)
MCUsers == {one, other}
short == <<"short", 1>>
whole == <<"whole", 2>>
long == <<"long", 3>>
same == <<"same", 1>>
MCInputs == {<<>>, <<same, long, short>>, <<short, whole, long, same>>}
MCGraph == [input |-> ByRows, output |-> ByRows \o <<[dim_value |-> 384]>>, inner |-> ByRows]

VARIABLE part
mcVars == <<part, vars, callVars>>

MCInit ==
  /\ Init /\ CallInit
  /\ \/ part = "engine" /\ session = "cpu"
     \/ /\ part = "session" /\ kind = CHOOSE k \in Kinds : TRUE
        /\ head = CHOOSE h \in Heads : TRUE

MCNext ==
  \/ part = "engine" /\ Next /\ UNCHANGED <<part, callVars>>
  \/ part = "session" /\ CallNext /\ UNCHANGED <<part, vars>>

MCSpec == MCInit /\ [][MCNext]_mcVars

=============================================================================
