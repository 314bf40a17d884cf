---------------------------- MODULE MCResolution ----------------------------
(***************************************************************************)
(* Three things that are about the links of the graph and share nothing,   *)
(* checked in one run: how they come about (Resolution), the walks over    *)
(* them (Cones), and what is believed by those that are evidence           *)
(* (Beliefs). A behaviour is of one of them, and the others do nothing.    *)
(***************************************************************************)
EXTENDS Resolution, TLC

VARIABLES machine,  \* which of the three it is
          links, orphans,
          causes, evidence, clock, asserted, sweeps

\* src/a.rs, src/a/b.rs, src/lib.rs and src/main.rs, the last two of one module.
Layout == <<<<"", <<"a">>>>, <<"", <<"a", "b">>>>, <<"", <<>>>>, <<"", <<>>>>>>

\* go and m are functions of two modules, m a method of T in both; X is a const
\* that becomes a function; lib.rs loses its imports, b.rs its calls.
a1 == [NoDecl EXCEPT !.fns = {"go", "m"}, !.data = {"X"}, !.methods = {<<"T", "m">>},
                     !.calls = {<<"go", <<"Self", "m">>>>}]
a2 == [NoDecl EXCEPT !.fns = {"go", "X"}, !.calls = {<<"go", <<"X">>>>}]
b1 == [NoDecl EXCEPT !.fns = {"go", "m"}, !.methods = {<<"T", "m">>}]
b2 == [NoDecl EXCEPT !.fns = {"m"}, !.uses = {<<"super">>, <<"crate", "a", "go">>},
                     !.aliases = [q \in {"q"} |-> <<"crate", "a", "go">>],
                     !.calls = {<<"m", <<"q">>>>}, !.refs = {<<"m", <<"X">>>>}]
lib1 == [NoDecl EXCEPT !.fns = {"run"},
                       !.uses = {<<"crate", "a", "go">>, <<"crate", "a", "b">>},
                       !.calls = {<<"run", <<"go">>>>, <<"run", <<"b", "go">>>>,
                                  <<"run", <<"T", "m">>>>},
                       !.refs = {<<"run", <<"a", "X">>>>}]
lib2 == [NoDecl EXCEPT !.fns = {"run"}, !.calls = {<<"run", <<"go">>>>}]
main1 == [NoDecl EXCEPT !.fns = {"main"}, !.data = {"X"},
                        !.calls = {<<"main", <<"run">>>>, <<"main", <<"a", "go">>>>},
                        !.refs = {<<"main", <<"X">>>>}]

Workspace == <<<<a1, a2>>, <<b1, b2>>, <<lib1, lib2>>, <<main1>>>>

\* A definition, and a function that is one of two homonyms and a caller.
Pages == {Sym(1, "go"), Sym(2, "m")}

\* A path of three calls with a shortcut, a call back to its start, links of the
\* other kind beside and against it. The products of the weights are exact.
C == INSTANCE Cones WITH
  Ids <- 1..4, Hubs <- {4},
  Candidates <- {<<1, 2, "Calls">>, <<2, 3, "Calls">>, <<3, 4, "Calls">>, <<1, 3, "Calls">>,
            <<4, 1, "Calls">>, <<1, 2, "Contains">>, <<2, 4, "Contains">>,
            <<3, 2, "Contains">>},
  Weight <- "Calls" :> 128 @@ "Contains" :> 64,
  Depends <- {"Calls"}, Flash <- {"Calls", "Contains"},
  Full <- 256, Damping <- 128, MaxDepth <- 3

\* A causal cycle of three claims with a weaker shortcut and a loop; what they are
\* asserted to be by two others, and one by another. A cause is resolved at any
\* belief, or at a third.
CausalLinks == {<<1, 2>>, <<2, 3>>, <<3, 1>>, <<1, 3>>, <<2, 2>>}

B == INSTANCE Beliefs WITH
  Ids <- 1..5, Causal <- CausalLinks,
  Strength <- [l \in CausalLinks |-> IF l = <<1, 3>> THEN 32 ELSE 64],
  Assertions <- {<<4, 1, TRUE>>, <<4, 2, FALSE>>, <<5, 1, FALSE>>, <<1, 2, TRUE>>},
  Authorities <- {64}, Thresholds <- {0, 20}, Dampings <- {48}, HalfLife <- 1,
  Full <- 64, MaxClock <- 1, MaxSweeps <- 3

ASSUME BeliefsAssumption == B!ConstantsOK

walkVars == <<links, orphans>>
beliefVars == <<causes, evidence, clock, asserted, sweeps>>

AnyInit ==
  /\ machine \in {"resolution", "walks", "beliefs"}
  /\ Init /\ C!Init /\ B!Init
  /\ machine # "walks" => links = {} /\ orphans = {}
  /\ machine # "beliefs" => causes = {}

AnyNext ==
  \/ machine = "resolution" /\ Next /\ UNCHANGED <<machine, walkVars, beliefVars>>
  \/ machine = "walks" /\ C!Next /\ UNCHANGED <<machine, vars, beliefVars>>
  \/ machine = "beliefs" /\ B!Next /\ UNCHANGED <<machine, vars, walkVars>>

AnySpec == AnyInit /\ [][AnyNext]_<<machine, vars, walkVars, beliefVars>>

\* The walks find what they say they find, see Cones.
WalksAreExact == machine = "walks" => C!WalksAreExact

\* What is believed goes back to what was asserted, see Beliefs.
BeliefsComeOfAssertions == machine = "beliefs" => B!BeliefsComeOfAssertions

=============================================================================
