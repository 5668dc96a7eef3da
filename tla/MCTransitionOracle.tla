------------------------- MODULE MCTransitionOracle -------------------------
(* Small turns: Events random events of which the first option leads to the next *)
(* and the other one anywhere further down, or to a child state.            *)
EXTENDS TransitionOracle, TLC

CONSTANTS x, y, z, b1, b2, a1

MCChild == {x, y, z}
After(p, last) == (p + 1)..last \union IF p = 1 THEN {x} ELSE {y}

First(p, last) == IF p = last THEN x ELSE p + 1

Bernoulli(p, last, ch, e) ==
    {[channel |-> ch, event |-> e, next |-> (0 :> First(p, last)) @@ (1 :> q), stray |-> z] :
        q \in After(p, last)}
Certain(p, last, e) ==
    [channel |-> "B", event |-> e, next |-> (0 :> First(p, last)), stray |-> z]

AllDraws ==
    [p \in Point |-> Bernoulli(p, Events, "B", IF p = 2 THEN b2 ELSE b1)
                       \union Bernoulli(p, Events, "A", a1)
                       \union IF p = 1 THEN {} ELSE {Certain(p, Events, b1)}]

\* Three events: damage rolls with a middle outcome, and turns the engine
\* rejects.
Rolls(p) ==
    {[channel |-> "B", event |-> b1, stray |-> z,
      next |-> (0 :> First(p, 3)) @@ (1 :> y) @@ (2 :> q)] : q \in After(p, 3)}
Failing == {[channel |-> "B", event |-> b2, stray |-> z, next |-> (0 :> x) @@ (1 :> Broken)]}
ModeDraws ==
    [p \in Point |->
        CASE p < 3 -> Rolls(p) \union Bernoulli(p, 3, "A", a1) \union {Certain(p, 3, b2)}
                          \union Bernoulli(p, 3, "B", b2)
          [] p = 3 -> Rolls(p) \union Bernoulli(p, 3, "A", a1) \union {Certain(p, 3, b2)}
                          \union Failing
          [] OTHER -> {}]

\* Quick Claw (b1) decides who asks first; both ask for the move that Sleep
\* Talk calls (a1), and their moves differ.
SleepTalkDraws ==
    (1 :> {[channel |-> "B", event |-> b1, next |-> (0 :> 2) @@ (1 :> 4), stray |-> z]}) @@
    (2 :> {[channel |-> "A", event |-> a1, next |-> (0 :> 3) @@ (1 :> 3), stray |-> z]}) @@
    (3 :> {[channel |-> "A", event |-> a1, next |-> (2 :> x) @@ (3 :> y), stray |-> z]}) @@
    (4 :> {[channel |-> "A", event |-> a1, next |-> (2 :> 5) @@ (3 :> 5), stray |-> z]}) @@
    (5 :> {[channel |-> "A", event |-> a1, next |-> (0 :> x) @@ (1 :> y), stray |-> z]})

Exact(draws) ==
    [mode |-> "None", max_leaves |-> 20, max_depth |-> Events, opps |-> <<64>>, draws |-> draws]

\* Every turn in exact mode; pessimal collapse; a coarse step with a budget,
\* a depth limit the turn outgrows and a second AI action of probability zero.
MCSetups ==
    ("exact" :> Exact(AllDraws)) @@
    ("pessimal" :> [Exact(ModeDraws) EXCEPT !.mode = "Pessimal"]) @@
    ("coarse" :> [mode |-> "Coarse", max_leaves |-> 2, max_depth |-> 2, opps |-> <<64, 0>>,
                  draws |-> ModeDraws])
MCSleepTalk == "sleep talk" :> Exact(SleepTalkDraws)
=============================================================================
