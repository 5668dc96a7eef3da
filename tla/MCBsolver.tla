----------------------------- MODULE MCBsolver -----------------------------
(* Games over the states NonTerminal with supports of at most two states.   *)
EXTENDS Bsolver

CONSTANTS s1, s2, s3, s4, w, l, a1, a2, b

NonTerminal == {s1, s2, s3, s4}
MCState == NonTerminal \union {w, l}
MCActions == [s \in MCState |-> CASE s = s1 -> <<a1, b, a2>>
                                 [] s \in NonTerminal -> <<a1>>
                                 [] OTHER -> <<>>]
MCOutcome == [s \in MCState |-> CASE s = w -> "WIN" [] s = l -> "LOSS" [] OTHER -> "CONTINUE"]

MakeStep(all, kept, complete) ==
    [all |-> all, kept |-> kept, complete |-> complete, throws |-> FALSE]
Throwing == [all |-> {w}, kept |-> <<>>, complete |-> FALSE, throws |-> TRUE]

Singles == {MakeStep({x}, <<x>>, TRUE) : x \in MCState}
Pair(x, y) == MakeStep({x, y}, <<x, y>>, TRUE)
Pairs == {Pair(s1, s2), Pair(s2, s3), Pair(s3, s1), Pair(s3, s2)}
WithWin == {Pair(x, w) : x \in {s1, s2, s3}}

\* Supports of two states of which one is emitted (the other one is a win or
\* s1), and enumerations cut short.
Collapsed == {MakeStep({x, y}, <<x>>, TRUE) : x \in {s1, s2}, y \in {s1, w}}
Cut == {MakeStep({w, l}, <<w>>, FALSE), MakeStep({l}, <<>>, FALSE)}

MCSteps ==
    Singles \union Pairs \union WithWin
        \union Collapsed \union Cut \union {Throwing}
=============================================================================
