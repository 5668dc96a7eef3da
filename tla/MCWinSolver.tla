---------------------------- MODULE MCWinSolver ----------------------------
(* Small instances of WinSolver: every bucket graph over the non-terminal  *)
(* buckets NonTerminal with at most two children per expansion.            *)
EXTENDS WinSolver

CONSTANTS b1, b2, b3, w, l, p, a1, a2, q1, q2

NonTerminal == {b1, b2, b3}
MCBucket == NonTerminal \union {w, l, p}
MCAction == {a1, a2}
MCActions ==
    [b \in MCBucket |-> CASE b \in {b2, b3} -> <<a1>>
                        [] b \in NonTerminal -> <<a1, a2>>
                        [] OTHER -> <<>>]

\* p is a terminal bucket that q1 accepts and q2 does not (a keepHp or
\* keepItem condition), with the same breakpoints.
MCOutcome ==
    [q \in Question |-> [b \in MCBucket |->
        CASE b = w -> "WIN"
          [] b = l -> "LOSS"
          [] b = p -> IF q = q1 THEN "WIN" ELSE "LOSS"
          [] OTHER -> "CONTINUE"]]
MCBpFp == [q \in Question |-> 0]
MCBanned == [q \in Question |-> IF q = q1 THEN {} ELSE {a2}]

\* Every kind of result of expand(); the pairs put every two buckets side by
\* side, in an order that lets each be met first.
Singles == {Children(<<b>>) : b \in NonTerminal \union {w, p}}
Pairs == {Children(<<b1, b2>>), Children(<<b2, b3>>), Children(<<b3, b1>>)}
MCExpansions == Singles \union Pairs \union {Conceded, ExpandErr, Children(<<>>)}
=============================================================================
