------------------------------- MODULE MCExpand -------------------------------
(***************************************************************************)
(* Matchups for Expand: every kind of move on the player's side, two AI    *)
(* moves, both orders of action, with and without berry, pinch ability,    *)
(* residual (listed among the split candidates or not) and AI thresholds.  *)
(***************************************************************************)
EXTENDS Expand

Normal(non, crit) == [kind |-> "normal", non |-> non, crit |-> crit, flat |-> 0]
Fixed(n) == [kind |-> "fixed", non |-> <<>>, crit |-> <<>>, flat |-> n]
Status == [Fixed(0) EXCEPT !.kind = "status"]
Ohko == [Fixed(0) EXCEPT !.kind = "ohko"]

Weak == Normal(<<1, 1>>, <<2>>)
Gapped == Normal(<<1, 1>>, <<3>>)      \* no roll deals 2
Strong == Normal(<<1, 2>>, <<2>>)       \* only weakly dominated by its crits
Broken == Normal(<<2>>, <<1>>)          \* crits do not dominate

PlainEnv ==
    [mv |-> Weak, ai |-> <<Weak, Status>>, playerFirst |-> TRUE, berry |-> 0,
     heal |-> 0, pinch |-> 0, resid |-> 0, listed |-> TRUE, sup |-> 0,
     sup2 |-> 0, supO |-> 0, concede |-> FALSE]

MCEnv ==
    {[PlainEnv EXCEPT !.mv = m, !.playerFirst = f, !.berry = br, !.heal = 3,
                      !.resid = r[1], !.listed = r[2], !.pinch = pi] :
        m \in {Gapped, Fixed(2), Status}, f \in BOOLEAN, br \in {0, 4, 5},
        r \in {<<0, TRUE>>, <<-1, TRUE>>, <<-3, FALSE>>, <<-5, FALSE>>, <<2, FALSE>>},
        pi \in {0, 3}}
    \cup {[PlainEnv EXCEPT !.ai = <<Strong, Fixed(1)>>, !.sup = 8, !.sup2 = s,
                           !.supO = so, !.resid = r] :
            s \in {0, 4}, so \in {0, 5}, r \in {-1, 1}}
    \cup {[PlainEnv EXCEPT !.mv = m, !.concede = c] : m \in {Ohko, Broken}, c \in BOOLEAN}
    \cup {[PlainEnv EXCEPT !.ai = <<Weak, m>>] : m \in {Ohko, Broken}}

MCRect ==
    {[pl |-> [lo |-> p[1], hi |-> p[2]], op |-> [lo |-> o[1], hi |-> o[2]]] :
        p \in {<<0, 0>>, <<1, 2>>, <<5, 5>>, <<5, 11>>, <<6, 11>>, <<8, 10>>,
              <<9, 15>>, <<16, 16>>},
        o \in {<<1, 3>>, <<6, 9>>, <<5, 5>>}}
=============================================================================
