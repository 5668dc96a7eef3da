----------------------------- MODULE MCPpAudit -----------------------------
(* Every certificate over three buckets with at most two children each and *)
(* one contested slot per side; b1 may reach b3 directly and through b2.   *)
EXTENDS PpAudit, FiniteSetsExt, TLC

CONSTANTS b1, b2, b3, p, o

\* b3 is reached by the opponent's slot only, b2 also by a switch.
MCEdges(b) ==
    CASE b = b1 -> {[slot |-> o, child |-> b2], [slot |-> NoSlot, child |-> b2],
                    [slot |-> o, child |-> b3], [slot |-> NoSlot, child |-> WinLeaf]}
      [] b = b2 -> {[slot |-> o, child |-> b3], [slot |-> NoSlot, child |-> WinLeaf]}
      [] OTHER  -> {[slot |-> o, child |-> WinLeaf], [slot |-> NoSlot, child |-> WinLeaf]}
MCNodes(b) ==
    {[slot |-> s, oppPressure |-> op, plPressure |-> (b = b2), next |-> n] :
        s \in {p, NoSlot}, op \in IF b = b2 THEN BOOLEAN ELSE {b = b3},
        n \in kSubset(1, MCEdges(b)) \union kSubset(2, MCEdges(b))}
MCCertificates ==
    {c \in [Bucket -> MCNodes(b1) \union MCNodes(b2) \union MCNodes(b3)] :
        \A b \in Bucket : c[b] \in MCNodes(b)}
MCRealPps == {(p :> 3) @@ (o :> 2), (p :> 5) @@ (o :> 5)}
MCNone == [s \in {} |-> s]
\* p may hold Transform; its user has the one slot, and so has the target.
MCTransforms == p :> (p :> o)
\* PP that Transform lowers: the second way to use a slot up (README, section 6).
MCTransformPps == {(p :> 10) @@ (o :> 5)}
MCImposters == {p :> o}
=============================================================================
