------------------------------ MODULE PpAudit ------------------------------
(***************************************************************************)
(* The PP audit of a WIN certificate and the battle it has to survive      *)
(* (engine/src/solver/bucket/pp_canon.cpp, win_solver.cpp pp_cert_audit).  *)
(*                                                                         *)
(* With enable_pp_canon the search runs on states whose masked move slots  *)
(* carry a sentinel instead of their PP.  A WIN is therefore audited: the  *)
(* policy is walked into a certificate DAG (build_cert_node), the largest  *)
(* PP use of every slot along a line of play is computed (visit_node), and *)
(* the WIN is withdrawn unless every masked slot keeps PP to spare.  If it *)
(* stands, the policy is played with the real PP (move_exec.cpp).          *)
(***************************************************************************)
EXTENDS Integers, Sequences

CONSTANTS
    Bucket,           \* non-terminal buckets of the certificate
    Slot,             \* move slots of both sides
    NoSlot,           \* switch, Struggle or recharge: no slot pays
    WinLeaf,          \* a child classified as a terminal WIN
    Masked,           \* slots whose move is not cycle capable
    Certificates,     \* WIN certificates the search may end with
    RealPps,          \* PP of the slots in the real root state
    Copiers,          \* slots whose move may give its user the target's ability
    Entering,         \* sides that may gain Pressure before the moves of a turn
    Transforms,       \* slot of a Transform -> the move slots it overwrites
    Imposters         \* what an Imposter lead overwrites on the first turn

Actor == Slot \union {NoSlot}

(***************************************************************************)
(* A certificate maps a bucket of the policy to the slot of its action, the*)
(* Pressure of both active mons in the bucket's LO corner, and its AND-    *)
(* children: the slot the opponent uses and the bucket that results.       *)
(***************************************************************************)
Edge == [slot : Actor, child : Bucket \union {WinLeaf}]
Node == [slot : Actor, oppPressure : BOOLEAN, plPressure : BOOLEAN, next : SUBSET Edge]

ClosedCert(c) ==
    \A b \in DOMAIN c :
        /\ c[b].next # {}
        /\ \A e \in c[b].next : e.child \in DOMAIN c \union {WinLeaf}

AcyclicCert(c) ==
    \A X \in (SUBSET DOMAIN c) \ {{}} : \E b \in X : \A e \in c[b].next : e.child \notin X

\* An overwrite maps move slots of the user to the slots they are copied from.
NoOverwrite == [s \in {} |-> s]
IsOverwrite(f) == DOMAIN f \subseteq Slot /\ \A s \in DOMAIN f : f[s] \in Slot

ASSUME PpAuditAssumption ==
    /\ NoSlot \notin Slot /\ WinLeaf \notin Bucket
    /\ Masked \subseteq Slot
    /\ \A c \in Certificates : DOMAIN c \subseteq Bucket /\ \A b \in DOMAIN c : c[b] \in Node
    /\ RealPps \subseteq [Slot -> Nat]
    /\ DOMAIN Transforms \subseteq Copiers
    /\ \A s \in DOMAIN Transforms : IsOverwrite(Transforms[s])
    /\ \A f \in Imposters : IsOverwrite(f)

VARIABLES
    cert,     \* the certificate: policy, actives and cached expansions
    realPp,   \* snapshot_root_pp of the real root state
    root,     \* root bucket
    pc,       \* "walk", "dp", "check", "play", "over", "rejected", "exception"
    path,     \* build_cert_node frames: bucket and children still to visit
    built,    \* PpCertGraph::nodes, children before parents
    idx,      \* node visit_node evaluates
    todo,     \* children of that node still to be merged
    childMax, \* slot-wise max over the merged children
    use,      \* memo: the nodes done -> use of every slot
    at,       \* bucket the battle is in
    pp,       \* real PP in the battle
    asCharged \* history: Pressure was faced only where the audit charged it,
              \* and no move slot was overwritten

certVars == <<cert, realPp, root>>
auditVars == <<path, built, idx, todo, childMax, use>>
vars == <<certVars, auditVars, pc, at, pp, asCharged>>

Zero == [s \in Slot |-> 0]
NoUse == [b \in {} |-> Zero]
BuiltSet == {built[i] : i \in DOMAIN built}
PathSet == {path[i].b : i \in DOMAIN path}
PathTop == path[Len(path)]

Frame(b) == [b |-> b, rest |-> cert[b].next]

\* PP an action costs its own slot, with Pressure on the opposing side.
action_pp_cost(a, pressure) ==
    IF a = NoSlot THEN 0 ELSE IF pressure THEN 2 ELSE 1

\* Cost of actor a, as a use of slot s.
CostAt(a, pressure, s) == IF a = s THEN action_pp_cost(a, pressure) ELSE 0

kPpSentinel == 99

\* canonicalize_slot: masked slots keep only whether they have PP.
Canonical(p) ==
    [s \in Slot |-> IF s \in Masked /\ p[s] > 0 THEN kPpSentinel ELSE p[s]]

Init ==
    /\ cert \in Certificates
    /\ realPp \in RealPps
    /\ ClosedCert(cert) /\ AcyclicCert(cert)
    /\ root \in DOMAIN cert
    /\ pc = "walk"
    /\ path = <<Frame(root)>>
    /\ built = <<>>
    /\ idx = 1
    /\ todo = {}
    /\ childMax = Zero
    /\ use = NoUse
    /\ at = root
    /\ pp = realPp
    /\ asCharged = TRUE

-----------------------------------------------------------------------------
(* build_cert_node.                                                         *)

\* Mutant: on_stack.erase is missing.
MutOnPath(b) == b \in PathSet \union BuiltSet

OnPath(b) == b \in PathSet

\* Mutant: a bucket reached on a second path is built again.
MutIsBuilt(b) == FALSE

IsBuilt(b) == b \in BuiltSet

\* Meeting a bucket of the path again, or one without a policy entry, throws.
WalkThrows(b) == OnPath(b) \/ (~IsBuilt(b) /\ b \notin DOMAIN cert)

\* The path once the top frame has passed child e.
Past(e) == [path EXCEPT ![Len(path)] = [b |-> PathTop.b, rest |-> PathTop.rest \ {e}]]

\* The next child: a terminal WIN and a bucket that is already a node are
\* passed over, a new bucket is walked.
WalkEdge(e) ==
    /\ pc = "walk"
    /\ path # <<>>
    /\ e \in PathTop.rest
    /\ IF e.child = WinLeaf
       THEN path' = Past(e) /\ UNCHANGED pc
       ELSE IF WalkThrows(e.child)
       THEN pc' = "exception" /\ UNCHANGED path
       ELSE /\ path' = IF IsBuilt(e.child) THEN Past(e) ELSE Append(Past(e), Frame(e.child))
            /\ UNCHANGED pc
    /\ UNCHANGED <<certVars, built, idx, todo, childMax, use, at, pp, asCharged>>

\* All children are walked: the node is appended and leaves the path.
WalkDone ==
    /\ pc = "walk"
    /\ path # <<>>
    /\ PathTop.rest = {}
    /\ built' = Append(built, PathTop.b)
    /\ path' = SubSeq(path, 1, Len(path) - 1)
    /\ UNCHANGED <<certVars, pc, idx, todo, childMax, use, at, pp, asCharged>>

-----------------------------------------------------------------------------
(* pp_max_consumption.  visit_node finishes the nodes in the order in which *)
(* build_cert_node appended them: both walk the same graph depth first.     *)

StartDp ==
    /\ pc = "walk"
    /\ path = <<>>
    /\ pc' = "dp"
    /\ todo' = cert[built[1]].next
    /\ UNCHANGED <<certVars, path, built, idx, childMax, use, at, pp, asCharged>>

Below(e) == IF e.child = WinLeaf THEN Zero ELSE use[e.child]

\* Use of slot s on the branch of child e: the opponent's action, then the
\* child's line.
Branch(b, e, s) == CostAt(e.slot, cert[b].plPressure, s) + Below(e)[s]

\* Mutant: the last child's use replaces that of the others.
MutMergeChild(e) ==
    /\ pc = "dp"
    /\ e \in todo
    /\ childMax' = [s \in Slot |-> Branch(built[idx], e, s)]
    /\ todo' = todo \ {e}
    /\ UNCHANGED <<certVars, pc, path, built, idx, use, at, pp, asCharged>>

\* max_into: children are alternatives, slot by slot.
MergeChild(e) ==
    /\ pc = "dp"
    /\ e \in todo
    /\ childMax' = [s \in Slot |-> IF Branch(built[idx], e, s) > childMax[s]
                                   THEN Branch(built[idx], e, s) ELSE childMax[s]]
    /\ todo' = todo \ {e}
    /\ UNCHANGED <<certVars, pc, path, built, idx, use, at, pp, asCharged>>

OwnUse(b, s) == CostAt(cert[b].slot, cert[b].oppPressure, s)

\* add_into: the node's own cost plus its children's maximum.
FinishNode ==
    /\ pc = "dp"
    /\ todo = {}
    /\ use' = [b \in DOMAIN use \union {built[idx]} |->
                  IF b = built[idx] THEN [s \in Slot |-> OwnUse(b, s) + childMax[s]]
                  ELSE use[b]]
    /\ idx' = idx + 1
    /\ childMax' = Zero
    /\ IF idx < Len(built)
       THEN todo' = cert[built[idx + 1]].next /\ UNCHANGED pc
       ELSE todo' = {} /\ pc' = "check"
    /\ UNCHANGED <<certVars, path, built, at, pp, asCharged>>

-----------------------------------------------------------------------------
(* pp_cert_audit_ok and the verdict of win_thread_fn.                       *)

\* Mutant: a masked slot may be used up exactly.
MutOverUsed(s) == s \in Masked /\ realPp[s] > 0 /\ use[root][s] > realPp[s]

OverUsed(s) == s \in Masked /\ realPp[s] > 0 /\ use[root][s] >= realPp[s]

Accept ==
    /\ pc = "check"
    /\ \A s \in Slot : ~OverUsed(s)
    /\ pc' = "play"
    /\ UNCHANGED <<certVars, auditVars, at, pp, asCharged>>

\* Mutant: the rejection is not turned into a verdict.
MutReject ==
    /\ pc = "check"
    /\ \E s \in Slot : OverUsed(s)
    /\ UNCHANGED vars

\* INDETERMINATE(PpAuditFail).
Reject ==
    /\ pc = "check"
    /\ \E s \in Slot : OverUsed(s)
    /\ pc' = "rejected"
    /\ UNCHANGED <<certVars, auditVars, at, pp, asCharged>>

-----------------------------------------------------------------------------
(* The battle.  An action pays nothing when it is blocked before the move   *)
(* or releases a charged one; else 1, plus 1 if it targets the other side   *)
(* and the opposing active mon has Pressure when the move is made.  That    *)
(* mon had Pressure when the turn began; or gained it before the moves      *)
(* (Trace or Imposter on a lead's first turn, a Mega Evolution with Trace,  *)
(* Neutralizing Gas wearing off); or it moved first and took the ability of *)
(* its opponent (Role Play, Skill Swap, Transform, called moves included).  *)

Side == {"player", "opponent"}
Foe(x) == IF x = "player" THEN "opponent" ELSE "player"

PaidCosts(a, pressure) ==
    {0, action_pp_cost(a, FALSE), action_pp_cost(a, pressure)}

\* cpp_consume_pp clamps at 0.
Pay(p, a, n) == IF a = NoSlot THEN p
                ELSE [p EXCEPT ![a] = IF p[a] > n THEN p[a] - n ELSE 0]

kTransformPp == 5

\* Transform and Imposter: a copied move has at most 5 PP.
Overwrite(p, f) ==
    [s \in Slot |-> IF s \in DOMAIN f
                    THEN IF p[f[s]] < kTransformPp THEN p[f[s]] ELSE kTransformPp
                    ELSE p[s]]

Used(x, e) == IF x = "player" THEN cert[at].slot ELSE e.slot
HasPressure(x) == IF x = "player" THEN cert[at].plPressure ELSE cert[at].oppPressure
MayHavePressure(x) == HasPressure(x) \/ x \in Entering

\* x took its opponent's Pressure if it moved first.
MayTakePressure(x, e) == Used(x, e) \in Copiers /\ MayHavePressure(Foe(x))

MayFacePressure(x, e) ==
    /\ Used(x, e) # NoSlot
    /\ MayHavePressure(Foe(x)) \/ MayTakePressure(Foe(x), e)

\* The courses a turn may take: who moves first, who faces Pressure, what each
\* pays, whose Transform succeeds, and an Imposter lead's copy on turn 1.
Course(e) ==
    [first : Side,
     faced : SUBSET {x \in Side : MayFacePressure(x, e)},
     cost  : {k \in [Side -> 0..2] : \A x \in Side :
                  k[x] \in PaidCosts(Used(x, e), MayFacePressure(x, e))},
     wrote : SUBSET {x \in Side : Used(x, e) \in DOMAIN Transforms},
     lead  : {NoOverwrite} \union (IF at = root THEN Imposters ELSE {})]

Possible(e, c) ==
    /\ \A x \in Side : c.cost[x] \in PaidCosts(Used(x, e), x \in c.faced)
    /\ \A x \in c.wrote : c.cost[x] > 0
    /\ \A x \in c.faced :
          MayHavePressure(Foe(x)) \/ (c.first = Foe(x) /\ c.cost[Foe(x)] > 0)

\* One side's action: its slot pays, then a Transform overwrites the slots.
Acted(p, x, e, c) ==
    LET paid == Pay(p, Used(x, e), c.cost[x])
    IN  IF x \in c.wrote THEN Overwrite(paid, Transforms[Used(x, e)]) ELSE paid

PpAfter(e, c) ==
    Acted(Acted(Overwrite(pp, c.lead), c.first, e, c), Foe(c.first), e, c)

\* The audit charged the Pressure of the start of the turn and follows the
\* root's slots.
AsAudited(c) ==
    /\ c.wrote = {} /\ c.lead = NoOverwrite
    /\ \A x \in c.faced : HasPressure(Foe(x))

\* Mutant: a terminal child is followed as if it were a bucket.
MutTurn(e, c) ==
    /\ Possible(e, c)
    /\ pp' = PpAfter(e, c)
    /\ asCharged' = (asCharged /\ AsAudited(c))
    /\ at' = e.child
    /\ UNCHANGED <<certVars, auditVars, pc>>

\* One turn: the policy's action against any child, both in either order.
Turn(e, c) ==
    /\ Possible(e, c)
    /\ pp' = PpAfter(e, c)
    /\ asCharged' = (asCharged /\ AsAudited(c))
    /\ IF e.child = WinLeaf
       THEN pc' = "over" /\ UNCHANGED at
       ELSE at' = e.child /\ UNCHANGED pc
    /\ UNCHANGED <<certVars, auditVars>>

Play == pc = "play" /\ \E e \in cert[at].next : \E c \in Course(e) : Turn(e, c)

WalkOrDp ==
    \/ \E e \in Edge : WalkEdge(e) \/ MergeChild(e)
    \/ WalkDone \/ StartDp \/ FinishNode

Next ==
    \/ WalkOrDp
    \/ Accept \/ Reject
    \/ Play

Spec == Init /\ [][Next]_vars

\* The audit runs on the solver's worker thread until it has a verdict.
FairSpec == Spec /\ WF_vars(WalkOrDp \/ Accept \/ Reject)

-----------------------------------------------------------------------------
(* Properties.                                                              *)

\* Type invariant.
TypeOK ==
    /\ cert \in Certificates /\ realPp \in RealPps /\ root \in DOMAIN cert
    /\ pc \in {"walk", "dp", "check", "play", "over", "rejected", "exception"}
    /\ path \in Seq([b : DOMAIN cert, rest : SUBSET Edge])
    /\ built \in Seq(DOMAIN cert)
    /\ idx \in Nat \ {0} /\ todo \subseteq Edge
    /\ childMax \in [Slot -> Nat]
    /\ use \in [DOMAIN use -> [Slot -> Nat]]
    /\ at \in DOMAIN cert
    /\ pp \in [Slot -> Nat]
    /\ asCharged \in BOOLEAN

\* The two "impossible if sound" throws of the audit do not happen: no bucket
\* is met again on the walk's path, diamonds included, and each has a policy
\* entry.
AuditNeverThrows == pc # "exception"

\* The graph lists every bucket once, after all its children, so the DP reads
\* only finished entries; every bucket the battle can be in is audited.
BuiltInOrder ==
    /\ \A i, j \in DOMAIN built : built[i] = built[j] => i = j
    /\ \A i \in DOMAIN built : \A e \in cert[built[i]].next :
          e.child # WinLeaf => \E j \in 1..(i - 1) : built[j] = e.child
    /\ pc \in {"check", "play", "over", "rejected"} => at \in DOMAIN use

\* The DP is the maximum over lines of play: no branch uses a slot more, and
\* one branch uses it that much.
UseIsMaximum ==
    \A b \in DOMAIN use : \A s \in Slot :
        /\ \A e \in cert[b].next : use[b][s] >= OwnUse(b, s) + Branch(b, e, s)
        /\ \E e \in cert[b].next : use[b][s] = OwnUse(b, s) + Branch(b, e, s)

\* As long as Pressure is faced only where the audit charged it and no move
\* slot is overwritten, the battle never leaves the canonical states the
\* certificate was computed for: after every turn a masked slot has PP if and
\* only if it had PP at the root (pp_canon.h: "never reaching 0").
ProfileKept ==
    pc \in {"play", "over"} /\ asCharged =>
        \A s \in Masked : Canonical(pp)[s] = Canonical(realPp)[s]

\* What pp_canon.h promises of every accepted certificate, without the proviso:
\* a masked slot that had PP at the root is never used up.
NeverUsedUp ==
    pc \in {"play", "over"} => \A s \in Masked : realPp[s] > 0 => pp[s] > 0

\* The audit ends with a verdict.
AuditEnds == (pc = "walk") ~> (pc \in {"play", "rejected"})

-----------------------------------------------------------------------------
(* The inductive invariant.                                                 *)

Walking == pc \in {"walk", "exception"}
Audited == pc \in {"check", "play", "over", "rejected"}

CertGood == ClosedCert(cert) /\ AcyclicCert(cert)

\* The path starts at the root, each frame is a child of the one below it,
\* and no bucket is on it twice or already a node.
PathLinked ==
    /\ path # <<>> => path[1].b = root
    /\ path = <<>> => root \in BuiltSet
    /\ \A i \in 1..(Len(path) - 1) : \E e \in cert[path[i].b].next : e.child = path[i + 1].b
    /\ \A i, j \in 1..Len(path) : path[i].b = path[j].b => i = j
    /\ \A i \in 1..Len(path) : path[i].b \notin BuiltSet

\* A child a frame has left behind is a leaf, a node, or being walked above it.
PathVisited ==
    \A i \in 1..Len(path) :
        /\ path[i].rest \subseteq cert[path[i].b].next
        /\ \A e \in cert[path[i].b].next \ path[i].rest :
              \/ e.child = WinLeaf
              \/ e.child \in BuiltSet
              \/ i < Len(path) /\ e.child = path[i + 1].b

BuiltOnce == \A i, j \in 1..Len(built) : built[i] = built[j] => i = j

ChildrenFirst ==
    \A i \in 1..Len(built) : \A e \in cert[built[i]].next :
        e.child # WinLeaf => \E j \in 1..(i - 1) : built[j] = e.child

\* visit_node has finished exactly the nodes before idx.
DpProgress ==
    /\ DOMAIN use = {built[j] : j \in 1..(idx - 1)}
    /\ idx <= Len(built) + 1
    /\ Walking => idx = 1 /\ childMax = Zero
    /\ ~Walking => path = <<>>
    /\ pc = "dp" => idx <= Len(built) /\ todo \subseteq cert[built[idx]].next
    /\ Audited => idx = Len(built) + 1

\* childMax bounds the children merged so far, and one of them attains it.
MergedMax ==
    pc = "dp" =>
        \A s \in Slot :
            /\ \A e \in cert[built[idx]].next \ todo : Branch(built[idx], e, s) <= childMax[s]
            /\ \/ childMax[s] = 0
               \/ \E e \in cert[built[idx]].next \ todo : Branch(built[idx], e, s) = childMax[s]

\* What the rest of the battle may still take is there.
PpCovers ==
    /\ pc \notin {"play", "over"} => at = root /\ pp = realPp
    /\ asCharged => \A s \in Slot : pp[s] <= realPp[s]
    /\ pc = "play" => at \in BuiltSet
    /\ pc = "play" /\ asCharged => \A s \in Masked : realPp[s] > 0 => pp[s] > use[at][s]
    /\ pc = "over" /\ asCharged => \A s \in Masked : realPp[s] > 0 => pp[s] > 0

\* Once audited, the battle is in a node of the graph.
AtBuilt ==
    /\ pc \notin {"play", "over"} => at = root
    /\ Audited => at \in BuiltSet

WalkInv == CertGood /\ PathLinked /\ PathVisited /\ BuiltOnce /\ ChildrenFirst
DpInv == DpProgress /\ MergedMax /\ UseIsMaximum
AuditInv == TypeOK /\ WalkInv /\ DpInv /\ AuditNeverThrows
PlayInv == AuditInv /\ PpCovers
=============================================================================
