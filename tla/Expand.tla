-------------------------------- MODULE Expand --------------------------------
(***************************************************************************)
(* expand() (engine/src/solver/bucket/expand.cpp): the children of a       *)
(* bucket, a rectangle of player HP x opponent HP in one context, under    *)
(* one player action.  The rectangle is cut at derived split points, each  *)
(* piece is stepped at its LO corner only, every leaf is replayed at the   *)
(* HI corner only, and the two endpoints are taken to speak for all the HP *)
(* values between them.  The images are cut at the breakpoints and merged. *)
(* Gates throw where the endpoints disagree.                               *)
(*                                                                         *)
(* The turn that the oracle plays is kept to what can tell HP values       *)
(* apart: damage rolls and crits of one-hit moves, faints, a berry, a      *)
(* pinch ability, one residual, an AI whose support depends on HP.  A      *)
(* context id d stands for the interned masked state, so it is modelled by *)
(* that state itself; a support fingerprint by the support set.            *)
(***************************************************************************)
EXTENDS Integers, Sequences, FiniteSets, FiniteSetsExt

CONSTANTS
    MaxHp,      \* max_hp of both actives
    Env,        \* matchups: moves, item, ability, residual, AI thresholds
    Rect        \* rectangles [pl, op] of the buckets that are expanded

Slot == {1, 2}                  \* the AI's move slots

(***************************************************************************)
(* A move: damage by roll, without and with a crit.  "fixed" moves deal    *)
(* `flat' without a draw and show an all-zero damage table, as "status"    *)
(* moves (flat 0) do; "ohko" stands for every move that expand() refuses.  *)
(***************************************************************************)
Move == [kind : {"normal", "fixed", "status", "ohko"},
         non : Seq(Nat), crit : Seq(Nat), flat : Nat]

(***************************************************************************)
(* A matchup: the player's move, the AI's moves, who acts first, the HP at *)
(* or below which the player's berry is eaten (0: no berry) and its heal,  *)
(* the HP at or below which the pinch ability adds to the damage (0: none),*)
(* the player's end-of-turn HP change and whether residual_delta_candidates*)
(* lists it, the HP thresholds of the AI's scorer (a band of player HP and *)
(* a bound of its own HP), and what the concede detectors say.             *)
(***************************************************************************)
EnvType == [mv : Move, ai : [Slot -> Move], playerFirst : BOOLEAN,
            berry : Nat, heal : Nat, pinch : Nat, resid : Int,
            listed : BOOLEAN, sup : Nat, sup2 : Nat, supO : Nat, concede : BOOLEAN]

-----------------------------------------------------------------------------
(* Breakpoints, intervals, buckets.                                         *)

\* seed_axis + normalize: faint, max_hp and every threshold within range.
PlayerBps(e) == {0, MaxHp} \cup ({e.berry, e.pinch, e.sup, e.sup2} \cap (0..MaxHp))
OppBps(e) == {0, MaxHp} \cup ({e.supO} \cap (0..MaxHp))

Interval == {iv \in [lo : 0..MaxHp, hi : 0..MaxHp] : iv.lo <= iv.hi}
ASSUME ExpandAssumption ==
    /\ MaxHp \in Nat \ {0}
    /\ Env \subseteq EnvType
    /\ Rect \subseteq [pl : Interval, op : Interval]

HasInteriorBreakpoint(iv, bps) == \E b \in bps : iv.lo < b /\ b < iv.hi

\* Contexts: the masked state, as far as a turn can change it.
Ctx == [item : BOOLEAN, lastP : 0..MaxHp, lastO : 0..MaxHp,
        faintP : BOOLEAN, faintO : BOOLEAN]
Bucket == [d : Ctx, pl : Interval, op : Interval, fp : SUBSET Slot]

LowerOf(x, y) == IF x < y THEN x ELSE y
UpperOf(x, y) == IF x < y THEN y ELSE x

\* Mutant: touching is taken one too far, [1, 2] and [4, 5] merge.
AdjacentOrOverlapping_Gap(a, b) ==
    a.hi + 2 >= b.lo /\ b.hi + 2 >= a.lo
AdjacentOrOverlapping(a, b) ==
    \/ LowerOf(a.hi, b.hi) >= UpperOf(a.lo, b.lo)
    \/ a.hi + 1 = b.lo
    \/ b.hi + 1 = a.lo

UnionInterval(a, b) == [lo |-> LowerOf(a.lo, b.lo), hi |-> UpperOf(a.hi, b.hi)]

\* try_merge: whether two buckets merge, and the bucket make_unchecked builds.
CanMerge(a, b) ==
    /\ a.d = b.d
    /\ a.fp = b.fp
    /\ \/ a.pl = b.pl /\ a.op = b.op
       \/ a.pl = b.pl /\ AdjacentOrOverlapping(a.op, b.op)
       \/ a.op = b.op /\ AdjacentOrOverlapping(a.pl, b.pl)
Merged(a, b) ==
    [d |-> a.d, pl |-> UnionInterval(a.pl, b.pl),
     op |-> UnionInterval(a.op, b.op), fp |-> a.fp]

-----------------------------------------------------------------------------
(* The turn, as the oracle plays it from one concrete state.                *)

NoDraw == <<>>

\* The AI's support: its p > 0 actions at the given HP values.
Support(e, p, o) ==
    IF (e.sup2 < p /\ p <= e.sup) \/ o <= e.supO THEN {1} ELSE {1, 2}

\* Rolls with equal damage share one leaf, of the lowest roll.
Rolls(s) == {r \in 1..Len(s) : \A q \in 1..(r - 1) : s[q] # s[r]}
Draws(m) ==
    IF m.kind = "normal"
    THEN {<<FALSE, r>> : r \in Rolls(m.non)} \cup {<<TRUE, r>> : r \in Rolls(m.crit)}
    ELSE {NoDraw}

PinchBoost(e, p) == IF p <= e.pinch THEN 1 ELSE 0
Damage(m, boost, c) ==
    IF c = NoDraw THEN m.flat ELSE (IF c[1] THEN m.crit ELSE m.non)[c[2]] + boost

\* A state within the turn; usedP, usedO: the move asked for its draws.
TurnState == [p : 0..MaxHp, o : 0..MaxHp, item : BOOLEAN, lastP : 0..MaxHp,
              lastO : 0..MaxHp, usedP : BOOLEAN, usedO : BOOLEAN]

\* cpp_apply_damage: clamp at 0, remember the damage really taken.
HpAfter(hp, dmg) == UpperOf(0, hp - dmg)
LastDamage(last, hp, dmg) == IF dmg = 0 THEN last ELSE LowerOf(dmg, hp)

\* check_berry: eaten at or below the threshold, unless fainted.
CheckBerry(e) ==
    [s \in TurnState |->
        IF s.item /\ s.p > 0 /\ s.p <= e.berry
        THEN [s EXCEPT !.p = LowerOf(MaxHp, s.p + e.heal), !.item = FALSE]
        ELSE s]

PlayerMove(e, ch) ==
    [s \in TurnState |->
        LET dmg == Damage(e.mv, PinchBoost(e, s.p), ch.cO)
        IN  IF s.p = 0 \/ s.o = 0 THEN s
            ELSE [s EXCEPT !.o = HpAfter(s.o, dmg), !.lastO = LastDamage(s.lastO, s.o, dmg),
                           !.usedO = e.mv.kind = "normal"]]
AiMove(e, ch) ==
    [s \in TurnState |->
        LET m == e.ai[ch.slot]
            dmg == Damage(m, 0, ch.cP)
        IN  IF s.p = 0 \/ s.o = 0 THEN s
            ELSE CheckBerry(e)[[s EXCEPT !.p = HpAfter(s.p, dmg),
                                         !.lastP = LastDamage(s.lastP, s.p, dmg),
                                         !.usedP = m.kind = "normal"]]]

\* cpp_apply_residuals: per-turn fields of the living are reset, then the
\* residual is applied and a berry may be eaten.
Residuals(e) ==
    [s \in TurnState |->
        LET lastO == IF s.o = 0 THEN s.lastO ELSE 0
        IN  IF s.p = 0 THEN [s EXCEPT !.lastO = lastO]
            ELSE CheckBerry(e)[[s EXCEPT !.lastO = lastO, !.lastP = 0,
                                  !.p = LowerOf(MaxHp, UpperOf(0, s.p + e.resid))]]]

RunTurn(e, p, o, ch) ==
    LET s == [p |-> p, o |-> o, item |-> e.berry > 0, lastP |-> 0, lastO |-> 0,
              usedP |-> FALSE, usedO |-> FALSE]
    IN  Residuals(e)[IF e.playerFirst THEN AiMove(e, ch)[PlayerMove(e, ch)[s]]
                                      ELSE PlayerMove(e, ch)[AiMove(e, ch)[s]]]

\* mask_hp: the context of a child.
CtxOf(s) == [item |-> s.item, lastP |-> s.lastP, lastO |-> s.lastO,
             faintP |-> s.p = 0, faintO |-> s.o = 0]

\* TransitionOracle::step at (p, o): the paths of its leaves, a draw that was
\* never asked for left out.
Paths(e, p, o) ==
    LET Picks == UNION {[slot : {k}, cO : Draws(e.mv), cP : Draws(e.ai[k])] :
                            k \in Support(e, p, o)}
        Asked(ch, s) == [slot |-> ch.slot, cO |-> IF s.usedO THEN ch.cO ELSE NoDraw,
                         cP |-> IF s.usedP THEN ch.cP ELSE NoDraw]
    IN  {Asked(ch, RunTurn(e, p, o, ch)) : ch \in Picks}

\* replay_path: it throws when the replay asks for other draws than the path.
Diverges(path, s) == s.usedO # (path.cO # NoDraw) \/ s.usedP # (path.cP # NoDraw)

TookCrit(path) == \E c \in {path.cO, path.cP} : c # NoDraw /\ c[1]

-----------------------------------------------------------------------------
(* Damage tables, dominance and the pool of HP changes.                     *)

Values(s) == {s[r] : r \in 1..Len(s)}

\* damage_table at a corner: distinct damages; zeros for what bypasses it.
DamageTable(m, boost) ==
    IF m.kind = "normal"
    THEN [non |-> {v + boost : v \in Values(m.non)},
          crit |-> {v + boost : v \in Values(m.crit)}]
    ELSE [non |-> {0}, crit |-> {0}]
Vacuous(t) == t.non = {} \/ t.crit = {} \/ t.non \cup t.crit = {0}
WeakCritDominance(t) == Vacuous(t) \/ \A c \in t.crit, n \in t.non : c >= n
StrictCritDominance(t) == Vacuous(t) \/ \A c \in t.crit, n \in t.non : c > n

\* effective_damage_table: a supported fixed-damage move gets its value.
EffectiveValues(m, boost) ==
    IF m.kind = "fixed" THEN {m.flat}
    ELSE LET t == DamageTable(m, boost) IN t.non \cup t.crit

\* push_attack_pool: every integer between the least and the largest sum,
\* with both signs.
AttackPool(vals) ==
    UNION {{d, -d} : d \in {n \in 0..Max(vals) : n >= Min(vals)}}
ResidualPool(e) ==
    {0} \cup (IF e.listed THEN {e.resid, -e.resid} ELSE {})
        \cup (IF e.berry > 0 THEN {e.heal, -e.heal} ELSE {})

DerivedSplitPoints(bps, deltas, iv) ==
    {x \in {b + d : b \in bps, d \in deltas} : iv.lo < x /\ x < iv.hi}

\* Overkill: every HP that one attack may exhaust is split off on its own.
KillZone(maxDmg, iv) == UpperOf(1, iv.lo)..LowerOf(maxDmg, iv.hi)

\* normalize_sp and split_axis: the points within [lo, hi), and a cut behind
\* each of them.
SplitAxis(iv, pts) ==
    LET P == pts \cap (iv.lo..(iv.hi - 1))
    IN  {g \in [lo : {iv.lo} \cup {x + 1 : x \in P}, hi : iv.lo..iv.hi] :
            /\ g.lo <= g.hi
            /\ g.hi = iv.hi \/ g.hi \in P
            /\ \A x \in P : ~(g.lo <= x /\ x < g.hi)}

\* Mutant: the gap above the last breakpoint is emitted even when it is empty.
SplitAtBreakpoints_NoCursorCheck(iv, bps) ==
    LET T == bps \cap (iv.lo..iv.hi)
    IN  {[lo |-> b, hi |-> b] : b \in T}
        \cup {g \in [lo : {iv.lo} \cup {b + 1 : b \in T}, hi : iv.lo..iv.hi] :
                /\ g.hi = iv.hi \/ g.hi + 1 \in T
                /\ \A b \in T : ~(g.lo <= b /\ b <= g.hi)}

\* split_at_breakpoints: a breakpoint is a piece of its own, and so is every
\* gap between breakpoints that is not empty.
SplitAtBreakpoints(iv, bps) ==
    LET T == bps \cap (iv.lo..iv.hi)
    IN  {[lo |-> b, hi |-> b] : b \in T}
        \cup {g \in [lo : {iv.lo} \cup {b + 1 : b \in T}, hi : iv.lo..iv.hi] :
                /\ g.lo <= g.hi
                /\ g.hi = iv.hi \/ g.hi + 1 \in T
                /\ \A b \in T : ~(g.lo <= b /\ b <= g.hi)}

-----------------------------------------------------------------------------
VARIABLES
    e,          \* the matchup
    A,          \* the bucket that is expanded
    pc,         \* control point of expand()
    pieces,     \* sub-rectangles still to be stepped
    general,    \* general path: crit provenance kept apart in the merge
    raw,        \* raw_children after the exact dedupe, with crit provenance
    entries,    \* the sorted children that merge_pass works on
    result      \* "none", "children", "conceded" or the ExpandError stage

vars == <<e, A, pc, pieces, general, raw, entries, result>>

Child == [b : Bucket, slot : Slot, crit : BOOLEAN]

\* No bucket holds a breakpoint next to another HP value: the rule that the
\* singleton segments of the partition keep.
Apart(iv, bps) == \A b \in bps : iv.lo <= b /\ b <= iv.hi => iv.lo = iv.hi
ApartBucket(b, env) == Apart(b.pl, PlayerBps(env)) /\ Apart(b.op, OppBps(env))

RootCtx(env) == [item |-> env.berry > 0, lastP |-> 0, lastO |-> 0,
                 faintP |-> FALSE, faintO |-> FALSE]

\* A bucket that the search holds: the point of the root, or a child of an
\* earlier expansion in whatever support it was given.
Init ==
    /\ e \in Env
    /\ A \in {b \in {[d |-> RootCtx(e), pl |-> r.pl, op |-> r.op, fp |-> f] :
                        r \in Rect, f \in {{1}, {1, 2}}} : ApartBucket(b, e)}
    /\ pc = "gate"
    /\ pieces = {}
    /\ general = FALSE
    /\ raw = {}
    /\ entries = <<>>
    /\ result = "none"

Finish(res) ==
    /\ pc' = "done"
    /\ result' = res
    /\ UNCHANGED <<e, A, pieces, general, raw, entries>>

-----------------------------------------------------------------------------
(* Steps 1 to 3: support gate, concede seam, damage-table screen.           *)

SupportFlips(pl, op) ==
    \/ Support(e, pl.lo, op.lo) # Support(e, pl.hi, op.hi)
    \/ Support(e, pl.lo, op.lo) # A.fp

AiMoves == {e.ai[k] : k \in Support(e, A.pl.lo, A.op.lo)}
PlayerTables == {DamageTable(e.mv, PinchBoost(e, p)) : p \in {A.pl.lo, A.pl.hi}}
Tables == PlayerTables \cup {DamageTable(m, 0) : m \in AiMoves}

\* The stage of the first failing gate before the concede seam, and after it:
\* the player's move first, then whichever AI move comes first.
EarlyFault ==
    IF A.pl.lo < 1 \/ A.op.lo < 1 THEN "Precondition"
    ELSE IF SupportFlips(A.pl, A.op) THEN "SupportFlip"
    ELSE "none"
PlayerScreen ==
    IF e.mv.kind = "ohko" \/ Cardinality(PlayerTables) > 1 THEN {"UnsupportedMove"}
    ELSE IF \E t \in PlayerTables : ~WeakCritDominance(t) THEN {"WeakDominanceViolation"}
    ELSE {}
AiScreen(m) ==
    IF m.kind = "ohko" THEN "UnsupportedMove"
    ELSE IF ~WeakCritDominance(DamageTable(m, 0)) THEN "WeakDominanceViolation"
    ELSE "none"
ScreenFaults ==
    IF PlayerScreen # {} THEN PlayerScreen
    ELSE {AiScreen(m) : m \in AiMoves} \ {"none"}

GateThrows ==
    /\ pc = "gate"
    /\ EarlyFault # "none"
    /\ Finish(EarlyFault)

Concede ==
    /\ pc = "gate"
    /\ EarlyFault = "none"
    /\ e.concede
    /\ Finish("conceded")

ScreenThrows ==
    /\ pc = "gate"
    /\ EarlyFault = "none"
    /\ ~e.concede
    /\ \E st \in ScreenFaults : Finish(st)

(* Step 4: derived input splits.                                            *)

PlayerDeltas ==
    ResidualPool(e) \cup UNION {AttackPool(EffectiveValues(m, 0)) : m \in AiMoves}
OppDeltas == {0} \cup AttackPool(EffectiveValues(e.mv, PinchBoost(e, A.pl.lo)))
PlayerMaxDmg == Max(UNION {EffectiveValues(m, 0) : m \in AiMoves})
OppMaxDmg == Max(EffectiveValues(e.mv, PinchBoost(e, A.pl.lo)))

PlayerPieces ==
    SplitAxis(A.pl, DerivedSplitPoints(PlayerBps(e), PlayerDeltas, A.pl)
                      \cup KillZone(PlayerMaxDmg, A.pl))
OppPieces ==
    SplitAxis(A.op, DerivedSplitPoints(OppBps(e), OppDeltas, A.op)
                      \cup KillZone(OppMaxDmg, A.op))

SplitInput ==
    /\ pc = "gate"
    /\ EarlyFault = "none"
    /\ ~e.concede
    /\ ScreenFaults = {}
    /\ general' = \E t \in Tables : ~StrictCritDominance(t)
    /\ pieces' = [pl : PlayerPieces, op : OppPieces]
    /\ pc' = "step"
    /\ UNCHANGED <<e, A, raw, entries, result>>

-----------------------------------------------------------------------------
(* Steps 5 to 8: one sub-rectangle, stepped at LO and replayed at HI.       *)

\* run_leaves: the paths of LO with both endpoint children.
Leaves(r) ==
    {[path |-> path, lo |-> RunTurn(e, r.pl.lo, r.op.lo, path),
      hi |-> RunTurn(e, r.pl.hi, r.op.hi, path)] : path \in Paths(e, r.pl.lo, r.op.lo)}

\* shift_gate: the image keeps its width or both ends are pinned at a clamp.
ShiftOk(iv, lo, hi) ==
    hi - lo = iv.hi - iv.lo \/ (lo = 0 /\ hi = 0) \/ (lo = MaxHp /\ hi = MaxHp)

\* Mutant: the endpoint contexts are not compared.
LeafFault_NoIntern(r, leaf) ==
    IF ~ShiftOk(r.pl, leaf.lo.p, leaf.hi.p) \/ ~ShiftOk(r.op, leaf.lo.o, leaf.hi.o)
    THEN "ShiftViolation" ELSE "none"
LeafFault(r, leaf) ==
    IF ~ShiftOk(r.pl, leaf.lo.p, leaf.hi.p) \/ ~ShiftOk(r.op, leaf.lo.o, leaf.hi.o)
    THEN "ShiftViolation"
    ELSE IF CtxOf(leaf.lo) # CtxOf(leaf.hi) THEN "InternMismatch" ELSE "none"

\* The stages a piece may throw at: the gates on the way to the leaves first,
\* then whichever failing leaf comes first.
PieceFaults(r, leaves) ==
    IF SupportFlips(r.pl, r.op) THEN {"SupportFlip"}
    ELSE IF \E leaf \in leaves : Diverges(leaf.path, leaf.hi) THEN {"ReplayDivergence"}
    ELSE {LeafFault(r, leaf) : leaf \in leaves} \ {"none"}

ImageInterval(lo, hi) == [lo |-> LowerOf(lo, hi), hi |-> UpperOf(lo, hi)]

LeafChildren(leaf) ==
    {[b |-> [d |-> CtxOf(leaf.lo), pl |-> pl, op |-> op,
             fp |-> Support(e, leaf.lo.p, leaf.lo.o)],
      slot |-> leaf.path.slot, crit |-> TookCrit(leaf.path)] :
        pl \in SplitAtBreakpoints(ImageInterval(leaf.lo.p, leaf.hi.p), PlayerBps(e)),
        op \in SplitAtBreakpoints(ImageInterval(leaf.lo.o, leaf.hi.o), OppBps(e))}

\* The double loop over the pieces of both axes, in ascending order.
FirstPiece ==
    {r \in pieces : \A q \in pieces :
        r.pl.lo < q.pl.lo \/ (r.pl.lo = q.pl.lo /\ r.op.lo <= q.op.lo)}

PieceThrows ==
    /\ pc = "step"
    /\ \E r \in FirstPiece : \E st \in PieceFaults(r, Leaves(r)) : Finish(st)

ExpandPiece ==
    /\ pc = "step"
    /\ \E r \in FirstPiece :
        /\ PieceFaults(r, Leaves(r)) = {}
        /\ raw' = raw \cup UNION {LeafChildren(leaf) : leaf \in Leaves(r)}
        /\ pieces' = pieces \ {r}
    /\ UNCHANGED <<e, A, pc, general, entries, result>>

-----------------------------------------------------------------------------
(* Step 9: merge_pass.                                                      *)

\* The sort order: d, AI slot, crit provenance on the general path, then the
\* low ends.  Ids are handed out in the order of interning; that order is
\* arbitrary here, one number per context.
CtxRank(c) ==
    LET Bit(x) == IF x THEN 1 ELSE 0
        N == MaxHp + 1
    IN  (((Bit(c.item) * N + c.lastP) * N + c.lastO) * 2 + Bit(c.faintP)) * 2
          + Bit(c.faintO)
SortKey(c) ==
    LET N == MaxHp + 1
        crit == IF general /\ c.crit THEN 1 ELSE 0
    IN  (((CtxRank(c.b.d) * 3 + c.slot) * 2 + crit) * N + c.b.pl.lo) * N + c.b.op.lo

\* Equal keys may come in any order: inserting before or after them gives two.
InsertAt(c, s, i) == SubSeq(s, 1, i) \o <<c>> \o SubSeq(s, i + 1, Len(s))
InsertBefore(c, acc) ==
    CHOOSE t \in {InsertAt(c, s, Cardinality({j \in 1..Len(s) : SortKey(s[j]) < SortKey(c)})) :
                    s \in {acc}} : TRUE
InsertAfter(c, acc) ==
    CHOOSE t \in {InsertAt(c, s, Cardinality({j \in 1..Len(s) : SortKey(s[j]) <= SortKey(c)})) :
                    s \in {acc}} : TRUE
Sortings(S) == {FoldSet(InsertBefore, <<>>, S), FoldSet(InsertAfter, <<>>, S)}

\* What std::sort promises of its result.
SortOf(s, S) ==
    /\ s \in Seq(S)
    /\ \A c \in S : \E i \in 1..Len(s) : s[i] = c
    /\ \A i \in 1..(Len(s) - 1) : SortKey(s[i]) <= SortKey(s[i + 1])

SortChildren ==
    /\ pc = "step"
    /\ pieces = {}
    /\ \E s \in Sortings(raw) : SortOf(s, raw) /\ entries' = s
    /\ pc' = "merge"
    /\ UNCHANGED <<e, A, pieces, general, raw, result>>

\* Mutant: only the interior of the union is looked at.
MergeVetoAxis_Interior(a, b, bps) ==
    HasInteriorBreakpoint(UnionInterval(a, b), bps)
MergeVetoAxis(a, b, bps) ==
    \/ HasInteriorBreakpoint(UnionInterval(a, b), bps)
    \/ /\ a # b
       /\ \E iv \in {a, b} : iv.lo = iv.hi /\ iv.lo \in bps

Mergeable(x, y) ==
    /\ x.b.d = y.b.d
    /\ x.slot = y.slot
    /\ general => x.crit = y.crit
    /\ ~MergeVetoAxis(x.b.pl, y.b.pl, PlayerBps(e))
    /\ ~MergeVetoAxis(x.b.op, y.b.op, OppBps(e))
    /\ CanMerge(x.b, y.b)

MergeAt(s, i) ==
    [j \in 1..(Len(s) - 1) |->
        IF j < i THEN s[j]
        ELSE IF j = i THEN [s[i] EXCEPT !.b = Merged(s[i].b, s[i + 1].b)]
        ELSE s[j + 1]]

MergeSite(i) == i < Len(entries) /\ Mergeable(entries[i], entries[i + 1])

\* One round of the fixed-point loop: the first pair that merges.
MergeChildren ==
    /\ pc = "merge"
    /\ \E i \in 1..Len(entries) :
        /\ MergeSite(i)
        /\ \A j \in 1..(i - 1) : ~MergeSite(j)
        /\ entries' = MergeAt(entries, i)
    /\ UNCHANGED <<e, A, pc, pieces, general, raw, result>>

MergeDone ==
    /\ pc = "merge"
    /\ \A i \in 1..Len(entries) : ~MergeSite(i)
    /\ Finish("children")

\* The caller has its result; nothing else ends an expansion.
Returned == pc = "done" /\ UNCHANGED vars

Next ==
    \/ GateThrows
    \/ Concede
    \/ ScreenThrows
    \/ SplitInput
    \/ PieceThrows
    \/ ExpandPiece
    \/ SortChildren
    \/ MergeChildren
    \/ MergeDone
    \/ Returned

Spec == Init /\ [][Next]_vars

-----------------------------------------------------------------------------
TypeOK ==
    /\ e \in Env
    /\ A \in Bucket
    /\ pc \in {"gate", "step", "merge", "done"}
    /\ pieces \subseteq [pl : Interval, op : Interval]
    /\ general \in BOOLEAN
    /\ raw \subseteq Child
    /\ entries \in Seq(Child)

\* The concrete children that one child bucket stands for.
PointsOf(c) ==
    {<<c.slot, c.b.d, p, o>> : p \in c.b.pl.lo..c.b.pl.hi, o \in c.b.op.lo..c.b.op.hi}

\* The children of every state of the bucket, each stepped on its own.
ConcreteChildren ==
    UNION {{<<leaf.path.slot, CtxOf(leaf.lo), leaf.lo.p, leaf.lo.o>> :
                leaf \in Leaves([pl |-> [lo |-> p, hi |-> p], op |-> [lo |-> o, hi |-> o]])} :
              p \in A.pl.lo..A.pl.hi, o \in A.op.lo..A.op.hi}

\* An expansion that no gate stopped has exactly the children of the states
\* in the bucket: stepping LO and replaying HI misses no child that a state
\* between them has, and invents none, even when the residual's delta is not
\* among the split candidates.
ImageExact ==
    result = "children" =>
        UNION {PointsOf(entries[i]) : i \in 1..Len(entries)} = ConcreteChildren

\* Every child that is handed on keeps breakpoints apart, although merge_pass
\* builds its buckets with the unchecked constructor: the next expansion
\* relies on it, since it only looks at the two ends of an interval.
ChildrenApart ==
    /\ \A c \in raw : ApartBucket(c.b, e)
    /\ \A i \in 1..Len(entries) : ApartBucket(entries[i].b, e)

\* A merge never changes which concrete children the entries stand for.
MergeKeepsPoints ==
    [][pc = "merge" =>
        UNION {PointsOf(entries'[i]) : i \in 1..Len(entries')}
          = UNION {PointsOf(entries[i]) : i \in 1..Len(entries)}]_vars
=============================================================================
