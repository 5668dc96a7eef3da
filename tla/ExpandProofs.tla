----------------------------- MODULE ExpandProofs -----------------------------
(***************************************************************************)
(* Theorems about Expand for every max HP, matchup and rectangle: type     *)
(* correctness, breakpoints stay apart, merges keep the concrete children. *)
(***************************************************************************)
EXTENDS Expand, TLAPS

-----------------------------------------------------------------------------
(* The turn stays within its state space.                                   *)

\* Facts of the constants in the form the provers use.
LEMMA ConstantFacts ==
    /\ MaxHp \in Nat \ {0}
    /\ \A env \in Env : env \in EnvType
    /\ \A r \in Rect : r.pl \in Interval /\ r.op \in Interval
  BY ExpandAssumption

\* Every entry of a state is an HP value, a flag or a remembered damage.
LEMMA TurnStateFacts ==
    ASSUME NEW s \in TurnState
    PROVE  /\ s.p \in 0..MaxHp /\ s.o \in 0..MaxHp
           /\ s.lastP \in 0..MaxHp /\ s.lastO \in 0..MaxHp
           /\ s.item \in BOOLEAN /\ s.usedP \in BOOLEAN /\ s.usedO \in BOOLEAN
  BY DEF TurnState

\* Damage is clamped at 0 and remembered only as far as there was HP.
LEMMA HitFacts ==
    ASSUME NEW hp \in 0..MaxHp, NEW last \in 0..MaxHp, NEW dmg \in Nat
    PROVE  /\ HpAfter(hp, dmg) \in 0..MaxHp
           /\ LastDamage(last, hp, dmg) \in 0..MaxHp
  BY ConstantFacts DEF HpAfter, LastDamage, UpperOf, LowerOf

\* Eating the berry leads to a state of the turn.
LEMMA CheckBerryType ==
    ASSUME NEW env \in EnvType, NEW s \in TurnState
    PROVE  CheckBerry(env)[s] \in TurnState
  <1>1. env.heal \in Nat
    BY DEF EnvType
  <1>2. LowerOf(MaxHp, s.p + env.heal) \in 0..MaxHp
    BY <1>1, TurnStateFacts, ConstantFacts DEF LowerOf
  <1>3. [s EXCEPT !.p = LowerOf(MaxHp, s.p + env.heal), !.item = FALSE] \in TurnState
    BY <1>2 DEF TurnState
  <1> QED
    BY <1>3 DEF CheckBerry

\* A choice of draws that a move can be given: one of its own or none.
ChoiceOk(env, ch) ==
    /\ ch.slot \in Slot
    /\ ch.cO = NoDraw \/ ch.cO \in Draws(env.mv)
    /\ ch.cP = NoDraw \/ ch.cP \in Draws(env.ai[ch.slot])

\* The damage of a draw is a natural number.
LEMMA DamageType ==
    ASSUME NEW m \in Move, NEW boost \in Nat, NEW c, c = NoDraw \/ c \in Draws(m)
    PROVE  Damage(m, boost, c) \in Nat
  <1>1. CASE c = NoDraw
    BY <1>1 DEF Damage, Move
  <1>2. CASE c # NoDraw /\ m.kind = "normal"
    <2>1. /\ m.non \in Seq(Nat) /\ m.crit \in Seq(Nat)
      BY DEF Move
    <2>2. \/ \E r \in 1..Len(m.non) : c = <<FALSE, r>>
          \/ \E r \in 1..Len(m.crit) : c = <<TRUE, r>>
      BY <1>2 DEF Draws, Rolls
    <2>3. CASE \E r \in 1..Len(m.non) : c = <<FALSE, r>>
      <3>1. PICK r \in 1..Len(m.non) : c = <<FALSE, r>>
        BY <2>3
      <3>2. m.non[r] \in Nat /\ c[1] = FALSE /\ c[2] = r
        BY <2>1, <3>1
      <3> QED
        BY <3>2, <1>2 DEF Damage
    <2>4. CASE \E r \in 1..Len(m.crit) : c = <<TRUE, r>>
      <3>1. PICK r \in 1..Len(m.crit) : c = <<TRUE, r>>
        BY <2>4
      <3>2. m.crit[r] \in Nat /\ c[1] = TRUE /\ c[2] = r
        BY <2>1, <3>1
      <3> QED
        BY <3>2, <1>2 DEF Damage
    <2> QED
      BY <2>2, <2>3, <2>4
  <1> QED
    BY <1>1, <1>2 DEF Draws

LEMMA PlayerMoveType ==
    ASSUME NEW env \in EnvType, NEW ch, ChoiceOk(env, ch), NEW s \in TurnState
    PROVE  PlayerMove(env, ch)[s] \in TurnState
  <1>1. env.mv \in Move
    BY DEF EnvType
  <1>2. PinchBoost(env, s.p) \in Nat
    BY DEF PinchBoost
  <1>3. PICK dmg \in Nat : dmg = Damage(env.mv, PinchBoost(env, s.p), ch.cO)
    BY <1>1, <1>2, DamageType DEF ChoiceOk
  <1>4. /\ HpAfter(s.o, dmg) \in 0..MaxHp
        /\ LastDamage(s.lastO, s.o, dmg) \in 0..MaxHp
    BY HitFacts, TurnStateFacts
  <1>5. [s EXCEPT !.o = HpAfter(s.o, dmg), !.lastO = LastDamage(s.lastO, s.o, dmg),
                  !.usedO = env.mv.kind = "normal"] \in TurnState
    BY <1>4 DEF TurnState
  <1> QED
    BY <1>3, <1>5 DEF PlayerMove

LEMMA AiMoveType ==
    ASSUME NEW env \in EnvType, NEW ch, ChoiceOk(env, ch), NEW s \in TurnState
    PROVE  AiMove(env, ch)[s] \in TurnState
  <1>1. env.ai[ch.slot] \in Move
    BY DEF EnvType, ChoiceOk
  <1>2. PICK m \in Move : m = env.ai[ch.slot]
    BY <1>1
  <1>3. PICK dmg \in Nat : dmg = Damage(m, 0, ch.cP)
    BY <1>2, DamageType DEF ChoiceOk
  <1>4. /\ HpAfter(s.p, dmg) \in 0..MaxHp
        /\ LastDamage(s.lastP, s.p, dmg) \in 0..MaxHp
    BY HitFacts, TurnStateFacts
  <1>5. [s EXCEPT !.p = HpAfter(s.p, dmg), !.lastP = LastDamage(s.lastP, s.p, dmg),
                  !.usedP = m.kind = "normal"] \in TurnState
    BY <1>4 DEF TurnState
  <1>6. CheckBerry(env)[[s EXCEPT !.p = HpAfter(s.p, dmg),
                                  !.lastP = LastDamage(s.lastP, s.p, dmg),
                                  !.usedP = m.kind = "normal"]] \in TurnState
    BY <1>5, CheckBerryType
  <1> QED
    BY <1>2, <1>3, <1>6 DEF AiMove

LEMMA ResidualsType ==
    ASSUME NEW env \in EnvType, NEW s \in TurnState
    PROVE  Residuals(env)[s] \in TurnState
  <1> DEFINE lastO == IF s.o = 0 THEN s.lastO ELSE 0
             hp == LowerOf(MaxHp, UpperOf(0, s.p + env.resid))
  <1>0. env.resid \in Int
    BY DEF EnvType
  <1>1. lastO \in 0..MaxHp /\ hp \in 0..MaxHp
    BY <1>0, TurnStateFacts, ConstantFacts DEF LowerOf, UpperOf
  <1> HIDE DEF lastO, hp
  <1>2. [s EXCEPT !.lastO = lastO] \in TurnState
    BY <1>1 DEF TurnState
  <1>5. 0 \in 0..MaxHp
    BY ConstantFacts
  <1>3. [s EXCEPT !.lastO = lastO, !.lastP = 0, !.p = hp] \in TurnState
    BY <1>1, <1>5 DEF TurnState
  <1>4. CheckBerry(env)[[s EXCEPT !.lastO = lastO, !.lastP = 0, !.p = hp]] \in TurnState
    BY <1>3, CheckBerryType
  <1> QED
    BY <1>2, <1>4 DEF Residuals, lastO, hp

\* The whole turn, from any HP values and any possible draws.
LEMMA RunTurnType ==
    ASSUME NEW env \in EnvType, NEW p \in 0..MaxHp, NEW o \in 0..MaxHp,
           NEW ch, ChoiceOk(env, ch)
    PROVE  RunTurn(env, p, o, ch) \in TurnState
  <1> DEFINE s == [p |-> p, o |-> o, item |-> env.berry > 0, lastP |-> 0, lastO |-> 0,
                   usedP |-> FALSE, usedO |-> FALSE]
  <1>1. s \in TurnState
    BY ConstantFacts DEF TurnState
  <1> HIDE DEF s
  <1>2. AiMove(env, ch)[PlayerMove(env, ch)[s]] \in TurnState
    BY <1>1, PlayerMoveType, AiMoveType
  <1>3. PlayerMove(env, ch)[AiMove(env, ch)[s]] \in TurnState
    BY <1>1, PlayerMoveType, AiMoveType
  <1>4. /\ Residuals(env)[AiMove(env, ch)[PlayerMove(env, ch)[s]]] \in TurnState
        /\ Residuals(env)[PlayerMove(env, ch)[AiMove(env, ch)[s]]] \in TurnState
    BY <1>2, <1>3, ResidualsType
  <1> QED
    BY <1>4 DEF RunTurn, s

-----------------------------------------------------------------------------
(* Pieces are intervals, and those of an image keep breakpoints apart.      *)

LEMMA IntervalFacts ==
    ASSUME NEW iv \in Interval
    PROVE  iv.lo \in 0..MaxHp /\ iv.hi \in 0..MaxHp /\ iv.lo <= iv.hi
  BY DEF Interval

LEMMA IntervalIntro ==
    ASSUME NEW lo \in 0..MaxHp, NEW hi \in 0..MaxHp, lo <= hi
    PROVE  [lo |-> lo, hi |-> hi] \in Interval
  BY DEF Interval

LEMMA SplitAxisType ==
    ASSUME NEW iv \in Interval, NEW pts
    PROVE  SplitAxis(iv, pts) \subseteq Interval
  <1> SUFFICES ASSUME NEW g \in SplitAxis(iv, pts)
               PROVE  g \in Interval
    OBVIOUS
  <1>1. iv.lo \in 0..MaxHp /\ iv.hi \in 0..MaxHp /\ iv.lo <= iv.hi
    BY IntervalFacts
  <1> DEFINE P == pts \cap (iv.lo..(iv.hi - 1))
  <1>2. /\ g \in [lo : {iv.lo} \cup {x + 1 : x \in P}, hi : iv.lo..iv.hi]
        /\ g.lo <= g.hi
    BY DEF SplitAxis
  <1>4. g.hi \in iv.lo..iv.hi /\ g = [lo |-> g.lo, hi |-> g.hi]
    BY <1>2
  <1>5. g.lo \in {iv.lo} \cup {x + 1 : x \in P}
    BY <1>2
  <1>6. g.lo \in Int /\ iv.lo <= g.lo
    BY <1>1, <1>5
  <1>3. g.hi \in 0..MaxHp /\ g.lo \in 0..MaxHp /\ g = [lo |-> g.lo, hi |-> g.hi]
    <2>1. MaxHp \in Nat /\ g.lo <= g.hi
      BY <1>2, ConstantFacts
    <2> QED
      BY <1>1, <1>4, <1>6, <2>1
  <1> QED
    BY <1>2, <1>3, IntervalIntro

LEMMA SplitAtBreakpointsFacts ==
    ASSUME NEW iv \in Interval, NEW bps, bps \subseteq 0..MaxHp,
           NEW g \in SplitAtBreakpoints(iv, bps)
    PROVE  g \in Interval /\ Apart(g, bps)
  <1> DEFINE T == bps \cap (iv.lo..iv.hi)
  <1>1. iv.lo \in 0..MaxHp /\ iv.hi \in 0..MaxHp /\ iv.lo <= iv.hi
    BY IntervalFacts
  <1>2. \/ \E b \in T : g = [lo |-> b, hi |-> b]
        \/ /\ g \in [lo : {iv.lo} \cup {b + 1 : b \in T}, hi : iv.lo..iv.hi]
           /\ g.lo <= g.hi
           /\ \A b \in T : ~(g.lo <= b /\ b <= g.hi)
    BY DEF SplitAtBreakpoints
  <1>3. CASE \E b \in T : g = [lo |-> b, hi |-> b]
    <2>1. PICK b \in T : g = [lo |-> b, hi |-> b]
      BY <1>3
    <2>2. b \in 0..MaxHp /\ b <= b /\ g.lo = g.hi
      BY <2>1
    <2> QED
      BY <2>1, <2>2, IntervalIntro DEF Apart
  <1>4. CASE /\ g \in [lo : {iv.lo} \cup {b + 1 : b \in T}, hi : iv.lo..iv.hi]
             /\ g.lo <= g.hi
             /\ \A b \in T : ~(g.lo <= b /\ b <= g.hi)
    <2>4. g.hi \in iv.lo..iv.hi /\ g = [lo |-> g.lo, hi |-> g.hi]
      BY <1>4
    <2>5. g.lo \in {iv.lo} \cup {b + 1 : b \in T}
      BY <1>4
    <2>6. g.lo \in Int /\ iv.lo <= g.lo
      BY <1>1, <2>5
    <2>1. /\ g.lo \in 0..MaxHp /\ g.hi \in 0..MaxHp
          /\ iv.lo <= g.lo /\ g.hi <= iv.hi
      <3>1. MaxHp \in Nat /\ g.lo <= g.hi
        BY <1>4, ConstantFacts
      <3> QED
        BY <1>1, <2>4, <2>6, <3>1
    <2>2. g \in Interval
      BY <1>4, <2>1, <2>4, IntervalIntro
    <2>3. \A b \in bps : ~(g.lo <= b /\ b <= g.hi)
      <3> SUFFICES ASSUME NEW b \in bps, g.lo <= b, b <= g.hi
                   PROVE  FALSE
        OBVIOUS
      <3>1. b \in Int
        OBVIOUS
      <3>2. b \in T
        BY <1>1, <2>1, <3>1
      <3> QED
        BY <3>2, <1>4
    <2> QED
      BY <2>2, <2>3 DEF Apart
  <1> QED
    BY <1>2, <1>3, <1>4

LEMMA ImageIntervalType ==
    ASSUME NEW lo \in 0..MaxHp, NEW hi \in 0..MaxHp
    PROVE  ImageInterval(lo, hi) \in Interval
  BY IntervalIntro DEF ImageInterval, LowerOf, UpperOf

LEMMA BreakpointsInRange ==
    ASSUME NEW env
    PROVE  PlayerBps(env) \subseteq 0..MaxHp /\ OppBps(env) \subseteq 0..MaxHp
  BY ConstantFacts DEF PlayerBps, OppBps

-----------------------------------------------------------------------------
(* What one merge does.                                                     *)

LEMMA UnionIntervalType ==
    ASSUME NEW a \in Interval, NEW b \in Interval
    PROVE  UnionInterval(a, b) \in Interval
  <1>1. /\ a.lo \in 0..MaxHp /\ a.hi \in 0..MaxHp /\ a.lo <= a.hi
        /\ b.lo \in 0..MaxHp /\ b.hi \in 0..MaxHp /\ b.lo <= b.hi
    BY IntervalFacts
  <1>2. /\ LowerOf(a.lo, b.lo) \in 0..MaxHp /\ UpperOf(a.hi, b.hi) \in 0..MaxHp
        /\ LowerOf(a.lo, b.lo) <= UpperOf(a.hi, b.hi)
    BY <1>1 DEF LowerOf, UpperOf
  <1> QED
    BY <1>2, IntervalIntro DEF UnionInterval

\* A merge that the veto lets pass fuses no breakpoint with its neighbour: a
\* breakpoint at an end of the union was a singleton of its own before.
LEMMA UnionApart ==
    ASSUME NEW a \in Interval, NEW b \in Interval, NEW bps, bps \subseteq 0..MaxHp,
           Apart(a, bps), Apart(b, bps), ~MergeVetoAxis(a, b, bps)
    PROVE  Apart(UnionInterval(a, b), bps)
  <1> DEFINE u == UnionInterval(a, b)
  <1> SUFFICES ASSUME NEW x \in bps, u.lo <= x, x <= u.hi
               PROVE  u.lo = u.hi
    BY DEF Apart
  <1>1. /\ a.lo \in 0..MaxHp /\ a.hi \in 0..MaxHp /\ a.lo <= a.hi
        /\ b.lo \in 0..MaxHp /\ b.hi \in 0..MaxHp /\ b.lo <= b.hi
        /\ x \in 0..MaxHp
    BY IntervalFacts
  <1>2. u.lo = LowerOf(a.lo, b.lo) /\ u.hi = UpperOf(a.hi, b.hi)
    BY DEF UnionInterval
  <1>3. x = u.lo \/ x = u.hi
    BY <1>1, <1>2 DEF MergeVetoAxis, HasInteriorBreakpoint, LowerOf, UpperOf
  <1>4. x \in {a.lo, a.hi, b.lo, b.hi}
    BY <1>1, <1>2, <1>3 DEF LowerOf, UpperOf
  <1>5. CASE x \in {a.lo, a.hi}
    <2>1. a.lo = a.hi /\ a.lo = x
      BY <1>1, <1>5 DEF Apart
    <2>2. a = b
      BY <2>1 DEF MergeVetoAxis
    <2> QED
      BY <1>1, <1>2, <2>1, <2>2 DEF LowerOf, UpperOf
  <1>6. CASE x \in {b.lo, b.hi}
    <2>1. b.lo = b.hi /\ b.lo = x
      BY <1>1, <1>6 DEF Apart
    <2>2. a = b
      BY <2>1 DEF MergeVetoAxis
    <2> QED
      BY <1>1, <1>2, <2>1, <2>2 DEF LowerOf, UpperOf
  <1> QED
    BY <1>4, <1>5, <1>6

\* Two intervals that touch leave no HP value out between them.
LEMMA UnionKeepsPoints ==
    ASSUME NEW a \in Interval, NEW b \in Interval,
           a = b \/ AdjacentOrOverlapping(a, b), NEW x
    PROVE  x \in UnionInterval(a, b).lo..UnionInterval(a, b).hi
             <=> (x \in a.lo..a.hi \/ x \in b.lo..b.hi)
  <1>1. /\ a.lo \in 0..MaxHp /\ a.hi \in 0..MaxHp /\ a.lo <= a.hi
        /\ b.lo \in 0..MaxHp /\ b.hi \in 0..MaxHp /\ b.lo <= b.hi
    BY IntervalFacts
  <1> QED
    BY <1>1 DEF UnionInterval, AdjacentOrOverlapping, LowerOf, UpperOf

LEMMA ChildFacts ==
    ASSUME NEW c \in Child
    PROVE  /\ c.b.d \in Ctx /\ c.b.pl \in Interval /\ c.b.op \in Interval
           /\ c.b.fp \in SUBSET Slot /\ c.slot \in Slot /\ c.crit \in BOOLEAN
  BY DEF Child, Bucket

LEMMA MergedFields ==
    ASSUME NEW x \in Child, NEW y \in Child
    PROVE  LET z == [x EXCEPT !.b = Merged(x.b, y.b)]
           IN  /\ z \in Child
               /\ z.slot = x.slot /\ z.b.d = x.b.d
               /\ z.b.pl = UnionInterval(x.b.pl, y.b.pl)
               /\ z.b.op = UnionInterval(x.b.op, y.b.op)
  <1>1. /\ UnionInterval(x.b.pl, y.b.pl) \in Interval
        /\ UnionInterval(x.b.op, y.b.op) \in Interval
    BY ChildFacts, UnionIntervalType
  <1>2. Merged(x.b, y.b) \in Bucket
    BY <1>1, ChildFacts DEF Merged, Bucket
  <1>3. [x EXCEPT !.b = Merged(x.b, y.b)] \in Child
    BY <1>2 DEF Child
  <1>4. /\ [x EXCEPT !.b = Merged(x.b, y.b)].slot = x.slot
        /\ [x EXCEPT !.b = Merged(x.b, y.b)].b = Merged(x.b, y.b)
    BY DEF Child
  <1> QED
    BY <1>3, <1>4 DEF Merged

\* The merged child keeps breakpoints apart.
LEMMA MergedApart ==
    ASSUME NEW x \in Child, NEW y \in Child, Mergeable(x, y),
           ApartBucket(x.b, e), ApartBucket(y.b, e)
    PROVE  ApartBucket([x EXCEPT !.b = Merged(x.b, y.b)].b, e)
  <1>1. /\ x.b.pl \in Interval /\ y.b.pl \in Interval
        /\ x.b.op \in Interval /\ y.b.op \in Interval
    BY ChildFacts
  <1>2. Apart(UnionInterval(x.b.pl, y.b.pl), PlayerBps(e))
    BY <1>1, UnionApart, BreakpointsInRange DEF Mergeable, ApartBucket
  <1>3. Apart(UnionInterval(x.b.op, y.b.op), OppBps(e))
    BY <1>1, UnionApart, BreakpointsInRange DEF Mergeable, ApartBucket
  <1> QED
    BY <1>2, <1>3, MergedFields DEF ApartBucket

\* A rectangle of points split along either side.
Points(k, d, P, O) == {<<k, d, p, o>> : p \in P, o \in O}
LEMMA PointsUnionLeft ==
    ASSUME NEW k, NEW d, NEW P, NEW Q, NEW O
    PROVE  Points(k, d, P \cup Q, O) = Points(k, d, P, O) \cup Points(k, d, Q, O)
  BY DEF Points
LEMMA PointsUnionRight ==
    ASSUME NEW k, NEW d, NEW P, NEW O, NEW Q
    PROVE  Points(k, d, P, O \cup Q) = Points(k, d, P, O) \cup Points(k, d, P, Q)
  BY DEF Points

\* The merged child stands for what the two children stood for.
LEMMA MergedPoints ==
    ASSUME NEW x \in Child, NEW y \in Child, Mergeable(x, y)
    PROVE  PointsOf([x EXCEPT !.b = Merged(x.b, y.b)]) = PointsOf(x) \cup PointsOf(y)
  <1> DEFINE z == [x EXCEPT !.b = Merged(x.b, y.b)]
             zp == UnionInterval(x.b.pl, y.b.pl)
             zo == UnionInterval(x.b.op, y.b.op)
  <1>1. /\ x.b.pl \in Interval /\ y.b.pl \in Interval
        /\ x.b.op \in Interval /\ y.b.op \in Interval
    BY ChildFacts
  <1>2. x.slot = y.slot /\ x.b.d = y.b.d
    BY DEF Mergeable
  <1>3. z.slot = x.slot /\ z.b.d = x.b.d /\ z.b.pl = zp /\ z.b.op = zo
    BY MergedFields
  <1>4. /\ x.b.pl = y.b.pl \/ AdjacentOrOverlapping(x.b.pl, y.b.pl)
        /\ x.b.op = y.b.op \/ AdjacentOrOverlapping(x.b.op, y.b.op)
        /\ x.b.pl = y.b.pl \/ x.b.op = y.b.op
    BY DEF Mergeable, CanMerge
  <1>5. \A p : p \in zp.lo..zp.hi <=> (p \in x.b.pl.lo..x.b.pl.hi \/ p \in y.b.pl.lo..y.b.pl.hi)
    BY <1>1, <1>4, UnionKeepsPoints
  <1>6. \A o : o \in zo.lo..zo.hi <=> (o \in x.b.op.lo..x.b.op.hi \/ o \in y.b.op.lo..y.b.op.hi)
    BY <1>1, <1>4, UnionKeepsPoints
  <1> DEFINE ZP == zp.lo..zp.hi
             ZO == zo.lo..zo.hi
             XP == x.b.pl.lo..x.b.pl.hi
             XO == x.b.op.lo..x.b.op.hi
             YP == y.b.pl.lo..y.b.pl.hi
             YO == y.b.op.lo..y.b.op.hi
  <1>7. ZP = XP \cup YP /\ ZO = XO \cup YO
    BY <1>5, <1>6
  <1>8. /\ PointsOf(z) = Points(x.slot, x.b.d, ZP, ZO)
        /\ PointsOf(x) = Points(x.slot, x.b.d, XP, XO)
        /\ PointsOf(y) = Points(x.slot, x.b.d, YP, YO)
    BY <1>2, <1>3 DEF PointsOf, Points
  <1>9. XP = YP \/ XO = YO
    BY <1>4
  <1> HIDE DEF z, zp, zo, ZP, ZO, XP, XO, YP, YO
  <1>10. ASSUME XP = YP PROVE PointsOf(z) = PointsOf(x) \cup PointsOf(y)
    <2>1. ZP = XP
      BY <1>7, <1>10
    <2>2. Points(x.slot, x.b.d, XP, XO \cup YO)
            = Points(x.slot, x.b.d, XP, XO) \cup Points(x.slot, x.b.d, XP, YO)
      BY PointsUnionRight
    <2> QED
      BY <1>7, <1>8, <1>10, <2>1, <2>2
  <1>11. ASSUME XO = YO PROVE PointsOf(z) = PointsOf(x) \cup PointsOf(y)
    <2>1. ZO = XO
      BY <1>7, <1>11
    <2>2. Points(x.slot, x.b.d, XP \cup YP, XO)
            = Points(x.slot, x.b.d, XP, XO) \cup Points(x.slot, x.b.d, YP, XO)
      BY PointsUnionLeft
    <2> QED
      BY <1>7, <1>8, <1>11, <2>1, <2>2
  <1>12. PointsOf(z) = PointsOf(x) \cup PointsOf(y)
    BY <1>9, <1>10, <1>11
  <1> QED
    BY <1>12 DEF z

-----------------------------------------------------------------------------
(* The sequence of children after one merge.                                *)

LEMMA MergeAtFacts ==
    ASSUME NEW s \in Seq(Child), NEW i \in 1..Len(s), i < Len(s)
    PROVE  LET z == [s[i] EXCEPT !.b = Merged(s[i].b, s[i + 1].b)]
           IN  /\ MergeAt(s, i) \in Seq(Child)
               /\ Len(MergeAt(s, i)) = Len(s) - 1
               /\ \A j \in 1..(Len(s) - 1) :
                    /\ j < i => MergeAt(s, i)[j] = s[j]
                    /\ j = i => MergeAt(s, i)[j] = z
                    /\ j > i => MergeAt(s, i)[j] = s[j + 1]
  <1> DEFINE n == Len(s) - 1
             z == [s[i] EXCEPT !.b = Merged(s[i].b, s[i + 1].b)]
             t == MergeAt(s, i)
  <1>1. Len(s) \in Nat /\ n \in Nat /\ i \in Int /\ i + 1 \in 1..Len(s)
    OBVIOUS
  <1>2. s[i] \in Child /\ s[i + 1] \in Child
    BY <1>1
  <1>3. z \in Child
    BY <1>2, MergedFields
  <1> HIDE DEF z
  <1>4. t = [j \in 1..n |-> IF j < i THEN s[j] ELSE IF j = i THEN z ELSE s[j + 1]]
    BY DEF MergeAt, z
  <1>5. \A j \in 1..n : /\ j < i => t[j] = s[j]
                        /\ j = i => t[j] = z
                        /\ j > i => t[j] = s[j + 1]
    BY <1>1, <1>4
  <1>6. \A j \in 1..n : t[j] \in Child
    <2> TAKE j \in 1..n
    <2>1. s[j] \in Child /\ s[j + 1] \in Child
      BY <1>1
    <2> QED
      BY <1>1, <1>3, <1>5, <2>1
  <1>7. t \in [1..n -> Child]
    BY <1>4, <1>6
  <1> HIDE DEF t, n
  <1>8. t \in Seq(Child) /\ Len(t) = n
    BY <1>1, <1>7
  <1> QED
    BY <1>5, <1>8 DEF t, n, z

-----------------------------------------------------------------------------
(* The children of one leaf.                                                *)

LEMMA PathFacts ==
    ASSUME NEW env \in EnvType, NEW p, NEW o, NEW path \in Paths(env, p, o)
    PROVE  ChoiceOk(env, path)
  <1>1. Support(env, p, o) \subseteq Slot
    BY DEF Support, Slot
  <1> DEFINE Pick(k) == [slot : {k}, cO : Draws(env.mv), cP : Draws(env.ai[k])]
             Asked(ch, s) == [slot |-> ch.slot, cO |-> IF s.usedO THEN ch.cO ELSE NoDraw,
                              cP |-> IF s.usedP THEN ch.cP ELSE NoDraw]
  <1>2. path \in {Asked(ch, RunTurn(env, p, o, ch)) :
                    ch \in UNION {Pick(k) : k \in Support(env, p, o)}}
    BY DEF Paths
  <1>3. PICK ch \in UNION {Pick(k) : k \in Support(env, p, o)} :
          path = Asked(ch, RunTurn(env, p, o, ch))
    BY <1>2
  <1>4. PICK k \in Slot : ch \in Pick(k)
    BY <1>1
  <1>5. ch.slot = k /\ ch.cO \in Draws(env.mv) /\ ch.cP \in Draws(env.ai[k])
    BY <1>4
  <1>6. /\ path.slot = ch.slot
        /\ path.cO = ch.cO \/ path.cO = NoDraw
        /\ path.cP = ch.cP \/ path.cP = NoDraw
    BY <1>3
  <1> QED
    BY <1>5, <1>6 DEF ChoiceOk

LEMMA LeafFacts ==
    ASSUME e \in EnvType, NEW r \in [pl : Interval, op : Interval], NEW leaf \in Leaves(r)
    PROVE  leaf.lo \in TurnState /\ leaf.hi \in TurnState /\ leaf.path.slot \in Slot
  <1>1. PICK path \in Paths(e, r.pl.lo, r.op.lo) :
          leaf = [path |-> path, lo |-> RunTurn(e, r.pl.lo, r.op.lo, path),
                  hi |-> RunTurn(e, r.pl.hi, r.op.hi, path)]
    BY DEF Leaves
  <1>2. ChoiceOk(e, path)
    BY PathFacts
  <1>3. /\ r.pl.lo \in 0..MaxHp /\ r.pl.hi \in 0..MaxHp
        /\ r.op.lo \in 0..MaxHp /\ r.op.hi \in 0..MaxHp
    BY IntervalFacts
  <1>4. /\ RunTurn(e, r.pl.lo, r.op.lo, path) \in TurnState
        /\ RunTurn(e, r.pl.hi, r.op.hi, path) \in TurnState
    BY <1>2, <1>3, RunTurnType
  <1>5. /\ leaf.lo = RunTurn(e, r.pl.lo, r.op.lo, path)
        /\ leaf.hi = RunTurn(e, r.pl.hi, r.op.hi, path)
        /\ leaf.path = path
    BY <1>1
  <1> QED
    BY <1>2, <1>4, <1>5 DEF ChoiceOk

LEMMA CtxOfType ==
    ASSUME NEW s \in TurnState
    PROVE  CtxOf(s) \in Ctx
  BY TurnStateFacts DEF CtxOf, Ctx

LEMMA LeafChildrenFacts ==
    ASSUME e \in EnvType, NEW r \in [pl : Interval, op : Interval],
           NEW leaf \in Leaves(r), NEW c \in LeafChildren(leaf)
    PROVE  c \in Child /\ ApartBucket(c.b, e)
  <1>1. leaf.lo \in TurnState /\ leaf.hi \in TurnState /\ leaf.path.slot \in Slot
    BY LeafFacts
  <1>2. /\ leaf.lo.p \in 0..MaxHp /\ leaf.hi.p \in 0..MaxHp
        /\ leaf.lo.o \in 0..MaxHp /\ leaf.hi.o \in 0..MaxHp
    BY <1>1, TurnStateFacts
  <1> DEFINE ip == ImageInterval(leaf.lo.p, leaf.hi.p)
             io == ImageInterval(leaf.lo.o, leaf.hi.o)
             fp == Support(e, leaf.lo.p, leaf.lo.o)
             d == CtxOf(leaf.lo)
             crit == TookCrit(leaf.path)
  <1>3. ip \in Interval /\ io \in Interval
    BY <1>2, ImageIntervalType
  <1>4. d \in Ctx /\ fp \in SUBSET Slot /\ crit \in BOOLEAN
    <2>1. d \in Ctx
      BY <1>1, CtxOfType
    <2>2. fp \in SUBSET Slot
      BY DEF Support, Slot
    <2>3. crit \in BOOLEAN
      BY DEF TookCrit
    <2> QED
      BY <2>1, <2>2, <2>3
  <1>5. PICK pl \in SplitAtBreakpoints(ip, PlayerBps(e)), op \in SplitAtBreakpoints(io, OppBps(e)) :
          c = [b |-> [d |-> d, pl |-> pl, op |-> op, fp |-> fp],
               slot |-> leaf.path.slot, crit |-> crit]
    BY DEF LeafChildren
  <1> HIDE DEF ip, io, fp, d, crit
  <1>6. /\ pl \in Interval /\ Apart(pl, PlayerBps(e))
        /\ op \in Interval /\ Apart(op, OppBps(e))
    BY <1>3, <1>5, SplitAtBreakpointsFacts, BreakpointsInRange
  <1>7. c.b.pl = pl /\ c.b.op = op
    BY <1>5
  <1>8. [d |-> d, pl |-> pl, op |-> op, fp |-> fp] \in Bucket
    BY <1>4, <1>6 DEF Bucket
  <1>9. c \in Child
    BY <1>1, <1>4, <1>5, <1>8 DEF Child
  <1> QED
    BY <1>6, <1>7, <1>9 DEF ApartBucket

-----------------------------------------------------------------------------
(* The invariant.                                                           *)

LEMMA InitInv == Init => TypeOK /\ ChildrenApart
  <1> SUFFICES ASSUME Init PROVE TypeOK /\ ChildrenApart
    OBVIOUS
  <1>1. PICK r \in Rect, f \in {{1}, {1, 2}} :
          A = [d |-> RootCtx(e), pl |-> r.pl, op |-> r.op, fp |-> f]
    BY DEF Init
  <1>2. r.pl \in Interval /\ r.op \in Interval
    BY ConstantFacts
  <1>3. 0 \in 0..MaxHp
    BY ConstantFacts
  <1>4. RootCtx(e) \in Ctx
    BY <1>3 DEF RootCtx, Ctx
  <1>5. f \in SUBSET Slot
    BY DEF Slot
  <1>6. A \in Bucket
    BY <1>1, <1>2, <1>4, <1>5 DEF Bucket
  <1>7. /\ e \in Env /\ pc = "gate" /\ pieces = {} /\ general = FALSE
        /\ raw = {} /\ entries = <<>>
    BY DEF Init
  <1>8. entries \in Seq(Child) /\ Len(entries) = 0
    BY <1>7
  <1>9. TypeOK
    BY <1>6, <1>7, <1>8, Zenon DEF TypeOK
  <1>10. ChildrenApart
    <2>1. 1..Len(entries) = {}
      BY <1>8
    <2> QED
      BY <1>7, <2>1 DEF ChildrenApart
  <1> QED
    BY <1>9, <1>10

LEMMA FinishInv ==
    ASSUME TypeOK, ChildrenApart, NEW res, Finish(res)
    PROVE  TypeOK' /\ ChildrenApart'
  BY DEF TypeOK, ChildrenApart, Finish

LEMMA SplitInputInv ==
    ASSUME TypeOK, ChildrenApart, SplitInput
    PROVE  TypeOK' /\ ChildrenApart'
  <1>1. A.pl \in Interval /\ A.op \in Interval
    BY DEF TypeOK, Bucket
  <1>2. PlayerPieces \subseteq Interval /\ OppPieces \subseteq Interval
    BY <1>1, SplitAxisType DEF PlayerPieces, OppPieces
  <1>3. pieces' = [pl : PlayerPieces, op : OppPieces]
    BY DEF SplitInput
  <1>4. pieces' \subseteq [pl : Interval, op : Interval]
    BY <1>2, <1>3
  <1>5. general' \in BOOLEAN
    BY DEF SplitInput
  <1>6. pc' = "step" /\ UNCHANGED <<e, A, raw, entries, result>>
    BY DEF SplitInput
  <1> QED
    BY <1>4, <1>5, <1>6 DEF TypeOK, ChildrenApart

LEMMA ExpandPieceInv ==
    ASSUME TypeOK, ChildrenApart, ExpandPiece
    PROVE  TypeOK' /\ ChildrenApart'
  <1>1. PICK r \in FirstPiece :
          /\ raw' = raw \cup UNION {LeafChildren(leaf) : leaf \in Leaves(r)}
          /\ pieces' = pieces \ {r}
    BY DEF ExpandPiece
  <1>2. r \in [pl : Interval, op : Interval]
    BY DEF FirstPiece, TypeOK
  <1>3. e \in EnvType
    BY ConstantFacts DEF TypeOK
  <1>4. \A c \in raw' : c \in Child /\ ApartBucket(c.b, e)
    <2> TAKE c \in raw'
    <2>1. CASE c \in raw
      BY <2>1 DEF TypeOK, ChildrenApart
    <2>2. CASE c \notin raw
      <3>1. PICK leaf \in Leaves(r) : c \in LeafChildren(leaf)
        BY <1>1, <2>2
      <3> QED
        BY <1>2, <1>3, <3>1, LeafChildrenFacts
    <2> QED
      BY <2>1, <2>2
  <1>5. UNCHANGED <<e, A, pc, general, entries, result>>
    BY DEF ExpandPiece
  <1>6. TypeOK'
    BY <1>1, <1>4, <1>5 DEF TypeOK
  <1>7. ChildrenApart'
    BY <1>4, <1>5 DEF ChildrenApart
  <1> QED
    BY <1>6, <1>7

LEMMA SortChildrenInv ==
    ASSUME TypeOK, ChildrenApart, SortChildren
    PROVE  TypeOK' /\ ChildrenApart'
  <1>1. entries' \in Seq(raw)
    BY DEF SortChildren, SortOf
  <1>2. PICK s : s = entries' /\ s \in Seq(raw)
    BY <1>1
  <1>3. raw \subseteq Child /\ \A c \in raw : ApartBucket(c.b, e)
    BY DEF TypeOK, ChildrenApart
  <1>4. \A i \in 1..Len(s) : s[i] \in raw
    BY <1>2
  <1>5. s \in Seq(Child)
    BY <1>2, <1>3
  <1>6. pc' = "merge" /\ UNCHANGED <<e, A, pieces, general, raw, result>>
    BY DEF SortChildren
  <1>7. TypeOK'
    BY <1>2, <1>5, <1>6 DEF TypeOK
  <1>8. ChildrenApart'
    BY <1>2, <1>3, <1>4, <1>6 DEF ChildrenApart
  <1> QED
    BY <1>7, <1>8

\* The site of a merge and the two children there.
LEMMA MergeSiteFacts ==
    ASSUME TypeOK, NEW i \in 1..Len(entries), MergeSite(i)
    PROVE  /\ Len(entries) \in Nat /\ i \in Nat /\ i < Len(entries)
           /\ i + 1 \in 1..Len(entries)
           /\ entries[i] \in Child /\ entries[i + 1] \in Child
           /\ Mergeable(entries[i], entries[i + 1])
  <1>1. entries \in Seq(Child) /\ Len(entries) \in Nat
    BY DEF TypeOK
  <1>2. i < Len(entries) /\ Mergeable(entries[i], entries[i + 1])
    BY DEF MergeSite
  <1>3. i + 1 \in 1..Len(entries)
    BY <1>1, <1>2
  <1> QED
    BY <1>1, <1>2, <1>3

LEMMA MergeChildrenInv ==
    ASSUME TypeOK, ChildrenApart, MergeChildren
    PROVE  TypeOK' /\ ChildrenApart'
  <1>1. PICK i \in 1..Len(entries) : MergeSite(i) /\ entries' = MergeAt(entries, i)
    BY DEF MergeChildren
  <1>2. PICK s : s = entries
    OBVIOUS
  <1>3. /\ s \in Seq(Child) /\ Len(s) \in Nat /\ i \in 1..Len(s) /\ i < Len(s)
        /\ i + 1 \in 1..Len(s) /\ s[i] \in Child /\ s[i + 1] \in Child
        /\ Mergeable(s[i], s[i + 1])
    BY <1>1, <1>2, MergeSiteFacts DEF TypeOK
  <1>4. \A j \in 1..Len(s) : ApartBucket(s[j].b, e)
    BY <1>2 DEF ChildrenApart
  <1> DEFINE z == [s[i] EXCEPT !.b = Merged(s[i].b, s[i + 1].b)]
             t == MergeAt(s, i)
  <1>5. ApartBucket(z.b, e)
    BY <1>3, <1>4, MergedApart
  <1>6. /\ t \in Seq(Child) /\ Len(t) = Len(s) - 1
        /\ \A j \in 1..(Len(s) - 1) : /\ j < i => t[j] = s[j]
                                      /\ j = i => t[j] = z
                                      /\ j > i => t[j] = s[j + 1]
    BY <1>3, MergeAtFacts
  <1> HIDE DEF z, t
  <1>7. \A j \in 1..Len(t) : ApartBucket(t[j].b, e)
    <2> TAKE j \in 1..Len(t)
    <2>1. j \in 1..Len(s) /\ j + 1 \in 1..Len(s) /\ j \in 1..(Len(s) - 1)
      BY <1>3, <1>6
    <2>2. t[j] = s[j] \/ t[j] = z \/ t[j] = s[j + 1]
      BY <1>3, <1>6, <2>1
    <2> QED
      BY <1>4, <1>5, <2>1, <2>2
  <1>8. UNCHANGED <<e, A, pc, pieces, general, raw, result>> /\ entries' = t
    BY <1>1, <1>2 DEF MergeChildren, t
  <1>9. TypeOK'
    BY <1>6, <1>8 DEF TypeOK
  <1>10. ChildrenApart'
    BY <1>7, <1>8 DEF ChildrenApart
  <1> QED
    BY <1>9, <1>10

LEMMA NextInv == TypeOK /\ ChildrenApart /\ [Next]_vars => TypeOK' /\ ChildrenApart'
  <1> SUFFICES ASSUME TypeOK, ChildrenApart, [Next]_vars
               PROVE  TypeOK' /\ ChildrenApart'
    OBVIOUS
  <1>1. CASE GateThrows
    BY <1>1, FinishInv DEF GateThrows
  <1>2. CASE Concede
    BY <1>2, FinishInv DEF Concede
  <1>3. CASE ScreenThrows
    BY <1>3, FinishInv DEF ScreenThrows
  <1>4. CASE SplitInput
    BY <1>4, SplitInputInv
  <1>5. CASE PieceThrows
    BY <1>5, FinishInv DEF PieceThrows
  <1>6. CASE ExpandPiece
    BY <1>6, ExpandPieceInv
  <1>7. CASE SortChildren
    BY <1>7, SortChildrenInv
  <1>8. CASE MergeChildren
    BY <1>8, MergeChildrenInv
  <1>9. CASE MergeDone
    BY <1>9, FinishInv DEF MergeDone
  <1>10. CASE UNCHANGED vars
    BY <1>10 DEF TypeOK, ChildrenApart, vars
  <1> QED
    BY <1>1, <1>2, <1>3, <1>4, <1>5, <1>6, <1>7, <1>8, <1>9, <1>10 DEF Next, Returned

\* expand() stays within its types: every piece it steps and every child it
\* builds is a valid interval with both ends inside 0..MaxHp, for all damage,
\* berries, residuals and breakpoints.
THEOREM ExpandTypeCorrect == Spec => []TypeOK
  <1>1. Init => TypeOK /\ ChildrenApart
    BY InitInv
  <1>2. TypeOK /\ ChildrenApart /\ [Next]_vars => TypeOK' /\ ChildrenApart'
    BY NextInv
  <1> QED
    BY <1>1, <1>2, PTL DEF Spec

\* No child holds a breakpoint next to another HP value, although merge_pass
\* builds buckets with the unchecked constructor of try_merge.
THEOREM BreakpointsStayApart == Spec => []ChildrenApart
  <1>1. Init => TypeOK /\ ChildrenApart
    BY InitInv
  <1>2. TypeOK /\ ChildrenApart /\ [Next]_vars => TypeOK' /\ ChildrenApart'
    BY NextInv
  <1> QED
    BY <1>1, <1>2, PTL DEF Spec

-----------------------------------------------------------------------------
(* Merges keep the concrete children.                                       *)

AllPoints(s) == UNION {PointsOf(s[i]) : i \in 1..Len(s)}

LEMMA MergeAtPoints ==
    ASSUME NEW s \in Seq(Child), NEW i \in 1..Len(s), i < Len(s),
           Mergeable(s[i], s[i + 1])
    PROVE  AllPoints(MergeAt(s, i)) = AllPoints(s)
  <1> DEFINE z == [s[i] EXCEPT !.b = Merged(s[i].b, s[i + 1].b)]
             t == MergeAt(s, i)
             n == Len(s)
  <1>1. n \in Nat /\ i \in Nat /\ i + 1 \in 1..n
    OBVIOUS
  <1>2. s[i] \in Child /\ s[i + 1] \in Child
    BY <1>1
  <1>3. PointsOf(z) = PointsOf(s[i]) \cup PointsOf(s[i + 1])
    BY <1>2, MergedPoints
  <1>4. /\ Len(t) = n - 1
        /\ \A j \in 1..(n - 1) : /\ j < i => t[j] = s[j]
                                 /\ j = i => t[j] = z
                                 /\ j > i => t[j] = s[j + 1]
    BY MergeAtFacts
  <1> HIDE DEF z, t, n
  <1>5. ASSUME NEW x \in AllPoints(t) PROVE x \in AllPoints(s)
    <2>1. PICK j \in 1..(n - 1) : x \in PointsOf(t[j])
      BY <1>4, <1>5 DEF AllPoints
    <2>2. j \in 1..n /\ j + 1 \in 1..n
      BY <1>1
    <2>3. \E k \in 1..n : x \in PointsOf(s[k])
      <3>1. CASE j < i
        BY <1>4, <2>1, <2>2, <3>1
      <3>2. CASE j = i
        BY <1>1, <1>3, <1>4, <2>1, <2>2, <3>2
      <3>3. CASE j > i
        BY <1>4, <2>1, <2>2, <3>3
      <3> QED
        BY <1>1, <2>2, <3>1, <3>2, <3>3
    <2> QED
      BY <2>3 DEF AllPoints, n
  <1>6. ASSUME NEW x \in AllPoints(s) PROVE x \in AllPoints(t)
    <2>1. PICK k \in 1..n : x \in PointsOf(s[k])
      BY <1>6 DEF AllPoints, n
    <2>2. \E j \in 1..(n - 1) : x \in PointsOf(t[j])
      <3>1. CASE k < i
        <4>1. k \in 1..(n - 1)
          BY <1>1, <3>1
        <4> QED
          BY <1>4, <2>1, <3>1, <4>1
      <3>2. CASE k = i \/ k = i + 1
        <4>1. i \in 1..(n - 1)
          BY <1>1
        <4>2. t[i] = z
          BY <1>4, <4>1
        <4> QED
          BY <1>3, <2>1, <3>2, <4>1, <4>2
      <3>3. CASE k > i + 1
        <4>1. k - 1 \in 1..(n - 1) /\ k - 1 > i /\ (k - 1) + 1 = k
          BY <1>1, <3>3
        <4>2. t[k - 1] = s[k]
          BY <1>4, <4>1
        <4> QED
          BY <2>1, <4>1, <4>2
      <3> QED
        BY <1>1, <3>1, <3>2, <3>3
    <2> QED
      BY <1>4, <2>2 DEF AllPoints
  <1>7. AllPoints(t) = AllPoints(s)
    BY <1>5, <1>6
  <1> QED
    BY <1>7 DEF t

\* merge_pass loses no concrete child and invents none, whatever the order of
\* the children and the breakpoints.
THEOREM MergeKeepsChildren == Spec => MergeKeepsPoints
  <1>1. TypeOK /\ [Next]_vars =>
          [pc = "merge" =>
            UNION {PointsOf(entries'[i]) : i \in 1..Len(entries')}
              = UNION {PointsOf(entries[i]) : i \in 1..Len(entries)}]_vars
    <2> SUFFICES ASSUME TypeOK, Next, pc = "merge"
                 PROVE  UNION {PointsOf(entries'[i]) : i \in 1..Len(entries')}
                          = UNION {PointsOf(entries[i]) : i \in 1..Len(entries)}
      OBVIOUS
    <2>1. MergeChildren \/ MergeDone
      BY DEF Next, GateThrows, Concede, ScreenThrows, SplitInput, PieceThrows,
             ExpandPiece, SortChildren, Returned
    <2>2. CASE MergeDone
      BY <2>2 DEF MergeDone, Finish
    <2>3. CASE MergeChildren
      <3>1. PICK i \in 1..Len(entries) : MergeSite(i) /\ entries' = MergeAt(entries, i)
        BY <2>3 DEF MergeChildren
      <3>2. PICK s, t : s = entries /\ t = entries'
        OBVIOUS
      <3>3. /\ s \in Seq(Child) /\ i \in 1..Len(s) /\ i < Len(s)
            /\ Mergeable(s[i], s[i + 1])
        BY <3>1, <3>2, MergeSiteFacts DEF TypeOK
      <3>4. AllPoints(t) = AllPoints(s)
        BY <3>1, <3>2, <3>3, MergeAtPoints
      <3> QED
        BY <3>2, <3>4 DEF AllPoints
    <2> QED
      BY <2>1, <2>2, <2>3
  <1>2. Spec => []TypeOK
    BY ExpandTypeCorrect
  <1> QED
    BY <1>1, <1>2, PTL DEF Spec, MergeKeepsPoints
=============================================================================
