-------------------------------- MODULE Sweep --------------------------------
(***************************************************************************)
(* State inference: liveplay/sweep_run.py, sweep_driver.py,                *)
(* candidate_tracker.py and sweep_recorder.py.                             *)
(*                                                                         *)
(* The live player never sees the battle's state.  It keeps candidate      *)
(* states, and at every decision boundary runs a sweep: from each          *)
(* candidate it simulates the turn under every action and roll that the    *)
(* messages leave open, and keeps the results that agree with the messages *)
(* and the HP bars.  The game itself (truth) is external; a turn of it     *)
(* fixes what is seen (obs).                                               *)
(***************************************************************************)
EXTENDS SweepCheck

CONSTANTS Battles,   \* initial [truth, cands, turns] of the battles
          BranchCap  \* _SWEEP_BRANCH_CAP

VARIABLES status,  \* "play", "sweep" (one is running), "over", "halted",
                   \* or what a replay of the halted session printed
          truth,   \* the game's state
          cands,   \* CandidateTracker's candidates
          obs,     \* messages and HP records of the turn, and its blind spots
          todo,    \* candidates the running sweep has still to try
          found,   \* all_new_candidates
          disk,    \* the latest boundary of the recording session
          turns    \* turns left to play (bound)

vars == <<status, truth, cands, obs, todo, found, disk, turns>>

(* ------------------------- one simulated turn -------------------------- *)
Failed == [ok |-> FALSE, st |-> None, log |-> <<>>]
Ascending(S) == SetToSortSeq(S, <)
CanEnter(st, s, i) == i \in LivingBench(st, s)

(* Mistake: the replacements after a faint are not applied.                *)
FaintedStays(acc, s, slots, team) == acc

(* apply_switch_cpp over the fainted slots, in slot order.                 *)
Replace(acc, s, slots, team) ==
  FoldLeft(LAMBDA a, n : IF ~a.ok \/ ~CanEnter(a.st, s, team[n]) THEN Failed
                         ELSE LET in == SwitchIn(a, <<s, slots[n]>>, team[n])
                              IN  [ok |-> TRUE, st |-> in.st, log |-> in.log],
           acc, [n \in 1 .. (IF Len(team) < Len(slots) THEN Len(team) ELSE Len(slots)) |-> n])

(* At a party prompt the actions are the replacements.                     *)
PostFaint(st, acts) ==
  FoldLeft(LAMBDA a, s :
             LET slots == Ascending(FaintedSlots(st, s))
             IN  CASE ~a.ok \/ ~NeedsReplacement(st, s) -> a
                   [] Len(acts[s]) < Len(slots) -> Failed
                   [] OTHER -> Replace(a, s, slots, [n \in DOMAIN slots |-> acts[s][n].to]),
           [ok |-> TRUE, st |-> st, log |-> <<>>], <<0, 1>>)

(* A calling move whose called move was not injected (NeedsRNG).           *)
NeedsRNG(log) ==
  \E i \in DOMAIN log : /\ log[i].ev = "MOVE_USE" /\ log[i].arg[2] = None
                        /\ log[i].arg[1] \in DOMAIN MoveData
                        /\ MoveData[log[i].arg[1]].calls # {}

(* run_to_decision_boundary with the log run_with_capture collects.  An    *)
(* error of the engine drops the trial.                                    *)
Ran(turn) == [ok |-> TRUE, st |-> turn.st, log |-> turn.log]
ReplaceFoes(done, oppSw) ==
  CASE NeedsRNG(done.log) -> Failed
    [] NeedsReplacement(done.st, 0) \/ LivingBench(done.st, 1) = {} -> done
    [] OTHER -> Replace(done, 1, Ascending(FaintedSlots(done.st, 1)), oppSw)
run_to_decision_boundary(st, acts, ovs, tie, pre, oppSw) ==
  IF has_fainted_active(st) THEN PostFaint(st, acts)
  ELSE ReplaceFoes(Ran(RunOneTurn(st, acts, BuildSweepLuck(ovs), tie, [p \in Pos |-> pre], FALSE)), oppSw)

(* ----------------------------- enumeration ----------------------------- *)
(* A trial decides the roll and the critical hits of each mover in turn.   *)
SameRoll(r) == [h \in Hits |-> r]
NoCrit == [h \in Hits |-> FALSE]

(* make_sweep_config: decided movers keep their rolls, later ones have the *)
(* middle roll.                                                            *)
make_sweep_config(ovs, movers, part) ==
  FoldLeft(LAMBDA o, i :
             [o EXCEPT ![movers[i][1]].roll =
                          Put(@, movers[i][2], IF i \in DOMAIN part THEN part[i].roll ELSE SameRoll(MidRoll)),
                       ![movers[i][1]].crit =
                          Put(@, movers[i][2], IF i \in DOMAIN part THEN part[i].crit ELSE NoCrit)],
           ovs, [i \in DOMAIN movers |-> i])
WithSelfHit(ovs, p, r) == [ovs EXCEPT ![p[1]].roll = Put(@, p[2], SameRoll(r))]

Simulate(ctx, ovs) == run_to_decision_boundary(ctx.st, ctx.acts, ovs, ctx.tie, ctx.pre, ctx.opp)

(* _attacker_per_hit_damages and _self_hit_damage.                         *)
HitDamages(log, p, st) ==
  LET own == SelectSeq(log, LAMBDA e : /\ e.ev = "DAMAGE" /\ e.arg[1] = "move"
                                       /\ e.arg[2] = <<p[1], st.act[p[1]][p[2]]>>)
  IN  [i \in DOMAIN own |-> own[i].n]
SelfDamage(log, s) ==
  FoldLeft(LAMBDA sum, e : IF e.ev = "HIT_SELF_CONFUSION" /\ e.side = s THEN sum + e.n ELSE sum,
           0, log)

(* _segment_hp_deltas_into_hits: a reading per hit, anchored at the last   *)
(* reading after a heal.                                                   *)
SegmentHits(deltas) ==
  IF deltas = <<>> THEN <<>>
  ELSE FoldLeft(LAMBDA acc, d :
                  IF d[2] > d[1] THEN [acc EXCEPT !.anchor = d[2], !.start = Len(acc.hits) + 1]
                  ELSE [acc EXCEPT !.hits = Append(@, [anchor |-> acc.anchor, to |-> d[2],
                                                       start |-> acc.start])],
                [anchor |-> deltas[1][1], start |-> 1, hits |-> <<>>], deltas).hits

(* _hit_passes_constraint: the damage since the anchor explains a reading. *)
HitPasses(damage, hit, side, max) ==
  IF side = 0 THEN IF hit.to = 0 THEN hit.anchor <= damage ELSE hit.anchor - damage = hit.to
  ELSE LET old == hp_range(hit.anchor, max)
           new == hp_range(hit.to, max)
       IN  new[2] + damage >= old[1] /\ (hit.to = 0 \/ new[1] + damage <= old[2])

(* _records_to_perslot: the readings of a slot.                            *)
SlotDeltas(recs, s, k) ==
  LET own == SelectSeq(recs, LAMBDA r : r.side = s /\ r.slot = k)
  IN  IF own = <<>> THEN <<>> ELSE Last(own).deltas

TargetOf(acts, p) == IF p[2] \in DOMAIN acts[p[1]] /\ acts[p[1]][p[2]].kind = "move"
                     THEN acts[p[1]][p[2]].target ELSE 1

(* _enumerate_mover_rolls for the n-th mover: each hit's roll is varied    *)
(* with the other hits at the lowest, the lowest roll of each damage kept, *)
(* and the products of several hits are pruned by the bar.                 *)
CritOf(hits, c) == IF hits = 1 THEN [h \in Hits |-> c # {}] ELSE [h \in Hits |-> h \in c]
RollAt(hits, i, r) == IF hits = 1 THEN SameRoll(r) ELSE [h \in Hits |-> IF h = i THEN r ELSE 0]
HitDamage(ctx, n, i, run) ==
  LET dealt == HitDamages(run.log, ctx.movers[n], ctx.st)
  IN  CASE ~run.ok -> -1
        [] i <= Len(dealt) -> dealt[i]
        [] OTHER -> IF ctx.hits[n] = 1 THEN 0 ELSE -1
DamageAt(ctx, part, n, c, i, r) ==
  HitDamage(ctx, n, i, Simulate(ctx, make_sweep_config(ctx.ovs, ctx.movers,
              Append(part, [roll |-> RollAt(ctx.hits[n], i, r), crit |-> CritOf(ctx.hits[n], c)]))))

(* The rolls of the hits, dmg[i][r] the damage of the i-th with roll r.    *)
RollsKept(ctx, n, dmg) ==
  LET p == ctx.movers[n]
      hits == ctx.hits[n]
      readings == SegmentHits(SlotDeltas(ctx.recs, Foe(p[1]), TargetOf(ctx.acts, p)))
      max == ctx.st.team[Foe(p[1])][ctx.st.act[Foe(p[1])][TargetOf(ctx.acts, p)]].max
      Fits(f) == hits = 1 \/
        \A i \in 1 .. hits : i \in DOMAIN readings =>
          HitPasses(FoldLeft(LAMBDA sum, j : sum + dmg[j][f[j]], 0,
                             [j \in 1 .. i - readings[i].start + 1 |-> j + readings[i].start - 1]),
                    readings[i], Foe(p[1]), max)
      Kept(i) == {r \in 0 .. MaxRoll : dmg[i][r] # -1 /\ \A q \in 0 .. r - 1 : dmg[i][q] # dmg[i][r]}
  IN  {f \in [1 .. hits -> 0 .. MaxRoll] : (\A i \in 1 .. hits : f[i] \in Kept(i)) /\ Fits(f)}

enumerate_mover_rolls(ctx, part, n) ==
  LET hits == ctx.hits[n]
      nCrits == IF hits > 1 THEN ctx.crits[n] ELSE IF ctx.crits[n] > 0 THEN 1 ELSE 0
      critSets == {c \in SUBSET (1 .. hits) : Cardinality(c) = nCrits}
      Entry(f, c) == [roll |-> IF hits = 1 THEN SameRoll(f[1])
                               ELSE [h \in Hits |-> IF h \in 1 .. hits THEN f[h] ELSE 0],
                      crit |-> CritOf(hits, c)]
      Tried(c) == {[i \in 1 .. hits |-> [r \in 0 .. MaxRoll |-> DamageAt(ctx, part, n, c, i, r)]]}
  IN  UNION {{Entry(f, c) : f \in UNION {RollsKept(ctx, n, dmg) : dmg \in Tried(c)}} : c \in critSets}

OrderSeen(ctx, run) == run.ok /\ ActionOrderOk(run.log, [i \in DOMAIN ctx.movers |-> ctx.movers[i][1]])

(* The rolls of a self-hit, one slot at a time, one per damage.            *)
OnePerDamage(runs, good, s) ==
  {runs[r] : r \in {x \in good : \A q \in good : q < x => SelfDamage(runs[q].log, s) # SelfDamage(runs[x].log, s)}}
SelfHitRuns(ctx, part, p) ==
  UNION {OnePerDamage(runs, {r \in 0 .. MaxRoll : OrderSeen(ctx, runs[r])}, p[1]) :
           runs \in {[r \in 0 .. MaxRoll |->
                        Simulate(ctx, WithSelfHit(make_sweep_config(ctx.ovs, ctx.movers, part), p, r))]}}

(* _run_phase_loop: the simulated turns whose order is the one seen.       *)
MoverRolls(ctx) ==
  FoldLeft(LAMBDA ps, n :
             UNION {{Append(part, e) : e \in enumerate_mover_rolls(ctx, part, n)} : part \in ps},
           {<<>>}, [n \in DOMAIN ctx.movers |-> n])
RunsOf(ctx, parts) ==
  IF ctx.selfhit # {} THEN UNION {SelfHitRuns(ctx, part, p) : part \in parts, p \in ctx.selfhit}
  ELSE {run \in {Simulate(ctx, make_sweep_config(ctx.ovs, ctx.movers, part)) : part \in parts} :
          OrderSeen(ctx, run)}
run_phase_loop(ctx) == RunsOf(ctx, MoverRolls(ctx))

(* ------------------------------ the sweep ------------------------------ *)
(* The survivors of one choice of actions, flinches and send-outs; a       *)
(* record or a level-up that fits two mons aborts the sweep.               *)
Unresolvable(run, o) ==
  \/ \E n \in DOMAIN o.recs : RecordIdx(run.st, o.recs[n]) = 0
  \/ HpMatch(run.st, o.recs) /\ HpCount(run.st, run.log, o.recs)
       /\ check_log_events(o.msgs, run.log, o.recs) /\ LevelUpAmbiguous(run.st, o.msgs)
Agrees(run, o) ==
  /\ HpMatch(run.st, o.recs)
  /\ HpCount(run.st, run.log, o.recs)
  /\ check_log_events(o.msgs, run.log, o.recs)

Survivors(runs, o) ==
  IF \E run \in runs : Unresolvable(run, o) THEN [found |-> {}, err |-> "fatal"]
  ELSE [found |-> {LevelUpsObserved(run.st, o.msgs) : run \in {r \in runs : Agrees(r, o)}},
        err |-> None]
sweep_evaluate_pairs(ctx, o) == Survivors(run_phase_loop(ctx), o)

(* SimulationError, and the errors that are not one: the ValueErrors and   *)
(* the UnboundLocalError of a text that names an unbound local.  A sweep   *)
(* that meets both is taken to stop at the second.                         *)
Errors == {"fatal", "crash"}
NoneFound(err) == [found |-> {}, err |-> IF err \in Errors THEN err ELSE None]
Joined(outs) ==
  [found |-> UNION {out.found : out \in outs},
   err |-> IF \E out \in outs : out.err = "crash" THEN "crash"
           ELSE IF \E out \in outs : out.err = "fatal" THEN "fatal" ELSE None]

(* The slots whose readings changed, and those they left with less HP.     *)
hp_changed_by_slot(recs) ==
  {p \in Pos : \E i \in DOMAIN SlotDeltas(recs, p[1], p[2]) :
     SlotDeltas(recs, p[1], p[2])[i][1] # SlotDeltas(recs, p[1], p[2])[i][2]}
Damaged(recs) ==
  {p \in Pos : LET seq == SlotDeltas(recs, p[1], p[2]) IN seq # <<>> /\ Last(seq)[2] < seq[1][1]}

(* The choices one slot map leaves open, all tried unless they are more    *)
(* than the cap.                                                           *)
SweepChoices(st, o, map, known, inj, nMaps) ==
  LET acts0 == CandidateActions(0, st, known, Damaged(o.recs))
      acts1 == CandidateActions(1, st, known, Damaged(o.recs))
      branches == OppSwitchBranches(o.msgs, st)
      movers == Movers(o.msgs, map)
      Ctx(a0, a1, opp, combo) ==
        [st |-> st, acts |-> [s \in Side |-> IF s = 0 THEN a0 ELSE a1],
         ovs |-> WithCombo(inj.ovs, combo), pre |-> inj.pre, opp |-> opp,
         tie |-> IF movers = <<>> THEN 0 ELSE movers[1][1],
         movers |-> movers, hits |-> HitCounts(o.msgs), crits |-> CritCounts(o.msgs),
         selfhit |-> inj.selfhit, recs |-> o.recs]
  IN  IF nMaps * Cardinality(acts0) * Cardinality(acts1) * Cardinality(branches)
           * Cardinality(inj.combos) > BranchCap
      THEN NoneFound("fatal")
      ELSE Joined({sweep_evaluate_pairs(Ctx(a0, a1, opp, combo), o) :
                     a0 \in acts0, a1 \in acts1, opp \in branches, combo \in inj.combos})

SweepMap(st, o, map, nMaps) ==
  LET got == ExtractKnownActions(o.msgs, st, map)
      actErr == CandidateActionsError(o.msgs, st, map, got.known)
      inj == BuildInjected(o.msgs, st, map, hp_changed_by_slot(o.recs))
  IN  IF got.err # None THEN NoneFound(got.err)
      ELSE IF ~OpponentPlausible(got.known, st) THEN NoneFound(None)
      ELSE IF Cardinality(ForcedSwitches(o.msgs, st)) > 1 THEN NoneFound("crash")
      ELSE IF ~ForcedSwitchPlausible(o.msgs, st) THEN NoneFound(None)
      ELSE IF actErr # None THEN NoneFound(actErr)
      ELSE IF inj.err # None THEN NoneFound(inj.err)
      ELSE SweepChoices(st, o, map, got.known, inj, nMaps)

(* run_candidate_sweep for one initial candidate: its survivors, or the    *)
(* error that aborts the sweep of all candidates.                          *)
SweepFrom(cand, o) ==
  LET st == ReleaseObserved(cand, o.msgs)
      maps == SlotMaps(o.msgs, st)
  IN  IF Said(o.msgs, "INTROMSG") THEN [found |-> {cand}, err |-> None]
      ELSE IF OppSwitchBranches(o.msgs, st) = {} THEN NoneFound("fatal")
      ELSE IF \E i \in DOMAIN o.msgs : IsUse(o.msgs[i]) /\ SideError(o.msgs[i], st) THEN NoneFound("crash")
      ELSE Joined({SweepMap(st, o, map, Cardinality(maps)) : map \in maps})

(* ------------------------------- the game ------------------------------ *)
(* The readings of a mon over a turn, without repetitions: its start and   *)
(* its HP after every change.                                              *)
Readings(st, log, s, i) ==
  LET mon == st.team[s][i]
      changes == SelectSeq(Shown(log), LAMBDA e : IsHpChange(e) /\ e.side = s /\ e.idx = i)
      Hp(n) == IF n = 0 THEN mon.hp ELSE changes[n].hp
      all == [n \in 1 .. Len(changes) + 1 |-> Reading(s, Hp(n - 1), mon.max)]
  IN  FoldLeft(LAMBDA out, k : IF out # <<>> /\ Last(out) = k THEN out ELSE Append(out, k), <<>>, all)

RecordOf(st, log, s, i) ==
  LET seen == Readings(st, log, s, i)
      k == {x \in Slots(st, s) : st.act[s][x] = i}
  IN  [side |-> s, sp |-> st.team[s][i].sp, max |-> st.team[s][i].max,
       slot |-> IF k = {} THEN 1 ELSE CHOOSE x \in k : TRUE,
       deltas |-> [n \in 1 .. Len(seen) - 1 |-> <<seen[n], seen[n + 1]>>]]

(* The records of a turn: the opponents that were active when it began,    *)
(* and every player mon, if their bars moved.  In singles _run_turn_sweep  *)
(* builds these; in doubles it has only the opponent's first slot as yet   *)
(* (a TODO there), and the records are those the sweep is tested with.     *)
Records(st, log) ==
  LET mons == [k \in Slots(st, 1) |-> <<1, st.act[1][k]>>] \o [i \in DOMAIN st.team[0] |-> <<0, i>>]
  IN  SelectSeq([n \in DOMAIN mons |-> RecordOf(st, log, mons[n][1], mons[n][2])],
                LAMBDA r : r.deltas # <<>>)

(* What may happen by chance to a mon that means to use a move.            *)
MovesItMayUse(mon, act) ==
  LET mv == MoveOf(mon, act) IN IF mv.calls = {} THEN {mv} ELSE {MoveData[m] : m \in mv.calls}
MaySuffer(st, s, sec) ==
  \E k \in Slots(st, Foe(s)) : \E m \in Range(MovesOf[ActiveMon(st, <<Foe(s), k>>).sp]) :
    MoveData[m].sec = sec
Chances(st, p, act) ==
  LET mon == ActiveMon(st, p)
      mvs == MovesItMayUse(mon, act)
  IN  (IF \E mv \in mvs : ~mv.sure THEN {"ACCURACY"} ELSE {}) \cup
      (IF \E mv \in mvs : mv.sec \in DOMAIN SecondaryMessage THEN {"SECONDARY_FIRES"} ELSE {}) \cup
      (IF \E mv \in mvs : mv.sec = "flinch" THEN {"FLINCH"} ELSE {}) \cup
      (IF mon.par \/ MaySuffer(st, p[1], "paralyse") THEN {"FULL_PARALYSIS"} ELSE {}) \cup
      (IF mon.slp THEN {"WAKE"} ELSE {}) \cup
      (IF mon.conf THEN {"CONFUSION_SNAP"} ELSE {}) \cup
      (IF mon.conf \/ MaySuffer(st, p[1], "confuse") THEN {"CONFUSION_SELF_HIT"} ELSE {}) \cup
      (IF mon.claw THEN {"QUICK_CLAW"} ELSE {})

(* A luck profile of the game for one mon: every outcome of its chances.   *)
GameLuck(st, p, act) ==
  IF act.kind = "switch" THEN {SWEEP_LUCK}
  ELSE LET mvs == MovesItMayUse(ActiveMon(st, p), act)
           many == \E mv \in mvs : mv.power > 0 /\ mv.hits > 1
           spread == Len(st.act[Foe(p[1])]) = 2 /\ \E mv \in mvs : mv.power > 0 /\ mv.spread
           hit == many \/ spread
           Each(S) == IF many THEN [Hits -> S] ELSE {[h \in Hits |-> IF h = 1 THEN x ELSE y] : x, y \in S}
           crit == \E mv \in mvs : mv.crit
           rolled == (\E mv \in mvs : mv.power > 0) \/ "CONFUSION_SELF_HIT" \in Chances(st, p, act)
           Rolls == CASE hit -> Each(0 .. MaxRoll)
                      [] rolled /\ ~hit -> {SameRoll(r) : r \in 0 .. MaxRoll}
                      [] OTHER -> {SameRoll(0)}
           Crits == CASE crit /\ hit -> Each({Always, Never})
                      [] crit /\ ~hit -> {[h \in Hits |-> c] : c \in {Always, Never}}
                      [] OTHER -> {[h \in Hits |-> Never]}
       IN  {[thr |-> [e \in BoolEvent |-> IF e \in DOMAIN f THEN f[e] ELSE SWEEP_LUCK.thr[e]],
             crit |-> c, roll |-> r, hits |-> n] :
              f \in [Chances(st, p, act) -> {Always, Never}], c \in Crits, r \in Rolls,
              n \in IF many THEN LeastHits .. MaxHits ELSE {LeastHits}}

Alive(st, s) == \E i \in DOMAIN st.team[s] : ~Fainted(st.team[s][i])
CalledBy(st, p, act) ==
  IF act.kind = "switch" \/ MoveOf(ActiveMon(st, p), act).calls = {} THEN {None}
  ELSE MoveOf(ActiveMon(st, p), act).calls

(* What a side's mons may do: the player any legal action, the opponent    *)
(* what its AI may play; in doubles with any target.                       *)
MayDo(st, p) ==
  LET acts == IF p[1] = 0 THEN enumerate_legal_actions(st, p) ELSE AiMayPlay(st, p)
  IN  UNION {IF a.kind = "switch" THEN {a}
             ELSE {[a EXCEPT !.target = t] : t \in Slots(st, Foe(p[1]))} : a \in acts}
SideMayDo(st, s) ==
  IF Len(st.act[s]) = 1 THEN {<<a>> : a \in MayDo(st, <<s, 1>>)}
  ELSE {<<a, b>> : a \in MayDo(st, <<s, 1>>), b \in MayDo(st, <<s, 2>>)}

(* The opponent replaces its fainted mons at the end of the turn, unless   *)
(* the player has to as well: then both do at the party prompt.            *)
OpponentReplaces(acc) ==
  IF NeedsReplacement(acc.st, 0) \/ ~NeedsReplacement(acc.st, 1) THEN acc
  ELSE SwitchIn(acc, <<1, CHOOSE k \in FaintedSlots(acc.st, 1) : TRUE>>, AiPick(acc.st))

(* ----------------------------- blind spots ----------------------------- *)
(* Turns whose traces the code is known to misread.                        *)
(* The bar of a mon in its last pixel covers less HP than the game shows   *)
(* it for (hp_range starts at the ceiling).                                *)
InGap(hp, max) == hp > 0 /\ hp < hp_range(hp_to_k(hp, max), max)[1]
BarGap(st, after, recs) ==
  \E n \in DOMAIN recs :
    /\ recs[n].side = 1 /\ LastOf(recs[n]) > 0
    /\ InGap(after.team[1][st.act[1][1]].hp, recs[n].max)
(* A move hurt the opponent by less than a pixel, or hurt a mon that was   *)
(* not out when the turn began: no bar was seen to move, which the log     *)
(* check takes for no damage.                                              *)
UnreadDamage(log, recs) ==
  /\ \A n \in DOMAIN recs : recs[n].side = 0
  /\ \E i \in DOMAIN log : IsHpChange(log[i]) /\ log[i].side = 1 /\ log[i].arg[1] = "move"
(* A hit of a multi-hit move is not the reading with its number: another   *)
(* change of that bar came first, or a hit left the bar where it was or in *)
(* that last pixel.                                                        *)
HitsMisread(st, log) ==
  \E i \in DOMAIN log : /\ log[i].ev = "HITXTIMES"
    /\ \E s \in {Foe(log[i].side)} : \E j \in DOMAIN st.team[s] :
         LET own == SelectSeq(log, LAMBDA e : IsHpChange(e) /\ e.side = s /\ e.idx = j)
             hurt == SelectSeq(own, LAMBDA e : e.ev # "HEAL")
             hits == {k \in DOMAIN hurt : hurt[k].arg[1] = "move"}
         IN  /\ hits # {}
             /\ \/ hits # 1 .. Cardinality(hits)
                \/ s = 1 /\ \E k \in hits : InGap(hurt[k].hp, st.team[s][j].max)
                \/ Len(Readings(st, log, s, j)) <= Len(own)
(* Two mons hit themselves: only one of the two rolls is tried at a time.  *)
TwoSelfHits(log) == CountOf(log, "HIT_SELF_CONFUSION") > 1
(* Two mons called different moves: one of them is injected for both.      *)
TwoCalls(log) ==
  \E i, j \in DOMAIN log : /\ log[i].ev = "MOVE_USE" /\ log[j].ev = "MOVE_USE"
                           /\ None \notin {log[i].arg[2], log[j].arg[2]}
                           /\ log[i].arg[2] # log[j].arg[2]

(* In doubles a called move hit the second slot: the calling move has no   *)
(* power, so only the first slot is tried as its target.                   *)
CalledAtSecond(st, log) ==
  \E i, j \in DOMAIN log :
    /\ log[i].ev = "MOVE_USE" /\ log[i].arg[2] # None
    /\ log[j].ev = "DAMAGE" /\ log[j].arg = <<"move", <<log[i].side, log[i].idx>> >>
    /\ Len(st.act[log[j].side]) = 2 /\ log[j].idx = st.act[log[j].side][2]

(* In doubles a move hit a mon whose slot is not tried as its target: the  *)
(* berry it ate gave back what the hit took, or no bar was seen to move.   *)
UntriedTarget(st, log, recs) ==
  \E i, j \in DOMAIN log :
    /\ log[i].ev = "MOVE_USE" /\ ~(log[i].arg[1] \in DOMAIN MoveData /\ MoveData[log[i].arg[1]].spread)
    /\ log[j].ev = "DAMAGE" /\ log[j].arg = <<"move", <<log[i].side, log[i].idx>> >>
    /\ Len(st.act[log[j].side]) = 2
    /\ \A k \in FoeDamagedSlots(st, log[i].side, Damaged(recs)) : st.act[log[j].side][k] # log[j].idx

(* A spread move did its two targets different damage: the trials have one *)
(* roll for both.                                                          *)
SpreadRolls(log) ==
  \E i, j \in DOMAIN log :
    /\ log[i].ev = "DAMAGE" /\ log[j].ev = "DAMAGE" /\ log[i].arg = log[j].arg /\ log[i].arg[1] = "move"
    /\ log[i].idx # log[j].idx /\ log[i].n # log[j].n

(* A mon moved before a tied one of the side that moved first: the trials  *)
(* give every tie to that side.                                            *)
LaterTie(st, log) ==
  LET used == SelectSeq(log, LAMBDA e : e.ev = "MOVE_USE")
  IN  \E i \in DOMAIN used, p \in Positions(st) :
        /\ p[1] = used[1].side /\ used[i].side # p[1]
        /\ Speed[used[i].sp] = Speed[ActiveMon(st, p).sp]
        /\ \A j \in 1 .. i - 1 : <<used[j].side, used[j].idx>> # <<p[1], st.act[p[1]][p[2]]>>

(* A berry is logged before the hit it is eaten for, and a hit of less     *)
(* than a pixel moves the bar at one of the two heights only.              *)
BerryOrder(st, log) ==
  \E i \in 2 .. Len(log) :
    /\ log[i - 1].ev = "HEAL" /\ log[i].ev = "DAMAGE" /\ log[i].arg[1] = "move" /\ log[i].side = 1
    /\ LET K(hp) == hp_to_k(hp, st.team[1][log[i].idx].max)
           left == log[i].hp
           from == left + log[i].n
       IN  Moves(<<K(from), K(left), K(left + log[i - 1].n)>>) #
             Moves(<<K(from), K(from + log[i - 1].n), K(left + log[i - 1].n)>>)

BlindSpots(st, after, log, recs) ==
  {b \in {"BarGap", "UnreadDamage", "HitsMisread", "TwoSelfHits", "TwoCalls",
          "CalledAtSecond", "UntriedTarget", "SpreadRolls", "LaterTie", "BerryOrder"} :
     \/ b = "BarGap" /\ BarGap(st, after, recs)
     \/ b = "UnreadDamage" /\ UnreadDamage(log, recs)
     \/ b = "HitsMisread" /\ HitsMisread(st, log)
     \/ b = "TwoSelfHits" /\ TwoSelfHits(log)
     \/ b = "TwoCalls" /\ TwoCalls(log)
     \/ b = "CalledAtSecond" /\ CalledAtSecond(st, log)
     \/ b = "UntriedTarget" /\ UntriedTarget(st, log, recs)
     \/ b = "SpreadRolls" /\ SpreadRolls(log)
     \/ b = "LaterTie" /\ LaterTie(st, log)
     \/ b = "BerryOrder" /\ BerryOrder(st, log)}

Observed(st, acc) ==
  LET recs == Records(st, acc.log)
  IN  [msgs |-> CollapseCalls(Printed(acc.log)), recs |-> recs,
       blind |-> BlindSpots(st, acc.st, acc.log, recs)]

(* ---------------------------- specification ---------------------------- *)
Blank == [cands |-> {}, msgs |-> <<>>, recs |-> <<>>, out |-> None, survivors |-> {}]
Nothing == [msgs |-> <<>>, recs |-> <<>>, blind |-> {}]

Init ==
  \E b \in Battles :
    /\ status = "intro" /\ truth = b.truth /\ cands = b.cands /\ turns = b.turns
    /\ obs = Nothing /\ todo = {} /\ found = {} /\ disk = Blank

GameShows(o, st) ==
  /\ obs' = [o EXCEPT !.blind = @ \cup obs.blind] /\ truth' = st /\ status' = "seen"
  /\ UNCHANGED <<cands, todo, found, disk>>

(* The opening: both leads are sent out, nobody has acted.                 *)
GameIntro ==
  /\ status = "intro"
  /\ GameShows([Nothing EXCEPT !.msgs = <<[id |-> "INTROMSG", name |-> None, side |-> 1,
                                            arg |-> 0, called |-> None]>>], truth)
  /\ UNCHANGED turns

(* A turn of the game under any choice of actions and any luck.            *)
EachPosition(st, Options(_)) ==
  FoldLeft(LAMBDA fs, p : UNION {{Put(f, p, x) : x \in Options(p)} : f \in fs},
           {<<>>}, SetToSeq(Positions(st)))
Tied(st) == \E p, q \in Positions(st) :
              p[1] # q[1] /\ Speed[ActiveMon(st, p).sp] = Speed[ActiveMon(st, q).sp]

GameTurn ==
  /\ status = "play" /\ turns > 0 /\ ~has_fainted_active(truth)
  /\ Alive(truth, 0) /\ Alive(truth, 1)
  /\ turns' = turns - 1
  /\ \E a0 \in SideMayDo(truth, 0), a1 \in SideMayDo(truth, 1),
        tie \in {0} \cup {s \in {1} : Tied(truth)},
        grows \in {FALSE} \cup {b \in {TRUE} : LivingBench(truth, 0) # {}} :
       \E acts \in {[s \in Side |-> IF s = 0 THEN a0 ELSE a1]} :
         \E luck \in EachPosition(truth, LAMBDA p : GameLuck(truth, p, acts[p[1]][p[2]])),
            called \in EachPosition(truth, LAMBDA p : CalledBy(truth, p, acts[p[1]][p[2]])) :
           \E acc \in {OpponentReplaces(RunOneTurn(truth, acts, luck, tie, called, grows))} :
             \E o \in {Observed(truth, acc)} : GameShows(o, acc.st)

(* The party prompt: the player chooses a replacement, the AI its own.     *)
GameReplace ==
  /\ status = "play" /\ has_fainted_active(truth)
  /\ \E i \in IF NeedsReplacement(truth, 0) THEN LivingBench(truth, 0) ELSE {0} :
       \E mine \in {IF i = 0 THEN [st |-> truth, log |-> <<>>]
                    ELSE SwitchIn([st |-> truth, log |-> <<>>],
                                  <<0, CHOOSE k \in FaintedSlots(truth, 0) : TRUE>>, i)} :
         \E acc \in {IF NeedsReplacement(truth, 1) THEN OpponentReplaces(mine) ELSE mine} :
           GameShows(Observed(truth, acc), acc.st)
  /\ UNCHANGED turns

(* Mistake: the boundary's files are reused, with the last output in them. *)
ReuseBoundary ==
  /\ status = "seen" /\ status' = "sweep"
  /\ disk' = [disk EXCEPT !.cands = cands, !.msgs = obs.msgs, !.recs = obs.recs]
  /\ todo' = cands /\ found' = {}
  /\ UNCHANGED <<truth, cands, obs, turns>>

(* record_and_run writes the inputs before it sweeps.                      *)
RecordInput ==
  /\ status = "seen" /\ status' = "sweep"
  /\ disk' = [cands |-> cands, msgs |-> obs.msgs, recs |-> obs.recs, out |-> None, survivors |-> {}]
  /\ todo' = cands /\ found' = {}
  /\ UNCHANGED <<truth, cands, obs, turns>>

RecordOutcome(kind, survivors) == disk' = [disk EXCEPT !.out = kind, !.survivors = survivors]

(* The next candidate; its error is recorded and halts the live player.    *)
SweepCandidate ==
  /\ status = "sweep" /\ todo # {}
  /\ \E c \in {CHOOSE x \in todo : TRUE} : \E out \in {SweepFrom(c, obs)} :
       IF out.err # None
       THEN /\ status' = "halted" /\ RecordOutcome(out.err, {})
            /\ UNCHANGED <<todo, found>>
       ELSE /\ todo' = todo \ {c} /\ found' = found \cup out.found
            /\ UNCHANGED <<status, disk>>
  /\ UNCHANGED <<truth, cands, obs, turns>>

(* All candidates swept: none left is an error, else they become the       *)
(* tracker's, without duplicates.                                          *)
SweepEnds ==
  /\ status = "sweep" /\ todo = {}
  /\ IF found = {}
     THEN /\ status' = "halted" /\ RecordOutcome("fatal", {})
          /\ UNCHANGED cands
     ELSE /\ status' = "play" /\ RecordOutcome("output", found)
          /\ cands' = found
  /\ UNCHANGED <<truth, obs, todo, found, turns>>

(* The process is killed in a sweep: what it found is lost and no outcome  *)
(* is written.                                                             *)
Interrupted ==
  /\ status = "sweep" /\ status' = "halted" /\ todo' = {} /\ found' = {}
  /\ UNCHANGED <<truth, cands, obs, disk, turns>>

(* The battle or the bound on turns is over.                               *)
Over ==
  /\ status = "play" /\ ~has_fainted_active(truth)
  /\ turns = 0 \/ ~Alive(truth, 0) \/ ~Alive(truth, 1)
  /\ status' = "over"
  /\ UNCHANGED <<truth, cands, obs, todo, found, disk, turns>>

(* load_session: a boundary has survivors, an error, or neither.           *)
load_session(d) ==
  [inputs |-> [cands |-> d.cands, msgs |-> d.msgs, recs |-> d.recs],
   survivors |-> IF d.out = "output" THEN d.survivors ELSE {},
   error |-> IF d.out \in Errors THEN d.out ELSE None]

(* replay_boundary: the inputs are swept again.  Only SimulationError is   *)
(* caught; a boundary without an outcome counts as one without survivors.  *)
Replayed(rec) == Joined({SweepFrom(c, rec.inputs) : c \in rec.inputs.cands})
replay_boundary(rec, again) ==
  LET err == IF again.err = None /\ again.found = {} THEN "fatal" ELSE again.err
  IN  IF err = "crash" THEN "raised"
      ELSE IF err = rec.error /\ (err # None \/ again.found = rec.survivors) THEN "PASS"
      ELSE "FAIL"

(* replay_sweep.py on the session a stop left behind.                      *)
ReplaySweep ==
  /\ status = "halted"
  /\ \E rec \in {load_session(disk)} : \E again \in {Replayed(rec)} :
       status' = replay_boundary(rec, again)
  /\ UNCHANGED <<truth, cands, obs, todo, found, disk, turns>>

Next == GameIntro \/ GameTurn \/ GameReplace \/ RecordInput \/ SweepCandidate
          \/ SweepEnds \/ Interrupted \/ Over \/ ReplaySweep

Spec == Init /\ [][Next]_vars

(* ------------------------------ properties ----------------------------- *)
(* The count of turns a bound mon has left is hidden; the engine assumes   *)
(* the longest, so a candidate's may exceed the truth's.                   *)
Hidden(st) ==
  [st EXCEPT !.team = [s \in Side |-> [i \in DOMAIN @[s] |->
     [@[s][i] EXCEPT !.bind = IF @ > 0 THEN 1 ELSE 0]]]]
Explains(cand, st) ==
  /\ Hidden(cand) = Hidden(st)
  /\ \A s \in Side : \A i \in DOMAIN st.team[s] : cand.team[s][i].bind >= st.team[s][i].bind
Tracked == \E c \in cands : Explains(c, truth)

Swept == status \in {"play", "over"}

(* While no turn fell into a blind spot, the sweep never loses the game's  *)
(* state: it is among the candidates after every sweep, and no sweep ends  *)
(* in an error (run_candidate_sweep keeps every branch the observations    *)
(* allow).                                                                 *)
TruthSurvives == obs.blind = {} => (Swept => Tracked) /\ disk.out \notin Errors

(* However much it loses, what the sweep keeps never puts another mon on   *)
(* the field or takes another one for fainted than the game has: the next  *)
(* turn's names are resolved against that field.                           *)
FieldKnown ==
  Swept => \A c \in cands : /\ c.act = truth.act
                            /\ \A s \in Side : \A i \in DOMAIN truth.team[s] :
                                 Fainted(c.team[s][i]) = Fainted(truth.team[s][i])
(* Whatever stops the live player in a sweep, an error or a kill, the      *)
(* session on disk has the candidates and observations it stopped at and   *)
(* no survivors of theirs (the flight recorder's layout: input before the  *)
(* sweep, output or error after).  Replayed (replay_sweep.py), it raises   *)
(* the error again; only the boundary of a kill differs.                   *)
StopIsRecorded ==
  status \in {"halted", "PASS", "FAIL", "raised"} =>
    /\ disk.cands = cands /\ disk.msgs = obs.msgs /\ disk.recs = obs.recs
    /\ disk.survivors = {}
    /\ status = "PASS" => disk.out \in Errors
    /\ status = "FAIL" => disk.out = None

(* A candidate that cannot have made a move that was seen, because it does *)
(* not know it or may not choose it, "is filtered"                         *)
(* (UnreproducibleObservedMoveError): it does not stop the sweep of the    *)
(* others.                                                                 *)
Unreproducible(c, msgs) ==
  \E map \in SlotMaps(msgs, c) : \E i \in DOMAIN map : ObservedMove(msgs[i], map[i], c) = NoAct
UnreproducibleIsFiltered ==
  status = "sweep" =>
    \A c \in todo : Unreproducible(c, obs.msgs) => SweepFrom(c, obs).err = None

==============================================================================
