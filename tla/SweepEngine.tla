----------------------------- MODULE SweepEngine -----------------------------
(***************************************************************************)
(* The battle state the live player tracks (liveplay/state, actions.py)    *)
(* and one turn of the game it is a state of.  The turn itself is run by   *)
(* the C++ engine, outside the Python code: its definition here is the     *)
(* smallest game that has the events the sweep treats differently - turn   *)
(* order with Quick Claw and speed ties, status checks, confusion, misses, *)
(* critical hits, multi-hit and spread moves, called moves, secondary      *)
(* effects, binding, healing berries, faints and level-ups - and the log   *)
(* entries of liveplay/logger.py that the sweep reads back.                *)
(***************************************************************************)
EXTENDS SweepLuck, SequencesExt

CONSTANTS MoveData,  \* move |-> [power, sure, crit, sec, hits, spread, calls]
          MovesOf,   \* species |-> sequence of moves
          Speed      \* species |-> base speed

None == "none"
Foe(s) == 1 - s

(* A mon: species, HP, maximum HP, level, asleep, paralysed, confused,     *)
(* turns of binding left, holds a Quick Claw, holds a healing berry, its   *)
(* attack is lowered.                                                      *)
Fainted(mon) == mon.hp = 0
ActiveMon(st, p) == st.team[p[1]][st.act[p[1]][p[2]]]
Slots(st, s) == DOMAIN st.act[s]
Positions(st) == {p \in Pos : p[2] \in Slots(st, p[1])}
Bench(st, s) == DOMAIN st.team[s] \ Range(st.act[s])
LivingBench(st, s) == {i \in Bench(st, s) : ~Fainted(st.team[s][i])}
FaintedSlots(st, s) == {k \in Slots(st, s) : Fainted(ActiveMon(st, <<s, k>>))}

(* _side_has_fainted_active and a living bench: the side must replace.     *)
NeedsReplacement(st, s) == FaintedSlots(st, s) # {} /\ LivingBench(st, s) # {}
has_fainted_active(st) == \E s \in Side : NeedsReplacement(st, s)

MoveAct(slot, target) == [kind |-> "move", slot |-> slot, target |-> target, to |-> 0]
SwitchAct(i) == [kind |-> "switch", slot |-> 0, target |-> 0, to |-> i]
NoAct == [kind |-> "none", slot |-> 0, target |-> 0, to |-> 0]
STRUGGLE_SLOT == 9
Struggle == [power |-> 1, sure |-> TRUE, sec |-> None, hits |-> 1,
             crit |-> FALSE, spread |-> FALSE, calls |-> {}]

(* enumerate_legal_actions: the moves with PP (a mon without any must      *)
(* struggle), and a switch to any living bench mon unless it is bound.     *)
UsableMoves(mon) == {m \in DOMAIN MovesOf[mon.sp] : mon.pp[m] > 0}
enumerate_legal_actions(st, p) ==
  LET mon == ActiveMon(st, p)
      moves == IF UsableMoves(mon) = {} THEN {STRUGGLE_SLOT} ELSE UsableMoves(mon)
      bench == IF mon.bind > 0 THEN {} ELSE LivingBench(st, p[1])
  IN  {MoveAct(m, 1) : m \in moves} \cup {SwitchAct(i) : i \in bench}

(* External: which of its legal actions the opponent's AI gives a positive *)
(* probability, and whom it sends out after a faint.                       *)
AiMayPlay(st, p) == {a \in enumerate_legal_actions(st, p) :
                       a.kind = "switch" => ActiveMon(st, p).hp = 1}
AiPick(st) == CHOOSE i \in LivingBench(st, 1) : \A j \in LivingBench(st, 1) : i <= j

(* ------------------------------ the turn ------------------------------- *)
MoveOf(mon, act) ==
  IF act.slot = STRUGGLE_SLOT THEN Struggle ELSE MoveData[MovesOf[mon.sp][act.slot]]
MoveName(mon, act) == IF act.slot = STRUGGLE_SLOT THEN "STRUGGLE" ELSE MovesOf[mon.sp][act.slot]
(* Two neighbouring rolls do the same damage, as in the real formula.      *)
Damage(mon, power, roll, crit) ==
  IF power = 0 THEN 0
  ELSE power + (roll + 1) \div 2 + (IF crit THEN 1 ELSE 0) - (IF mon.weak /\ roll > 0 THEN 1 ELSE 0)

(* Accumulator of a turn: state, log, positions that flinched.             *)
Log(acc, e) == [acc EXCEPT !.log = Append(@, e)]
LogIf(cond, acc, e) == IF cond THEN Log(acc, e) ELSE acc
SetMon(acc, s, i, mon) == [acc EXCEPT !.st.team[s][i] = mon]
LogEv(ev, p, st) == [ev |-> ev, side |-> p[1], sp |-> ActiveMon(st, p).sp,
                     idx |-> st.act[p[1]][p[2]], n |-> 0, hp |-> 0, arg |-> <<None, None>>]

(* The log has the computed damage, not the HP it took, and the HP left.   *)
(* A berry is eaten at half the HP or less; cpp_apply_damage logs it       *)
(* before its caller logs the hit of a move, and after any other damage.   *)
Left(mon, amount) == IF amount < mon.hp THEN mon.hp - amount ELSE 0
Eats(mon, left) == mon.berry /\ left > 0 /\ left <= mon.max \div 2
SetHp(acc, p, hp, ate) ==
  SetMon(acc, p[1], acc.st.act[p[1]][p[2]], [ActiveMon(acc.st, p) EXCEPT !.hp = hp, !.berry = @ /\ ~ate])
EatBerry(acc, p, hit, now, cause) ==
  LET heal == [hit EXCEPT !.ev = "HEAL", !.n = now - hit.hp, !.hp = now, !.arg = <<"berry", None>>]
      logged == IF cause = "move" THEN <<heal, hit>> ELSE <<hit, heal>>
  IN  [SetHp(acc, p, now, TRUE) EXCEPT !.log = @ \o logged]
HurtTo(acc, p, mon, hit, cause) ==
  IF Eats(mon, hit.hp) THEN EatBerry(acc, p, hit, hit.hp + mon.max \div 4, cause)
  ELSE Log(SetHp(acc, p, hit.hp, FALSE), hit)
HurtMon(acc, p, amount, event, cause, from) ==
  HurtTo(acc, p, ActiveMon(acc.st, p),
         [LogEv(event, p, acc.st) EXCEPT !.n = amount, !.hp = Left(ActiveMon(acc.st, p), amount),
            !.arg = <<cause, <<from[1], acc.st.act[from[1]][from[2]]>> >>],
         cause)

(* _recalc_stats: a level adds to the maximum HP and to the current HP.    *)
Grown(mon, lvl) == [mon EXCEPT !.lvl = lvl, !.max = @ + (lvl - mon.lvl),
                               !.hp = @ + (lvl - mon.lvl)]

(* A faint is logged; a foe's faint gives experience, and a benched player *)
(* mon may reach its next level by a share the tracked state has wrong.    *)
LogFaint(acc, p, grows) ==
  IF ~Fainted(ActiveMon(acc.st, p)) THEN acc
  ELSE LET fell == Log(acc, LogEv("FAINT", p, acc.st))
           shared == LivingBench(acc.st, 0)
       IN  IF p[1] = 0 THEN fell
           ELSE LET gained == Log(fell, LogEv("EXP_GAIN", <<0, 1>>, acc.st))
                IN  IF ~grows \/ shared = {} THEN gained
                    ELSE LET i == CHOOSE j \in shared : TRUE
                             mon == acc.st.team[0][i]
                         IN  Log(SetMon(gained, 0, i, Grown(mon, mon.lvl + 1)),
                                 [LogEv("LEVEL_UP", <<0, 1>>, acc.st)
                                    EXCEPT !.sp = mon.sp, !.n = mon.lvl + 1])

OneHit(acc, p, target, mv, luck, h) ==
  IF Fainted(ActiveMon(acc.st, target)) \/ mv.power = 0 THEN acc
  ELSE LET crit == mv.crit /\ CritAt(luck, h)
           power == Damage(ActiveMon(acc.st, p), mv.power, luck.roll[h], crit)
       IN  Log(LogIf(crit, HurtMon(acc, target, power, "DAMAGE", "move", p), LogEv("CRIT", p, acc.st)),
               LogEv("HITCOUNT", p, acc.st))

Secondary(acc, p, target, mv, luck) ==
  LET mon == ActiveMon(acc.st, target)
  IN  CASE Fainted(mon) -> acc
        [] mv.sec = "flinch" /\ Happens(luck, "FLINCH") ->
             [acc EXCEPT !.flinched = @ \cup {target}]
        [] mv.sec = "confuse" /\ Happens(luck, "SECONDARY_FIRES") /\ ~mon.conf ->
             Log(SetMon(acc, target[1], acc.st.act[target[1]][target[2]],
                        [mon EXCEPT !.conf = TRUE]),
                 LogEv("VOLATILE_APPLY", target, acc.st))
        [] mv.sec = "paralyse" /\ Happens(luck, "SECONDARY_FIRES") /\ ~mon.par /\ ~mon.slp ->
             Log(SetMon(acc, target[1], acc.st.act[target[1]][target[2]],
                        [mon EXCEPT !.par = TRUE]),
                 LogEv("STATUS_APPLY", target, acc.st))
        [] mv.sec = "weaken" /\ Happens(luck, "SECONDARY_FIRES") /\ ~mon.weak ->
             Log(SetMon(acc, target[1], acc.st.act[target[1]][target[2]],
                        [mon EXCEPT !.weak = TRUE]),
                 [LogEv("STAT_BOOST", target, acc.st) EXCEPT !.n = -1])
        [] OTHER -> acc

(* The hits of a move on several targets are numbered by their slots: the  *)
(* game rolls for each of them.                                            *)
AllHits(acc, p, target, mv, luck) ==
  FoldLeft(LAMBDA a, h : OneHit(a, p, target, mv, luck, IF mv.spread THEN target[2] ELSE h), acc,
           [h \in 1 .. (IF mv.hits > 1 THEN luck.hits ELSE 1) |-> h])
TellHits(hit, before, p, mv) ==
  LogIf(mv.hits > 1, hit,
        [LogEv("HITXTIMES", p, before.st) EXCEPT
           !.n = Len(SelectSeq(SubSeq(hit.log, Len(before.log) + 1, Len(hit.log)),
                               LAMBDA e : e.ev = "HITCOUNT"))])
Strike(acc, p, target, mv, luck, grows) ==
  IF Fainted(ActiveMon(acc.st, target)) THEN acc
  ELSE LogFaint(Secondary(TellHits(AllHits(acc, p, target, mv, luck), acc, p, mv), p, target, mv, luck),
                target, grows)

Targets(st, p, act, mv) ==
  IF mv.spread THEN [k \in Slots(st, Foe(p[1])) |-> <<Foe(p[1]), k>>]
  ELSE << <<Foe(p[1]), act.target>> >>

UseMove(acc, p, act, luck, called, grows) ==
  LET mon == ActiveMon(acc.st, p)
      own == MoveOf(mon, act)
      used == [Log(acc, [LogEv("MOVE_USE", p, acc.st) EXCEPT
                 !.arg = <<MoveName(mon, act), IF own.calls = {} THEN None ELSE called>>])
                 EXCEPT !.st.team[p[1]][acc.st.act[p[1]][p[2]]].pp =
                   IF act.slot = STRUGGLE_SLOT THEN @ ELSE [@ EXCEPT ![act.slot] = @ - 1]]
      mv == IF own.calls = {} \/ called = None THEN own ELSE MoveData[called]
  IN  IF ~mv.sure /\ ~Happens(luck, "ACCURACY")
      THEN Log(used, LogEv("MOVE_MISS", p, acc.st))
      ELSE FoldLeft(LAMBDA a, t : Strike(a, p, t, mv, luck, grows), used,
                    Targets(acc.st, p, act, mv))

(* The checks before a move, in order: flinch, sleep, confusion, paralysis.*)
TryMove(acc, p, act, luck, called, grows) ==
  LET st == acc.st
      i == st.act[p[1]][p[2]]
      mon == ActiveMon(st, p)
      wakes == mon.slp /\ Happens(luck, "WAKE")
      snaps == mon.conf /\ Happens(luck, "CONFUSION_SNAP")
      woken == IF wakes
               THEN Log(SetMon(acc, p[1], i, [mon EXCEPT !.slp = FALSE]), LogEv("WAKE_UP", p, st))
               ELSE acc
      clear == CASE snaps -> Log(SetMon(woken, p[1], i, [ActiveMon(woken.st, p) EXCEPT !.conf = FALSE]),
                                 LogEv("SNAP_OUT_CONFUSION", p, st))
                 [] mon.conf /\ ~snaps -> Log(woken, LogEv("CONFUSED", p, st))
                 [] OTHER -> woken
  IN  CASE p \in acc.flinched -> Log(acc, LogEv("CANT_FLINCH", p, st))
        [] mon.slp /\ ~wakes -> Log(acc, LogEv("CANT_SLEEP", p, st))
        [] mon.conf /\ ~snaps /\ ~Happens(luck, "CONFUSION_SELF_HIT") ->
             LogFaint(HurtMon(clear, p, Damage(mon, 1, luck.roll[1], FALSE),
                              "HIT_SELF_CONFUSION", "self", p), p, grows)
        [] mon.par /\ ~Happens(luck, "FULL_PARALYSIS") ->
             Log(clear, LogEv("CANT_PARALYSIS", p, st))
        [] OTHER -> UseMove(clear, p, act, luck, called, grows)

(* apply_switch: the mon that leaves loses its volatiles.                  *)
SwitchIn(acc, p, i) ==
  LET old == acc.st.act[p[1]][p[2]]
      reset == SetMon(acc, p[1], old,
                      [acc.st.team[p[1]][old] EXCEPT !.conf = FALSE, !.bind = 0, !.weak = FALSE])
      st == [reset.st EXCEPT !.act[p[1]][p[2]] = i]
  IN  Log([reset EXCEPT !.st = st], LogEv("SWITCH_IN", p, st))

(* Switches first, then a Quick Claw that fires, then speed; ties go to    *)
(* the side that wins them.                                                *)
Before(st, acts, luck, tie, p, q) ==
  LET Claw(x) == ActiveMon(st, x).claw /\ Happens(luck[<<x[1], 1>>], "QUICK_CLAW")
      Key(x) == << IF acts[x[1]][x[2]].kind = "switch" THEN 0 ELSE 1,
                   IF acts[x[1]][x[2]].kind = "move" /\ Claw(x) THEN 0 ELSE 1,
                   0 - Speed[ActiveMon(st, x).sp],
                   IF x[1] = tie THEN 0 ELSE 1, x[2] >>
      a == Key(p)
      b == Key(q)
  IN  \E i \in 1 .. 5 : a[i] < b[i] /\ \A j \in 1 .. i - 1 : a[j] = b[j]

Act(acc, p, acts, luck, called, grows) ==
  LET act == acts[p[1]][p[2]]
  IN  CASE Fainted(ActiveMon(acc.st, p)) -> acc
        [] act.kind = "switch" -> SwitchIn(acc, p, act.to)
        [] OTHER -> TryMove(acc, p, act, luck[p], called[p], grows)

(* End of turn: a bound mon is freed when its count runs out, else hurt.   *)
Upkeep(acc, p) ==
  LET mon == ActiveMon(acc.st, p)
      less == SetMon(acc, p[1], acc.st.act[p[1]][p[2]], [mon EXCEPT !.bind = @ - 1])
  IN  CASE mon.bind = 0 \/ Fainted(mon) -> acc
        [] mon.bind = 1 -> Log(less, LogEv("FREED", p, acc.st))
        [] OTHER -> LogFaint(HurtMon(less, p, 1, "DAMAGE", "bind", p), p, FALSE)

(* run_one_turn: state and log after both sides acted.                     *)
RunOneTurn(st, acts, luck, tie, called, grows) ==
  LET acting == {p \in Positions(st) : p[2] \in DOMAIN acts[p[1]]}
      order == SetToSortSeq(acting, LAMBDA p, q : Before(st, acts, luck, tie, p, q))
      claws == SelectSeq(order, LAMBDA p : /\ acts[p[1]][p[2]].kind = "move"
                                           /\ ActiveMon(st, p).claw
                                           /\ Happens(luck[<<p[1], 1>>], "QUICK_CLAW"))
      start == [st |-> st, flinched |-> {},
                log |-> [k \in DOMAIN claws |-> LogEv("QUICK_CLAW", claws[k], st)]]
  IN  FoldLeft(Upkeep,
               FoldLeft(LAMBDA a, p : Act(a, p, acts, luck, called, grows), start, order),
               SetToSortSeq(Positions(st), LAMBDA p, q : p[1] < q[1] \/ (p[1] = q[1] /\ p[2] < q[2])))
==============================================================================
