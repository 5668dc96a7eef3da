----------------------------- MODULE SweepInject -----------------------------
(***************************************************************************)
(* What the messages of a turn say about its luck:                         *)
(* liveplay/sweep_secondaries.py.  Each message that reveals a chance event*)
(* becomes an override of the side it happened to; what no message reveals *)
(* keeps the silent outcome of SWEEP_LUCK, except the flinch chances, which*)
(* are tried both ways.                                                    *)
(*                                                                         *)
(* Messages with the same handling are represented by one of them: frozen  *)
(* and love-struck mons by paralysed and sleeping ones, contact abilities  *)
(* by move secondaries, the stat of Acupressure, the target of Roar and    *)
(* the status of Tri Attack and Effect Spore by the called move.           *)
(***************************************************************************)
EXTENDS SweepActions

(* Outcomes of the mon that tried to act, and outcomes written for its     *)
(* whole side.                                                             *)
ActedOutcome ==
  [PKMNISPARALYZED     |-> [event |-> "FULL_PARALYSIS", happens |-> FALSE],
   PKMNHEALEDCONFUSION |-> [event |-> "CONFUSION_SNAP", happens |-> TRUE],
   ATTACKMISSED        |-> [event |-> "ACCURACY", happens |-> FALSE]]
SideOutcome ==
  [PKMNWOKEUP     |-> [event |-> "WAKE", happens |-> TRUE],
   PKMNFASTASLEEP |-> [event |-> "WAKE", happens |-> FALSE]]

Fail(acc) == [acc EXCEPT !.err = "fatal"]
Crash(acc) == [acc EXCEPT !.err = "crash"]
PutScalar(acc, s, ev, val) == [acc EXCEPT !.ovs[s].scalar = Put(@, ev, val)]
PutSlot(acc, p, ev, val) == [acc EXCEPT !.ovs[p[1]].slot[p[2]] = Put(@, ev, val)]

(* _set_acted_override: per slot in doubles, for the side in singles.      *)
SetActed(acc, st, p, ev, val) ==
  IF Len(st.act[p[1]]) = 1 THEN PutScalar(acc, p[1], ev, val)
  ELSE PutSlot(acc, p, ev, val)

(* _name_slot: the slot of a named mon; 0 when two mons share the name,    *)
(* which aborts the sweep.                                                 *)
NameSlot(m, st) ==
  IF Len(st.act[m.side]) = 1 THEN 1 ELSE SlotForName(m.name, m.side, st, {})

(* A use: remembers the last attacker, who may yet show a Quick Claw, and  *)
(* injects the called move.  There is one place for it, whoever calls.     *)
InjectUse(acc, m, p) ==
  [acc EXCEPT !.last = p,
              !.priority0 = @ \cup {p},
              !.pre = IF m.called = None THEN @ ELSE m.called]

InjectActed(acc, m, st) ==
  LET k == NameSlot(m, st)
      o == ActedOutcome[m.id]
  IN  IF k = 0 THEN Fail(acc)
      ELSE SetActed(acc, st, <<m.side, k>>, o.event, o.happens)

(* "It hurt itself": of the mon the line before calls confused, else of    *)
(* both sides.                                                             *)
InjectSelfHit(acc, msgs, i, st) ==
  LET named == i > 1 /\ msgs[i - 1].id = "PKMNISCONFUSED"
      k == NameSlot(msgs[i - 1], st)
      p == <<msgs[i - 1].side, k>>
  IN  IF ~named
      THEN [PutScalar(PutScalar(acc, 0, "CONFUSION_SELF_HIT", FALSE),
                      1, "CONFUSION_SELF_HIT", FALSE)
             EXCEPT !.selfhit = @ \cup {<<0, 1>>, <<1, 1>>}]
      ELSE IF k = 0 THEN Fail(acc)
      ELSE [SetActed(acc, st, p, "CONFUSION_SELF_HIT", FALSE) EXCEPT !.selfhit = @ \cup {p}]

(* The number of hits is read as a roll of the standard 2 to 5 range; a    *)
(* count outside it as the middle of the range.                            *)
InjectHitCount(acc, n) ==
  IF acc.last = <<>> THEN acc
  ELSE [acc EXCEPT !.ovs[acc.last[1]].hits[acc.last[2]] =
          IF n \in 2 .. MaxHits THEN n ELSE MaxHits]

InjectClaw(acc, m, st) ==
  LET k == NameSlot(m, st)
  IN  IF k = 0 THEN Fail(acc) ELSE [acc EXCEPT !.claws = @ \cup {<<m.side, k>>}]

NamesActor(m) ==
  m.id \in DOMAIN ActedOutcome \cup DOMAIN SideOutcome \cup {"QUICKCLAWACTIVATE", "USEDMOVE"}

(* The message loop of inject_non_move_rng.                                *)
InjectMessage(acc, msgs, i, st, map) ==
  LET m == msgs[i]
  IN  CASE acc.err # None -> acc
        [] NamesActor(m) /\ SideError(m, st) -> Crash(acc)
        [] IsUse(m) -> IF i \in DOMAIN map THEN InjectUse(acc, m, map[i]) ELSE acc
        [] m.id \in DOMAIN ActedOutcome -> InjectActed(acc, m, st)
        [] m.id \in DOMAIN SideOutcome ->
             PutScalar(acc, m.side, SideOutcome[m.id].event, SideOutcome[m.id].happens)
        [] m.id = "ITHURTCONFUSION" -> InjectSelfHit(acc, msgs, i, st)
        [] m.id = "HITXTIMES" -> InjectHitCount(acc, m.arg)
        [] m.id = "QUICKCLAWACTIVATE" -> InjectClaw(acc, m, st)
        [] OTHER -> acc

(* A flinch is the work of the use just before it, which must be the       *)
(* other side's.                                                           *)
InjectFlinch(acc, msgs, i, st, map, changed) ==
  LET m == msgs[i]
      k == SlotForName(m.name, m.side, st, changed)
      uses == {j \in DOMAIN map : j < i}
      hitter == map[Max(uses)]
  IN  CASE acc.err # None \/ m.id # "PKMNFLINCHED" -> acc
        [] SideError(m, st) -> Crash(acc)
        [] k = 0 -> Fail(acc)
        [] uses = {} -> acc
        [] hitter[1] = m.side -> Fail(acc)
        [] OTHER -> PutSlot(acc, hitter, "FLINCH", TRUE)

(* A holder that moved without the Quick Claw line did not use it.  The    *)
(* claw is one setting per side: slots that disagree abort the sweep when  *)
(* its first trial builds the luck (a ValueError of _apply_extra_override).*)
InjectClaws(acc, st) ==
  LET quiet == {p \in acc.priority0 \ acc.claws : ActiveMon(st, p).claw}
      said == [s \in Side |-> {TRUE : p \in {q \in acc.claws : q[1] = s}} \cup
                              {FALSE : p \in {q \in quiet : q[1] = s}}]
      Set(a, s) == IF said[s] = {} THEN a
                   ELSE PutScalar(a, s, "QUICK_CLAW", CHOOSE b \in said[s] : TRUE)
  IN  IF acc.err # None THEN acc
      ELSE IF \E s \in Side : said[s] = BOOLEAN THEN Crash(acc)
      ELSE Set(Set(acc, 0), 1)

(* ----------------------------- secondaries ----------------------------- *)
(* _extract_used_moves_from_groups: a called move counts as the one used,  *)
(* and the first use of a slot counts.                                     *)
UsedMove(msgs, map, p) ==
  LET first == Min({i \in DOMAIN map : map[i] = p})
  IN  IF msgs[first].called # None THEN msgs[first].called ELSE msgs[first].arg

(* classify_secondaries: a secondary with a message of its own can be      *)
(* attributed, a flinch cannot.                                            *)
Secondaries(move) == IF move \in DOMAIN MoveData THEN {MoveData[move].sec} ELSE {}
SecondaryMessage ==
  [confuse |-> "PKMNWASCONFUSED", paralyse |-> "PKMNWASPARALYZED", weaken |-> "DEFENDERSSTATFELL"]
Attributable(move) == Secondaries(move) \cap DOMAIN SecondaryMessage # {}
FlinchOnly(move) == "flinch" \in Secondaries(move)

(* _secondary_match_in_messages: a message of the secondary's kind,        *)
(* whomever it names.                                                      *)
Fired(msgs, i, move) ==
  \E j \in DOMAIN SegmentAfter(msgs, i) :
    \E sec \in Secondaries(move) : SegmentAfter(msgs, i)[j].id = SecondaryMessage[sec]

(* _inject_attributable_secondaries: the move fired its secondary exactly  *)
(* when its segment shows the message.                                     *)
InjectSecondaries(acc, msgs, map) ==
  FoldLeft(LAMBDA a, i : IF Attributable(UsedMove(msgs, map, map[i]))
                         THEN PutSlot(a, map[i], "SECONDARY_FIRES", Fired(msgs, i, UsedMove(msgs, map, map[i]))) ELSE a,
           acc, UseIndices(msgs, map))

FlinchForced(acc, p) ==
  "FLINCH" \in DOMAIN acc.ovs[p[1]].slot[p[2]]

(* The flinch chances no message settles.                                  *)
ComboMovers(acc, msgs, map) ==
  {p \in {map[i] : i \in DOMAIN map} :
     FlinchOnly(UsedMove(msgs, map, p)) /\ ~FlinchForced(acc, p)}

(* build_sweep_injected_overrides: [ovs, pre, selfhit, combos, err].       *)
BuildInjected(msgs, st, map, changed) ==
  LET start == [ovs |-> [s \in Side |-> NoOverrides], pre |-> None, last |-> <<>>,
                priority0 |-> {}, claws |-> {}, selfhit |-> {}, err |-> None]
      ix == [i \in DOMAIN msgs |-> i]
      told == FoldLeft(LAMBDA a, i : InjectMessage(a, msgs, i, st, map), start, ix)
      flinched == FoldLeft(LAMBDA a, i : InjectFlinch(a, msgs, i, st, map, changed), told, ix)
      done == InjectSecondaries(InjectClaws(flinched, st), msgs, map)
  IN  [ovs |-> done.ovs, pre |-> done.pre, selfhit |-> done.selfhit, err |-> done.err,
       combos |-> [ComboMovers(flinched, msgs, map) -> BOOLEAN]]

(* The merge of one combination into the overrides.                        *)
WithCombo(ovs, combo) ==
  [s \in Side |-> [ovs[s] EXCEPT !.slot =
     [k \in {1, 2} |-> IF <<s, k>> \in DOMAIN combo
                       THEN Put(ovs[s].slot[k], "FLINCH", combo[<<s, k>>])
                       ELSE ovs[s].slot[k]]]]
==============================================================================
