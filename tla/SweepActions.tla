---------------------------- MODULE SweepActions ----------------------------
(***************************************************************************)
(* What the messages of one turn say about who acted and how:              *)
(* liveplay/sweep_actions.py, liveplay/state_transition.py and             *)
(* liveplay/sweep_common.py.  A message is [id, name, side, arg, called];  *)
(* names are species, since the matcher has mapped the read text to one.   *)
(***************************************************************************)
EXTENDS SweepEngine, FiniteSetsExt

MsgOf(id, e) == [id |-> id, name |-> e.sp, side |-> e.side, arg |-> e.n, called |-> None]

(* The line the game prints for a log entry, or none.                      *)
MessageId ==
  [CRIT |-> "CRITICALHIT", MOVE_MISS |-> "ATTACKMISSED", CANT_FLINCH |-> "PKMNFLINCHED",
   CANT_PARALYSIS |-> "PKMNISPARALYZED", CANT_SLEEP |-> "PKMNFASTASLEEP",
   WAKE_UP |-> "PKMNWOKEUP", SNAP_OUT_CONFUSION |-> "PKMNHEALEDCONFUSION",
   CONFUSED |-> "PKMNISCONFUSED", HIT_SELF_CONFUSION |-> "ITHURTCONFUSION",
   VOLATILE_APPLY |-> "PKMNWASCONFUSED", FAINT |-> "FAINTED", SWITCH_IN |-> "SWITCHINMON",
   HITXTIMES |-> "HITXTIMES", FREED |-> "PKMNFREEDFROM", EXP_GAIN |-> "PKMNGAINEDEXP",
   STATUS_APPLY |-> "PKMNWASPARALYZED", STAT_BOOST |-> "DEFENDERSSTATFELL",
   HEAL |-> "PKMNSITEMRESTOREDHEALTH",
   LEVEL_UP |-> "PKMNGREWTOLV", QUICK_CLAW |-> "QUICKCLAWACTIVATE"]

Lines(e) ==
  CASE e.ev = "MOVE_USE" ->
         LET used == [MsgOf("USEDMOVE", e) EXCEPT !.arg = e.arg[1]]
         IN  IF e.arg[2] = None THEN <<used>> ELSE <<used, [used EXCEPT !.arg = e.arg[2]]>>
    [] e.ev \in DOMAIN MessageId -> <<MsgOf(MessageId[e.ev], e)>>
    [] OTHER -> <<>>

(* External: a turn as the game shows it, a hit before the berry eaten     *)
(* for it; and the messages it prints.                                     *)
Shown(log) ==
  LET Eaten(i) == i \in 1 .. Len(log) - 1 /\ log[i].ev = "HEAL" /\ log[i + 1].ev = "DAMAGE"
                    /\ log[i + 1].arg[1] = "move" /\ log[i + 1].side = log[i].side
  IN  [i \in DOMAIN log |-> CASE Eaten(i) -> log[i + 1] [] Eaten(i - 1) -> log[i - 1] [] OTHER -> log[i]]
Printed(log) == FlattenSeq([i \in DOMAIN log |-> Lines(Shown(log)[i])])

(* --------------------------- side and slot ----------------------------- *)
NameMatches(name, sp) == name = sp

ActiveMatches(name, s, st) ==
  {k \in Slots(st, s) : NameMatches(name, ActiveMon(st, <<s, k>>).sp)}

(* _fuzzy_find_side: the side hint of the message must not contradict the  *)
(* state.  An actor known to be on a team but on neither field is a desync.*)
(* Both are ValueErrors ("crash"), as is a name that two team members      *)
(* answer to; SimulationErrors are "fatal".                                *)
SideError(m, st) ==
  LET here == ActiveMatches(m.name, m.side, st)
      there == ActiveMatches(m.name, Foe(m.side), st)
  IN  /\ here = {}
      /\ \/ there # {}
         \/ \E s \in Side : \E i \in DOMAIN st.team[s] : NameMatches(m.name, st.team[s][i].sp)

(* _slot_for_name: one match is the slot; of two mons of one species, the  *)
(* one whose HP changed.  0 stands for the error of an unresolved name.    *)
SlotForName(name, s, st, changed) ==
  LET m == ActiveMatches(name, s, st)
      moved == {k \in m : <<s, k>> \in changed}
  IN  CASE Cardinality(m) = 1 -> CHOOSE k \in m : TRUE
        [] Cardinality(m) > 1 /\ Cardinality(moved) = 1 -> CHOOSE k \in moved : TRUE
        [] OTHER -> 0

(* _fuzzy_find_team_slots: team members of that name; a name shared by     *)
(* several is narrowed to those that can still be sent out.                *)
TeamSlots(name, s, st) ==
  LET all == {i \in DOMAIN st.team[s] : NameMatches(name, st.team[s][i].sp)}
      free == all \cap LivingBench(st, s)
  IN  IF Cardinality(all) <= 1 \/ free = {} THEN all ELSE free

(* ---------------------------- called moves ----------------------------- *)
IsUse(m) == m.id = "USEDMOVE"
IsWrapper(m) == IsUse(m) /\ m.arg \in DOMAIN MoveData /\ MoveData[m.arg].calls # {}

(* _collapse_metronome_calls: "used Metronome!" followed by the line of    *)
(* the called move becomes one use, tagged with the called move.           *)
CollapseCalls(msgs) ==
  FoldLeft(LAMBDA out, m :
             IF /\ out # <<>> /\ IsWrapper(Last(out)) /\ Last(out).called = None
                /\ IsUse(m) /\ m.side = Last(out).side
             THEN [out EXCEPT ![Len(out)].called = m.arg]
             ELSE Append(out, m),
           <<>>, msgs)

(* ------------------------------ slot maps ------------------------------ *)
UsePositions(m, st) == {<<m.side, k>> : k \in ActiveMatches(m.name, m.side, st)}
ResolvedUses(msgs, st) == {i \in DOMAIN msgs : IsUse(msgs[i]) /\ UsePositions(msgs[i], st) # {}}

(* _resolve_attacker_slot: the cursor gives the n-th use of a shared name  *)
(* the n-th of its slots, round robin.                                     *)
CursorMap(msgs, st) ==
  [i \in ResolvedUses(msgs, st) |->
     LET fits == UsePositions(msgs[i], st)
         earlier == {j \in ResolvedUses(msgs, st) :
                       /\ j < i /\ msgs[j].side = msgs[i].side
                       /\ Cardinality(UsePositions(msgs[j], st)) > 1}
         sorted == SetToSortSeq(fits, LAMBDA p, q : p[2] < q[2])
     IN  IF Cardinality(fits) = 1 THEN sorted[1]
         ELSE sorted[1 + (Cardinality(earlier) % Len(sorted))]]

(* _build_attacker_slot_maps: every assignment of the uses to matching     *)
(* slots in which no slot acts twice.                                      *)
SlotMaps(msgs, st) ==
  LET uses == ResolvedUses(msgs, st)
      maps == {f \in [uses -> Positions(st)] :
                 /\ \A i \in uses : f[i] \in UsePositions(msgs[i], st)
                 /\ \A i, j \in uses : i # j => f[i] # f[j]}
  IN  IF maps = {} THEN {CursorMap(msgs, st)} ELSE maps

UseIndices(msgs, map) ==
  SelectSeq([i \in DOMAIN msgs |-> i], LAMBDA i : i \in DOMAIN map)
(* _message_action_order_with_state *)
Movers(msgs, map) == LET ix == UseIndices(msgs, map) IN [n \in DOMAIN ix |-> map[ix[n]]]

(* The messages of one use: those up to the next use (segments).           *)
SegmentAfter(msgs, i) ==
  LET later == {j \in DOMAIN msgs : j > i /\ IsUse(msgs[j])}
      stop == IF later = {} THEN Len(msgs) + 1 ELSE Min(later)
  IN  SubSeq(msgs, i + 1, stop - 1)

(* message_crit_counts_with_state and _message_hit_counts_with_state: one  *)
(* entry per use, in order.                                                *)
AllUses(msgs) == SelectSeq([i \in DOMAIN msgs |-> i], LAMBDA i : IsUse(msgs[i]))
CritCounts(msgs) ==
  [n \in DOMAIN AllUses(msgs) |->
     Len(SelectSeq(SegmentAfter(msgs, AllUses(msgs)[n]), LAMBDA m : m.id = "CRITICALHIT"))]
HitCounts(msgs) ==
  [n \in DOMAIN AllUses(msgs) |->
     LET told == SelectSeq(SegmentAfter(msgs, AllUses(msgs)[n]), LAMBDA m : m.id = "HITXTIMES")
     IN  IF told = <<>> THEN 1 ELSE Last(told).arg]

(* ---------------------------- known actions ---------------------------- *)
MoveSlots(name, mon) == {m \in DOMAIN MovesOf[mon.sp] : MovesOf[mon.sp][m] = name}
SameAction(a, b) == a.kind = b.kind /\ a.slot = b.slot /\ a.to = b.to

(* The action a use shows, or NoAct when the tracked mon cannot have done   *)
(* it (UnreproducibleObservedMoveError): move unknown to it, or illegal.   *)
ObservedMove(m, p, st) ==
  LET slots == IF m.arg = "STRUGGLE" THEN {STRUGGLE_SLOT}
               ELSE MoveSlots(m.arg, ActiveMon(st, p))
      acts == {MoveAct(x, 1) : x \in slots}
      legal == {a \in acts : \E b \in enumerate_legal_actions(st, p) : SameAction(a, b)}
  IN  IF legal = {} THEN NoAct ELSE CHOOSE a \in legal : TRUE

NoneKnown(st) == [s \in Side |-> [k \in Slots(st, s) |-> NoAct]]

(* The error's text names the local move_slot, which a Struggle leaves     *)
(* unbound: unless an earlier use of the loop has bound it, building the   *)
(* text fails and takes the whole sweep with it.                           *)
NoteUse(acc, i, m, map, st) ==
  IF i \notin DOMAIN map \/ acc.known[map[i][1]][map[i][2]] # NoAct THEN acc
  ELSE LET act == ObservedMove(m, map[i], st)
           bound == acc.bound \/ m.arg # "STRUGGLE"
       IN  IF act = NoAct THEN [acc EXCEPT !.err = IF bound THEN "filtered" ELSE "crash"]
           ELSE [acc EXCEPT !.known[map[i][1]][map[i][2]] = act, !.bound = bound]

(* A send-out after a faint of its side replaces the fainted mon and is    *)
(* not an action; any other one is a voluntary switch.                     *)
NoteSwitch(acc, m, st) ==
  LET slots == TeamSlots(m.name, m.side, st)
  IN  CASE acc.pending[m.side] > 0 -> [acc EXCEPT !.pending[m.side] = @ - 1]
        [] \E k \in Slots(st, m.side) : acc.known[m.side][k] # NoAct -> acc
        [] Cardinality(slots) # 1 -> [acc EXCEPT !.err = IF slots = {} THEN "fatal" ELSE "crash"]
        [] OTHER -> [acc EXCEPT !.known[m.side][1] = SwitchAct(CHOOSE i \in slots : TRUE)]

(* _extract_known_actions: [known, pending, bound, err].                   *)
ExtractKnownActions(msgs, st, map) ==
  FoldLeft(LAMBDA acc, i :
             CASE acc.err # None -> acc
               [] msgs[i].id = "FAINTED" -> [acc EXCEPT !.pending[msgs[i].side] = @ + 1]
               [] IsUse(msgs[i]) -> NoteUse(acc, i, msgs[i], map, st)
               [] msgs[i].id = "SWITCHINMON" -> NoteSwitch(acc, msgs[i], st)
               [] OTHER -> acc,
           [known |-> NoneKnown(st), pending |-> [s \in Side |-> 0],
            bound |-> FALSE, err |-> None],
           [i \in DOMAIN msgs |-> i])

(* _validate_known_opponent_action: an opponent's action the AI gives no   *)
(* probability rules the candidate out, except after a faint.              *)
OpponentPlausible(known, st) ==
  \/ FaintedSlots(st, 1) # {}
  \/ LET possible == UNION {AiMayPlay(st, <<1, k>>) : k \in Slots(st, 1)}
     IN  \A k \in Slots(st, 1) : known[1][k] # NoAct =>
           \E a \in possible : SameAction(a, known[1][k])

(* _validate_forced_opponent_switch: in singles the replacement, whose     *)
(* name must be that of one mon, is the AI's pick.                         *)
ForcedSwitches(msgs, st) ==
  LET sent == SelectSeq(msgs, LAMBDA m : m.id = "SWITCHINMON" /\ m.side = 1)
  IN  IF Len(st.act[1]) = 1 /\ FaintedSlots(st, 1) # {} /\ sent # <<>>
      THEN TeamSlots(sent[1].name, 1, st) ELSE {}
ForcedSwitchPlausible(msgs, st) ==
  LivingBench(st, 1) # {} => ForcedSwitches(msgs, st) \subseteq {AiPick(st)}

(* _opponent_switch_in_actions: one branch per choice of the team slots    *)
(* the opponent's send-outs may name.                                      *)
OppSwitchBranches(msgs, st) ==
  LET sent == SelectSeq(msgs, LAMBDA m : m.id = "SWITCHINMON" /\ m.side = 1)
  IN  {f \in [DOMAIN sent -> DOMAIN st.team[1]] :
         \A n \in DOMAIN sent : f[n] \in TeamSlots(sent[n].name, 1, st)}

(* --------------------------- candidate actions ------------------------- *)
(* _foe_damaged_slots: the foe slots that ended the turn with less HP than *)
(* they began it with, the first slot if there are none.                   *)
FoeDamagedSlots(st, s, damaged) ==
  LET hit == {k \in Slots(st, Foe(s)) : <<Foe(s), k>> \in damaged}
  IN  IF hit = {} THEN {1} ELSE hit

(* _expand_action_targets (doubles): a single-target damaging move is      *)
(* tried on each of those slots.                                           *)
ExpandTargets(a, p, st, damaged) ==
  IF a.kind # "move" THEN {a}
  ELSE LET mv == MoveOf(ActiveMon(st, p), a)
       IN  IF mv.spread \/ mv.power = 0 THEN {[a EXCEPT !.target = 1]}
           ELSE {[a EXCEPT !.target = t] : t \in FoeDamagedSlots(st, p[1], damaged)}

BaseActions(p, st, known) == IF known # NoAct THEN {known} ELSE enumerate_legal_actions(st, p)
SlotVariants(p, st, known, damaged) ==
  IF Len(st.act[p[1]]) = 1 THEN BaseActions(p, st, known)
  ELSE UNION {ExpandTargets(a, p, st, damaged) : a \in BaseActions(p, st, known)}

(* In doubles a spread move cannot be tried for a mover that hit more than *)
(* once.                                                                   *)
HitsTold(msgs, map, p) ==
  LET own == {n \in DOMAIN HitCounts(msgs) : n \in DOMAIN Movers(msgs, map) /\ Movers(msgs, map)[n] = p}
  IN  IF own = {} THEN 1 ELSE HitCounts(msgs)[Max(own)]
SpreadMultiHit(msgs, map, st, known) ==
  \E p \in Positions(st) :
    /\ Len(st.act[p[1]]) = 2 /\ HitsTold(msgs, map, p) > 1
    /\ \E a \in BaseActions(p, st, known[p[1]][p[2]]) : a.kind = "move" /\ MoveOf(ActiveMon(st, p), a).spread

(* _build_side_candidates: the actions of a side's slots, as sequences.    *)
SideCandidates(s, st, known, damaged) ==
  IF Len(st.act[s]) = 1 THEN {<<a>> : a \in SlotVariants(<<s, 1>>, st, known[s][1], damaged)}
  ELSE {<<a, b>> : a \in SlotVariants(<<s, 1>>, st, known[s][1], damaged),
                   b \in SlotVariants(<<s, 2>>, st, known[s][2], damaged)}

(* _sweep_resolve_candidate_actions at a party prompt: a side with a       *)
(* fainted active mon has its replacement, the other side no action.       *)
ReplacementOf(s, st, known) ==
  LET told == {k \in Slots(st, s) : known[s][k] # NoAct}
  IN  IF FaintedSlots(st, s) = {} THEN <<>> ELSE <<known[s][CHOOSE k \in told : TRUE]>>

CandidateActionsError(msgs, st, map, known) ==
  CASE ~has_fainted_active(st) -> IF SpreadMultiHit(msgs, map, st, known) THEN "fatal" ELSE None
    [] \E i \in DOMAIN msgs : IsUse(msgs[i]) -> "filtered"
    [] \E s \in Side : /\ FaintedSlots(st, s) # {}
                       /\ \A k \in Slots(st, s) : known[s][k] = NoAct -> "fatal"
    [] OTHER -> None

CandidateActions(s, st, known, damaged) ==
  IF has_fainted_active(st) THEN {ReplacementOf(s, st, known)}
  ELSE SideCandidates(s, st, known, damaged)
=============================================================================
