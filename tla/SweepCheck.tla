----------------------------- MODULE SweepCheck -----------------------------
(***************************************************************************)
(* Whether a simulated turn agrees with what was seen:                     *)
(* liveplay/sweep_reconcile.py.  The player's HP is read as a number, the  *)
(* opponent's as the length of a bar of Pixels pixels (48 in the game).    *)
(* An HP record is [side, sp, slot, deltas, max], deltas a sequence of     *)
(* pairs of consecutive readings.                                          *)
(***************************************************************************)
EXTENDS SweepInject

CONSTANT Pixels

ASSUME PixelsAssumption == Pixels \in Nat \ {0}

CeilDiv(a, b) == (a + b - 1) \div b

(* hp_range: the HP values a bar of k pixels is taken to stand for.        *)
hp_range(k, max) ==
  IF k = 0 THEN <<0, 0>>
  ELSE LET top == CeilDiv((k + 1) * max, Pixels) - 1
       IN  <<CeilDiv(k * max, Pixels), IF top < max THEN top ELSE max>>

(* _hp_to_k: the bar the game draws.                                       *)
hp_to_k(hp, max) ==
  IF hp <= 0 THEN 0
  ELSE LET k == (hp * Pixels) \div max IN IF k < 1 THEN 1 ELSE k

Within(x, range) == range[1] <= x /\ x <= range[2]
Reading(side, hp, max) == IF side = 0 THEN hp ELSE hp_to_k(hp, max)

LastOf(rec) == rec.deltas[Len(rec.deltas)][2]

(* Mistake: a species that is twice on a team is never resolved.           *)
SpeciesOnly(st, rec) ==
  LET same == {i \in DOMAIN st.team[rec.side] : st.team[rec.side][i].sp = rec.sp}
  IN  IF Cardinality(same) = 1 THEN CHOOSE i \in same : TRUE ELSE 0

(* _resolve_record_team_idx: the team member a record is about; of several *)
(* of its species the one that fainted, else the active one.  0 aborts.    *)
RecordIdx(st, rec) ==
  LET same == {i \in DOMAIN st.team[rec.side] : st.team[rec.side][i].sp = rec.sp}
      fallen == {i \in same : Fainted(st.team[rec.side][i])}
      active == IF rec.slot \in Slots(st, rec.side) THEN st.act[rec.side][rec.slot] ELSE 0
  IN  CASE Cardinality(same) = 1 -> CHOOSE i \in same : TRUE
        [] LastOf(rec) = 0 /\ Cardinality(fallen) = 1 -> CHOOSE i \in fallen : TRUE
        [] active \in same -> active
        [] OTHER -> 0

(* _hp_match_detail: the last reading of every record fits.                *)
HpMatch(st, recs) ==
  \A n \in DOMAIN recs :
    LET rec == recs[n]
        hp == st.team[rec.side][RecordIdx(st, rec)].hp
    IN  IF rec.side = 0 THEN hp = LastOf(rec)
        ELSE Within(hp, hp_range(LastOf(rec), rec.max))

(* _HP_CHANGE_EVENTS, with their signs.                                    *)
_HP_CHANGE_EVENTS == [DAMAGE |-> -1, HEAL |-> 1, HIT_SELF_CONFUSION |-> -1]
IsHpChange(e) == e.ev \in DOMAIN _HP_CHANGE_EVENTS /\ e.n > 0

(* _sim_hp_changes, replayed backwards from the final HP.                  *)
Trajectory(st, log, rec) ==
  LET changes == SelectSeq(log, LAMBDA e : IsHpChange(e) /\ e.sp = rec.sp /\ e.side = rec.side)
      final == st.team[rec.side][RecordIdx(st, rec)].hp
      Later(i) == FoldLeft(LAMBDA sum, e : sum - _HP_CHANGE_EVENTS[e.ev] * e.n, 0, SubSeq(changes, i, Len(changes)))
  IN  [i \in 1 .. Len(changes) + 1 |-> final + Later(i)]

Moves(seq) == Cardinality({i \in 1 .. Len(seq) - 1 : seq[i] # seq[i + 1]})

(* _hp_count_detail: as many changes of the bar as were seen, for the mons *)
(* whose replayed start is the one that was seen.                          *)
HpCount(st, log, recs) ==
  \A n \in DOMAIN recs :
    LET rec == recs[n]
        traj == Trajectory(st, log, rec)
        bars == [i \in DOMAIN traj |-> Reading(rec.side, traj[i], rec.max)]
        seen == Cardinality({i \in DOMAIN rec.deltas : rec.deltas[i][1] # rec.deltas[i][2]})
    IN  bars[1] = rec.deltas[1][1] => Moves(bars) = seen

(* ------------------------------ log events ----------------------------- *)
Logged(log, ev) == \E i \in DOMAIN log : log[i].ev = ev
Said(msgs, id) == \E i \in DOMAIN msgs : msgs[i].id = id

(* The events a message requires of the simulated log.                     *)
Requires ==
  [CRITICALHIT |-> "CRIT", PKMNFLINCHED |-> "CANT_FLINCH",
   PKMNISPARALYZED |-> "CANT_PARALYSIS", PKMNFASTASLEEP |-> "CANT_SLEEP",
   ITHURTCONFUSION |-> "HIT_SELF_CONFUSION", ATTACKMISSED |-> "MOVE_MISS"]
PresenceOk(msgs, log) == \A id \in DOMAIN Requires : Said(msgs, id) => Logged(log, Requires[id])

(* An effect message needs the event on the mon it names: a status, a stat *)
(* that fell, confusion.                                                   *)
EffectEvent == [PKMNWASPARALYZED |-> "STATUS_APPLY", DEFENDERSSTATFELL |-> "STAT_BOOST",
                PKMNWASCONFUSED |-> "VOLATILE_APPLY"]
_event_attributed_to(log, ev, m) ==
  \E j \in DOMAIN log : log[j].ev = ev /\ log[j].side = m.side /\ NameMatches(m.name, log[j].sp)
Attributed(msgs, log, id) ==
  \A i \in DOMAIN msgs : msgs[i].id = id => _event_attributed_to(log, EffectEvent[id], msgs[i])
EffectsOk(msgs, log) == \A id \in DOMAIN EffectEvent : Attributed(msgs, log, id)

(* The count of hits of the last user before the message.                  *)
HitCountOk(msgs, log) ==
  \A i \in DOMAIN msgs : msgs[i].id = "HITXTIMES" =>
    LET user == msgs[Max({j \in 1 .. i - 1 : IsUse(msgs[j])})]
    IN  msgs[i].arg = Cardinality({j \in DOMAIN log :
          log[j].ev = "HITCOUNT" /\ log[j].side = user.side /\ NameMatches(user.name, log[j].sp)})

(* With no reading of any opponent bar, no move may have hurt that side.   *)
_total_side_move_damage(log, s) ==
  FoldLeft(LAMBDA sum, e : IF e.ev = "DAMAGE" /\ e.side = s /\ e.arg[1] = "move" THEN sum + e.n ELSE sum,
           0, log)
NoChangeOk(log, recs) ==
  (\A n \in DOMAIN recs : recs[n].side = 0) => _total_side_move_damage(log, 1) = 0

(* As many berries eaten on each side as the messages tell.                *)
HealsOk(msgs, log) ==
  \A s \in Side : Cardinality({i \in DOMAIN msgs : msgs[i].id = "PKMNSITEMRESTOREDHEALTH" /\ msgs[i].side = s})
                  = Cardinality({j \in DOMAIN log : log[j].ev = "HEAL" /\ log[j].side = s})

CountOf(log, ev) == Cardinality({j \in DOMAIN log : log[j].ev = ev})
ExperienceOk(msgs, log) ==
  /\ Cardinality({i \in DOMAIN msgs : msgs[i].id = "PKMNGAINEDEXP"}) = CountOf(log, "EXP_GAIN")
  /\ \A j \in DOMAIN log : log[j].ev = "LEVEL_UP" =>
       \E i \in DOMAIN msgs : msgs[i].id = "PKMNGREWTOLV" /\ msgs[i].arg = log[j].n

(* _faint_skeleton_consistent: once a mon faints, moves and faints come in *)
(* the same order, and the same mons faint.                                *)
ObservedSkeleton(msgs) == SelectSeq(msgs, LAMBDA m : m.id \in {"USEDMOVE", "FAINTED"})
SimSkeleton(log) == SelectSeq(log, LAMBDA e : e.ev \in {"MOVE_USE", "FAINT"})
FaintsOk(msgs, log) ==
  LET o == ObservedSkeleton(msgs)
      s == SimSkeleton(log)
  IN  (Said(msgs, "FAINTED") \/ Logged(log, "FAINT")) =>
        /\ Len(o) = Len(s)
        /\ \A i \in DOMAIN o : /\ (o[i].id = "FAINTED") = (s[i].ev = "FAINT")
                               /\ o[i].id = "FAINTED" => /\ o[i].side = s[i].side
                                                         /\ NameMatches(o[i].name, s[i].sp)

check_log_events(msgs, log, recs) ==
  /\ PresenceOk(msgs, log)
  /\ EffectsOk(msgs, log)
  /\ HitCountOk(msgs, log)
  /\ NoChangeOk(log, recs)
  /\ HealsOk(msgs, log)
  /\ ExperienceOk(msgs, log)
  /\ FaintsOk(msgs, log)

(* _check_action_order: the sides of the moves seen start those simulated. *)
ActionOrderOk(log, sides) ==
  IsPrefix(sides, LET used == SelectSeq(log, LAMBDA e : e.ev = "MOVE_USE")
                  IN  [i \in DOMAIN used |-> used[i].side])

(* ------------------------- observed corrections ------------------------ *)
(* _apply_observed_wrap_release (_apply_observed_rampage_end works alike): *)
(* the active mons of a side whose release was seen are not bound.         *)
ReleaseObserved(st, msgs) ==
  [st EXCEPT !.team = [s \in Side |->
     IF ~\E i \in DOMAIN msgs : msgs[i].id = "PKMNFREEDFROM" /\ msgs[i].side = s THEN @[s]
     ELSE [j \in DOMAIN @[s] |->
             IF j \in Range(st.act[s]) THEN [@[s][j] EXCEPT !.bind = 0] ELSE @[s][j]]]]

(* _apply_observed_levelups: the one player mon of that name below the     *)
(* highest level seen for it is raised to it.                              *)
LevelsSeen(msgs, name) ==
  {msgs[i].arg : i \in {j \in DOMAIN msgs : msgs[j].id = "PKMNGREWTOLV" /\ msgs[j].name = name}}
Behind(st, msgs, i) ==
  LET mon == st.team[0][i]
      seen == LevelsSeen(msgs, mon.sp)
  IN  seen # {} /\ mon.lvl < Max(seen)
LevelUpsObserved(st, msgs) ==
  [st EXCEPT !.team[0] = [i \in DOMAIN @ |->
     IF Behind(st, msgs, i) THEN Grown(@[i], Max(LevelsSeen(msgs, @[i].sp))) ELSE @[i]]]
LevelUpAmbiguous(st, msgs) ==
  \E i, j \in DOMAIN st.team[0] : /\ i # j /\ Behind(st, msgs, i) /\ Behind(st, msgs, j)
                                  /\ st.team[0][i].sp = st.team[0][j].sp
=============================================================================
