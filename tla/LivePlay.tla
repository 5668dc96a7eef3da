------------------------------ MODULE LivePlay ------------------------------
(***************************************************************************)
(* The live play loop: SCRIPTS/play.py and SCRIPTS/stress_test.py over the *)
(* screen reader, the message matcher, the HP buffers, battle_input.py and *)
(* battle_policy.py.  The game runs on its own; the loop sees it only in   *)
(* the frames it captures and acts on it only through keys.                *)
(***************************************************************************)
EXTENDS BattleScreen

CONSTANTS
  Modes,        \* pairs of what runs the loop, "play" or "stress", and whether a key
                \* press always registers, "reliable", or may not, "lossy"
  MaxEvents,    \* bound on the key events of the user
  Quits,        \* the kinds of scene at which the user turns to another battle
  Misses,       \* what the captures may miss once in a battle
  StuckLimit    \* captures of one unchanged menu that stand for 10 seconds

ASSUME BoundsAssumption == /\ Modes \subseteq {"play", "stress"} \X {"reliable", "lossy"}
                           /\ MaxEvents \in Nat /\ Misses \subseteq {"unseen", "merged", "unheld", "slow"} /\ StuckLimit \in Nat \ {0}

VARIABLES
  driver, keys,
  game,       \* external: the scenes to come, the mons, and what was told and held since the last boundary
  loop,       \* the locals of main()
  pc,         \* "recv", "press" after a capture, "tapped": back at recv_event from a tap of B
  missed,     \* what the captures of this battle missed
  events,     \* user events so far
  handed,     \* the last sweep's inputs beside what the game had shown
  decided     \* the last selection: what the policy chose, what was sent, on what state

vars == <<driver, keys, game, loop, pc, missed, events, handed, decided>>

(* ------------------------------- frames -------------------------------- *)
Scene == Head(game.script)
Reads == [t \in {Revealed(m, n) : m \in Messages, n \in 0..Full} \cup {Prompt[n] : n \in ToSet(Names)} \cup {MoveBox}
            |-> Words(read_battle_message(t))]
NameRead == [n \in ToSet(Names) \cup {"Karp"} |-> read_name(n, LEVEL)]
BarRead == [k \in 0..Pixels |-> read_opponent_hp_bar(BarRow(k, FALSE))]
MovingRead == read_opponent_hp_bar(BarRow(Pixels, TRUE))
HpRead == [h \in 0..MaxHp |-> read_player_hp(h, MaxHp)]
PromptRead == read_party_prompt(PartyPrompt)

BoxText == CASE Scene.k = "text" -> Revealed(Scene.m, game.shown)
                [] Scene.k = "menu" -> Prompt[Names[game.pl]]
                [] Scene.k = "moves" -> MoveBox
                [] OTHER -> <<>>
OnParty == Scene.k = "party" /\ game.shown = Full
Boxes == ~OnParty /\ Scene.k # "over"       \* the HP boxes are on the screen

(* What the HP boxes show; while HP runs down, a value in between.         *)
Running == Scene.k \in {"foeHp", "plHp"} /\ game.shown = 1
ShownHp(side) == IF side = 1 THEN game.hp[1][game.pl] ELSE game.hp[2][game.foe]
Between(a, b) == (a + b) \div 2
PlShown == IF Running /\ Scene.k = "plHp" THEN Between(ShownHp(1), Scene.hp) ELSE ShownHp(1)
FoeShown == IF Running /\ Scene.k = "foeHp"
            THEN Between(BarPixels(ShownHp(2), MaxHp), BarPixels(Scene.hp, MaxHp)) ELSE BarPixels(ShownHp(2), MaxHp)

Frame == [words |-> Reads[BoxText], prompt |-> OnParty /\ PromptRead,
          foe |-> IF Boxes THEN NameRead["Karp"] ELSE None,
          k |-> IF Running /\ Scene.k = "foeHp" /\ game.mixed THEN MovingRead ELSE BarRead[FoeShown],
          pl |-> IF Boxes THEN NameRead[Names[game.pl]] ELSE None, hp |-> HpRead[PlShown]]

(* ----------------------------- message matcher ------------------------- *)
Constraint == {NoConstraints, BuildConstraints(TRAINER, _build_battle_state(TRAINER, PartyLines(InitHp[1])))}
Readable == Range(Reads) \ {<<>>}
_finalize == [c \in Constraint |-> [ws \in Readable |-> _try_full_match(_preprocess_ocr(ws), c)]]
Screens == [ws \in Readable |-> _detect_screen_type(ws)]

WHAT == [INTROMSG |-> "challenge", USEDMOVE |-> "used", ATTACKERFAINTED |-> "fainted", TARGETFAINTED |-> "fainted",
         ATTACKERSSTATFELL |-> "fell", DEFENDERSSTATFELL |-> "fell", CRITICALHIT |-> "critical",
         RETURNMON |-> "back", PLAYER_INTROSENDOUT |-> "go", PLAYER_SWITCHINMON |-> "go",
         INTROSENDOUT |-> "sent", SWITCHINMON |-> "sent", NOPPLEFT |-> "noPP", BATTLEEND |-> "defeated",
         PLAYERWHITEOUT2 |-> "whited"]
(* The message a match result stands for.                                  *)
Meaning(r) ==
  LET what == WHAT[r.id]
      sided == what \in {"used", "fainted", "fell"}
      named == DOMAIN r.sides
  IN  Say(what, IF sided THEN r.sides[1] ELSE 2, IF named = {} THEN None ELSE r.vals[Max(named)][1],
          IF what \in {"used", "fell"} THEN r.vals[2][1] ELSE None)

_is_prefix(a, b) == IsPrefix(Joined(a), Joined(b))

(* process on a text frame: what was pending is finalized when the new     *)
(* text does not continue it.  Finalized is a set; "unknown" stands for    *)
(* UnknownMessageError.                                                    *)
OrUnknown(rs) == IF rs = {} THEN {[id |-> "unknown"]} ELSE rs
Final(p) == OrUnknown(_finalize[p.c][p.words])
Broken(L, ws) == \E p \in L.pending : ~_is_prefix(p.words, ws)
Hold(L, ws) == [L EXCEPT !.pending = {[words |-> ws, c |-> _make_constraints_for_active(L.state, L.cons)]}]

(* ------------------------------- HP logs ------------------------------- *)
Required == 2
NewBuffer == [cand |-> NoNumber, streak |-> 0, conf |-> NoNumber]
Put(f, k, v) == [x \in DOMAIN f \cup {k} |-> IF x = k THEN v ELSE f[x]]
Get(f, k, v) == IF k \in DOMAIN f THEN f[k] ELSE v

(* StabilityBuffer.update                                                  *)
Update(b, v) ==
  IF v = NoNumber \/ v # b.cand THEN [b EXCEPT !.cand = v, !.streak = IF v = NoNumber THEN 0 ELSE 1]
  ELSE LET n == Min({b.streak + 1, Required})
       IN  [b EXCEPT !.streak = n, !.conf = IF n >= Required THEN v ELSE @]

Nearest(name, known) ==
  {s \in known : /\ Lev(<<s>>, <<name>>) <= Max({2, Len(name) \div 4})
                 /\ \A t \in known : Lev(<<s>>, <<name>>) <= Lev(<<t>>, <<name>>)}

(* _canonical_team_key: an exact name, else the nearest within the         *)
(* threshold, else none (an exception); any name before the team is known. *)
ExactOrNear(name, known) == IF name \in known THEN {name} ELSE Nearest(name, known)
_canonical_team_key(name, team) ==
  IF team = <<>> THEN {name} ELSE ExactOrNear(name, {emulator_species_name(team[i].species) : i \in DOMAIN team})
(* _resolve_team_mon for a canonical key: the first mon shown so.          *)
_resolve_team_mon(team, key) ==
  team[Min({i \in DOMAIN team : emulator_species_name(team[i].species) = key})].species

Logged(log, v) == IF log # <<>> /\ Last(log) = v THEN log ELSE Append(log, v)
Buffered(L, side, key, old, new) ==
  [L EXCEPT !.bufs[side] = Put(@, key, new),
            !.logs[side] = IF new.conf # old.conf THEN Put(@, key, Logged(Get(@, key, <<>>), new.conf)) ELSE @]
ObserveKey(L, side, key, old, v) == Buffered(L, side, key, old, Update(old, v))
ObserveOne(L, side, key, v) == ObserveKey(L, side, key, Get(L.bufs[side], key, NewBuffer), v)
ObserveIn(L, side, ks, v) == IF ks = {} THEN [L EXCEPT !.status = "crashed"]
                             ELSE ObserveOne(L, side, CHOOSE k \in ks : TRUE, v)
Observe(L, side, name, v) == IF name = None THEN L
                             ELSE ObserveIn(L, side, _canonical_team_key(name, L.state.team[side]), v)

(* Reset the logs and buffers of a side under the given keys.              *)
ResetHp(L, side, ks) ==
  [L EXCEPT !.logs[side] = [x \in DOMAIN @ \cup ks |-> IF x \in ks THEN <<>> ELSE @[x]],
            !.bufs[side] = [x \in DOMAIN @ |-> IF x \in ks THEN NewBuffer ELSE @[x]]]

(* HpDeltaSeq: the changes of one mon, from its log.                       *)
HpDeltaSeq(side, species, log) ==
  [side |-> side, species |-> species, deltas |-> [i \in 1..(Len(log) - 1) |-> <<log[i], log[i + 1]>>]]
Recorded(side, species, log) == IF Len(log) < 2 THEN <<>> ELSE <<HpDeltaSeq(side, species, log)>>
(* Mutant: the replacement's readings stay in the record.                  *)
WholeLog(log, species) == Recorded(1, species, log)
(* build_faint_record_from_klog: cut after the first empty bar.            *)
build_faint_record_from_klog(log, species) ==
  LET zeros == {i \in DOMAIN log : log[i] = 0}
  IN  Recorded(1, species, IF zeros = {} THEN log ELSE SubSeq(log, 1, Min(zeros)))

(* ------------------------------ turn sweep ----------------------------- *)
(* Mutant: every message makes a turn.                                     *)
AnyMessage(turn) == turn # <<>>
turn_has_real_action(turn) == \E i \in DOMAIN turn : turn[i].id # "NOPPLEFT"

(* _select_active_opp_klog: the active foe's log, none when logs exist but *)
(* no key is near the name (an exception).                                 *)
_select_active_opp_klog(logs, name) ==
  IF DOMAIN logs = {} THEN {<<>>}
  ELSE {logs[k] : k \in ExactOrNear(name, DOMAIN logs)}

(* The truth the sweep infers when its inputs are right (see Sweep).       *)
Truth == [team |-> [s \in 1..2 |-> [i \in 1..2 |-> [TrueTeam[s][i] EXCEPT !.hp = game.hp[s][i]]]],
          active |-> <<game.pl, game.foe>>]

Reseed(L) == [L EXCEPT !.logs = [s \in 1..2 |-> [k \in DOMAIN L.bufs[s] |->
                 IF L.bufs[s][k].conf = NoNumber THEN <<>> ELSE <<L.bufs[s][k].conf>>]]]
PlayerRecords(L) ==
  FlattenSeq(SetToSeq({Recorded(0, _resolve_team_mon(L.state.team[1], k), L.logs[1][k]) : k \in DOMAIN L.logs[1]}))

(* The opening messages are no turn: the sweep keeps the states.           *)
Opening(turn) == \E i \in DOMAIN turn : turn[i].id = "INTROMSG"

(* _run_turn_sweep.  o: how the sweep ends; "halt" is an exception after   *)
(* the error dump, "stale" keeps a state the turn refutes.                 *)
Swept(L, recs) ==
  [L EXCEPT !.deltas = <<>>, !.swept = <<[msgs |-> [i \in DOMAIN L.turn |-> L.turn[i].msg], recs |-> recs]>>]
SweepTo(L, o) ==
  CASE o = "halt" -> [L EXCEPT !.status = "crashed", !.dumped = TRUE]
    [] o = "stale" -> Reseed(L)
    [] OTHER -> Reseed([L EXCEPT !.state = IF Opening(L.turn) THEN @ ELSE Truth])
SweepWith(L, o, foe, klog) ==
  IF ~L.recorder \/ klog = {} THEN [L EXCEPT !.status = "crashed"]
  ELSE SweepTo(Swept(L, L.deltas \o Recorded(1, foe, CHOOSE l \in klog : TRUE) \o PlayerRecords(L)), o)
ActiveFoe(L) == L.state.team[2][L.state.active[2]].species
_run_turn_sweep(L, o) ==
  IF L.turn = <<>> \/ ~L.tracker THEN L
  ELSE SweepWith(L, o, ActiveFoe(L), _select_active_opp_klog(L.logs[2], emulator_species_name(ActiveFoe(L))))

TurnOver(L) == IF L.status = "crashed" THEN L ELSE [L EXCEPT !.turn = <<>>]
_finalize_turn_boundary(L, o) == TurnOver(IF turn_has_real_action(L.turn) THEN _run_turn_sweep(L, o) ELSE L)

(* _record_match                                                           *)
_PLAYER_SWITCH_IN_IDS == {"PLAYER_SWITCHINMON", "PLAYER_INTROSENDOUT"}
_OPPONENT_SWITCH_IN_IDS == {"SWITCHINMON", "INTROSENDOUT"}
_PLAYER_NAME_SLOTS == {"B_BUFF1"}
_OPP_NAME_SLOTS == {"B_OPPONENT_MON1_NAME", "B_BUFF1"}
(* Mutant: a faint ends the battle.                                        *)
FaintEnds == {"BATTLEEND", "PLAYERWHITEOUT2", "TARGETFAINTED"}
_BATTLE_END_IDS == {"BATTLEEND", "PLAYERWHITEOUT2"}
KeysIn(L, side, r, slots) ==
  UNION {_canonical_team_key(r.vals[k][1], L.state.team[side]) : k \in {j \in DOMAIN r.vals : r.labels[j] \in slots}}

PlayerSwitchIn(L, r) ==
  IF r.id \in _PLAYER_SWITCH_IN_IDS THEN ResetHp(L, 1, KeysIn(L, 1, r, _PLAYER_NAME_SLOTS)) ELSE L
FaintRecords(L, ks) ==
  IF L.state.active[2] = 0 THEN <<>>
  ELSE FlattenSeq(SetToSeq({build_faint_record_from_klog(Get(L.logs[2], k, <<>>), ActiveFoe(L)) : k \in ks}))
FoesReplaced(L, ks) == ResetHp([L EXCEPT !.deltas = @ \o FaintRecords(L, ks)], 2, ks)
OpponentSwitchIn(L, r) ==
  IF r.id \in _OPPONENT_SWITCH_IN_IDS THEN FoesReplaced(L, KeysIn(L, 2, r, _OPP_NAME_SLOTS)) ELSE L
BattleOver(L) == IF L.status = "crashed" THEN L ELSE [L EXCEPT !.turn = <<>>, !.ended = TRUE]
MatchNoted(L, id, o) == IF id \in _BATTLE_END_IDS THEN BattleOver(_run_turn_sweep(L, o)) ELSE L
_record_match(L, r, o) ==
  IF r.id = "unknown" THEN [L EXCEPT !.status = "crashed"]
  ELSE MatchNoted(OpponentSwitchIn(PlayerSwitchIn(
         [L EXCEPT !.turn = Append(@, [id |-> r.id, msg |-> Meaning(r)])], r), r), r.id, o)

RecordAll(L, rs, o) == IF rs = {} THEN L ELSE _record_match(L, CHOOSE r \in rs : TRUE, o)
FinalOf(ps) == UNION {Final(p) : p \in ps}
Flushed(L, o) == IF L.ended \/ L.status = "crashed" THEN L ELSE _finalize_turn_boundary(L, o)
AtBoundary(L, o) == Flushed(RecordAll([L EXCEPT !.pending = {}], FinalOf(L.pending), o), o)

(* _do_capture on one frame.                                               *)
ScreenOf(f) == CASE f.words # <<>> -> Screens[f.words] [] f.prompt -> "PARTY_MENU" [] OTHER -> None
MENUS == {"OPTION_SELECT", "PARTY_MENU"}
ProcessFrame(L, ws, kind, o) ==
  IF L.status = "crashed" \/ kind = "MOVE_SELECT" \/ (kind = None /\ ws = <<>>) THEN L
  ELSE IF kind \in MENUS THEN AtBoundary(L, o)
  ELSE RecordAll(Hold(L, ws), IF Broken(L, ws) THEN FinalOf(L.pending) ELSE {}, o)
_do_capture(L, f, kind, o) == ProcessFrame(Observe(Observe(L, 2, f.foe, f.k), 1, f.pl, f.hp), f.words, kind, o)

(* ------------------------------- the game ------------------------------ *)
(* External.  told and held: the messages shown and the HP values held     *)
(* since the last menu; seen: how often the value now shown was captured.  *)
HeldNow(g) == [foe |-> <<BarPixels(g.hp[2][g.foe], MaxHp)>>, pl |-> [i \in 1..2 |-> <<g.hp[1][i]>>]]
NewGame ==
  LET g == [script |-> Intro, shown |-> 0, cap |-> {}, foe |-> 1, pl |-> 1, hp |-> InitHp, mixed |-> FALSE,
            seen |-> <<0, 0>>, told |-> <<>>, held |-> <<>>]
  IN  [g EXCEPT !.held = HeldNow(g)]
Boundary(g) == [g EXCEPT !.told = <<>>, !.held = HeldNow(g)]
Play(g, script) == [g EXCEPT !.script = script, !.shown = 0, !.cap = {}]
Pass(g) == Play(g, Tail(g.script))

(* What may go by unnoticed: a text never captured in full; a text equal   *)
(* to the one before it, never captured while it grew; an HP value not     *)
(* captured often enough before it changes or a menu comes.                *)
Changed(g) == {s \in 1..2 : IF s = 1 THEN \E i \in 1..2 : Len(g.held.pl[i]) > 1 ELSE Len(g.held.foe) > 1}
TextMiss(g) == LET m == Head(g.script).m
               IN  IF Full \notin g.cap THEN {"unseen"}
                   ELSE IF g.told # <<>> /\ Last(g.told) = m /\ 1 \notin g.cap THEN {"merged"} ELSE {}
Unheld(g, side, times) == IF g.seen[side] < times THEN {"unheld"} ELSE {}
MenuMiss(g) ==
  CASE Len(g.script) > 1 /\ g.script[2].k = "menu" -> UNION {Unheld(g, s, 1) : s \in Changed(g)}
    [] Len(g.script) > 1 /\ g.script[2].k = "party" -> UNION {Unheld(g, s, 2) : s \in Changed(g)}
    [] OTHER -> {}

AfterText(g) == Pass([g EXCEPT !.told = Append(@, Head(g.script).m)])
Apply(g) ==
  LET h == Head(g.script).hp
  IN  IF Head(g.script).k = "foeHp"
      THEN [g EXCEPT !.shown = Full, !.cap = {}, !.hp[2][g.foe] = h, !.seen[2] = 0, !.mixed = FALSE,
                     !.held.foe = Append(@, BarPixels(h, MaxHp))]
      ELSE [g EXCEPT !.shown = Full, !.cap = {}, !.hp[1][g.pl] = h, !.seen[1] = 0,
                     !.held.pl[g.pl] = Append(@, h)]

(* One step the game takes by itself, with what it leaves unnoticed.       *)
Step(g, miss) == [g |-> g, miss |-> miss]
Steps(g) ==
  LET k == Head(g.script).k
      side == IF k = "foeHp" THEN 2 ELSE 1
  IN  CASE k = "text" /\ g.shown < Full -> {Step([g EXCEPT !.shown = @ + 1], {})}
        [] k = "text" -> IF Head(g.script).wait THEN {} ELSE {Step(AfterText(g), TextMiss(g) \cup MenuMiss(g))}
        [] k \in {"foeHp", "plHp"} /\ g.shown = 0 ->
             {Step([g EXCEPT !.shown = 1, !.mixed = b], Unheld(g, side, 2)) : b \in {FALSE, k = "foeHp"}}
        [] k \in {"foeHp", "plHp"} /\ g.shown = 1 -> {Step(Apply(g), {})}
        [] k \in {"foeHp", "plHp"} -> {Step(Pass(g), MenuMiss(g))}
        [] k = "foeIn" -> {Step(Pass([g EXCEPT !.foe = Head(g.script).i, !.seen[2] = 0]), Unheld(g, 2, 2) \cup MenuMiss(g))}
        [] k = "plIn" -> {Step(Pass([g EXCEPT !.pl = Head(g.script).i, !.seen[1] = 0]), MenuMiss(g))}
        [] k = "party" /\ g.shown = 0 -> {Step([g EXCEPT !.shown = Full], {})}
        [] OTHER -> {}
(* It waits for a key.                                                     *)
Waiting == CASE Scene.k = "text" -> Scene.wait /\ game.shown = Full
             [] Scene.k = "party" -> game.shown = Full
             [] OTHER -> Scene.k \in {"menu", "moves"}

(* What the keys of the handlers do; a lost press leaves a menu as it is,  *)
(* or opens the wrong one, or picks the move without PP.                   *)
OptionKeys(c) ==
  (IF c.kind = "move" THEN MoveScripts(game) ELSE {Party(c.n)}) \cup
  (IF keys = "lossy" THEN {Menu, MoveMenu, Text(NoPP) \o Menu} ELSE {})
PartyKeys(i) ==
  LET here == <<Scene>>
      legal == i # 0 /\ i # game.pl /\ i \in 1..2 /\ game.hp[1][i] > 0
  IN  (IF ~legal THEN {here} ELSE IF Scene.want = 0 THEN SendScripts(i) ELSE SwitchScripts(game, i))
      \cup (IF keys = "lossy" THEN {here} ELSE {})
Keyed(g, script) == IF script = <<Scene>> THEN g ELSE Play(g, script)
BKey == (CASE Scene.k = "text" /\ Scene.wait /\ game.shown = Full -> {Step(AfterText(game), TextMiss(game))}
           [] OnParty /\ Scene.want # 0 -> {Step(Play(game, Menu), {})}
           [] OTHER -> {Step(game, {})})
        \cup (IF keys = "lossy" THEN {Step(game, {})} ELSE {})

(* ------------------------------- the loop ------------------------------ *)
NewLoop ==
  [active |-> FALSE, pending |-> {}, turn |-> <<>>, bufs |-> << <<>>, <<>> >>, logs |-> << <<>>, <<>> >>,
   tracker |-> FALSE, recorder |-> FALSE, state |-> Stub, cons |-> NoConstraints, deltas |-> <<>>,
   last |-> None, pswitch |-> 0, status |-> "running", dumped |-> FALSE,
   swept |-> <<>>, ended |-> FALSE, idle |-> 0, text |-> <<>>, folders |-> {}]

(* What toggle_capture and init_battle both reset.                         *)
Restart(L) == [L EXCEPT !.pending = {}, !.bufs = << <<>>, <<>> >>, !.logs = << <<>>, <<>> >>,
                        !.last = None, !.pswitch = 0]
init_battle(L) ==
  LET built == _build_battle_state(TRAINER, PartyLines(game.hp[1]))
  IN  [Restart(L) EXCEPT !.state = built, !.cons = BuildConstraints(TRAINER, built), !.tracker = TRUE,
                         !.recorder = TRUE, !.turn = <<>>, !.active = TRUE]
toggle_capture(L) == IF L.active THEN [L EXCEPT !.active = FALSE, !.last = None, !.pswitch = 0]
                     ELSE [Restart(L) EXCEPT !.active = TRUE, !.tracker = FALSE]

StressLoop == LET built == _build_battle_state(TRAINER, PartyLines(InitHp[1]))
              IN  [NewLoop EXCEPT !.state = built, !.cons = BuildConstraints(TRAINER, built), !.tracker = TRUE,
                                  !.recorder = TRUE, !.active = TRUE]
Init == /\ \E m \in Modes : driver = m[1] /\ keys = m[2]
        /\ game = NewGame
        /\ loop = IF driver = "stress" THEN StressLoop ELSE NewLoop
        /\ missed = IF driver = "stress" THEN {} ELSE {"uninitialised"}
        /\ pc = "recv" /\ events = 0 /\ handed = <<>> /\ decided = <<>>

Up == loop.status = "running"
(* A battle has at most one miss while captures are on.                    *)
Allowed(miss) == ~loop.active \/ miss = {} \/ (miss \subseteq Misses /\ missed = {})
Tick == /\ Up
        /\ \E st \in Steps(game) :
             /\ Allowed(st.miss)
             /\ game' = st.g /\ missed' = IF loop.active THEN missed \cup st.miss ELSE missed
        /\ handed' = <<>> /\ decided' = <<>>
        /\ UNCHANGED <<driver, keys, loop, pc, events>>

(* _normalize_name: the form suffix of an enum name goes.                  *)
_FORM_SUFFIX_RE == [ZigGalar |-> "Zig", KarpAlola |-> "Karp"]
_normalize_name(name) == IF name \in DOMAIN _FORM_SUFFIX_RE THEN _FORM_SUFFIX_RE[name] ELSE name

(* find_member_by_name: an exact name, else the nearest within the         *)
(* threshold; the first of equals in slot order.                           *)
FirstOf(found) == {m.slot : m \in {m \in found : \A n \in found : m.slot <= n.slot}}
MembersNamed(members, names) == FirstOf({m \in members : m.name \in names})
find_member_by_name(members, species) ==
  MembersNamed(members, ExactOrNear(_normalize_name(species), {m.name : m \in members}))

(* handle_battle_screen: the outcomes of a menu, each with the script the  *)
(* keys start, the pending switch and the decision; none is an exception.  *)
OptionOutcome(L, sc, pswitch) ==
  [script |-> sc, pswitch |-> pswitch,
   decision |-> [menu |-> "option", sent |-> 0, want |-> 0, fresh |-> TRUE, state |-> L.state]]
(* Mutant: choosing a move leaves the pending switch.                      *)
KeepsPending(L) ==
  IF L.state.active[1] = 0 THEN {} ELSE
  UNION {{OptionOutcome(L, sc, IF c.kind = "move" THEN L.pswitch ELSE c.n) : sc \in OptionKeys(c)}
         : c \in choose_battle_action(L.state)}
OptionSelect(L) ==
  IF L.state.active[1] = 0 THEN {}
  ELSE UNION {{OptionOutcome(L, sc, IF c.kind = "move" THEN 0 ELSE c.n) : sc \in OptionKeys(c)}
              : c \in choose_battle_action(L.state)}
Targets(L) == IF L.pswitch # 0 THEN {L.pswitch}
              ELSE IF L.state.active[1] = 0 THEN {} ELSE choose_forced_switch(L.state)
Picks(L, members) == UNION {find_member_by_name(members, L.state.team[1][i].species) : i \in Targets(L)}
PartyMenu(L) ==
  UNION {{[script |-> sc, pswitch |-> 0,
           decision |-> [menu |-> "party", sent |-> MonAt[slot], want |-> Scene.want,
                         fresh |-> L.pswitch = 0, state |-> L.state]]
          : sc \in PartyKeys(MonAt[slot])} : slot \in Picks(L, read_party_menu(PartySlots(game.hp[1])))}
handle_battle_screen(L, kind) == IF kind = "OPTION_SELECT" THEN OptionSelect(L) ELSE PartyMenu(L)

(* Mutant: every menu frame restarts the clock.                            *)
MenusRestart(L, f) == IF f.words # L.text \/ ScreenOf(f) # None THEN [L EXCEPT !.text = f.words, !.idle = 0]
                      ELSE IF Waiting \/ Scene.k = "over" THEN [L EXCEPT !.idle = @ + 1] ELSE L
(* _StuckTracker: how long the text has not changed.  The clock is counted *)
(* in captures while the game waits for a key, off the menus those after a *)
(* tap: it leaves every other scene, and many taps are made, within the 10 *)
(* seconds.                                                                *)
Observed(L, f) == IF f.words # L.text THEN [L EXCEPT !.text = f.words, !.idle = 0]
                  ELSE IF (Waiting \/ Scene.k = "over") /\ (L.last # None \/ pc = "tapped") THEN [L EXCEPT !.idle = @ + 1] ELSE L
NoteDecision(L) == [L EXCEPT !.idle = 0]
Stuck(L) == L.idle >= StuckLimit

(* The capture as the game saw it.                                         *)
Slow == IF Running /\ ~game.mixed /\ 1 \in game.cap THEN {"slow"} ELSE {}
Settled(side) == ~(Running /\ Scene.k = IF side = 1 THEN "plHp" ELSE "foeHp")
Rebased(L, side) == \E k \in DOMAIN L.bufs[side] : L.bufs[side][k] = NewBuffer
Captured(L, edge) ==
  LET seen == [s \in 1..2 |-> CASE Rebased(L, s) -> 0
                                [] Boxes /\ Settled(s) -> Min({game.seen[s] + 1, 2})
                                [] OTHER -> game.seen[s]]
      g == [game EXCEPT !.cap = @ \cup {game.shown}, !.seen = seen]
  IN  IF edge THEN Boundary(g) ELSE g

(* The HP changes the sweep should be handed, and whether it was.          *)
Due == Recorded(1, TrueTeam[2][1].species, game.held.foe)
       \o FlattenSeq([i \in 1..2 |-> Recorded(0, TrueTeam[1][i].species, game.held.pl[i])])
Right(sw) == sw.msgs = game.told /\ ToSet(sw.recs) = ToSet(Due) /\ Len(sw.recs) = Len(Due)
SweepEnds(L) == IF L.swept = <<>> \/ Right(L.swept[1]) THEN {"ok"} ELSE {"ok", "halt", "stale"}
Handed(L) == [msgs |-> IF L.swept = <<>> THEN <<>> ELSE L.swept[1].msgs,
              recs |-> IF L.swept = <<>> THEN <<>> ELSE L.swept[1].recs, told |-> game.told, due |-> Due]

(* The rest of the iteration after _do_capture: the stuck clock, the end   *)
(* of the battle, the edge into a menu.                                    *)
Done(L) == [L EXCEPT !.swept = <<>>, !.ended = FALSE]
Ends(L, status) == [Done(L) EXCEPT !.status = status]
BattleEnds(L) == IF driver = "stress" THEN Ends(L, IF L.dumped THEN "ERRORS" ELSE "OK")
                 ELSE [Done(L) EXCEPT !.active = FALSE, !.last = None]
(* Mutant: a frame without a menu leaves the screen kind as it was.        *)
KeepsKind(kind) == IF kind = None THEN loop.last ELSE kind
(* last_screen_kind_ref after a capture.                                   *)
NextLast(kind) == kind
Answer(L, kind, hs) ==
  IF hs = {} THEN loop' = Ends(L, "crashed") /\ game' = Captured(L, TRUE) /\ decided' = <<>>
  ELSE \E h \in hs : /\ loop' = NoteDecision([Done(L) EXCEPT !.pswitch = h.pswitch, !.last = NextLast(kind)])
                     /\ game' = Keyed(Captured(L, TRUE), h.script)
                     /\ decided' = <<h.decision>>
OnEdge(L, kind) == Answer(L, kind, handle_battle_screen(L, kind))
AfterCapture(L, kind) ==
  IF /\ kind \in MENUS /\ L.last # kind /\ ~L.ended /\ L.status = "running"
     /\ ~(driver = "stress" /\ Stuck(L))
  THEN OnEdge(L, kind)
  ELSE /\ loop' = CASE L.status = "crashed" -> Done(L)
                    [] driver = "stress" /\ Stuck(L) -> Ends(L, "STUCK")
                    [] L.ended -> BattleEnds(L)
                    [] OTHER -> [Done(L) EXCEPT !.last = NextLast(kind)]
       /\ game' = Captured(L, kind \in MENUS \/ L.ended)
       /\ decided' = <<>>
CaptureDue == Up /\ loop.active /\ pc \in {"recv", "tapped"} /\ Allowed(Slow)
Capture ==
  /\ CaptureDue /\ pc' = "press"
  /\ missed' = missed \cup Slow
  /\ \E f \in {Frame} : \E kind \in {ScreenOf(f)} :
     \E o \in SweepEnds(_do_capture(loop, f, kind, "ok")) : \E seen \in {_do_capture(loop, f, kind, o)} :
       /\ AfterCapture(IF driver = "stress" THEN Observed(seen, f) ELSE seen, kind)
       /\ handed' = IF loop.tracker /\ (kind \in MENUS \/ seen.ended \/ seen.swept # <<>>) THEN <<Handed(seen)>> ELSE <<>>
  /\ UNCHANGED <<driver, keys, events>>

(* B is tapped at most every half second while no menu is up.              *)
TapDue == Up /\ pc = "press" /\ loop.active /\ loop.last = None
PressB == /\ TapDue /\ pc' = "tapped"
          /\ \E st \in BKey : Allowed(st.miss) /\ game' = st.g /\ missed' = missed \cup st.miss
          /\ UNCHANGED <<driver, keys, loop, events, handed, decided>>
NoPress == /\ Up /\ pc = "press" /\ pc' = "recv"
           /\ UNCHANGED <<driver, keys, game, loop, missed, events, handed, decided>>

(* ----------------------------- key events ------------------------------ *)
Event == /\ Up /\ driver = "play" /\ pc \in {"recv", "tapped"} /\ events < MaxEvents
         /\ pc' = "recv" /\ events' = events + 1
         /\ handed' = <<>> /\ decided' = <<>> /\ UNCHANGED <<driver, keys>>
ToggleCapture == /\ Event
                 /\ loop' = toggle_capture(loop)
                 /\ missed' = missed \cup {"off"}
                 /\ game' = [game EXCEPT !.seen = <<0, 0>>]

(* init_battle takes the leads at full HP to be out: O is pressed as the   *)
(* battle starts or at its first menu.                                     *)
Untouched == game.hp = InitHp /\ game.pl = 1 /\ game.script \in {Intro, Menu}
InitBattle == /\ Event /\ Untouched
              /\ loop' = init_battle(loop)
              /\ missed' = {}
              /\ game' = [Boundary(game) EXCEPT !.seen = <<0, 0>>, !.cap = {}]

(* save_state and save_training_data: a bad name or a taken folder is an   *)
(* exception that ends the loop.                                           *)
FolderNames == {"", "a"}
Save(kind) == /\ Event
              /\ \E n \in FolderNames :
                   loop' = IF n = "" \/ <<kind, n>> \in loop.folders THEN [loop EXCEPT !.status = "badname"]
                           ELSE [loop EXCEPT !.folders = @ \cup {<<kind, n>>}]
              /\ UNCHANGED <<game, missed>>
SaveState == Save("state")
SaveTrainingData == Save("training")

(* External: the user walks into the next battle, or loads a save state    *)
(* and leaves this one as it is.                                           *)
StartBattle == /\ Event
               /\ Scene.k \in Quits
               /\ game' = NewGame /\ missed' = {"uninitialised"}
               /\ UNCHANGED loop

(* MGBAConnectionError or Ctrl+C; the stress test's clock runs out.        *)
EmulatorCloses == /\ Up
                  /\ loop' = [NewLoop EXCEPT !.status = "closed"] /\ game' = NewGame /\ pc' = "recv"
                  /\ missed' = {} /\ handed' = <<>> /\ decided' = <<>>
                  /\ UNCHANGED <<driver, keys, events>>
Timeout == /\ Up /\ driver = "stress" /\ pc \in {"recv", "tapped"}
           /\ loop' = [NewLoop EXCEPT !.status = "TIMEOUT"] /\ game' = NewGame /\ pc' = "recv"
           /\ missed' = {} /\ handed' = <<>> /\ decided' = <<>>
           /\ UNCHANGED <<driver, keys, events>>
(* main of stress_test.py: another battle after an OK one.                 *)
NextRun == /\ driver = "stress" /\ loop.status = "OK"
           /\ game' = NewGame /\ loop' = StressLoop /\ pc' = "recv"
           /\ missed' = {} /\ handed' = <<>> /\ decided' = <<>>
           /\ UNCHANGED <<driver, keys, events>>

Next == \/ Tick \/ Capture \/ PressB \/ NoPress
        \/ ToggleCapture \/ InitBattle \/ SaveState \/ SaveTrainingData \/ StartBattle
        \/ EmulatorCloses \/ Timeout \/ NextRun

(* The game runs on, the loop comes back to recv_event and captures, and   *)
(* while no menu is up the half second between two taps passes.  Every     *)
(* step of the loop moves pc, so its value names the step.                 *)
Fairness == /\ WF_vars(Tick)
            /\ WF_pc(CaptureDue /\ pc' = "press")
            /\ WF_pc(Up /\ pc = "press" /\ pc' \in {"recv", "tapped"})
            /\ SF_pc(TapDue /\ pc' = "tapped")
Spec == Init /\ [][Next]_vars /\ Fairness

(* ------------------------------ properties ----------------------------- *)
Clean == missed = {} /\ loop.tracker

(* At every menu the turn handed to the sweep is the messages the game     *)
(* showed since the last one, in order and each as often as it was shown,  *)
(* and a rejected menu choice alone is no turn                             *)
(* (battle_message_matcher.py process and flush, _finalize_turn_boundary). *)
Real(told) == \E i \in DOMAIN told : told[i] # NoPP
TurnPartition ==
  missed = {} => \A h \in ToSet(handed) : h.msgs = IF Real(h.told) THEN h.told ELSE <<>>

(* The HP records handed with a turn are the HP values the game held in    *)
(* it, bound to the mon that had them: a mon that fainted and was replaced *)
(* by one of the same name keeps its own (hp_stability.py,                 *)
(* build_faint_record_from_klog, the reset and reseeding of the logs).     *)
Simulated(h) == h.msgs # <<>> /\ ~Contains(h.told, Challenge)
HpRecordsTrue ==
  missed = {} => \A h \in ToSet(handed) :
                   Simulated(h) => ToSet(h.recs) = ToSet(h.due) /\ Len(h.recs) = Len(h.due)

(* The mon picked in a party menu is the one the policy chose: at the      *)
(* option menu for a voluntary switch, now for a replacement, even after a *)
(* switch that was cancelled (handle_battle_screen, pending_switch_ref).   *)
SwitchAsDecided ==
  Clean => \A d \in ToSet(decided) : d.menu = "party" =>
             IF d.want # 0 THEN d.sent = d.want
             ELSE d.fresh /\ d.sent # game.pl /\ d.sent # 0

(* Every decision is taken on the game's actual state: what init_battle    *)
(* converted from memory and from the trainer file, and every sweep since, *)
(* agree with the game (_build_battle_state, _run_turn_sweep).             *)
StateAgrees == Clean => \A d \in ToSet(decided) : d.state = Truth

(* The loop ends as the battle did: OK only when one side has no mon left  *)
(* and no sweep failed, and while every message and HP value was captured  *)
(* it neither crashes nor, with keys that register, reports a stuck screen *)
(* (_run_one_battle, _StuckTracker, _BATTLE_END_IDS).                      *)
OutcomeTrue ==
  /\ loop.status = "OK" => ~loop.dumped /\ \E s \in 1..2 : \A i \in 1..2 : game.hp[s][i] = 0
  /\ Clean => loop.status # "crashed"
  /\ Clean /\ keys = "reliable" => loop.status # "STUCK"

(* With keys that register and a state that is known, the loop leaves      *)
(* every menu and every text that waits for a button: the edge into a menu *)
(* is never taken for the menu answered before it (last_screen_kind_ref).  *)
Leave == ~Waiting \/ ~Up \/ ~loop.active
MenuAnswered == (keys = "reliable" /\ Clean /\ Waiting) ~> (Leave \/ ~Clean)

(* Whatever key is lost, the stress test does not wait for ever: it goes   *)
(* on or reports the battle stuck (_StuckTracker).                         *)
StuckDetected == (driver = "stress" /\ Waiting) ~> Leave
=============================================================================
