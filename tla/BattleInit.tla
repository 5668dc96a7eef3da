----------------------------- MODULE BattleInit -----------------------------
(***************************************************************************)
(* What init_battle builds from the trainer file and the emulator's party  *)
(* memory: SCRIPTS/play.py _build_battle_state and the conversions under   *)
(* it, and PokemonSnapshot.from_wire.                                      *)
(***************************************************************************)
EXTENDS MessageMatcher

(* The fields of a wire line that reach the battle state, in wire order.   *)
WIRE_FIELDS == <<"species", "is_egg", "has_species", "moves", "pp", "hp_iv", "spe_iv", "spa_iv",
                 "alt_ability", "level", "current_hp", "max_hp", "status">>
from_wire(line) == [f \in ToSet(WIRE_FIELDS) |-> line[Position(f, WIRE_FIELDS)]]

(* _gba_status_to_engine: the status word as its set bits; sleep is a      *)
(* three-bit counter and wins over every other bit.                        *)
STATUS_BITS == << <<4, "SLEEP">>, <<2, "SLEEP">>, <<1, "SLEEP">>, <<128, "TOXIC">>, <<64, "PARALYSIS">>,
                  <<32, "FREEZE">>, <<16, "BURN">>, <<8, "POISON">> >>
_gba_status_to_engine(word) ==
  LET hits == {i \in DOMAIN STATUS_BITS : (word \div STATUS_BITS[i][1]) % 2 = 1}
  IN  IF hits = {} THEN "NONE" ELSE STATUS_BITS[Min(hits)][2]

(* Names outside the engine: the trainer file spells forms its own way,    *)
(* the game shows a form under its base name.  Other names are their own   *)
(* enum member, so the lookup's normalisation leaves them alone.           *)
SPECIES_ALIASES == [Karp_Alolan |-> "KarpAlola"]
_lookup_enum(aliases, name) == IF name \in DOMAIN aliases THEN aliases[name] ELSE name
SPECIES_TO_EMULATOR_NAME == [ZigGalar |-> "Zig", KarpAlola |-> "Karp"]
emulator_species_name(species) ==
  IF species \in DOMAIN SPECIES_TO_EMULATOR_NAME THEN SPECIES_TO_EMULATOR_NAME[species] ELSE species

(* _split_trainer_name: the annotation in brackets is never shown; class   *)
(* and name are joined again by the matcher.                               *)
ANNOTATIONS == {"[Boss]", "[Double]"}
_split_trainer_name(name) == IF Last(name) \in ANNOTATIONS THEN SubSeq(name, 1, Len(name) - 2) ELSE name

(* _resolve_ability: a slot the species leaves empty falls back to slot 0. *)
SPECIES_ABILITIES == [ZigGalar |-> <<"PICKUP", "NONE">>, Pooch |-> <<"RUNAWAY", "RATTLED">>,
                      KarpAlola |-> <<"SWIFTSWIM", "NONE">>]
(* Mutant: an empty slot is taken as it is.                                *)
EmptySlot(species, alt) == SPECIES_ABILITIES[species][alt + 1]
_resolve_ability(species, alt) ==
  LET slots == SPECIES_ABILITIES[species]
      ability == IF alt \in 0..(Len(slots) - 1) THEN slots[alt + 1] ELSE "NONE"
  IN  IF ability = "NONE" THEN slots[1] ELSE ability

(* _move_from_gba_id: the ROM's own move numbers; 0 is the empty slot.     *)
GBA_MOVE_MAP == [m \in {33, 150} |-> IF m = 33 THEN "TACKLE" ELSE "SPLASH"]
_move_from_gba_id(m) == IF m = 0 THEN "NONE" ELSE GBA_MOVE_MAP[m]

MOVE_PP == [TACKLE |-> 35, SPLASH |-> 40, NONE |-> 0]
_max_pp(base) == base + (base \div 5) * 3

_snapshot_to_pokemon_state(s) ==
  [species |-> s.species, ability |-> _resolve_ability(s.species, s.alt_ability),
   status |-> _gba_status_to_engine(s.status),
   moves |-> [k \in DOMAIN s.moves |-> _move_from_gba_id(s.moves[k])], pp |-> s.pp,
   ivs |-> <<s.hp_iv, s.spa_iv, s.spe_iv>>, level |-> s.level, hp |-> s.current_hp, max_hp |-> s.max_hp]
_snapshots_to_states(lines) ==
  LET snaps == [i \in DOMAIN lines |-> from_wire(lines[i])]
      mons == SelectSeq(snaps, LAMBDA s : ~s.is_egg /\ s.has_species)
  IN  [i \in DOMAIN mons |-> _snapshot_to_pokemon_state(mons[i])]

(* _trainer_pokemon_to_state: full HP; the first move alone has PP Ups.    *)
_trainer_pokemon_to_state(t) ==
  [species |-> _lookup_enum(SPECIES_ALIASES, t.name), ability |-> t.ability, status |-> "NONE", moves |-> t.moves,
   pp |-> [k \in DOMAIN t.moves |-> IF k = 1 THEN _max_pp(MOVE_PP[t.moves[k]]) ELSE MOVE_PP[t.moves[k]]],
   ivs |-> <<31, 31, 31>>, level |-> t.level, hp |-> t.max_hp, max_hp |-> t.max_hp]

Stub == [team |-> << <<>>, <<>> >>, active |-> <<0, 0>>]    \* _make_stub_battle_state

(* _build_battle_state: both teams, slot 1 of each active.                 *)
_build_battle_state(trainer, lines) ==
  [team |-> <<_snapshots_to_states(lines),
              [i \in DOMAIN trainer.pokemon |-> _trainer_pokemon_to_state(trainer.pokemon[i])]>>,
   active |-> <<1, 1>>]

Mons(state) == UNION {ToSet(state.team[s]) : s \in 1..2}
_valid_pokemon_names(state) == {<<emulator_species_name(m.species)>> : m \in Mons(state)}
BuildConstraints(trainer, state) ==
  [pokemon |-> _valid_pokemon_names(state),
   moves |-> {<<mv>> : mv \in UNION {ToSet(m.moves) : m \in Mons(state)} \ {"NONE"}},
   trainer |-> {_split_trainer_name(trainer.name)}, freeMoves |-> FALSE, freeNames |-> FALSE]

(* _make_constraints_for_active: an active mon that calls or copies others *)
(* lifts the restriction.                                                  *)
ActiveMons(state) == {state.team[s][state.active[s]] : s \in {s \in 1..2 : state.active[s] \in DOMAIN state.team[s]}}
_make_constraints_for_active(state, c) ==
  [c EXCEPT !.freeMoves = \E m \in ActiveMons(state) : {"METRONOME", "ASSIST"} \cap ToSet(m.moves) # {},
            !.freeNames = \E m \in ActiveMons(state) : "TRANSFORM" \in ToSet(m.moves) \/ m.ability = "ILLUSION"]

(* ------------------------------- policy -------------------------------- *)
PlayerMon(state) == state.team[1][state.active[1]]
eligible_switch_targets(state) ==
  {i \in DOMAIN state.team[1] : i # state.active[1] /\ state.team[1][i].hp > 0}
available_moves(state) == {k \in DOMAIN PlayerMon(state).moves :
                             PlayerMon(state).moves[k] # "NONE" /\ PlayerMon(state).pp[k] > 0}

(* RandomPolicy.choose_battle_action: any usable move or bench mon; the    *)
(* split between them is random, so every legal choice may be taken.       *)
Choice(kind, n) == [kind |-> kind, n |-> n]
choose_battle_action(state) == {Choice("move", k) : k \in available_moves(state)}
                               \cup {Choice("switch", i) : i \in eligible_switch_targets(state)}
choose_forced_switch(state) == eligible_switch_targets(state)
=============================================================================
