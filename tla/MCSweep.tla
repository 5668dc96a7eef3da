------------------------------- MODULE MCSweep -------------------------------
(* Small battles for Sweep: each one has the few features of one kind of   *)
(* turn, so that all its turns can be swept.                               *)
EXTENDS Sweep

Mv(power, sure, crit, sec, hits, spread, calls) ==
  [power |-> power, sure |-> sure, crit |-> crit, sec |-> sec, hits |-> hits,
   spread |-> spread, calls |-> calls]

MoveDataMC ==
  [Tackle    |-> Mv(1, FALSE, TRUE, None, 1, FALSE, {}),
   Bite      |-> Mv(1, TRUE, FALSE, "flinch", 1, FALSE, {}),
   Psybeam   |-> Mv(1, TRUE, FALSE, "confuse", 1, FALSE, {}),
   FuryHit   |-> Mv(1, TRUE, TRUE, None, 2, FALSE, {}),
   Scratch   |-> Mv(1, TRUE, FALSE, None, 1, FALSE, {}),
   Growl     |-> Mv(0, TRUE, FALSE, None, 1, FALSE, {}),
   Spark     |-> Mv(1, TRUE, FALSE, "paralyse", 1, FALSE, {}),
   Snarl     |-> Mv(1, TRUE, FALSE, "weaken", 1, FALSE, {}),
   Quake     |-> Mv(1, TRUE, FALSE, None, 1, TRUE, {}),
   Metronome |-> Mv(0, TRUE, FALSE, None, 1, FALSE, {"Growl", "Bite"})]

MovesOfMC ==
  [Rat |-> <<"Tackle">>, Bat |-> <<"Bite">>, Yak |-> <<"Psybeam">>, Cat |-> <<"FuryHit">>,
   Owl |-> <<"Growl">>, Elf |-> <<"Metronome">>, Imp |-> <<"Quake">>, Pup |-> <<"Scratch">>,
   Eel |-> <<"Spark">>, Fox |-> <<"Snarl">>]
SpeedMC == [Rat |-> 2, Bat |-> 2, Yak |-> 3, Cat |-> 2, Owl |-> 1, Elf |-> 2, Imp |-> 3, Pup |-> 1,
            Eel |-> 2, Fox |-> 3]

Mon(sp, hp, max) ==
  [sp |-> sp, hp |-> hp, max |-> max, lvl |-> 1, pp |-> [m \in DOMAIN MovesOfMC[sp] |-> 3],
   slp |-> FALSE, par |-> FALSE, conf |-> FALSE, bind |-> 0, claw |-> FALSE,
   berry |-> FALSE, weak |-> FALSE]
Singles(mine, theirs) ==
  [team |-> [s \in Side |-> IF s = 0 THEN mine ELSE theirs], act |-> [s \in Side |-> <<1>>]]
Known(st, n) == [truth |-> st, cands |-> {st}, turns |-> n]

RollsAndBars == Known(Singles(<<Mon("Rat", 6, 6)>>, <<Mon("Bat", 5, 8)>>), 2)
Statuses == Known(Singles(<<[Mon("Rat", 6, 6) EXCEPT !.par = TRUE]>>,
                          <<[Mon("Bat", 5, 8) EXCEPT !.slp = TRUE]>>), 1)
Confusion == Known(Singles(<<Mon("Yak", 6, 6)>>, <<[Mon("Rat", 6, 6) EXCEPT !.conf = TRUE]>>), 1)
MultiHit == Known(Singles(<<Mon("Cat", 6, 6)>>, <<Mon("Owl", 6, 6)>>), 1)
HitByMany == Known(Singles(<<Mon("Owl", 6, 6)>>, <<Mon("Cat", 6, 6)>>), 1)
Switches == Known(Singles(<<Mon("Rat", 2, 6), Mon("Owl", 3, 6)>>,
                          <<Mon("Bat", 1, 6), Mon("Owl", 2, 6)>>), 2)
Calls == Known(Singles(<<Mon("Elf", 6, 6)>>, <<Mon("Owl", 6, 6)>>), 1)
BothCall == Known(Singles(<<Mon("Elf", 6, 6)>>, <<Mon("Elf", 6, 6)>>), 1)
Claws == Known(Singles(<<[Mon("Owl", 6, 6) EXCEPT !.claw = TRUE]>>, <<Mon("Bat", 6, 6)>>), 1)
Berry(mon) == [mon EXCEPT !.berry = TRUE]
Doubles(mine, theirs) ==
  [team |-> [s \in Side |-> IF s = 0 THEN mine ELSE theirs], act |-> [s \in Side |-> <<1, 2>>]]
BothConfused == Known(Singles(<<[Mon("Pup", 6, 6) EXCEPT !.conf = TRUE]>>,
                              <<[Mon("Pup", 6, 6) EXCEPT !.conf = TRUE]>>), 1)
SlowBar == Known(Singles(<<Mon("Cat", 6, 6)>>, <<Mon("Owl", 9, 12)>>), 1)
HitConfused == Known(Singles(<<Mon("Cat", 2, 6)>>, <<[Mon("Imp", 6, 6) EXCEPT !.conf = TRUE]>>), 1)
Twins == Known(Doubles(<<Mon("Pup", 4, 6), Mon("Pup", 5, 6)>>, <<Mon("Owl", 2, 6), Mon("Owl", 3, 6)>>), 1)
Spread == Known(Doubles(<<Mon("Owl", 2, 6), Mon("Owl", 5, 6)>>, <<Mon("Imp", 4, 6), Mon("Owl", 6, 6)>>), 1)
CallsInDoubles == Known(Doubles(<<Mon("Owl", 1, 6), Mon("Elf", 5, 6)>>, <<Mon("Pup", 4, 6), Mon("Owl", 6, 6)>>), 1)
HealedTwin == Known(Doubles(<<Mon("Pup", 4, 6), Mon("Owl", 4, 6)>>,
                            <<Mon("Owl", 4, 6), Berry(Mon("Owl", 4, 6))>>), 1)
HitAndHealed == Known(Doubles(<<Mon("Owl", 6, 6), Berry(Mon("Owl", 4, 6))>>,
                              <<Mon("Pup", 6, 6), Mon("Owl", 6, 6)>>), 1)
Bound == LET st == Singles(<<Mon("Owl", 6, 6)>>, <<[Mon("Owl", 6, 6) EXCEPT !.bind = 1]>>)
         IN  [truth |-> st, cands |-> {[st EXCEPT !.team[1][1].bind = 3]}, turns |-> 2]
BoundLong == LET st == Singles(<<Mon("Owl", 6, 6)>>, <<[Mon("Owl", 6, 6) EXCEPT !.bind = 2]>>)
         IN  [truth |-> st, cands |-> {[st EXCEPT !.team[1][1].bind = 3]}, turns |-> 2]

SameNames == Known(Singles(<<Mon("Pup", 6, 6), Mon("Owl", 2, 6)>>, <<Mon("Bat", 1, 6), Mon("Bat", 2, 6)>>), 2)
LevelUp == Known(Singles(<<Mon("Rat", 6, 6), Mon("Owl", 3, 6)>>, <<Mon("Owl", 2, 6), Mon("Owl", 2, 6)>>), 1)

Effects == Known(Singles(<<Mon("Eel", 6, 6)>>, <<Mon("Fox", 6, 6)>>), 1)
Berries == Known(Singles(<<Berry(Mon("Pup", 6, 6))>>, <<Berry(Mon("Pup", 7, 13))>>), 1)
BerryHits == Known(Singles(<<Berry(Mon("Cat", 6, 8))>>, <<Berry(Mon("Owl", 6, 8))>>), 1)
BerryFirst == Known(Singles(<<Berry(Mon("Owl", 6, 8))>>, <<Mon("Cat", 6, 8)>>), 1)

BattlesMC == {SameNames, LevelUp, RollsAndBars, Statuses, Confusion, MultiHit, HitByMany,
              Switches, Calls, Effects, Berries, BerryHits, BerryFirst,
              BothCall, Claws, Bound, BoundLong, BothConfused, SlowBar, HitConfused, Twins, Spread, CallsInDoubles,
              HealedTwin, HitAndHealed}

(* The opponent's PP is an estimate: one candidate has it too high.        *)
Desync ==
  LET st == Singles(<<Mon("Pup", 6, 6)>>, <<[Mon("Owl", 6, 6) EXCEPT !.pp = <<0>>]>>)
  IN  [truth |-> st, cands |-> {st, [st EXCEPT !.team[1][1].pp = <<1>>]}, turns |-> 1]
DesyncMC == {Desync}
==============================================================================
