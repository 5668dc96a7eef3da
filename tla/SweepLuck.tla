------------------------------ MODULE SweepLuck ------------------------------
(***************************************************************************)
(* The luck of one simulated turn: liveplay/rng.py (profiles, thresholds,  *)
(* outcomes) and the adapters of liveplay/sweep_driver.py that turn the   *)
(* overrides of one sweep trial into a profile per active slot.            *)
(*                                                                         *)
(* A chance event compares its chance with a threshold of the profile, so  *)
(* a threshold of 0 makes it happen and one of 101 keeps it from           *)
(* happening.  Rolls are the indices 0 .. MaxRoll of the 16 damage rolls.  *)
(* Sides are 0 (player) and 1 (opponent); the slots of a side are numbered *)
(* from 1 here and from 0 in the code.                                     *)
(***************************************************************************)
EXTENDS Integers, Sequences, FiniteSets

CONSTANTS MaxRoll, \* highest damage-roll index (15 in the code)
          MaxHits  \* most hits of one move

ASSUME LuckAssumption == MaxRoll \in Nat /\ MaxHits \in Nat \ {0}

Side == {0, 1}
Pos == Side \X {1, 2}

(* The Category-B events a message can reveal or a trial can force.        *)
(* ATTRACT_IMMOBILIZE and DEFROST are handled like FULL_PARALYSIS and WAKE.*)
BoolEvent == {"ACCURACY", "SECONDARY_FIRES", "FLINCH", "FULL_PARALYSIS",
              "WAKE", "CONFUSION_SNAP", "CONFUSION_SELF_HIT", "QUICK_CLAW"}

Always == 0
Never == 101
MidRoll == MaxRoll \div 2
Hits == 1 .. MaxHits
LeastHits == IF MaxHits = 1 THEN 1 ELSE 2

(* resolve_*: a saturated chance needs no roll, any other one is compared  *)
(* with the threshold.  For paralysis and the confusion self-hit the good  *)
(* outcome (the mon acts) is the one that happens.                         *)
Saturated(chance) == chance <= 0 \/ chance >= 100
Resolve(chance, threshold) ==
  IF Saturated(chance) THEN chance >= 100 ELSE chance >= threshold

(* The outcome of an event whose chance is neither 0 nor 100.              *)
Happens(profile, event) == Resolve(50, profile.thr[event])
CritAt(profile, hit) == Resolve(50, profile.crit[hit])

BAD_LUCK ==
  [thr  |-> [e \in BoolEvent |-> Never],
   crit |-> [h \in Hits |-> Never],
   roll |-> [h \in Hits |-> 0],
   hits |-> LeastHits]

(* SWEEP_LUCK: every event takes the outcome that prints no message.       *)
SilentlyGood == {"ACCURACY", "FULL_PARALYSIS", "CONFUSION_SELF_HIT"}
SWEEP_LUCK ==
  [BAD_LUCK EXCEPT
    !.thr = [e \in BoolEvent |-> IF e \in SilentlyGood THEN Always ELSE Never]]

(* One side's overrides in one trial (SideOverrides).  scalar and slot are *)
(* what extra_overrides holds as a plain value and as a slot-keyed dict;   *)
(* roll and crit are keyed by the slots of the movers.                     *)
NoOverride == <<>>
NoOverrides ==
  [scalar |-> NoOverride, slot |-> [k \in {1, 2} |-> NoOverride],
   hits |-> [k \in {1, 2} |-> LeastHits], roll |-> NoOverride, crit |-> NoOverride]

Put(f, key, val) == [x \in DOMAIN f \cup {key} |-> IF x = key THEN val ELSE f[x]]
Threshold(happens) == IF happens THEN Always ELSE Never

(* _apply_extra_override: forced events replace the profile's thresholds.  *)
Forced(profile, forced) ==
  [profile EXCEPT !.thr =
     [e \in BoolEvent |-> IF e \in DOMAIN forced THEN Threshold(forced[e])
                                                  ELSE profile.thr[e]]]

WithRolls(profile, ov, k) ==
  IF k \in DOMAIN ov.roll
  THEN [profile EXCEPT !.roll = ov.roll[k],
                       !.crit = [h \in Hits |-> IF k \in DOMAIN ov.crit
                                                THEN Threshold(ov.crit[k][h])
                                                ELSE Never],
                       !.hits = ov.hits[k]]
  ELSE profile

(* The base profile of a side: scalar overrides and those of the first     *)
(* slot.  A side with no roll entry at all has the middle roll, a side     *)
(* whose only entries are keyed to another slot keeps SWEEP_LUCK's.        *)
BaseProfile(ov) ==
  LET start == IF DOMAIN ov.roll = {}
               THEN [SWEEP_LUCK EXCEPT !.roll = [h \in Hits |-> MidRoll]]
               ELSE SWEEP_LUCK
  IN  [Forced(Forced(WithRolls(start, ov, 1), ov.scalar), ov.slot[1])
        EXCEPT !.hits = ov.hits[1]]

(* The second slot gets a profile of its own, built from SWEEP_LUCK and    *)
(* its slot-keyed values only, as soon as one such value exists; without   *)
(* one the engine uses the side's base profile for it.                     *)
SlotOneProfile(ov) ==
  IF 2 \in DOMAIN ov.roll \/ ov.slot[2] # NoOverride \/ ov.hits[2] # LeastHits
  THEN [Forced(WithRolls(SWEEP_LUCK, ov, 2), ov.slot[2]) EXCEPT !.hits = ov.hits[2]]
  ELSE BaseProfile(ov)

(* build_sweep_luck: a profile for every active position.                  *)
BuildSweepLuck(ovs) ==
  [p \in Pos |-> IF p[2] = 1 THEN BaseProfile(ovs[p[1]])
                             ELSE SlotOneProfile(ovs[p[1]])]
==============================================================================
