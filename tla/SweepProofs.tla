----------------------------- MODULE SweepProofs -----------------------------
(***************************************************************************)
(* Whatever stops the live player in a sweep is on disk, and replaying it  *)
(* stops the same way.                                                     *)
(***************************************************************************)
EXTENDS Sweep, TLAPS

(* Two turns with the same messages and records are the same to a sweep:   *)
(* it reads nothing that the recording session does not keep.              *)
LEMMA SurvivorsRead ==
  ASSUME NEW o, NEW p, o.msgs = p.msgs, o.recs = p.recs, NEW runs
  PROVE  Survivors(runs, o) = Survivors(runs, p)
<1>1. \A run : Unresolvable(run, o) <=> Unresolvable(run, p)
  BY DEF Unresolvable
<1>2. \A run : Agrees(run, o) <=> Agrees(run, p)
  BY DEF Agrees
<1>3. {r \in runs : Agrees(r, o)} = {r \in runs : Agrees(r, p)}
  BY <1>2
<1>4. {LevelUpsObserved(run.st, o.msgs) : run \in {r \in runs : Agrees(r, o)}}
        = {LevelUpsObserved(run.st, p.msgs) : run \in {r \in runs : Agrees(r, p)}}
  BY <1>3
<1> QED
  BY <1>1, <1>4 DEF Survivors

LEMMA PairsRead ==
  ASSUME NEW o, NEW p, o.msgs = p.msgs, o.recs = p.recs, NEW ctx
  PROVE  sweep_evaluate_pairs(ctx, o) = sweep_evaluate_pairs(ctx, p)
BY SurvivorsRead DEF sweep_evaluate_pairs

LEMMA ChoicesRead ==
  ASSUME NEW o, NEW p, o.msgs = p.msgs, o.recs = p.recs,
         NEW st, NEW map, NEW known, NEW inj, NEW nMaps
  PROVE  SweepChoices(st, o, map, known, inj, nMaps) = SweepChoices(st, p, map, known, inj, nMaps)
<1> DEFINE Acts(s, x) == CandidateActions(s, st, known, Damaged(x.recs))
           Turns(x) == OppSwitchBranches(x.msgs, st)
           Acting(x) == Movers(x.msgs, map)
           Ctx(x, a0, a1, opp, combo) ==
             [st |-> st, acts |-> [s \in Side |-> IF s = 0 THEN a0 ELSE a1],
              ovs |-> WithCombo(inj.ovs, combo), pre |-> inj.pre, opp |-> opp,
              tie |-> IF Acting(x) = <<>> THEN 0 ELSE Acting(x)[1][1],
              movers |-> Acting(x), hits |-> HitCounts(x.msgs), crits |-> CritCounts(x.msgs),
              selfhit |-> inj.selfhit, recs |-> x.recs]
           Outcome(x, a0, a1, opp, combo) == sweep_evaluate_pairs(Ctx(x, a0, a1, opp, combo), x)
           Outcomes(x) == {Outcome(x, a0, a1, opp, combo) :
                             a0 \in Acts(0, x), a1 \in Acts(1, x), opp \in Turns(x), combo \in inj.combos}
           TooMany(x) == nMaps * Cardinality(Acts(0, x)) * Cardinality(Acts(1, x))
                           * Cardinality(Turns(x)) * Cardinality(inj.combos) > BranchCap
<1>3. Acts(0, o) = Acts(0, p) /\ Acts(1, o) = Acts(1, p) /\ Turns(o) = Turns(p) /\ Acting(o) = Acting(p)
  OBVIOUS
<1>4. \A a0, a1, opp, combo : Ctx(o, a0, a1, opp, combo) = Ctx(p, a0, a1, opp, combo)
  <2> HIDE DEF Acting
  <2> QED
    BY <1>3
<1>5. \A a0, a1, opp, combo : Outcome(o, a0, a1, opp, combo) = Outcome(p, a0, a1, opp, combo)
  <2> HIDE DEF Ctx
  <2> QED
    BY <1>4, PairsRead
<1>6. Outcomes(o) = Outcomes(p)
  <2> HIDE DEF Outcome, Acts, Turns
  <2> QED
    BY <1>3, <1>5
<1>7. TooMany(o) <=> TooMany(p)
  <2> HIDE DEF Acts, Turns
  <2> QED
    BY <1>3
<1>8. \A x : SweepChoices(st, x, map, known, inj, nMaps)
               = IF TooMany(x) THEN NoneFound("fatal") ELSE Joined(Outcomes(x))
  BY DEF SweepChoices
<1> HIDE DEF TooMany, Outcomes
<1> QED
  BY <1>6, <1>7, <1>8

LEMMA MapRead ==
  ASSUME NEW o, NEW p, o.msgs = p.msgs, o.recs = p.recs, NEW st, NEW map, NEW nMaps
  PROVE  SweepMap(st, o, map, nMaps) = SweepMap(st, p, map, nMaps)
<1> DEFINE Got(x) == ExtractKnownActions(x.msgs, st, map)
           ActErr(x) == CandidateActionsError(x.msgs, st, map, Got(x).known)
           Inj(x) == BuildInjected(x.msgs, st, map, hp_changed_by_slot(x.recs))
           Unexpected(x) == ~OpponentPlausible(Got(x).known, st)
           Ambiguous(x) == Cardinality(ForcedSwitches(x.msgs, st)) > 1
           Other(x) == ~ForcedSwitchPlausible(x.msgs, st)
           Chosen(x) == SweepChoices(st, x, map, Got(x).known, Inj(x), nMaps)
<1>3. /\ Got(o) = Got(p) /\ ActErr(o) = ActErr(p) /\ Inj(o) = Inj(p)
      /\ Unexpected(o) <=> Unexpected(p)
      /\ Ambiguous(o) <=> Ambiguous(p)
      /\ Other(o) <=> Other(p)
  OBVIOUS
<1>5. Chosen(o) = Chosen(p)
  <2> HIDE DEF Got, Inj
  <2> QED
    BY <1>3, ChoicesRead
<1>6. \A x : SweepMap(st, x, map, nMaps)
               = IF Got(x).err # None THEN NoneFound(Got(x).err)
                 ELSE IF Unexpected(x) THEN NoneFound(None)
                 ELSE IF Ambiguous(x) THEN NoneFound("crash")
                 ELSE IF Other(x) THEN NoneFound(None)
                 ELSE IF ActErr(x) # None THEN NoneFound(ActErr(x))
                 ELSE IF Inj(x).err # None THEN NoneFound(Inj(x).err)
                 ELSE Chosen(x)
  BY DEF SweepMap
<1> HIDE DEF Got, ActErr, Unexpected, Ambiguous, Other, Inj, Chosen
<1> QED
  BY <1>3, <1>5, <1>6

LEMMA SweepReadsTheRecord ==
  ASSUME NEW o, NEW p, o.msgs = p.msgs, o.recs = p.recs, NEW cand
  PROVE  SweepFrom(cand, o) = SweepFrom(cand, p)
<1> DEFINE St(x) == ReleaseObserved(cand, x.msgs)
           Maps(x) == SlotMaps(x.msgs, St(x))
           Intro(x) == Said(x.msgs, "INTROMSG")
           Unnamed(x) == OppSwitchBranches(x.msgs, St(x)) = {}
           Unread(x) == \E i \in DOMAIN x.msgs : IsUse(x.msgs[i]) /\ SideError(x.msgs[i], St(x))
           Swepts(x) == {SweepMap(St(x), x, map, Cardinality(Maps(x))) : map \in Maps(x)}
<1>1. St(o) = St(p) /\ Maps(o) = Maps(p) /\ (Intro(o) <=> Intro(p)) /\ (Unnamed(o) <=> Unnamed(p)) /\ (Unread(o) <=> Unread(p))
  OBVIOUS
<1>2. Swepts(o) = Swepts(p)
  <2>1. \A map : SweepMap(St(o), o, map, Cardinality(Maps(o))) = SweepMap(St(p), p, map, Cardinality(Maps(p)))
    <3> HIDE DEF St, Maps
    <3> QED
      BY <1>1, MapRead
  <2> HIDE DEF St, Maps
  <2> QED
    BY <1>1, <2>1
<1>3. \A x : SweepFrom(cand, x)
               = IF Intro(x) THEN [found |-> {cand}, err |-> None]
                 ELSE IF Unnamed(x) THEN NoneFound("fatal")
                 ELSE IF Unread(x) THEN NoneFound("crash") ELSE Joined(Swepts(x))
  BY DEF SweepFrom
<1> HIDE DEF Intro, Unnamed, Unread, Swepts
<1> QED
  BY <1>1, <1>2, <1>3

-----------------------------------------------------------------------------
(* The errors of a sweep.                                                  *)
LEMMA JoinedErr ==
  ASSUME NEW outs
  PROVE  /\ Joined(outs).err \in Errors \cup {None}
         /\ Joined(outs).err = None <=> \A out \in outs : out.err \notin Errors
         /\ (\E out \in outs : out.err = "crash") => Joined(outs).err = "crash"
         /\ Joined(outs).found = UNION {out.found : out \in outs}
<1> DEFINE Met(kind) == \E out \in outs : out.err = kind
           err == IF Met("crash") THEN "crash" ELSE IF Met("fatal") THEN "fatal" ELSE None
           all == UNION {out.found : out \in outs}
<1>1. Joined(outs).err = err /\ Joined(outs).found = all
  <2>1. Joined(outs) = [found |-> all, err |-> err]
    BY DEF Joined
  <2> HIDE DEF err, all
  <2> QED
    BY <2>1
<1>2. /\ Met("crash") => err = "crash"
      /\ ~Met("crash") /\ Met("fatal") => err = "fatal"
      /\ ~Met("crash") /\ ~Met("fatal") => err = None
  <2> HIDE DEF Met
  <2> QED
    OBVIOUS
<1> HIDE DEF err
<1>3. Errors = {"fatal", "crash"} /\ None \notin Errors
  BY DEF Errors, None
<1> QED
  BY <1>1, <1>2, <1>3

LEMMA SweepErr ==
  ASSUME NEW cand, NEW o
  PROVE  SweepFrom(cand, o).err \in Errors \cup {None}
<1> DEFINE st == ReleaseObserved(cand, o.msgs)
           Swepts == {SweepMap(st, o, map, Cardinality(SlotMaps(o.msgs, st))) : map \in SlotMaps(o.msgs, st)}
<1>1. NoneFound("fatal").err \in Errors /\ NoneFound("crash").err \in Errors
  BY DEF NoneFound, Errors
<1>2. Joined(Swepts).err \in Errors \cup {None}
  <2> HIDE DEF Swepts
  <2> QED
    BY JoinedErr
<1>3. SweepFrom(cand, o) \in {[found |-> {cand}, err |-> None], NoneFound("fatal"), NoneFound("crash"), Joined(Swepts)}
  <2> DEFINE Intro == Said(o.msgs, "INTROMSG")
             Unnamed == OppSwitchBranches(o.msgs, st) = {}
             Unread == \E i \in DOMAIN o.msgs : IsUse(o.msgs[i]) /\ SideError(o.msgs[i], st)
  <2>1. SweepFrom(cand, o) = IF Intro THEN [found |-> {cand}, err |-> None]
                               ELSE IF Unnamed THEN NoneFound("fatal")
                               ELSE IF Unread THEN NoneFound("crash") ELSE Joined(Swepts)
    BY DEF SweepFrom
  <2> HIDE DEF Intro, Unnamed, Unread, Swepts
  <2> QED
    BY <2>1
<1> HIDE DEF Swepts
<1> QED
  BY <1>1, <1>2, <1>3

-----------------------------------------------------------------------------
(* The recording session.                                                  *)

\* What a replay of the stopped sweep comes to.
Again == Joined({SweepFrom(c, obs) : c \in cands})
Written(kind) ==
  [cands |-> cands, msgs |-> obs.msgs, recs |-> obs.recs, out |-> kind, survivors |-> {}]

\* A running sweep has its input and no outcome on disk, and has found what
\* the candidates it is through with have; a stopped one has written an
\* outcome that a replay comes to again, or none.
RecordedInv ==
  /\ status = "sweep" =>
       /\ disk = Written(None) /\ todo \subseteq cands
       /\ \A c \in cands \ todo : SweepFrom(c, obs).err = None
       /\ found = UNION {SweepFrom(c, obs).found : c \in cands \ todo}
  /\ status \in {"halted", "PASS", "FAIL", "raised"} =>
       \E kind \in Errors \cup {None} :
         /\ disk = Written(kind)
         /\ \/ kind = None
            \/ Again.err = kind
            \/ Again.err = "crash"
            \/ kind = "fatal" /\ Again.err = None /\ Again.found = {}
  /\ status = "PASS" => disk.out \in Errors
  /\ status = "FAIL" => disk.out = None

LEMMA RecordedInit == Init => RecordedInv
BY DEF Init, RecordedInv

\* Neither the game nor the start of a sweep leaves anything to be replayed.
LEMMA GameKeepsRecord ==
  ASSUME GameIntro \/ GameTurn \/ GameReplace \/ Over
  PROVE  RecordedInv'
<1>1. status' \in {"seen", "over"}
  BY DEF GameIntro, GameTurn, GameReplace, Over, GameShows
<1> QED
  BY <1>1 DEF RecordedInv

LEMMA InputRecorded ==
  ASSUME RecordInput
  PROVE  RecordedInv'
BY DEF RecordInput, RecordedInv, Written

LEMMA CandidateRecorded ==
  ASSUME RecordedInv, SweepCandidate
  PROVE  RecordedInv'
<1>1. PICK c \in {CHOOSE x \in todo : TRUE} : \E out \in {SweepFrom(c, obs)} :
        IF out.err # None
        THEN /\ status' = "halted" /\ RecordOutcome(out.err, {})
             /\ UNCHANGED <<todo, found>>
        ELSE /\ todo' = todo \ {c} /\ found' = found \cup out.found
             /\ UNCHANGED <<status, disk>>
  BY DEF SweepCandidate
<1>2. status = "sweep" /\ c \in todo /\ UNCHANGED <<truth, cands, obs, turns>>
  BY <1>1 DEF SweepCandidate
<1>3. disk = Written(None) /\ todo \subseteq cands
  BY <1>2 DEF RecordedInv
<1>4. CASE SweepFrom(c, obs).err # None
  <2>1. status' = "halted" /\ disk' = [disk EXCEPT !.out = SweepFrom(c, obs).err, !.survivors = {}]
    BY <1>1, <1>4 DEF RecordOutcome
  <2>2. SweepFrom(c, obs).err \in Errors
    BY <1>4, SweepErr
  <2>3. disk' = Written(SweepFrom(c, obs).err)'
    BY <1>2, <1>3, <2>1 DEF Written
  <2>4. Again.err \in Errors /\ (SweepFrom(c, obs).err = "crash" => Again.err = "crash")
    BY <1>2, <1>3, <2>2, JoinedErr DEF Again, Errors, None
  <2>5. Again.err = SweepFrom(c, obs).err \/ Again.err = "crash"
    BY <2>2, <2>4 DEF Errors
  <2>6. Again' = Again
    BY <1>2 DEF Again
  <2> QED
    BY <1>2, <2>1, <2>2, <2>3, <2>5, <2>6 DEF RecordedInv
<1>5. CASE SweepFrom(c, obs).err = None
  <2>1. status' = "sweep" /\ disk' = disk /\ todo' = todo \ {c} /\ found' = found \cup SweepFrom(c, obs).found
    BY <1>1, <1>2, <1>5
  <2>2. cands \ todo' = (cands \ todo) \cup {c}
    BY <1>2, <1>3, <2>1
  <2>3. found' = UNION {SweepFrom(d, obs).found : d \in cands \ todo'}
    BY <1>2, <2>1, <2>2 DEF RecordedInv
  <2>4. \A d \in cands \ todo' : SweepFrom(d, obs).err = None
    BY <1>2, <1>5, <2>2 DEF RecordedInv
  <2>5. Written(None)' = Written(None)
    BY <1>2 DEF Written
  <2> QED
    BY <1>2, <1>3, <2>1, <2>3, <2>4, <2>5 DEF RecordedInv
<1> QED
  BY <1>4, <1>5

\* Candidates that all went through without error and found nothing do so again.
LEMMA EndRecorded ==
  ASSUME RecordedInv, SweepEnds
  PROVE  RecordedInv'
<1>1. CASE found # {}
  <2>1. status' = "play"
    BY <1>1 DEF SweepEnds
  <2> QED
    BY <2>1 DEF RecordedInv
<1>2. CASE found = {}
  <2>1. /\ status = "sweep" /\ todo = {} /\ status' = "halted"
        /\ disk' = [disk EXCEPT !.out = "fatal", !.survivors = {}]
        /\ cands' = cands /\ obs' = obs
    BY <1>2 DEF SweepEnds, RecordOutcome
  <2>2. disk = Written(None)
    BY <2>1 DEF RecordedInv
  <2>9. disk' = Written("fatal")'
    BY <2>1, <2>2 DEF Written
  <2>3. \A c \in cands : SweepFrom(c, obs).err = None
    BY <2>1 DEF RecordedInv
  <2>4. {} = UNION {SweepFrom(c, obs).found : c \in cands}
    BY <1>2, <2>1 DEF RecordedInv
  <2> DEFINE outs == {SweepFrom(c, obs) : c \in cands}
  <2>5. \A out \in outs : out.err \notin Errors
    BY <2>3 DEF Errors, None
  <2>6. UNION {out.found : out \in outs} = {}
    BY <2>4
  <2>7. Again.err = None /\ Again.found = {}
    <3> HIDE DEF outs
    <3>1. Joined(outs).err = None /\ Joined(outs).found = {}
      BY <2>5, <2>6, JoinedErr
    <3> QED
      BY <3>1 DEF Again, outs
  <2>8. Again' = Again
    BY <2>1 DEF Again
  <2> QED
    BY <2>1, <2>7, <2>8, <2>9 DEF RecordedInv, Errors
<1> QED
  BY <1>1, <1>2

LEMMA KillRecorded ==
  ASSUME RecordedInv, Interrupted
  PROVE  RecordedInv'
<1>1. status = "sweep" /\ status' = "halted" /\ UNCHANGED <<cands, obs, disk>>
  BY DEF Interrupted
<1>2. disk' = Written(None)'
  BY <1>1 DEF RecordedInv, Written
<1> QED
  BY <1>1, <1>2 DEF RecordedInv

\* The replay sweeps what is on disk, which is what the sweep read.
LEMMA ReplayIsAgain ==
  ASSUME NEW kind, disk = Written(kind)
  PROVE  Replayed(load_session(disk)) = Again
<1> DEFINE in == load_session(disk).inputs
<1>1. in.cands = cands /\ in.msgs = obs.msgs /\ in.recs = obs.recs
  BY DEF load_session, Written
<1> HIDE DEF in
<1>2. \A c : SweepFrom(c, in) = SweepFrom(c, obs)
  BY <1>1, SweepReadsTheRecord
<1>3. {SweepFrom(c, in) : c \in in.cands} = {SweepFrom(c, obs) : c \in cands}
  BY <1>1, <1>2
<1> QED
  BY <1>3 DEF Replayed, Again, in

LEMMA ReplayRecorded ==
  ASSUME RecordedInv, ReplaySweep
  PROVE  RecordedInv'
<1>1. /\ status = "halted" /\ UNCHANGED <<cands, obs, disk>>
      /\ status' = replay_boundary(load_session(disk), Replayed(load_session(disk)))
  BY DEF ReplaySweep
<1>2. PICK kind \in Errors \cup {None} :
         /\ disk = Written(kind)
         /\ \/ kind = None
            \/ Again.err = kind
            \/ Again.err = "crash"
            \/ kind = "fatal" /\ Again.err = None /\ Again.found = {}
  BY <1>1 DEF RecordedInv
<1>3. status' = replay_boundary(load_session(disk), Again)
  BY <1>1, <1>2, ReplayIsAgain
<1>4. disk.out = kind /\ load_session(disk).survivors = {}
  BY <1>2 DEF load_session, Written
<1>5. load_session(disk).error = kind
  BY <1>2 DEF load_session, Written, Errors, None
<1>6. Again.err \in Errors \cup {None}
  BY JoinedErr DEF Again
<1>7. /\ status' \in {"PASS", "FAIL", "raised"}
      /\ status' = "PASS" => kind \in Errors
      /\ status' = "FAIL" => kind = None
  BY <1>2, <1>3, <1>4, <1>5, <1>6 DEF replay_boundary, Errors, None
<1>8. Written(kind)' = Written(kind) /\ Again' = Again
  BY <1>1 DEF Written, Again
<1> QED
  BY <1>1, <1>2, <1>4, <1>7, <1>8 DEF RecordedInv

LEMMA RecordedNext == RecordedInv /\ [Next]_vars => RecordedInv'
<1> SUFFICES ASSUME RecordedInv, [Next]_vars PROVE RecordedInv'
  OBVIOUS
<1>1. CASE UNCHANGED vars
  <2>1. UNCHANGED <<status, cands, obs, todo, found, disk>>
    BY <1>1 DEF vars
  <2>2. Again' = Again /\ \A kind : Written(kind)' = Written(kind)
    BY <2>1 DEF Again, Written
  <2> QED
    BY <2>1, <2>2 DEF RecordedInv
<1> QED
  BY <1>1, GameKeepsRecord, InputRecorded, CandidateRecorded, EndRecorded, KillRecorded, ReplayRecorded
  DEF Next

LEMMA RecordedGives == RecordedInv => StopIsRecorded
BY DEF RecordedInv, StopIsRecorded, Written

\* Whatever stops the live player in a sweep, for every game and every turn,
\* the session on disk has what the sweep was given, and its replay
\* (replay_sweep.py) raises the recorded error again.
THEOREM StopReplays == Spec => []StopIsRecorded
<1>1. Spec => []RecordedInv
  BY RecordedInit, RecordedNext, PTL DEF Spec
<1> QED
  BY <1>1, RecordedGives, PTL
=============================================================================
