------------------------ MODULE TransitionOracleProofs ------------------------
(***************************************************************************)
(* Proofs about TransitionOracle for every turn, mode and budget: its      *)
(* types, that the recorded prefix and the log of the replay never fall    *)
(* out of step, and that a complete step has emitted the children of the   *)
(* turn, no other and in exact mode all of them.                           *)
(*                                                                         *)
(* A replay is described by the configurations it goes through.  The       *)
(* prefix is right when each entry is the event at which the replay of the *)
(* entries before it stood when it was added, so that the replay of the    *)
(* whole prefix comes by there again.  That nothing is missed is shown for *)
(* an arbitrary choice of a value for every draw of the turn: until the    *)
(* search is over, some entry still has the chosen value to try, or the    *)
(* turn played by that choice has ended in a child that was emitted.       *)
(***************************************************************************)
EXTENDS TransitionOracle, SequenceTheorems, FiniteSetTheorems, WellFoundedInduction, TLAPS

-----------------------------------------------------------------------------
(* The call's setup and the turn's events.                                  *)

Place == Point \union Child \union {Broken}

LEMMA SetupFacts ==
    ASSUME call \in DOMAIN Setups
    PROVE  /\ setup.mode \in {"None", "Pessimal", "Coarse"}
           /\ setup.max_leaves \in Nat /\ setup.max_depth \in Nat
           /\ setup.opps \in Seq(Nat) /\ Len(setup.opps) \in Nat
           /\ \A i \in 1..Len(setup.opps) : setup.opps[i] \in Nat
           /\ \A p \in Point : \A d \in setup.draws[p] :
                 d \in Draw /\ \A v \in Options(d) : d.next[v] \in Point => d.next[v] > p
<1>1. setup.opps \in Seq(Nat)
  BY OracleAssumption DEF setup
<1>2. Len(setup.opps) \in Nat /\ \A i \in 1..Len(setup.opps) : setup.opps[i] \in Nat
  BY <1>1
<1> QED
  BY <1>1, <1>2, OracleAssumption DEF setup

LEMMA DrawFacts ==
    ASSUME NEW d \in Draw
    PROVE  /\ d.channel \in {"A", "B"} /\ d.event \in Event /\ d.stray \in Child
           /\ Options(d) \in (SUBSET (0..3)) \ {{}}
           /\ \A v \in Options(d) : d.next[v] \in Place
           /\ \A v : Follow(d, v) \in Place
<1>1. d.channel \in {"A", "B"} /\ d.event \in Event /\ d.stray \in Child
  BY DEF Draw
<1>2. d.next \in UNION {[o -> Point \union Child \union {Broken}] : o \in (SUBSET (0..3)) \ {{}}}
  BY DEF Draw
<1>3. PICK o \in (SUBSET (0..3)) \ {{}} : d.next \in [o -> Place]
  BY <1>2 DEF Place
<1>4. Options(d) = o /\ \A v \in o : d.next[v] \in Place
  BY <1>3 DEF Options
<1> QED
  BY <1>1, <1>3, <1>4 DEF Follow, Place

LEMMA PlaceFacts ==
    /\ Point \subseteq Nat /\ 1 \in Point
    /\ \A p \in Point : p >= 1 /\ p <= Events
    /\ \A c \in Child : c \notin Point /\ c # Broken /\ c \in Place
    /\ Broken \notin Point /\ Broken \in Place
    /\ Point \subseteq Place
BY OracleAssumption DEF Point, Place

\* The draws known to a well-typed program.
LEMMA ProgramFacts ==
    ASSUME TypeOK, Shape
    PROVE  \A o : \A q : <<o, q>> \in DOMAIN program =>
               /\ o \in 1..Len(setup.opps) /\ q \in Point
               /\ program[<<o, q>>] \in setup.draws[q]
               /\ program[<<o, q>>] \in Draw
<1> SUFFICES ASSUME NEW o, NEW q, <<o, q>> \in DOMAIN program
             PROVE  /\ o \in 1..Len(setup.opps) /\ q \in Point
                    /\ program[<<o, q>>] \in setup.draws[q]
                    /\ program[<<o, q>>] \in Draw
  OBVIOUS
<1>1. o \in 1..Len(setup.opps) /\ q \in Point
  BY DEF Shape
<1> DEFINE k == <<o, q>>
<1>2. program[k] \in setup.draws[k[2]]
  BY DEF TypeOK
<1>3. k[2] = q
  OBVIOUS
<1>4. program[k] \in setup.draws[q]
  BY <1>2, <1>3
<1> QED
  BY <1>1, <1>4, SetupFacts DEF TypeOK

\* What an entry of a prefix is.
LEMMA EntryFacts ==
    ASSUME NEW p \in Seq(PrefixEntry)
    PROVE  /\ Len(p) \in Nat /\ DOMAIN p = 1..Len(p)
           /\ \A i \in 1..Len(p) :
                 /\ p[i] \in PrefixEntry
                 /\ p[i].channel \in {"A", "B"} /\ p[i].event \in Event
                 /\ p[i].occ \in Nat /\ p[i].val \in 0..3
                 /\ p[i].todo \in SUBSET (0..3) /\ p[i].w \in Nat
<1>1. Len(p) \in Nat /\ DOMAIN p = 1..Len(p) /\ \A i \in 1..Len(p) : p[i] \in PrefixEntry
  OBVIOUS
<1> QED
  BY <1>1 DEF PrefixEntry

\* A set of options has a size.
LEMMA OptionFacts ==
    ASSUME NEW opts \in SUBSET (0..3), opts # {}
    PROVE  /\ IsFiniteSet(opts) /\ Cardinality(opts) \in Nat \ {0}
           /\ Min(opts) \in opts /\ Max(opts) \in opts
<1>1. IsFiniteSet(opts)
  <2>1. IsFiniteSet(0..3)
    BY FS_Interval, 0 \in Int, 3 \in Int, Zenon
  <2> QED
    BY <2>1, FS_Subset, Zenon
<1>2. Cardinality(opts) \in Nat \ {0}
  <2>1. Cardinality(opts) \in Nat
    BY <1>1, FS_CardinalityType
  <2>2. Cardinality(opts) # 0
    BY <1>1, FS_EmptySet, Zenon
  <2> QED
    BY <2>1, <2>2
<1>3. \E x \in opts : \A y \in opts : x =< y
  <2>1. CASE 0 \in opts
    BY <2>1
  <2>2. CASE 0 \notin opts /\ 1 \in opts
    BY <2>2
  <2>3. CASE 0 \notin opts /\ 1 \notin opts /\ 2 \in opts
    BY <2>3
  <2>4. CASE opts = {3}
    BY <2>4
  <2>5. 0 \notin opts /\ 1 \notin opts /\ 2 \notin opts => 3 \in opts /\ opts = {3}
    BY 0..3 = {0, 1, 2, 3}
  <2> QED
    BY <2>1, <2>2, <2>3, <2>4, <2>5
<1>4. \E x \in opts : \A y \in opts : x >= y
  <2>1. CASE 3 \in opts
    BY <2>1
  <2>2. CASE 3 \notin opts /\ 2 \in opts
    BY <2>2
  <2>3. CASE 3 \notin opts /\ 2 \notin opts /\ 1 \in opts
    BY <2>3
  <2>4. CASE opts = {0}
    BY <2>4
  <2>5. 3 \notin opts /\ 2 \notin opts /\ 1 \notin opts => 0 \in opts /\ opts = {0}
    BY 0..3 = {0, 1, 2, 3}
  <2> QED
    BY <2>1, <2>2, <2>3, <2>4, <2>5
<1>5. Min(opts) \in opts
  BY <1>3 DEF Min
<1>6. Max(opts) \in opts
  BY <1>4 DEF Max
<1> QED
  BY <1>1, <1>2, <1>5, <1>6

-----------------------------------------------------------------------------
(* Type correctness.                                                        *)

LEMMA TypeInit == Init => TypeOK /\ Shape
<1> SUFFICES ASSUME Init PROVE TypeOK /\ Shape
  OBVIOUS
<1>1. call \in DOMAIN Setups
  BY DEF Init
<1>2. DOMAIN program = {} /\ prefix = <<>> /\ log = <<>> /\ consumed = {}
  BY DEF Init
<1>3. TypeOK
  <2>1. opp \in 0..Len(setup.opps) /\ leaves \in 0..setup.max_leaves
    BY <1>1, SetupFacts DEF Init
  <2>2. occ \in [Event -> Nat] /\ cursor \in [Event -> Nat] /\ weight \in [Child -> Nat]
    BY DEF Init
  <2>3. prefix \in Seq(PrefixEntry) /\ log \in Seq(LogEntry) /\ at \in Place
    BY <1>2, PlaceFacts DEF Init
  <2> QED
    BY <1>1, <1>2, <2>1, <2>2, <2>3 DEF Init, TypeOK, Place
<1>4. Len(prefix) = 0
  BY <1>2
<1>5. Shape
  BY <1>1, <1>2, <1>4, SetupFacts DEF Init, Shape
<1> QED
  BY <1>3, <1>5

\* What a step of the replay does to the program: it meets one event, known
\* before or from now on.
MeetsFacts(d) ==
    /\ at \in Point /\ pc = "turn" /\ opp' = opp
    /\ <<opp, at>> \in DOMAIN program' /\ program'[<<opp, at>>] = d
    /\ DOMAIN program' = DOMAIN program \union {<<opp, at>>}
    /\ \A k \in DOMAIN program : program'[k] = program[k]
    /\ UNCHANGED emitVars

LEMMA MeetsProgram ==
    ASSUME NEW d, Meets(d)
    PROVE  MeetsFacts(d)
<1> DEFINE key == <<opp, at>>
<1>1. CASE key \in DOMAIN program
  BY <1>1 DEF Meets, MeetsFacts
<1>2. CASE key \notin DOMAIN program
  <2>1. program' = Put(program, key, d)
    BY <1>2 DEF Meets
  <2> HIDE DEF key
  <2>2. /\ DOMAIN program' = DOMAIN program \union {key} /\ program'[key] = d
        /\ \A k \in DOMAIN program : program'[k] = program[k]
    BY <1>2, <2>1 DEF Put
  <2> QED
    BY <2>2 DEF Meets, MeetsFacts, key
<1> QED
  BY <1>1, <1>2

\* The types that a step of the replay leaves: those of the program and of
\* what only the search changes.
LEMMA MeetsTypes ==
    ASSUME TypeOK, Shape, call' = call, at \in Point, NEW d \in setup.draws[at], MeetsFacts(d)
    PROVE  /\ \A k \in DOMAIN program' : program'[k] \in setup.draws[k[2]]
           /\ DOMAIN program' \subseteq (1..Len(setup.opps)) \X Point
           /\ opp' \in 1..Len(setup.opps)
<1>1. opp \in 1..Len(setup.opps)
  BY DEF MeetsFacts, Shape
<1> DEFINE key == <<opp, at>>
<1>2. key[2] = at /\ key \in (1..Len(setup.opps)) \X Point
  BY <1>1
<1> HIDE DEF key
<1>3. DOMAIN program' = DOMAIN program \union {key} /\ program'[key] = d
  BY DEF MeetsFacts, key
<1>4. \A k \in DOMAIN program' : program'[k] \in setup.draws[k[2]]
  BY <1>2, <1>3 DEF TypeOK, MeetsFacts
<1> QED
  BY <1>1, <1>2, <1>3, <1>4 DEF Shape, MeetsFacts

LEMMA WeightType ==
    ASSUME TypeOK, opp \in 1..Len(setup.opps)
    PROVE  Weight \in Nat
<1>1. CASE prefix = <<>>
  BY <1>1, SetupFacts DEF Weight, TypeOK
<1>2. CASE prefix # <<>>
  <2>1. prefix \in Seq(PrefixEntry) /\ Len(prefix) \in 1..Len(prefix)
    BY <1>2 DEF TypeOK
  <2> QED
    BY <1>2, <2>1, EntryFacts DEF Weight, Last
<1> QED
  BY <1>1, <1>2

\* One more entry, with the values opts.
Extended(ch, e, n, opts) ==
    /\ pc' = "dfs"
    /\ \E x \in PrefixEntry : /\ x.channel = ch /\ x.event = e /\ x.occ = n
                              /\ {x.val} \union x.todo = opts
                              /\ prefix' = Append(prefix, x)

LEMMA ExtendTypes ==
    ASSUME TypeOK, opp \in 1..Len(setup.opps), NEW ch \in {"A", "B"}, NEW e \in Event,
           NEW n \in Nat, NEW opts \in SUBSET (0..3), NEW v, Extend(ch, e, n, v, opts)
    PROVE  Extended(ch, e, n, opts)
<1>1. v \in opts /\ opts # {} /\ v \in 0..3 /\ pc' = "dfs"
  BY DEF Extend
<1> DEFINE w == Weight \div Cardinality(opts)
           todo == opts \ {v}
           x == [channel |-> ch, event |-> e, occ |-> n, val |-> v, todo |-> todo, w |-> w]
<1>2. w \in Nat
  <2>1. Weight \in Nat
    BY WeightType
  <2>2. Cardinality(opts) \in Nat \ {0}
    BY <1>1, OptionFacts
  <2> QED
    BY <2>1, <2>2
<1>3. prefix' = Append(prefix, x)
  BY DEF Extend
<1>4. todo \in SUBSET (0..3) /\ {v} \union todo = opts
  BY <1>1
<1> HIDE DEF w, todo
<1>5. /\ x \in PrefixEntry /\ x.channel = ch /\ x.event = e /\ x.occ = n
      /\ {x.val} \union x.todo = opts
  BY <1>1, <1>2, <1>4 DEF PrefixEntry
<1> HIDE DEF x
<1> QED
  BY <1>1, <1>3, <1>5 DEF Extended

LEMMA ExtendShape ==
    ASSUME TypeOK, NEW x \in PrefixEntry, prefix' = Append(prefix, x)
    PROVE  prefix' \in Seq(PrefixEntry) /\ Len(prefix') = Len(prefix) + 1
BY DEF TypeOK

\* A draw that the replay of a turn makes by itself.
LEMMA TypeDraw ==
    ASSUME TypeOK, Shape, call' = call, NEW d \in setup.draws[at], at \in Point, MeetsFacts(d),
           UNCHANGED <<pc, prefix>>, at' \in Place,
           occ' \in [Event -> Nat], cursor' \in [Event -> Nat], log' \in Seq(LogEntry),
           consumed' \subseteq DOMAIN prefix
    PROVE  TypeOK' /\ Shape'
<1>1. setup' = setup
  BY DEF setup
<1>2. /\ \A k \in DOMAIN program' : program'[k] \in setup.draws[k[2]]
      /\ DOMAIN program' \subseteq (1..Len(setup.opps)) \X Point
      /\ opp' \in 1..Len(setup.opps)
  BY MeetsTypes
<1>3. pc = "turn" /\ UNCHANGED emitVars
  BY DEF MeetsFacts
<1>4. consumed' \subseteq 1..(setup.max_depth + 1)
  <2>1. DOMAIN prefix = 1..Len(prefix) /\ Len(prefix) \in Nat /\ Len(prefix) <= setup.max_depth
    BY <1>3, EntryFacts DEF TypeOK, Shape
  <2> QED
    BY <2>1, SetupFacts DEF TypeOK
<1>5. opp' \in 0..Len(setup.opps)
  BY <1>2
<1>6. TypeOK'
  BY <1>1, <1>2, <1>3, <1>4, <1>5 DEF TypeOK, emitVars, Place
<1>7. Shape'
  BY <1>1, <1>2, <1>3 DEF Shape
<1> QED
  BY <1>6, <1>7

LEMMA TypePause ==
    ASSUME TypeOK, Shape, call' = call, NEW d \in setup.draws[at], d \in Draw, at \in Point,
           NEW v \in Options(d), AskPauses(d, v)
    PROVE  TypeOK' /\ Shape'
<1>1. setup' = setup
  BY DEF setup
<1>2. MeetsFacts(d)
  BY MeetsProgram DEF AskPauses
<1>3. /\ \A k \in DOMAIN program' : program'[k] \in setup.draws[k[2]]
      /\ DOMAIN program' \subseteq (1..Len(setup.opps)) \X Point
      /\ opp' \in 1..Len(setup.opps) /\ opp' = opp
  BY <1>2, MeetsTypes DEF MeetsFacts
<1>4. pc = "turn" /\ UNCHANGED emitVars /\ UNCHANGED turnVars
  BY <1>2 DEF MeetsFacts, AskPauses
<1>5. /\ pc' \in {"dfs", "diverged"} /\ prefix' \in Seq(PrefixEntry)
      /\ Len(prefix') <= setup.max_depth + 1
  <2>1. Len(prefix) \in Nat /\ Len(prefix) <= setup.max_depth /\ setup.max_depth \in Nat
    BY <1>4, SetupFacts DEF TypeOK, Shape
  <2>2. CASE Exhausted
    <3>1. Extend("A", d.event, 0, v, Options(d))
      BY <2>2 DEF AskPauses
    <3>2. d.event \in Event /\ Options(d) \in SUBSET (0..3) /\ 0 \in Nat /\ "A" \in {"A", "B"}
      BY DrawFacts
    <3>3. opp \in 1..Len(setup.opps)
      BY <1>3
    <3>4. Extended("A", d.event, 0, Options(d))
      BY <3>1, <3>2, <3>3, ExtendTypes, Zenon
    <3>5. pc' = "dfs"
      BY <3>4 DEF Extended
    <3>6. \E x \in PrefixEntry : prefix' = Append(prefix, x)
      BY <3>4 DEF Extended
    <3> QED
      BY <2>1, <3>5, <3>6, ExtendShape
  <2>3. CASE ~Exhausted
    BY <2>1, <2>3 DEF AskPauses, TypeOK
  <2> QED
    BY <2>2, <2>3
<1>6. opp' \in 0..Len(setup.opps)
  BY <1>3
<1>7. TypeOK'
  BY <1>1, <1>3, <1>4, <1>5, <1>6 DEF TypeOK, emitVars, turnVars
<1>8. Shape'
  BY <1>1, <1>3, <1>5 DEF Shape
<1> QED
  BY <1>7, <1>8

LEMMA LogTypes ==
    ASSUME TypeOK, NEW d \in Draw, Log(d)
    PROVE  log' \in Seq(LogEntry)
<1>1. [event |-> d.event, opts |-> Options(d)] \in LogEntry
  BY DrawFacts DEF LogEntry
<1> QED
  BY <1>1 DEF Log, TypeOK

LEMMA BumpTypes ==
    ASSUME TypeOK, NEW e \in Event
    PROVE  /\ [occ EXCEPT ![e] = occ[e] + 1] \in [Event -> Nat]
           /\ [cursor EXCEPT ![e] = cursor[e] + 1] \in [Event -> Nat]
BY DEF TypeOK

LEMMA TypeReplay ==
    ASSUME TypeOK, Shape, call' = call, ReplayStep
    PROVE  TypeOK' /\ Shape'
<1>1. at \in Point
  BY DEF ReplayStep
<1>2. PICK d \in setup.draws[at] :
          \/ DrawSaturated(d) \/ DrawDefault(d)
          \/ \E i \in DOMAIN prefix : DrawForced(d, i) \/ AskAnswered(d, i)
          \/ \E v \in Options(d) : AskPauses(d, v)
  BY <1>1 DEF ReplayStep
<1>3. d \in Draw
  BY <1>1, SetupFacts DEF TypeOK
<1>4. \A v : Follow(d, v) \in Place
  BY <1>3, DrawFacts
<1>5. CASE \E v \in Options(d) : AskPauses(d, v)
  BY <1>1, <1>3, <1>5, TypePause
<1>6. ASSUME Meets(d) PROVE MeetsFacts(d) /\ pc = "turn" /\ consumed \subseteq DOMAIN prefix
  BY <1>6, MeetsProgram DEF MeetsFacts, Shape
<1>7. CASE DrawSaturated(d)
  <2>1. Meets(d) /\ Log(d) /\ at' \in Place /\ UNCHANGED <<pc, prefix, occ, cursor, consumed>>
    BY <1>4, <1>7 DEF DrawSaturated
  <2>2. log' \in Seq(LogEntry)
    BY <1>3, <2>1, LogTypes
  <2> QED
    BY <1>1, <1>6, <2>1, <2>2, TypeDraw DEF TypeOK
<1>8. CASE DrawDefault(d)
  <2>1. /\ Meets(d) /\ Log(d) /\ at' \in Place /\ BumpOccurrence(d.event)
        /\ UNCHANGED <<pc, prefix, cursor, consumed>>
    BY <1>4, <1>8 DEF DrawDefault
  <2>2. log' \in Seq(LogEntry) /\ occ' \in [Event -> Nat]
    BY <1>3, <2>1, LogTypes, BumpTypes, DrawFacts DEF BumpOccurrence
  <2> QED
    BY <1>1, <1>6, <2>1, <2>2, TypeDraw DEF TypeOK
<1>9. ASSUME NEW i \in DOMAIN prefix, DrawForced(d, i) PROVE TypeOK' /\ Shape'
  <2>1. /\ Meets(d) /\ Log(d) /\ at' \in Place /\ BumpOccurrence(d.event)
        /\ UNCHANGED <<pc, prefix, cursor>> /\ consumed' = consumed \union {i}
    BY <1>4, <1>9 DEF DrawForced
  <2>2. log' \in Seq(LogEntry) /\ occ' \in [Event -> Nat]
    BY <1>3, <2>1, LogTypes, BumpTypes, DrawFacts DEF BumpOccurrence
  <2> QED
    BY <1>1, <1>6, <2>1, <2>2, TypeDraw DEF TypeOK
<1>10. ASSUME NEW i \in DOMAIN prefix, AskAnswered(d, i) PROVE TypeOK' /\ Shape'
  <2>1. /\ Meets(d) /\ at' \in Place /\ cursor' = UsedUp(d.event)
        /\ UNCHANGED <<pc, prefix, occ, log, consumed>>
    BY <1>4, <1>10 DEF AskAnswered
  <2>2. cursor' \in [Event -> Nat]
    BY <1>3, <2>1, BumpTypes, DrawFacts DEF UsedUp
  <2> QED
    BY <1>1, <1>6, <2>1, <2>2, TypeDraw DEF TypeOK
<1> QED
  BY <1>2, <1>5, <1>7, <1>8, <1>9, <1>10

LEMMA TypeStep ==
    ASSUME TypeOK, Shape, call' = call,
           \/ NextOpp \/ StepReturns \/ TooDeep \/ StartReplay \/ TurnEnds \/ StopAtBudget
           \/ PopBack \/ DfsReturns \/ \E cont \in BOOLEAN : Emit(cont)
    PROVE  TypeOK' /\ Shape'
<1>1. setup' = setup
  BY DEF setup
<1>2. /\ setup.max_leaves \in Nat /\ setup.max_depth \in Nat /\ Len(setup.opps) \in Nat
      /\ prefix \in Seq(PrefixEntry) /\ Len(prefix) \in Nat /\ DOMAIN prefix = 1..Len(prefix)
  BY SetupFacts, EntryFacts DEF TypeOK
<1>3. CASE NextOpp
  <2>1. opp' \in 1..Len(setup.opps) /\ leaves' \in 0..setup.max_leaves /\ pc' \in {"start", "dfs"}
        /\ UNCHANGED <<program, prefix, turnVars, weight, seen, aborted, exceeded>>
        /\ prefix = <<>> /\ Len(prefix) = 0
    BY <1>2, <1>3 DEF NextOpp, TypeOK, Shape
  <2>2. opp' \in 0..Len(setup.opps)
    BY <2>1
  <2>3. TypeOK'
    BY <1>1, <2>1, <2>2 DEF TypeOK, turnVars
  <2>4. Shape'
    BY <1>1, <1>2, <2>1 DEF Shape, turnVars
  <2> QED
    BY <2>3, <2>4
<1>4. CASE StepReturns
  <2>1. TypeOK'
    BY <1>1, <1>4 DEF StepReturns, TypeOK, turnVars, emitVars
  <2>2. Shape'
    BY <1>1, <1>4 DEF StepReturns, Shape, turnVars, emitVars
  <2> QED
    BY <2>1, <2>2
<1>5. CASE TooDeep
  <2>1. TypeOK'
    BY <1>1, <1>5 DEF TooDeep, TypeOK, turnVars, emitVars
  <2>2. Shape'
    BY <1>1, <1>5 DEF TooDeep, Shape, turnVars, emitVars
  <2> QED
    BY <2>1, <2>2
<1>6. CASE StartReplay
  <2>1. /\ occ' \in [Event -> Nat] /\ cursor' \in [Event -> Nat] /\ log' \in Seq(LogEntry)
        /\ at' \in Place /\ consumed' = {} /\ pc' = "turn" /\ Len(prefix) <= setup.max_depth
        /\ pc = "dfs" /\ UNCHANGED <<program, opp, prefix, emitVars>>
    BY <1>6, PlaceFacts DEF StartReplay
  <2>2. TypeOK'
    BY <1>1, <2>1 DEF TypeOK, emitVars, Place
  <2>3. Shape'
    BY <1>1, <2>1 DEF Shape
  <2> QED
    BY <2>2, <2>3
<1>7. CASE TurnEnds
  <2>1. /\ pc = "turn" /\ pc' \in {"diverged", "failed", "scan"} /\ (pc' = "scan" => at \in Child)
        /\ UNCHANGED <<program, opp, prefix, turnVars, emitVars>>
    BY <1>7 DEF TurnEnds, TypeOK
  <2>2. TypeOK'
    BY <1>1, <2>1 DEF TypeOK, turnVars, emitVars
  <2>3. Shape'
    BY <1>1, <2>1 DEF Shape, turnVars
  <2> QED
    BY <2>2, <2>3
<1>8. CASE StopAtBudget
  <2>1. TypeOK'
    BY <1>1, <1>8 DEF StopAtBudget, TypeOK, turnVars
  <2>2. Shape'
    BY <1>1, <1>8 DEF StopAtBudget, Shape, turnVars
  <2> QED
    BY <2>1, <2>2
<1>9. CASE PopBack
  <2>1. /\ pc = "back" /\ prefix' \in Seq(PrefixEntry) /\ Len(prefix') = Len(prefix) - 1
        /\ UNCHANGED <<program, opp, pc, turnVars, emitVars>>
    BY <1>2, <1>9 DEF PopBack, Front
  <2>2. TypeOK'
    BY <1>1, <2>1 DEF TypeOK, turnVars, emitVars
  <2>3. Shape'
    BY <1>1, <1>2, <2>1 DEF Shape
  <2> QED
    BY <2>2, <2>3
<1>10. CASE DfsReturns
  <2>1. TypeOK'
    BY <1>1, <1>10 DEF DfsReturns, TypeOK, turnVars, emitVars
  <2>2. Shape'
    BY <1>1, <1>10 DEF DfsReturns, Shape, turnVars
  <2> QED
    BY <2>1, <2>2
<1>11. ASSUME NEW cont \in BOOLEAN, Emit(cont) PROVE TypeOK' /\ Shape'
  <2>1. /\ pc = "scan" /\ at \in Child /\ opp \in 1..Len(setup.opps) /\ leaves < setup.max_leaves
        /\ leaves' = leaves + 1 /\ weight' = [weight EXCEPT ![at] = weight[at] + Weight]
        /\ seen' = seen \union {at} /\ aborted' = ~cont /\ pc' \in {"back", "done"}
        /\ UNCHANGED <<program, opp, prefix, turnVars, exceeded>>
    BY <1>2, <1>11 DEF Emit, AtLeaf, OverBudget, Shape, TypeOK
  <2>2. weight' \in [Child -> Nat]
    BY <2>1, WeightType DEF TypeOK
  <2>3. leaves' \in 0..setup.max_leaves /\ seen' \subseteq Child /\ aborted' \in BOOLEAN
    BY <1>2, <2>1 DEF TypeOK
  <2>4. TypeOK'
    BY <1>1, <2>1, <2>2, <2>3 DEF TypeOK, turnVars
  <2>5. Shape'
    BY <1>1, <2>1 DEF Shape, turnVars
  <2> QED
    BY <2>4, <2>5
<1> QED
  BY <1>3, <1>4, <1>5, <1>6, <1>7, <1>8, <1>9, <1>10, <1>11

\* The entry that is tried next differs from the last one in its value.
LEMMA NextEntry ==
    ASSUME TypeOK, NEW v \in 0..3, TryNext(v)
    PROVE  /\ prefix' \in Seq(PrefixEntry) /\ Len(prefix') = Len(prefix) /\ Len(prefix) \in Nat \ {0}
           /\ \A i \in 1..(Len(prefix) - 1) : prefix'[i] = prefix[i]
           /\ prefix'[Len(prefix)].channel = prefix[Len(prefix)].channel
           /\ prefix'[Len(prefix)].event = prefix[Len(prefix)].event
           /\ prefix'[Len(prefix)].occ = prefix[Len(prefix)].occ
           /\ v \in prefix[Len(prefix)].todo /\ prefix'[Len(prefix)].val = v
           /\ prefix'[Len(prefix)].todo = prefix[Len(prefix)].todo \ {v}
<1>1. prefix \in Seq(PrefixEntry) /\ prefix # <<>>
  BY DEF TypeOK, TryNext
<1>2. Len(prefix) \in 1..Len(prefix) /\ Len(prefix) \in Nat \ {0}
  BY <1>1
<1> DEFINE n == Len(prefix)
           todo == Last(prefix).todo \ {v}
           y == [prefix[n] EXCEPT !.val = v, !.todo = todo]
<1>3. /\ prefix[n] \in PrefixEntry /\ todo \in SUBSET (0..3)
      /\ v \in prefix[n].todo /\ todo = prefix[n].todo \ {v}
  BY <1>1, <1>2, EntryFacts DEF Last, TryNext
<1>4. prefix' = [prefix EXCEPT ![n] = y]
  BY <1>1, <1>2 DEF TryNext
<1> HIDE DEF todo
<1>5. /\ y \in PrefixEntry /\ y.channel = prefix[n].channel /\ y.event = prefix[n].event
      /\ y.occ = prefix[n].occ /\ y.val = v /\ y.todo = todo
  BY <1>3 DEF PrefixEntry
<1> HIDE DEF y
<1>6. prefix' \in Seq(PrefixEntry) /\ Len(prefix') = n /\ prefix'[n] = y
      /\ \A i \in 1..(n - 1) : prefix'[i] = prefix[i]
  BY <1>1, <1>2, <1>4, <1>5
<1> QED
  BY <1>2, <1>3, <1>5, <1>6

LEMMA ExpandOptionsTypes ==
    ASSUME NEW e, NEW opts \in SUBSET (0..3), opts # {}
    PROVE  ExpandOptions(e, opts) \in SUBSET (0..3) /\ ExpandOptions(e, opts) \subseteq opts
<1>1. Min(opts) \in opts /\ Max(opts) \in opts
  BY OptionFacts
<1> QED
  BY <1>1 DEF ExpandOptions

LEMMA LogFacts ==
    ASSUME TypeOK
    PROVE  /\ Len(log) \in Nat /\ DOMAIN log = 1..Len(log)
           /\ \A i \in 1..Len(log) : log[i].event \in Event /\ log[i].opts \in (SUBSET (0..3)) \ {{}}
           /\ BranchPoints \subseteq 1..Len(log) /\ IsFiniteSet(BranchPoints)
<1>1. Len(log) \in Nat /\ DOMAIN log = 1..Len(log) /\ \A i \in 1..Len(log) : log[i] \in LogEntry
  BY DEF TypeOK
<1>2. \A i \in 1..Len(log) : log[i].event \in Event /\ log[i].opts \in (SUBSET (0..3)) \ {{}}
  BY <1>1 DEF LogEntry
<1>3. BranchPoints \subseteq 1..Len(log)
  BY <1>1 DEF BranchPoints
<1>4. IsFiniteSet(1..Len(log))
  BY <1>1, FS_Interval, 1 \in Int, Len(log) \in Int, Zenon
<1>5. IsFiniteSet(BranchPoints)
  BY <1>3, <1>4, FS_Subset, Zenon
<1> QED
  BY <1>1, <1>2, <1>3, <1>5

\* The draw that a branch is opened for.
LEMMA BranchFacts ==
    ASSUME TypeOK, Shape, NEW v \in 0..3, NEW i \in DOMAIN log, Branch(i, v)
    PROVE  /\ i \in Unforced /\ log[i].event \in Event /\ pc = "scan" /\ pc' = "dfs"
           /\ \E x \in PrefixEntry :
                 /\ x.channel = "B" /\ x.event = log[i].event /\ x.occ = Occurrence(i)
                 /\ {x.val} \union x.todo = ExpandOptions(log[i].event, log[i].opts)
                 /\ prefix' = Append(prefix, x)
           /\ UNCHANGED <<program, opp, turnVars, emitVars>>
<1>1. /\ pc = "scan" /\ i \in Unforced /\ opp \in 1..Len(setup.opps)
      /\ Extend("B", log[i].event, Occurrence(i), v, ExpandOptions(log[i].event, log[i].opts))
      /\ UNCHANGED <<program, opp, turnVars, emitVars>>
  BY DEF Branch, Shape
<1>2. i \in 1..Len(log) /\ log[i].event \in Event /\ log[i].opts \in (SUBSET (0..3)) \ {{}}
  BY LogFacts
<1>3. Occurrence(i) \in Nat
  <2>1. {j \in Earlier(i) : log[j].event = log[i].event} \in SUBSET BranchPoints
    BY DEF Earlier
  <2>2. IsFiniteSet({j \in Earlier(i) : log[j].event = log[i].event})
    BY <2>1, LogFacts, FS_Subset, Zenon
  <2> QED
    BY <2>2, FS_CardinalityType, Zenon DEF Occurrence
<1>4. ExpandOptions(log[i].event, log[i].opts) \in SUBSET (0..3)
  BY <1>2, ExpandOptionsTypes
<1>5. /\ pc' = "dfs"
      /\ \E x \in PrefixEntry :
            /\ x.channel = "B" /\ x.event = log[i].event /\ x.occ = Occurrence(i)
            /\ {x.val} \union x.todo = ExpandOptions(log[i].event, log[i].opts)
            /\ prefix' = Append(prefix, x)
  <2>1. PICK e \in Event, n \in Nat, opts \in SUBSET (0..3) :
            /\ e = log[i].event /\ n = Occurrence(i)
            /\ opts = ExpandOptions(log[i].event, log[i].opts)
    BY <1>2, <1>3, <1>4, Zenon
  <2>2. Extend("B", e, n, v, opts)
    BY <1>1, <2>1, Zenon
  <2>3. "B" \in {"A", "B"}
    OBVIOUS
  <2>4. Extended("B", e, n, opts)
    BY <1>1, <2>2, <2>3, ExtendTypes, Zenon
  <2>5. PICK x \in PrefixEntry : /\ x.channel = "B" /\ x.event = e /\ x.occ = n
                                 /\ {x.val} \union x.todo = opts
                                 /\ prefix' = Append(prefix, x)
    BY <2>4 DEF Extended
  <2>6. /\ x.channel = "B" /\ x.event = log[i].event /\ x.occ = Occurrence(i)
        /\ {x.val} \union x.todo = ExpandOptions(log[i].event, log[i].opts)
        /\ prefix' = Append(prefix, x)
    BY <2>1, <2>5, Zenon
  <2>7. pc' = "dfs"
    BY <2>4 DEF Extended
  <2> QED
    BY <2>6, <2>7, Zenon
<1> QED
  BY <1>1, <1>2, <1>5

LEMMA TypeBranch ==
    ASSUME TypeOK, Shape, call' = call, NEW v \in 0..3,
           TryNext(v) \/ \E i \in DOMAIN log : Branch(i, v)
    PROVE  TypeOK' /\ Shape'
<1>1. setup' = setup
  BY DEF setup
<1>2. setup.max_depth \in Nat /\ Len(prefix) \in Nat /\ prefix \in Seq(PrefixEntry)
  BY SetupFacts DEF TypeOK
<1>3. /\ prefix' \in Seq(PrefixEntry) /\ pc' = "dfs" /\ pc \in {"back", "scan"}
      /\ Len(prefix') <= setup.max_depth + 1
      /\ UNCHANGED <<program, opp, turnVars, emitVars>>
  <2>1. CASE TryNext(v)
    <3>1. prefix' \in Seq(PrefixEntry) /\ Len(prefix') = Len(prefix)
      BY <2>1, NextEntry
    <3> QED
      BY <2>1, <3>1 DEF TryNext, Shape
  <2>2. ASSUME NEW i \in DOMAIN log, Branch(i, v)
        PROVE  /\ prefix' \in Seq(PrefixEntry) /\ pc' = "dfs" /\ pc \in {"back", "scan"}
               /\ Len(prefix') <= setup.max_depth + 1
               /\ UNCHANGED <<program, opp, turnVars, emitVars>>
    <3>1. PICK x \in PrefixEntry : prefix' = Append(prefix, x)
      BY <2>2, BranchFacts
    <3>2. prefix' \in Seq(PrefixEntry) /\ Len(prefix') = Len(prefix) + 1
      BY <3>1, ExtendShape
    <3>3. pc = "scan" /\ pc' = "dfs" /\ UNCHANGED <<program, opp, turnVars, emitVars>>
      BY <2>2, BranchFacts
    <3> QED
      BY <1>2, <3>2, <3>3 DEF Shape
  <2> QED
    BY <2>1, <2>2
<1>4. TypeOK'
  BY <1>1, <1>3 DEF TypeOK, turnVars, emitVars
<1>5. Shape'
  BY <1>1, <1>3 DEF Shape
<1> QED
  BY <1>4, <1>5

LEMMA TypeNext == TypeOK /\ Shape /\ [Next]_vars => TypeOK' /\ Shape'
<1> SUFFICES ASSUME TypeOK, Shape, [Next]_vars PROVE TypeOK' /\ Shape'
  OBVIOUS
<1>1. CASE UNCHANGED vars
  <2>1. TypeOK'
    BY <1>1 DEF vars, turnVars, emitVars, TypeOK, setup
  <2>2. Shape'
    BY <1>1 DEF vars, turnVars, emitVars, Shape, setup
  <2> QED
    BY <2>1, <2>2
<1>2. CASE Next
  BY <1>2, TypeReplay, TypeStep, TypeBranch DEF Next
<1> QED
  BY <1>1, <1>2

\* TypeOK holds for every turn and every setup: no more leaves are emitted than
\* max_leaves, and the injections a replay consumes are entries of the prefix.
THEOREM OracleTypeCorrect == Spec => []TypeOK
<1>1. Spec => [](TypeOK /\ Shape)
  BY TypeInit, TypeNext, PTL DEF Spec
<1> QED
  BY <1>1, PTL

-----------------------------------------------------------------------------
(* Sizes.                                                                   *)

LEMMA FinitePart ==
    ASSUME NEW n \in Nat, NEW S \in SUBSET (1..n)
    PROVE  IsFiniteSet(S) /\ Cardinality(S) \in Nat /\ Cardinality(S) <= n
<1>1. IsFiniteSet(1..n) /\ Cardinality(1..n) = n
  BY FS_Interval, 1 \in Int, n \in Int
<1>2. IsFiniteSet(S) /\ Cardinality(S) <= Cardinality(1..n)
  BY <1>1, FS_Subset, Zenon
<1>3. Cardinality(S) \in Nat
  BY <1>2, FS_CardinalityType, Zenon
<1> QED
  BY <1>1, <1>2, <1>3

LEMMA PartSize ==
    ASSUME NEW T, IsFiniteSet(T), NEW S \in SUBSET T
    PROVE  /\ IsFiniteSet(S) /\ Cardinality(S) \in Nat /\ Cardinality(T) \in Nat
           /\ Cardinality(S) <= Cardinality(T)
           /\ \A x \in T : x \notin S => Cardinality(S) < Cardinality(T)
<1>1. /\ IsFiniteSet(S) /\ Cardinality(S) <= Cardinality(T)
      /\ Cardinality(S) = Cardinality(T) => S = T
  BY FS_Subset, Zenon
<1>2. Cardinality(S) \in Nat /\ Cardinality(T) \in Nat
  BY <1>1, FS_CardinalityType, Zenon
<1> QED
  BY <1>1, <1>2

LEMMA OneMore ==
    ASSUME NEW S, IsFiniteSet(S), NEW x, x \notin S
    PROVE  IsFiniteSet(S \union {x}) /\ Cardinality(S \union {x}) = Cardinality(S) + 1
BY FS_AddElement, Zenon

\* The sets that positions of the prefix and of the log make up.
LEMMA PositionSets ==
    ASSUME TypeOK
    PROVE  /\ Len(prefix) \in Nat /\ DOMAIN prefix = 1..Len(prefix)
           /\ IsFiniteSet(CatbEntries) /\ CatbCount \in Nat
           /\ \A e : IsFiniteSet(Queue(e)) /\ Cardinality(Queue(e)) \in Nat
           /\ \A i \in DOMAIN prefix : IsFiniteSet(Ahead(i)) /\ Cardinality(Ahead(i)) \in Nat
<1>1. Len(prefix) \in Nat /\ DOMAIN prefix = 1..Len(prefix)
  BY EntryFacts DEF TypeOK
<1>2. CatbEntries \in SUBSET (1..Len(prefix))
  BY <1>1 DEF CatbEntries
<1>3. \A e : Queue(e) \in SUBSET (1..Len(prefix))
  BY <1>1 DEF Queue
<1>4. \A i \in DOMAIN prefix : Ahead(i) \in SUBSET (1..Len(prefix))
  BY <1>1 DEF Ahead
<1>5. IsFiniteSet(CatbEntries) /\ CatbCount \in Nat
  BY <1>1, <1>2, FinitePart DEF CatbCount
<1>6. \A e : IsFiniteSet(Queue(e)) /\ Cardinality(Queue(e)) \in Nat
  BY <1>1, <1>3, FinitePart, Zenon
<1>7. \A i \in DOMAIN prefix : IsFiniteSet(Ahead(i)) /\ Cardinality(Ahead(i)) \in Nat
  BY <1>1, <1>4, FinitePart, Zenon
<1> QED
  BY <1>1, <1>5, <1>6, <1>7

\* The answers of a kind are numbered without gaps or repetition.
LEMMA QueueOrder ==
    ASSUME TypeOK, NEW e, NEW i \in Queue(e)
    PROVE  /\ i \in DOMAIN prefix /\ Cardinality(Ahead(i)) \in Nat
           /\ Cardinality(Ahead(i)) < Cardinality(Queue(e))
           /\ \A j \in Queue(e) : i < j => Cardinality(Ahead(i)) < Cardinality(Ahead(j))
<1>1. /\ i \in 1..Len(prefix) /\ prefix[i].event = e /\ prefix[i].channel = "A"
      /\ Len(prefix) \in Nat /\ DOMAIN prefix = 1..Len(prefix)
  BY PositionSets DEF Queue
<1>2. Ahead(i) \in SUBSET Queue(e) /\ i \notin Ahead(i)
  BY <1>1 DEF Queue, Ahead
<1>3. Cardinality(Ahead(i)) < Cardinality(Queue(e))
  BY <1>2, PositionSets, PartSize, Zenon
<1>4. ASSUME NEW j \in Queue(e), i < j
      PROVE  Cardinality(Ahead(i)) < Cardinality(Ahead(j))
  <2>1. /\ j \in 1..Len(prefix) /\ prefix[j].event = e
    BY <1>1 DEF Queue
  <2>2. Ahead(i) \in SUBSET Ahead(j) /\ i \in Ahead(j) /\ IsFiniteSet(Ahead(j))
    <3>1. i \in Ahead(j)
      BY <1>1, <1>4, <2>1 DEF Ahead
    <3>2. Ahead(i) \in SUBSET Ahead(j)
      BY <1>1, <1>4, <2>1 DEF Ahead
    <3>3. IsFiniteSet(Ahead(j))
      BY <1>1, <2>1, PositionSets, Zenon
    <3> QED
      BY <3>1, <3>2, <3>3
  <2>3. \A x \in Ahead(j) : x \notin Ahead(i) => Cardinality(Ahead(i)) < Cardinality(Ahead(j))
    BY <2>2, PartSize, Zenon
  <2> QED
    BY <1>2, <2>2, <2>3
<1> QED
  BY <1>1, <1>3, <1>4, PositionSets

LEMMA AnswerFacts ==
    ASSUME TypeOK, NEW e, NEW n, NEW i \in Answer(e, n)
    PROVE  /\ i \in DOMAIN prefix /\ n \in Nat /\ n < Cardinality(Queue(e))
           /\ \A j \in Answer(e, n) : j = i
<1>1. i \in Queue(e) /\ Cardinality(Ahead(i)) = n
  BY DEF Answer
<1>2. i \in DOMAIN prefix /\ n \in Nat /\ n < Cardinality(Queue(e))
  BY <1>1, QueueOrder
<1>3. ASSUME NEW j \in Answer(e, n) PROVE j = i
  <2>1. j \in Queue(e) /\ Cardinality(Ahead(j)) = n /\ j \in DOMAIN prefix
    BY <1>3, QueueOrder DEF Answer
  <2>2. i < j => Cardinality(Ahead(i)) < Cardinality(Ahead(j))
    BY <1>1, <2>1, QueueOrder, Zenon
  <2>3. j < i => Cardinality(Ahead(j)) < Cardinality(Ahead(i))
    BY <1>1, <2>1, QueueOrder, Zenon
  <2>4. ~(i < j) /\ ~(j < i)
    BY <1>1, <1>2, <2>1, <2>2, <2>3
  <2>5. i \in Nat /\ j \in Nat
    BY <1>2, <2>1, PositionSets
  <2> QED
    BY <2>4, <2>5
<1> QED
  BY <1>2, <1>3

-----------------------------------------------------------------------------
(* The way of a replay.                                                     *)

Config(a, o, c) == [at |-> a, occ |-> o, cursor |-> c]
Now == Config(at, occ, cursor)
Start == Config(1, [e \in Event |-> 0], [e \in Event |-> 0])

IsKnown(c) == c.at \in Point /\ <<opp, c.at>> \in DOMAIN program
DrawAt(c) == program[<<opp, c.at>>]

\* One event d of the replay at c, for each way it is decided: it is certain,
\* entry j is injected, entry j answers.
Certain(d, c, c2) ==
    /\ d.channel = "B" /\ Saturated(Options(d))
    /\ c2 = Config(Follow(d, Min(Options(d))), c.occ, c.cursor)
Forced(d, j, c, c2) ==
    /\ d.channel = "B" /\ ~Saturated(Options(d))
    /\ j \in Injected(d.event, c.occ[d.event])
    /\ c2 = Config(Follow(d, prefix[j].val),
                   [c.occ EXCEPT ![d.event] = c.occ[d.event] + 1], c.cursor)
Told(d, j, c, c2) ==
    /\ d.channel = "A"
    /\ j \in Answer(d.event, c.cursor[d.event])
    /\ c2 = Config(Follow(d, prefix[j].val),
                   c.occ, [c.cursor EXCEPT ![d.event] = c.cursor[d.event] + 1])

\* The entries before m decide the event at c.
Decided(m, d, c, c2) ==
    \/ Certain(d, c, c2)
    \/ \E j \in DOMAIN prefix : j < m /\ (Forced(d, j, c, c2) \/ Told(d, j, c, c2))
Goes(m, c, c2) == IsKnown(c) /\ Decided(m, DrawAt(c), c, c2)

\* The event at c is the draw that an injection for (e, n) is for, and its
\* options are o.
AtDraw(e, n, o, c) ==
    /\ IsKnown(c)
    /\ DrawAt(c).channel = "B" /\ ~Saturated(Options(DrawAt(c)))
    /\ DrawAt(c).event = e /\ c.occ[e] = n
    /\ Options(DrawAt(c)) = o
Waits(e, n, v, c) == \E o : v \in o /\ AtDraw(e, n, o, c)

\* From every configuration of R the entries before m lead on in R, until the
\* replay is at the draw (e, n) and v is one of its options.
Way(m, e, n, v, R) == \A c \in R : Waits(e, n, v, c) \/ \E c2 \in R : Goes(m, c, c2)
Leads(m, e, n, v, c) == \E R : c \in R /\ Way(m, e, n, v, R)

\* The replay comes from the start of the turn to x with the entries before m
\* deciding.
Road(m, x, R) == \A c \in R : c = x \/ \E c2 \in R : Goes(m, c, c2)
Comes(m, x) == \E R : Start \in R /\ x \in R /\ Road(m, x, R)

\* With the entries before m the replay comes to the draw (e, n) of options o.
ComesToDraw(m, e, n, o) == \E c : Comes(m, c) /\ AtDraw(e, n, o, c)

-----------------------------------------------------------------------------
(* A longer prefix and a better known turn leave the way as it is.          *)

ProgramGrows ==
    /\ opp' = opp
    /\ \A k \in DOMAIN program : k \in DOMAIN program' /\ program'[k] = program[k]
SameBefore(m) ==
    \A j \in 1..(m - 1) :
        /\ j \in DOMAIN prefix /\ j \in DOMAIN prefix'
        /\ prefix'[j].channel = prefix[j].channel /\ prefix'[j].event = prefix[j].event
        /\ prefix'[j].occ = prefix[j].occ /\ prefix'[j].val = prefix[j].val

LEMMA KnownKept ==
    ASSUME ProgramGrows, NEW c, IsKnown(c)
    PROVE  IsKnown(c)' /\ DrawAt(c)' = DrawAt(c)
<1>1. c.at \in Point /\ <<opp, c.at>> \in DOMAIN program
  BY DEF IsKnown
<1> DEFINE k == <<opp, c.at>>
<1>2. k \in DOMAIN program' /\ program'[k] = program[k] /\ opp' = opp
  BY <1>1 DEF ProgramGrows
<1> QED
  BY <1>1, <1>2 DEF IsKnown, DrawAt

LEMMA AheadKept ==
    ASSUME NEW m \in Nat, SameBefore(m), NEW j \in 1..(m - 1)
    PROVE  Ahead(j)' = Ahead(j)
<1>1. \A k \in 1..(j - 1) : k \in 1..(m - 1)
  OBVIOUS
<1> QED
  BY <1>1 DEF SameBefore, Ahead

LEMMA DecidedKept ==
    ASSUME TypeOK, NEW m \in Nat, SameBefore(m), NEW d, NEW c, NEW c2, Decided(m, d, c, c2)
    PROVE  Decided(m, d, c, c2)'
<1>1. CASE Certain(d, c, c2)
  BY <1>1 DEF Decided, Certain
<1>2. ASSUME NEW j \in DOMAIN prefix, j < m, Forced(d, j, c, c2) \/ Told(d, j, c, c2)
      PROVE  Decided(m, d, c, c2)'
  <2>1. j \in 1..(m - 1)
    BY <1>2, PositionSets
  <2>2. /\ j \in DOMAIN prefix' /\ prefix'[j].channel = prefix[j].channel
        /\ prefix'[j].event = prefix[j].event
        /\ prefix'[j].occ = prefix[j].occ /\ prefix'[j].val = prefix[j].val
    BY <2>1 DEF SameBefore
  <2>3. CASE Forced(d, j, c, c2)
    <3>1. Forced(d, j, c, c2)'
      BY <2>2, <2>3 DEF Forced, Injected
    <3> QED
      BY <1>2, <2>2, <3>1 DEF Decided
  <2>4. CASE Told(d, j, c, c2)
    <3>1. Ahead(j)' = Ahead(j)
      BY <2>1, AheadKept
    <3>2. Told(d, j, c, c2)'
      BY <2>2, <2>4, <3>1 DEF Told, Answer, Queue
    <3> QED
      BY <1>2, <2>2, <3>2 DEF Decided
  <2> QED
    BY <1>2, <2>3, <2>4
<1> QED
  BY <1>1, <1>2 DEF Decided

LEMMA GoesKept ==
    ASSUME TypeOK, ProgramGrows, NEW m \in Nat, SameBefore(m), NEW c, NEW c2, Goes(m, c, c2)
    PROVE  Goes(m, c, c2)'
<1>1. IsKnown(c)' /\ DrawAt(c)' = DrawAt(c)
  BY KnownKept DEF Goes
<1>2. PICK d : d = DrawAt(c)
  OBVIOUS
<1>3. Decided(m, d, c, c2)
  BY <1>2 DEF Goes
<1>4. Decided(m, d, c, c2)'
  BY <1>3, DecidedKept
<1> QED
  BY <1>1, <1>2, <1>4 DEF Goes

LEMMA AtDrawKept ==
    ASSUME ProgramGrows, NEW e, NEW n, NEW o, NEW c, AtDraw(e, n, o, c)
    PROVE  AtDraw(e, n, o, c)'
<1>1. IsKnown(c)' /\ DrawAt(c)' = DrawAt(c)
  BY KnownKept DEF AtDraw
<1> QED
  BY <1>1 DEF AtDraw

LEMMA WaitsKept ==
    ASSUME ProgramGrows, NEW e, NEW n, NEW v, NEW c, Waits(e, n, v, c)
    PROVE  Waits(e, n, v, c)'
BY AtDrawKept DEF Waits

LEMMA WayKept ==
    ASSUME TypeOK, ProgramGrows, NEW m \in Nat, SameBefore(m), NEW e, NEW n, NEW v, NEW R,
           Way(m, e, n, v, R)
    PROVE  Way(m, e, n, v, R)'
<1>1. ASSUME NEW c \in R PROVE Waits(e, n, v, c)' \/ \E c2 \in R : Goes(m, c, c2)'
  <2>1. Waits(e, n, v, c) \/ \E c2 \in R : Goes(m, c, c2)
    BY DEF Way
  <2> QED
    BY <2>1, GoesKept, WaitsKept
<1> QED
  BY <1>1 DEF Way

LEMMA LeadsKept ==
    ASSUME TypeOK, ProgramGrows, NEW m \in Nat, SameBefore(m), NEW e, NEW n, NEW v, NEW c,
           Leads(m, e, n, v, c)
    PROVE  Leads(m, e, n, v, c)'
<1>1. PICK R : c \in R /\ Way(m, e, n, v, R)
  BY DEF Leads
<1>2. Way(m, e, n, v, R)'
  BY <1>1, WayKept
<1> QED
  BY <1>1, <1>2 DEF Leads

\* A step on the way to (e, n).
LEMMA LeadsOn ==
    ASSUME TypeOK, ProgramGrows, NEW m \in Nat, SameBefore(m), NEW e, NEW n, NEW v, NEW c, NEW y,
           Leads(m, e, n, v, c), ~Waits(e, n, v, c), \A c2 : Goes(m, c, c2) => c2 = y
    PROVE  Leads(m, e, n, v, y)'
<1>1. PICK R : c \in R /\ Way(m, e, n, v, R)
  BY DEF Leads
<1>2. y \in R
  BY <1>1 DEF Way
<1>3. Way(m, e, n, v, R)'
  BY <1>1, WayKept
<1> QED
  BY <1>2, <1>3 DEF Leads

\* One step further from the start.
LEMMA ComesOn ==
    ASSUME TypeOK, ProgramGrows, NEW m \in Nat, SameBefore(m), NEW x, NEW y,
           Comes(m, x), Goes(m, x, y)'
    PROVE  Comes(m, y)'
<1>1. PICK R : Start \in R /\ x \in R /\ Road(m, x, R)
  BY DEF Comes
<1> DEFINE S == R \union {y}
<1>2. ASSUME NEW c \in S PROVE c = y \/ \E c2 \in S : Goes(m, c, c2)'
  <2>1. CASE c # x /\ c \in R
    <3>1. PICK c2 \in R : Goes(m, c, c2)
      BY <1>1, <2>1 DEF Road
    <3>2. Goes(m, c, c2)'
      BY <3>1, GoesKept
    <3> QED
      BY <3>1, <3>2
  <2> QED
    BY <2>1
<1>3. Road(m, y, S)'
  BY <1>2 DEF Road
<1> QED
  BY <1>1, <1>3 DEF Comes

LEMMA ComesKept ==
    ASSUME TypeOK, ProgramGrows, NEW m \in Nat, SameBefore(m), NEW x, Comes(m, x)
    PROVE  Comes(m, x)'
<1>1. PICK R : Start \in R /\ x \in R /\ Road(m, x, R)
  BY DEF Comes
<1>2. ASSUME NEW c \in R PROVE c = x \/ \E c2 \in R : Goes(m, c, c2)'
  BY <1>1, GoesKept DEF Road
<1>3. Road(m, x, R)'
  BY <1>2 DEF Road
<1> QED
  BY <1>1, <1>3 DEF Comes

LEMMA ComesToDrawKept ==
    ASSUME TypeOK, ProgramGrows, NEW m \in Nat, SameBefore(m), NEW e, NEW n, NEW o,
           ComesToDraw(m, e, n, o)
    PROVE  ComesToDraw(m, e, n, o)'
<1>1. PICK c : Comes(m, c) /\ AtDraw(e, n, o, c)
  BY DEF ComesToDraw
<1>2. Comes(m, c)' /\ AtDraw(e, n, o, c)'
  BY <1>1, ComesKept, AtDrawKept
<1> QED
  BY <1>2 DEF ComesToDraw

\* Arrived at the draw (e, n), the road from the start leads there.
LEMMA ComesLeads ==
    ASSUME NEW m, NEW e, NEW n, NEW o, NEW v \in o, ComesToDraw(m, e, n, o)
    PROVE  Leads(m, e, n, v, Start)
<1>1. PICK x : Comes(m, x) /\ AtDraw(e, n, o, x)
  BY DEF ComesToDraw
<1>2. PICK R : Start \in R /\ x \in R /\ Road(m, x, R)
  BY <1>1 DEF Comes
<1>3. Waits(e, n, v, x)
  BY <1>1 DEF Waits
<1>4. Way(m, e, n, v, R)
  BY <1>2, <1>3 DEF Way, Road
<1> QED
  BY <1>2, <1>4 DEF Leads

-----------------------------------------------------------------------------
(* The log.                                                                 *)

LEMMA LogSets ==
    ASSUME TypeOK
    PROVE  /\ Len(log) \in Nat /\ DOMAIN log = 1..Len(log)
           /\ BranchPoints \in SUBSET (1..Len(log))
           /\ IsFiniteSet(BranchPoints) /\ Cardinality(BranchPoints) \in Nat
           /\ \A i \in BranchPoints :
                 /\ i \in Nat /\ Earlier(i) \in SUBSET BranchPoints /\ i \notin Earlier(i)
                 /\ IsFiniteSet(Earlier(i)) /\ Cardinality(Earlier(i)) \in Nat
           /\ Unforced \in SUBSET BranchPoints
<1>1. Len(log) \in Nat /\ DOMAIN log = 1..Len(log) /\ BranchPoints \in SUBSET (1..Len(log))
  BY LogFacts
<1>2. IsFiniteSet(BranchPoints) /\ Cardinality(BranchPoints) \in Nat
  BY <1>1, FinitePart, Zenon
<1>3. ASSUME NEW i \in BranchPoints
      PROVE  /\ i \in Nat /\ Earlier(i) \in SUBSET BranchPoints /\ i \notin Earlier(i)
             /\ IsFiniteSet(Earlier(i)) /\ Cardinality(Earlier(i)) \in Nat
  <2>1. i \in Nat
    BY <1>1
  <2>2. Earlier(i) \in SUBSET BranchPoints /\ i \notin Earlier(i)
    BY <2>1 DEF Earlier
  <2> QED
    BY <1>2, <2>1, <2>2, PartSize, Zenon
<1> QED
  BY <1>1, <1>2, <1>3 DEF Unforced

\* The draw that log' has at its end, position n.
LogEnd(n, e, sure) ==
    /\ log'[n].event = e
    /\ sure => BranchPoints' = BranchPoints
    /\ ~sure => BranchPoints' = BranchPoints \union {n} /\ Earlier(n)' = BranchPoints
    /\ n \notin BranchPoints
    /\ \A i \in BranchPoints : log'[i] = log[i] /\ Earlier(i)' = Earlier(i)

LEMMA LogGrows ==
    ASSUME TypeOK, NEW d \in Draw, Log(d), NEW n, n = Len(log) + 1
    PROVE  LogEnd(n, d.event, Saturated(Options(d)))
<1>1. n \in Nat \ {0} /\ DOMAIN log = 1..(n - 1) /\ DOMAIN log' = 1..n
      /\ log'[n] = [event |-> d.event, opts |-> Options(d)]
      /\ \A i \in 1..(n - 1) : log'[i] = log[i]
  BY LogSets DEF TypeOK, Log
<1>2. BranchPoints \in SUBSET (1..(n - 1))
  BY LogSets
<1>3. log'[n].event = d.event /\ log'[n].opts = Options(d)
  BY <1>1
<1>4. \A i \in 1..n : i \in BranchPoints' <=> ~Saturated(log'[i].opts)
  BY <1>1 DEF BranchPoints, Saturated
<1>5. \A i \in 1..(n - 1) : i \in BranchPoints' <=> i \in BranchPoints
  BY <1>1, <1>4 DEF BranchPoints
<1>6. n \in BranchPoints' <=> ~Saturated(Options(d))
  BY <1>1, <1>3, <1>4
<1>7. BranchPoints' \in SUBSET (1..n)
  BY <1>1 DEF BranchPoints
<1>8. /\ Saturated(Options(d)) => BranchPoints' = BranchPoints
      /\ ~Saturated(Options(d)) => BranchPoints' = BranchPoints \union {n}
  <2>1. \A i \in BranchPoints' : i = n \/ i \in BranchPoints
    <3>1. \A i \in 1..n : i = n \/ i \in 1..(n - 1)
      BY <1>1
    <3> QED
      BY <1>5, <1>7, <3>1
  <2>2. \A i \in BranchPoints : i \in BranchPoints'
    BY <1>2, <1>5
  <2>3. CASE Saturated(Options(d))
    BY <1>6, <2>1, <2>2, <2>3
  <2>4. CASE ~Saturated(Options(d))
    BY <1>6, <2>1, <2>2, <2>4
  <2> QED
    BY <2>3, <2>4
<1>9. n \notin BranchPoints
  BY <1>1, <1>2
<1>10. ASSUME NEW i \in BranchPoints PROVE log'[i] = log[i] /\ Earlier(i)' = Earlier(i)
  <2>1. i \in 1..(n - 1)
    BY <1>2
  <2>2. Earlier(i)' = {j \in BranchPoints' : j < i}
    BY DEF Earlier
  <2>3. \A j \in BranchPoints' : j < i => j \in BranchPoints
    <3>1. \A j \in 1..n : j < i => j \in 1..(n - 1)
      BY <1>1, <2>1
    <3> QED
      BY <1>5, <1>7, <3>1
  <2>4. \A j \in BranchPoints : j \in BranchPoints'
    BY <1>2, <1>5
  <2> QED
    BY <1>1, <2>1, <2>2, <2>3, <2>4 DEF Earlier
<1>11. ASSUME ~Saturated(Options(d)) PROVE Earlier(n)' = BranchPoints
  <2>1. Earlier(n)' = {j \in BranchPoints' : j < n}
    BY DEF Earlier
  <2>2. BranchPoints' = BranchPoints \union {n}
    BY <1>8, <1>11
  <2>3. \A j \in BranchPoints : j < n
    BY <1>1, <1>2
  <2>4. ~(n < n)
    BY <1>1
  <2>5. Earlier(n)' = {j \in BranchPoints \union {n} : j < n}
    BY <2>1, <2>2
  <2> QED
    BY <2>3, <2>4, <2>5
<1> QED
  BY <1>3, <1>8, <1>9, <1>10, <1>11 DEF LogEnd

LEMMA LogLast ==
    ASSUME TypeOK, NEW d \in Draw, Log(d), NEW n, n = Len(log) + 1
    PROVE  log'[n].opts = Options(d)
<1> DEFINE x == [event |-> d.event, opts |-> Options(d)]
<1>1. x.opts = Options(d) /\ log' = Append(log, x)
  BY DEF Log
<1> HIDE DEF x
<1> QED
  BY <1>1, LogSets DEF TypeOK

OfEvent(f) == {i \in BranchPoints : log[i].event = f}

LEMMA OfEventSets ==
    ASSUME TypeOK
    PROVE  \A f : /\ OfEvent(f) \in SUBSET BranchPoints /\ IsFiniteSet(OfEvent(f))
                  /\ Cardinality(OfEvent(f)) \in Nat
<1>1. \A f : OfEvent(f) \in SUBSET BranchPoints
  BY DEF OfEvent
<1> QED
  BY <1>1, LogSets, PartSize, Zenon

\* A certain draw changes nothing that is counted.
LEMMA SureDraw ==
    ASSUME TypeOK, prefix' = prefix, NEW n, NEW e, LogEnd(n, e, TRUE)
    PROVE  /\ BranchPoints' = BranchPoints /\ Unforced' = Unforced
           /\ \A f : OfEvent(f)' = OfEvent(f)
           /\ \A i \in BranchPoints : log'[i] = log[i] /\ Occurrence(i)' = Occurrence(i)
<1>1. /\ BranchPoints' = BranchPoints
      /\ \A i \in BranchPoints : log'[i] = log[i] /\ Earlier(i)' = Earlier(i)
  BY DEF LogEnd
<1>2. CatbCount' = CatbCount
  BY DEF CatbCount, CatbEntries
<1>3. Unforced' = Unforced
  BY <1>1, <1>2 DEF Unforced
<1>4. \A f : OfEvent(f)' = OfEvent(f)
  BY <1>1 DEF OfEvent
<1>5. ASSUME NEW i \in BranchPoints PROVE Occurrence(i)' = Occurrence(i)
  <2>1. Earlier(i) \in SUBSET BranchPoints
    BY LogSets
  <2>2. {j \in Earlier(i)' : log'[j].event = log'[i].event}
            = {j \in Earlier(i) : log[j].event = log[i].event}
    BY <1>1, <2>1
  <2> QED
    BY <2>2, Zenon DEF Occurrence
<1> QED
  BY <1>1, <1>3, <1>4, <1>5

\* An uncertain draw counts for its event, and may be the one to branch at.
LEMMA UnsureDraw ==
    ASSUME TypeOK, prefix' = prefix, NEW n, NEW e, LogEnd(n, e, FALSE)
    PROVE  /\ n \notin BranchPoints /\ BranchPoints' = BranchPoints \union {n}
           /\ Cardinality(BranchPoints') = Cardinality(BranchPoints) + 1
           /\ \A i \in BranchPoints : /\ log'[i] = log[i] /\ Occurrence(i)' = Occurrence(i)
                                      /\ i \in Unforced' <=> i \in Unforced
           /\ log'[n].event = e /\ Occurrence(n)' = Cardinality(OfEvent(e))
           /\ n \in Unforced' <=> Cardinality(BranchPoints) = CatbCount
           /\ Cardinality(OfEvent(e)') = Cardinality(OfEvent(e)) + 1
           /\ \A f : f # e => OfEvent(f)' = OfEvent(f)
<1>1. /\ log'[n].event = e /\ BranchPoints' = BranchPoints \union {n}
      /\ Earlier(n)' = BranchPoints /\ n \notin BranchPoints
      /\ \A i \in BranchPoints : log'[i] = log[i] /\ Earlier(i)' = Earlier(i)
  BY DEF LogEnd
<1>2. CatbCount' = CatbCount
  BY DEF CatbCount, CatbEntries
<1>3. Cardinality(BranchPoints') = Cardinality(BranchPoints) + 1
  BY <1>1, LogSets, OneMore, Zenon
<1>4. ASSUME NEW i \in BranchPoints
      PROVE  Occurrence(i)' = Occurrence(i) /\ (i \in Unforced' <=> i \in Unforced)
  <2>1. Earlier(i) \in SUBSET BranchPoints
    BY LogSets
  <2>2. {j \in Earlier(i)' : log'[j].event = log'[i].event}
            = {j \in Earlier(i) : log[j].event = log[i].event}
    BY <1>1, <2>1
  <2>3. Occurrence(i)' = Occurrence(i)
    BY <2>2, Zenon DEF Occurrence
  <2>4. Cardinality(Earlier(i)') = Cardinality(Earlier(i)) /\ i \in BranchPoints'
    BY <1>1
  <2>5. i \in Unforced' <=> i \in Unforced
    BY <1>2, <2>4, Zenon DEF Unforced
  <2> QED
    BY <2>3, <2>5
<1>5. Occurrence(n)' = Cardinality(OfEvent(e))
  <2>1. {j \in Earlier(n)' : log'[j].event = log'[n].event} = OfEvent(e)
    BY <1>1 DEF OfEvent
  <2> QED
    BY <2>1, Zenon DEF Occurrence
<1>6. n \in Unforced' <=> Cardinality(BranchPoints) = CatbCount
  <2>1. n \in BranchPoints' /\ Cardinality(Earlier(n)') = Cardinality(BranchPoints)
    BY <1>1
  <2> QED
    BY <1>2, <2>1, Zenon DEF Unforced
<1>7. Cardinality(OfEvent(e)') = Cardinality(OfEvent(e)) + 1
  <2>1. OfEvent(e)' = OfEvent(e) \union {n} /\ n \notin OfEvent(e)
    BY <1>1 DEF OfEvent
  <2> QED
    BY <2>1, OfEventSets, OneMore, Zenon
<1>8. ASSUME NEW f, f # e PROVE OfEvent(f)' = OfEvent(f)
  BY <1>1, <1>8 DEF OfEvent
<1> QED
  BY <1>1, <1>3, <1>4, <1>5, <1>6, <1>7, <1>8

-----------------------------------------------------------------------------
(* The events known and passed.                                             *)

LEMMA KnownSets ==
    \A ch, e : /\ IsFiniteSet(Known(ch, e)) /\ Cardinality(Known(ch, e)) \in Nat
               /\ IsFiniteSet(Passed(ch, e)) /\ Cardinality(Passed(ch, e)) \in Nat
               /\ Cardinality(Passed(ch, e)) <= Cardinality(Known(ch, e))
               /\ IsFiniteSet(Known(ch, e)') /\ Cardinality(Known(ch, e)') \in Nat
               /\ IsFiniteSet(Passed(ch, e)') /\ Cardinality(Passed(ch, e)') \in Nat
<1> SUFFICES ASSUME NEW ch, NEW e
             PROVE  /\ IsFiniteSet(Known(ch, e)) /\ Cardinality(Known(ch, e)) \in Nat
                    /\ IsFiniteSet(Passed(ch, e)) /\ Cardinality(Passed(ch, e)) \in Nat
                    /\ Cardinality(Passed(ch, e)) <= Cardinality(Known(ch, e))
                    /\ IsFiniteSet(Known(ch, e)') /\ Cardinality(Known(ch, e)') \in Nat
                    /\ IsFiniteSet(Passed(ch, e)') /\ Cardinality(Passed(ch, e)') \in Nat
  OBVIOUS
<1>1. Known(ch, e) \in SUBSET (1..Events) /\ Passed(ch, e) \in SUBSET Known(ch, e)
  BY DEF Known, Passed, Point
<1>2. Known(ch, e)' \in SUBSET (1..Events) /\ Passed(ch, e)' \in SUBSET (1..Events)
  BY DEF Known, Passed, Point
<1>3. IsFiniteSet(Known(ch, e)) /\ Cardinality(Known(ch, e)) \in Nat
  BY <1>1, FinitePart, OracleAssumption
<1>4. /\ IsFiniteSet(Known(ch, e)') /\ Cardinality(Known(ch, e)') \in Nat
      /\ IsFiniteSet(Passed(ch, e)') /\ Cardinality(Passed(ch, e)') \in Nat
  BY <1>2, FinitePart, OracleAssumption
<1>5. /\ IsFiniteSet(Passed(ch, e)) /\ Cardinality(Passed(ch, e)) \in Nat
      /\ Cardinality(Passed(ch, e)) <= Cardinality(Known(ch, e))
  BY <1>1, <1>3, PartSize, Zenon
<1> QED
  BY <1>3, <1>4, <1>5

LEMMA KnownGrows ==
    ASSUME ProgramGrows
    PROVE  \A ch, e : Cardinality(Known(ch, e)) <= Cardinality(Known(ch, e)')
<1> SUFFICES ASSUME NEW ch, NEW e
             PROVE  Cardinality(Known(ch, e)) <= Cardinality(Known(ch, e)')
  OBVIOUS
<1>1. Known(ch, e) \in SUBSET Known(ch, e)'
  <2>1. ASSUME NEW q \in Known(ch, e) PROVE q \in Known(ch, e)'
    <3> DEFINE k == <<opp, q>>
    <3>1. q \in Point /\ k \in DOMAIN program /\ program[k].channel = ch /\ program[k].event = e
      BY DEF Known
    <3>2. opp' = opp /\ k \in DOMAIN program' /\ program'[k] = program[k]
      BY <3>1 DEF ProgramGrows
    <3> QED
      BY <3>1, <3>2 DEF Known
  <2> QED
    BY <2>1
<1>2. IsFiniteSet(Known(ch, e)')
  BY KnownSets
<1> QED
  BY <1>1, <1>2, PartSize, Zenon

\* A step of the replay passes one event of a kind.
LEMMA PassedGrows ==
    ASSUME NEW d, MeetsFacts(d), at' \in Point => at' > at
    PROVE  \A ch, e :
              /\ Cardinality(Passed(ch, e)') \in Nat
              /\ Cardinality(Passed(ch, e)) <= Cardinality(Passed(ch, e)')
              /\ d.channel = ch /\ d.event = e
                     => Cardinality(Passed(ch, e)) < Cardinality(Passed(ch, e)')
<1> SUFFICES ASSUME NEW ch, NEW e
             PROVE  /\ Cardinality(Passed(ch, e)') \in Nat
                    /\ Cardinality(Passed(ch, e)) <= Cardinality(Passed(ch, e)')
                    /\ d.channel = ch /\ d.event = e
                           => Cardinality(Passed(ch, e)) < Cardinality(Passed(ch, e)')
  OBVIOUS
<1>1. /\ at \in Point /\ opp' = opp /\ <<opp, at>> \in DOMAIN program'
      /\ program'[<<opp, at>>] = d
      /\ \A k \in DOMAIN program : k \in DOMAIN program' /\ program'[k] = program[k]
  BY DEF MeetsFacts
<1>2. Passed(ch, e) \in SUBSET Passed(ch, e)'
  <2>1. ASSUME NEW q \in Passed(ch, e) PROVE q \in Passed(ch, e)'
    <3> DEFINE k == <<opp, q>>
    <3>1. /\ q \in Point /\ q < at
          /\ k \in DOMAIN program /\ program[k].channel = ch /\ program[k].event = e
      BY <1>1 DEF Passed, Known
    <3>2. opp' = opp /\ k \in DOMAIN program' /\ program'[k] = program[k]
      BY <1>1, <3>1
    <3>3. at' \in Point => q < at'
      BY <1>1, <3>1, PlaceFacts
    <3> QED
      BY <3>1, <3>2, <3>3 DEF Passed, Known
  <2> QED
    BY <2>1
<1>3. at \notin Passed(ch, e)
  BY <1>1, PlaceFacts DEF Passed
<1>4. d.channel = ch /\ d.event = e => at \in Passed(ch, e)'
  BY <1>1 DEF Passed, Known
<1>5. IsFiniteSet(Passed(ch, e)') /\ Cardinality(Passed(ch, e)') \in Nat
  BY KnownSets
<1>6. /\ Cardinality(Passed(ch, e)) <= Cardinality(Passed(ch, e)')
      /\ \A x \in Passed(ch, e)' :
             x \notin Passed(ch, e) => Cardinality(Passed(ch, e)) < Cardinality(Passed(ch, e)')
  BY <1>2, <1>5, PartSize, Zenon
<1> QED
  BY <1>3, <1>4, <1>5, <1>6

-----------------------------------------------------------------------------
(* The steps of a replay as moves between configurations.                   *)

LEMMA NowFields ==
    /\ Now.at = at /\ Now.occ = occ /\ Now.cursor = cursor
    /\ Now' = Config(at', occ', cursor')
BY DEF Now, Config

\* The event that is met is known afterwards, and was the one known before.
LEMMA EventMet ==
    ASSUME NEW d, MeetsFacts(d), NEW x, x = Now
    PROVE  /\ ProgramGrows
           /\ IsKnown(x)' /\ DrawAt(x)' = d
           /\ IsKnown(x) => DrawAt(x) = d
<1>1. x.at = at
  BY NowFields
<1> DEFINE k == <<opp, at>>
<1>2. /\ at \in Point /\ opp' = opp /\ k \in DOMAIN program' /\ program'[k] = d
      /\ \A q \in DOMAIN program : q \in DOMAIN program' /\ program'[q] = program[q]
  BY DEF MeetsFacts
<1>3. ProgramGrows
  BY <1>2 DEF ProgramGrows
<1>4. IsKnown(x)' /\ DrawAt(x)' = d
  BY <1>1, <1>2 DEF IsKnown, DrawAt
<1>5. ASSUME IsKnown(x) PROVE DrawAt(x) = d
  <2>1. k \in DOMAIN program /\ DrawAt(x) = program[k]
    BY <1>1, <1>5 DEF IsKnown, DrawAt
  <2> QED
    BY <1>2, <2>1
<1> QED
  BY <1>3, <1>4, <1>5

\* How the move from x to y relates to the entries: only y can follow x, and it
\* does, with the whole prefix deciding.
Moves(x, y) ==
    /\ \A m, c2 : Goes(m, x, c2) => c2 = y
    /\ \A m \in Nat : m = Len(prefix) + 1 => Goes(m, x, y)'

LEMMA SaturatedMoves ==
    ASSUME TypeOK, NEW d, MeetsFacts(d), DrawSaturated(d), NEW x, NEW y, x = Now, y = Now'
    PROVE  Moves(x, y) /\ \A e, n, v : ~Waits(e, n, v, x)
<1>1. /\ d.channel = "B" /\ Saturated(Options(d))
      /\ at' = Follow(d, Min(Options(d))) /\ occ' = occ /\ cursor' = cursor
  BY DEF DrawSaturated
<1>2. x.occ = occ /\ x.cursor = cursor /\ y = Config(at', occ', cursor')
  BY NowFields
<1>3. Certain(d, x, y)
  BY <1>1, <1>2 DEF Certain
<1>4. \A c2 : Certain(d, x, c2) => c2 = y
  BY <1>1, <1>2 DEF Certain
<1>5. \A j, c2 : ~Forced(d, j, x, c2) /\ ~Told(d, j, x, c2)
  BY <1>1 DEF Forced, Told
<1>6. ASSUME NEW m, NEW c2, Goes(m, x, c2) PROVE c2 = y
  BY <1>4, <1>5, <1>6, EventMet DEF Goes, Decided
<1>7. ASSUME NEW m PROVE Goes(m, x, y)'
  <2>1. Certain(d, x, y)'
    BY <1>3 DEF Certain
  <2> QED
    BY <2>1, EventMet DEF Goes, Decided
<1>8. \A e, n, v : ~Waits(e, n, v, x)
  BY <1>1, EventMet DEF Waits, AtDraw
<1> QED
  BY <1>6, <1>7, <1>8 DEF Moves

LEMMA AnsweredMoves ==
    ASSUME TypeOK, prefix' = prefix, NEW d, MeetsFacts(d), NEW i \in DOMAIN prefix,
           AskAnswered(d, i), NEW x, NEW y, x = Now, y = Now'
    PROVE  Moves(x, y) /\ \A e, n, v : ~Waits(e, n, v, x)
<1>1. /\ d.channel = "A" /\ i \in Answer(d.event, cursor[d.event])
      /\ at' = Follow(d, prefix[i].val) /\ occ' = occ
      /\ cursor' = [cursor EXCEPT ![d.event] = cursor[d.event] + 1]
  BY DEF AskAnswered, UsedUp
<1>2. x.occ = occ /\ x.cursor = cursor /\ y = Config(at', occ', cursor')
  BY NowFields
<1>3. Told(d, i, x, y)
  BY <1>1, <1>2 DEF Told
<1>4. ASSUME NEW j, NEW c2, Told(d, j, x, c2) PROVE c2 = y
  <2>1. j \in Answer(d.event, cursor[d.event])
    BY <1>2, <1>4 DEF Told
  <2>2. j = i
    BY <1>1, <2>1, AnswerFacts
  <2> QED
    BY <1>1, <1>2, <1>4, <2>2 DEF Told
<1>5. \A j, c2 : ~Certain(d, x, c2) /\ ~Forced(d, j, x, c2)
  BY <1>1 DEF Forced, Certain
<1>6. ASSUME NEW m, NEW c2, Goes(m, x, c2) PROVE c2 = y
  BY <1>4, <1>5, <1>6, EventMet DEF Goes, Decided
<1>7. ASSUME NEW m \in Nat, m = Len(prefix) + 1 PROVE Goes(m, x, y)'
  <2>1. Told(d, i, x, y)'
    BY <1>3 DEF Told, Answer, Queue, Ahead
  <2>2. i \in DOMAIN prefix' /\ i < m
    BY <1>7, PositionSets
  <2>3. Decided(m, d, x, y)'
    BY <2>1, <2>2 DEF Decided
  <2> QED
    BY <2>3, EventMet DEF Goes
<1>8. \A e, n, v : ~Waits(e, n, v, x)
  BY <1>1, EventMet DEF Waits, AtDraw
<1> QED
  BY <1>6, <1>7, <1>8 DEF Moves

\* The entry that forces a draw is the only one that waits for it.
LEMMA ForcedMoves ==
    ASSUME TypeOK, EntriesAreEvents, prefix' = prefix, NEW d, MeetsFacts(d),
           NEW i \in DOMAIN prefix, DrawForced(d, i), NEW x, NEW y, x = Now, y = Now'
    PROVE  /\ Moves(x, y)
           /\ \A j \in CatbEntries : \A v : Waits(prefix[j].event, prefix[j].occ, v, x) => j = i
           /\ \A j \in Injected(d.event, occ[d.event]) : j = i
<1>1. /\ d.channel = "B" /\ ~Saturated(Options(d)) /\ i \in Injected(d.event, occ[d.event])
      /\ at' = Follow(d, prefix[i].val) /\ cursor' = cursor
      /\ occ' = [occ EXCEPT ![d.event] = occ[d.event] + 1]
  BY DEF DrawForced, BumpOccurrence
<1>2. x.occ = occ /\ x.cursor = cursor /\ y = Config(at', occ', cursor')
  BY NowFields
<1>3. Forced(d, i, x, y)
  BY <1>1, <1>2 DEF Forced
<1>4. \A j \in Injected(d.event, occ[d.event]) : j = i
  BY <1>1 DEF Injected, EntriesAreEvents, CatbEntries
<1>5. ASSUME NEW j, NEW c2, Forced(d, j, x, c2) PROVE c2 = y
  BY <1>1, <1>2, <1>4, <1>5 DEF Forced
<1>6. \A j, c2 : ~Certain(d, x, c2) /\ ~Told(d, j, x, c2)
  BY <1>1 DEF Told, Certain
<1>7. ASSUME NEW m, NEW c2, Goes(m, x, c2) PROVE c2 = y
  BY <1>5, <1>6, <1>7, EventMet DEF Goes, Decided
<1>8. ASSUME NEW m \in Nat, m = Len(prefix) + 1 PROVE Goes(m, x, y)'
  <2>1. Forced(d, i, x, y)'
    BY <1>3 DEF Forced, Injected
  <2>2. i \in DOMAIN prefix' /\ i < m
    BY <1>8, PositionSets
  <2>3. Decided(m, d, x, y)'
    BY <2>1, <2>2 DEF Decided
  <2> QED
    BY <2>3, EventMet DEF Goes
<1>9. ASSUME NEW j \in CatbEntries, NEW v, Waits(prefix[j].event, prefix[j].occ, v, x) PROVE j = i
  <2>1. d.event = prefix[j].event /\ occ[d.event] = prefix[j].occ
    BY <1>2, <1>9, EventMet DEF Waits, AtDraw
  <2> QED
    BY <1>4, <2>1 DEF Injected, CatbEntries
<1> QED
  BY <1>4, <1>7, <1>8, <1>9 DEF Moves

\* A draw left at its default is one that no entry leads to.
LEMMA DefaultMoves ==
    ASSUME TypeOK, NEW d, MeetsFacts(d), DrawDefault(d), NEW x, x = Now
    PROVE  /\ \A m, c2 : ~Goes(m, x, c2)
           /\ \A j \in CatbEntries : \A v : ~Waits(prefix[j].event, prefix[j].occ, v, x)
           /\ \A n, o : n = occ[d.event] /\ o = Options(d) => AtDraw(d.event, n, o, x)'
<1>1. d.channel = "B" /\ ~Saturated(Options(d)) /\ Injected(d.event, occ[d.event]) = {}
  BY DEF DrawDefault
<1>2. x.occ = occ
  BY NowFields
<1>3. \A j, c2 : ~Certain(d, x, c2) /\ ~Told(d, j, x, c2) /\ ~Forced(d, j, x, c2)
  BY <1>1, <1>2 DEF Told, Certain, Forced
<1>4. \A m, c2 : ~Goes(m, x, c2)
  BY <1>3, EventMet DEF Goes, Decided
<1>5. ASSUME NEW j \in CatbEntries, NEW v, Waits(prefix[j].event, prefix[j].occ, v, x) PROVE FALSE
  <2>1. d.event = prefix[j].event /\ occ[d.event] = prefix[j].occ
    BY <1>2, <1>5, EventMet DEF Waits, AtDraw
  <2> QED
    BY <1>1, <2>1 DEF Injected, CatbEntries
<1>6. ASSUME NEW n, NEW o, n = occ[d.event], o = Options(d) PROVE AtDraw(d.event, n, o, x)'
  BY <1>1, <1>2, <1>6, EventMet DEF AtDraw
<1> QED
  BY <1>4, <1>5, <1>6

-----------------------------------------------------------------------------
(* The invariant of the replay.                                             *)

\* Each injected entry is for a draw that the entries before it lead to, and its
\* values are options of that draw.
Values(i) == {prefix[i].val} \union prefix[i].todo
EntriesAreReached ==
    \A i \in CatbEntries : \A e, n, v :
        e = prefix[i].event /\ n = prefix[i].occ /\ v \in Values(i) => Leads(i, e, n, v, Start)

\* A replay at x is on its way to every entry not consumed yet, has come from
\* the start with the entries deciding while no draw was left to its default,
\* and has come to the one that was.
WayTo(x) ==
    /\ \A e, n, v : \A i \in CatbEntries \ consumed :
          e = prefix[i].event /\ n = prefix[i].occ /\ v \in Values(i) => Leads(i, e, n, v, x)
    /\ \A m : m = Len(prefix) + 1 /\ Unforced = {} => Comes(m, x)
    /\ \A m, e, n, o : \A i \in Unforced :
          m = Len(prefix) + 1 /\ e = log[i].event /\ n = Occurrence(i) /\ o = log[i].opts
              => ComesToDraw(m, e, n, o)
OnTheWay == Replaying => \A x : x = Now => WayTo(x)

ReplayInv == EntriesAreEvents /\ EntriesAreReached /\ LogCounted /\ ForcedFirst /\ OnTheWay

LEMMA SamePrefix ==
    ASSUME TypeOK, prefix' = prefix
    PROVE  /\ \A m \in Nat : m <= Len(prefix) + 1 => SameBefore(m)
           /\ CatbEntries' = CatbEntries /\ CatbCount' = CatbCount
           /\ \A e, n : Injected(e, n)' = Injected(e, n)
           /\ \A e : Queue(e)' = Queue(e)
           /\ \A i : Ahead(i)' = Ahead(i)
BY PositionSets DEF SameBefore, CatbEntries, CatbCount, Injected, Queue, Ahead

LEMMA CatbEntryFacts ==
    ASSUME TypeOK, NEW i \in CatbEntries
    PROVE  /\ i \in Nat /\ i \in 1..Len(prefix) /\ i \in DOMAIN prefix
           /\ prefix[i].channel = "B" /\ prefix[i].event \in Event /\ prefix[i].occ \in Nat
           /\ Len(prefix) \in Nat
BY EntryFacts DEF TypeOK, CatbEntries

\* The prefix part is not touched by a replay.
LEMMA EntriesKept ==
    ASSUME TypeOK, ProgramGrows, prefix' = prefix, EntriesAreEvents, EntriesAreReached
    PROVE  EntriesAreEvents' /\ EntriesAreReached'
<1>1. /\ CatbEntries' = CatbEntries /\ \A e : Queue(e)' = Queue(e)
      /\ \A i : Ahead(i)' = Ahead(i)
  BY SamePrefix
<1>2. \A ch, e : /\ Cardinality(Known(ch, e)) \in Nat /\ Cardinality(Known(ch, e)') \in Nat
                 /\ Cardinality(Known(ch, e)) <= Cardinality(Known(ch, e)')
  BY KnownSets, KnownGrows
<1>3. ASSUME NEW e \in Event, NEW i \in CatbEntries, prefix[i].event = e
      PROVE  prefix[i].occ < Cardinality(Known("B", e)')
  BY <1>2, <1>3, CatbEntryFacts DEF EntriesAreEvents
<1>4. ASSUME NEW e \in Event, NEW i \in Queue(e)
      PROVE  Cardinality(Ahead(i)) < Cardinality(Known("A", e)')
  BY <1>2, <1>4, QueueOrder DEF EntriesAreEvents
<1>5. EntriesAreEvents'
  BY <1>1, <1>3, <1>4 DEF EntriesAreEvents
<1>6. ASSUME NEW i \in CatbEntries, NEW e, NEW n, NEW v,
             e = prefix[i].event, n = prefix[i].occ, v \in Values(i)
      PROVE  Leads(i, e, n, v, Start)'
  <2>1. Leads(i, e, n, v, Start) /\ i \in Nat /\ SameBefore(i)
    BY <1>6, CatbEntryFacts, SamePrefix DEF EntriesAreReached
  <2> QED
    BY <2>1, LeadsKept
<1>7. EntriesAreReached'
  BY <1>1, <1>6 DEF EntriesAreReached, Values
<1> QED
  BY <1>5, <1>7

-----------------------------------------------------------------------------
(* A replay keeps its invariant.                                            *)

LEMMA Onward ==
    ASSUME TypeOK, at \in Point, NEW d \in setup.draws[at]
    PROVE  \A v : Follow(d, v) \in Point => Follow(d, v) > at
<1>1. d \in Draw /\ \A v \in Options(d) : d.next[v] \in Point => d.next[v] > at
  BY SetupFacts DEF TypeOK
<1>2. d.stray \notin Point
  BY <1>1, DrawFacts, PlaceFacts
<1> QED
  BY <1>1, <1>2 DEF Follow

LEMMA WayNow ==
    ASSUME NEW y, y = Now', WayTo(y)'
    PROVE  OnTheWay'
BY DEF OnTheWay

LEMMA WayOn ==
    ASSUME TypeOK, OnTheWay, Replaying, ProgramGrows, prefix' = prefix,
           NEW x, NEW y, x = Now, Moves(x, y),
           NEW i \in CatbEntries, i \notin consumed, NEW e, NEW n, NEW v,
           e = prefix[i].event, n = prefix[i].occ, v \in Values(i), ~Waits(e, n, v, x)
    PROVE  Leads(i, e, n, v, y)'
<1>1. Leads(i, e, n, v, x)
  BY DEF OnTheWay, WayTo
<1>2. i \in Nat /\ SameBefore(i)
  BY CatbEntryFacts, SamePrefix
<1>3. \A c2 : Goes(i, x, c2) => c2 = y
  BY DEF Moves
<1> QED
  BY <1>1, <1>2, <1>3, LeadsOn

LEMMA RoadOn ==
    ASSUME TypeOK, OnTheWay, Replaying, ProgramGrows, prefix' = prefix,
           NEW x, NEW y, x = Now, Moves(x, y), Unforced = {}, NEW m, m = Len(prefix) + 1
    PROVE  Comes(m, y)'
<1>1. m \in Nat /\ SameBefore(m)
  BY PositionSets, SamePrefix
<1>2. Comes(m, x)
  BY DEF OnTheWay, WayTo
<1>3. Goes(m, x, y)'
  BY <1>1 DEF Moves
<1> QED
  BY <1>1, <1>2, <1>3, ComesOn

LEMMA BranchKept ==
    ASSUME TypeOK, OnTheWay, Replaying, ProgramGrows, prefix' = prefix,
           NEW i \in Unforced, NEW e, NEW n, NEW o, e = log[i].event, n = Occurrence(i),
           o = log[i].opts, NEW m, m = Len(prefix) + 1
    PROVE  ComesToDraw(m, e, n, o)'
<1>1. m \in Nat /\ SameBefore(m)
  BY PositionSets, SamePrefix
<1>2. ComesToDraw(m, e, n, o)
  BY DEF OnTheWay, WayTo
<1> QED
  BY <1>1, <1>2, ComesToDrawKept

\* A certain draw or an answered question.
LEMMA QuietStep ==
    ASSUME TypeOK, ReplayInv, NEW d, MeetsFacts(d), at' \in Point => at' > at,
           prefix' = prefix, pc' = pc, occ' = occ, consumed' = consumed,
           BranchPoints' = BranchPoints, Unforced' = Unforced, \A f : OfEvent(f)' = OfEvent(f),
           \A i \in BranchPoints : log'[i] = log[i] /\ Occurrence(i)' = Occurrence(i),
           \A e \in Event : cursor'[e] <= Cardinality(Passed("A", e)'),
           NEW x, NEW y, x = Now, y = Now', Moves(x, y), \A e, n, v : ~Waits(e, n, v, x)
    PROVE  ReplayInv'
<1>1. ProgramGrows
  BY EventMet
<1>2. Replaying /\ Replaying'
  BY DEF MeetsFacts, Replaying
<1>3. EntriesAreEvents' /\ EntriesAreReached'
  BY <1>1, EntriesKept DEF ReplayInv
<1>4. CatbEntries' = CatbEntries /\ \A e, n : Injected(e, n)' = Injected(e, n)
  BY SamePrefix
<1>5. LogCounted'
  <2>1. \A e \in Event : occ[e] <= Cardinality(Passed("B", e)')
    <3> SUFFICES ASSUME NEW e \in Event PROVE occ[e] <= Cardinality(Passed("B", e)')
      OBVIOUS
    <3>1. occ[e] <= Cardinality(Passed("B", e)) /\ occ[e] \in Nat
      BY <1>2 DEF ReplayInv, LogCounted, TypeOK
    <3>2. /\ Cardinality(Passed("B", e)) <= Cardinality(Passed("B", e)')
          /\ Cardinality(Passed("B", e)) \in Nat /\ Cardinality(Passed("B", e)') \in Nat
      BY PassedGrows, KnownSets
    <3> QED
      BY <3>1, <3>2
  <2>2. \A e \in Event : occ[e] = Cardinality(OfEvent(e)')
    BY <1>2, Zenon DEF ReplayInv, LogCounted, OfEvent
  <2>3. consumed = {i \in CatbEntries : prefix[i].occ < occ[prefix[i].event]}
    BY <1>2 DEF ReplayInv, LogCounted
  <2> QED
    BY <1>4, <2>1, <2>2, <2>3 DEF LogCounted, OfEvent
<1>6. ForcedFirst'
  <2>1. /\ Unforced = {} => Cardinality(consumed) = Cardinality(BranchPoints)
        /\ Unforced # {} => consumed = CatbEntries
        /\ \A i \in Unforced : Injected(log[i].event, Occurrence(i)) = {}
    BY <1>2 DEF ReplayInv, ForcedFirst
  <2>2. ASSUME NEW i \in Unforced', NEW e, NEW n, e = log'[i].event, n = Occurrence(i)'
        PROVE  Injected(e, n) = {}
    <3>1. i \in Unforced /\ i \in BranchPoints
      BY <2>2 DEF Unforced
    <3>2. e = log[i].event /\ n = Occurrence(i)
      BY <2>2, <3>1
    <3> QED
      BY <2>1, <3>1, <3>2
  <2>3. \A i \in Unforced' : (Injected(log[i].event, Occurrence(i)) = {})'
    BY <2>2 DEF Injected
  <2> QED
    BY <1>4, <2>1, <2>3 DEF ForcedFirst
<1>7. OnTheWay'
  <2>1. ASSUME NEW e, NEW n, NEW v, NEW i \in CatbEntries' \ consumed',
               e = prefix'[i].event, n = prefix'[i].occ, v \in Values(i)'
        PROVE  Leads(i, e, n, v, y)'
    <3>1. v \in Values(i)
      BY <2>1 DEF Values
    <3> QED
      BY <1>1, <1>2, <1>4, <2>1, <3>1, WayOn DEF ReplayInv
  <2>2. ASSUME NEW m, m = Len(prefix') + 1, Unforced' = {} PROVE Comes(m, y)'
    <3>1. m = Len(prefix) + 1 /\ Unforced = {}
      BY <2>2
    <3> QED
      BY <1>1, <1>2, <3>1, RoadOn DEF ReplayInv
  <2>3. ASSUME NEW m, NEW e, NEW n, NEW o, m = Len(prefix') + 1,
               NEW i \in Unforced', e = log'[i].event, n = Occurrence(i)', o = log'[i].opts
        PROVE  ComesToDraw(m, e, n, o)'
    <3>1. i \in Unforced /\ i \in BranchPoints
      BY <2>3 DEF Unforced
    <3>2. e = log[i].event /\ n = Occurrence(i) /\ o = log[i].opts /\ m = Len(prefix) + 1
      BY <2>3, <3>1
    <3> QED
      BY <1>1, <1>2, <3>1, <3>2, BranchKept DEF ReplayInv
  <2>4. WayTo(y)'
    BY <2>1, <2>2, <2>3 DEF WayTo
  <2> QED
    BY <2>4, WayNow
<1> QED
  BY <1>3, <1>5, <1>6, <1>7 DEF ReplayInv

LEMMA CountersOn ==
    ASSUME TypeOK, LogCounted, NEW d, MeetsFacts(d), at' \in Point => at' > at
    PROVE  \A e \in Event :
              /\ occ[e] <= Cardinality(Passed("B", e)')
              /\ cursor[e] <= Cardinality(Passed("A", e)')
              /\ d.channel = "B" /\ d.event = e => occ[e] + 1 <= Cardinality(Passed("B", e)')
              /\ d.channel = "A" /\ d.event = e => cursor[e] + 1 <= Cardinality(Passed("A", e)')
<1> SUFFICES ASSUME NEW e \in Event
      PROVE  /\ occ[e] <= Cardinality(Passed("B", e)')
             /\ cursor[e] <= Cardinality(Passed("A", e)')
             /\ d.channel = "B" /\ d.event = e => occ[e] + 1 <= Cardinality(Passed("B", e)')
             /\ d.channel = "A" /\ d.event = e => cursor[e] + 1 <= Cardinality(Passed("A", e)')
  OBVIOUS
<1>1. Replaying
  BY DEF MeetsFacts, Replaying
<1>2. /\ occ[e] <= Cardinality(Passed("B", e)) /\ cursor[e] <= Cardinality(Passed("A", e))
      /\ occ[e] \in Nat /\ cursor[e] \in Nat
  BY <1>1 DEF LogCounted, TypeOK
<1>3. \A ch : /\ Cardinality(Passed(ch, e)) \in Nat /\ Cardinality(Passed(ch, e)') \in Nat
              /\ Cardinality(Passed(ch, e)) <= Cardinality(Passed(ch, e)')
              /\ d.channel = ch /\ d.event = e
                     => Cardinality(Passed(ch, e)) < Cardinality(Passed(ch, e)')
  BY PassedGrows, KnownSets
<1> QED
  BY <1>2, <1>3

\* What every step of the replay that does not pause starts from.
LEMMA StepFacts ==
    ASSUME TypeOK, at \in Point, NEW d \in setup.draws[at], Meets(d),
           NEW v, at' = Follow(d, v)
    PROVE  d \in Draw /\ d.event \in Event /\ MeetsFacts(d) /\ (at' \in Point => at' > at)
<1>1. d \in Draw
  BY SetupFacts DEF TypeOK
<1>2. d.event \in Event
  BY <1>1, DrawFacts
<1> QED
  BY <1>1, <1>2, MeetsProgram, Onward

LEMMA SaturatedStep ==
    ASSUME TypeOK, ReplayInv, at \in Point, NEW d \in setup.draws[at], DrawSaturated(d)
    PROVE  ReplayInv'
<1>1. /\ Saturated(Options(d)) /\ Meets(d) /\ at' = Follow(d, Min(Options(d))) /\ Log(d)
      /\ pc' = pc /\ prefix' = prefix /\ occ' = occ /\ cursor' = cursor /\ consumed' = consumed
  BY DEF DrawSaturated
<1>2. d \in Draw /\ MeetsFacts(d) /\ (at' \in Point => at' > at)
  BY <1>1, StepFacts
<1>3. PICK n : n = Len(log) + 1
  OBVIOUS
<1>4. LogEnd(n, d.event, TRUE)
  <2>1. LogEnd(n, d.event, Saturated(Options(d)))
    BY <1>1, <1>2, <1>3, LogGrows
  <2> QED
    BY <1>1, <2>1 DEF LogEnd
<1>5. /\ BranchPoints' = BranchPoints /\ Unforced' = Unforced
      /\ \A f : OfEvent(f)' = OfEvent(f)
      /\ \A i \in BranchPoints : log'[i] = log[i] /\ Occurrence(i)' = Occurrence(i)
  BY <1>1, <1>4, SureDraw
<1>6. \A e \in Event : cursor'[e] <= Cardinality(Passed("A", e)')
  BY <1>1, <1>2, CountersOn DEF ReplayInv
<1>7. PICK x, y : x = Now /\ y = Now'
  OBVIOUS
<1>8. Moves(x, y) /\ \A e, n1, v : ~Waits(e, n1, v, x)
  BY <1>2, <1>7, SaturatedMoves
<1> QED
  BY <1>1, <1>2, <1>5, <1>6, <1>7, <1>8, QuietStep

LEMMA AnsweredStep ==
    ASSUME TypeOK, ReplayInv, at \in Point, NEW d \in setup.draws[at],
           NEW i \in DOMAIN prefix, AskAnswered(d, i)
    PROVE  ReplayInv'
<1>1. /\ d.channel = "A" /\ Meets(d) /\ at' = Follow(d, prefix[i].val)
      /\ cursor' = [cursor EXCEPT ![d.event] = cursor[d.event] + 1]
      /\ pc' = pc /\ prefix' = prefix /\ occ' = occ /\ log' = log /\ consumed' = consumed
  BY DEF AskAnswered, UsedUp
<1>2. d \in Draw /\ d.event \in Event /\ MeetsFacts(d) /\ (at' \in Point => at' > at)
  BY <1>1, StepFacts
<1>3. /\ BranchPoints' = BranchPoints /\ Unforced' = Unforced
      /\ \A f : OfEvent(f)' = OfEvent(f)
      /\ \A j \in BranchPoints : log'[j] = log[j] /\ Occurrence(j)' = Occurrence(j)
  BY <1>1 DEF BranchPoints, Unforced, OfEvent, Occurrence, Earlier, CatbCount, CatbEntries
<1>4. \A e \in Event : cursor'[e] <= Cardinality(Passed("A", e)')
  <2> SUFFICES ASSUME NEW e \in Event PROVE cursor'[e] <= Cardinality(Passed("A", e)')
    OBVIOUS
  <2>1. /\ cursor[e] <= Cardinality(Passed("A", e)')
        /\ d.event = e => cursor[e] + 1 <= Cardinality(Passed("A", e)')
    BY <1>1, <1>2, CountersOn DEF ReplayInv
  <2>2. cursor'[e] = IF e = d.event THEN cursor[e] + 1 ELSE cursor[e]
    BY <1>1 DEF TypeOK
  <2> QED
    BY <2>1, <2>2
<1>5. PICK x, y : x = Now /\ y = Now'
  OBVIOUS
<1>6. Moves(x, y) /\ \A e, n, v : ~Waits(e, n, v, x)
  BY <1>1, <1>2, <1>5, AnsweredMoves
<1> QED
  BY <1>1, <1>2, <1>3, <1>4, <1>5, <1>6, QuietStep

\* Bumping the counter of a draw that is logged.
LEMMA LogCountedOn ==
    ASSUME TypeOK, LogCounted, NEW d, MeetsFacts(d), at' \in Point => at' > at,
           prefix' = prefix, cursor' = cursor, d.channel = "B", d.event \in Event,
           BumpOccurrence(d.event), NEW n, LogEnd(n, d.event, FALSE),
           consumed' = consumed \union Injected(d.event, occ[d.event])
    PROVE  LogCounted'
<1>1. Replaying
  BY DEF MeetsFacts, Replaying
<1>2. \A f \in Event : occ'[f] = IF f = d.event THEN occ[f] + 1 ELSE occ[f]
  BY DEF BumpOccurrence, TypeOK
<1>3. /\ \A f \in Event : occ[f] = Cardinality(OfEvent(f))
      /\ consumed = {i \in CatbEntries : prefix[i].occ < occ[prefix[i].event]}
  BY <1>1, Zenon DEF LogCounted, OfEvent
<1>4. ASSUME NEW f \in Event
      PROVE  /\ occ'[f] = Cardinality(OfEvent(f)')
             /\ occ'[f] <= Cardinality(Passed("B", f)') /\ cursor'[f] <= Cardinality(Passed("A", f)')
  <2>1. /\ Cardinality(OfEvent(d.event)') = Cardinality(OfEvent(d.event)) + 1
        /\ f # d.event => OfEvent(f)' = OfEvent(f)
    BY UnsureDraw
  <2>2. /\ occ[f] <= Cardinality(Passed("B", f)') /\ cursor[f] <= Cardinality(Passed("A", f)')
        /\ d.event = f => occ[f] + 1 <= Cardinality(Passed("B", f)')
    BY CountersOn
  <2>3. CASE f = d.event
    BY <1>2, <1>3, <2>1, <2>2, <2>3
  <2>4. CASE f # d.event
    BY <1>2, <1>3, <2>1, <2>2, <2>4
  <2> QED
    BY <2>3, <2>4
<1>5. consumed' = {i \in CatbEntries : prefix[i].occ < occ'[prefix[i].event]}
  <2>1. ASSUME NEW i \in CatbEntries
        PROVE  i \in consumed' <=> prefix[i].occ < occ'[prefix[i].event]
    <3>1. prefix[i].occ \in Nat /\ prefix[i].event \in Event /\ i \in DOMAIN prefix
          /\ prefix[i].channel = "B"
      BY CatbEntryFacts
    <3>2. i \in Injected(d.event, occ[d.event])
             <=> prefix[i].event = d.event /\ prefix[i].occ = occ[d.event]
      BY <3>1 DEF Injected
    <3>3. occ[prefix[i].event] \in Nat
      BY <3>1 DEF TypeOK
    <3>4. i \in consumed <=> prefix[i].occ < occ[prefix[i].event]
      BY <1>3
    <3> QED
      BY <1>2, <3>1, <3>2, <3>3, <3>4
  <2>2. consumed' \subseteq CatbEntries
    BY <1>3 DEF Injected, CatbEntries
  <2> QED
    BY <2>1, <2>2
<1>6. CatbEntries' = CatbEntries
  BY SamePrefix
<1> QED
  BY <1>4, <1>5, <1>6 DEF LogCounted, OfEvent

LEMMA ForcedStep ==
    ASSUME TypeOK, ReplayInv, at \in Point, NEW d \in setup.draws[at],
           NEW k \in DOMAIN prefix, DrawForced(d, k)
    PROVE  ReplayInv'
<1>1. /\ d.channel = "B" /\ ~Saturated(Options(d)) /\ k \in Injected(d.event, occ[d.event])
      /\ Meets(d) /\ at' = Follow(d, prefix[k].val) /\ Log(d) /\ BumpOccurrence(d.event)
      /\ consumed' = consumed \union {k} /\ pc' = pc /\ prefix' = prefix /\ cursor' = cursor
  BY DEF DrawForced
<1>2. d \in Draw /\ d.event \in Event /\ MeetsFacts(d) /\ (at' \in Point => at' > at)
  BY <1>1, StepFacts
<1>3. PICK n : n = Len(log) + 1
  OBVIOUS
<1>4. LogEnd(n, d.event, FALSE)
  <2>1. LogEnd(n, d.event, Saturated(Options(d)))
    BY <1>1, <1>2, <1>3, LogGrows
  <2> QED
    BY <1>1, <2>1 DEF LogEnd
<1>5. PICK x, y : x = Now /\ y = Now'
  OBVIOUS
<1>6. /\ Moves(x, y)
      /\ \A j \in CatbEntries : \A v : Waits(prefix[j].event, prefix[j].occ, v, x) => j = k
      /\ \A j \in Injected(d.event, occ[d.event]) : j = k
  BY <1>1, <1>2, <1>5, ForcedMoves DEF ReplayInv
<1>7. ProgramGrows /\ Replaying
  BY <1>2, EventMet DEF MeetsFacts, Replaying
<1>8. EntriesAreEvents' /\ EntriesAreReached'
  BY <1>1, <1>7, EntriesKept DEF ReplayInv
<1>9. Injected(d.event, occ[d.event]) = {k} /\ k \in CatbEntries /\ k \notin consumed
  <2>1. Injected(d.event, occ[d.event]) = {k}
    BY <1>1, <1>6
  <2>2. k \in CatbEntries /\ prefix[k].event = d.event /\ prefix[k].occ = occ[d.event]
    BY <1>1 DEF Injected, CatbEntries
  <2>3. ~(prefix[k].occ < occ[d.event])
    BY <1>2, <2>2 DEF TypeOK
  <2> QED
    BY <1>7, <2>1, <2>2, <2>3 DEF ReplayInv, LogCounted
<1>10. LogCounted'
  BY <1>1, <1>2, <1>4, <1>9, LogCountedOn DEF ReplayInv
<1>11. Unforced = {} /\ Cardinality(consumed) = Cardinality(BranchPoints)
  BY <1>7, <1>9 DEF ReplayInv, ForcedFirst
<1>12. consumed \in SUBSET CatbEntries
  BY <1>7 DEF ReplayInv, LogCounted
<1>13. IsFiniteSet(consumed) /\ Cardinality(consumed) \in Nat /\ Cardinality(consumed) < CatbCount
  <2>1. /\ IsFiniteSet(consumed) /\ Cardinality(consumed) \in Nat
        /\ \A j \in CatbEntries : j \notin consumed => Cardinality(consumed) < Cardinality(CatbEntries)
    BY <1>12, PositionSets, PartSize, Zenon
  <2> QED
    BY <1>9, <2>1 DEF CatbCount
<1>14. Unforced' = {}
  <2>1. /\ BranchPoints' = BranchPoints \union {n}
        /\ \A i \in BranchPoints : i \in Unforced' <=> i \in Unforced
        /\ n \in Unforced' <=> Cardinality(BranchPoints) = CatbCount
    BY <1>1, <1>4, UnsureDraw
  <2>2. n \notin Unforced'
    BY <1>11, <1>13, <2>1, PositionSets
  <2>3. Unforced' \subseteq BranchPoints'
    BY DEF Unforced
  <2> QED
    BY <1>11, <2>1, <2>2, <2>3
<1>15. ForcedFirst'
  <2>1. Cardinality(BranchPoints') = Cardinality(BranchPoints) + 1
    BY <1>1, <1>4, UnsureDraw
  <2>2. Cardinality(consumed') = Cardinality(consumed) + 1
    BY <1>1, <1>9, <1>13, OneMore, Zenon
  <2> QED
    BY <1>11, <1>14, <2>1, <2>2 DEF ForcedFirst
<1>16. OnTheWay'
  <2>1. ASSUME NEW e, NEW m, NEW v, NEW i \in CatbEntries' \ consumed',
               e = prefix'[i].event, m = prefix'[i].occ, v \in Values(i)'
        PROVE  Leads(i, e, m, v, y)'
    <3>1. i \in CatbEntries /\ i \notin consumed /\ i # k
      BY <1>1, <2>1, SamePrefix
    <3>2. e = prefix[i].event /\ m = prefix[i].occ /\ v \in Values(i)
      BY <1>1, <2>1 DEF Values
    <3>3. ~Waits(e, m, v, x)
      BY <1>6, <3>1, <3>2
    <3> QED
      BY <1>1, <1>5, <1>6, <1>7, <3>1, <3>2, <3>3, WayOn DEF ReplayInv
  <2>2. ASSUME NEW m, m = Len(prefix') + 1, Unforced' = {} PROVE Comes(m, y)'
    BY <1>1, <1>5, <1>6, <1>7, <1>11, <2>2, RoadOn DEF ReplayInv
  <2>3. WayTo(y)'
    BY <1>14, <2>1, <2>2 DEF WayTo
  <2> QED
    BY <1>5, <2>3, WayNow
<1> QED
  BY <1>8, <1>10, <1>15, <1>16 DEF ReplayInv

LEMMA DefaultStep ==
    ASSUME TypeOK, ReplayInv, at \in Point, NEW d \in setup.draws[at], DrawDefault(d)
    PROVE  ReplayInv'
<1>1. /\ d.channel = "B" /\ ~Saturated(Options(d)) /\ Injected(d.event, occ[d.event]) = {}
      /\ Meets(d) /\ at' = Follow(d, Min(Options(d))) /\ Log(d) /\ BumpOccurrence(d.event)
      /\ consumed' = consumed /\ pc' = pc /\ prefix' = prefix /\ cursor' = cursor
  BY DEF DrawDefault
<1>2. d \in Draw /\ d.event \in Event /\ MeetsFacts(d) /\ (at' \in Point => at' > at)
  BY <1>1, StepFacts
<1>3. PICK k : k = Len(log) + 1
  OBVIOUS
<1>4. LogEnd(k, d.event, FALSE)
  <2>1. LogEnd(k, d.event, Saturated(Options(d)))
    BY <1>1, <1>2, <1>3, LogGrows
  <2> QED
    BY <1>1, <2>1 DEF LogEnd
<1>5. PICK x, y, o, opts : x = Now /\ y = Now' /\ o = occ[d.event] /\ opts = Options(d)
  OBVIOUS
<1>6. /\ \A m, c2 : ~Goes(m, x, c2)
      /\ \A j \in CatbEntries : \A v : ~Waits(prefix[j].event, prefix[j].occ, v, x)
      /\ AtDraw(d.event, o, opts, x)'
  BY <1>2, <1>5, DefaultMoves
<1>7. ProgramGrows /\ Replaying
  BY <1>2, EventMet DEF MeetsFacts, Replaying
<1>8. EntriesAreEvents' /\ EntriesAreReached'
  BY <1>1, <1>7, EntriesKept DEF ReplayInv
<1>9. consumed = CatbEntries
  <2>1. consumed \subseteq CatbEntries
    BY <1>7 DEF ReplayInv, LogCounted
  <2>2. ASSUME NEW i \in CatbEntries, i \notin consumed PROVE FALSE
    <3>1. PICK e, n, v : e = prefix[i].event /\ n = prefix[i].occ /\ v \in Values(i)
      BY DEF Values
    <3>2. Leads(i, e, n, v, x)
      BY <1>5, <1>7, <2>2, <3>1 DEF ReplayInv, OnTheWay, WayTo
    <3>3. Waits(e, n, v, x) \/ \E c2 : Goes(i, x, c2)
      BY <3>2 DEF Leads, Way
    <3> QED
      BY <1>6, <3>1, <3>3
  <2> QED
    BY <2>1, <2>2
<1>10. LogCounted'
  BY <1>1, <1>2, <1>4, LogCountedOn DEF ReplayInv
<1>11. /\ BranchPoints' = BranchPoints \union {k}
       /\ \A i \in BranchPoints : /\ log'[i] = log[i] /\ Occurrence(i)' = Occurrence(i)
                                  /\ i \in Unforced' <=> i \in Unforced
       /\ log'[k].event = d.event /\ Occurrence(k)' = Cardinality(OfEvent(d.event))
       /\ k \in Unforced' <=> Cardinality(BranchPoints) = CatbCount
  BY <1>1, <1>4, UnsureDraw
<1>12. Occurrence(k)' = o /\ log'[k].opts = opts
  <2>1. Occurrence(k)' = o
    BY <1>2, <1>5, <1>7, <1>11, Zenon DEF ReplayInv, LogCounted, OfEvent
  <2>2. log'[k].opts = opts
    BY <1>1, <1>2, <1>3, <1>5, LogLast
  <2> QED
    BY <2>1, <2>2
<1>13. Unforced \in SUBSET BranchPoints /\ Unforced' \subseteq BranchPoints'
  BY LogSets DEF Unforced
<1>14. Unforced = {} => k \in Unforced'
  <2>1. Unforced = {} => Cardinality(consumed) = Cardinality(BranchPoints)
    BY <1>7 DEF ReplayInv, ForcedFirst
  <2> QED
    BY <1>9, <1>11, <2>1 DEF CatbCount
<1>15. k \in Unforced' => Unforced = {}
  <2> SUFFICES ASSUME k \in Unforced', NEW i \in Unforced PROVE FALSE
    OBVIOUS
  <2>1. i \in BranchPoints /\ Cardinality(Earlier(i)) = CatbCount
    BY DEF Unforced
  <2>2. /\ Earlier(i) \in SUBSET BranchPoints /\ i \notin Earlier(i)
        /\ IsFiniteSet(BranchPoints) /\ Cardinality(BranchPoints) \in Nat
    BY <2>1, LogSets
  <2>3. \A j \in BranchPoints : j \notin Earlier(i) => Cardinality(Earlier(i)) < Cardinality(BranchPoints)
    BY <2>2, PartSize, Zenon
  <2> QED
    BY <1>11, <2>1, <2>2, <2>3
<1>16. Unforced' # {}
  BY <1>11, <1>13, <1>14
<1>17. CatbEntries' = CatbEntries /\ \A e, n : Injected(e, n)' = Injected(e, n)
  BY <1>1, SamePrefix
<1>18. ForcedFirst'
  <2>1. ASSUME NEW i \in Unforced', NEW e, NEW n, e = log'[i].event, n = Occurrence(i)'
        PROVE  Injected(e, n) = {}
    <3>1. CASE i = k
      BY <1>1, <1>5, <1>11, <1>12, <2>1, <3>1
    <3>2. CASE i # k
      <4>1. i \in BranchPoints /\ i \in Unforced
        BY <1>11, <1>13, <2>1, <3>2
      <4>2. e = log[i].event /\ n = Occurrence(i)
        BY <1>11, <2>1, <4>1
      <4> QED
        BY <1>7, <4>1, <4>2 DEF ReplayInv, ForcedFirst
    <3> QED
      BY <3>1, <3>2
  <2>2. \A i \in Unforced' : (Injected(log[i].event, Occurrence(i)) = {})'
    BY <1>1, <2>1 DEF Injected
  <2> QED
    BY <1>1, <1>9, <1>16, <1>17, <2>2 DEF ForcedFirst
<1>19. OnTheWay'
  <2>1. ASSUME NEW m, NEW e, NEW n, NEW os, m = Len(prefix') + 1,
               NEW i \in Unforced', e = log'[i].event, n = Occurrence(i)', os = log'[i].opts
        PROVE  ComesToDraw(m, e, n, os)'
    <3>1. m = Len(prefix) + 1 /\ m \in Nat /\ SameBefore(m)
      BY <1>1, <2>1, PositionSets, SamePrefix
    <3>2. CASE i = k
      <4>1. e = d.event /\ n = o /\ os = opts
        BY <1>11, <1>12, <2>1, <3>2
      <4>2. Comes(m, x)
        BY <1>5, <1>7, <1>15, <2>1, <3>1, <3>2 DEF ReplayInv, OnTheWay, WayTo
      <4>3. Comes(m, x)'
        BY <1>7, <3>1, <4>2, ComesKept
      <4>4. AtDraw(e, n, os, x)'
        BY <1>6, <4>1
      <4> QED
        BY <4>3, <4>4 DEF ComesToDraw
    <3>3. CASE i # k
      <4>1. i \in BranchPoints /\ i \in Unforced
        BY <1>11, <1>13, <2>1, <3>3
      <4>2. e = log[i].event /\ n = Occurrence(i) /\ os = log[i].opts
        BY <1>11, <2>1, <4>1
      <4> QED
        BY <1>1, <1>7, <3>1, <4>1, <4>2, BranchKept DEF ReplayInv
    <3> QED
      BY <3>2, <3>3
  <2>2. WayTo(y)'
    BY <1>1, <1>9, <1>16, <1>17, <2>1 DEF WayTo
  <2> QED
    BY <1>5, <2>2, WayNow
<1> QED
  BY <1>8, <1>10, <1>18, <1>19 DEF ReplayInv

-----------------------------------------------------------------------------
(* The prefix grows by an entry for the next event, and is cut back.        *)

EntriesInv == EntriesAreEvents /\ EntriesAreReached

LEMMA NotReplaying ==
    ASSUME EntriesInv', pc' \notin {"turn", "scan"}
    PROVE  ReplayInv'
BY DEF EntriesInv, ReplayInv, LogCounted, ForcedFirst, OnTheWay, Replaying

LEMMA NoEntries ==
    ASSUME prefix' = <<>>
    PROVE  EntriesInv'
BY DEF EntriesInv, EntriesAreEvents, EntriesAreReached, CatbEntries, Queue

\* The program and the prefix stay, or the prefix is cut back to entries that
\* differ from what they were at most in that the last has some of its values only.
LEMMA EntriesCut ==
    ASSUME TypeOK, EntriesInv, ProgramGrows, prefix' \in Seq(PrefixEntry),
           Len(prefix') <= Len(prefix),
           \A i \in 1..Len(prefix') :
              /\ prefix'[i].channel = prefix[i].channel /\ prefix'[i].event = prefix[i].event
              /\ prefix'[i].occ = prefix[i].occ
              /\ i < Len(prefix') => prefix'[i].val = prefix[i].val
              /\ Values(i)' \subseteq Values(i)
    PROVE  EntriesInv'
<1>1. /\ Len(prefix) \in Nat /\ DOMAIN prefix = 1..Len(prefix)
      /\ Len(prefix') \in Nat /\ DOMAIN prefix' = 1..Len(prefix')
  BY PositionSets, EntryFacts
<1>2. \A i \in DOMAIN prefix' : i \in DOMAIN prefix /\ i \in Nat /\ SameBefore(i)
  BY <1>1 DEF SameBefore
<1>3. CatbEntries' \subseteq CatbEntries /\ CatbEntries' \subseteq DOMAIN prefix'
  BY <1>1, <1>2 DEF CatbEntries
<1>4. \A e : Queue(e)' \subseteq Queue(e) /\ Queue(e)' \subseteq DOMAIN prefix'
  BY <1>1, <1>2 DEF Queue
<1>5. ASSUME NEW i \in DOMAIN prefix' PROVE Ahead(i)' = Ahead(i)
  <2>1. /\ prefix'[i].event = prefix[i].event
        /\ \A j \in 1..(i - 1) : /\ prefix'[j].channel = prefix[j].channel
                                 /\ prefix'[j].event = prefix[j].event
    BY <1>1, <1>5
  <2> QED
    BY <2>1 DEF Ahead
<1>6. \A ch, e : /\ Cardinality(Known(ch, e)) \in Nat /\ Cardinality(Known(ch, e)') \in Nat
                 /\ Cardinality(Known(ch, e)) <= Cardinality(Known(ch, e)')
  BY KnownSets, KnownGrows
<1>7. ASSUME NEW e \in Event, NEW i \in CatbEntries', prefix'[i].event = e
      PROVE  prefix'[i].occ < Cardinality(Known("B", e)')
  <2>1. i \in CatbEntries /\ prefix[i].event = e /\ prefix'[i].occ = prefix[i].occ
    BY <1>1, <1>3, <1>7
  <2>2. prefix[i].occ < Cardinality(Known("B", e)) /\ prefix[i].occ \in Nat
    BY <2>1, CatbEntryFacts DEF EntriesInv, EntriesAreEvents
  <2> QED
    BY <1>6, <2>1, <2>2
<1>8. ASSUME NEW e \in Event, NEW i \in Queue(e)'
      PROVE  Cardinality(Ahead(i)') < Cardinality(Known("A", e)')
  <2>1. i \in Queue(e) /\ Ahead(i)' = Ahead(i)
    BY <1>4, <1>5, <1>8
  <2>2. Cardinality(Ahead(i)) < Cardinality(Known("A", e)) /\ Cardinality(Ahead(i)) \in Nat
    BY <2>1, QueueOrder DEF EntriesInv, EntriesAreEvents
  <2> QED
    BY <1>6, <2>1, <2>2
<1>9. ASSUME NEW i \in CatbEntries', NEW j \in CatbEntries',
             prefix'[i].event = prefix'[j].event, prefix'[i].occ = prefix'[j].occ
      PROVE  i = j
  <2>1. /\ i \in CatbEntries /\ j \in CatbEntries
        /\ prefix[i].event = prefix[j].event /\ prefix[i].occ = prefix[j].occ
    BY <1>1, <1>3, <1>9
  <2> QED
    BY <2>1 DEF EntriesInv, EntriesAreEvents
<1>10. EntriesAreEvents'
  BY <1>7, <1>8, <1>9 DEF EntriesAreEvents
<1>11. ASSUME NEW i \in CatbEntries', NEW e, NEW n, NEW v,
              e = prefix'[i].event, n = prefix'[i].occ, v \in Values(i)'
       PROVE  Leads(i, e, n, v, Start)'
  <2>1. i \in CatbEntries /\ e = prefix[i].event /\ n = prefix[i].occ /\ v \in Values(i)
    BY <1>1, <1>3, <1>11
  <2>2. Leads(i, e, n, v, Start) /\ i \in Nat /\ SameBefore(i)
    BY <1>2, <1>3, <2>1 DEF EntriesInv, EntriesAreReached
  <2> QED
    BY <2>2, LeadsKept
<1>12. EntriesAreReached'
  BY <1>11 DEF EntriesAreReached
<1> QED
  BY <1>10, <1>12 DEF EntriesInv

\* One more entry z.
LEMMA EntryAppended ==
    ASSUME TypeOK, EntriesInv, ProgramGrows, NEW z \in PrefixEntry, prefix' = Append(prefix, z),
           NEW ch, NEW e, NEW n, ch = z.channel, e = z.event, n = z.occ,
           ch = "A" => Cardinality(Queue(e)) < Cardinality(Known("A", e)'),
           ch = "B" => /\ Injected(e, n) = {} /\ n < Cardinality(Known("B", e)')
                       /\ \A m, v : /\ m = Len(prefix) + 1
                                    /\ v \in {z.val} \union z.todo
                                    => Leads(m, e, n, v, Start)
    PROVE  EntriesInv'
<1>1. PICK k : k = Len(prefix) + 1
  OBVIOUS
<1>2. /\ Len(prefix) \in Nat /\ k \in Nat /\ DOMAIN prefix = 1..(k - 1)
      /\ DOMAIN prefix' = 1..k /\ prefix'[k] = z
      /\ \A i \in 1..(k - 1) : prefix'[i] = prefix[i]
  BY <1>1, PositionSets DEF TypeOK
<1>3. \A m \in Nat : m <= k => SameBefore(m)
  BY <1>2 DEF SameBefore
<1>4. \A i \in 1..k : i = k \/ i \in 1..(k - 1)
  BY <1>2
<1>5. \A i \in CatbEntries' : (i = k /\ ch = "B") \/ i \in CatbEntries
  BY <1>2, <1>4 DEF CatbEntries
<1>6. \A f : \A i \in Queue(f)' : (i = k /\ ch = "A" /\ f = e) \/ i \in Queue(f)
  BY <1>2, <1>4 DEF Queue
<1>7. \A i \in 1..(k - 1) : Ahead(i)' = Ahead(i)
  BY <1>2, <1>3, AheadKept
<1>8. ch = "A" => Ahead(k)' = Queue(e)
  BY <1>2 DEF Ahead, Queue
<1>9. \A c, f : /\ Cardinality(Known(c, f)) \in Nat /\ Cardinality(Known(c, f)') \in Nat
                /\ Cardinality(Known(c, f)) <= Cardinality(Known(c, f)')
  BY KnownSets, KnownGrows
<1>10. ASSUME NEW f \in Event, NEW i \in CatbEntries', prefix'[i].event = f
       PROVE  prefix'[i].occ < Cardinality(Known("B", f)')
  <2>1. CASE i = k /\ ch = "B"
    BY <1>2, <1>10, <2>1
  <2>2. CASE i \in CatbEntries
    <3>1. prefix'[i] = prefix[i]
      BY <1>2, <2>2 DEF CatbEntries
    <3>2. prefix[i].occ < Cardinality(Known("B", f)) /\ prefix[i].occ \in Nat
      BY <1>10, <2>2, <3>1, CatbEntryFacts DEF EntriesInv, EntriesAreEvents
    <3> QED
      BY <1>9, <3>1, <3>2
  <2> QED
    BY <1>5, <1>10, <2>1, <2>2
<1>11. ASSUME NEW f \in Event, NEW i \in Queue(f)'
       PROVE  Cardinality(Ahead(i)') < Cardinality(Known("A", f)')
  <2>1. CASE i = k /\ ch = "A" /\ f = e
    BY <1>8, <2>1
  <2>2. CASE i \in Queue(f)
    <3>1. Ahead(i)' = Ahead(i)
      BY <1>2, <1>7, <2>2 DEF Queue
    <3>2. Cardinality(Ahead(i)) < Cardinality(Known("A", f)) /\ Cardinality(Ahead(i)) \in Nat
      BY <2>2, QueueOrder DEF EntriesInv, EntriesAreEvents
    <3> QED
      BY <1>9, <3>1, <3>2
  <2> QED
    BY <1>6, <1>11, <2>1, <2>2
<1>12. ASSUME NEW i \in CatbEntries', NEW j \in CatbEntries',
              prefix'[i].event = prefix'[j].event, prefix'[i].occ = prefix'[j].occ
       PROVE  i = j
  <2>1. \A h \in CatbEntries : prefix'[h] = prefix[h] /\ prefix[h].channel = "B" /\ h \in DOMAIN prefix
    BY <1>2 DEF CatbEntries
  <2>2. \A h \in CatbEntries : ch = "B" => ~(prefix[h].event = e /\ prefix[h].occ = n)
    BY <2>1 DEF Injected
  <2>3. CASE i \in CatbEntries /\ j \in CatbEntries
    BY <1>12, <2>1, <2>3 DEF EntriesInv, EntriesAreEvents
  <2>4. CASE i = k /\ ch = "B" /\ j \in CatbEntries
    BY <1>2, <1>12, <2>1, <2>2, <2>4
  <2>5. CASE j = k /\ ch = "B" /\ i \in CatbEntries
    BY <1>2, <1>12, <2>1, <2>2, <2>5
  <2> QED
    BY <1>5, <1>12, <2>3, <2>4, <2>5
<1>13. EntriesAreEvents'
  BY <1>10, <1>11, <1>12 DEF EntriesAreEvents
<1>14. ASSUME NEW i \in CatbEntries', NEW f, NEW o, NEW v,
              f = prefix'[i].event, o = prefix'[i].occ, v \in Values(i)'
       PROVE  Leads(i, f, o, v, Start)'
  <2>1. Leads(i, f, o, v, Start) /\ i \in Nat /\ i <= k
    <3>1. CASE i = k /\ ch = "B"
      <4>1. f = e /\ o = n /\ v \in {z.val} \union z.todo
        BY <1>2, <1>14, <3>1 DEF Values
      <4> QED
        BY <1>1, <1>2, <3>1, <4>1
    <3>2. CASE i \in CatbEntries
      <4>1. i \in 1..(k - 1) /\ f = prefix[i].event /\ o = prefix[i].occ /\ v \in Values(i)
        BY <1>2, <1>14, <3>2 DEF CatbEntries, Values
      <4> QED
        BY <1>2, <3>2, <4>1 DEF EntriesInv, EntriesAreReached
    <3> QED
      BY <1>5, <1>14, <3>1, <3>2
  <2>2. SameBefore(i)
    BY <1>3, <2>1
  <2> QED
    BY <2>1, <2>2, LeadsKept
<1>15. EntriesAreReached'
  BY <1>14 DEF EntriesAreReached
<1> QED
  BY <1>13, <1>15 DEF EntriesInv

\* When a replay stands where no entry leads on, all injections are consumed.
LEMMA AllConsumed ==
    ASSUME TypeOK, ReplayInv, Replaying, NEW x, x = Now,
           \A i \in CatbEntries : \A v : ~Waits(prefix[i].event, prefix[i].occ, v, x),
           \A m, c2 : ~Goes(m, x, c2)
    PROVE  Exhausted
<1>1. ASSUME NEW i \in CatbEntries, i \notin consumed PROVE FALSE
  <2>1. PICK e, n, v : e = prefix[i].event /\ n = prefix[i].occ /\ v \in Values(i)
    BY DEF Values
  <2>2. Leads(i, e, n, v, x)
    BY <1>1, <2>1 DEF ReplayInv, OnTheWay, WayTo
  <2>3. Waits(e, n, v, x) \/ \E c2 : Goes(i, x, c2)
    BY <2>2 DEF Leads, Way
  <2> QED
    BY <2>1, <2>3
<1> QED
  BY <1>1 DEF Exhausted, CatbEntries

\* At a question without an answer, and at the end of the turn.
LEMMA PauseExhausted ==
    ASSUME TypeOK, ReplayInv, at \in Point, NEW d, MeetsFacts(d), d.channel = "A",
           cursor[d.event] = Cardinality(Queue(d.event))
    PROVE  Exhausted
<1>1. PICK x : x = Now
  OBVIOUS
<1>2. x.occ = occ /\ x.cursor = cursor
  BY <1>1, NowFields
<1>3. \A e, n, v : ~Waits(e, n, v, x)
  BY <1>1, EventMet DEF Waits, AtDraw
<1>4. ASSUME NEW m, NEW c2, Goes(m, x, c2) PROVE FALSE
  <2>1. PICK j : Told(d, j, x, c2)
    BY <1>1, <1>4, EventMet DEF Goes, Decided, Certain, Forced
  <2>2. j \in Answer(d.event, cursor[d.event])
    BY <1>2, <2>1 DEF Told
  <2>3. cursor[d.event] \in Nat /\ cursor[d.event] < Cardinality(Queue(d.event))
    BY <2>2, AnswerFacts
  <2> QED
    BY <2>3
<1>5. Replaying
  BY DEF MeetsFacts, Replaying
<1> QED
  BY <1>1, <1>3, <1>4, <1>5, AllConsumed

LEMMA EndExhausted ==
    ASSUME TypeOK, ReplayInv, Replaying, at \notin Point
    PROVE  Exhausted
<1>1. PICK x : x = Now
  OBVIOUS
<1>2. ~IsKnown(x)
  BY <1>1, NowFields DEF IsKnown
<1> QED
  BY <1>1, <1>2, AllConsumed DEF Waits, AtDraw, Goes

LEMMA PauseStep ==
    ASSUME TypeOK, Shape, ReplayInv, at \in Point, NEW d \in setup.draws[at],
           NEW v \in Options(d), AskPauses(d, v)
    PROVE  ReplayInv' /\ pc' # "diverged"
<1>1. /\ d.channel = "A" /\ cursor[d.event] = Cardinality(Queue(d.event)) /\ Meets(d)
  BY DEF AskPauses
<1>2. d \in Draw /\ d.event \in Event /\ MeetsFacts(d) /\ opp \in 1..Len(setup.opps)
  BY <1>1, SetupFacts, DrawFacts, MeetsProgram DEF TypeOK, MeetsFacts, Shape
<1>3. Exhausted
  BY <1>1, <1>2, PauseExhausted
<1>4. PICK e : e = d.event
  OBVIOUS
<1>5. Extended("A", e, 0, Options(d))
  <2>1. Extend("A", d.event, 0, v, Options(d))
    BY <1>3 DEF AskPauses
  <2>2. Options(d) \in SUBSET (0..3) /\ 0 \in Nat /\ "A" \in {"A", "B"}
    BY <1>2, DrawFacts
  <2> QED
    BY <1>2, <1>4, <2>1, <2>2, ExtendTypes, Zenon
<1>6. PICK z \in PrefixEntry : z.channel = "A" /\ z.event = e /\ prefix' = Append(prefix, z)
  BY <1>5 DEF Extended
<1>7. ProgramGrows
  BY <1>2, EventMet
<1>8. Cardinality(Queue(e)) < Cardinality(Known("A", e)')
  <2>1. at \in Known("A", e)' /\ at \notin Passed("A", e)
    <3>1. at \in Known("A", e)'
      BY <1>1, <1>2, <1>4 DEF Known, MeetsFacts
    <3>2. at \notin Passed("A", e)
      BY PlaceFacts DEF Passed
    <3> QED
      BY <3>1, <3>2
  <2>2. Passed("A", e) \in SUBSET Known("A", e)'
    <3>1. ASSUME NEW q \in Passed("A", e) PROVE q \in Known("A", e)'
      <4> DEFINE k == <<opp, q>>
      <4>1. q \in Point /\ k \in DOMAIN program /\ program[k].channel = "A" /\ program[k].event = e
        BY DEF Passed, Known
      <4>2. opp' = opp /\ k \in DOMAIN program' /\ program'[k] = program[k]
        BY <1>7, <4>1 DEF ProgramGrows
      <4> QED
        BY <4>1, <4>2 DEF Known
    <3> QED
      BY <3>1
  <2>3. \A q \in Known("A", e)' : q \notin Passed("A", e)
            => Cardinality(Passed("A", e)) < Cardinality(Known("A", e)')
    BY <2>2, KnownSets, PartSize, Zenon
  <2>4. cursor[e] <= Cardinality(Passed("A", e)) /\ cursor[e] \in Nat
    BY <1>2, <1>4 DEF ReplayInv, LogCounted, Replaying, MeetsFacts, TypeOK
  <2>5. Cardinality(Passed("A", e)) \in Nat /\ Cardinality(Known("A", e)') \in Nat
    BY KnownSets
  <2> QED
    BY <1>1, <1>4, <2>1, <2>3, <2>4, <2>5
<1>9. EntriesInv'
  <2>1. PICK n : n = z.occ
    OBVIOUS
  <2> QED
    BY <1>6, <1>7, <1>8, <2>1, EntryAppended DEF ReplayInv, EntriesInv
<1>10. pc' = "dfs"
  BY <1>5 DEF Extended
<1> QED
  BY <1>9, <1>10, NotReplaying

LEMMA BranchStep ==
    ASSUME TypeOK, Shape, ReplayInv, NEW v \in 0..3, NEW i \in DOMAIN log, Branch(i, v)
    PROVE  ReplayInv' /\ pc' # "diverged"
<1>1. /\ i \in Unforced /\ log[i].event \in Event /\ pc = "scan" /\ pc' = "dfs"
      /\ \E x \in PrefixEntry :
            /\ x.channel = "B" /\ x.event = log[i].event /\ x.occ = Occurrence(i)
            /\ {x.val} \union x.todo = ExpandOptions(log[i].event, log[i].opts)
            /\ prefix' = Append(prefix, x)
      /\ UNCHANGED <<program, opp, turnVars, emitVars>>
  BY BranchFacts
<1>2. PICK e, n, o : e = log[i].event /\ n = Occurrence(i) /\ o = log[i].opts
  OBVIOUS
<1>3. PICK z \in PrefixEntry :
         /\ z.channel = "B" /\ z.event = e /\ z.occ = n
         /\ {z.val} \union z.todo = ExpandOptions(e, o) /\ prefix' = Append(prefix, z)
  BY <1>1, <1>2
<1>4. ProgramGrows
  BY <1>1 DEF ProgramGrows
<1>5. Replaying
  BY <1>1 DEF Replaying
<1>6. Injected(e, n) = {}
  BY <1>1, <1>2, <1>5 DEF ReplayInv, ForcedFirst
<1>7. ASSUME NEW m, NEW u \in {z.val} \union z.todo, m = Len(prefix) + 1
      PROVE  Leads(m, e, n, u, Start)
  <2>1. ComesToDraw(m, e, n, o)
    BY <1>1, <1>2, <1>5, <1>7 DEF ReplayInv, OnTheWay, WayTo
  <2>2. o \in (SUBSET (0..3)) \ {{}}
    BY <1>1, <1>2, LogFacts DEF BranchPoints
  <2>3. u \in o
    BY <1>3, <2>2, ExpandOptionsTypes
  <2> QED
    BY <2>1, <2>3, ComesLeads
<1>8. n < Cardinality(Known("B", e)')
  <2>1. occ[e] = Cardinality(OfEvent(e)) /\ occ[e] <= Cardinality(Passed("B", e)) /\ occ[e] \in Nat
    BY <1>1, <1>2, <1>5 DEF ReplayInv, LogCounted, OfEvent, TypeOK
  <2>2. i \in BranchPoints /\ i \in OfEvent(e)
    BY <1>1, <1>2 DEF Unforced, OfEvent
  <2> DEFINE S == {j \in Earlier(i) : log[j].event = log[i].event}
  <2>3. S \in SUBSET OfEvent(e) /\ i \notin S
    BY <1>2, <2>2, LogSets DEF OfEvent
  <2>4. \A j \in OfEvent(e) : j \notin S => Cardinality(S) < Cardinality(OfEvent(e))
    BY <2>3, OfEventSets, PartSize, Zenon
  <2>5. Cardinality(S) \in Nat
    BY <2>3, OfEventSets, PartSize, Zenon
  <2>6. n = Cardinality(S)
    BY <1>2 DEF Occurrence
  <2>7. /\ Cardinality(Passed("B", e)) <= Cardinality(Known("B", e))
        /\ Cardinality(Known("B", e)) <= Cardinality(Known("B", e)')
        /\ Cardinality(Passed("B", e)) \in Nat /\ Cardinality(Known("B", e)) \in Nat
        /\ Cardinality(Known("B", e)') \in Nat
    BY <1>4, KnownSets, KnownGrows
  <2> HIDE DEF S
  <2> QED
    BY <2>1, <2>2, <2>3, <2>4, <2>5, <2>6, <2>7
<1>9. EntriesInv'
  BY <1>2, <1>3, <1>4, <1>6, <1>7, <1>8, EntryAppended DEF ReplayInv, EntriesInv
<1> QED
  BY <1>1, <1>9, NotReplaying

LEMMA StartStep ==
    ASSUME TypeOK, ReplayInv, StartReplay
    PROVE  ReplayInv'
<1>1. /\ pc' = "turn" /\ at' = 1 /\ occ' = [e \in Event |-> 0] /\ cursor' = [e \in Event |-> 0]
      /\ log' = <<>> /\ consumed' = {} /\ UNCHANGED <<program, opp, prefix>>
  BY DEF StartReplay
<1>2. ProgramGrows
  BY <1>1 DEF ProgramGrows
<1>3. EntriesAreEvents' /\ EntriesAreReached'
  BY <1>1, <1>2, EntriesKept DEF ReplayInv
<1>4. BranchPoints' = {} /\ Unforced' = {} /\ CatbEntries' = CatbEntries
  BY <1>1, SamePrefix DEF BranchPoints, Unforced
<1>5. Cardinality({}) = 0
  BY FS_EmptySet
<1>6. LogCounted'
  <2>1. \A e \in Event : occ'[e] = 0 /\ cursor'[e] = 0
    BY <1>1
  <2>2. \A e : OfEvent(e)' = {}
    BY <1>4 DEF OfEvent
  <2>3. \A e \in Event : occ'[e] = Cardinality(OfEvent(e)')
    BY <1>5, <2>1, <2>2
  <2>4. \A e \in Event : /\ occ'[e] <= Cardinality(Passed("B", e)')
                         /\ cursor'[e] <= Cardinality(Passed("A", e)')
    BY <2>1, KnownSets
  <2>5. {i \in CatbEntries : prefix[i].occ < occ'[prefix[i].event]} = {}
    BY <2>1, CatbEntryFacts
  <2> QED
    BY <1>1, <1>4, <2>3, <2>4, <2>5 DEF LogCounted, OfEvent
<1>7. ForcedFirst'
  BY <1>1, <1>4 DEF ForcedFirst
<1>8. PICK y : y = Start
  OBVIOUS
<1>9. y = Now'
  BY <1>1, <1>8 DEF Now, Start
<1>10. WayTo(y)'
  <2>1. ASSUME NEW e, NEW n, NEW v, NEW i \in CatbEntries' \ consumed',
               e = prefix'[i].event, n = prefix'[i].occ, v \in Values(i)'
        PROVE  Leads(i, e, n, v, y)'
    <3>1. i \in CatbEntries /\ e = prefix[i].event /\ n = prefix[i].occ /\ v \in Values(i)
      BY <1>1, <1>4, <2>1 DEF Values
    <3>2. Leads(i, e, n, v, y) /\ i \in Nat /\ SameBefore(i)
      BY <1>1, <1>8, <3>1, CatbEntryFacts, SamePrefix DEF ReplayInv, EntriesAreReached
    <3> QED
      BY <1>2, <3>2, LeadsKept
  <2>2. ASSUME NEW m PROVE Comes(m, y)'
    <3>1. Road(m, y, {y})'
      BY DEF Road
    <3>2. Start' = y
      BY <1>8 DEF Start
    <3> QED
      BY <3>1, <3>2 DEF Comes
  <2> QED
    BY <1>4, <2>1, <2>2 DEF WayTo
<1>11. OnTheWay'
  BY <1>9, <1>10, WayNow
<1> QED
  BY <1>3, <1>6, <1>7, <1>11 DEF ReplayInv

\* What the replay has reached may be read without being changed.
LEMMA StillInv ==
    ASSUME TypeOK, ReplayInv, UNCHANGED <<program, opp, prefix, turnVars>>, Replaying' => Replaying
    PROVE  ReplayInv'
<1>1. program' = program /\ opp' = opp /\ prefix' = prefix
  OBVIOUS
<1>5. ProgramGrows
  BY <1>1 DEF ProgramGrows
<1>6. EntriesAreEvents' /\ EntriesAreReached'
  BY <1>1, <1>5, EntriesKept DEF ReplayInv
<1>7. /\ at' = at /\ occ' = occ /\ cursor' = cursor /\ log' = log /\ consumed' = consumed
      /\ opp' = opp /\ program' = program /\ prefix' = prefix
  BY DEF turnVars
<1>8. /\ BranchPoints' = BranchPoints /\ Unforced' = Unforced /\ CatbEntries' = CatbEntries
      /\ \A i : Occurrence(i)' = Occurrence(i)
  BY <1>7 DEF BranchPoints, Unforced, Earlier, CatbEntries, CatbCount, Occurrence
<1>9. LogCounted'
  <2>1. \A e : OfEvent(e)' = OfEvent(e)
    BY <1>7, <1>8 DEF OfEvent
  <2>2. \A e : Passed("B", e)' = Passed("B", e) /\ Passed("A", e)' = Passed("A", e)
    BY <1>7 DEF Passed, Known
  <2>3. ASSUME Replaying
        PROVE  /\ \A e \in Event : occ[e] = Cardinality(OfEvent(e))
               /\ consumed = {i \in CatbEntries : prefix[i].occ < occ[prefix[i].event]}
               /\ \A e \in Event : /\ occ[e] <= Cardinality(Passed("B", e))
                                    /\ cursor[e] <= Cardinality(Passed("A", e))
    BY <2>3, Zenon DEF ReplayInv, LogCounted, OfEvent
  <2>4. ASSUME Replaying', NEW e \in Event PROVE occ'[e] = Cardinality(OfEvent(e)')
    BY <1>7, <2>1, <2>3, <2>4
  <2>5. ASSUME Replaying'
        PROVE  consumed' = {i \in CatbEntries' : prefix'[i].occ < occ'[prefix'[i].event]}
    BY <1>7, <1>8, <2>3, <2>5
  <2>6. ASSUME Replaying', NEW e \in Event
        PROVE  occ'[e] <= Cardinality(Passed("B", e)') /\ cursor'[e] <= Cardinality(Passed("A", e)')
    BY <1>7, <2>2, <2>3, <2>6
  <2> QED
    BY <2>4, <2>5, <2>6, Zenon DEF LogCounted, OfEvent
<1>10. ForcedFirst'
  BY <1>7, <1>8 DEF ReplayInv, ForcedFirst, Injected
<1>11. PICK x : x = Now
  OBVIOUS
<1>12. x = Now' /\ (Replaying' => WayTo(x))
  BY <1>7, <1>11 DEF Now, ReplayInv, OnTheWay
<1>13. ASSUME Replaying' PROVE WayTo(x)'
  <2>1. ASSUME NEW e, NEW n, NEW v, NEW i \in CatbEntries' \ consumed',
               e = prefix'[i].event, n = prefix'[i].occ, v \in Values(i)'
        PROVE  Leads(i, e, n, v, x)'
    <3>1. /\ i \in CatbEntries /\ i \notin consumed /\ e = prefix[i].event /\ n = prefix[i].occ
          /\ v \in Values(i)
      BY <1>7, <1>8, <2>1 DEF Values
    <3>2. Leads(i, e, n, v, x) /\ i \in Nat /\ SameBefore(i)
      BY <1>7, <1>12, <1>13, <3>1, CatbEntryFacts, SamePrefix DEF WayTo
    <3> QED
      BY <1>5, <3>2, LeadsKept
  <2>2. ASSUME NEW m, m = Len(prefix') + 1 PROVE m = Len(prefix) + 1 /\ m \in Nat /\ SameBefore(m)
    BY <1>7, <2>2, PositionSets, SamePrefix
  <2>3. ASSUME NEW m, m = Len(prefix') + 1, Unforced' = {} PROVE Comes(m, x)'
    <3>1. Comes(m, x) /\ m \in Nat /\ SameBefore(m)
      BY <1>8, <1>12, <1>13, <2>2, <2>3 DEF WayTo
    <3> QED
      BY <1>5, <3>1, ComesKept
  <2>4. ASSUME NEW m, NEW e, NEW n, NEW o, m = Len(prefix') + 1,
               NEW i \in Unforced', e = log'[i].event, n = Occurrence(i)', o = log'[i].opts
        PROVE  ComesToDraw(m, e, n, o)'
    <3>1. i \in Unforced /\ e = log[i].event /\ n = Occurrence(i) /\ o = log[i].opts
      BY <1>7, <1>8, <2>4
    <3>2. ComesToDraw(m, e, n, o) /\ m \in Nat /\ SameBefore(m)
      BY <1>12, <1>13, <2>2, <2>4, <3>1 DEF WayTo
    <3> QED
      BY <1>5, <3>2, ComesToDrawKept
  <2> QED
    BY <2>1, <2>3, <2>4 DEF WayTo
<1>14. OnTheWay'
  BY <1>12, <1>13, WayNow DEF OnTheWay
<1> QED
  BY <1>6, <1>9, <1>10, <1>14 DEF ReplayInv

\* The turn has ended, and every injection was consumed.
LEMMA EndStep ==
    ASSUME TypeOK, ReplayInv, TurnEnds
    PROVE  ReplayInv' /\ pc' # "diverged"
<1>1. /\ pc = "turn" /\ at \notin Point /\ Replaying
      /\ UNCHANGED <<program, opp, prefix, turnVars>>
  BY DEF TurnEnds, Replaying
<1>2. Exhausted
  BY <1>1, EndExhausted
<1>3. pc' # "diverged"
  BY <1>2 DEF TurnEnds
<1> QED
  BY <1>1, <1>3, StillInv

\* The steps between replays.
LEMMA SearchStep ==
    ASSUME TypeOK, Shape, ReplayInv, pc # "diverged",
           \/ NextOpp \/ StepReturns \/ TooDeep \/ StopAtBudget \/ PopBack \/ DfsReturns
           \/ \E cont \in BOOLEAN : Emit(cont)
           \/ \E v \in 0..3 : TryNext(v)
    PROVE  ReplayInv' /\ pc' # "diverged"
<1>1. EntriesInv /\ prefix \in Seq(PrefixEntry) /\ Len(prefix) \in Nat
  BY PositionSets DEF ReplayInv, EntriesInv, TypeOK
<1>2. CASE NextOpp
  <2>1. prefix' = <<>> /\ pc' \in {"start", "dfs"}
    BY <1>2 DEF NextOpp, Shape
  <2> QED
    BY <2>1, NoEntries, NotReplaying
<1>3. CASE StepReturns \/ TooDeep \/ StopAtBudget \/ DfsReturns \/ \E cont \in BOOLEAN : Emit(cont)
  <2>1. /\ UNCHANGED <<program, opp, prefix>>
        /\ pc' \notin {"turn", "scan", "diverged"}
    BY <1>3 DEF StepReturns, TooDeep, StopAtBudget, DfsReturns, Emit
  <2>2. ProgramGrows
    BY <2>1 DEF ProgramGrows
  <2>3. \A i : Values(i)' = Values(i)
    BY <2>1 DEF Values
  <2>4. EntriesInv'
    BY <1>1, <2>1, <2>2, <2>3, EntriesCut
  <2> QED
    BY <2>1, <2>4, NotReplaying
<1>4. CASE PopBack
  <2>1. /\ prefix' = Front(prefix) /\ prefix # <<>> /\ pc' = "back"
        /\ UNCHANGED <<program, opp>>
    BY <1>4 DEF PopBack
  <2>2. ProgramGrows
    BY <2>1 DEF ProgramGrows
  <2>3. /\ prefix' \in Seq(PrefixEntry) /\ Len(prefix') <= Len(prefix)
        /\ \A i \in 1..Len(prefix') : prefix'[i] = prefix[i] /\ Values(i)' = Values(i)
    BY <1>1, <2>1 DEF Front, Values
  <2>4. EntriesInv'
    BY <1>1, <2>2, <2>3, EntriesCut
  <2> QED
    BY <2>1, <2>4, NotReplaying
<1>5. ASSUME NEW v \in 0..3, TryNext(v) PROVE ReplayInv' /\ pc' # "diverged"
  <2>1. UNCHANGED <<program, opp>> /\ pc' = "dfs"
    BY <1>5 DEF TryNext
  <2>2. ProgramGrows
    BY <2>1 DEF ProgramGrows
  <2>3. /\ prefix' \in Seq(PrefixEntry) /\ Len(prefix') = Len(prefix)
        /\ \A i \in 1..(Len(prefix) - 1) : prefix'[i] = prefix[i]
        /\ prefix'[Len(prefix)].channel = prefix[Len(prefix)].channel
        /\ prefix'[Len(prefix)].event = prefix[Len(prefix)].event
        /\ prefix'[Len(prefix)].occ = prefix[Len(prefix)].occ
        /\ v \in prefix[Len(prefix)].todo /\ prefix'[Len(prefix)].val = v
        /\ prefix'[Len(prefix)].todo = prefix[Len(prefix)].todo \ {v}
    BY <1>5, NextEntry
  <2>4. \A i \in 1..Len(prefix') :
           /\ prefix'[i].channel = prefix[i].channel /\ prefix'[i].event = prefix[i].event
           /\ prefix'[i].occ = prefix[i].occ
           /\ i < Len(prefix') => prefix'[i].val = prefix[i].val
           /\ Values(i)' \subseteq Values(i)
    <3>1. \A i \in 1..Len(prefix') : i = Len(prefix) \/ i \in 1..(Len(prefix) - 1)
      BY <1>1, <2>3
    <3>2. \A i \in 1..(Len(prefix) - 1) : Values(i)' = Values(i)
      BY <2>3 DEF Values
    <3>3. Values(Len(prefix))' \subseteq Values(Len(prefix))
      BY <2>3 DEF Values
    <3> QED
      BY <1>1, <2>3, <3>1, <3>2, <3>3
  <2>5. EntriesInv'
    BY <1>1, <2>2, <2>3, <2>4, EntriesCut
  <2> QED
    BY <2>1, <2>5, NotReplaying
<1> QED
  BY <1>2, <1>3, <1>4, <1>5

-----------------------------------------------------------------------------
(* The bound on the prefix: its entries are for different events.           *)

\* The events of a finite set can be numbered.
LEMMA Numbering ==
    ASSUME NEW S, IsFiniteSet(S)
    PROVE  \E f \in [1..Cardinality(S) -> S] :
              \A a, b \in 1..Cardinality(S) : f[a] = f[b] => a = b
<1>1. ExistsBijection(1..Cardinality(S), S)
  BY FS_CardinalityType, Zenon
<1> QED
  BY <1>1 DEF ExistsBijection, Bijection, Injection, IsInjective

LEMMA Crowded ==
    ASSUME NEW m \in Nat, NEW n \in Nat, m < n, NEW f \in [1..n -> 1..m]
    PROVE  \E i, j \in 1..n : i # j /\ f[i] = f[j]
<1>1. 1 \in Int /\ m \in Int /\ n \in Int
  OBVIOUS
<1>2. /\ IsFiniteSet(1..n) /\ Cardinality(1..n) = IF 1 > n THEN 0 ELSE n - 1 + 1
      /\ IsFiniteSet(1..m) /\ Cardinality(1..m) = IF 1 > m THEN 0 ELSE m - 1 + 1
  BY <1>1, FS_Interval, Zenon
<1>3. Cardinality(1..m) < Cardinality(1..n)
  BY <1>2
<1> QED
  BY <1>2, <1>3, FS_PigeonHole, Zenon

\* The number of an entry among those of its channel and event.
NumberOf(i) == IF prefix[i].channel = "B" THEN prefix[i].occ ELSE Cardinality(Ahead(i))

LEMMA EntryNumbers ==
    ASSUME TypeOK, EntriesAreEvents, NEW i \in DOMAIN prefix, NEW ch, NEW e,
           ch = prefix[i].channel, e = prefix[i].event
    PROVE  /\ NumberOf(i) \in Nat /\ NumberOf(i) < Cardinality(Known(ch, e))
           /\ \A j \in DOMAIN prefix :
                 /\ prefix[j].channel = ch /\ prefix[j].event = e
                 /\ NumberOf(j) = NumberOf(i)
                 => j = i
<1>1. /\ Len(prefix) \in Nat /\ DOMAIN prefix = 1..Len(prefix)
      /\ ch \in {"A", "B"} /\ e \in Event /\ prefix[i].occ \in Nat
  BY EntryFacts DEF TypeOK
<1>2. CASE ch = "B"
  <2>1. i \in CatbEntries /\ NumberOf(i) = prefix[i].occ
    BY <1>2 DEF CatbEntries, NumberOf
  <2>2. \A j \in DOMAIN prefix : prefix[j].channel = ch
            => j \in CatbEntries /\ NumberOf(j) = prefix[j].occ
    BY <1>2 DEF CatbEntries, NumberOf
  <2>3. prefix[i].occ < Cardinality(Known("B", e))
    BY <1>1, <2>1 DEF EntriesAreEvents
  <2>4. \A j \in CatbEntries : prefix[j].event = e /\ prefix[j].occ = prefix[i].occ => j = i
    BY <2>1 DEF EntriesAreEvents
  <2> QED
    BY <1>1, <1>2, <2>1, <2>2, <2>3, <2>4
<1>3. CASE ch = "A"
  <2>1. i \in Queue(e) /\ NumberOf(i) = Cardinality(Ahead(i))
    BY <1>3 DEF Queue, NumberOf
  <2>2. \A j \in DOMAIN prefix : prefix[j].channel = ch /\ prefix[j].event = e
            => j \in Queue(e) /\ NumberOf(j) = Cardinality(Ahead(j))
    BY <1>3 DEF Queue, NumberOf
  <2>3. Cardinality(Ahead(i)) < Cardinality(Known("A", e)) /\ Cardinality(Ahead(i)) \in Nat
    BY <1>1, <2>1, QueueOrder DEF EntriesAreEvents
  <2>4. ASSUME NEW j \in Queue(e), Cardinality(Ahead(j)) = Cardinality(Ahead(i)) PROVE j = i
    <3>1. i \in Answer(e, Cardinality(Ahead(i))) /\ j \in Answer(e, Cardinality(Ahead(i)))
      BY <2>1, <2>4 DEF Answer
    <3> QED
      BY <3>1, AnswerFacts, Zenon
  <2> QED
    BY <1>3, <2>1, <2>2, <2>3, <2>4
<1> QED
  BY <1>1, <1>2, <1>3

\* Entries are numbered within the known events of their kind, so that each
\* can be given an event of its own.
LEMMA EntriesFit ==
    ASSUME TypeOK, EntriesAreEvents
    PROVE  Len(prefix) <= Events
<1> DEFINE Size(ch, e) == Cardinality(Known(ch, e))
           Numbered(ch, e, f) == \A a, b \in 1..Size(ch, e) : f[a] = f[b] => a = b
           Num(ch, e) == CHOOSE f \in [1..Size(ch, e) -> Known(ch, e)] : Numbered(ch, e, f)
           Slot(i) == Num(prefix[i].channel, prefix[i].event)[NumberOf(i) + 1]
<1>1. Len(prefix) \in Nat /\ DOMAIN prefix = 1..Len(prefix)
  BY PositionSets
<1>2. \A ch, e : Num(ch, e) \in [1..Size(ch, e) -> Known(ch, e)] /\ Numbered(ch, e, Num(ch, e))
  <2> SUFFICES ASSUME NEW ch, NEW e
               PROVE  Num(ch, e) \in [1..Size(ch, e) -> Known(ch, e)] /\ Numbered(ch, e, Num(ch, e))
    OBVIOUS
  <2>1. \E f \in [1..Size(ch, e) -> Known(ch, e)] : Numbered(ch, e, f)
    BY KnownSets, Numbering
  <2> HIDE DEF Numbered
  <2> QED
    BY <2>1, Zenon
<1> HIDE DEF Num
<1>3. ASSUME NEW i \in DOMAIN prefix, NEW ch, NEW e,
             ch = prefix[i].channel, e = prefix[i].event
      PROVE  /\ NumberOf(i) \in Nat /\ NumberOf(i) + 1 \in 1..Size(ch, e)
             /\ Slot(i) = Num(ch, e)[NumberOf(i) + 1] /\ Slot(i) \in Known(ch, e)
  <2>1. NumberOf(i) \in Nat /\ NumberOf(i) < Size(ch, e)
    BY <1>3, EntryNumbers
  <2>2. Size(ch, e) \in Nat
    BY KnownSets
  <2> QED
    BY <1>2, <1>3, <2>1, <2>2
<1>4. ASSUME NEW i \in DOMAIN prefix, NEW j \in DOMAIN prefix, Slot(i) = Slot(j)
      PROVE  j = i
  <2>1. PICK ch, e : ch = prefix[i].channel /\ e = prefix[i].event
    OBVIOUS
  <2>2. PICK ch2, e2 : ch2 = prefix[j].channel /\ e2 = prefix[j].event
    OBVIOUS
  <2>3. Slot(i) \in Known(ch, e) /\ Slot(i) \in Known(ch2, e2)
    BY <1>3, <1>4, <2>1, <2>2
  <2>4. ch2 = ch /\ e2 = e
    BY <2>3 DEF Known
  <2>5. /\ NumberOf(i) + 1 \in 1..Size(ch, e) /\ NumberOf(j) + 1 \in 1..Size(ch, e)
        /\ NumberOf(i) \in Nat /\ NumberOf(j) \in Nat
        /\ Slot(i) = Num(ch, e)[NumberOf(i) + 1] /\ Slot(j) = Num(ch, e)[NumberOf(j) + 1]
    BY <1>3, <2>1, <2>2, <2>4
  <2>6. NumberOf(i) + 1 = NumberOf(j) + 1
    BY <1>2, <1>4, <2>5
  <2>7. NumberOf(j) = NumberOf(i)
    BY <2>5, <2>6
  <2>8. \A k \in DOMAIN prefix :
           /\ prefix[k].channel = ch /\ prefix[k].event = e
           /\ NumberOf(k) = NumberOf(i)
           => k = i
    BY <2>1, EntryNumbers
  <2> QED
    BY <2>2, <2>4, <2>7, <2>8
<1>5. ASSUME Len(prefix) > Events PROVE FALSE
  <2>1. Events \in Nat /\ Point = 1..Events
    BY OracleAssumption DEF Point
  <2>2. \A i \in 1..Len(prefix) : Slot(i) \in 1..Events
    BY <1>1, <1>3, <2>1 DEF Known
  <2> HIDE DEF Slot
  <2>3. PICK f : f = [i \in 1..Len(prefix) |-> Slot(i)]
    OBVIOUS
  <2>4. f \in [1..Len(prefix) -> 1..Events]
    BY <2>2, <2>3
  <2>5. PICK i \in 1..Len(prefix), j \in 1..Len(prefix) : i # j /\ f[i] = f[j]
    BY <1>1, <1>5, <2>1, <2>4, Crowded
  <2> QED
    BY <1>1, <1>4, <2>3, <2>5
<1> QED
  BY <1>1, <1>5, OracleAssumption

-----------------------------------------------------------------------------
(* Every replay consumes its prefix.                                        *)

LEMMA ReplayInit == Init => ReplayInv /\ pc # "diverged"
<1> SUFFICES ASSUME Init PROVE ReplayInv /\ pc # "diverged"
  OBVIOUS
<1>1. prefix = <<>> /\ pc = "start"
  BY DEF Init
<1>2. EntriesAreEvents /\ EntriesAreReached
  BY <1>1 DEF EntriesAreEvents, EntriesAreReached, CatbEntries, Queue
<1> QED
  BY <1>1, <1>2 DEF ReplayInv, LogCounted, ForcedFirst, OnTheWay, Replaying

LEMMA ReplayNext ==
    ASSUME TypeOK, Shape, ReplayInv, pc # "diverged", [Next]_vars
    PROVE  ReplayInv' /\ pc' # "diverged"
<1>1. CASE UNCHANGED vars
  <2>1. UNCHANGED <<program, opp, prefix, turnVars>> /\ pc' = pc
    BY <1>1 DEF vars
  <2> QED
    BY <2>1, StillInv DEF Replaying
<1>2. CASE StartReplay
  BY <1>2, StartStep DEF StartReplay
<1>3. CASE TurnEnds
  BY <1>3, EndStep
<1>4. CASE ReplayStep
  <2>1. PICK d \in setup.draws[at] :
            /\ at \in Point
            /\ \/ DrawSaturated(d) \/ DrawDefault(d)
               \/ \E i \in DOMAIN prefix : DrawForced(d, i) \/ AskAnswered(d, i)
               \/ \E v \in Options(d) : AskPauses(d, v)
    BY <1>4 DEF ReplayStep
  <2>2. CASE DrawSaturated(d)
    BY <2>1, <2>2, SaturatedStep DEF DrawSaturated
  <2>3. CASE DrawDefault(d)
    BY <2>1, <2>3, DefaultStep DEF DrawDefault
  <2>4. ASSUME NEW i \in DOMAIN prefix, DrawForced(d, i) PROVE ReplayInv' /\ pc' # "diverged"
    BY <2>1, <2>4, ForcedStep DEF DrawForced
  <2>5. ASSUME NEW i \in DOMAIN prefix, AskAnswered(d, i) PROVE ReplayInv' /\ pc' # "diverged"
    BY <2>1, <2>5, AnsweredStep DEF AskAnswered
  <2>6. ASSUME NEW v \in Options(d), AskPauses(d, v) PROVE ReplayInv' /\ pc' # "diverged"
    BY <2>1, <2>6, PauseStep
  <2> QED
    BY <2>1, <2>2, <2>3, <2>4, <2>5, <2>6
<1>5. ASSUME NEW v \in 0..3, NEW i \in DOMAIN log, Branch(i, v)
      PROVE  ReplayInv' /\ pc' # "diverged"
  BY <1>5, BranchStep
<1> QED
  BY <1>1, <1>2, <1>3, <1>4, <1>5, SearchStep DEF Next

\* NeverDiverges holds for every turn, mode and depth limit: verify_exhausted
\* never throws, although answers are queued while draws before them still
\* have their default, and the depth limit is only reached by a turn that has
\* more random events than the limit.
THEOREM ReplayNeverDiverges == Spec => []NeverDiverges
<1> DEFINE Inv == TypeOK /\ Shape /\ ReplayInv /\ pc # "diverged"
<1>1. Init => Inv
  BY TypeInit, ReplayInit
<1>2. Inv /\ [Next]_vars => Inv'
  BY TypeNext, ReplayNext
<1>3. Inv => NeverDiverges
  <2> SUFFICES ASSUME Inv, pc = "toodeep" PROVE setup.max_depth < Events
    BY DEF NeverDiverges
  <2>1. Len(prefix) > setup.max_depth
    BY DEF Shape
  <2>2. Len(prefix) <= Events /\ Len(prefix) \in Nat
    BY EntriesFit, PositionSets DEF ReplayInv
  <2>3. setup.max_depth \in Nat /\ Events \in Nat
    BY SetupFacts, OracleAssumption DEF TypeOK
  <2> QED
    BY <2>1, <2>2, <2>3
<1> HIDE DEF Inv
<1> QED
  BY <1>1, <1>2, <1>3, PTL DEF Spec

-----------------------------------------------------------------------------
(* Only what the turn can come to is reached and emitted.                   *)

Grown == \A k \in DOMAIN program : k \in DOMAIN program' /\ program'[k] = program[k]

LEMMA FollowKept ==
    ASSUME Grown, NEW o, NEW p, NEW x, CanFollow(o, p, x)
    PROVE  CanFollow(o, p, x)'
<1> DEFINE k == <<o, p>>
<1>1. k \in DOMAIN program /\ \E v \in Options(program[k]) : program[k].next[v] = x
  BY DEF CanFollow
<1>2. k \in DOMAIN program' /\ program'[k] = program[k]
  BY <1>1 DEF Grown
<1> QED
  BY <1>1, <1>2 DEF CanFollow

Backed(o, R) == \A p \in R : p = 1 \/ \E q \in R : CanFollow(o, q, p)

LEMMA ComeFacts ==
    ASSUME NEW o
    PROVE  /\ \A p : p \in CanCome(o) <=> \E R \in SUBSET Point : p \in R /\ Backed(o, R)
           /\ 1 \in CanCome(o) /\ CanCome(o) \subseteq Point
<1>1. \A p : p \in CanCome(o) <=> \E R \in SUBSET Point : p \in R /\ Backed(o, R)
  BY DEF CanCome, Backed
<1>2. {1} \in SUBSET Point /\ Backed(o, {1})
  BY PlaceFacts DEF Backed
<1> QED
  BY <1>1, <1>2

LEMMA ComeKept ==
    ASSUME Grown, NEW o
    PROVE  CanCome(o) \subseteq CanCome(o)'
<1> SUFFICES ASSUME NEW p \in CanCome(o) PROVE p \in CanCome(o)'
  OBVIOUS
<1>1. PICK R \in SUBSET Point : p \in R /\ Backed(o, R)
  BY ComeFacts
<1>2. Backed(o, R)'
  BY <1>1, FollowKept DEF Backed
<1> QED
  BY <1>1, <1>2 DEF CanCome, Backed

\* What follows an event the turn can come to.
LEMMA ComeOn ==
    ASSUME NEW o, NEW p \in CanCome(o), NEW q \in Point, CanFollow(o, p, q)
    PROVE  q \in CanCome(o)
<1>1. PICK R \in SUBSET Point : p \in R /\ Backed(o, R)
  BY ComeFacts
<1> DEFINE S == R \union {q}
<1>2. S \in SUBSET Point /\ q \in S /\ Backed(o, S)
  BY <1>1 DEF Backed
<1> QED
  BY <1>2, ComeFacts

LEMMA SupportKept ==
    ASSUME Grown, call' = call
    PROVE  Support \subseteq Support'
<1> SUFFICES ASSUME NEW c \in Support PROVE c \in Support'
  OBVIOUS
<1>1. PICK o \in Played : \E p \in CanCome(o) : CanFollow(o, p, c)
  BY DEF Support
<1>2. PICK p \in CanCome(o) : CanFollow(o, p, c)
  BY <1>1
<1>3. p \in CanCome(o)' /\ CanFollow(o, p, c)'
  BY <1>2, ComeKept, FollowKept
<1>4. Played' = Played /\ c \in Child
  BY DEF Played, setup, Support
<1> QED
  BY <1>3, <1>4 DEF Support

\* A replay stands where the turn can come to, with the AI's action being one it
\* may take; what is recorded as answers to a question can be answered to it.
Came(o, x) == x = 1 \/ \E p \in CanCome(o) : CanFollow(o, p, x)
Fits(S, ch, e, vs) ==
    ch = "A" => \A p \in Point : \A d \in S.draws[p] :
                    d.channel = "A" /\ d.event = e => vs \subseteq Options(d)
AnswersFit ==
    \A i \in DOMAIN prefix : Fits(setup, prefix[i].channel, prefix[i].event, Values(i))
Searching == pc \in {"dfs", "turn", "scan", "back"}
PossibleInv ==
    /\ AnswersFit
    /\ Replaying => Came(opp, at)
    /\ Searching => opp \in Played
    /\ seen \subseteq Support

LEMMA CameKept ==
    ASSUME Grown, NEW o, NEW x, Came(o, x)
    PROVE  Came(o, x)'
<1>1. CASE x = 1
  BY <1>1 DEF Came
<1>2. ASSUME NEW p \in CanCome(o), CanFollow(o, p, x) PROVE Came(o, x)'
  BY <1>2, ComeKept, FollowKept DEF Came
<1> QED
  BY <1>1, <1>2 DEF Came

\* The options of a question fit it: this is what FixedOptions says.
LEMMA QuestionFits ==
    ASSUME FixedOptions, TypeOK, NEW p \in Point, NEW d \in setup.draws[p], d.channel = "A"
    PROVE  Fits(setup, "A", d.event, Options(d))
<1>1. call \in DOMAIN Setups /\ setup = Setups[call]
  BY DEF TypeOK, setup
<1> SUFFICES ASSUME NEW q \in Point, NEW d2 \in setup.draws[q],
                    d2.channel = "A", d2.event = d.event
             PROVE  Options(d) \subseteq Options(d2)
  BY DEF Fits
<1> QED
  BY <1>1 DEF FixedOptions

\* A step by one of the options of the event.
LEMMA MoveCame ==
    ASSUME TypeOK, PossibleInv, NEW d \in Draw, MeetsFacts(d), NEW v \in Options(d),
           at' = Follow(d, v)
    PROVE  (\A x : x = at' => Came(opp, x)') /\ Grown
<1>1. /\ at \in Point /\ pc = "turn" /\ opp' = opp
      /\ <<opp, at>> \in DOMAIN program' /\ program'[<<opp, at>>] = d /\ Grown
  BY DEF MeetsFacts, Grown
<1>2. PICK o, p : o = opp /\ p = at
  OBVIOUS
<1>3. Came(o, p) /\ p \in Point
  BY <1>1, <1>2 DEF PossibleInv, Replaying
<1>4. p \in CanCome(o)
  BY <1>3, ComeFacts, ComeOn DEF Came
<1>5. p \in CanCome(o)'
  BY <1>1, <1>4, ComeKept
<1>6. ASSUME NEW x, x = at' PROVE Came(opp, x)'
  <2>1. CanFollow(o, p, x)'
    <3>1. d.next[v] = x
      BY <1>6 DEF Follow
    <3>2. <<o, p>> \in DOMAIN program' /\ program'[<<o, p>>] = d
      BY <1>1, <1>2
    <3> QED
      BY <3>1, <3>2 DEF CanFollow
  <2>2. Came(o, x)'
    BY <1>5, <2>1 DEF Came
  <2>3. o = opp'
    BY <1>1, <1>2
  <2> QED
    BY <2>2, <2>3
<1> QED
  BY <1>1, <1>6

\* An injected value is an option of the draw it is injected into.
LEMMA ForcedFits ==
    ASSUME TypeOK, ReplayInv, NEW d \in Draw, MeetsFacts(d), NEW i \in DOMAIN prefix,
           DrawForced(d, i)
    PROVE  prefix[i].val \in Options(d)
<1>1. /\ d.channel = "B" /\ ~Saturated(Options(d)) /\ i \in Injected(d.event, occ[d.event])
      /\ d.event \in Event
  BY DrawFacts DEF DrawForced
<1>2. PICK x, e, n, v : x = Now /\ e = d.event /\ n = occ[d.event] /\ v = prefix[i].val
  OBVIOUS
<1>3. i \in CatbEntries /\ prefix[i].event = e /\ prefix[i].occ = n
  BY <1>1, <1>2 DEF Injected, CatbEntries
<1>4. Replaying
  BY DEF MeetsFacts, Replaying
<1>5. i \notin consumed
  <2>1. n \in Nat /\ ~(n < n)
    BY <1>1, <1>2 DEF TypeOK
  <2>2. i \in consumed => prefix[i].occ < occ[prefix[i].event]
    BY <1>4 DEF ReplayInv, LogCounted
  <2> QED
    BY <1>2, <1>3, <2>1, <2>2
<1>6. Leads(i, e, n, v, x)
  BY <1>2, <1>3, <1>4, <1>5 DEF ReplayInv, OnTheWay, WayTo, Values
<1>7. Waits(e, n, v, x) \/ \E c2 : Goes(i, x, c2)
  BY <1>6 DEF Leads, Way
<1>8. IsKnown(x) => DrawAt(x) = d
  BY <1>2, EventMet
<1>9. CASE Waits(e, n, v, x)
  BY <1>2, <1>8, <1>9 DEF Waits, AtDraw
<1>10. ASSUME NEW c2, Goes(i, x, c2) PROVE FALSE
  <2>1. Decided(i, d, x, c2)
    BY <1>8, <1>10 DEF Goes
  <2>2. PICK j \in DOMAIN prefix : j < i /\ Forced(d, j, x, c2)
    BY <1>1, <2>1 DEF Decided, Certain, Told
  <2>3. j \in Injected(d.event, occ[d.event])
    BY <1>2, <2>2, NowFields DEF Forced
  <2>4. j = i
    BY <1>1, <2>3 DEF Injected, ReplayInv, EntriesAreEvents, CatbEntries
  <2> QED
    BY <1>3, <2>2, <2>4, CatbEntryFacts
<1> QED
  BY <1>7, <1>9, <1>10

\* The search leaves the prefix, or cuts it back to entries of which the last may
\* have lost values.
Shorter ==
    /\ Len(prefix) \in Nat /\ DOMAIN prefix = 1..Len(prefix)
    /\ Len(prefix') \in Nat /\ DOMAIN prefix' = 1..Len(prefix')
    /\ Len(prefix') <= Len(prefix)
    /\ \A i \in 1..Len(prefix') :
          /\ prefix'[i].channel = prefix[i].channel /\ prefix'[i].event = prefix[i].event
          /\ Values(i)' \subseteq Values(i)

LEMMA SameValues ==
    ASSUME NEW i, prefix'[i] = prefix[i]
    PROVE  Values(i)' = Values(i)
BY DEF Values

LEMMA FrontFacts ==
    ASSUME NEW s \in Seq(PrefixEntry), s # <<>>
    PROVE  /\ Front(s) \in Seq(PrefixEntry) /\ Len(Front(s)) = Len(s) - 1
           /\ \A i \in 1..(Len(s) - 1) : Front(s)[i] = s[i]
<1>1. PICK n \in Nat : n = Len(s) - 1
  OBVIOUS
<1>2. Front(s) = SubSeq(s, 1, n) /\ n + 1 = Len(s)
  BY <1>1 DEF Front
<1>3. SubSeq(s, 1, n) \in Seq(PrefixEntry)
  BY <1>2
<1>4. Len(SubSeq(s, 1, n)) = n /\ \A i \in 1..n : SubSeq(s, 1, n)[i] = s[i]
  BY <1>2
<1> QED
  BY <1>1, <1>2, <1>3, <1>4

LEMMA SearchShorter ==
    ASSUME TypeOK, prefix' = prefix \/ PopBack \/ \E v \in 0..3 : TryNext(v)
    PROVE  Shorter
<1>1. /\ Len(prefix) \in Nat /\ DOMAIN prefix = 1..Len(prefix) /\ prefix \in Seq(PrefixEntry)
  BY PositionSets DEF TypeOK
<1>2. CASE prefix' = prefix
  BY <1>1, <1>2 DEF Shorter, Values
<1>3. CASE PopBack
  <2>1. /\ prefix' = Front(prefix) /\ prefix # <<>>
    BY <1>3 DEF PopBack
  <2>2. /\ prefix' \in Seq(PrefixEntry) /\ Len(prefix') = Len(prefix) - 1
        /\ \A i \in 1..(Len(prefix) - 1) : prefix'[i] = prefix[i]
    BY <1>1, <2>1, FrontFacts, Zenon
  <2>4. Len(prefix') <= Len(prefix) /\ \A i \in 1..Len(prefix') : prefix'[i] = prefix[i]
    BY <1>1, <2>2
  <2>3. Len(prefix') \in Nat /\ DOMAIN prefix' = 1..Len(prefix')
    BY <2>2, EntryFacts
  <2> QED
    BY <1>1, <2>3, <2>4, SameValues, Zenon DEF Shorter
<1>4. ASSUME NEW v \in 0..3, TryNext(v) PROVE Shorter
  <2>1. PICK n \in Nat : n = Len(prefix)
    BY <1>1
  <2>2. /\ prefix' \in Seq(PrefixEntry) /\ Len(prefix') = n
        /\ \A i \in 1..(n - 1) : prefix'[i] = prefix[i]
        /\ prefix'[n].channel = prefix[n].channel /\ prefix'[n].event = prefix[n].event
        /\ v \in prefix[n].todo /\ prefix'[n].val = v
        /\ prefix'[n].todo = prefix[n].todo \ {v}
    BY <1>4, <2>1, NextEntry
  <2>3. \A i \in 1..n : i = n \/ i \in 1..(n - 1)
    OBVIOUS
  <2>4. \A i \in 1..(n - 1) : Values(i)' = Values(i)
    BY <2>2, SameValues, Zenon
  <2>5. Values(n)' \subseteq Values(n)
    BY <2>2 DEF Values
  <2>6. Len(prefix') \in Nat /\ DOMAIN prefix' = 1..Len(prefix')
    BY <2>2, EntryFacts
  <2>7. \A i \in 1..n : /\ prefix'[i].channel = prefix[i].channel
                       /\ prefix'[i].event = prefix[i].event
                       /\ Values(i)' \subseteq Values(i)
    BY <2>2, <2>3, <2>4, <2>5
  <2>8. Len(prefix') <= Len(prefix)
    BY <1>1, <2>1, <2>2
  <2> QED
    BY <1>1, <2>1, <2>2, <2>6, <2>7, <2>8, Zenon DEF Shorter
<1> QED
  BY <1>2, <1>3, <1>4

LEMMA AnswersCut ==
    ASSUME AnswersFit, call' = call, Shorter
    PROVE  AnswersFit'
<1>1. setup' = setup
  BY DEF setup
<1>2. ASSUME NEW i \in DOMAIN prefix', NEW ch, NEW e, NEW vs,
             ch = prefix'[i].channel, e = prefix'[i].event, vs = Values(i)'
      PROVE  Fits(setup, ch, e, vs)
  <2>1. /\ i \in DOMAIN prefix /\ ch = prefix[i].channel /\ e = prefix[i].event
        /\ vs \subseteq Values(i)
    BY <1>2 DEF Shorter
  <2>2. Fits(setup, ch, e, Values(i))
    BY <2>1 DEF AnswersFit
  <2> QED
    BY <2>1, <2>2 DEF Fits
<1> QED
  BY <1>1, <1>2 DEF AnswersFit

LEMMA AnswersAppended ==
    ASSUME TypeOK, AnswersFit, call' = call, NEW z \in PrefixEntry, prefix' = Append(prefix, z),
           Fits(setup, z.channel, z.event, {z.val} \union z.todo)
    PROVE  AnswersFit'
<1>1. setup' = setup
  BY DEF setup
<1>2. PICK k : k = Len(prefix) + 1
  OBVIOUS
<1>3. /\ DOMAIN prefix = 1..(k - 1) /\ DOMAIN prefix' = 1..k /\ prefix'[k] = z /\ k \in Nat
      /\ \A i \in 1..(k - 1) : prefix'[i] = prefix[i]
  BY <1>2, PositionSets DEF TypeOK
<1>4. ASSUME NEW i \in DOMAIN prefix', NEW ch, NEW e, NEW vs,
             ch = prefix'[i].channel, e = prefix'[i].event, vs = Values(i)'
      PROVE  Fits(setup, ch, e, vs)
  <2>1. CASE i = k
    BY <1>3, <1>4, <2>1 DEF Values
  <2>2. CASE i \in 1..(k - 1)
    <3>1. i \in DOMAIN prefix /\ ch = prefix[i].channel /\ e = prefix[i].event /\ vs = Values(i)
      BY <1>3, <1>4, <2>2 DEF Values
    <3> QED
      BY <3>1 DEF AnswersFit
  <2> QED
    BY <1>3, <2>1, <2>2
<1> QED
  BY <1>1, <1>4 DEF AnswersFit

\* The steps that leave program, action and emitted children.
LEMMA PossibleStill ==
    ASSUME TypeOK, PossibleInv, call' = call, UNCHANGED <<program, opp, seen>>, AnswersFit',
           Replaying' => Replaying /\ at' = at, Searching' => Searching
    PROVE  PossibleInv'
<1>1. Grown
  BY DEF Grown
<1>2. Played' = Played
  BY DEF Played, setup
<1>3. ASSUME Replaying' PROVE Came(opp, at)'
  <2>1. PICK o, x : o = opp /\ x = at
    OBVIOUS
  <2>2. Came(o, x)
    BY <1>3, <2>1 DEF PossibleInv
  <2>3. Came(o, x)'
    BY <1>1, <2>2, CameKept
  <2> QED
    BY <1>3, <2>1, <2>3
<1>4. seen' \subseteq Support'
  BY <1>1, SupportKept DEF PossibleInv
<1> QED
  BY <1>2, <1>3, <1>4 DEF PossibleInv

\* A step of the replay by one of the options of the event.
LEMMA PossibleMove ==
    ASSUME TypeOK, PossibleInv, call' = call, NEW d \in Draw, MeetsFacts(d), NEW v \in Options(d),
           at' = Follow(d, v), prefix' = prefix, pc' = pc
    PROVE  PossibleInv'
<1>1. (\A x : x = at' => Came(opp, x)') /\ Grown
  BY MoveCame
<1>2. Came(opp, at)'
  BY <1>1
<1>3. AnswersFit'
  BY SearchShorter, AnswersCut DEF PossibleInv
<1>4. opp' = opp /\ seen' = seen /\ Played' = Played
  BY DEF MeetsFacts, emitVars, Played, setup
<1>5. seen' \subseteq Support'
  BY <1>1, <1>4, SupportKept DEF PossibleInv
<1>6. Searching' => Searching
  BY DEF Searching
<1> QED
  BY <1>2, <1>3, <1>4, <1>5, <1>6 DEF PossibleInv

LEMMA PossiblePause ==
    ASSUME FixedOptions, TypeOK, Shape, ReplayInv, PossibleInv, call' = call, at \in Point,
           NEW d \in setup.draws[at], d \in Draw, NEW v \in Options(d), AskPauses(d, v)
    PROVE  PossibleInv'
<1>1. /\ d.channel = "A" /\ cursor[d.event] = Cardinality(Queue(d.event)) /\ Meets(d)
  BY DEF AskPauses
<1>2. /\ d.event \in Event /\ MeetsFacts(d) /\ opp \in 1..Len(setup.opps)
      /\ Options(d) \in SUBSET (0..3) /\ 0 \in Nat /\ "A" \in {"A", "B"}
  BY <1>1, DrawFacts, MeetsProgram DEF MeetsFacts, Shape
<1>3. Exhausted
  BY <1>1, <1>2, PauseExhausted
<1>4. PICK e, os : e = d.event /\ os = Options(d)
  OBVIOUS
<1>5. Extended("A", e, 0, os)
  <2>1. Extend("A", d.event, 0, v, Options(d))
    BY <1>3 DEF AskPauses
  <2> QED
    BY <1>2, <1>4, <2>1, ExtendTypes, Zenon
<1>6. PICK z \in PrefixEntry : /\ z.channel = "A" /\ z.event = e /\ {z.val} \union z.todo = os
                               /\ prefix' = Append(prefix, z)
  BY <1>5 DEF Extended
<1>7. Fits(setup, "A", e, os)
  BY <1>1, <1>4, QuestionFits
<1>8. AnswersFit'
  <2>1. Fits(setup, z.channel, z.event, {z.val} \union z.todo)
    BY <1>6, <1>7, Zenon
  <2> QED
    BY <1>6, <2>1, AnswersAppended DEF PossibleInv
<1>9. Grown /\ opp' = opp /\ seen' = seen /\ pc = "turn" /\ pc' = "dfs"
  BY <1>2, <1>5 DEF MeetsFacts, Grown, emitVars, Extended
<1>10. seen' \subseteq Support' /\ Played' = Played
  BY <1>9, SupportKept DEF PossibleInv, Played, setup
<1> QED
  BY <1>8, <1>9, <1>10 DEF PossibleInv, Replaying, Searching

LEMMA PossibleReplay ==
    ASSUME FixedOptions, TypeOK, Shape, ReplayInv, PossibleInv, call' = call, ReplayStep
    PROVE  PossibleInv'
<1>1. PICK d \in setup.draws[at] :
          /\ at \in Point
          /\ \/ DrawSaturated(d) \/ DrawDefault(d)
             \/ \E i \in DOMAIN prefix : DrawForced(d, i) \/ AskAnswered(d, i)
             \/ \E v \in Options(d) : AskPauses(d, v)
  BY DEF ReplayStep
<1>2. d \in Draw /\ Options(d) \in (SUBSET (0..3)) \ {{}}
  <2>1. d \in Draw
    BY <1>1, SetupFacts DEF TypeOK
  <2> QED
    BY <2>1, DrawFacts
<1>3. CASE DrawSaturated(d) \/ DrawDefault(d)
  <2>1. /\ Meets(d) /\ at' = Follow(d, Min(Options(d))) /\ prefix' = prefix /\ pc' = pc
    BY <1>3 DEF DrawSaturated, DrawDefault
  <2>2. Min(Options(d)) \in Options(d)
    BY <1>2, OptionFacts
  <2> QED
    BY <1>2, <2>1, <2>2, MeetsProgram, PossibleMove
<1>4. ASSUME NEW i \in DOMAIN prefix, DrawForced(d, i) PROVE PossibleInv'
  <2>1. Meets(d) /\ at' = Follow(d, prefix[i].val) /\ prefix' = prefix /\ pc' = pc
    BY <1>4 DEF DrawForced
  <2>2. prefix[i].val \in Options(d)
    BY <1>2, <1>4, <2>1, MeetsProgram, ForcedFits
  <2> QED
    BY <1>2, <2>1, <2>2, MeetsProgram, PossibleMove
<1>5. ASSUME NEW i \in DOMAIN prefix, AskAnswered(d, i) PROVE PossibleInv'
  <2>1. /\ Meets(d) /\ at' = Follow(d, prefix[i].val) /\ prefix' = prefix /\ pc' = pc
        /\ d.channel = "A" /\ i \in Answer(d.event, cursor[d.event])
    BY <1>5 DEF AskAnswered
  <2>2. prefix[i].channel = "A" /\ prefix[i].event = d.event
    BY <2>1 DEF Answer, Queue
  <2>3. Fits(setup, "A", d.event, Values(i))
    BY <1>5, <2>2 DEF PossibleInv, AnswersFit
  <2>4. prefix[i].val \in Options(d)
    BY <1>1, <2>1, <2>3 DEF Fits, Values
  <2> QED
    BY <1>2, <2>1, <2>4, MeetsProgram, PossibleMove
<1>6. ASSUME NEW v \in Options(d), AskPauses(d, v) PROVE PossibleInv'
  BY <1>1, <1>2, <1>6, PossiblePause
<1> QED
  BY <1>1, <1>3, <1>4, <1>5, <1>6

LEMMA PossibleSearch ==
    ASSUME TypeOK, Shape, ReplayInv, PossibleInv, call' = call,
           \/ NextOpp \/ StepReturns \/ TooDeep \/ StartReplay \/ TurnEnds \/ StopAtBudget
           \/ PopBack \/ DfsReturns
           \/ \E v \in 0..3 : TryNext(v) \/ \E i \in DOMAIN log : Branch(i, v)
           \/ \E cont \in BOOLEAN : Emit(cont)
    PROVE  PossibleInv'
<1>1. setup' = setup /\ Played' = Played
  BY DEF Played, setup
<1>2. ASSUME prefix' = prefix \/ PopBack \/ \E v \in 0..3 : TryNext(v) PROVE AnswersFit'
  BY <1>2, SearchShorter, AnswersCut DEF PossibleInv
<1>3. ASSUME UNCHANGED program PROVE Grown /\ Support \subseteq Support'
  <2>1. Grown
    BY <1>3 DEF Grown
  <2> QED
    BY <2>1, SupportKept
<1>4. CASE NextOpp
  <2>1. /\ opp' = opp + 1 /\ opp < Len(setup.opps) /\ UNCHANGED <<program, prefix, seen>>
        /\ pc' = IF setup.opps[opp + 1] = 0 THEN "start" ELSE "dfs"
    BY <1>4 DEF NextOpp
  <2>2. opp + 1 \in DOMAIN setup.opps
    <3>1. setup.opps \in Seq(Nat) /\ opp \in Nat
      BY SetupFacts DEF TypeOK
    <3> QED
      BY <2>1, <3>1
  <2>3. Searching' => opp' \in Played'
    BY <1>1, <2>1, <2>2 DEF Searching, Played
  <2>4. ~Replaying'
    BY <2>1 DEF Replaying
  <2> QED
    BY <1>2, <1>3, <2>1, <2>3, <2>4 DEF PossibleInv
<1>5. CASE StartReplay
  <2>1. /\ at' = 1 /\ pc = "dfs" /\ UNCHANGED <<program, opp, prefix, seen>>
    BY <1>5 DEF StartReplay, emitVars
  <2>2. Came(opp, at)'
    BY <2>1 DEF Came
  <2>3. Searching
    BY <2>1 DEF Searching
  <2> QED
    BY <1>1, <1>2, <1>3, <2>1, <2>2, <2>3 DEF PossibleInv
<1>6. ASSUME NEW cont \in BOOLEAN, Emit(cont) PROVE PossibleInv'
  <2>1. /\ pc = "scan" /\ seen' = seen \union {at} /\ pc' \in {"back", "done"}
        /\ UNCHANGED <<program, opp, prefix>>
    BY <1>6 DEF Emit, AtLeaf
  <2>2. at \in Child /\ at # 1 /\ Came(opp, at) /\ opp \in Played
    BY <2>1, PlaceFacts DEF Shape, PossibleInv, Replaying, Searching
  <2>3. at \in Support
    BY <2>2 DEF Came, Support
  <2>4. seen' \subseteq Support'
    BY <1>3, <2>1, <2>3 DEF PossibleInv
  <2>5. ~Replaying' /\ opp' \in Played'
    BY <1>1, <2>1, <2>2 DEF Replaying
  <2> QED
    BY <1>2, <2>1, <2>4, <2>5 DEF PossibleInv
<1>7. CASE StepReturns \/ TooDeep \/ TurnEnds \/ StopAtBudget \/ PopBack \/ DfsReturns
           \/ \E v \in 0..3 : TryNext(v)
  <2>1. UNCHANGED <<program, opp, seen>>
    BY <1>7 DEF StepReturns, TooDeep, TurnEnds, StopAtBudget, PopBack, DfsReturns, TryNext, emitVars
  <2>2. prefix' = prefix \/ PopBack \/ \E v \in 0..3 : TryNext(v)
    BY <1>7 DEF StepReturns, TooDeep, TurnEnds, StopAtBudget, DfsReturns
  <2>3. Replaying' => Replaying /\ at' = at
    BY <1>7 DEF StepReturns, TooDeep, TurnEnds, StopAtBudget, PopBack, DfsReturns, TryNext,
                turnVars, Replaying
  <2>4. Searching' => Searching
    BY <1>7 DEF StepReturns, TooDeep, TurnEnds, StopAtBudget, PopBack, DfsReturns, TryNext,
                Searching
  <2>5. AnswersFit'
    BY <1>2, <2>2
  <2> QED
    BY <2>1, <2>3, <2>4, <2>5, PossibleStill
<1>8. ASSUME NEW v \in 0..3, NEW i \in DOMAIN log, Branch(i, v) PROVE PossibleInv'
  <2>1. /\ pc = "scan" /\ pc' = "dfs" /\ UNCHANGED <<program, opp, turnVars, emitVars>>
        /\ \E x \in PrefixEntry : x.channel = "B" /\ prefix' = Append(prefix, x)
    BY <1>8, BranchFacts
  <2>2. PICK z \in PrefixEntry : z.channel = "B" /\ prefix' = Append(prefix, z)
    BY <2>1
  <2>3. Fits(setup, z.channel, z.event, {z.val} \union z.todo)
    BY <2>2 DEF Fits
  <2>4. AnswersFit'
    BY <2>2, <2>3, AnswersAppended DEF PossibleInv
  <2>5. UNCHANGED <<program, opp, seen>> /\ ~Replaying' /\ Searching
    BY <2>1 DEF emitVars, Replaying, Searching
  <2> QED
    BY <2>4, <2>5, PossibleStill
<1> QED
  BY <1>4, <1>5, <1>6, <1>7, <1>8

LEMMA PossibleNext ==
    ASSUME FixedOptions, TypeOK, Shape, ReplayInv, PossibleInv, [Next]_vars
    PROVE  PossibleInv'
<1>1. CASE UNCHANGED vars
  <2>1. /\ UNCHANGED <<program, opp, seen>> /\ call' = call /\ prefix' = prefix /\ at' = at
        /\ pc' = pc
    BY <1>1 DEF vars, turnVars, emitVars
  <2>2. AnswersFit'
    BY <2>1, SearchShorter, AnswersCut DEF PossibleInv
  <2>3. Replaying' = Replaying /\ Searching' = Searching
    BY <2>1 DEF Replaying, Searching
  <2> QED
    BY <2>1, <2>2, <2>3, PossibleStill
<1>2. CASE Next
  BY <1>2, PossibleReplay, PossibleSearch DEF Next
<1> QED
  BY <1>1, <1>2

LEMMA PossibleInit == Init => PossibleInv
<1> SUFFICES ASSUME Init PROVE PossibleInv
  OBVIOUS
<1>1. DOMAIN prefix = {} /\ pc = "start" /\ seen = {}
  BY DEF Init
<1> QED
  BY <1>1 DEF PossibleInv, AnswersFit, Replaying, Searching

-----------------------------------------------------------------------------
(* A search that ends has emitted something.                                *)

EmitsInv ==
    /\ pc = "back" => seen # {}
    /\ pc \in {"start", "done"} /\ ~aborted /\ ~exceeded /\ (\E o \in 1..opp : o \in Played)
           => seen # {}
    /\ Complete => opp = Len(setup.opps)

LEMMA EmitsNext ==
    ASSUME TypeOK, Shape, EmitsInv, [Next]_vars
    PROVE  EmitsInv'
<1>1. setup' = setup /\ Played' = Played /\ opp \in Nat
  <2>1. call' = call
    BY DEF Next, vars
  <2>2. opp \in Nat
    BY SetupFacts DEF TypeOK
  <2> QED
    BY <2>1, <2>2 DEF setup, Played
<1>2. CASE UNCHANGED vars
  BY <1>1, <1>2 DEF vars, emitVars, EmitsInv, Complete
<1>3. CASE NextOpp
  <2>1. /\ opp' = opp + 1 /\ opp < Len(setup.opps) /\ UNCHANGED <<seen, aborted, exceeded>>
        /\ pc = "start" /\ pc' = IF setup.opps[opp + 1] = 0 THEN "start" ELSE "dfs"
    BY <1>3 DEF NextOpp
  <2>2. pc' = "start" => opp + 1 \notin Played
    BY <2>1 DEF Played
  <2>3. \A o \in 1..(opp + 1) : o = opp + 1 \/ o \in 1..opp
    BY <1>1
  <2> QED
    BY <1>1, <2>1, <2>2, <2>3 DEF EmitsInv, Complete
<1>4. CASE StepReturns
  BY <1>1, <1>4 DEF StepReturns, emitVars, EmitsInv, Complete
<1>5. CASE TooDeep \/ StartReplay \/ TurnEnds
  BY <1>5 DEF TooDeep, StartReplay, TurnEnds, EmitsInv, Complete
<1>6. CASE StopAtBudget
  BY <1>6 DEF StopAtBudget, EmitsInv, Complete
<1>7. CASE PopBack \/ DfsReturns
  BY <1>1, <1>7 DEF PopBack, DfsReturns, emitVars, EmitsInv, Complete
<1>8. ASSUME NEW cont \in BOOLEAN, Emit(cont) PROVE EmitsInv'
  BY <1>8 DEF Emit, EmitsInv, Complete
<1>9. ASSUME NEW v \in 0..3, TryNext(v) \/ \E i \in DOMAIN log : Branch(i, v)
      PROVE  EmitsInv'
  BY <1>9 DEF TryNext, Branch, Extend, EmitsInv, Complete
<1>10. CASE ReplayStep
  <2>1. pc' \in {"turn", "dfs", "diverged"}
    BY <1>10 DEF ReplayStep, DrawSaturated, DrawDefault, DrawForced, AskAnswered, AskPauses,
                 Meets, Extend
  <2> QED
    BY <2>1 DEF EmitsInv, Complete
<1> QED
  BY <1>2, <1>3, <1>4, <1>5, <1>6, <1>7, <1>8, <1>9, <1>10 DEF Next

LEMMA EmitsInit == Init => EmitsInv
BY DEF Init, EmitsInv, Complete

LEMMA EmitsSome ==
    ASSUME TypeOK, EmitsInv, Complete
    PROVE  seen # {}
<1>1. \E i \in DOMAIN setup.opps : setup.opps[i] # 0
  BY OracleAssumption DEF setup, TypeOK
<1>2. DOMAIN setup.opps = 1..Len(setup.opps)
  BY SetupFacts DEF TypeOK
<1>3. \E o \in 1..opp : o \in Played
  BY <1>1, <1>2 DEF EmitsInv, Played
<1> QED
  BY <1>3 DEF EmitsInv, Complete

-----------------------------------------------------------------------------
(* In exact mode every course of the turn is played.                        *)
(*                                                                         *)
(* A choice F gives each draw a value by its channel, event and number.     *)
(* The turn played by F is a sequence of configurations like a replay.      *)
(* While the search runs, F is pending, a later replay will follow it as    *)
(* far as it goes, or it is settled: the turn played by F ends in a child   *)
(* that was emitted, or comes to a draw that does not have F's value.       *)

Decisions == [{"A", "B"} -> [Event -> [Nat -> 0..3]]]

\* F gives every question of setup S one of its options.
Valid(S, F) ==
    \A p \in Point : \A d \in S.draws[p] :
        d.channel = "A" => \A n \in Nat : F["A"][d.event][n] \in Options(d)

Sure(d) == d.channel = "B" /\ Saturated(Options(d))
Count(d, c) == IF d.channel = "B" THEN c.occ[d.event] ELSE c.cursor[d.event]
Value(F, d, c) == IF Sure(d) THEN Min(Options(d)) ELSE F[d.channel][d.event][Count(d, c)]
After(F, d, c) ==
    Config(Follow(d, Value(F, d, c)),
           IF d.channel = "B" /\ ~Sure(d)
               THEN [c.occ EXCEPT ![d.event] = c.occ[d.event] + 1] ELSE c.occ,
           IF d.channel = "A"
               THEN [c.cursor EXCEPT ![d.event] = c.cursor[d.event] + 1] ELSE c.cursor)

\* The turn played by F goes from c to c2; the draw at c does not have F's value.
Steps(F, c, c2) == IsKnown(c) /\ \E d : d = DrawAt(c) /\ c2 = After(F, d, c)
Misses(F, c) == IsKnown(c) /\ \E d : d = DrawAt(c) /\ Value(F, d, c) \notin Options(d)

Course(F, x, R) ==
    Start \in R /\ x \in R /\ \A c \in R : c = x \/ \E c2 \in R : Steps(F, c, c2)
Settled(F) == \E x : (\E R : Course(F, x, R)) /\ (x.at \in seen \/ Misses(F, x))

\* What F has for the draw of entry j; the entries before m have F's values.
Wanted(F, j) == F[prefix[j].channel][prefix[j].event][NumberOf(j)]
Agrees(F, m) == \A j \in DOMAIN prefix : j < m => prefix[j].val = Wanted(F, j)
Running == pc \in {"dfs", "turn", "scan"}
Pending(F) ==
    \/ \E k \in DOMAIN prefix : Agrees(F, k) /\ Wanted(F, k) \in prefix[k].todo
    \/ Running /\ Agrees(F, Len(prefix) + 1)

SearchInv == Searching => \A F \in Decisions : Valid(setup, F) => Pending(F) \/ Settled(F)

LEMMA StepsKept ==
    ASSUME ProgramGrows, NEW F, NEW c, NEW c2, Steps(F, c, c2)
    PROVE  Steps(F, c, c2)'
<1>1. IsKnown(c)' /\ DrawAt(c)' = DrawAt(c)
  BY KnownKept DEF Steps
<1> QED
  BY <1>1 DEF Steps

LEMMA SettledKept ==
    ASSUME ProgramGrows, seen \subseteq seen', NEW F, Settled(F)
    PROVE  Settled(F)'
<1>1. PICK x : (\E R : Course(F, x, R)) /\ (x.at \in seen \/ Misses(F, x))
  BY DEF Settled
<1>2. PICK R : Course(F, x, R)
  BY <1>1
<1>3. Course(F, x, R)'
  BY <1>2, StepsKept DEF Course, Start
<1>4. ASSUME Misses(F, x) PROVE Misses(F, x)'
  <2>1. IsKnown(x)' /\ DrawAt(x)' = DrawAt(x)
    BY <1>4, KnownKept DEF Misses
  <2> QED
    BY <1>4, <2>1 DEF Misses
<1>5. x.at \in seen' \/ Misses(F, x)'
  BY <1>1, <1>4
<1> QED
  BY <1>3, <1>5 DEF Settled

\* Where the entries before m decide as F does, the replay goes as F does.
LEMMA GoesAsWanted ==
    ASSUME NEW F, NEW m, Agrees(F, m), NEW c, NEW c2, Goes(m, c, c2)
    PROVE  Steps(F, c, c2)
<1>1. PICK d : d = DrawAt(c)
  OBVIOUS
<1>2. IsKnown(c) /\ Decided(m, d, c, c2)
  BY <1>1 DEF Goes
<1>3. CASE Certain(d, c, c2)
  <2>1. Sure(d) /\ d.channel # "A"
    BY <1>3 DEF Certain, Sure
  <2>2. c2 = After(F, d, c)
    BY <1>3, <2>1 DEF Certain, After, Value
  <2> QED
    BY <1>1, <1>2, <2>2 DEF Steps
<1>4. ASSUME NEW j \in DOMAIN prefix, j < m, Forced(d, j, c, c2) PROVE Steps(F, c, c2)
  <2>1. /\ d.channel = "B" /\ ~Sure(d) /\ prefix[j].channel = "B" /\ prefix[j].event = d.event
        /\ prefix[j].occ = c.occ[d.event] /\ d.channel # "A"
    BY <1>4 DEF Forced, Sure, Injected
  <2>2. prefix[j].val = F["B"][d.event][c.occ[d.event]]
    BY <1>4, <2>1 DEF Agrees, Wanted, NumberOf
  <2>3. Value(F, d, c) = prefix[j].val
    BY <2>1, <2>2 DEF Value, Count
  <2>4. c2 = After(F, d, c)
    BY <1>4, <2>1, <2>3 DEF Forced, After
  <2> QED
    BY <1>1, <1>2, <2>4 DEF Steps
<1>5. ASSUME NEW j \in DOMAIN prefix, j < m, Told(d, j, c, c2) PROVE Steps(F, c, c2)
  <2>1. /\ d.channel = "A" /\ ~Sure(d) /\ prefix[j].channel = "A" /\ prefix[j].event = d.event
        /\ Cardinality(Ahead(j)) = c.cursor[d.event] /\ d.channel # "B"
    BY <1>5 DEF Told, Sure, Answer, Queue
  <2>2. prefix[j].val = F["A"][d.event][c.cursor[d.event]]
    BY <1>5, <2>1 DEF Agrees, Wanted, NumberOf
  <2>3. Value(F, d, c) = prefix[j].val
    BY <2>1, <2>2 DEF Value, Count
  <2>4. c2 = After(F, d, c)
    BY <1>5, <2>1, <2>3 DEF Told, After
  <2> QED
    BY <1>1, <1>2, <2>4 DEF Steps
<1> QED
  BY <1>2, <1>3, <1>4, <1>5 DEF Decided

LEMMA ComesAsWanted ==
    ASSUME NEW F, NEW m, Agrees(F, m), NEW x, Comes(m, x)
    PROVE  \E R : Course(F, x, R)
<1>1. PICK R : Start \in R /\ x \in R /\ Road(m, x, R)
  BY DEF Comes
<1>2. Course(F, x, R)
  BY <1>1, GoesAsWanted DEF Course, Road
<1> QED
  BY <1>2

\* What F has for an entry depends on the entries before it only.
LEMMA WantedKept ==
    ASSUME NEW m \in Nat, SameBefore(m), NEW j \in 1..(m - 1), NEW F
    PROVE  Wanted(F, j)' = Wanted(F, j)
<1>1. Ahead(j)' = Ahead(j)
  BY AheadKept
<1>2. /\ prefix'[j].channel = prefix[j].channel /\ prefix'[j].event = prefix[j].event
      /\ prefix'[j].occ = prefix[j].occ
  BY DEF SameBefore
<1>3. NumberOf(j)' = NumberOf(j)
  BY <1>1, <1>2 DEF NumberOf
<1> QED
  BY <1>2, <1>3 DEF Wanted

LEMMA AgreesKept ==
    ASSUME prefix' \in Seq(PrefixEntry), NEW m \in Nat, SameBefore(m), NEW F, Agrees(F, m)
    PROVE  Agrees(F, m)'
<1>1. ASSUME NEW j \in DOMAIN prefix', j < m PROVE prefix'[j].val = Wanted(F, j)'
  <2>1. j \in 1..(m - 1)
    BY <1>1, EntryFacts
  <2>2. j \in DOMAIN prefix /\ prefix'[j].val = prefix[j].val
    BY <2>1 DEF SameBefore
  <2>3. prefix[j].val = Wanted(F, j)
    BY <1>1, <2>2 DEF Agrees
  <2> QED
    BY <2>1, <2>2, <2>3, WantedKept
<1> QED
  BY <1>1 DEF Agrees

\* The first m - 1 entries are kept; what was pending at one of them still is.
LEMMA WaitingKept ==
    ASSUME prefix' \in Seq(PrefixEntry), NEW m \in Nat, SameBefore(m), NEW F,
           NEW k \in 1..(m - 1), Agrees(F, k), Wanted(F, k) \in prefix[k].todo,
           prefix[k].todo \subseteq prefix'[k].todo
    PROVE  Pending(F)'
<1>1. k \in Nat /\ SameBefore(k) /\ k \in DOMAIN prefix'
  <2>1. \A j \in 1..(k - 1) : j \in 1..(m - 1)
    OBVIOUS
  <2> QED
    BY <2>1 DEF SameBefore
<1>2. Agrees(F, k)'
  BY <1>1, AgreesKept
<1>3. Wanted(F, k)' = Wanted(F, k)
  BY WantedKept
<1> QED
  BY <1>1, <1>2, <1>3 DEF Pending

\* The replay goes on with the same prefix.
LEMMA PendingKept ==
    ASSUME TypeOK, prefix' = prefix, Running => Running', NEW F, Pending(F)
    PROVE  Pending(F)'
<1>1. PICK m : m = Len(prefix) + 1
  OBVIOUS
<1>2. /\ m \in Nat /\ SameBefore(m) /\ DOMAIN prefix = 1..(m - 1)
      /\ prefix' \in Seq(PrefixEntry) /\ m = Len(prefix') + 1
  BY <1>1, PositionSets, SamePrefix DEF TypeOK
<1>3. ASSUME NEW k \in DOMAIN prefix, Agrees(F, k), Wanted(F, k) \in prefix[k].todo
      PROVE  Pending(F)'
  BY <1>2, <1>3, WaitingKept
<1>4. CASE Running /\ Agrees(F, m)
  BY <1>2, <1>4, AgreesKept DEF Pending
<1> QED
  BY <1>1, <1>3, <1>4 DEF Pending

LEMMA SearchKept ==
    ASSUME TypeOK, SearchInv, call' = call, ProgramGrows, seen \subseteq seen', prefix' = prefix,
           Running => Running', Searching' => Searching
    PROVE  SearchInv'
<1>1. setup' = setup
  BY DEF setup
<1>2. ASSUME NEW F \in Decisions, Valid(setup, F), Searching'
      PROVE  Pending(F)' \/ Settled(F)'
  <2>1. Pending(F) \/ Settled(F)
    BY <1>2 DEF SearchInv
  <2> QED
    BY <2>1, PendingKept, SettledKept
<1> QED
  BY <1>1, <1>2 DEF SearchInv

\* One more entry z: F has one of its values.
LEMMA PendingAppended ==
    ASSUME TypeOK, NEW z \in PrefixEntry, prefix' = Append(prefix, z), pc' = "dfs", NEW F,
           Pending(F),
           \A m : m = Len(prefix) + 1 /\ Agrees(F, m)
                => \A n \in Nat : (z.channel = "B" => n = z.occ)
                        => F[z.channel][z.event][n] \in {z.val} \union z.todo
    PROVE  Pending(F)'
<1>1. PICK m : m = Len(prefix) + 1
  OBVIOUS
<1>2. /\ m \in Nat /\ DOMAIN prefix = 1..(m - 1) /\ DOMAIN prefix' = 1..m /\ prefix'[m] = z
      /\ \A j \in 1..(m - 1) : prefix'[j] = prefix[j]
      /\ prefix' \in Seq(PrefixEntry) /\ Len(prefix') = m
  BY <1>1, PositionSets DEF TypeOK
<1>3. SameBefore(m)
  BY <1>2 DEF SameBefore
<1>4. ASSUME NEW k \in DOMAIN prefix, Agrees(F, k), Wanted(F, k) \in prefix[k].todo
      PROVE  Pending(F)'
  BY <1>2, <1>3, <1>4, WaitingKept
<1>5. ASSUME Agrees(F, m) PROVE Pending(F)'
  <2>1. Agrees(F, m)'
    BY <1>2, <1>3, <1>5, AgreesKept
  <2>2. PICK n : n = NumberOf(m)'
    OBVIOUS
  <2>3. n \in Nat /\ (z.channel = "B" => n = z.occ)
    <3>1. Ahead(m)' \in SUBSET (1..m)
      BY <1>2 DEF Ahead
    <3>2. Cardinality(Ahead(m)') \in Nat
      BY <1>2, <3>1, FinitePart, Zenon
    <3>3. n = IF z.channel = "B" THEN z.occ ELSE Cardinality(Ahead(m)')
      BY <1>2, <2>2 DEF NumberOf
    <3>4. z.occ \in Nat
      BY DEF PrefixEntry
    <3> QED
      BY <3>2, <3>3, <3>4
  <2>4. Wanted(F, m)' = F[z.channel][z.event][n]
    BY <1>2, <2>2 DEF Wanted
  <2>5. Wanted(F, m)' \in {z.val} \union z.todo
    BY <1>1, <1>5, <2>3, <2>4
  <2>6. CASE Wanted(F, m)' \in z.todo
    <3>1. m \in DOMAIN prefix' /\ Wanted(F, m)' \in prefix'[m].todo
      BY <1>2, <2>6
    <3> QED
      BY <2>1, <3>1 DEF Pending
  <2>7. CASE Wanted(F, m)' = z.val
    <3>1. ASSUME NEW j \in DOMAIN prefix', j < m + 1 PROVE prefix'[j].val = Wanted(F, j)'
      <4>1. CASE j = m
        BY <1>2, <2>7, <4>1
      <4>2. CASE j # m
        BY <1>2, <2>1, <3>1, <4>2 DEF Agrees
      <4> QED
        BY <4>1, <4>2
    <3>2. Agrees(F, m + 1)'
      BY <3>1 DEF Agrees
    <3>3. Running'
      BY DEF Running
    <3> QED
      BY <1>2, <3>2, <3>3 DEF Pending
  <2> QED
    BY <2>5, <2>6, <2>7
<1> QED
  BY <1>1, <1>4, <1>5 DEF Pending

\* A question offers F an option of its own.
LEMMA SearchPause ==
    ASSUME TypeOK, Shape, ReplayInv, SearchInv, call' = call, at \in Point,
           NEW d \in setup.draws[at], d \in Draw, NEW v \in Options(d), AskPauses(d, v)
    PROVE  SearchInv'
<1>1. /\ d.channel = "A" /\ cursor[d.event] = Cardinality(Queue(d.event)) /\ Meets(d)
  BY DEF AskPauses
<1>2. /\ d.event \in Event /\ MeetsFacts(d) /\ opp \in 1..Len(setup.opps)
      /\ Options(d) \in SUBSET (0..3) /\ 0 \in Nat /\ "A" \in {"A", "B"}
  BY <1>1, DrawFacts, MeetsProgram DEF MeetsFacts, Shape
<1>3. Exhausted
  BY <1>1, <1>2, PauseExhausted
<1>4. PICK e, os : e = d.event /\ os = Options(d)
  OBVIOUS
<1>5. Extended("A", e, 0, os)
  <2>1. Extend("A", d.event, 0, v, Options(d))
    BY <1>3 DEF AskPauses
  <2> QED
    BY <1>2, <1>4, <2>1, ExtendTypes, Zenon
<1>6. PICK z \in PrefixEntry : /\ z.channel = "A" /\ z.event = e /\ {z.val} \union z.todo = os
                               /\ prefix' = Append(prefix, z)
  BY <1>5 DEF Extended
<1>7. ProgramGrows /\ seen' = seen /\ pc' = "dfs" /\ setup' = setup /\ Searching
  BY <1>2, <1>5, EventMet DEF MeetsFacts, emitVars, Extended, setup, Searching
<1>8. ASSUME NEW F \in Decisions, Valid(setup, F) PROVE Pending(F)' \/ Settled(F)'
  <2>1. \A n \in Nat : F["A"][e][n] \in os
    BY <1>1, <1>4, <1>8 DEF Valid
  <2>2. \A n \in Nat : F[z.channel][z.event][n] \in {z.val} \union z.todo
    BY <1>6, <2>1
  <2>3. Pending(F) \/ Settled(F)
    BY <1>7, <1>8 DEF SearchInv
  <2> QED
    BY <1>6, <1>7, <2>2, <2>3, PendingAppended, SettledKept
<1> QED
  BY <1>7, <1>8 DEF SearchInv

\* A draw beyond the prefix has F's value among its options, or the turn played
\* by F comes to it and misses.
LEMMA SearchBranch ==
    ASSUME TypeOK, Shape, ReplayInv, SearchInv, setup.mode = "None", call' = call,
           NEW v \in 0..3, NEW i \in DOMAIN log, Branch(i, v)
    PROVE  SearchInv'
<1>1. /\ i \in Unforced /\ log[i].event \in Event /\ pc = "scan" /\ pc' = "dfs"
      /\ \E x \in PrefixEntry :
            /\ x.channel = "B" /\ x.event = log[i].event /\ x.occ = Occurrence(i)
            /\ {x.val} \union x.todo = ExpandOptions(log[i].event, log[i].opts)
            /\ prefix' = Append(prefix, x)
      /\ UNCHANGED <<program, opp, turnVars, emitVars>>
  BY BranchFacts
<1>2. PICK e, n, o : e = log[i].event /\ n = Occurrence(i) /\ o = log[i].opts
  OBVIOUS
<1>3. ExpandOptions(e, o) = o
  BY DEF ExpandOptions
<1>4. PICK z \in PrefixEntry : /\ z.channel = "B" /\ z.event = e /\ z.occ = n
                               /\ {z.val} \union z.todo = o /\ prefix' = Append(prefix, z)
  BY <1>1, <1>2, <1>3
<1>5. ProgramGrows /\ seen' = seen /\ setup' = setup /\ Searching /\ Replaying
  BY <1>1 DEF ProgramGrows, emitVars, setup, Searching, Replaying
<1>6. ASSUME NEW F \in Decisions, NEW m, m = Len(prefix) + 1, Agrees(F, m),
             F["B"][e][n] \notin o
      PROVE  Settled(F)
  <2>1. ComesToDraw(m, e, n, o)
    BY <1>1, <1>2, <1>5, <1>6 DEF ReplayInv, OnTheWay, WayTo
  <2>2. PICK c : Comes(m, c) /\ AtDraw(e, n, o, c)
    BY <2>1 DEF ComesToDraw
  <2>3. PICK d : d = DrawAt(c)
    OBVIOUS
  <2>4. IsKnown(c) /\ d.channel = "B" /\ ~Sure(d) /\ d.event = e /\ c.occ[e] = n /\ Options(d) = o
    BY <2>2, <2>3 DEF AtDraw, Sure
  <2>5. Value(F, d, c) = F["B"][e][n]
    BY <2>4 DEF Value, Count
  <2>6. Misses(F, c)
    BY <1>6, <2>3, <2>4, <2>5 DEF Misses
  <2>7. \E R : Course(F, c, R)
    BY <1>6, <2>2, ComesAsWanted
  <2> QED
    BY <2>6, <2>7 DEF Settled
<1>7. ASSUME NEW F \in Decisions, Valid(setup, F) PROVE Pending(F)' \/ Settled(F)'
  <2>1. Pending(F) \/ Settled(F)
    BY <1>5, <1>7 DEF SearchInv
  <2>2. CASE Settled(F)
    BY <1>5, <2>2, SettledKept
  <2>3. CASE Pending(F) /\ ~Settled(F)
    <3>1. ASSUME NEW m, m = Len(prefix) + 1, Agrees(F, m), NEW k \in Nat,
                 z.channel = "B" => k = z.occ
          PROVE  F[z.channel][z.event][k] \in {z.val} \union z.todo
      BY <1>4, <1>6, <2>3, <3>1
    <3> QED
      BY <1>1, <1>4, <2>3, <3>1, PendingAppended
  <2> QED
    BY <2>1, <2>2, <2>3
<1> QED
  BY <1>5, <1>7 DEF SearchInv

\* A leaf is what the turn played by F ends in.
LEMMA SearchEmit ==
    ASSUME TypeOK, Shape, ReplayInv, SearchInv, call' = call, NEW cont \in BOOLEAN, Emit(cont)
    PROVE  SearchInv'
<1>1. /\ pc = "scan" /\ Unforced = {} /\ seen' = seen \union {at}
      /\ UNCHANGED <<program, opp, prefix>>
  BY DEF Emit, AtLeaf
<1>2. ProgramGrows /\ setup' = setup /\ Searching /\ Replaying
  BY <1>1 DEF ProgramGrows, setup, Searching, Replaying
<1>3. PICK x, m : x = Now /\ m = Len(prefix) + 1
  OBVIOUS
<1>4. Comes(m, x) /\ x.at \in seen'
  BY <1>1, <1>2, <1>3, NowFields DEF ReplayInv, OnTheWay, WayTo
<1>5. /\ m \in Nat /\ SameBefore(m) /\ DOMAIN prefix = 1..(m - 1)
      /\ prefix' \in Seq(PrefixEntry)
  BY <1>1, <1>3, PositionSets, SamePrefix DEF TypeOK
<1>6. ASSUME NEW F, Agrees(F, m) PROVE Settled(F)'
  <2>1. PICK R : Course(F, x, R)
    BY <1>4, <1>6, ComesAsWanted
  <2>2. Course(F, x, R)'
    BY <1>2, <2>1, StepsKept DEF Course, Start
  <2> QED
    BY <1>4, <2>2 DEF Settled
<1>7. ASSUME NEW F, NEW k \in DOMAIN prefix, Agrees(F, k), Wanted(F, k) \in prefix[k].todo
      PROVE  Pending(F)'
  BY <1>1, <1>5, <1>7, WaitingKept
<1>8. ASSUME NEW F \in Decisions, Valid(setup, F) PROVE Pending(F)' \/ Settled(F)'
  <2>1. Pending(F) \/ Settled(F)
    BY <1>2, <1>8 DEF SearchInv
  <2>2. CASE Settled(F)
    BY <1>1, <1>2, <2>2, SettledKept
  <2> QED
    BY <1>3, <1>6, <1>7, <2>1, <2>2 DEF Pending
<1> QED
  BY <1>2, <1>8 DEF SearchInv

\* The last entry takes another of its values, or has none left.
LEMMA SearchTry ==
    ASSUME TypeOK, SearchInv, call' = call, NEW v \in 0..3, TryNext(v)
    PROVE  SearchInv'
<1>1. PICK m : m = Len(prefix)
  OBVIOUS
<1>2. /\ prefix' \in Seq(PrefixEntry) /\ Len(prefix') = m /\ m \in Nat \ {0}
      /\ \A j \in 1..(m - 1) : prefix'[j] = prefix[j]
      /\ v \in prefix[m].todo /\ prefix'[m].val = v
      /\ prefix'[m].todo = prefix[m].todo \ {v}
      /\ prefix'[m].channel = prefix[m].channel /\ prefix'[m].event = prefix[m].event
      /\ prefix'[m].occ = prefix[m].occ
  BY <1>1, NextEntry
<1>3. DOMAIN prefix = 1..m /\ DOMAIN prefix' = 1..m
  BY <1>1, <1>2, PositionSets
<1>4. SameBefore(m)
  BY <1>2, <1>3 DEF SameBefore
<1>5. /\ UNCHANGED <<program, opp, seen>> /\ pc = "back" /\ pc' = "dfs" /\ setup' = setup
      /\ ProgramGrows
  BY DEF TryNext, emitVars, setup, ProgramGrows
<1>6. ASSUME NEW F, NEW k \in DOMAIN prefix, k # m, Agrees(F, k), Wanted(F, k) \in prefix[k].todo
      PROVE  Pending(F)'
  <2>1. k \in 1..(m - 1)
    BY <1>2, <1>3, <1>6
  <2> QED
    BY <1>2, <1>4, <1>6, <2>1, WaitingKept
<1>7. ASSUME NEW F, Agrees(F, m), Wanted(F, m) \in prefix[m].todo
      PROVE  Pending(F)'
  <2>1. Agrees(F, m)'
    BY <1>2, <1>4, <1>7, AgreesKept
  <2>2. Wanted(F, m)' = Wanted(F, m)
    <3>1. Ahead(m)' = Ahead(m)
      BY <1>2 DEF Ahead
    <3>2. NumberOf(m)' = NumberOf(m)
      BY <1>2, <3>1 DEF NumberOf
    <3> QED
      BY <1>2, <3>2 DEF Wanted
  <2>3. CASE Wanted(F, m) # v
    <3>1. m \in DOMAIN prefix' /\ Wanted(F, m)' \in prefix'[m].todo
      BY <1>2, <1>3, <1>7, <2>2, <2>3
    <3> QED
      BY <2>1, <3>1 DEF Pending
  <2>4. CASE Wanted(F, m) = v
    <3>1. ASSUME NEW j \in DOMAIN prefix', j < m + 1 PROVE prefix'[j].val = Wanted(F, j)'
      <4>1. CASE j = m
        BY <1>2, <2>2, <2>4, <4>1
      <4>2. CASE j # m
        BY <1>2, <1>3, <2>1, <3>1, <4>2 DEF Agrees
      <4> QED
        BY <4>1, <4>2
    <3>2. Agrees(F, m + 1)' /\ Running'
      BY <1>5, <3>1 DEF Agrees, Running
    <3> QED
      BY <1>2, <3>2 DEF Pending
  <2> QED
    BY <2>3, <2>4
<1>8. ASSUME NEW F \in Decisions, Valid(setup, F) PROVE Pending(F)' \/ Settled(F)'
  <2>1. Pending(F) \/ Settled(F)
    BY <1>5, <1>8 DEF SearchInv, Searching
  <2>2. ~Running
    BY <1>5 DEF Running
  <2> QED
    BY <1>5, <1>6, <1>7, <2>1, <2>2, SettledKept DEF Pending
<1> QED
  BY <1>5, <1>8 DEF SearchInv

LEMMA SearchPop ==
    ASSUME TypeOK, SearchInv, call' = call, PopBack
    PROVE  SearchInv'
<1>1. PICK m : m = Len(prefix)
  OBVIOUS
<1>2. /\ prefix' = Front(prefix) /\ prefix # <<>> /\ prefix[m].todo = {} /\ pc = "back"
      /\ UNCHANGED <<program, opp, pc, seen>>
  BY <1>1 DEF PopBack, Last, emitVars
<1>3. /\ m \in Nat /\ DOMAIN prefix = 1..m /\ prefix' \in Seq(PrefixEntry) /\ Len(prefix') = m - 1
      /\ \A j \in 1..(m - 1) : prefix'[j] = prefix[j]
  BY <1>1, <1>2, PositionSets, FrontFacts DEF TypeOK
<1>4. DOMAIN prefix' = 1..(m - 1)
  BY <1>3, EntryFacts
<1>5. SameBefore(m) /\ ProgramGrows /\ setup' = setup /\ Searching /\ ~Running
  BY <1>2, <1>3, <1>4 DEF SameBefore, ProgramGrows, setup, Searching, Running
<1>6. ASSUME NEW F \in Decisions, Valid(setup, F) PROVE Pending(F)' \/ Settled(F)'
  <2>1. Pending(F) \/ Settled(F)
    BY <1>5, <1>6 DEF SearchInv
  <2>2. CASE Settled(F)
    BY <1>2, <1>5, <2>2, SettledKept
  <2>3. ASSUME NEW k \in DOMAIN prefix, Agrees(F, k), Wanted(F, k) \in prefix[k].todo
        PROVE  Pending(F)'
    <3>1. k \in 1..(m - 1)
      BY <1>2, <1>3, <2>3
    <3> QED
      BY <1>3, <1>5, <2>3, <3>1, WaitingKept
  <2> QED
    BY <1>5, <2>1, <2>2, <2>3 DEF Pending
<1> QED
  BY <1>5, <1>6 DEF SearchInv

-----------------------------------------------------------------------------
(* When the search for an AI action returns no choice is pending: from every *)
(* event of the turn that some choice comes to, each option is taken by a    *)
(* choice that differs from it in nothing earlier.                           *)

LEMMA LeastMember ==
    ASSUME NEW T \in SUBSET Nat, T # {}
    PROVE  \E n \in T : \A k \in T : n <= k
<1> DEFINE R == {ss \in Nat \X Nat : ss[1] < ss[2]}
<1>1. IsWellFoundedOn(R, Nat)
  BY NatLessThanWellFounded, Zenon DEF OpToRel
<1>2. \E n \in T : \A k \in T : ~ (<<k, n>> \in R)
  <2> HIDE DEF R
  <2> QED
    BY <1>1, WFMin, Zenon
<1>3. \A n, k \in T : ~ (<<k, n>> \in R) => n <= k
  OBVIOUS
<1> QED
  BY <1>2, <1>3

Configs == [at : Place, occ : [Event -> Nat], cursor : [Event -> Nat]]

\* A course of the turn on which F's values are options.
Fair(F, x, R) == Course(F, x, R) /\ R \subseteq Configs /\ \A c \in R : c = x \/ ~Misses(F, c)

Rank(c) == IF c.at \in Point THEN c.at ELSE Events + 1

LEMMA RankFacts ==
    ASSUME NEW c \in Configs
    PROVE  /\ Rank(c) \in Nat /\ Rank(c) <= Events + 1
           /\ c.at \in Place /\ c.occ \in [Event -> Nat] /\ c.cursor \in [Event -> Nat]
<1>1. Events \in Nat
  BY OracleAssumption
<1>2. c.at \in Point => c.at \in Nat /\ c.at <= Events
  BY PlaceFacts
<1>3. Rank(c) \in Nat /\ Rank(c) <= Events + 1
  BY <1>1, <1>2 DEF Rank
<1>4. c.at \in Place /\ c.occ \in [Event -> Nat] /\ c.cursor \in [Event -> Nat]
  BY DEF Configs
<1> QED
  BY <1>3, <1>4

LEMMA FarthestConfig ==
    ASSUME NEW S \in SUBSET Configs, S # {}
    PROVE  \E c \in S : \A c2 \in S : Rank(c2) <= Rank(c)
<1> DEFINE T == {Events + 1 - Rank(c) : c \in S}
<1>1. Events \in Nat /\ \A c \in S : Rank(c) \in Nat /\ Rank(c) <= Events + 1
  BY RankFacts, OracleAssumption
<1>2. T \in SUBSET Nat /\ T # {}
  BY <1>1
<1>3. PICK n \in T : \A k \in T : n <= k
  BY <1>2, LeastMember, Zenon
<1>4. PICK c \in S : n = Events + 1 - Rank(c)
  BY <1>3
<1>5. ASSUME NEW c2 \in S PROVE Rank(c2) <= Rank(c)
  <2>1. n <= Events + 1 - Rank(c2)
    BY <1>3
  <2> QED
    BY <1>1, <1>4, <2>1
<1> QED
  BY <1>5

\* What a step of the turn played by F does.
LEMMA AfterFacts ==
    ASSUME TypeOK, Shape, NEW F \in Decisions, NEW c \in Configs, IsKnown(c),
           NEW d, d = DrawAt(c), NEW y, y = After(F, d, c)
    PROVE  /\ d \in Draw /\ d \in setup.draws[c.at] /\ c.at \in Point
           /\ y \in Configs /\ Rank(c) < Rank(y) /\ y.at = Follow(d, Value(F, d, c))
           /\ Count(d, c) \in Nat
           /\ \A e \in Event : c.occ[e] <= y.occ[e] /\ c.cursor[e] <= y.cursor[e]
           /\ ~Sure(d) => Count(d, y) = Count(d, c) + 1
<1>1. c.at \in Point /\ d \in setup.draws[c.at] /\ d \in Draw
  BY ProgramFacts DEF IsKnown, DrawAt
<1>2. d.event \in Event /\ d.channel \in {"A", "B"} /\ \A v : Follow(d, v) \in Place
  BY <1>1, DrawFacts
<1>3. c.at \in Place /\ c.occ \in [Event -> Nat] /\ c.cursor \in [Event -> Nat]
  BY RankFacts
<1>4. PICK v : v = Value(F, d, c)
  OBVIOUS
<1>5. /\ y.at = Follow(d, v)
      /\ y.occ = IF d.channel = "B" /\ ~Sure(d)
                 THEN [c.occ EXCEPT ![d.event] = c.occ[d.event] + 1] ELSE c.occ
      /\ y.cursor = IF d.channel = "A"
                    THEN [c.cursor EXCEPT ![d.event] = c.cursor[d.event] + 1] ELSE c.cursor
      /\ y = Config(y.at, y.occ, y.cursor)
  BY <1>4 DEF After, Config
<1>6. y.at \in Place /\ y.occ \in [Event -> Nat] /\ y.cursor \in [Event -> Nat]
  BY <1>2, <1>3, <1>5
<1>7. y \in Configs
  BY <1>5, <1>6 DEF Config, Configs
<1>8. Rank(c) < Rank(y)
  <2>1. y.at \in Point => y.at > c.at
    <3>1. /\ \A o \in Options(d) : d.next[o] \in Point => d.next[o] > c.at
          /\ d.stray \notin Point
      BY <1>1, SetupFacts, DrawFacts, PlaceFacts DEF TypeOK
    <3> QED
      BY <1>5, <3>1 DEF Follow
  <2>2. c.at \in Nat /\ c.at <= Events /\ Events \in Nat /\ (y.at \in Point => y.at \in Nat)
    BY <1>1, PlaceFacts, OracleAssumption
  <2> QED
    BY <1>1, <2>1, <2>2 DEF Rank
<1>9. Count(d, c) \in Nat
  BY <1>2, <1>3 DEF Count
<1>10. \A e \in Event : c.occ[e] <= y.occ[e] /\ c.cursor[e] <= y.cursor[e]
  BY <1>2, <1>3, <1>5
<1>11. ~Sure(d) => Count(d, y) = Count(d, c) + 1
  BY <1>2, <1>3, <1>5 DEF Count
<1> QED
  BY <1>1, <1>4, <1>5, <1>7, <1>8, <1>9, <1>10, <1>11

LEMMA FairSteps ==
    ASSUME TypeOK, Shape, NEW F \in Decisions, NEW x, NEW R, Fair(F, x, R),
           NEW c \in R, c # x
    PROVE  /\ c \in Configs /\ IsKnown(c) /\ ~Misses(F, c)
           /\ \A d : d = DrawAt(c) => After(F, d, c) \in R
<1>1. c \in Configs /\ ~Misses(F, c)
  BY DEF Fair
<1>2. PICK c2 \in R : Steps(F, c, c2)
  BY DEF Fair, Course
<1> QED
  BY <1>1, <1>2 DEF Steps

\* A course of a settled choice that nothing follows has ended in a child
\* that was emitted.
LEMMA FairEnd ==
    ASSUME TypeOK, Shape, NEW F \in Decisions, NEW x, NEW R, Fair(F, x, R), Settled(F),
           ~IsKnown(x)
    PROVE  x.at \in seen
<1>1. PICK y : (\E Q : Course(F, y, Q)) /\ (y.at \in seen \/ Misses(F, y))
  BY DEF Settled
<1>2. PICK Q : Course(F, y, Q)
  BY <1>1
<1> DEFINE S == R \intersect Q
<1>3. Start \in S /\ S \in SUBSET Configs
  BY <1>2 DEF Fair, Course
<1>4. PICK c \in S : \A c2 \in S : Rank(c2) <= Rank(c)
  BY <1>3, FarthestConfig, Zenon
<1>5. CASE c = y
  <2>1. CASE c = x
    BY <1>1, <1>5, <2>1 DEF Misses
  <2>2. CASE c # x
    <3>1. IsKnown(c) /\ ~Misses(F, c)
      BY <1>4, <2>2, FairSteps
    <3>2. c.at \in seen /\ c.at \in Point
      BY <1>1, <1>5, <3>1 DEF IsKnown
    <3> QED
      BY <3>2, PlaceFacts DEF TypeOK
  <2> QED
    BY <2>1, <2>2
<1>6. CASE c # y
  <2>1. PICK c2 \in Q : Steps(F, c, c2)
    BY <1>2, <1>4, <1>6 DEF Course
  <2>2. PICK d : d = DrawAt(c)
    OBVIOUS
  <2>3. IsKnown(c) /\ c2 = After(F, d, c)
    BY <2>1, <2>2 DEF Steps
  <2>4. c # x /\ c \in R /\ c \in Configs
    BY <1>3, <1>4, <2>3
  <2>5. c2 \in S
    BY <2>1, <2>2, <2>3, <2>4, FairSteps
  <2>6. c2 \in Configs /\ Rank(c) < Rank(c2)
    BY <2>2, <2>3, <2>4, AfterFacts
  <2>7. Rank(c2) <= Rank(c) /\ Rank(c) \in Nat /\ Rank(c2) \in Nat
    BY <1>4, <2>4, <2>5, <2>6, RankFacts
  <2> QED
    BY <2>6, <2>7
<1> QED
  BY <1>5, <1>6

\* No draw counter on a course is ahead of the end.
LEMMA CountsGrow ==
    ASSUME TypeOK, Shape, NEW F \in Decisions, NEW x, NEW R, Fair(F, x, R)
    PROVE  \A c \in R : \A e \in Event : c.occ[e] <= x.occ[e] /\ c.cursor[e] <= x.cursor[e]
<1> DEFINE Behind(c) == \A e \in Event : c.occ[e] <= x.occ[e] /\ c.cursor[e] <= x.cursor[e]
           S == {c \in R : ~Behind(c)}
<1>1. S \in SUBSET Configs /\ x \in R /\ x \in Configs
  BY DEF Fair, Course
<1>2. Behind(x)
  BY <1>1, RankFacts
<1>3. ASSUME S # {} PROVE FALSE
  <2> HIDE DEF Behind
  <2>1. PICK c \in S : \A c2 \in S : Rank(c2) <= Rank(c)
    BY <1>1, <1>3, FarthestConfig, Zenon
  <2>2. c \in R /\ c # x /\ c \in Configs
    BY <1>1, <1>2, <2>1
  <2>3. PICK d, y : d = DrawAt(c) /\ y = After(F, d, c)
    OBVIOUS
  <2>4. IsKnown(c) /\ y \in R
    BY <2>2, <2>3, FairSteps
  <2>5. /\ y \in Configs /\ Rank(c) < Rank(y)
        /\ \A e \in Event : c.occ[e] <= y.occ[e] /\ c.cursor[e] <= y.cursor[e]
    BY <2>2, <2>3, <2>4, AfterFacts
  <2>6. y \notin S
    <3>1. Rank(c) \in Nat /\ Rank(y) \in Nat
      BY <2>2, <2>5, RankFacts
    <3> QED
      BY <2>1, <2>5, <3>1
  <2>7. Behind(y)
    BY <2>4, <2>6
  <2>8. Behind(c)
    <3>1. /\ c.occ \in [Event -> Nat] /\ c.cursor \in [Event -> Nat]
          /\ y.occ \in [Event -> Nat] /\ y.cursor \in [Event -> Nat]
          /\ x.occ \in [Event -> Nat] /\ x.cursor \in [Event -> Nat]
      BY <1>1, <2>2, <2>5, RankFacts
    <3> QED
      BY <2>5, <2>7, <3>1 DEF Behind
  <2> QED
    BY <2>1, <2>8
<1> QED
  BY <1>3

\* A draw on the way is behind the end in the count of its kind.
LEMMA EarlierCount ==
    ASSUME TypeOK, Shape, NEW F \in Decisions, NEW x, NEW R, Fair(F, x, R),
           NEW c \in R, c # x, NEW d, d = DrawAt(c), ~Sure(d)
    PROVE  Count(d, c) \in Nat /\ Count(d, c) < Count(d, x)
<1>1. c \in Configs /\ IsKnown(c) /\ After(F, d, c) \in R
  BY FairSteps
<1>2. PICK y \in R : y = After(F, d, c)
  BY <1>1
<1>3. d \in Draw /\ Count(d, c) \in Nat /\ Count(d, y) = Count(d, c) + 1
  BY <1>1, <1>2, AfterFacts
<1>4. d.event \in Event
  BY <1>3, DrawFacts
<1>5. y.occ[d.event] <= x.occ[d.event] /\ y.cursor[d.event] <= x.cursor[d.event]
  BY <1>4, CountsGrow
<1>6. Count(d, y) <= Count(d, x)
  BY <1>5 DEF Count
<1>7. Count(d, x) \in Nat
  <2>1. x \in Configs
    BY DEF Fair, Course
  <2>2. x.occ \in [Event -> Nat] /\ x.cursor \in [Event -> Nat]
    BY <2>1, RankFacts
  <2> QED
    BY <1>4, <2>2 DEF Count
<1> QED
  BY <1>3, <1>6, <1>7

\* A choice with one value changed.
SameBut(G, F, ch, e, n) ==
    \A c \in {"A", "B"} : \A f \in Event : \A k \in Nat :
        ~(c = ch /\ f = e /\ k = n) => G[c][f][k] = F[c][f][k]

LEMMA Redecided ==
    ASSUME NEW F \in Decisions, NEW ch \in {"A", "B"}, NEW e \in Event, NEW n \in Nat,
           NEW v \in 0..3
    PROVE  \E G \in Decisions : G[ch][e][n] = v /\ SameBut(G, F, ch, e, n)
<1> DEFINE G == [c \in {"A", "B"} |-> [f \in Event |-> [k \in Nat |->
                    IF c = ch /\ f = e /\ k = n THEN v ELSE F[c][f][k]]]]
<1>1. \A c \in {"A", "B"} : \A f \in Event : \A k \in Nat : F[c][f][k] \in 0..3
  BY DEF Decisions
<1>2. G \in Decisions
  BY <1>1 DEF Decisions
<1>3. /\ G[ch][e][n] = v
      /\ \A c \in {"A", "B"} : \A f \in Event : \A k \in Nat :
            ~(c = ch /\ f = e /\ k = n) => G[c][f][k] = F[c][f][k]
  OBVIOUS
<1> HIDE DEF G
<1> QED
  BY <1>2, <1>3 DEF SameBut

\* What a course does not come to may change.
LEMMA SameValue ==
    ASSUME NEW F, NEW G, NEW d, NEW c, Value(G, d, c) = Value(F, d, c)
    PROVE  After(G, d, c) = After(F, d, c)
BY DEF After

\* Each option of the event a course ends at leads on.
LEMMA FairFork ==
    ASSUME FixedOptions, TypeOK, Shape, NEW F \in Decisions, Valid(setup, F),
           NEW x, NEW R, Fair(F, x, R), IsKnown(x), NEW d, d = DrawAt(x), NEW v \in Options(d)
    PROVE  \E G \in Decisions :
              Valid(setup, G) /\ \E y : y.at = d.next[v] /\ \E Q : Fair(G, y, Q)
<1>1. x \in R /\ x \in Configs /\ R \subseteq Configs /\ Start \in R
  BY DEF Fair, Course
<1>2. /\ d \in Draw /\ d \in setup.draws[x.at] /\ x.at \in Point /\ Count(d, x) \in Nat
      /\ d.event \in Event /\ d.channel \in {"A", "B"}
      /\ Options(d) \in (SUBSET (0..3)) \ {{}}
  <2>1. \A y : y = After(F, d, x) =>
          d \in Draw /\ d \in setup.draws[x.at] /\ x.at \in Point /\ Count(d, x) \in Nat
    BY <1>1, AfterFacts
  <2>2. d \in Draw
    BY <2>1
  <2> QED
    BY <2>1, <2>2, DrawFacts
\* G has v for the event, and F's values for the draws before it.
<1>3. PICK G \in Decisions :
         /\ Valid(setup, G) /\ Value(G, d, x) = v
         /\ \A c \in R : \A dc : c # x /\ dc = DrawAt(c) => Value(G, dc, c) = Value(F, dc, c)
  <2>1. CASE Sure(d)
    <3>1. v = Min(Options(d))
      <4>1. Min(Options(d)) \in Options(d) /\ IsFiniteSet(Options(d))
        BY <1>2, OptionFacts
      <4>2. \A a, b \in Options(d) : a = b
        <5>1. Cardinality(Options(d)) = 1
          BY <2>1 DEF Sure, Saturated
        <5>2. \E a : Options(d) = {a}
          BY <4>1, <5>1, FS_Singleton, Zenon
        <5> QED
          BY <5>2
      <4> QED
        BY <4>1, <4>2
    <3>2. Value(F, d, x) = v
      BY <2>1, <3>1 DEF Value
    <3> QED
      BY <3>2
  <2>2. CASE ~Sure(d)
    <3>1. PICK G \in Decisions :
             /\ G[d.channel][d.event][Count(d, x)] = v
             /\ SameBut(G, F, d.channel, d.event, Count(d, x))
      <4>1. PICK ch \in {"A", "B"}, e \in Event, n \in Nat, w \in 0..3 :
                ch = d.channel /\ e = d.event /\ n = Count(d, x) /\ w = v
        BY <1>2
      <4>2. \E G \in Decisions : G[ch][e][n] = w /\ SameBut(G, F, ch, e, n)
        BY Redecided, Zenon
      <4> QED
        BY <4>1, <4>2, Zenon
    <3>2. Value(G, d, x) = v
      BY <2>2, <3>1 DEF Value
    <3>3. ASSUME NEW c \in R, NEW dc, c # x, dc = DrawAt(c)
          PROVE  Value(G, dc, c) = Value(F, dc, c)
      <4>1. CASE Sure(dc)
        BY <4>1 DEF Value
      <4>2. CASE ~Sure(dc)
        <5>1. Count(dc, c) \in Nat /\ Count(dc, c) < Count(dc, x)
          BY <3>3, <4>2, EarlierCount
        <5>2. IsKnown(c) /\ c \in Configs
          BY <3>3, FairSteps
        <5>3. dc \in Draw
          <6>1. \A y : y = After(F, dc, c) => dc \in Draw
            BY <3>3, <5>2, AfterFacts
          <6> QED
            BY <6>1
        <5>4. dc.event \in Event /\ dc.channel \in {"A", "B"}
          BY <5>3, DrawFacts
        <5>5. dc.channel = d.channel /\ dc.event = d.event => Count(dc, x) = Count(d, x)
          BY DEF Count
        <5>6. ~(dc.channel = d.channel /\ dc.event = d.event /\ Count(dc, c) = Count(d, x))
          BY <1>2, <5>1, <5>5
        <5>7. G[dc.channel][dc.event][Count(dc, c)] = F[dc.channel][dc.event][Count(dc, c)]
          BY <3>1, <5>1, <5>4, <5>6 DEF SameBut
        <5> QED
          BY <4>2, <5>7 DEF Value
      <4> QED
        BY <4>1, <4>2
    <3>4. ASSUME NEW p \in Point, NEW d2 \in setup.draws[p], d2.channel = "A", NEW n \in Nat
          PROVE  G["A"][d2.event][n] \in Options(d2)
      <4>1. d2.event \in Event /\ F["A"][d2.event][n] \in Options(d2)
        <5>1. d2 \in Draw
          BY <3>4, SetupFacts DEF TypeOK
        <5> QED
          BY <3>4, <5>1, DrawFacts DEF Valid
      <4>2. CASE d.channel = "A" /\ d2.event = d.event
        <5>1. Fits(setup, "A", d.event, Options(d))
          BY <1>2, <4>2, QuestionFits
        <5>2. v \in Options(d2)
          BY <3>4, <4>2, <5>1 DEF Fits
        <5>3. n = Count(d, x) \/ G["A"][d2.event][n] = F["A"][d2.event][n]
          BY <3>1, <4>1 DEF SameBut
        <5> QED
          BY <3>1, <4>1, <4>2, <5>2, <5>3
      <4>3. CASE ~(d.channel = "A" /\ d2.event = d.event)
        <5>1. G["A"][d2.event][n] = F["A"][d2.event][n]
          BY <3>1, <4>1, <4>3 DEF SameBut
        <5> QED
          BY <4>1, <5>1
      <4> QED
        BY <4>2, <4>3
    <3>5. Valid(setup, G)
      BY <3>4 DEF Valid
    <3> QED
      BY <3>2, <3>3, <3>5
  <2> QED
    BY <2>1, <2>2
<1>4. PICK y : y = After(G, d, x)
  OBVIOUS
<1>5. y \in Configs /\ y.at = Follow(d, v)
  BY <1>1, <1>3, <1>4, AfterFacts
<1>6. y.at = d.next[v]
  BY <1>5 DEF Follow
<1> DEFINE Q == R \union {y}
<1>7. ASSUME NEW c \in Q, c # y
      PROVE  (\E c2 \in Q : Steps(G, c, c2)) /\ ~Misses(G, c)
  <2>1. CASE c = x
    <3>1. Steps(G, x, y)
      BY <1>4 DEF Steps
    <3>2. ~Misses(G, x)
      BY <1>3 DEF Misses
    <3> QED
      BY <2>1, <3>1, <3>2
  <2>2. CASE c # x
    <3>1. c \in R
      BY <1>7
    <3>2. PICK dc, c2 : dc = DrawAt(c) /\ c2 = After(F, dc, c)
      OBVIOUS
    <3>3. IsKnown(c) /\ c2 \in R /\ ~Misses(F, c)
      BY <2>2, <3>1, <3>2, FairSteps
    <3>4. Value(G, dc, c) = Value(F, dc, c)
      BY <1>3, <2>2, <3>1, <3>2
    <3>5. c2 = After(G, dc, c)
      BY <3>2, <3>4, SameValue
    <3>6. Steps(G, c, c2)
      BY <3>2, <3>3, <3>5 DEF Steps
    <3>7. ~Misses(G, c)
      BY <3>2, <3>3, <3>4 DEF Misses
    <3> QED
      BY <3>3, <3>6, <3>7
  <2> QED
    BY <2>1, <2>2
<1>8. Fair(G, y, Q)
  <2>1. Course(G, y, Q)
    BY <1>1, <1>7 DEF Course
  <2>2. Q \subseteq Configs
    BY <1>1, <1>5
  <2> HIDE DEF Q
  <2> QED
    BY <1>7, <2>1, <2>2 DEF Fair
<1> QED
  BY <1>3, <1>6, <1>8

\* Some choice answers every question with one of its options.
LEMMA SomeDecision ==
    ASSUME FixedOptions, TypeOK
    PROVE  \E F \in Decisions : Valid(setup, F)
<1> DEFINE Offered(e, v) == \A p \in Point : \A d \in setup.draws[p] :
                                d.channel = "A" /\ d.event = e => v \in Options(d)
           F == [c \in {"A", "B"} |-> [e \in Event |-> [k \in Nat |->
                    CHOOSE v \in 0..3 : Offered(e, v)]]]
<1>1. ASSUME NEW e \in Event PROVE \E v \in 0..3 : Offered(e, v)
  <2>1. CASE \E p \in Point : \E d \in setup.draws[p] : d.channel = "A" /\ d.event = e
    <3>1. PICK p \in Point : \E d \in setup.draws[p] : d.channel = "A" /\ d.event = e
      BY <2>1
    <3>2. PICK d \in setup.draws[p] : d.channel = "A" /\ d.event = e
      BY <3>1
    <3>3. Options(d) \in (SUBSET (0..3)) \ {{}}
      <4>1. d \in Draw
        BY <3>1, <3>2, SetupFacts DEF TypeOK
      <4> QED
        BY <4>1, DrawFacts
    <3>4. PICK v \in 0..3 : v \in Options(d)
      BY <3>3
    <3>5. Fits(setup, "A", d.event, Options(d))
      BY <3>1, <3>2, QuestionFits
    <3>6. Offered(e, v)
      BY <3>2, <3>4, <3>5 DEF Fits
    <3> QED
      BY <3>6
  <2>2. CASE ~\E p \in Point : \E d \in setup.draws[p] : d.channel = "A" /\ d.event = e
    <3>1. Offered(e, 0)
      BY <2>2
    <3> HIDE DEF Offered
    <3>2. 0 \in 0..3
      OBVIOUS
    <3> QED
      BY <3>1, <3>2
  <2> QED
    BY <2>1, <2>2
<1> HIDE DEF Offered
<1>2. \A e \in Event : (CHOOSE v \in 0..3 : Offered(e, v)) \in 0..3
                       /\ Offered(e, CHOOSE v \in 0..3 : Offered(e, v))
  BY <1>1
<1>3. F \in Decisions
  BY <1>2 DEF Decisions
<1>4. ASSUME NEW p \in Point, NEW d \in setup.draws[p], d.channel = "A", NEW n \in Nat
      PROVE  F["A"][d.event][n] \in Options(d)
  <2>1. d.event \in Event
    <3>1. d \in Draw
      BY <1>4, SetupFacts DEF TypeOK
    <3> QED
      BY <3>1, DrawFacts
  <2>2. F["A"][d.event][n] = CHOOSE v \in 0..3 : Offered(d.event, v)
    BY <2>1
  <2>3. Offered(d.event, F["A"][d.event][n])
    BY <1>2, <2>1, <2>2
  <2> QED
    BY <1>4, <2>3 DEF Offered
<1>5. Valid(setup, F)
  BY <1>4 DEF Valid
<1> HIDE DEF F
<1> QED
  BY <1>3, <1>5

\* Every event that AI action o can come to has been met, and every child that
\* follows one has been emitted.
Covered(o) ==
    \A p \in CanCome(o) :
        <<o, p>> \in DOMAIN program /\ \A c \in Child : CanFollow(o, p, c) => c \in seen

LEMMA AllCovered ==
    ASSUME FixedOptions, TypeOK, Shape,
           \A F \in Decisions : Valid(setup, F) => Settled(F)
    PROVE  Covered(opp)
<1> DEFINE Taken(q) == \E F \in Decisions :
                          Valid(setup, F) /\ \E x : x.at = q /\ \E R : Fair(F, x, R)
<1>1. Taken(1)
  <2>1. PICK F \in Decisions : Valid(setup, F)
    BY SomeDecision
  <2>2. Start.at = 1 /\ Start \in Configs
    BY PlaceFacts DEF Start, Config, Configs
  <2>3. Fair(F, Start, {Start})
    BY <2>2 DEF Fair, Course
  <2> QED
    BY <2>1, <2>2, <2>3
<1>2. ASSUME NEW q, Taken(q) PROVE q \in seen \/ <<opp, q>> \in DOMAIN program
  <2>1. PICK F \in Decisions : Valid(setup, F) /\ \E x : x.at = q /\ \E R : Fair(F, x, R)
    BY <1>2
  <2>2. PICK x : x.at = q /\ \E R : Fair(F, x, R)
    BY <2>1
  <2>3. PICK R : Fair(F, x, R)
    BY <2>2
  <2>4. IsKnown(x) \/ x.at \in seen
    BY <2>1, <2>3, FairEnd
  <2> QED
    BY <2>2, <2>4 DEF IsKnown
<1>3. ASSUME NEW p \in Point, NEW q, Taken(p), CanFollow(opp, p, q) PROVE Taken(q)
  <2>1. PICK F \in Decisions : Valid(setup, F) /\ \E x : x.at = p /\ \E R : Fair(F, x, R)
    BY <1>3
  <2>2. PICK x : x.at = p /\ \E R : Fair(F, x, R)
    BY <2>1
  <2>3. PICK R : Fair(F, x, R)
    BY <2>2
  <2>4. PICK d : d = DrawAt(x)
    OBVIOUS
  <2>5. IsKnown(x) /\ \E v \in Options(d) : d.next[v] = q
    BY <1>3, <2>2, <2>4 DEF IsKnown, DrawAt, CanFollow
  <2>6. PICK v \in Options(d) : d.next[v] = q
    BY <2>5
  <2>7. \E G \in Decisions :
           Valid(setup, G) /\ \E y : y.at = d.next[v] /\ \E Q : Fair(G, y, Q)
    BY <2>1, <2>3, <2>4, <2>5, FairFork
  <2> QED
    BY <2>6, <2>7
<1> HIDE DEF Taken
<1>4. \A p \in CanCome(opp) : Taken(p)
  <2> SUFFICES ASSUME NEW p0 \in CanCome(opp), ~Taken(p0) PROVE FALSE
    OBVIOUS
  <2>1. PICK R \in SUBSET Point : p0 \in R /\ Backed(opp, R)
    BY ComeFacts
  <2> DEFINE T == {p \in R : ~Taken(p)}
  <2>2. T \in SUBSET Nat /\ T # {}
    BY <2>1, PlaceFacts
  <2>3. PICK q \in T : \A p \in T : q <= p
    BY <2>2, LeastMember, Zenon
  <2>4. q # 1 /\ q \in Point
    BY <1>1, <2>1, <2>3
  <2>5. PICK p \in R : CanFollow(opp, p, q)
    BY <2>1, <2>3, <2>4 DEF Backed
  <2>6. p < q /\ p \in Nat /\ q \in Nat
    <3>1. PICK d : d = program[<<opp, p>>]
      OBVIOUS
    <3>2. <<opp, p>> \in DOMAIN program /\ \E v \in Options(d) : d.next[v] = q
      BY <2>5, <3>1 DEF CanFollow
    <3>3. d \in setup.draws[p] /\ p \in Point
      BY <3>1, <3>2, ProgramFacts
    <3>4. \A v \in Options(d) : d.next[v] \in Point => d.next[v] > p
      BY <3>3, SetupFacts DEF TypeOK
    <3> QED
      BY <2>4, <3>2, <3>3, <3>4, PlaceFacts
  <2>7. Taken(p)
    BY <2>3, <2>5, <2>6
  <2> QED
    BY <1>3, <2>1, <2>3, <2>5, <2>7
<1>5. ASSUME NEW p \in CanCome(opp)
      PROVE  <<opp, p>> \in DOMAIN program /\ \A c \in Child : CanFollow(opp, p, c) => c \in seen
  <2>1. p \in Point /\ Taken(p)
    BY <1>4, ComeFacts
  <2>2. <<opp, p>> \in DOMAIN program
    BY <1>2, <2>1, PlaceFacts DEF TypeOK
  <2>3. ASSUME NEW c \in Child, CanFollow(opp, p, c) PROVE c \in seen
    <3>1. Taken(c)
      BY <1>3, <2>1, <2>3
    <3>2. <<opp, c>> \notin DOMAIN program
      BY ProgramFacts, PlaceFacts
    <3> QED
      BY <1>2, <3>1, <3>2
  <2> QED
    BY <2>2, <2>3
<1> QED
  BY <1>5 DEF Covered

-----------------------------------------------------------------------------
(* The search of each AI action covers it.                                  *)

Finished(o) == o < opp \/ (o = opp /\ (pc = "start" \/ Complete))
CoverInv == \A o \in Played : Finished(o) => Covered(o)
AllInv == setup.mode = "None" => SearchInv /\ CoverInv

LEMMA SearchNext ==
    ASSUME TypeOK, Shape, ReplayInv, SearchInv, setup.mode = "None", [Next]_vars
    PROVE  SearchInv'
<1>1. call' = call
  BY DEF Next, vars
<1>2. CASE UNCHANGED vars
  BY <1>1, <1>2, SearchKept DEF vars, emitVars, ProgramGrows, Running, Searching
<1>3. ASSUME pc' \in {"start", "done", "diverged", "toodeep", "failed"} PROVE SearchInv'
  BY <1>3 DEF SearchInv, Searching
<1>4. CASE NextOpp
  <2>1. prefix' = <<>> /\ (pc' = "start" \/ pc' = "dfs")
    BY <1>4 DEF NextOpp, Shape
  <2>2. ASSUME pc' = "dfs", NEW F PROVE Pending(F)'
    BY <2>1, <2>2 DEF Pending, Running, Agrees
  <2> QED
    BY <1>3, <2>1, <2>2 DEF SearchInv
<1>5. CASE StepReturns \/ TooDeep \/ StopAtBudget \/ DfsReturns
  BY <1>3, <1>5 DEF StepReturns, TooDeep, StopAtBudget, DfsReturns
<1>6. CASE StartReplay
  BY <1>1, <1>6, SearchKept
     DEF StartReplay, emitVars, ProgramGrows, Running, Searching
<1>7. CASE TurnEnds
  <2>1. /\ pc = "turn" /\ pc' \in {"diverged", "failed", "scan"}
        /\ UNCHANGED <<program, opp, prefix, seen>>
    BY <1>7 DEF TurnEnds, emitVars
  <2>2. CASE pc' = "scan"
    BY <1>1, <2>1, <2>2, SearchKept DEF ProgramGrows, Running, Searching
  <2> QED
    BY <1>3, <2>1, <2>2
<1>8. CASE ReplayStep
  <2>1. PICK d \in setup.draws[at] :
            /\ at \in Point
            /\ \/ DrawSaturated(d) \/ DrawDefault(d)
               \/ \E i \in DOMAIN prefix : DrawForced(d, i) \/ AskAnswered(d, i)
               \/ \E v \in Options(d) : AskPauses(d, v)
    BY <1>8 DEF ReplayStep
  <2>2. d \in Draw
    BY <2>1, SetupFacts DEF TypeOK
  <2>3. ASSUME NEW v \in Options(d), AskPauses(d, v) PROVE SearchInv'
    BY <1>1, <2>1, <2>2, <2>3, SearchPause
  <2>4. CASE \/ DrawSaturated(d) \/ DrawDefault(d)
             \/ \E i \in DOMAIN prefix : DrawForced(d, i) \/ AskAnswered(d, i)
    <3>1. Meets(d) /\ prefix' = prefix /\ pc' = pc
      BY <2>4 DEF DrawSaturated, DrawDefault, DrawForced, AskAnswered
    <3>2. MeetsFacts(d)
      BY <3>1, MeetsProgram
    <3>3. ProgramGrows /\ seen' = seen
      BY <3>2, EventMet DEF MeetsFacts, emitVars
    <3> QED
      BY <1>1, <3>1, <3>3, SearchKept DEF Running, Searching
  <2> QED
    BY <2>1, <2>3, <2>4
<1>9. ASSUME NEW v \in 0..3, TryNext(v) \/ \E i \in DOMAIN log : Branch(i, v)
      PROVE  SearchInv'
  BY <1>1, <1>9, SearchTry, SearchBranch
<1>10. CASE PopBack
  BY <1>1, <1>10, SearchPop
<1>11. ASSUME NEW cont \in BOOLEAN, Emit(cont) PROVE SearchInv'
  BY <1>1, <1>11, SearchEmit
<1> QED
  BY <1>2, <1>4, <1>5, <1>6, <1>7, <1>8, <1>9, <1>10, <1>11 DEF Next

\* Nothing changes in what is known of the events of o.
SameFor(o) ==
    \A p : /\ <<o, p>> \in DOMAIN program' <=> <<o, p>> \in DOMAIN program
           /\ <<o, p>> \in DOMAIN program => program'[<<o, p>>] = program[<<o, p>>]

LEMMA CoveredKept ==
    ASSUME NEW o, SameFor(o), seen \subseteq seen', Covered(o)
    PROVE  Covered(o)'
<1>1. \A p, x : CanFollow(o, p, x)' <=> CanFollow(o, p, x)
  BY DEF SameFor, CanFollow
<1>2. CanCome(o)' = CanCome(o)
  BY <1>1 DEF CanCome
<1> QED
  BY <1>1, <1>2 DEF Covered, SameFor

\* What every step but the last of a search keeps.
LEMMA CoverKept ==
    ASSUME TypeOK, CoverInv, call' = call, opp' = opp, seen \subseteq seen',
           pc' = "start" \/ Complete' => pc = "start" \/ Complete,
           program' = program
              \/ (pc = "turn" /\ \E d : MeetsFacts(d))
    PROVE  CoverInv'
<1>1. Played' = Played
  BY DEF Played, setup
<1>2. ASSUME NEW o \in Played, Finished(o)' PROVE Covered(o)'
  <2>1. Finished(o)
    BY <1>2 DEF Finished
  <2>2. SameFor(o)
    <3>1. CASE program' = program
      BY <3>1 DEF SameFor
    <3>2. ASSUME pc = "turn", NEW d, MeetsFacts(d) PROVE SameFor(o)
      <4>1. o # opp
        <5>1. o < opp
          BY <2>1, <3>2 DEF Finished, Complete
        <5>2. o \in Nat /\ opp \in Nat
          BY SetupFacts DEF TypeOK, Played
        <5> QED
          BY <5>1, <5>2
      <4> DEFINE k == <<opp, at>>
      <4>2. \A p : <<o, p>> # k
        BY <4>1
      <4>3. /\ DOMAIN program' = DOMAIN program \union {k}
            /\ \A q \in DOMAIN program : program'[q] = program[q]
        BY <3>2 DEF MeetsFacts
      <4> HIDE DEF k
      <4> QED
        BY <4>2, <4>3 DEF SameFor
    <3> QED
      BY <3>1, <3>2
  <2> QED
    BY <2>1, <2>2, CoveredKept DEF CoverInv
<1> QED
  BY <1>1, <1>2 DEF CoverInv

LEMMA CoverNext ==
    ASSUME FixedOptions, TypeOK, Shape, SearchInv, CoverInv, [Next]_vars
    PROVE  CoverInv'
<1>1. call' = call /\ setup' = setup /\ Played' = Played
  BY DEF Next, vars, setup, Played
<1>2. CASE UNCHANGED vars
  BY <1>1, <1>2, CoverKept DEF vars, emitVars, Complete
<1>3. CASE NextOpp
  <2>1. /\ opp' = opp + 1 /\ opp < Len(setup.opps) /\ UNCHANGED <<program, seen>>
        /\ pc = "start" /\ pc' = IF setup.opps[opp + 1] = 0 THEN "start" ELSE "dfs"
    BY <1>3 DEF NextOpp
  <2>2. opp \in Nat
    BY SetupFacts DEF TypeOK
  <2>3. ASSUME NEW o \in Played, Finished(o)' PROVE Covered(o)'
    <3>1. o \in Nat
      BY SetupFacts DEF TypeOK, Played
    <3>2. ~(o = opp' /\ (pc' = "start" \/ Complete'))
      BY <2>1 DEF Played, Complete
    <3>3. o < opp'
      BY <2>3, <3>2 DEF Finished
    <3>4. Finished(o)
      BY <2>1, <2>2, <3>1, <3>3 DEF Finished
    <3>5. SameFor(o)
      BY <2>1 DEF SameFor
    <3> QED
      BY <2>1, <3>4, <3>5, CoveredKept DEF CoverInv
  <2> QED
    BY <1>1, <2>3 DEF CoverInv
<1>4. CASE DfsReturns
  <2>1. pc = "back" /\ prefix = <<>> /\ UNCHANGED <<program, opp, seen>>
    BY <1>4 DEF DfsReturns, emitVars
  <2>2. \A F \in Decisions : Valid(setup, F) => Settled(F)
    BY <2>1 DEF SearchInv, Searching, Pending, Running
  <2>3. Covered(opp)
    BY <2>2, AllCovered
  <2>4. ASSUME NEW o \in Played, Finished(o)' PROVE Covered(o)'
    <3>1. Covered(o)
      BY <2>1, <2>3, <2>4 DEF CoverInv, Finished
    <3>2. SameFor(o)
      BY <2>1 DEF SameFor
    <3> QED
      BY <2>1, <3>1, <3>2, CoveredKept
  <2> QED
    BY <1>1, <2>4 DEF CoverInv
<1>5. CASE StepReturns
  BY <1>1, <1>5, CoverKept DEF StepReturns, emitVars
<1>6. CASE TooDeep \/ StartReplay \/ TurnEnds
  BY <1>1, <1>6, CoverKept DEF TooDeep, StartReplay, TurnEnds, emitVars, Complete
<1>7. CASE StopAtBudget
  BY <1>1, <1>7, CoverKept DEF StopAtBudget, Complete
<1>8. CASE PopBack
  BY <1>1, <1>8, CoverKept DEF PopBack, emitVars, Complete
<1>9. ASSUME NEW cont \in BOOLEAN, Emit(cont) PROVE CoverInv'
  BY <1>1, <1>9, CoverKept DEF Emit, Complete
<1>10. ASSUME NEW v \in 0..3, TryNext(v) \/ \E i \in DOMAIN log : Branch(i, v)
       PROVE  CoverInv'
  BY <1>1, <1>10, CoverKept DEF TryNext, Branch, Extend, emitVars, Complete
<1>11. CASE ReplayStep
  <2>1. PICK d \in setup.draws[at] :
            /\ at \in Point
            /\ \/ DrawSaturated(d) \/ DrawDefault(d)
               \/ \E i \in DOMAIN prefix : DrawForced(d, i) \/ AskAnswered(d, i)
               \/ \E v \in Options(d) : AskPauses(d, v)
    BY <1>11 DEF ReplayStep
  <2>2. Meets(d) /\ pc' \in {"turn", "dfs", "diverged"}
    BY <2>1 DEF DrawSaturated, DrawDefault, DrawForced, AskAnswered, AskPauses, Meets, Extend
  <2>3. MeetsFacts(d)
    BY <2>2, MeetsProgram
  <2>4. opp' = opp /\ seen' = seen /\ pc = "turn"
    BY <2>3 DEF MeetsFacts, emitVars
  <2> QED
    BY <1>1, <2>2, <2>3, <2>4, CoverKept DEF Complete
<1> QED
  BY <1>2, <1>3, <1>4, <1>5, <1>6, <1>7, <1>8, <1>9, <1>10, <1>11 DEF Next

LEMMA AllInit == Init => AllInv
<1> SUFFICES ASSUME Init PROVE AllInv
  OBVIOUS
<1>1. pc = "start" /\ opp = 0 /\ call \in DOMAIN Setups
  BY DEF Init
<1>2. SearchInv
  BY <1>1 DEF SearchInv, Searching
<1>3. \A o \in Played : o \in Nat /\ o >= 1
  <2>1. setup.opps \in Seq(Nat)
    BY <1>1, SetupFacts
  <2> QED
    BY <2>1 DEF Played
<1>4. CoverInv
  BY <1>1, <1>3 DEF CoverInv, Finished
<1> QED
  BY <1>2, <1>4 DEF AllInv

LEMMA AllNext ==
    ASSUME FixedOptions, TypeOK, Shape, ReplayInv, AllInv, [Next]_vars
    PROVE  AllInv'
<1>1. setup' = setup
  BY DEF Next, vars, setup
<1>2. CASE setup.mode = "None"
  BY <1>2, SearchNext, CoverNext DEF AllInv
<1>3. CASE setup.mode # "None"
  BY <1>1, <1>3 DEF AllInv
<1> QED
  BY <1>2, <1>3

\* What a complete step in exact mode has emitted.
LEMMA AllEmitted ==
    ASSUME TypeOK, EmitsInv, AllInv, Complete, setup.mode = "None"
    PROVE  Support \subseteq seen /\ AllMet
<1>1. opp = Len(setup.opps)
  BY DEF EmitsInv
<1>2. ASSUME NEW o \in Played PROVE Covered(o)
  <2>1. o \in 1..Len(setup.opps) /\ Len(setup.opps) \in Nat
    BY SetupFacts DEF TypeOK, Played
  <2>2. Finished(o)
    BY <1>1, <2>1 DEF Finished
  <2> QED
    BY <2>2 DEF AllInv, CoverInv
<1>3. Support \subseteq seen
  BY <1>2 DEF Support, Covered
<1>4. AllMet
  BY <1>2 DEF AllMet, Covered
<1> QED
  BY <1>3, <1>4

\* What the certifiers take from step holds for every turn, distribution over
\* the AI's actions, mode, budget and depth limit, as long as all questions of
\* a kind offer the same options: nothing is emitted that the turn cannot come
\* to, a complete step has emitted something, and in exact mode it has emitted
\* every child and met every random event the turn can come to.  The forced
\* prefixes are found one replay at a time, from what the replays reveal.
THEOREM OracleKeepsContract == FixedOptions => (Spec => []StepContract)
<1> SUFFICES ASSUME FixedOptions PROVE Spec => []StepContract
  OBVIOUS
<1> DEFINE Inv == /\ TypeOK /\ Shape /\ ReplayInv /\ pc # "diverged"
                  /\ PossibleInv /\ EmitsInv /\ AllInv
<1>1. Init => Inv
  BY TypeInit, ReplayInit, PossibleInit, EmitsInit, AllInit
<1>2. Inv /\ [Next]_vars => Inv'
  BY TypeNext, ReplayNext, PossibleNext, EmitsNext, AllNext
<1>3. Inv => StepContract
  <2> SUFFICES ASSUME Inv PROVE StepContract
    OBVIOUS
  <2>1. seen \subseteq Support
    BY DEF PossibleInv
  <2>2. Complete => seen # {}
    BY EmitsSome
  <2>3. Complete /\ setup.mode = "None" => Support \subseteq seen /\ AllMet
    BY AllEmitted
  <2> QED
    BY <2>1, <2>2, <2>3 DEF StepContract
<1> HIDE DEF Inv
<1> QED
  BY <1>1, <1>2, <1>3, PTL DEF Spec
=============================================================================
