-------------------------- MODULE TransitionOracle --------------------------
(***************************************************************************)
(* TransitionOracle::step (engine/src/solver/transition_oracle.cpp): every *)
(* outcome of one turn, found by replaying the turn under a growing prefix *)
(* of forced random events.                                                *)
(*                                                                         *)
(* A turn is a program the oracle cannot inspect: random events (points)   *)
(* in the order of play, each of which leads by its value to a later one or*)
(* to a child state.  Category-B draws take a default unless their         *)
(* (event, occurrence) is injected; category-A questions take the next     *)
(* answer queued for their event, or pause the turn.  The oracle branches  *)
(* at a pause, or at the first draw in the log that its prefix does not    *)
(* force.  The program is revealed point by point as replays reach it.     *)
(***************************************************************************)
EXTENDS Integers, Sequences, FiniteSets, FiniteSetsExt

CONSTANTS
    Events,          \* bound: random events of a turn
    Child,           \* battle states after the turn
    Broken,          \* the turn ends with an engine error
    Event,           \* RngEventC
    Eligible,        \* events collapse_rule collapses in Pessimal mode
    DamageRolls,     \* events that Coarse mode collapses to two outcomes
    Setups           \* [name -> a call of step]: its Config (mode, max_leaves), the
                     \* depth limit, the probabilities of the AI's actions in
                     \* units, what the event at each point may be

Point == 1..Events

\* next: where each option leads; stray: where a value leads that is not one
\* of the options.
Draw == [channel : {"B", "A"}, event : Event,
         next : UNION {[o -> Point \union Child \union {Broken}] :
                           o \in (SUBSET (0..3)) \ {{}}},
         stray : Child]

Options(d) == DOMAIN d.next

ASSUME OracleAssumption ==
    /\ Events \in Nat \ {0}
    /\ Broken \notin Child /\ Broken \notin Point /\ Child \cap Point = {}
    /\ Eligible \subseteq Event /\ DamageRolls \subseteq Event
    /\ \A n \in DOMAIN Setups :
          /\ DOMAIN Setups[n] = {"mode", "max_leaves", "max_depth", "opps", "draws"}
          /\ Setups[n].mode \in {"None", "Pessimal", "Coarse"}
          /\ Setups[n].max_leaves \in Nat /\ Setups[n].max_depth \in Nat
          /\ Setups[n].opps \in Seq(Nat)
          /\ \E i \in DOMAIN Setups[n].opps : Setups[n].opps[i] # 0
          /\ \A p \in Point : \A d \in Setups[n].draws[p] :
                /\ d \in Draw
                /\ \A v \in Options(d) : d.next[v] \in Point => d.next[v] > p

VARIABLES
    call,      \* name of the call
    program,   \* events revealed so far: <<AI action, point>> -> Draw
    opp,       \* index of the AI action, 0 before the first
    pc,        \* "start", "dfs", "turn", "scan", "back", "done" or an exception
    prefix,    \* PrefixEntry sequence, each with the options still to try
    at,        \* point or child state the replay has reached
    occ,       \* CategoryBOccurrenceCounters
    cursor,    \* answers consumed per event (persistent_cursor)
    log,       \* Cat-B part of the AnalyticalRngLog
    consumed,  \* positions of the prefix whose injection was consumed
    leaves,    \* leaves emitted for this AI action
    weight,    \* probability emitted per child, in units
    seen,      \* children emitted
    aborted,   \* the callback asked to stop
    exceeded   \* the leaf budget was exceeded

turnVars == <<at, occ, cursor, log, consumed>>
emitVars == <<leaves, weight, seen, aborted, exceeded>>
vars == <<call, program, opp, pc, prefix, turnVars, emitVars>>

PrefixEntry == [channel : {"B", "A"}, event : Event, occ : Nat, val : 0..3,
                todo : SUBSET (0..3), w : Nat]
LogEntry == [event : Event, opts : (SUBSET (0..3)) \ {{}}]

setup == Setups[call]

Last(s) == s[Len(s)]
Front(s) == SubSeq(s, 1, Len(s) - 1)
Put(f, k, v) == [x \in DOMAIN f \union {k} |-> IF x = k THEN v ELSE f[x]]

Init ==
    /\ call \in DOMAIN Setups
    /\ program = [k \in {} |-> k]
    /\ opp = 0
    /\ pc = "start"
    /\ prefix = <<>>
    /\ at = 1
    /\ occ = [e \in Event |-> 0]
    /\ cursor = [e \in Event |-> 0]
    /\ log = <<>>
    /\ consumed = {}
    /\ leaves = 0
    /\ weight = [c \in Child |-> 0]
    /\ seen = {}
    /\ aborted = FALSE
    /\ exceeded = FALSE

-----------------------------------------------------------------------------
(* step: the loop over the AI's actions.                                    *)

\* Mutant: an action of probability zero is not passed over.
MutNextOpp ==
    /\ pc = "start"
    /\ opp < Len(setup.opps)
    /\ opp' = IF setup.opps[opp + 1] = 0 THEN opp ELSE opp + 1
    /\ pc' = IF setup.opps[opp + 1] = 0 THEN "start" ELSE "dfs"
    /\ leaves' = 0
    /\ UNCHANGED <<program, prefix, turnVars, weight, seen, aborted, exceeded>>

\* A new DFSState; an action of probability zero is passed over.
NextOpp ==
    /\ pc = "start"
    /\ opp < Len(setup.opps)
    /\ opp' = opp + 1
    /\ pc' = IF setup.opps[opp + 1] = 0 THEN "start" ELSE "dfs"
    /\ leaves' = 0
    /\ UNCHANGED <<program, prefix, turnVars, weight, seen, aborted, exceeded>>

StepReturns ==
    /\ pc = "start"
    /\ opp = Len(setup.opps)
    /\ pc' = "done"
    /\ UNCHANGED <<program, opp, prefix, turnVars, emitVars>>

-----------------------------------------------------------------------------
(* dfs: one replay of the turn.                                             *)

TooDeep ==
    /\ pc = "dfs"
    /\ Len(prefix) > setup.max_depth
    /\ pc' = "toodeep"
    /\ UNCHANGED <<program, opp, prefix, turnVars, emitVars>>

\* Injection, overrides, counters and log are rebuilt from the prefix.
StartReplay ==
    /\ pc = "dfs"
    /\ Len(prefix) <= setup.max_depth
    /\ pc' = "turn"
    /\ at' = 1
    /\ occ' = [e \in Event |-> 0]
    /\ cursor' = [e \in Event |-> 0]
    /\ log' = <<>>
    /\ consumed' = {}
    /\ UNCHANGED <<program, opp, prefix, emitVars>>

\* The replay is at a random event, and it is d.
Meets(d) ==
    /\ pc = "turn"
    /\ at \in Point
    /\ IF <<opp, at>> \in DOMAIN program
       THEN d = program[<<opp, at>>] /\ UNCHANGED program
       ELSE program' = Put(program, <<opp, at>>, d)
    /\ UNCHANGED <<opp, emitVars>>

Follow(d, v) == IF v \in Options(d) THEN d.next[v] ELSE d.stray

Saturated(opts) == Cardinality(opts) = 1

Log(d) == log' = Append(log, [event |-> d.event, opts |-> Options(d)])

\* A certain outcome is logged but neither counted nor injected.
DrawSaturated(d) ==
    /\ d.channel = "B" /\ Saturated(Options(d))
    /\ Meets(d)
    /\ at' = Follow(d, Min(Options(d)))
    /\ Log(d)
    /\ UNCHANGED <<pc, prefix, occ, cursor, consumed>>

\* CategoryBInjection::find.
Injected(e, n) ==
    {i \in DOMAIN prefix : prefix[i].channel = "B" /\ prefix[i].event = e /\ prefix[i].occ = n}

BumpOccurrence(e) == occ' = [occ EXCEPT ![e] = occ[e] + 1]

DrawForced(d, i) ==
    /\ d.channel = "B" /\ ~Saturated(Options(d))
    /\ i \in Injected(d.event, occ[d.event])
    /\ Meets(d)
    /\ at' = Follow(d, prefix[i].val)
    /\ Log(d)
    /\ BumpOccurrence(d.event)
    /\ consumed' = consumed \union {i}
    /\ UNCHANGED <<pc, prefix, cursor>>

\* The threshold decides: one fixed option.
DrawDefault(d) ==
    /\ d.channel = "B" /\ ~Saturated(Options(d))
    /\ Injected(d.event, occ[d.event]) = {}
    /\ Meets(d)
    /\ at' = Follow(d, Min(Options(d)))
    /\ Log(d)
    /\ BumpOccurrence(d.event)
    /\ UNCHANGED <<pc, prefix, cursor, consumed>>

\* build_overrides: the queue of event e is filled in the order of the prefix.
Queue(e) == {i \in DOMAIN prefix : prefix[i].channel = "A" /\ prefix[i].event = e}
Ahead(i) == {j \in 1..(i - 1) : prefix[j].channel = "A" /\ prefix[j].event = prefix[i].event}
Answer(e, n) == {i \in Queue(e) : Cardinality(Ahead(i)) = n}

\* Mutant: an answer is not used up.
MutUsedUp(e) == cursor

UsedUp(e) == [cursor EXCEPT ![e] = cursor[e] + 1]

\* oracle_resolve with an answer left: no check that it is one of d's options.
AskAnswered(d, i) ==
    /\ d.channel = "A"
    /\ i \in Answer(d.event, cursor[d.event])
    /\ Meets(d)
    /\ at' = Follow(d, prefix[i].val)
    /\ cursor' = UsedUp(d.event)
    /\ UNCHANGED <<pc, prefix, occ, log, consumed>>

\* verify_exhausted: only injected draws are looked at.
Exhausted == \A i \in DOMAIN prefix : prefix[i].channel = "B" => i \in consumed

Weight == IF prefix = <<>> THEN setup.opps[opp] ELSE Last(prefix).w

\* One more forced event: the first option v of opts.
Extend(ch, e, n, v, opts) ==
    /\ v \in opts
    /\ prefix' = Append(prefix, [channel |-> ch, event |-> e, occ |-> n, val |-> v,
                                 todo |-> opts \ {v}, w |-> Weight \div Cardinality(opts)])
    /\ pc' = "dfs"

\* NeedsRNG: the turn pauses, the injections are verified and the options
\* become branches.
AskPauses(d, v) ==
    /\ d.channel = "A"
    /\ cursor[d.event] = Cardinality(Queue(d.event))
    /\ Meets(d)
    /\ IF Exhausted
       THEN Extend("A", d.event, 0, v, Options(d))
       ELSE pc' = "diverged" /\ UNCHANGED prefix
    /\ UNCHANGED turnVars

TurnEnds ==
    /\ pc = "turn"
    /\ at \notin Point
    /\ pc' = IF ~Exhausted THEN "diverged" ELSE IF at = Broken THEN "failed" ELSE "scan"
    /\ UNCHANGED <<program, opp, prefix, turnVars, emitVars>>

-----------------------------------------------------------------------------
(* dfs: the log is scanned for the first draw beyond the prefix.            *)

CatbEntries == {i \in DOMAIN prefix : prefix[i].channel = "B"}
CatbCount == Cardinality(CatbEntries)

\* Positions of uncertain draws, and the one behind those the prefix forces.
BranchPoints == {i \in DOMAIN log : ~Saturated(log[i].opts)}
Earlier(i) == {j \in BranchPoints : j < i}
Unforced == {i \in BranchPoints : Cardinality(Earlier(i)) = CatbCount}

\* Mutant: draws of every event are counted.
MutOccurrence(i) == CatbCount

\* occ_of_branch: earlier uncertain draws of the same event.
Occurrence(i) == Cardinality({j \in Earlier(i) : log[j].event = log[i].event})

\* Mutant: the upper end is one past the last outcome.
MutExpandOptions(e, opts) ==
    CASE setup.mode = "Pessimal" /\ e \in Eligible -> {Max(opts) + 1}
      [] setup.mode = "Coarse" /\ e \in DamageRolls -> {Min(opts), Max(opts) + 1}
      [] OTHER -> opts

\* expand_catb_options.  Pessimal keeps the worst outcome of an eligible
\* event, Coarse both ends of a damage roll.
ExpandOptions(e, opts) ==
    CASE setup.mode = "Pessimal" /\ e \in Eligible -> {Max(opts)}
      [] setup.mode = "Coarse" /\ e \in DamageRolls -> {Min(opts), Max(opts)}
      [] OTHER -> opts

\* Any order of the options: Natural or AdverseFirst.
Branch(i, v) ==
    /\ pc = "scan"
    /\ i \in Unforced
    /\ Extend("B", log[i].event, Occurrence(i), v, ExpandOptions(log[i].event, log[i].opts))
    /\ UNCHANGED <<program, opp, turnVars, emitVars>>

AtLeaf == pc = "scan" /\ Unforced = {}

\* Mutant: one leaf too many.
MutOverBudget == leaves > setup.max_leaves

OverBudget == leaves >= setup.max_leaves

StopAtBudget ==
    /\ AtLeaf
    /\ OverBudget
    /\ exceeded' = TRUE
    /\ pc' = "done"
    /\ UNCHANGED <<program, opp, prefix, turnVars, leaves, weight, seen, aborted>>

\* The callback returns cont.
Emit(cont) ==
    /\ AtLeaf
    /\ ~OverBudget
    /\ leaves' = leaves + 1
    /\ weight' = [weight EXCEPT ![at] = weight[at] + Weight]
    /\ seen' = seen \union {at}
    /\ aborted' = ~cont
    /\ pc' = IF cont THEN "back" ELSE "done"
    /\ UNCHANGED <<program, opp, prefix, turnVars, exceeded>>

-----------------------------------------------------------------------------
(* dfs: the call for the last entry has returned.                           *)

TryNext(v) ==
    /\ pc = "back" /\ prefix # <<>>
    /\ v \in Last(prefix).todo
    /\ prefix' = [prefix EXCEPT ![Len(prefix)].val = v,
                                ![Len(prefix)].todo = Last(prefix).todo \ {v}]
    /\ pc' = "dfs"
    /\ UNCHANGED <<program, opp, turnVars, emitVars>>

PopBack ==
    /\ pc = "back" /\ prefix # <<>>
    /\ Last(prefix).todo = {}
    /\ prefix' = Front(prefix)
    /\ UNCHANGED <<program, opp, pc, turnVars, emitVars>>

DfsReturns ==
    /\ pc = "back" /\ prefix = <<>>
    /\ pc' = "start"
    /\ UNCHANGED <<program, opp, prefix, turnVars, emitVars>>

\* One random event of the replay.
ReplayStep ==
    \E d \in IF at \in Point THEN setup.draws[at] ELSE {} :
        \/ DrawSaturated(d) \/ DrawDefault(d)
        \/ \E i \in DOMAIN prefix : DrawForced(d, i) \/ AskAnswered(d, i)
        \/ \E v \in Options(d) : AskPauses(d, v)

Next ==
    /\ \/ NextOpp \/ StepReturns \/ TooDeep \/ StartReplay
       \/ ReplayStep \/ TurnEnds
       \/ StopAtBudget \/ PopBack \/ DfsReturns
       \/ \E v \in 0..3 : TryNext(v) \/ \E i \in DOMAIN log : Branch(i, v)
       \/ \E cont \in BOOLEAN : Emit(cont)
    /\ UNCHANGED call

Spec == Init /\ [][Next]_vars

\* step runs on its caller's thread until it returns or throws.
FairSpec == Spec /\ WF_vars(Next)

-----------------------------------------------------------------------------
(* The outcomes of the turn, read off the program.                          *)

\* Probability of event x of AI action o, summed over the ways to get there.
Arrives(o, q, x, w) ==
    LET d == program[<<o, q>>]
    IN  (w \div Cardinality(Options(d))) * Cardinality({v \in Options(d) : d.next[v] = x})

PointWeight[o \in DOMAIN setup.opps, p \in Point] ==
    IF p = 1 THEN setup.opps[o]
    ELSE MapThenSumSet(LAMBDA q : Arrives(o, q, p, PointWeight[o, q]),
                       {q \in 1..(p - 1) : <<o, q>> \in DOMAIN program})

ChildWeight(c) ==
    MapThenSumSet(LAMBDA k : Arrives(k[1], k[2], c, PointWeight[k[1], k[2]]), DOMAIN program)

\* The same without the weights: the events that AI action o can come to (each
\* follows another, and later, one; the first is 1), and the children.
CanFollow(o, p, x) ==
    /\ <<o, p>> \in DOMAIN program
    /\ \E v \in Options(program[<<o, p>>]) : program[<<o, p>>].next[v] = x

CanCome(o) ==
    UNION {R \in SUBSET Point : \A p \in R : p = 1 \/ \E q \in R : CanFollow(o, q, p)}

Played == {o \in DOMAIN setup.opps : setup.opps[o] # 0}

Support == {c \in Child : \E o \in Played : \E p \in CanCome(o) : CanFollow(o, p, c)}

\* No event of the turn is left that no replay has met.
AllMet == \A o \in Played : \A p \in CanCome(o) : <<o, p>> \in DOMAIN program

Over == pc \in {"done", "diverged", "toodeep", "failed"}
Complete == pc = "done" /\ ~aborted /\ ~exceeded

-----------------------------------------------------------------------------
(* Properties.                                                              *)

\* Type invariant; no more leaves than the budget are emitted.
TypeOK ==
    /\ call \in DOMAIN Setups
    /\ \A k \in DOMAIN program : program[k] \in setup.draws[k[2]]
    /\ opp \in 0..Len(setup.opps)
    /\ pc \in {"start", "dfs", "turn", "scan", "back", "done", "diverged", "toodeep", "failed"}
    /\ prefix \in Seq(PrefixEntry)
    /\ at \in Point \union Child \union {Broken}
    /\ occ \in [Event -> Nat] /\ cursor \in [Event -> Nat]
    /\ log \in Seq(LogEntry)
    /\ consumed \subseteq 1..(setup.max_depth + 1)
    /\ leaves \in 0..setup.max_leaves
    /\ weight \in [Child -> Nat] /\ seen \subseteq Child
    /\ aborted \in BOOLEAN /\ exceeded \in BOOLEAN

\* A replay never diverges from its prefix, and the prefix never outgrows the
\* events of a turn: the two exceptions that report a broken alignment of
\* prefix and log do not happen (the second unless the turn has more events
\* than the limit), although answers are queued while draws before them still
\* have their default.
NeverDiverges ==
    /\ pc # "diverged"
    /\ pc = "toodeep" => setup.max_depth < Events

\* CollapseMode::None: "leaves form a distribution summing to 1", the one of
\* the turn: each child gets exactly its probability, also where a queued
\* answer goes unused or serves another question of the same kind.
DistributionExact ==
    Complete /\ setup.mode = "None" => \A c \in Child : weight[c] = ChildWeight(c)

\* Questions of a kind offer the same options, whoever asks and whenever.  Where
\* they do not, an answer can reach a question that does not offer it.
FixedOptions ==
    \A n \in DOMAIN Setups : \A p, q \in Point :
        \A d \in Setups[n].draws[p], d2 \in Setups[n].draws[q] :
            d.channel = "A" /\ d2.channel = "A" /\ d.event = d2.event
                => Options(d) = Options(d2)

\* What the certifiers rely on in every mode: only children the turn can have
\* are emitted, a complete step emits some, and in exact mode all of them, with
\* no event of the turn left unplayed.
StepContract ==
    /\ Over => seen \subseteq Support
    /\ Complete => seen # {}
    /\ Complete /\ setup.mode = "None" => seen = Support /\ AllMet

\* Every step ends: done, or with an exception.
Terminates == <>Over

-----------------------------------------------------------------------------
(***************************************************************************)
(* What TypeOK and NeverDiverges rest on and a run can check.              *)
(* TransitionOracleProofs adds the ways of a replay: the replay of the     *)
(* entries before an injected one leads to the draw it was made for.       *)
(***************************************************************************)

\* How the recursion stands at each control point.
Shape ==
    /\ DOMAIN program \subseteq (1..Len(setup.opps)) \X Point
    /\ Len(prefix) <= setup.max_depth + 1
    /\ pc \in {"turn", "scan"} => Len(prefix) <= setup.max_depth
    /\ pc \in {"dfs", "turn", "scan", "back"} => opp \in 1..Len(setup.opps)
    /\ pc = "scan" => at \in Child
    /\ pc = "start" => prefix = <<>>
    /\ pc \in {"turn", "scan"} => consumed \subseteq DOMAIN prefix
    /\ pc = "toodeep" => Len(prefix) > setup.max_depth

\* Events of a kind that the turn is known to have, and those the replay is past.
Known(ch, e) ==
    {q \in Point : /\ <<opp, q>> \in DOMAIN program
                   /\ program[<<opp, q>>].channel = ch /\ program[<<opp, q>>].event = e}
Passed(ch, e) == {q \in Known(ch, e) : at \in Point => q < at}

\* No two entries are for the same draw, and each is for an event the turn has:
\* the entries of a kind are numbered within the known events of that kind.
EntriesAreEvents ==
    /\ \A i, j \in CatbEntries :
          prefix[i].event = prefix[j].event /\ prefix[i].occ = prefix[j].occ => i = j
    /\ \A e \in Event :
          /\ \A i \in CatbEntries :
                prefix[i].event = e => prefix[i].occ < Cardinality(Known("B", e))
          /\ \A i \in Queue(e) : Cardinality(Ahead(i)) < Cardinality(Known("A", e))

Replaying == pc \in {"turn", "scan"}

\* The log and the counters agree, an injection is consumed when the counters
\* are past its occurrence, and a counter never exceeds the events passed.
LogCounted ==
    Replaying =>
        /\ \A e \in Event : occ[e] = Cardinality({i \in BranchPoints : log[i].event = e})
        /\ consumed = {i \in CatbEntries : prefix[i].occ < occ[prefix[i].event]}
        /\ \A e \in Event : /\ occ[e] <= Cardinality(Passed("B", e))
                             /\ cursor[e] <= Cardinality(Passed("A", e))

\* The uncertain draws begin with those the prefix forces, each by an entry of
\* its own; the one behind them comes after the last entry and has none.
ForcedFirst ==
    Replaying =>
        /\ Unforced = {} => Cardinality(consumed) = Cardinality(BranchPoints)
        /\ Unforced # {} => consumed = CatbEntries
        /\ \A i \in Unforced : Injected(log[i].event, Occurrence(i)) = {}
=============================================================================
