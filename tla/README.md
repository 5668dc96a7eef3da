# A verification project for NuzlockeAI

NuzlockeAI decides Pokemon battles.  A C++ engine replays a turn exactly; a
solver asks of a position "does the player have a strategy that always wins,
under these conditions?" and answers WIN, LOSS/FAIL or INDETERMINATE; a Python
layer reads a running emulator, infers the hidden battle state from what the
screen shows, and plays.  A wrong WIN, or a true state dropped from the
candidates, loses a run of many hours and cannot be found by testing a handful
of battles.  So this project is about two things: the *verdicts*, what the
searches that produce them may never get wrong; and *live play*, what is lost
or mistaken between a game that runs on by itself and the program that
watches it.

The modules are TLA+; TLC checks them on small instances and TLAPS proves the
main results for every instance.  `PROJECT.json` lists the components, the
runs, the source lines behind each definition, the hazards and the theorems.

    tlc -config WinSolver_search.cfg MCWinSolver     # a run
    tlapm WinSolverVerdictProofs.tla                 # a proof

## 1. Inventory

| Component | State it keeps | Operations | Correct means |
|---|---|---|---|
| Bucket WIN search (`solver/bucket/win_solver.cpp`) | stack of buckets, verdict memo, policy, visit counter, sticky cap flag, first reason | `bucket_win_certify`, `dfs`, `and_over_children`, `edge_expand` | a WIN has a closed, acyclic certificate; a memoized FAIL holds on every path; INDETERMINATE names a reason that occurred; the call ends |
| Edge cache (`transition_cache.cpp`) | expansions by (bucket, breakpoints, action) | `lookup`, `insert` | a later question never reads an expansion made for other breakpoints |
| PP audit (`pp_canon.cpp`, end of `win_solver.cpp`) | certificate graph, per-node PP use | `build_cert_node`, `pp_max_consumption`, `pp_cert_audit_ok` | the certificate, computed with PP masked, is playable with the real PP |
| Exact/pessimal certifier (`bsolver.cpp`) | stack, WIN/LOSS memo planes, policy, node counter, stop reason | `bsolver_certify`, `b_win`, emit callback | LOSS conclusive in every mode, WIN in Exact mode |
| Transition oracle (`transition_oracle.cpp`, `rng_resolver.h`, `oracle.h`) | prefix of answers, injected draws, queued answers, leaf budget | `step`, `dfs`, `replay_path` | the emitted leaves are the outcome distribution of the turn |
| Pipeline (`pipeline.cpp`) | none | `pipeline_certify` | composes the verdicts of two stages without inventing one |
| Buckets and expansion (`bucket.cpp`, `expand.cpp`, `breakpoints.cpp`, `concede.cpp`) | HP intervals per mon | `expand`, split, shift, merge | the children of a bucket cover the successors of all its points |
| State codec (`state_codec.cpp`) | intern table | pack, unpack, equality | equal keys are equal states |
| Question, action space | none | `classify`, `legal_player_actions`, `action_filter` | terminal states and allowed actions |
| Turn engine, move execution, effects | battle state, event log | `orchestrate`, `run_turn`, premove gates, residuals | rules of the game |
| Opponent AI | none | score tables, distribution over actions | support of the opponent's choice |
| Game driver (`game_driver.cpp`) | pending state, transient answers | step, pause, resume | an answer is used once, for the event it was given for |
| Live play loop (`SCRIPTS/play.py`, `stress_test.py`, `hp_stability.py`, `battle_input.py`, `battle_policy.py`) | matcher, HP buffers and logs, current turn, pending switch, last screen kind | capture, turn boundary, menu edges, key presses, user events | the turn handed to the sweep is the turn that was played; menus are answered as decided |
| Screen reading and messages (`vision/`, `battle_message_matcher.py`) | pending text | `read_*`, `process`, `flush` | a text is identified once, with its arguments |
| State inference (`sweep_*.py`, `candidate_tracker.py`, `state_transition.py`) | candidate states, recording session | sweep one boundary, record, replay | the true state stays among the candidates |
| Emulator link (`emulator/socket_client.py`, `mgba.py`, the Lua server) | receive buffer, command queue | `_raw_send`, `recv_event`, frame callback | an answer belongs to its command; events arrive in order |
| Data, bindings, scripts, audit tools | tables | | |

How they interact.  The pipeline calls the pessimal certifier (one transition
oracle step per action, children delivered by a callback) and then the bucket
search (one `expand` per action, results cached across calls).  Both searches
run on a worker thread of their own and are joined; an exception crosses the
join.  The oracle replays a whole turn of the engine from scratch per leaf,
answering random draws from a prefix.  A WIN of the bucket search is audited
before it is reported.  The play loop polls the emulator over a socket,
matches messages, and asks the engine which random outcomes explain what it saw.

What is hard: recursion with cycles and memoization (path-dependent verdicts);
caps that cut a search anywhere; one cache shared by several questions;
replay of answers recorded on another path; an audit computed at one moment
for costs paid at another; observation of a program that runs on by itself.
The hazards in `PROJECT.json` give each at its line.

## 2. Modules

| Module | Models | Kind |
|---|---|---|
| `WinSolver` | bucket search, edge cache, terminal classification | specification, properties, inductive invariant |
| `MCWinSolver` + 1 cfg | every small bucket graph | TLC instance |
| `WinSolverProofs`, `WinSolverVerdictProofs` | | proofs |
| `PpAudit` | certificate walk, PP maximum, audit, the battle with real PP | specification, properties, inductive invariant |
| `MCPpAudit` + 2 cfg | every small certificate | TLC instance |
| `PpAuditProofs` | | proofs |
| `Bsolver` | exact/pessimal certifier over an arbitrary oracle | specification, properties, inductive invariant |
| `MCBsolver` + 1 cfg | every small game | TLC instance |
| `BsolverProofs` | | proofs |
| `TransitionOracle` | the prefix-replay enumeration of a turn's outcomes, the resolvers and the answer queue it drives | specification, properties, part of the inductive invariant |
| `MCTransitionOracle` + 2 cfg | every small turn | TLC instance |
| `TransitionOracleProofs` | the ways of a replay, the turn as any choice of values plays it | proofs |
| `Expand` | `expand()`: gates, input splits, corner replay, image splits, merge | specification, properties |
| `MCExpand` + 1 cfg | matchups and rectangles | TLC instance |
| `ExpandProofs` | | proofs |
| `SweepLuck`, `SweepEngine`, `SweepActions`, `SweepInject`, `SweepCheck` | luck profiles, the simulated turn, reading actions and luck off the messages, the agreement checks | definitions, each extending the one before |
| `Sweep` | the game, the sweep of one boundary, recorder and replay | specification, properties |
| `MCSweep` + 2 cfg | twenty-five small battles, and one with a wrong candidate | TLC instance |
| `SweepProofs` | | proofs |
| `EmulatorLink` | what the play loop takes the connection to be | abstract specification |
| `MGBASocket` | client and Lua server over a byte stream | specification, refinement of `EmulatorLink`, properties, inductive invariant |
| `MCMGBASocket` + 1 cfg | | TLC instance |
| `MGBASocketProofs` | | proofs |
| `ScreenText`, `MessageMatcher`, `BattleInit` | reading text and bars, identifying messages, building the first state | definitions, each extending the one before |
| `BattleScreen` | the game as the screen shows it (external) | definitions |
| `LivePlay` | the play loop and the stress driver | specification, properties |
| `MCLivePlay` + 2 cfg | | TLC instance |

### WinSolver

The recursion of `dfs` is an explicit `stack` of frames; `pc` says whether a
call is pending (`call`), an action is chosen (`loop`), or a result returns
(`ret`).  The early returns of `dfs` are the `Visit...` actions, with the guards in
the order of the code; the OR loop is `SkipBanned` and `Expand...`; the AND
loop `AndNextChild` and `AndNotWin`; the end of a frame `DecideWin`,
`DecideIndet`, `DecideFail`.  A frame keeps the locals of one activation,
including the two lowlinks that decide whether a FAIL may be memoized.

`expand()` is a function the model does not know: the first time the search
asks for an edge, any member of `Expansions` may be the answer, and `edges`
fixes it.  So one run covers every bucket graph of the size, without
enumerating graphs first.  `edges` survives a call as the TransitionCache does.
Buckets are opaque: intervals and domination are the business of `expand`.
The pthread creation and join are one step each; a failing `pthread_create`
throws before any state exists and is left out.

### PpAudit

Starts from any closed acyclic certificate (what `WinSolver` is proved to
deliver).  `WalkEdge`/`WalkDone` are `build_cert_node`, `MergeChild` and
`FinishNode` are `visit_node`, `Accept`/`Reject` the comparison, and `Turn` is
the battle: each side pays what the engine charges when the move is made.

The battle is not the one the audit foresees, and the constants say in what it may
differ.  `Copiers` are the slots whose move can give its user the target's ability (Role
Play, Skill Swap, Transform, and moves that call these).  `Entering` are the sides that can gain
Pressure before the moves of a turn: Trace or Imposter of a lead on the first turn, a
Mega Evolution into Trace, Neutralizing Gas wearing off.  `Transforms` are the slots of
Transform, with the move slots each overwrites and where it copies them from; `Imposters`
is the same for a lead with Imposter.  An overwritten slot has another move and at most
5 PP, which is less than the audit compares with, or more if the root had none.  A
`Course` is one way a turn may go: who moves first, who faces Pressure, what each pays,
whose Transform succeeds, whether an Imposter copies; `AsAudited` says that it was one the audit
foresaw, and `asCharged` that all turns so far were.  Not in the model, and why: a Leppa
Berry acts only on a slot that has reached 0, which is what the properties exclude;
Encore and Choice items make a mon repeat a slot, and the certificate's slot is
already that one; the clamp of `turns_in_battle`, since no PP depends on it.

### Bsolver

Same style; two-valued, with the whole search stopped by the first cap, cycle or
exhausted leaf budget.  The oracle is again a function revealed on demand.  A
step has a support (`all`) and what the mode emits of it (`kept`).  In Exact
mode they agree.  `Modes` are the modes a run may start in, `mode` the one of the
call.  In the collapsed modes `CollapseKeepsProgress` is the one
thing the certifier needs from the oracle; it is what `collapse_rule` is for.  That the
table of `collapse_rule` keeps progress for every event is assumed here, not checked.

### TransitionOracle

A turn is a program of random events unknown to the oracle, revealed as replays
reach it.  `StartReplay`, `Draw...`, `Ask...` and `TurnEnds` are one replay
(`cpp_run_one_turn_solver` with the resolvers of `rng_resolver.h` and
`oracle_resolve`); `Branch`, `TryNext` and `PopBack` are the recursion of `dfs`,
whose stack is the prefix itself; `Emit` and `StopAtBudget` are a leaf.  The answers
that `build_overrides` queues for an event are the entries of that kind (`Queue`), each
as far behind in the queue as there are entries of the kind before it (`Ahead`); `cursor`
counts the answers used, so `Answer` is the next one.  The log scan is stated by sets
of positions: `BranchPoints` (uncertain draws), `Earlier` (those before one),
`Unforced` (the one with as many before it as there are injected entries).  The
order in which options are tried is arbitrary, which covers both ordering hints.
A member of `Setups` fixes the mode, the limits and the kind of turn of a call
(`setup`, the one that `call` picks), so one run covers the three modes.
Options of an event are equally likely in the model (20:80 draws differ from
50:50 ones in the weights only); the tests that probabilities sum to one and the
preconditions of `step` are left out.  `PointWeight` and `ChildWeight` compute the
true distribution from the program.  MOODY's pair of picks is one event;
SPEED_TIE has a queue of its own and is one more event kind.

`StepContract` is what `Bsolver` assumes of a step (`Emitted(r) \subseteq r.all`,
and equality in Exact mode).  It is stated without weights: `Support` are the children that
follow an event which an AI action of positive probability can come to (`CanCome`), and
`AllMet` says that none of those events was left unplayed, so that the support read off the
revealed program is the turn's.  That some AI action has a probability is what `step` tests
before it starts (`transition_oracle.cpp:1311`).  `FixedOptions` says that questions of a
kind offer the same options; `oracle_sleeptalk` is the one kind for which the code does not
have that.

### Expand

What `WinSolver` takes as an unknown function.  `GateThrows`, `Concede`,
`ScreenThrows` and `SplitInput` are steps 1 to 4 of `expand()`; `ExpandPiece` and
`PieceThrows` one turn of the double loop over the pieces; `SortChildren`,
`MergeChildren` and `MergeDone` the dedupe and `merge_pass`.  The turn that the
oracle plays is a concrete function of both HP values (`RunTurn`), kept to what can
tell HP values apart: one-hit moves with rolls and crits, fixed damage, faints and
the damage a fainted mon remembers, a berry that heals at a threshold, a pinch
ability, one residual, and an AI whose support depends on HP.  Items that survive a
lethal hit (Sash, Sturdy, Endure), multi-hit moves and recoil are left out; the
residual may or may not be among `residual_delta_candidates`, so "a missed source
degrades to an image split or gate throw, never to unsoundness" (`expand.h`) is
checked, not assumed.  A context id stands for the interned masked state, a
fingerprint for the support set, so hash collisions are outside the model.
`ReplayDivergence` is modelled but no matchup reaches it: in these turns the HP
values between which a draw appears or disappears lie in the kill zone, which is
split into singletons.

The starting buckets keep every breakpoint in a singleton (`ApartBucket`), as the
root and all children do.  Without that, the comment in `try_merge` that adjacency
leaves no breakpoint between two buckets would be false; `ChildrenApart` shows that
`expand()` hands the property on.

### Sweep and the modules under it

The steps of the game (`GameIntro`, `GameTurn`, `GameReplace` on `truth`) are external:
every choice and every luck of a small battle.  What they leave on the screen is `obs`: the messages
printed for the log and the HP records of the bars.  A sweep then works as
`sweep_run.py` does: from each candidate (`todo`), the slot maps and known actions
that the messages allow (`SweepActions`), the luck they reveal (`SweepInject`), every
roll they leave open, one simulated turn of `SweepEngine` each, and the checks of
`sweep_reconcile.py` (`SweepCheck`); survivors are collected in `found` and replace
the candidates (`SweepCandidate`, `SweepEnds`).  The recording of a boundary before it
is swept, a kill in the middle of a sweep and a replay of the session are
`RecordInput`, `Interrupted` and `ReplaySweep`.

The engine is written in C++ and has thousands of effects.  `SweepEngine` is the
smallest game with the events that the sweep treats differently; its constants
(`MoveData`, `MovesOf`, `Speed`) are the moves and mons of the instance.  Where the
Python code treats several messages alike one of them stands for all: a healing
berry also for Cheek Pouch, paralysis for the other statuses
with a single-variable message, one stat drop for all stat messages.  The engine's
log has damage as computed, not clamped to the HP left, and PP is decremented only
in the game's state, as in the code.  Trapping is left out.  `sweep_io`'s JSON and the
text of a replay's diff are left out; a boundary that was interrupted replays with
zero survivors (always reported as a failure).  A replay catches only
`SimulationError` and `UninjectedRNGError`, as in the code: these are the `"fatal"` errors.
The `"crash"` errors are not of that class and end the replay (`"raised"`): a side hint that
contradicts the state, an actor that is not active, a name two team members answer to (all
`ValueError`s of `state_transition.py`), two Quick Claws that contradict each other, and the
unbound local of `sweep_struggle`.  A sweep that could meet both kinds is taken to stop at
the second.

Ten kinds of turn are known to be misread.  `TruthSurvives` excludes exactly these,
each defined by what the turn left behind, and each is really needed (without it the
run fails):

| Blind spot | Why the truth is lost | Code |
|---|---|---|
| `BarGap` | the last pixel of a bar stands for less HP than the game shows it for | `hp_stability.py:74` |
| `UnreadDamage` | damage below a pixel, or to a mon that came in during the turn, counts as none | `sweep_reconcile.py:494` |
| `HitsMisread` | the n-th hit of a multi-hit move is not the n-th reading | `sweep_driver.py:543` |
| `TwoSelfHits` | two confusion self-hits, one roll tried at a time | `sweep_run.py:424` |
| `TwoCalls` | two called moves, one place for them | `sweep_secondaries.py:344` |
| `CalledAtSecond` | in doubles a called move has only the first slot as target | `sweep_actions.py:492` |
| `UntriedTarget` | in doubles only slots with a net loss of HP are tried as targets (the first if there are none): a mon healed by its berry, or hit for less than a pixel, is not | `sweep_actions.py:367-378`, `529-531` |
| `SpreadRolls` | one roll for both targets of a spread move, kept by its damage to the first; in the game each rolls apart | `sweep_run.py:268-280` |
| `LaterTie` | every tie goes to the side of the first mover, in doubles also a tie behind a faster mon | `sweep_run.py:853`, `sweep_driver.py:297-310` |
| `BerryOrder` | the berry is logged before the hit, shown after it | `sweep_reconcile.py:646` |

In the game of the model, `GameLuck` rolls a spread move for each target.  All ties of one turn
go to one side there too, and ties within a side by slot; the game may decide each apart.

### MGBASocket and EmulatorLink

A message is two pieces on the wire, so a receive can end inside a message, after
one, or after several; `_recv_until_end` keeps nothing between calls, so what came
behind the first message is dropped.  The Lua frame callback receives once and
then executes what is complete: `FrameReceive` and one `handle_command` per
message (`server = "drain"` while a complete one is left).  `ReceiveFails` (a closed or failing
socket) and `FrameError` (a Lua error after a command took effect) are the ways out, each with
`reset_connection`.  Events are pushed between frames, when the user presses a hotkey (`Key`).  Both kinds of
connection are modelled, with and without the event timeout (which then bounds
command answers as well).  `EmulatorLink` is the promise: commands return once
executed, in order, with their own answer, and events are delivered in order, at
most once.  The promise holds until an event is unread while a command is
outstanding (`skewed`); from then on an answer may belong to an earlier command,
which the abstract action `Misreply` allows and nothing else.  `LinkImplemented` is
that refinement, with the unread events as the mapping.

Two simplifications.  The event timeout fires only with nothing on the wire: in the code
it may also fall between the pieces of one message and lose the first
(`socket_client.py:37`), but both ends are on one machine, and a message is put on the wire at once.
A `sendall` to a peer that has just closed may succeed and the receive after it fail; the
model lets the send fail, with the same end: the call raises and the connection closes.

### LivePlay and the modules under it

`BattleScreen` is the game: a script of scenes (texts revealed a piece at a time, HP
that runs down, menus that wait), two trainers with two mons each, the
opponent's of one name.  `Tick` advances it at any time.  `Capture` is one
`_do_capture`: the frame is read by `ScreenText`, identified by `MessageMatcher`, the
HP buffers updated, a finished turn handed to the sweep (`handed`), a menu answered
on the edge into it (`decided`).  `PressB`/`NoPress` is the tap off menus; the user's
events are `ToggleCapture`, `InitBattle`, `StartBattle`, `SaveState`,
`SaveTrainingData`; the stress driver adds `Timeout` and `NextRun`; keys may be lost.
`BattleInit` is the state built from memory and the trainer file.  The outcome of a
sweep is what `Sweep` shows: it succeeds when it was handed the turn that was
played, and may end in any way otherwise.

What a capture may miss is counted (`missed`), and the properties about what was read
speak about battles in which nothing was missed; `Misses` bounds what a run explores
beyond that, at most one kind per battle. So `HpRecordsTrue` does not say that the
two-captures rule of `hp_stability.py` catches every HP value: whether the game holds a
value for two captures is a matter of frame rates. It says that values that are held are
recorded, once, in their turn and for their mon. `choose_battle`'s test of
`can_switch_out` is left out, since nothing in the script traps. Only the opponent's slot
0 has a record, as in the code (`play.py:718`). The message table is represented by
sixteen messages. Printing, crops and the user's own play while capture is off are left
out.

## 3. Runs

All runs finish within four minutes.  "Every graph" below means every graph
within the bounds of the MC module.

| Run | Bounds | Question |
|---|---|---|
| `winsolver_search` | 3 non-terminal buckets (one with two actions), expansions of one or two children, concessions, throwing and empty expansions, depth cap 3, visit cap 4, two calls, two questions that differ in bans and in a terminal bucket | are verdicts, memo and policy right on every graph, with nested cycles, caps, errors and a warm cache, and does every call end? |
| `ppaudit_audit` | every certificate over 3 buckets with at most 2 children each, diamond included; PP 3/2 and 5/5; both slots may copy an ability, the player's may be Transform, the player may gain Pressure before the moves or lead with Imposter | is the audit right, and does the battle keep the PP profile for as long as it goes as the audit foresaw? |
| `ppaudit_pressure` | same certificates and PP; only the opponent's slot holds Role Play/Skill Swap | *violation*: see section 6 |
| `bsolver_certify` | 4 states, supports of one or two states, exact and pessimal mode, self-loops, collapsed, cut and throwing steps, both caps 3 | do WIN and LOSS mean what they say in the Markov chain, and does every call end within its caps? |
| `oracle_step` | exact: 4 events, draws of two kinds, certain draws, questions of one kind; pessimal: 3 events, three-valued rolls collapsed to the worst, failing turns; coarse: leaf budget 2, prefix cap 2, an AI action of probability zero | is the emitted distribution the turn's, are collapsed children possible, does every step end within its limits? |
| `oracle_sleeptalk` | one turn: Quick Claw, then two Sleep Talk questions with different options | *violation*: see section 6 |
| `expand_sound` | max HP 16; three player moves and two AI moves, both orders, berry at 4, 5 or none, five residuals, listed or not, pinch ability, three AI thresholds; pieces up to 7 HP wide | has an expansion exactly the children of the states it stands for, and do merges keep breakpoints apart? |
| `sweep_truth` | 25 battles of one or two turns, 4 rolls, bars of 6 pixels: rolls, statuses, confusion, multi-hits, switches, equal names, called moves, Quick Claw, berries, binding, level-ups; five doubles battles without bench, with equal names, a spread move, called moves, and berries | outside the blind spots, does the truth survive every sweep; is the field never mistaken; can whatever stops a sweep be replayed? |
| `sweep_struggle` | one battle, two candidates that differ in the opponent's PP | *violation*: see section 6 |
| `socket_link` | 3 commands, 2 events, 2 connection attempts, receives of up to 3 pieces | is the connection the abstract link, how far may the client run ahead, does every call return? |
| `liveplay` | user's loop with reliable keys, stress driver with reliable and lossy keys, 2 user events, a battle abandoned at a party menu, bars of 6 pixels, mons of 3 HP, equal texts that merge | is the sweep handed the turn that was played, are menus answered as decided, is a frozen screen reported? |
| `liveplay_stale` | 3 user events, a battle abandoned in the middle of a text | *violation*: see section 6 |

Why the bounds are enough to be interesting: the contaminated FAIL needs an
inner cycle whose FAIL leans on an outer bucket and a second path to the inner
one, which three buckets give; the oracle's hazard needs a draw whose values lead
to different questions, and a question behind both, which four events give; the PP
diamond needs a node with two parents at different depth, which three buckets give;
both caps are chosen so that they are met in the middle of a search; with 16 HP there
are pieces three wide whose states all eat the berry because of a residual that no
split point accounts for, and pieces where only one end does; three pieces in one
receive hold the end of an answer and an event behind it; two mons of one name, a
faint and a rejected choice fit in one scripted battle; the smallest bar with a gap
in its last pixel has 6 pixels for more than 6 HP.  Every property has a mutant in
`PROJECT.json`, a plausible slip in the code that makes TLC report it, so none
holds by the smallness of the instance.  No run uses symmetry.  Deadlock checking is off
where a finished call has nothing left to do; `Expand` has the explicit `Returned`
instead, so that a piece that neither throws nor expands would show.

Never met in any run, though modelled: the branch cap of a sweep (1000), two Quick
Claws that disagree in doubles, texts never captured in full (`"unseen"`) and HP seen
too briefly (`"unheld"`, `"slow"`).  The verdict memo is on in the run; the theorems
cover both settings, and the coarse mode of `Bsolver`.

Fairness.  Searches: `WF_vars` of the search steps.  A search is one worker thread that
the caller joins, so it runs until it returns; nothing else is assumed, in
particular not that a caller calls again.  Socket: `WF_vars` of the client's blocking
receive, of the server's accept and of its frame callback: the emulator keeps running
frames.  Live play: `WF` of the game's `Tick`; `WF` of a capture that is due and of the
step from a capture to the next receive, since the loop is one thread that only
waits with a timeout; `SF` of the tap of B, which is due and not due by turns as
frames go by while the loop comes back to it each time.  Not assumed: that a
key registers (`keys = "lossy"`), or that the user does anything.

## 4. Reference definitions

* `WinSolver`: the winning region is the *least* set closed under "some action
  has only children in it or terminal WIN"; stated as membership in every closed
  set, dual to a *trap* for FAIL (section "Properties" of the module).
* `Bsolver`: `WinsSurely(X, p)`, the graph characterisation of winning a Markov
  chain with probability one: play stays in X or wins, and no non-empty part of
  X keeps it for ever.
* `Expand`: `ConcreteChildren`, the union of the children of every state of the
  bucket, each stepped on its own.
* `Sweep`: `truth`, the game played beside the sweep with the luck that really
  happened.
* `LivePlay`: `game.told` and `game.held`, the messages and HP values the game
  showed since the last boundary, beside what the loop recorded.
* `PpAudit`: `UseIsMaximum` (the DP equals the best branch), `NeverUsedUp` and `ProfileKept`.

## 5. Proofs

No assumption beyond the named `ASSUME` of each module (types of the constants).

* `WinSolverProofs!TypeCorrect`.  Type correctness needs more than types: that
  frames above the bottom are inside an expansion that is cached and that the
  child index is in range.  The invariant has one lemma per action, with lemmas
  on replacing, pushing and popping the top of a sequence.
* `WinSolverProofs!IndetHasReason`.  `IndetInv`: the sticky cap flag, an INDETERMINATE
  return and a frame that has seen one all imply that a reason is recorded, and the
  first reason is never overwritten.
* `WinSolverVerdictProofs!WinIsProof`, `PolicyIsCertificate`.  Needs: the children
  before the current one are won; the pending call is the current child.
* `WinSolverVerdictProofs!CertificateHasNoCycle`.  Closedness says nothing about cycles: a WIN
  found under a path must not lean on that path.  `ClearInv` says it: no child an
  activation is past reaches the stack through the policy, and a bucket on the stack has no policy
  entry yet (`StackUndecided`), so the entry that `DecideWin` adds closes no cycle.
* `WinSolverVerdictProofs!FailIsTrap`.  The hard one.  A returned FAIL may
  depend on buckets on the stack, so the invariant says for each frame with which
  ancestors its failed actions are entangled, bounded by its lowlink, and that the
  memoized FAILs together with the stack below a bound form a trap.  When a
  frame's lowlink is not below its own depth nothing above it is used and the
  set closes.
* `PpAuditProofs`: `AuditTypeCorrect`, `WalkNeverThrows` (path and built buckets
  stay disjoint, and the certificate is well founded), `DpIsMaximum` (children
  before parents), `AuditedPlayKeepsProfile` (`PpCovers`: the PP left in a masked
  slot exceeds what any remaining line can use).  The last one has no hypothesis on the
  match-up: `ProfileKept` itself speaks of the battles that went as the audit foresaw so far
  (`asCharged`).  `NeverUsedUpWithoutCopies` says for which match-ups these are all battles:
  nothing copies an ability, nothing gains Pressure before the moves, no lead has
  Imposter (Transform copies abilities, so it is excluded with the copiers).  Section 6 shows that
  `NeverUsedUp` fails outside them.  `GraphIsOrdered`: nodes are listed once and after their
  children, and a battle under an audited certificate is always at a listed node (`AtBuilt`).
* `BsolverProofs`: `SearchWithinCaps`, `LossIsConclusive`, `WinIsCertificate`, from
  the invariant at the end of `Bsolver`: `Linked` (every activation below the top
  has recursed into the one above it, states on the stack are distinct and
  undecided), `LossInv` and `WinInv`.  The last two say what an activation knows of
  the actions and children it is past, and that both planes are *ranked*: every
  non-empty set of lost states has one whose actions all fail by states outside
  the set, every non-empty set of the policy has one with a child outside it.
  Ranking is what memo entries alone do not give, and what turns a set of local
  facts into a statement about strategies: a strategy that wins surely and
  visits the LOSS plane has a visited state of lowest rank, whose action fails.
  The proof compares each part before and after a step as a function of the known
  steps and the plane (`FailsIn`, `RankedIn`, `WonUpTo`, ...), both of which only grow.
* `BsolverProofs!ReportedCycleExists`.  A set that is closed under turns and holds a state of the
  stack holds all states above it and the call (`ClosedReachesCall`).  Otherwise there is a
  first activation above it whose state is outside, and that state is a child of the one below:
  the least-member principle does what an induction along the stack would.
* `MGBASocketProofs!RunAheadIsBounded`, from `SocketInv`: who is connected (`Connected`), which
  commands are under way (`CommandsInOrder`), that the pieces on the way back alternate and
  end with a whole message (`WayBack`), and `Balance`, the count of messages still to be read.
  `Balance` is an inequality: what a receive drops behind the first message is lost, and
  the client is never ahead by more than that leaves.  It does not depend on `skewed`.
* `MGBASocketProofs!ConnectionImplementsLink`: initial states map to initial states, and every
  step is a step of `EmulatorLink` or a stutter, for every number of commands,
  events and attempts.  The mapping (`Unread`) takes the events from the oldest on
  the wire to the last pushed.  The steps that need the invariant are the ends of calls: with
  `InStep`, as long as nothing was skewed, all that a waiting command can read is its own
  answer, whole or half read, and only once the command is done.
* `TransitionOracleProofs!OracleTypeCorrect`, with `Shape`, how far each control point lets the
  prefix, the depth and the consumed injections have come.
* `TransitionOracleProofs!ReplayNeverDiverges`: `verify_exhausted` never throws, for every
  turn, mode, limit and order of options.  This is the alignment the whole oracle rests on,
  and it is not obvious: an entry was recorded as "the third uncertain draw of this event"
  on a replay in which draws after it had their default, and must be met again as the same draw
  after more entries were forced and more answers queued, some of which may now be used by another
  question.  A replay is described by its configurations (place, counters).  The invariant
  `ReplayInv` says: every injected entry is for a draw to which *the entries before it alone*
  lead from the start of the turn (`EntriesAreReached`); a running replay is still on its way to each
  entry it has not consumed (`OnTheWay`); the log, the counters and the consumed set agree
  (`LogCounted`); and the uncertain draws of the log begin with the forced ones
  (`ForcedFirst`), which makes "skip as many as there are injected entries" right.
  "Leads to" is stated without recursion, by a set of configurations each of which waits for
  the draw or goes on inside the set: that is enough because a turn only goes forward.
  At the end of the turn, or at a pause, a configuration that still led to an entry
  would have to go on, so none is left.
  For the depth limit, `EntriesAreEvents` numbers the entries within the known events of
  their kind; giving each the event of that number is an injection of the prefix into the turn,
  so the prefix is never longer than the turn (`EntriesFit`).
* `TransitionOracleProofs!OracleKeepsContract`: `StepContract` for every turn, distribution
  over the AI's actions, mode, budget and limit.  Its one hypothesis, `FixedOptions`, is what
  `oracle_sleeptalk` shows to be missing for Sleep Talk; for all other kinds of question the options are
  fixed in the code.  *Nothing impossible is emitted* (`PossibleInv`): an injected value is an
  option of the draw that consumes it, because the replay was still on its way there with that value
  (`ForcedFits`); a queued answer may serve another question than the one it was queued
  for, and fits it by the hypothesis (`AnswersFit`); so a replay only stands where the
  turn can come to.  *Nothing is missed* in exact mode: take any choice `F` of a value for every
  draw, by channel, event and number.  While the search runs, `F` is pending or settled (`SearchInv`):
  some entry has `F`'s value still to try and the entries before it agree with `F`, or the turn
  played by `F` has ended in an emitted child, or has come to a draw that lacks `F`'s value.
  What a replay does with entries that agree with `F` is what `F` does (`GoesAsWanted`).  When
  the prefix is empty again, every `F` is settled; and since an option of an event can be chosen
  without changing any earlier value (counters only grow along a course, `EarlierCount`), every
  event that the turn can come to is on the course of some `F` (`AllCovered`).  Courses and supports
  are sets closed backwards, not recursive functions; the inductions are least-member arguments.
* `SweepProofs!StopReplays`: `StopIsRecorded` for every battle, turn and branch cap.  What a
  sweep finds is a function of the candidate, the messages and the HP records alone (`SweepFrom`,
  followed through every choice it makes), and these are what the recording keeps.  The invariant
  `RecordedInv` relates a running sweep to its replay: the input is on disk without an outcome, the
  candidates it is through with raised nothing, and `found` is what they have left; so a replay that
  starts over raises the recorded error or another one it meets first.

* `ExpandProofs`: `ExpandTypeCorrect`, `BreakpointsStayApart`, `MergeKeepsChildren`,
  for every max HP, matchup and rectangle.  `TypeOK /\ ChildrenApart` is inductive as it
  stands: the turn maps `TurnState` into itself, so images are intervals; image splits
  make breakpoints singletons; and a union that the veto lets pass has a breakpoint at an
  end only if one of the two was that singleton, which then equals the other.  Points
  are kept because two merged rectangles agree on one side and touch on the other.

Only model-checked, and why:

* Everything temporal (`Terminates`, `AuditEnds`, `CallsReturn`, `MenuAnswered`,
  `StuckDetected`): the prover handles neither fairness nor ENABLED.
* `DistributionExact` of `TransitionOracle`.  The true distribution is a
  recursive sum over the turn, and that the emitted weights equal it needs induction over
  the tree of outcomes, whose shape is data.  (It also counts in whole units, which is exact only where
  the units divide by the numbers of options, as they do in the run.)
* `ImageExact` of `Expand`, an argument about every step of a turn at once.
* `TruthSurvives` and `FieldKnown` of `Sweep`: that the reading of the messages inverts the
  engine that printed them is a fact about the whole engine and its data, folds over messages
  whose results for every input need induction over data.
* `LivePlay` and the modules under it: one scripted battle, read by string and pixel matching.  The module has
  no constant to generalise over beyond those bounds, and its properties rest on what the matcher makes of
  concrete texts.

## 6. Findings

* `ppaudit_pressure`: the audit charges Pressure as it is when the turn begins,
  the engine when the move is made.  If the opponent moves first and takes the
  player's Pressure with Role Play or Skill Swap, the player pays 2 PP where the
  audit counted 1, and an accepted certificate can drain a masked slot.

  Transform breaks the same promise in a second way, as it (like Imposter) leaves the copied
  moves at most 5 PP.  The audit charges the slot whatever move it holds and compares with the
  PP of the root, so a slot of 10 PP passes with a use that 5 PP do not cover.  Neither
  `concede.cpp` nor `expand.cpp` screens Transform, and `pp_canon.h` does not name it.  To see
  it, put `Copiers = {p}`, `Transforms <- MCTransforms` and `RealPps <- MCTransformPps` in
  `PpAudit_pressure.cfg`.

* `oracle_sleeptalk`: answers to category-A questions are queued per event kind,
  whoever asks.  All kinds but one have fixed options; Sleep Talk's are the asker's
  moves.  If Quick Claw reverses the order of two Sleep Talk users, each consumes
  the other's answer, the sub-move silently fails, and the leaves are not the
  turn's distribution.

* `sweep_struggle`: when the opponent is seen to use Struggle and a candidate still
  has PP, the text of the error meant for that candidate reads `move_slot`, which
  only the branch for ordinary moves sets.  Python raises `UnboundLocalError`, which
  nothing catches: the sweep of all candidates ends instead of one being filtered.

* `liveplay_stale`: `init_battle` resets everything but `foe_faint_deltas_ref`.  If a
  battle is left in the middle of a turn in which a foe was replaced by one of the same
  name, the record of the old foe is handed to the first sweep of the next battle.

Met on the way and harmless, or a matter of wording: a "Go! X!" in the middle of a
battle is identified as the introductory text, so the HP baseline reset that
`play.py:88` promises does not happen for it; the outcome `ERRORS` of the stress test
cannot occur, a dump raises first; its docstring gives a timeout of 600 s where the
code has 1200; the message that ends a battle becomes final only when a further text is
captured.

## 7. What is left

1. `TransitionOracle`: `replay_path`, the replay of a recorded leaf in another corner of a
   bucket; the weights of the leaves, as rational numbers.
2. `LivePlay` and `Sweep`: type correctness and the properties of control alone
   (`SwitchAsDecided`), with the reading of screens and messages taken as any function of its type.
3. `Expand`: multi-hit moves and survival items in the turn; the lemma behind
   `ImageExact` (a turn is a shift between its thresholds).
4. A composition of the two solver stages with the mode guard of the cache.

Not modelled, and why: the solver pipeline (calls one modelled stage after the other);
the state codec (a bijection without control; collisions are outside the models); the
analytic evaluator (floating-point closed forms, out of TLC's reach); damage, effect and
AI score tables (sequential data transformations without a protocol, and most of the
engine's lines); the game driver (a loop over modelled steps); JSON, logging, bindings,
generated data tables; image processing below the level of pixel columns; audit tools
and developer scripts other than the stress test and the sweep replay.
