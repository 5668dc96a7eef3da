------------------------------ MODULE Bsolver ------------------------------
(***************************************************************************)
(* The point certifier bsolver_certify (engine/src/solver/bsolver.cpp): a  *)
(* two-valued AND-OR search over concrete battle states.  An action wins   *)
(* iff every child the transition oracle emits, self-loops aside, wins.    *)
(* Whatever leaves a question open (a cap, the leaf budget, a cycle) stops *)
(* the whole search at once, so every memo entry is final.                 *)
(*                                                                         *)
(* The oracle's step is a fixed function of (state, action), revealed when *)
(* the search first asks for it.  It has a support `all', the outcomes with*)
(* p > 0, and the sequence `kept' that is emitted.  They agree in Exact    *)
(* mode; Pessimal and Coarse collapse some of the randomness.              *)
(***************************************************************************)
EXTENDS Integers, Sequences

CONSTANTS
    State,         \* PackedKeys
    Action,        \* player actions
    LegalActions,  \* [State -> Seq(Action)]: legal_player_actions
    Banned,        \* actions action_filter rejects
    Outcome,       \* [State -> OutcomeValue]: classify
    Steps,         \* the results the oracle may have
    Modes,         \* BModes to look at
    DepthCap,      \* BsolverConfig::depth_cap
    NodeCap        \* BsolverConfig::node_cap

OutcomeValue == {"WIN", "LOSS", "CONTINUE"}
IndetReason == {"None", "LeafBudget", "NodeCap", "DepthCap", "Cycle"}

(***************************************************************************)
(* complete = FALSE: max_leaves was exceeded after the children kept.      *)
(***************************************************************************)
OracleStep == [all : (SUBSET State) \ {{}}, kept : Seq(State),
               complete : BOOLEAN, throws : BOOLEAN]

Emitted(r) == {r.kept[i] : i \in DOMAIN r.kept}

ASSUME BsolverAssumption ==
    /\ LegalActions \in [State -> Seq(Action)]
    /\ Banned \subseteq Action
    /\ Outcome \in [State -> OutcomeValue]
    /\ Steps \subseteq OracleStep
    /\ \A r \in Steps : Emitted(r) \subseteq r.all
    /\ Modes \subseteq {"Exact", "Pessimal", "Coarse"}
    /\ DepthCap \in Nat /\ NodeCap \in Nat

VARIABLES
    steps,     \* oracle results revealed so far: <<state, action>> -> OracleStep
    mode,      \* BMode of the call
    root,      \* state the caller asks about
    pc,        \* control point of the worker thread
    arg,       \* state argument of the pending b_win call
    ret,       \* its result
    stack,     \* b_win activations, the root first
    memo,      \* decided states: TRUE = WIN plane, FALSE = LOSS plane
    policy,    \* winning action of every WIN state
    expanded,  \* nodes_expanded
    reason,    \* early_stop
    cycleKey,  \* cycle_key, a set with at most one state
    result     \* BVerdict handed to the caller

searchVars == <<memo, policy, expanded>>
stopVars == <<reason, cycleKey>>
vars == <<steps, mode, root, pc, arg, ret, stack, memo, policy, expanded, reason,
          cycleKey, result>>

\* Locals of one activation: state, current action, children emitted so far,
\* has_non_self.
Frame == [s : State, ai : Nat, ci : Nat, prog : BOOLEAN]
NewFrame(s) == [s |-> s, ai |-> 1, ci |-> 0, prog |-> FALSE]

Top == stack[Len(stack)]
SetTop(f) == [stack EXCEPT ![Len(stack)] = f]
Pop == SubSeq(stack, 1, Len(stack) - 1)
TopAction == LegalActions[Top.s][Top.ai]
TopStep == steps[<<Top.s, TopAction>>]

Terminal(s) == Outcome[s] # "CONTINUE"
OnStack(s) == \E i \in 1..Len(stack) : stack[i].s = s

NoResult == "none"
Empty == [x \in {} |-> x]
Put(f, k, v) == [x \in DOMAIN f \union {k} |-> IF x = k THEN v ELSE f[x]]

Init ==
    /\ steps = Empty
    /\ mode \in Modes
    /\ root \in State
    /\ pc = "start"
    /\ arg = root
    /\ ret = FALSE
    /\ stack = <<>>
    /\ memo = Empty
    /\ policy = Empty
    /\ expanded = 0
    /\ reason = "None"
    /\ cycleKey = {}
    /\ result = NoResult

-----------------------------------------------------------------------------
(* bsolver_certify.                                                         *)

\* A terminal root needs no search.
CertifyTerminal ==
    /\ pc = "start"
    /\ Terminal(root)
    /\ pc' = "idle"
    /\ result' = Outcome[root]
    /\ UNCHANGED <<steps, mode, root, arg, ret, stack, searchVars, stopVars>>

Certify ==
    /\ pc = "start"
    /\ ~Terminal(root)
    /\ pc' = "call"
    /\ UNCHANGED <<steps, mode, root, arg, ret, stack, searchVars, stopVars, result>>

\* The worker is joined without a reason to stop.
Join ==
    /\ pc = "ret" /\ stack = <<>>
    /\ pc' = "idle"
    /\ result' = IF ret THEN "WIN" ELSE "LOSS"
    /\ UNCHANGED <<steps, mode, root, arg, ret, stack, searchVars, stopVars>>

\* early_stop is set: every activation erases its key and returns without a
\* memo entry, and the caller is told INDETERMINATE; the policy stays behind.
Unwind ==
    /\ pc = "stop"
    /\ pc' = "idle"
    /\ stack' = <<>>
    /\ policy' = Empty
    /\ result' = "INDETERMINATE"
    /\ UNCHANGED <<steps, mode, root, arg, ret, memo, expanded, stopVars>>

-----------------------------------------------------------------------------
(* b_win: the early returns, in the order of the code.                      *)

Return(win) ==
    /\ pc' = "ret"
    /\ ret' = win

Stop(r) ==
    /\ pc' = "stop"
    /\ reason' = r

VisitTerminal ==
    /\ pc = "call"
    /\ Terminal(arg)
    /\ Return(Outcome[arg] = "WIN")
    /\ UNCHANGED <<steps, mode, root, arg, stack, searchVars, stopVars, result>>

VisitDepthCap ==
    /\ pc = "call"
    /\ ~Terminal(arg)
    /\ Len(stack) >= DepthCap
    /\ Stop("DepthCap")
    /\ UNCHANGED <<steps, mode, root, arg, ret, stack, searchVars, cycleKey, result>>

VisitMemo ==
    /\ pc = "call"
    /\ ~Terminal(arg)
    /\ Len(stack) < DepthCap
    /\ arg \in DOMAIN memo
    /\ Return(memo[arg])
    /\ UNCHANGED <<steps, mode, root, arg, stack, searchVars, stopVars, result>>

\* Undecided and within the caps up to here.
Undecided ==
    /\ pc = "call"
    /\ ~Terminal(arg)
    /\ Len(stack) < DepthCap
    /\ arg \notin DOMAIN memo

\* An ancestor other than the parent is met again.
VisitCycle ==
    /\ Undecided
    /\ OnStack(arg)
    /\ Stop("Cycle")
    /\ cycleKey' = {arg}
    /\ UNCHANGED <<steps, mode, root, arg, ret, stack, searchVars, result>>

VisitNodeCap ==
    /\ Undecided
    /\ ~OnStack(arg)
    /\ expanded >= NodeCap
    /\ Stop("NodeCap")
    /\ UNCHANGED <<steps, mode, root, arg, ret, stack, searchVars, cycleKey, result>>

\* Mutant: the node cap is tested after the node is counted.
MutVisitPush ==
    /\ Undecided
    /\ ~OnStack(arg)
    /\ expanded' = expanded + 1
    /\ stack' = Append(stack, NewFrame(arg))
    /\ pc' = "loop"
    /\ UNCHANGED <<steps, mode, root, arg, ret, memo, policy, stopVars, result>>

VisitPush ==
    /\ Undecided
    /\ ~OnStack(arg)
    /\ expanded < NodeCap
    /\ expanded' = expanded + 1
    /\ stack' = Append(stack, NewFrame(arg))
    /\ pc' = "loop"
    /\ UNCHANGED <<steps, mode, root, arg, ret, memo, policy, stopVars, result>>

-----------------------------------------------------------------------------
(* OR over the actions.                                                     *)

MoreActions == pc = "loop" /\ Top.ai <= Len(LegalActions[Top.s])

\* Mutant: the loop does not move on.
MutNextAction == SetTop(Top)

NextAction == SetTop([s |-> Top.s, ai |-> Top.ai + 1, ci |-> 0, prog |-> FALSE])

SkipBanned ==
    /\ MoreActions
    /\ TopAction \in Banned
    /\ stack' = NextAction
    /\ UNCHANGED <<steps, mode, root, pc, arg, ret, searchVars, stopVars, result>>

\* Mutant: an event that decides whether the player acts is collapsed too.
MutCollapseKeepsProgress(s, r) == TRUE

\* collapse_rule: only randomness that progresses either way is collapsed, so
\* a step with an outcome other than s keeps such an outcome.
CollapseKeepsProgress(s, r) == r.all # {s} => Emitted(r) # {s}

\* What mode m may emit for an action in s.
EmitsFor(m, s, r) ==
    r.complete =>
        /\ r.kept # <<>>
        /\ IF m = "Exact" THEN Emitted(r) = r.all ELSE CollapseKeepsProgress(s, r)

\* oracle.step starts: a pure function, so a known step is the same again.
OracleStepFor(r) ==
    /\ MoreActions
    /\ TopAction \notin Banned
    /\ IF <<Top.s, TopAction>> \in DOMAIN steps
       THEN r = TopStep /\ UNCHANGED steps
       ELSE EmitsFor(mode, Top.s, r) /\ steps' = Put(steps, <<Top.s, TopAction>>, r)
    /\ UNCHANGED <<mode, root, arg, ret, searchVars, stopVars>>

StartStep(r) ==
    /\ ~r.throws
    /\ OracleStepFor(r)
    /\ pc' = "emit"
    /\ UNCHANGED <<stack, result>>

\* A failed precondition or a diverging replay: rethrown by the caller.
StepThrows(r) ==
    /\ r.throws
    /\ OracleStepFor(r)
    /\ pc' = "idle"
    /\ stack' = <<>>
    /\ result' = "exception"

-----------------------------------------------------------------------------
(* AND over the emitted children, inside the oracle's emit callback.        *)

Emitting == pc = "emit" /\ Top.ci < Len(TopStep.kept)
NextChild == TopStep.kept[Top.ci + 1]
AllEmitted == pc = "emit" /\ Top.ci = Len(TopStep.kept)

\* Mutant: the keys are not compared.
MutSelfLoop == FALSE

\* The child's key is the parent's.
SelfLoop == NextChild = Top.s

\* A child with the parent's key neither wins nor loses.
SkipSelfLoop ==
    /\ Emitting
    /\ SelfLoop
    /\ stack' = SetTop([Top EXCEPT !.ci = Top.ci + 1])
    /\ UNCHANGED <<steps, mode, root, pc, arg, ret, searchVars, stopVars, result>>

Recurse ==
    /\ Emitting
    /\ ~SelfLoop
    /\ stack' = SetTop([Top EXCEPT !.ci = Top.ci + 1, !.prog = TRUE])
    /\ arg' = NextChild
    /\ pc' = "call"
    /\ UNCHANGED <<steps, mode, root, ret, searchVars, stopVars, result>>

ChildWins ==
    /\ pc = "ret" /\ stack # <<>>
    /\ ret
    /\ pc' = "emit"
    /\ UNCHANGED <<steps, mode, root, arg, ret, stack, searchVars, stopVars, result>>

\* The first losing child aborts the enumeration: the action fails.
ChildLoses ==
    /\ pc = "ret" /\ stack # <<>>
    /\ ~ret
    /\ stack' = NextAction
    /\ pc' = "loop"
    /\ UNCHANGED <<steps, mode, root, arg, ret, searchVars, stopVars, result>>

OverBudget ==
    /\ AllEmitted
    /\ ~TopStep.complete
    /\ Stop("LeafBudget")
    /\ UNCHANGED <<steps, mode, root, arg, ret, stack, searchVars, cycleKey, result>>

\* Every child is a self-loop: the action makes no progress and fails.
NoProgress ==
    /\ AllEmitted
    /\ TopStep.complete /\ ~Top.prog
    /\ stack' = NextAction
    /\ pc' = "loop"
    /\ UNCHANGED <<steps, mode, root, arg, ret, searchVars, stopVars, result>>

\* Mutant: has_non_self is not asked for.
MutDecideWin ==
    /\ AllEmitted
    /\ TopStep.complete
    /\ memo' = Put(memo, Top.s, TRUE)
    /\ policy' = Put(policy, Top.s, TopAction)
    /\ stack' = Pop
    /\ Return(TRUE)
    /\ UNCHANGED <<steps, mode, root, arg, expanded, stopVars, result>>

\* Every other child won.
DecideWin ==
    /\ AllEmitted
    /\ TopStep.complete /\ Top.prog
    /\ memo' = Put(memo, Top.s, TRUE)
    /\ policy' = Put(policy, Top.s, TopAction)
    /\ stack' = Pop
    /\ Return(TRUE)
    /\ UNCHANGED <<steps, mode, root, arg, expanded, stopVars, result>>

\* No action won.
DecideLoss ==
    /\ pc = "loop"
    /\ Top.ai > Len(LegalActions[Top.s])
    /\ memo' = Put(memo, Top.s, FALSE)
    /\ stack' = Pop
    /\ Return(FALSE)
    /\ UNCHANGED <<steps, mode, root, arg, policy, expanded, stopVars, result>>

Next ==
    \/ CertifyTerminal \/ Certify \/ Join \/ Unwind
    \/ VisitTerminal \/ VisitDepthCap \/ VisitMemo \/ VisitCycle
    \/ VisitNodeCap \/ VisitPush
    \/ SkipBanned
    \/ \E r \in Steps : StartStep(r) \/ StepThrows(r)
    \/ SkipSelfLoop \/ Recurse \/ ChildWins \/ ChildLoses
    \/ OverBudget \/ NoProgress \/ DecideWin \/ DecideLoss

Spec == Init /\ [][Next]_vars

\* The worker thread runs and is joined.
FairSpec == Spec /\ WF_vars(Next)

-----------------------------------------------------------------------------
(* Properties.                                                              *)

\* Type invariant; the stack stays within the depth cap, the nodes expanded
\* within the node cap, and both planes of the memo never overlap.
TypeOK ==
    /\ DOMAIN steps \subseteq State \X Action
    /\ \A k \in DOMAIN steps : steps[k] \in Steps
    /\ mode \in Modes /\ root \in State /\ arg \in State
    /\ pc \in {"start", "call", "loop", "emit", "ret", "stop", "idle"}
    /\ ret \in BOOLEAN
    /\ stack \in Seq(Frame) /\ Len(stack) <= DepthCap
    /\ DOMAIN memo \subseteq State
    /\ \A s \in DOMAIN memo : memo[s] \in BOOLEAN
    /\ DOMAIN policy \subseteq State
    /\ \A s \in DOMAIN policy : policy[s] \in Action
    /\ expanded \in 0..NodeCap
    /\ reason \in IndetReason
    /\ cycleKey \subseteq State
    /\ result \in {NoResult, "WIN", "LOSS", "INDETERMINATE", "exception"}

Allowed(s) == {LegalActions[s][i] : i \in DOMAIN LegalActions[s]} \ Banned
IsWin(s) == Outcome[s] = "WIN"
IsLoss(s) == Outcome[s] = "LOSS"

\* Every outcome that action a can have in s, or only wins if not yet known.
Support(s, a) == IF <<s, a>> \in DOMAIN steps THEN steps[<<s, a>>].all ELSE {}

(***************************************************************************)
(* The reference: the strategy p on the states X wins with probability one *)
(* in the Markov chain of the full supports.  It never leaves X except to a*)
(* terminal WIN, and no part of X holds the play back for ever.  Steps not *)
(* yet asked for are taken to win at once, which only makes winning easier.*)
(***************************************************************************)
StaysWinning(X, p) ==
    \A s \in X : p[s] \in Allowed(s) /\ \A c \in Support(s, p[s]) : IsWin(c) \/ c \in X

Escapes(X, p) ==
    \A Y \in (SUBSET X) \ {{}} :
        \E s \in Y : Support(s, p[s]) = {} \/ \E c \in Support(s, p[s]) : c \notin Y

WinsSurely(X, p) == StaysWinning(X, p) /\ Escapes(X, p)

Lost == {s \in DOMAIN memo : ~memo[s]} \union {s \in {root} : result = "LOSS"}

\* LOSS is a certificate in every mode: no strategy wins with probability one
\* from a state in the LOSS plane or from a root reported lost, whatever the
\* steps that were never expanded hold (bsolver.h: "LOSS conclusive").
LossConclusive ==
    \A X \in SUBSET {s \in State : ~Terminal(s)} :
        X \cap Lost # {} =>
            \A p \in [X -> Action] : ~WinsSurely(X, p)

\* WIN is a certificate in Exact mode: the policy wins with probability one
\* from every state it covers, and it covers a root reported won.
PolicyWinsSurely ==
    mode = "Exact" =>
        /\ WinsSurely(DOMAIN policy, policy)
        /\ \A s \in DOMAIN policy : <<s, policy[s]>> \in DOMAIN steps
        /\ result = "WIN" => IsWin(root) \/ root \in DOMAIN policy

\* A cycle that is reported exists: cycle_key is reached again from its own
\* other children, so it is in every set that holds them and is closed.
CycleExists ==
    \A k \in cycleKey : \A X \in SUBSET State :
        (/\ \A a \in Allowed(k) : Support(k, a) \ {k} \subseteq X
         /\ \A s \in X : \A a \in Allowed(s) : Support(s, a) \subseteq X) => k \in X

\* Every certify call ends in a verdict or an exception.
Terminates == <>(pc = "idle")

-----------------------------------------------------------------------------
(***************************************************************************)
(* The inductive invariant behind LossConclusive and PolicyWinsSurely: how *)
(* the activations hang together, what each knows of the actions and the   *)
(* children it is past, and that both planes are ranked (every set of      *)
(* decided states has one that was decided from states outside the set).   *)
(***************************************************************************)

LossPlane == {s \in DOMAIN memo : ~memo[s]}

FrameAction(f) == LegalActions[f.s][f.ai]
FrameStep(f) == steps[<<f.s, FrameAction(f)>>]

\* The activation is inside oracle.step and has been emitted f.ci children.
InStep(f) ==
    /\ f.ai \in 1..Len(LegalActions[f.s])
    /\ FrameAction(f) \notin Banned
    /\ <<f.s, FrameAction(f)>> \in DOMAIN steps
    /\ f.ci \in 0..Len(FrameStep(f).kept)

\* ... and has recursed into the last of them.
InChild(f) == InStep(f) /\ f.ci >= 1 /\ f.prog /\ FrameStep(f).kept[f.ci] # f.s

\* The state of the b_win call that is pending or returning.
Current == IF stack = <<>> THEN root ELSE FrameStep(Top).kept[Top.ci]

StackLinked ==
    /\ \A i \in 1..(Len(stack) - 1) :
          InChild(stack[i]) /\ FrameStep(stack[i]).kept[stack[i].ci] = stack[i + 1].s
    /\ stack # <<>> => stack[1].s = root

ControlLinked ==
    /\ pc \in {"start", "idle"} => stack = <<>>
    /\ pc \in {"loop", "emit"} => stack # <<>>
    /\ pc \in {"call", "ret"} /\ stack # <<>> => InChild(Top)
    /\ pc = "call" => arg = Current
    /\ pc = "loop" => Top.ai >= 1 /\ Top.ci = 0 /\ ~Top.prog
    /\ pc = "emit" => InStep(Top)
    /\ pc = "start" => arg = root
    /\ pc # "idle" => result = NoResult

StackUndecided ==
    /\ \A i \in 1..Len(stack) : ~Terminal(stack[i].s) /\ stack[i].s \notin DOMAIN memo
    /\ \A i, j \in 1..Len(stack) : stack[i].s = stack[j].s => i = j

MemoOK ==
    /\ \A s \in DOMAIN memo : ~Terminal(s)
    /\ \A s \in DOMAIN policy : s \in DOMAIN memo /\ memo[s]
    /\ pc # "idle" => \A s \in DOMAIN memo : memo[s] => s \in DOMAIN policy

StepsOK == \A k \in DOMAIN steps : EmitsFor(mode, k[1], steps[k])

Linked == StackLinked /\ ControlLinked /\ StackUndecided /\ MemoOK /\ StepsOK

\* Action a fails in s once the states of S are lost.
Fails(s, a, S) ==
    /\ <<s, a>> \in DOMAIN steps
    /\ \/ Support(s, a) = {s}
       \/ \E c \in Support(s, a) : c # s /\ (IsLoss(c) \/ c \in S)

FailedBefore(f) ==
    \A j \in 1..(f.ai - 1) :
        LegalActions[f.s][j] \notin Banned => Fails(f.s, LegalActions[f.s][j], LossPlane)

OnlySelfLoops(f) == ~f.prog => \A j \in 1..f.ci : FrameStep(f).kept[j] = f.s

LossRanked ==
    \A Z \in (SUBSET LossPlane) \ {{}} :
        \E s \in Z : \A a \in Allowed(s) : Fails(s, a, LossPlane \ Z)

LossInv ==
    /\ \A i \in 1..Len(stack) : FailedBefore(stack[i]) /\ OnlySelfLoops(stack[i])
    /\ LossRanked
    /\ pc = "ret" /\ ~ret => IsLoss(Current) \/ Current \in LossPlane
    /\ result = "LOSS" => IsLoss(root) \/ root \in LossPlane

Won(c) == IsWin(c) \/ c \in DOMAIN policy

\* The children before the n-th are self-loops or won.
WonBefore(f, n) == \A j \in 1..(n - 1) : FrameStep(f).kept[j] = f.s \/ Won(FrameStep(f).kept[j])

SomeOther(f) == f.prog => \E j \in 1..f.ci : FrameStep(f).kept[j] # f.s

PolicyClosed ==
    \A s \in DOMAIN policy :
        /\ policy[s] \in Allowed(s)
        /\ <<s, policy[s]>> \in DOMAIN steps
        /\ \A c \in Emitted(steps[<<s, policy[s]>>]) : c = s \/ Won(c)

PolicyRanked ==
    \A Y \in (SUBSET DOMAIN policy) \ {{}} :
        \E s \in Y : \E c \in Emitted(steps[<<s, policy[s]>>]) : c \notin Y

WinInv ==
    /\ \A i \in 1..Len(stack) : SomeOther(stack[i])
    /\ \A i \in 1..(Len(stack) - 1) : WonBefore(stack[i], stack[i].ci)
    /\ pc \in {"call", "ret"} /\ stack # <<>> => WonBefore(Top, Top.ci)
    /\ pc = "emit" => WonBefore(Top, Top.ci + 1)
    /\ PolicyClosed /\ PolicyRanked
    /\ \A s \in DOMAIN policy : steps[<<s, policy[s]>>].complete
    /\ pc = "ret" /\ ret => Won(Current)
    /\ result = "WIN" => Won(root)

\* Nothing but the caller moves once a cycle is reported.
CycleInv == CycleExists /\ (cycleKey # {} => pc \in {"stop", "idle"})
=============================================================================
