------------------------------ MODULE WinSolver ------------------------------
(***************************************************************************)
(* Solver B, bucket_win_certify (engine/src/solver/bucket/win_solver.cpp): *)
(* a tri-valued AND-OR depth-first search over the bucket graph that       *)
(* expand() produces.  The player chooses an action (OR), the opponent and *)
(* the RNG choose a child of its expansion (AND).                          *)
(*                                                                         *)
(* The C++ recursion is modelled by an explicit stack of dfs() frames, one *)
(* action per early return, loop iteration and return of dfs().  expand()  *)
(* is a deterministic function of (bucket, breakpoint set, action) that the*)
(* model reveals the first time the search asks for it: `edges' is both    *)
(* that function, as far as it is known, and the content of the            *)
(* TransitionCache shared by successive certify calls (an expansion that   *)
(* throws is not cached by the code; its entry only fixes that a retry     *)
(* throws again).  This module is the search with enable_pp_canon off; the *)
(* PP audit of a WIN is the subject of PpAudit.                            *)
(***************************************************************************)
EXTENDS Integers, Sequences

CONSTANTS
    Bucket,             \* bucket identities: d plus both HP intervals
    Action,             \* player actions
    Question,           \* questions asked of the solver
    Outcome,            \* [Question -> [Bucket -> OutcomeValue]]: classify_bucket
    BpFp,               \* [Question -> fingerprint]: scope of the edge keys
    Banned,             \* [Question -> SUBSET Action]: actions banMove rules out
    LegalActions,       \* [Bucket -> Seq(Action)]: legal_player_actions
    Expansions,         \* the results expand() may have
    DepthCap,           \* BucketWinConfig::depth_cap
    VisitCap,           \* BucketWinConfig::visit_cap
    EnableVerdictMemo,  \* BucketWinConfig::enable_verdict_memo
    MaxCalls            \* bound: certify calls that share the cache

OutcomeValue == {"WIN", "LOSS", "CONTINUE"}
Verdict == {"WIN", "FAIL", "INDET"}

(***************************************************************************)
(* An ExpandResult: a conceded branch, an ExpandError or the sequence of   *)
(* AND-children.                                                           *)
(***************************************************************************)
Conceded  == [kind |-> "conceded", children |-> <<>>]
ExpandErr == [kind |-> "throw", children |-> <<>>]
Children(s) == [kind |-> "children", children |-> s]
ExpandResult == [kind : {"conceded", "throw", "children"}, children : Seq(Bucket)]

ASSUME WinSolverAssumption ==
    /\ Outcome \in [Question -> [Bucket -> OutcomeValue]]
    /\ DOMAIN BpFp = Question
    /\ Banned \in [Question -> SUBSET Action]
    /\ LegalActions \in [Bucket -> Seq(Action)]
    /\ Expansions \subseteq ExpandResult
    /\ DepthCap \in Nat /\ VisitCap \in Nat /\ MaxCalls \in Nat
    /\ EnableVerdictMemo \in BOOLEAN

VARIABLES
    edges,     \* revealed expansions = TransitionCache, never reset
    calls,     \* number of certify calls so far
    question,  \* the Question of the current call
    root,      \* its root bucket
    pc,        \* control point of the worker thread
    arg,       \* bucket argument of the pending dfs() call
    ret,       \* DfsResult being returned
    stack,     \* dfs() frames; the frame at position i has depth i - 1
    memo,      \* verdict memo: bucket -> win
    policy,    \* winning action per WIN-decided bucket
    visited,   \* stats.buckets_visited
    capHit,    \* sticky visit_cap_hit
    reason,    \* first_reason
    result     \* verdict handed to the caller

callVars == <<calls, question, root>>
searchVars == <<memo, policy, visited, capHit, reason>>
vars == <<edges, calls, question, root, pc, arg, ret, stack, memo, policy,
          visited, capHit, reason, result>>

-----------------------------------------------------------------------------
(* Frames and lowlinks.                                                     *)

\* Larger than the depth of every frame, as INT_MAX is in the code.
kLowlinkInf == DepthCap

MinOf(a, b) == IF a < b THEN a ELSE b

DfsResult(v, low) == [v |-> v, low |-> low]
DfsResults == [v : Verdict, low : 0..kLowlinkInf]

\* Locals of one dfs() activation: bucket, index of the current action, index
\* of the child being evaluated, lowlink of the AND, of the node, any_indet.
Frame == [b : Bucket, ai : Nat, ci : Nat, low : 0..kLowlinkInf,
          nlow : 0..kLowlinkInf, indet : BOOLEAN]

NewFrame(b) ==
    [b |-> b, ai |-> 1, ci |-> 0, low |-> kLowlinkInf, nlow |-> kLowlinkInf,
     indet |-> FALSE]

Top == stack[Len(stack)]
SetTop(f) == [stack EXCEPT ![Len(stack)] = f]
Pop == SubSeq(stack, 1, Len(stack) - 1)

EdgeKey(b, a) == <<b, BpFp[question], a>>
TopAction == LegalActions[Top.b][Top.ai]
TopEdge == EdgeKey(Top.b, TopAction)

OnStack(b) == \E i \in 1..Len(stack) : stack[i].b = b
DepthOf(b) == (CHOOSE i \in 1..Len(stack) : stack[i].b = b) - 1
Terminal(b) == Outcome[question][b] # "CONTINUE"
InMemo(b) == EnableVerdictMemo /\ b \in DOMAIN memo

NoResult == "none"
Empty == [x \in {} |-> x]

-----------------------------------------------------------------------------
Init ==
    /\ edges = Empty
    /\ calls = 0
    /\ question \in Question
    /\ root \in Bucket
    /\ pc = "idle"
    /\ arg = root
    /\ ret = DfsResult("FAIL", kLowlinkInf)
    /\ stack = <<>>
    /\ memo = Empty
    /\ policy = Empty
    /\ visited = 0
    /\ capHit = FALSE
    /\ reason = "None"
    /\ result = NoResult

(***************************************************************************)
(* bucket_win_certify: a fresh WinState per call (memo, policy, counters), *)
(* the cache is shared.  A terminal root is decided without a search.      *)
(***************************************************************************)
NewCall(q, b) ==
    /\ pc = "idle"
    /\ calls < MaxCalls
    /\ calls' = calls + 1
    /\ question' = q
    /\ root' = b
    /\ arg' = b
    /\ stack' = <<>>
    /\ memo' = Empty
    /\ policy' = Empty
    /\ visited' = 0
    /\ capHit' = FALSE
    /\ reason' = "None"
    /\ UNCHANGED <<edges, ret>>

CertifyTerminalRoot(q, b) ==
    /\ Outcome[q][b] # "CONTINUE"
    /\ NewCall(q, b)
    /\ result' = IF Outcome[q][b] = "WIN" THEN "WIN" ELSE "FAIL"
    /\ UNCHANGED pc

Certify(q, b) ==
    /\ Outcome[q][b] = "CONTINUE"
    /\ NewCall(q, b)
    /\ result' = NoResult
    /\ pc' = "call"

-----------------------------------------------------------------------------
(* dfs(): the early returns, in the order of the code.                      *)

Return(v, low) ==
    /\ pc' = "ret"
    /\ ret' = DfsResult(v, low)

Visit ==
    /\ pc = "call"
    /\ visited' = visited + 1
    /\ UNCHANGED <<edges, callVars, arg, memo, policy, result>>

\* Step 1: terminal bucket.
VisitTerminal ==
    /\ Terminal(arg)
    /\ Visit
    /\ Return(IF Outcome[question][arg] = "WIN" THEN "WIN" ELSE "FAIL", kLowlinkInf)
    /\ UNCHANGED <<stack, capHit, reason>>

\* Step 2: decided verdict in the memo.
VisitMemo ==
    /\ ~Terminal(arg) /\ InMemo(arg)
    /\ Visit
    /\ Return(IF memo[arg] THEN "WIN" ELSE "FAIL", kLowlinkInf)
    /\ UNCHANGED <<stack, capHit, reason>>

FirstReason(r) == IF reason = "None" THEN r ELSE reason

\* Mutant: the depth cap is not recorded as a reason.
MutVisitDepthCap ==
    /\ ~Terminal(arg) /\ ~InMemo(arg)
    /\ Len(stack) >= DepthCap
    /\ Visit
    /\ Return("INDET", kLowlinkInf)
    /\ UNCHANGED <<stack, capHit, reason>>

\* Step 3: depth cap.
VisitDepthCap ==
    /\ ~Terminal(arg) /\ ~InMemo(arg)
    /\ Len(stack) >= DepthCap
    /\ Visit
    /\ reason' = FirstReason("DepthCap")
    /\ Return("INDET", kLowlinkInf)
    /\ UNCHANGED <<stack, capHit>>

\* Mutant: a repeated bucket on the stack counts as won.
MutVisitOnStack ==
    /\ ~Terminal(arg) /\ ~InMemo(arg)
    /\ Len(stack) < DepthCap
    /\ OnStack(arg)
    /\ Visit
    /\ Return("WIN", kLowlinkInf)
    /\ UNCHANGED <<stack, capHit, reason>>

\* Step 4: on-stack repeat is FAIL, with the ancestor's depth as lowlink.
VisitOnStack ==
    /\ ~Terminal(arg) /\ ~InMemo(arg)
    /\ Len(stack) < DepthCap
    /\ OnStack(arg)
    /\ Visit
    /\ Return("FAIL", DepthOf(arg))
    /\ UNCHANGED <<stack, capHit, reason>>

OverVisitCap == capHit \/ visited + 1 > VisitCap

\* Step 5: sticky visit cap.
VisitVisitCap ==
    /\ ~Terminal(arg) /\ ~InMemo(arg)
    /\ Len(stack) < DepthCap
    /\ ~OnStack(arg)
    /\ OverVisitCap
    /\ Visit
    /\ capHit' = TRUE
    /\ reason' = FirstReason("VisitCap")
    /\ Return("INDET", kLowlinkInf)
    /\ UNCHANGED stack

\* Mutant: terminal buckets are not recognised before the search goes on.
MutVisitPush ==
    /\ ~InMemo(arg)
    /\ Len(stack) < DepthCap
    /\ ~OnStack(arg)
    /\ ~OverVisitCap
    /\ Visit
    /\ stack' = Append(stack, NewFrame(arg))
    /\ pc' = "loop"
    /\ UNCHANGED <<ret, capHit, reason>>

\* Step 6: the bucket goes on the stack and its OR loop starts.
VisitPush ==
    /\ ~Terminal(arg) /\ ~InMemo(arg)
    /\ Len(stack) < DepthCap
    /\ ~OnStack(arg)
    /\ ~OverVisitCap
    /\ Visit
    /\ stack' = Append(stack, NewFrame(arg))
    /\ pc' = "loop"
    /\ UNCHANGED <<ret, capHit, reason>>

-----------------------------------------------------------------------------
(* Step 7: OR over the actions, AND over the children of an expansion.      *)

\* Mutant: a skipped action is not passed over.
MutNextAction == SetTop(Top)

NextAction == SetTop([Top EXCEPT !.ai = Top.ai + 1])

\* action_filter rejects the action.
SkipBanned ==
    /\ pc = "loop"
    /\ Top.ai <= Len(LegalActions[Top.b])
    /\ TopAction \in Banned[question]
    /\ stack' = NextAction
    /\ UNCHANGED <<edges, callVars, pc, arg, ret, searchVars, result>>

\* edge_expand: a cached result, or a fresh one that goes into the cache.
EdgeExpand(r) ==
    /\ pc = "loop"
    /\ Top.ai <= Len(LegalActions[Top.b])
    /\ TopAction \notin Banned[question]
    /\ IF TopEdge \in DOMAIN edges
       THEN r = edges[TopEdge] /\ UNCHANGED edges
       ELSE edges' = [k \in DOMAIN edges \union {TopEdge} |->
                         IF k = TopEdge THEN r ELSE edges[k]]
    /\ UNCHANGED <<callVars, ret, searchVars>>

\* A conceded action fails definitively.
ExpandConceded(r) ==
    /\ r.kind = "conceded"
    /\ EdgeExpand(r)
    /\ stack' = NextAction
    /\ UNCHANGED <<pc, arg, result>>

\* A non-conceded expansion starts the AND loop at its first child.
ExpandChildren(r) ==
    /\ r.kind = "children" /\ Len(r.children) > 0
    /\ EdgeExpand(r)
    /\ stack' = SetTop([Top EXCEPT !.ci = 1, !.low = kLowlinkInf])
    /\ arg' = r.children[1]
    /\ pc' = "call"
    /\ UNCHANGED result

\* expand() threw, or produced no children without conceding: the worker's
\* exception is rethrown to the caller and the WinState is lost.
ExpandThrows(r) ==
    /\ r.kind = "throw" \/ (r.kind = "children" /\ Len(r.children) = 0)
    /\ EdgeExpand(r)
    /\ stack' = <<>>
    /\ pc' = "idle"
    /\ result' = "exception"
    /\ UNCHANGED arg

TopChildren == edges[TopEdge].children
AndLow == MinOf(Top.low, ret.low)

\* and_over_children: the child won and is not the last one.
AndNextChild ==
    /\ pc = "ret" /\ Len(stack) > 0
    /\ ret.v = "WIN"
    /\ Top.ci < Len(TopChildren)
    /\ stack' = SetTop([Top EXCEPT !.ci = Top.ci + 1, !.low = AndLow])
    /\ arg' = TopChildren[Top.ci + 1]
    /\ pc' = "call"
    /\ UNCHANGED <<edges, callVars, ret, searchVars, result>>

\* and_over_children: the first child that does not win decides the action.
AndNotWin ==
    /\ pc = "ret" /\ Len(stack) > 0
    /\ ret.v # "WIN"
    /\ stack' = SetTop([Top EXCEPT !.ai = Top.ai + 1, !.ci = 0,
                                   !.nlow = MinOf(Top.nlow, AndLow),
                                   !.indet = Top.indet \/ ret.v = "INDET"])
    /\ pc' = "loop"
    /\ UNCHANGED <<edges, callVars, arg, ret, searchVars, result>>

StoreMemo(b, win) ==
    memo' = IF EnableVerdictMemo
            THEN [k \in DOMAIN memo \union {b} |-> IF k = b THEN win ELSE memo[k]]
            ELSE memo

\* Mutant: the policy records the first legal action, not the winning one.
MutDecideWin ==
    /\ pc = "ret" /\ Len(stack) > 0
    /\ ret.v = "WIN"
    /\ Top.ci = Len(TopChildren)
    /\ policy' = [k \in DOMAIN policy \union {Top.b} |->
                     IF k = Top.b THEN LegalActions[Top.b][1] ELSE policy[k]]
    /\ StoreMemo(Top.b, TRUE)
    /\ Return("WIN", kLowlinkInf)
    /\ stack' = Pop
    /\ UNCHANGED <<edges, callVars, arg, visited, capHit, reason, result>>

\* Every child won: the action wins, the bucket is decided WIN.
DecideWin ==
    /\ pc = "ret" /\ Len(stack) > 0
    /\ ret.v = "WIN"
    /\ Top.ci = Len(TopChildren)
    /\ policy' = [k \in DOMAIN policy \union {Top.b} |->
                     IF k = Top.b THEN TopAction ELSE policy[k]]
    /\ StoreMemo(Top.b, TRUE)
    /\ Return("WIN", kLowlinkInf)
    /\ stack' = Pop
    /\ UNCHANGED <<edges, callVars, arg, visited, capHit, reason, result>>

Exhausted == pc = "loop" /\ Top.ai > Len(LegalActions[Top.b])

\* No action won and one of them met a cap.
DecideIndet ==
    /\ Exhausted
    /\ Top.indet
    /\ Return("INDET", Top.nlow)
    /\ stack' = Pop
    /\ UNCHANGED <<edges, callVars, arg, searchVars, result>>

\* Mutant: a FAIL that leans on the parent is memoized too.
MutUncontaminated(f, depth) == f.nlow >= depth - 1

Uncontaminated(f, depth) == f.nlow >= depth

\* Every action failed.  The verdict is memoized only when no bucket above
\* this one on the stack was taken to fail on the way.
DecideFail ==
    /\ Exhausted
    /\ ~Top.indet
    /\ IF Uncontaminated(Top, Len(stack) - 1)
       THEN StoreMemo(Top.b, FALSE)
       ELSE UNCHANGED memo
    /\ Return("FAIL", Top.nlow)
    /\ stack' = Pop
    /\ UNCHANGED <<edges, callVars, arg, policy, visited, capHit, reason, result>>

\* The worker thread is joined and its verdict becomes the caller's.
Join ==
    /\ pc = "ret" /\ stack = <<>>
    /\ result' = ret.v
    /\ pc' = "idle"
    /\ UNCHANGED <<edges, callVars, arg, ret, stack, searchVars>>

DfsNext ==
    \/ VisitTerminal \/ VisitMemo \/ VisitDepthCap \/ VisitOnStack
    \/ VisitVisitCap \/ VisitPush
    \/ SkipBanned
    \/ \E r \in Expansions :
          ExpandConceded(r) \/ ExpandChildren(r) \/ ExpandThrows(r)
    \/ AndNextChild \/ AndNotWin
    \/ DecideWin \/ DecideIndet \/ DecideFail

Next ==
    \/ \E q \in Question, b \in Bucket : CertifyTerminalRoot(q, b) \/ Certify(q, b)
    \/ DfsNext
    \/ Join

Spec == Init /\ [][Next]_vars

\* The worker thread runs until it is joined: only the caller may stop calling.
FairSpec == Spec /\ WF_vars(DfsNext \/ Join)

-----------------------------------------------------------------------------
(* Properties.                                                              *)

FrameOK(f) ==
    /\ f.ai >= 1 /\ f.ai <= Len(LegalActions[f.b]) + 1
    /\ ~Terminal(f.b)

CacheOK ==
    /\ DOMAIN edges \subseteq Bucket \X {BpFp[q] : q \in Question} \X Action
    /\ \A k \in DOMAIN edges : edges[k] \in Expansions

CallOK ==
    /\ calls \in 0..MaxCalls
    /\ question \in Question /\ root \in Bucket
    /\ result \in Verdict \union {NoResult, "exception"}

StackOK ==
    /\ stack \in Seq(Frame) /\ Len(stack) <= DepthCap
    /\ \A i \in 1..Len(stack) : FrameOK(stack[i])

SearchOK ==
    /\ DOMAIN memo \subseteq Bucket
    /\ \A b \in DOMAIN memo : memo[b] \in BOOLEAN
    /\ DOMAIN policy \subseteq Bucket
    /\ \A b \in DOMAIN policy : policy[b] \in Action
    /\ visited \in Nat
    /\ capHit \in BOOLEAN
    /\ reason \in {"None", "DepthCap", "VisitCap"}

\* Type invariant: the state of one certify call and of the shared cache; the
\* stack stays within the depth cap and holds non-terminal buckets only.
TypeOK ==
    /\ CacheOK /\ CallOK /\ StackOK /\ SearchOK
    /\ pc \in {"idle", "call", "loop", "ret"}
    /\ arg \in Bucket
    /\ ret \in DfsResults

(***************************************************************************)
(* The reference: the least set of buckets from which some allowed action  *)
(* leads, whatever child is realised, to a terminal WIN or back into the   *)
(* set.  A bucket is in it iff it is in every set closed under that rule.  *)
(***************************************************************************)
Live == {b \in Bucket : ~Terminal(b)}
IsWin(b) == Outcome[question][b] = "WIN"
IsLoss(b) == Outcome[question][b] = "LOSS"
Allowed(b) == {LegalActions[b][i] : i \in DOMAIN LegalActions[b]} \ Banned[question]

ChildrenOf(b, a) ==
    LET s == edges[EdgeKey(b, a)].children IN {s[i] : i \in DOMAIN s}

ForcesInto(b, a, X) ==
    /\ EdgeKey(b, a) \in DOMAIN edges
    /\ edges[EdgeKey(b, a)].kind = "children"
    /\ ChildrenOf(b, a) # {}
    /\ \A c \in ChildrenOf(b, a) : IsWin(c) \/ c \in X

Closed(X) == \A b \in Live : (\E a \in Allowed(b) : ForcesInto(b, a, X)) => b \in X

(***************************************************************************)
(* The dual: in a trap every allowed action is expanded, and is conceded or*)
(* has a child that loses or stays in the trap, so no strategy leaves it.  *)
(***************************************************************************)
StaysIn(b, a, T) ==
    /\ EdgeKey(b, a) \in DOMAIN edges
    /\ \/ edges[EdgeKey(b, a)].kind = "conceded"
       \/ \E c \in ChildrenOf(b, a) : IsLoss(c) \/ c \in T

Trap(T) == \A b \in T : \A a \in Allowed(b) : StaysIn(b, a, T)

\* WIN is a proof: every bucket with a policy entry, every memoized WIN and a
\* WIN verdict lie in the least winning set, whatever was skipped, conceded,
\* capped or served from the cache of an earlier call (win_solver.h: "WIN is
\* a proof").
WinSound ==
    LET won == DOMAIN policy \union {b \in DOMAIN memo : memo[b]}
               \union {b \in {root} : result = "WIN" /\ ~IsWin(b)}
    IN  \A X \in SUBSET Live : won \subseteq X \/ ~Closed(X)

\* A memoized FAIL and a FAIL verdict hold whatever the path that reached the
\* bucket: it lies in a trap (the lowlink test of dfs() keeps FAILs that lean
\* on an on-stack ancestor out of the memo).
FailSound ==
    LET failed == {b \in DOMAIN memo : ~memo[b]}
                  \union {b \in {root} : result = "FAIL" /\ ~IsLoss(b)}
    IN  \A b \in failed : \E T \in SUBSET Live : b \in T /\ Trap(T)

\* The recorded policy is a certificate: every child of a policy action is a
\* terminal WIN or has a policy entry itself.
CertificateClosed ==
    \A b \in DOMAIN policy : ForcesInto(b, policy[b], DOMAIN policy)

\* The certificate has no cycle: every non-empty set of its buckets has one
\* whose policy children all lie outside it (build_cert_node and
\* pp_max_consumption throw on a cycle, calling it impossible).
CertificateAcyclic ==
    \A C \in (SUBSET DOMAIN policy) \ {{}} :
        \E b \in C : ChildrenOf(b, policy[b]) \cap C = {}

\* Only a cap makes the search indeterminate, and the reason names one that was
\* really hit.
IndetExplained ==
    /\ result = "INDET" => reason # "None"
    /\ reason = "VisitCap" => capHit
    /\ capHit => visited > VisitCap

\* The search ends: every certify call returns a verdict or throws.
Terminates == (pc # "idle") ~> (pc = "idle")

-----------------------------------------------------------------------------
(***************************************************************************)
(* The inductive invariant behind WinSound, FailSound and the certificate  *)
(* properties: how the frames hang together, and what each frame knows     *)
(* about the children and actions it has already tried.                    *)
(***************************************************************************)

FrameAction(f) == LegalActions[f.b][f.ai]
FrameEdge(f) == EdgeKey(f.b, FrameAction(f))
FrameChildren(f) == edges[FrameEdge(f)].children

\* The frame is inside and_over_children, at child f.ci.
Expanding(f) ==
    /\ f.ai \in 1..Len(LegalActions[f.b])
    /\ FrameAction(f) \notin Banned[question]
    /\ FrameEdge(f) \in DOMAIN edges
    /\ edges[FrameEdge(f)].kind = "children"
    /\ f.ci \in 1..Len(FrameChildren(f))

\* The bucket of the dfs() call that is pending or returning.
Current == IF stack = <<>> THEN root ELSE FrameChildren(Top)[Top.ci]

\* Each frame evaluates a child of the frame below it.
StackLinked ==
    /\ stack # <<>> => stack[1].b = root
    /\ \A i \in 1..(Len(stack) - 1) :
          Expanding(stack[i]) /\ FrameChildren(stack[i])[stack[i].ci] = stack[i + 1].b

Linked ==
    /\ StackLinked
    /\ pc \in {"call", "ret"} /\ stack # <<>> => Expanding(Top)
    /\ pc = "call" => arg = Current
    /\ pc = "loop" => stack # <<>> /\ Top.ci = 0
    /\ pc = "idle" => stack = <<>>
    /\ pc # "idle" => result = NoResult

\* The children the frame is past are terminal WINs or lie in X.
TriedWin(f, X) ==
    f.ci > 0 /\ Expanding(f) =>
        \A j \in 1..(f.ci - 1) : IsWin(FrameChildren(f)[j]) \/ FrameChildren(f)[j] \in X

\* Everything taken to win so far is a terminal WIN or lies in X.
WinsIn(X) ==
    /\ DOMAIN policy \subseteq X
    /\ \A b \in DOMAIN memo : memo[b] => b \in X
    /\ pc = "ret" /\ ret.v = "WIN" => IsWin(Current) \/ Current \in X
    /\ result = "WIN" => IsWin(root) \/ root \in X
    /\ \A i \in 1..Len(stack) : TriedWin(stack[i], X)

WinInv == \A X \in SUBSET Live : Closed(X) => WinsIn(X)

\* The buckets of the frames from depth d up to frame i.
StackBetween(d, i) == {stack[k].b : k \in (d + 1)..i}

\* A trap whose members may also lean on the buckets of S failing.
RelTrap(T, S) == \A b \in T : \A a \in Allowed(b) : StaysIn(b, a, T \union S)

Trapped(b) == \E T \in SUBSET Live : b \in T /\ RelTrap(T, {})

\* The first n - 1 actions of b fail provided the buckets of S do.
FailsWith(b, n, S) ==
    \E T \in SUBSET Live :
        /\ RelTrap(T, S)
        /\ \A j \in 1..(n - 1) :
              LegalActions[b][j] \notin Banned[question] =>
                  StaysIn(b, LegalActions[b][j], T \union S)

\* A FAIL of c that leans on the buckets of S failing.
RetFailsWith(c, S) ==
    \E T \in SUBSET Live : RelTrap(T, S) /\ (IsLoss(c) \/ c \in T \union S)

\* Without an indeterminate action, the actions a frame has tried fail provided
\* the frames from depth nlow on do.
FrameFails(i) ==
    FailsWith(stack[i].b, stack[i].ai, StackBetween(stack[i].nlow, i))

RetFails == RetFailsWith(Current, StackBetween(ret.low, Len(stack)))

FailInv ==
    /\ \A i \in 1..Len(stack) : ~stack[i].indet => FrameFails(i)
    /\ pc = "ret" /\ ret.v = "FAIL" => RetFails
    /\ \A b \in DOMAIN memo : ~memo[b] => Trapped(b)
    /\ result = "FAIL" => IsLoss(root) \/ Trapped(root)

\* No bucket is on the stack twice, and with the memo on none of them has been
\* decided while every policy entry is a memoized WIN.
StackUndecided ==
    /\ \A i, k \in 1..Len(stack) : stack[i].b = stack[k].b => i = k
    /\ EnableVerdictMemo =>
          /\ \A i \in 1..Len(stack) : stack[i].b \notin DOMAIN memo
          /\ \A b \in DOMAIN policy : b \in DOMAIN memo /\ memo[b]

\* A part of the certificate that the policy does not leave but to a terminal
\* WIN, and the largest such part without a bucket of S.
CertPart(R) == \A b \in R : \A c \in ChildrenOf(b, policy[b]) : IsWin(c) \/ c \in R
Clear(S) == UNION {R \in SUBSET DOMAIN policy : CertPart(R) /\ R \cap S = {}}

\* The win of c rests on no bucket of S.
WonClear(c, S) == IsWin(c) \/ c \in Clear(S)

\* The children a frame is past win without coming back to a bucket of S.
TriedClear(f, S) ==
    f.ci > 0 /\ Expanding(f) =>
        \A j \in 1..(f.ci - 1) : WonClear(FrameChildren(f)[j], S)

\* No win found so far rests on a bucket of the path that found it, which is
\* what keeps the next policy entry from closing a cycle.
ClearInv ==
    /\ \A i \in 1..Len(stack) : TriedClear(stack[i], StackBetween(0, i))
    /\ pc = "ret" /\ ret.v = "WIN" => WonClear(Current, StackBetween(0, Len(stack)))

AcyclicInv == StackUndecided /\ ClearInv /\ CertificateAcyclic

\* A frame or a return that is indeterminate met a cap that is recorded.
IndetInv ==
    /\ IndetExplained
    /\ capHit => reason # "None"
    /\ pc = "ret" /\ ret.v = "INDET" => reason # "None"
    /\ \A i \in 1..Len(stack) : stack[i].indet => reason # "None"
=============================================================================
