----------------------- MODULE WinSolverVerdictProofs -----------------------
(***************************************************************************)
(* A WIN of Solver B is a proof, and its policy is a certificate.  A FAIL  *)
(* that is memoized or handed to the caller does not lean on any bucket of *)
(* the search stack.                                                       *)
(***************************************************************************)
EXTENDS WinSolverProofs

\* The search step that X must survive: everything but a new certify call.
SearchStep == DfsNext \/ Join

\* A search step keeps the question and the root, and the cache only grows.
LEMMA SearchStepFacts ==
    ASSUME TypeOK, Linked, SearchStep
    PROVE  UNCHANGED <<calls, question, root>> /\ EdgesGrow
<1>1. CASE VisitTerminal \/ VisitMemo \/ VisitDepthCap \/ VisitOnStack \/ VisitVisitCap \/ VisitPush
  BY <1>1 DEF VisitTerminal, VisitMemo, VisitDepthCap, VisitOnStack, VisitVisitCap, VisitPush,
              Visit, callVars, EdgesGrow
<1>2. CASE SkipBanned \/ \E r \in Expansions : ExpandConceded(r)
  BY <1>2, SkipInductive DEF SkipBanned, ExpandConceded, EdgeExpand, callVars
<1>3. ASSUME NEW r \in Expansions, ExpandChildren(r) \/ ExpandThrows(r)
      PROVE  UNCHANGED <<calls, question, root>> /\ EdgesGrow
  BY <1>3, EdgeExpandFacts DEF ExpandChildren, ExpandThrows, EdgeExpand, callVars
<1>4. CASE AndNextChild \/ AndNotWin \/ DecideWin \/ DecideIndet \/ DecideFail \/ Join
  BY <1>4 DEF AndNextChild, AndNotWin, DecideWin, DecideIndet, DecideFail, Join, callVars,
              EdgesGrow
<1> QED
  BY <1>1, <1>2, <1>3, <1>4 DEF SearchStep, DfsNext

\* A set closed under more edges is closed under fewer.
LEMMA ClosedBack ==
    ASSUME question' = question, EdgesGrow, NEW X, X \in SUBSET Live', Closed(X)'
    PROVE  X \in SUBSET Live /\ Closed(X)
<1>1. Live' = Live
  BY DEF Live, Terminal
<1>2. ASSUME NEW b \in Live, NEW a \in Allowed(b), ForcesInto(b, a, X)
      PROVE  b \in X
  <2>1. EdgeKey(b, a)' = EdgeKey(b, a)
    BY DEF EdgeKey
  <2>2. EdgeKey(b, a) \in DOMAIN edges' /\ edges'[EdgeKey(b, a)] = edges[EdgeKey(b, a)]
    BY <1>2 DEF ForcesInto, EdgesGrow
  <2>3. ChildrenOf(b, a)' = ChildrenOf(b, a)
    BY <2>1, <2>2 DEF ChildrenOf
  <2>4. ForcesInto(b, a, X)'
    BY <1>2, <2>1, <2>2, <2>3 DEF ForcesInto, IsWin
  <2>5. a \in Allowed(b)' /\ b \in Live'
    BY <1>1 DEF Allowed
  <2> QED
    BY <2>4, <2>5 DEF Closed
<1> QED
  BY <1>1, <1>2 DEF Closed

\* A bucket about to be decided WIN is forced into every closed set.
LEMMA DecideWinForced ==
    ASSUME TypeOK, Linked, NEW X, WinsIn(X), DecideWin
    PROVE  Top.b \in Live /\ TopAction \in Allowed(Top.b) /\ ForcesInto(Top.b, TopAction, X)
<1>1. /\ stack # <<>> /\ Top \in Frame /\ Expanding(Top)
      /\ TopEdge = FrameEdge(Top) /\ TopAction = FrameAction(Top)
      /\ TopChildren = FrameChildren(Top) /\ TopChildren \in Seq(Bucket)
      /\ Top.ai \in 1..Len(LegalActions[Top.b])
      /\ Top.ci \in 1..Len(TopChildren)
      /\ Top.ci = Len(TopChildren)
  BY AndFacts DEF DecideWin
<1>2. Top.b \in Bucket /\ LegalActions[Top.b] \in Seq(Action) /\ FrameOK(Top)
  BY <1>1, TopFacts
<1>3. Top.b \in Live
  BY <1>2 DEF FrameOK, Live
<1>4. TopAction \in Allowed(Top.b)
  BY <1>1, <1>2 DEF Allowed, TopAction, Expanding
<1>5. EdgeKey(Top.b, TopAction) = TopEdge
  BY DEF TopEdge
<1>6. TopEdge \in DOMAIN edges /\ edges[TopEdge].kind = "children"
  BY <1>1 DEF Expanding
<1>7. ChildrenOf(Top.b, TopAction) = {TopChildren[j] : j \in DOMAIN TopChildren}
  BY <1>5 DEF ChildrenOf, TopChildren
<1>8. ASSUME NEW j \in DOMAIN TopChildren
      PROVE  IsWin(TopChildren[j]) \/ TopChildren[j] \in X
  <2>1. j \in 1..Len(TopChildren)
    BY <1>1
  <2>2. CASE j = Top.ci
    <3>1. Current = TopChildren[Top.ci]
      BY <1>1 DEF Current
    <3> QED
      BY <2>2, <3>1 DEF WinsIn, DecideWin
  <2>3. CASE j # Top.ci
    <3>1. j \in 1..(Top.ci - 1) /\ Top.ci > 0 /\ Len(stack) \in 1..Len(stack)
      BY <1>1, <2>1, <2>3, TopFacts
    <3> QED
      BY <1>1, <3>1 DEF WinsIn, TriedWin, Top
  <2> QED
    BY <2>2, <2>3
<1>9. ChildrenOf(Top.b, TopAction) # {}
  BY <1>1, <1>7
<1> QED
  BY <1>3, <1>4, <1>5, <1>6, <1>7, <1>8, <1>9 DEF ForcesInto

-----------------------------------------------------------------------------
(* WinsIn is preserved by a search step, for a set that may grow with it.   *)

\* The frames below the top keep what they know.
LEMMA LowerTried ==
    ASSUME StackLinked, question' = question, EdgesGrow, NEW X, NEW Y, X \subseteq Y, WinsIn(X),
           NEW i \in 1..(Len(stack) - 1), i \in 1..Len(stack), stack'[i] = stack[i]
    PROVE  TriedWin(stack[i], Y)'
<1>1. Expanding(stack[i])
  BY DEF StackLinked
<1>2. TriedWin(stack[i], X)
  BY DEF WinsIn
<1>3. FrameEdge(stack[i])' = FrameEdge(stack[i])
  BY DEF FrameEdge, FrameAction, EdgeKey
<1>4. FrameChildren(stack[i])' = FrameChildren(stack[i])
  BY <1>1, <1>3 DEF FrameChildren, Expanding, EdgesGrow
<1>5. stack[i].ci > 0 =>
         \A j \in 1..(stack[i].ci - 1) :
             IsWin(FrameChildren(stack[i])[j]) \/ FrameChildren(stack[i])[j] \in X
  BY <1>1, <1>2 DEF TriedWin
<1> QED
  BY <1>4, <1>5 DEF TriedWin, IsWin

LEMMA WinsInVisit ==
    ASSUME TypeOK, Linked, NEW X, NEW Y, X \subseteq Y, WinsIn(X),
           VisitTerminal \/ VisitMemo \/ VisitDepthCap \/ VisitOnStack \/ VisitVisitCap
    PROVE  WinsIn(Y)'
<1> USE DEF VisitTerminal, VisitMemo, VisitDepthCap, VisitOnStack, VisitVisitCap, Visit, Return,
            callVars
<1>1. UNCHANGED <<edges, question, root, stack, memo, policy, result, arg>> /\ pc = "call"
  OBVIOUS
<1>2. Current' = arg
  BY <1>1 DEF Linked, Current, FrameChildren, FrameEdge, FrameAction, EdgeKey, Top
<1>3. ret'.v = "WIN" => IsWin(arg) \/ arg \in X
  <2>1. CASE VisitTerminal
    BY <2>1 DEF IsWin, DfsResult
  <2>2. CASE VisitMemo
    BY <2>2 DEF WinsIn, DfsResult, InMemo
  <2>3. CASE VisitDepthCap \/ VisitOnStack \/ VisitVisitCap
    BY <2>3 DEF DfsResult
  <2> QED
    BY <2>1, <2>2, <2>3
<1>4. \A i \in 1..Len(stack') : TriedWin(stack[i], Y)'
  BY <1>1 DEF WinsIn, TriedWin, Expanding, FrameChildren, FrameEdge, FrameAction, EdgeKey, IsWin
<1> QED
  BY <1>1, <1>2, <1>3, <1>4 DEF WinsIn, IsWin

LEMMA WinsInPush ==
    ASSUME TypeOK, Linked, NEW X, NEW Y, X \subseteq Y, WinsIn(X), VisitPush
    PROVE  WinsIn(Y)'
<1> USE DEF VisitPush, Visit, callVars
<1>1. /\ UNCHANGED <<edges, question, root, memo, policy, result, arg>>
      /\ pc = "call" /\ pc' = "loop" /\ EdgesGrow
  BY DEF EdgesGrow
<1>2. stack \in Seq(Frame) /\ Len(stack) \in Nat /\ NewFrame(arg) \in Frame
  BY NewFrameFacts DEF TypeOK, StackOK
<1>3. /\ Len(stack') = Len(stack) + 1 /\ stack'[Len(stack) + 1] = NewFrame(arg)
      /\ \A i \in 1..Len(stack) : stack'[i] = stack[i]
  BY <1>2, PushFacts
<1>4. ASSUME NEW i \in 1..Len(stack') PROVE TriedWin(stack[i], Y)'
  <2>1. CASE i = Len(stack) + 1
    BY <1>3, <2>1 DEF TriedWin, NewFrame
  <2>2. CASE i \in 1..Len(stack)
    <3>1. stack'[i] = stack[i] /\ TriedWin(stack[i], X)
      BY <1>3, <2>2 DEF WinsIn
    <3> QED
      BY <1>1, <3>1
      DEF TriedWin, Expanding, FrameChildren, FrameEdge, FrameAction, EdgeKey, IsWin
  <2> QED
    BY <1>2, <1>3, <2>1, <2>2
<1> QED
  BY <1>1, <1>4 DEF WinsIn, IsWin

\* A step of the loops that decides nothing: only the new top needs a look.
LEMMA WinsInSetTop ==
    ASSUME TypeOK, Linked, NEW X, NEW Y, X \subseteq Y, WinsIn(X), SameBelow, EdgesGrow,
           UNCHANGED <<question, root, memo, policy, result>>, pc' # "ret",
           TriedWin(Top, Y)'
    PROVE  WinsIn(Y)'
<1>1. Len(stack) \in Nat /\ Len(stack) >= 1
  BY TopFacts DEF SameBelow
<1>2. ASSUME NEW i \in 1..Len(stack') PROVE TriedWin(stack[i], Y)'
  <2>1. CASE i = Len(stack)
    <3>1. Top' = stack'[i]
      BY <2>1 DEF Top, SameBelow
    <3> QED
      BY <3>1 DEF TriedWin, Expanding, FrameChildren, FrameEdge, FrameAction
  <2>2. CASE i # Len(stack)
    <3>1. i \in 1..(Len(stack) - 1) /\ i \in 1..Len(stack) /\ stack'[i] = stack[i]
      BY <1>1, <2>2 DEF SameBelow
    <3> QED
      BY <3>1, LowerTried DEF Linked
  <2> QED
    BY <2>1, <2>2
<1> QED
  BY <1>2 DEF WinsIn, IsWin

LEMMA WinsInLoops ==
    ASSUME TypeOK, Linked, NEW X, NEW Y, X \subseteq Y, WinsIn(X),
           \/ SkipBanned \/ \E r \in Expansions : ExpandConceded(r) \/ ExpandChildren(r)
           \/ AndNextChild \/ AndNotWin
    PROVE  WinsIn(Y)'
<1>1. CASE SkipBanned \/ \E r \in Expansions : ExpandConceded(r)
  <2>1. EdgesGrow /\ SameBelow /\ Top' = [Top EXCEPT !.ai = Top.ai + 1]
    BY <1>1, SkipInductive
  <2>2. UNCHANGED <<question, root, memo, policy, result, pc>> /\ pc = "loop"
    BY <1>1 DEF SkipBanned, ExpandConceded, EdgeExpand, callVars, searchVars
  <2>3. Top'.ci = 0
    BY <2>1, <2>2, TopFacts DEF Linked, SameBelow, Frame
  <2>4. TriedWin(Top, Y)'
    BY <2>3 DEF TriedWin
  <2> QED
    BY <2>1, <2>2, <2>4, WinsInSetTop
<1>2. ASSUME NEW r \in Expansions, ExpandChildren(r) PROVE WinsIn(Y)'
  <2>1. EdgesGrow /\ SameBelow /\ Top' = [Top EXCEPT !.ci = 1, !.low = kLowlinkInf]
    BY <1>2, ExpandChildrenInductive
  <2>2. UNCHANGED <<question, root, memo, policy, result>> /\ pc' = "call"
    BY <1>2 DEF ExpandChildren, EdgeExpand, callVars, searchVars
  <2>3. Top'.ci = 1
    BY <2>1, TopFacts DEF SameBelow, Frame
  <2>4. TriedWin(Top, Y)'
    BY <2>3 DEF TriedWin
  <2> QED
    BY <2>1, <2>2, <2>4, WinsInSetTop
<1>3. CASE AndNextChild
  <2>1. EdgesGrow /\ SameBelow /\ Top' = [Top EXCEPT !.ci = Top.ci + 1, !.low = AndLow]
    BY <1>3, AndNextChildInductive
  <2>2. UNCHANGED <<edges, question, root, memo, policy, result>> /\ pc' = "call"
    BY <1>3 DEF AndNextChild, callVars, searchVars
  <2>3. /\ Top \in Frame /\ Expanding(Top) /\ TopChildren = FrameChildren(Top)
        /\ Top.ci \in 1..Len(TopChildren) /\ stack # <<>> /\ pc = "ret" /\ ret.v = "WIN"
    BY <1>3, AndFacts DEF AndNextChild
  <2>4. Top'.ci = Top.ci + 1 /\ Top'.b = Top.b /\ Top'.ai = Top.ai
    BY <2>1, <2>3 DEF Frame
  <2>5. FrameChildren(Top)' = FrameChildren(Top)
    BY <2>2, <2>4 DEF FrameChildren, FrameEdge, FrameAction, EdgeKey
  <2>6. ASSUME NEW j \in 1..Top.ci
        PROVE  IsWin(FrameChildren(Top)[j]) \/ FrameChildren(Top)[j] \in X
    <3>1. CASE j = Top.ci
      BY <2>3, <3>1 DEF WinsIn, Current
    <3>2. CASE j # Top.ci
      <4>1. j \in 1..(Top.ci - 1) /\ Top.ci > 0 /\ Len(stack) \in 1..Len(stack)
        BY <2>3, <3>2, TopFacts
      <4> QED
        BY <2>3, <4>1 DEF WinsIn, TriedWin, Top
    <3> QED
      BY <3>1, <3>2
  <2>7. 1..(Top'.ci - 1) = 1..Top.ci
    BY <2>3, <2>4
  <2>8. TriedWin(Top, Y)'
    BY <2>2, <2>5, <2>6, <2>7 DEF TriedWin, IsWin
  <2> QED
    BY <2>1, <2>2, <2>8, WinsInSetTop
<1>4. CASE AndNotWin
  <2>1. /\ EdgesGrow /\ SameBelow
        /\ Top' = [Top EXCEPT !.ai = Top.ai + 1, !.ci = 0, !.nlow = MinOf(Top.nlow, AndLow),
                              !.indet = Top.indet \/ ret.v = "INDET"]
    BY <1>4, AndNotWinInductive
  <2>2. UNCHANGED <<question, root, memo, policy, result>> /\ pc' = "loop"
    BY <1>4 DEF AndNotWin, callVars, searchVars
  <2>3. Top'.ci = 0
    BY <2>1, TopFacts DEF SameBelow, Frame
  <2>4. TriedWin(Top, Y)'
    BY <2>3 DEF TriedWin
  <2> QED
    BY <2>1, <2>2, <2>4, WinsInSetTop
<1> QED
  BY <1>1, <1>2, <1>3, <1>4

\* A step that returns from the top frame.
LEMMA WinsInPop ==
    ASSUME TypeOK, Linked, NEW X, NEW Y, X \subseteq Y, WinsIn(X), stack # <<>>,
           stack' = Pop, UNCHANGED <<edges, question, root, result>>,
           DOMAIN policy' \subseteq Y, \A b \in DOMAIN memo' : memo'[b] => b \in Y,
           ret'.v = "WIN" => Top.b \in Y
    PROVE  WinsIn(Y)'
<1>1. /\ stack' \in Seq(Frame) /\ Len(stack') = Len(stack) - 1
      /\ \A i \in 1..(Len(stack) - 1) : stack'[i] = stack[i]
      /\ Current' = Top.b
  BY PopLinked DEF Linked
<1>2. Len(stack) \in Nat /\ Len(stack) >= 1
  BY TopFacts
<1>3. EdgesGrow
  BY DEF EdgesGrow
<1>4. ASSUME NEW i \in 1..Len(stack') PROVE TriedWin(stack[i], Y)'
  <2>1. i \in 1..(Len(stack) - 1) /\ i \in 1..Len(stack) /\ stack'[i] = stack[i]
    BY <1>1, <1>2
  <2> QED
    BY <1>3, <2>1, LowerTried DEF Linked
<1>5. (result = "WIN" => IsWin(root) \/ root \in Y)'
  BY DEF WinsIn, IsWin
<1> QED
  BY <1>1, <1>4, <1>5 DEF WinsIn

LEMMA WinsInDecide ==
    ASSUME TypeOK, Linked, NEW X, NEW Y, X \subseteq Y, WinsIn(X),
           (DecideWin /\ Top.b \in Y) \/ DecideIndet \/ DecideFail
    PROVE  WinsIn(Y)'
<1>1. CASE DecideWin /\ Top.b \in Y
  <2>1. stack # <<>> /\ Top.b \in Bucket
    BY <1>1, AndFacts, TopFacts DEF DecideWin
  <2>2. DOMAIN policy' \subseteq Y
    BY <1>1, DecideWinInductive DEF WinsIn
  <2>3. \A b \in DOMAIN memo' : memo'[b] => b \in Y
    <3>1. SearchOK /\ TRUE \in BOOLEAN
      BY DEF TypeOK
    <3>2. \A k \in DOMAIN memo' : k # Top.b => k \in DOMAIN memo /\ memo'[k] = memo[k]
      BY <1>1, <2>1, <3>1, StoreMemoFacts DEF DecideWin
    <3> QED
      BY <1>1, <3>2 DEF WinsIn
  <2> QED
    BY <1>1, <2>1, <2>2, <2>3, WinsInPop DEF DecideWin, callVars
<1>2. CASE DecideIndet \/ DecideFail
  <2>1. stack # <<>> /\ Top.b \in Bucket
    BY <1>2, TopFacts DEF DecideIndet, DecideFail, Exhausted, Linked
  <2>2. DOMAIN policy' \subseteq Y
    BY <1>2 DEF WinsIn, DecideIndet, DecideFail, searchVars
  <2>3. \A b \in DOMAIN memo' : memo'[b] => b \in Y
    <3>1. CASE StoreMemo(Top.b, FALSE)
      <4>1. SearchOK /\ FALSE \in BOOLEAN
        BY DEF TypeOK
      <4>2. \A k \in DOMAIN memo' : k # Top.b => k \in DOMAIN memo /\ memo'[k] = memo[k]
        BY <2>1, <3>1, <4>1, StoreMemoFacts
      <4>3. Top.b \in DOMAIN memo' /\ EnableVerdictMemo => ~memo'[Top.b]
        BY <2>1, <3>1, <4>1, StoreMemoFacts
      <4>4. ~EnableVerdictMemo => memo' = memo
        BY <2>1, <3>1, <4>1, StoreMemoFacts
      <4> QED
        BY <4>2, <4>3, <4>4 DEF WinsIn
    <3>2. CASE UNCHANGED memo
      BY <3>2 DEF WinsIn
    <3> QED
      BY <1>2, <3>1, <3>2 DEF DecideIndet, DecideFail, searchVars
  <2>4. ret'.v # "WIN"
    <3>1. ret' = DfsResult("INDET", Top.nlow) \/ ret' = DfsResult("FAIL", Top.nlow)
      BY <1>2 DEF DecideIndet, DecideFail, Return
    <3> QED
      BY <3>1 DEF DfsResult
  <2> QED
    BY <1>2, <2>1, <2>2, <2>3, <2>4, WinsInPop DEF DecideIndet, DecideFail, callVars
<1> QED
  BY <1>1, <1>2

LEMMA WinsInThrow ==
    ASSUME TypeOK, Linked, NEW X, NEW Y, X \subseteq Y, WinsIn(X),
           NEW r \in Expansions, ExpandThrows(r)
    PROVE  WinsIn(Y)'
<1>1. /\ stack' = <<>> /\ pc' = "idle" /\ result' = "exception"
      /\ UNCHANGED <<memo, policy>>
  BY DEF ExpandThrows, EdgeExpand, searchVars
<1> QED
  BY <1>1 DEF WinsIn

LEMMA WinsInJoin ==
    ASSUME TypeOK, Linked, NEW X, NEW Y, X \subseteq Y, WinsIn(X), Join
    PROVE  WinsIn(Y)'
<1>1. /\ stack = <<>> /\ stack' = <<>> /\ pc = "ret" /\ pc' = "idle" /\ result' = ret.v
      /\ UNCHANGED <<memo, policy, root, question>>
  BY DEF Join, searchVars, callVars
<1>2. Current = root
  BY <1>1 DEF Current
<1> QED
  BY <1>1, <1>2 DEF WinsIn, IsWin

\* One search step, for a set that receives the bucket it decides WIN.
LEMMA WinsInStep ==
    ASSUME TypeOK, Linked, NEW X, NEW Y, X \subseteq Y, WinsIn(X), SearchStep,
           DecideWin => Top.b \in Y
    PROVE  WinsIn(Y)'
BY WinsInVisit, WinsInPush, WinsInLoops, WinsInDecide, WinsInThrow, WinsInJoin
DEF SearchStep, DfsNext

-----------------------------------------------------------------------------
(* The theorems.                                                            *)

\* A new certify call starts from nothing.
LEMMA NewCallWins ==
    ASSUME Linked, NEW q \in Question, NEW b \in Bucket,
           CertifyTerminalRoot(q, b) \/ Certify(q, b), NEW Y
    PROVE  WinsIn(Y)'
<1>1. /\ DOMAIN memo' = {} /\ DOMAIN policy' = {} /\ stack' = <<>> /\ pc' # "ret"
      /\ root' = b /\ question' = q
  BY DEF CertifyTerminalRoot, Certify, NewCall, Empty
<1>2. result' = "WIN" => Outcome[q][b] = "WIN"
  BY DEF CertifyTerminalRoot, Certify, NoResult
<1> QED
  BY <1>1, <1>2 DEF WinsIn, IsWin

LEMMA WinInvInit == Init => WinInv
BY DEF Init, WinInv, WinsIn, Empty, NoResult

LEMMA WinInvStep == TypeOK /\ Linked /\ WinInv /\ [Next]_vars => WinInv'
<1> SUFFICES ASSUME TypeOK, Linked, WinInv, [Next]_vars PROVE WinInv'
  OBVIOUS
<1> SUFFICES ASSUME NEW X, X \in SUBSET Live', Closed(X)' PROVE WinsIn(X)'
  BY DEF WinInv
<1>1. CASE \E q \in Question, b \in Bucket : CertifyTerminalRoot(q, b) \/ Certify(q, b)
  BY <1>1, NewCallWins
<1>2. CASE SearchStep
  <2>1. question' = question /\ EdgesGrow
    BY <1>2, SearchStepFacts
  <2>2. X \in SUBSET Live /\ Closed(X)
    BY <2>1, ClosedBack
  <2>3. WinsIn(X)
    BY <2>2 DEF WinInv
  <2>4. DecideWin => Top.b \in X
    BY <2>2, <2>3, DecideWinForced DEF Closed
  <2> QED
    BY <1>2, <2>3, <2>4, WinsInStep
<1>3. CASE UNCHANGED vars
  <2>1. X \in SUBSET Live /\ Closed(X)
    BY <1>3, ClosedBack DEF vars, EdgesGrow
  <2>2. WinsIn(X)
    BY <2>1 DEF WinInv
  <2> QED
    BY <1>3, <2>2
    DEF vars, WinsIn, IsWin, TriedWin, Expanding, FrameChildren, FrameEdge, FrameAction, EdgeKey,
        Top, Current
<1> QED
  BY <1>1, <1>2, <1>3 DEF Next, SearchStep

\* WIN is a proof, for every bucket graph, cap and sequence of questions on one
\* cache: what the search takes to win lies in every set closed under "some
\* allowed action forces every child into the set or a terminal WIN".
THEOREM WinIsProof == Spec => []WinSound
<1>1. WinInv => WinSound
  BY DEF WinInv, WinSound, WinsIn
<1>2. Spec => [](TypeOK /\ Linked /\ WinInv)
  BY TypeInit, LinkedStep, WinInvInit, WinInvStep, PTL DEF Spec
<1> QED
  BY <1>1, <1>2, PTL

\* Everything taken to win so far has a policy entry, and the policy is closed.
CertInv == WinsIn(DOMAIN policy) /\ CertificateClosed

LEMMA CertInvInit == Init => CertInv
BY DEF Init, CertInv, WinsIn, CertificateClosed, Empty, NoResult

\* The policy entries of a certify call stay, and stay closed, until the next.
LEMMA CertInvSearch ==
    ASSUME TypeOK, Linked, CertInv, SearchStep
    PROVE  CertInv'
<1>1. UNCHANGED <<question, root>> /\ EdgesGrow
  BY SearchStepFacts
<1>2. /\ DOMAIN policy \subseteq DOMAIN policy'
      /\ \A b \in DOMAIN policy' :
            (b \in DOMAIN policy /\ policy'[b] = policy[b]) \/ (DecideWin /\ b = Top.b)
      /\ DecideWin => Top.b \in DOMAIN policy'
  <2>1. CASE DecideWin
    <3>1. /\ DOMAIN policy' = DOMAIN policy \union {Top.b}
          /\ \A k \in DOMAIN policy : k # Top.b => policy'[k] = policy[k]
      BY <2>1, DecideWinInductive
    <3> QED
      BY <2>1, <3>1
  <2>2. CASE ~DecideWin
    <3>1. policy' = policy
      BY <2>2 DEF SearchStep, DfsNext, Join, VisitTerminal, VisitMemo, VisitDepthCap,
         VisitOnStack, VisitVisitCap, VisitPush, Visit, SkipBanned, ExpandConceded,
         ExpandChildren, ExpandThrows, EdgeExpand, AndNextChild, AndNotWin, DecideIndet,
         DecideFail, searchVars
    <3> QED
      BY <2>2, <3>1
  <2> QED
    BY <2>1, <2>2
<1>3. WinsIn(DOMAIN policy)'
  <2>1. PICK X : X = DOMAIN policy
    OBVIOUS
  <2>2. PICK Y : Y = DOMAIN policy'
    OBVIOUS
  <2>3. WinsIn(X)
    BY <2>1 DEF CertInv
  <2>4. X \subseteq Y /\ (DecideWin => Top.b \in Y)
    BY <1>2, <2>1, <2>2
  <2>5. WinsIn(Y)'
    BY <2>3, <2>4, WinsInStep
  <2> QED
    BY <2>2, <2>5 DEF WinsIn, TriedWin
<1>4. ASSUME NEW b \in DOMAIN policy, NEW a, ForcesInto(b, a, DOMAIN policy)
      PROVE  /\ EdgeKey(b, a) \in DOMAIN edges' /\ EdgeKey(b, a)' = EdgeKey(b, a)
             /\ edges'[EdgeKey(b, a)] = edges[EdgeKey(b, a)]
             /\ ChildrenOf(b, a)' = ChildrenOf(b, a)
  <2>1. EdgeKey(b, a)' = EdgeKey(b, a)
    BY <1>1 DEF EdgeKey
  <2>2. EdgeKey(b, a) \in DOMAIN edges' /\ edges'[EdgeKey(b, a)] = edges[EdgeKey(b, a)]
    BY <1>1, <1>4 DEF ForcesInto, EdgesGrow
  <2> QED
    BY <2>1, <2>2 DEF ChildrenOf
<1>5. ASSUME NEW b \in DOMAIN policy' PROVE ForcesInto(b, policy[b], DOMAIN policy)'
  <2>1. CASE DecideWin /\ b = Top.b
    <3>1. PICK X : X = DOMAIN policy
      OBVIOUS
    <3>2. ForcesInto(Top.b, TopAction, X)
      BY <2>1, <3>1, DecideWinForced DEF CertInv
    <3>3. policy'[b] = TopAction /\ X \subseteq DOMAIN policy' /\ UNCHANGED edges
      BY <2>1, <3>1, <1>2, DecideWinInductive DEF DecideWin
    <3> QED
      BY <1>1, <2>1, <3>2, <3>3 DEF ForcesInto, ChildrenOf, EdgeKey, IsWin
  <2>2. CASE ~(DecideWin /\ b = Top.b)
    <3>1. b \in DOMAIN policy /\ policy'[b] = policy[b] /\ DOMAIN policy \subseteq DOMAIN policy'
      BY <1>2, <2>2
    <3>2. ForcesInto(b, policy[b], DOMAIN policy)
      BY <3>1 DEF CertInv, CertificateClosed
    <3>3. PICK a : a = policy[b]
      OBVIOUS
    <3>4. /\ EdgeKey(b, a) \in DOMAIN edges' /\ EdgeKey(b, a)' = EdgeKey(b, a)
          /\ edges'[EdgeKey(b, a)] = edges[EdgeKey(b, a)]
          /\ ChildrenOf(b, a)' = ChildrenOf(b, a)
      BY <3>1, <3>2, <3>3, <1>4
    <3>5. /\ edges[EdgeKey(b, a)].kind = "children" /\ ChildrenOf(b, a) # {}
          /\ \A c \in ChildrenOf(b, a) : IsWin(c) \/ c \in DOMAIN policy
      BY <3>2, <3>3 DEF ForcesInto
    <3>6. ForcesInto(b, a, DOMAIN policy)'
      BY <1>1, <3>1, <3>4, <3>5 DEF ForcesInto, IsWin
    <3> QED
      BY <3>1, <3>3, <3>6 DEF ForcesInto, ChildrenOf, EdgeKey
  <2> QED
    BY <2>1, <2>2
<1> QED
  BY <1>3, <1>5 DEF CertInv, CertificateClosed

LEMMA CertInvStep == TypeOK /\ Linked /\ CertInv /\ [Next]_vars => CertInv'
<1> SUFFICES ASSUME TypeOK, Linked, CertInv, [Next]_vars PROVE CertInv'
  OBVIOUS
<1>1. ASSUME NEW q \in Question, NEW b \in Bucket, CertifyTerminalRoot(q, b) \/ Certify(q, b)
      PROVE  CertInv'
  <2>1. PICK Y : Y = {}
    OBVIOUS
  <2>2. WinsIn(Y)'
    BY <1>1, NewCallWins
  <2>3. DOMAIN policy' = {}
    BY <1>1 DEF CertifyTerminalRoot, Certify, NewCall, Empty
  <2> QED
    BY <2>1, <2>2, <2>3 DEF CertInv, CertificateClosed, WinsIn, TriedWin
<1>2. CASE SearchStep
  BY <1>2, CertInvSearch
<1>3. CASE UNCHANGED vars
  <2>1. WinsIn(DOMAIN policy)'
    BY <1>3
    DEF vars, CertInv, WinsIn, IsWin, TriedWin, Expanding, FrameChildren, FrameEdge, FrameAction,
        EdgeKey, Top, Current
  <2>2. CertificateClosed'
    BY <1>3 DEF vars, CertInv, CertificateClosed, ForcesInto, ChildrenOf, EdgeKey, IsWin
  <2> QED
    BY <2>1, <2>2 DEF CertInv
<1> QED
  BY <1>1, <1>2, <1>3 DEF Next, SearchStep

\* The recorded policy is a certificate: each of its actions was expanded, not
\* conceded, and every child is a terminal WIN or has a policy entry, so
\* build_cert_node never misses one.
THEOREM PolicyIsCertificate == Spec => []CertificateClosed
<1>1. Spec => [](TypeOK /\ Linked /\ CertInv)
  BY TypeInit, LinkedStep, CertInvInit, CertInvStep, PTL DEF Spec
<1>2. CertInv => CertificateClosed
  BY DEF CertInv
<1> QED
  BY <1>1, <1>2, PTL

-----------------------------------------------------------------------------
(* The certificate has no cycle.                                            *)

\* The largest part of the certificate without a bucket of S is such a part.
LEMMA ClearFacts ==
    ASSUME NEW S
    PROVE  Clear(S) \subseteq DOMAIN policy /\ CertPart(Clear(S)) /\ Clear(S) \cap S = {}
BY DEF Clear, CertPart

LEMMA ClearHas ==
    ASSUME NEW S, NEW R, R \subseteq DOMAIN policy, CertPart(R), R \cap S = {}
    PROVE  R \subseteq Clear(S)
BY DEF Clear

\* What the policy says of a bucket outlives the growth of the cache.
LEMMA PolicyChildrenKept ==
    ASSUME question' = question, EdgesGrow, CertificateClosed, NEW b \in DOMAIN policy,
           NEW a, a = policy[b]
    PROVE  ChildrenOf(b, a)' = ChildrenOf(b, a)
<1>1. EdgeKey(b, a)' = EdgeKey(b, a)
  BY DEF EdgeKey
<1>2. edges'[EdgeKey(b, a)] = edges[EdgeKey(b, a)]
  BY DEF CertificateClosed, ForcesInto, EdgesGrow
<1> QED
  BY <1>1, <1>2 DEF ChildrenOf

\* A part of the certificate that no new entry touches stays one.
LEMMA CertPartKept ==
    ASSUME question' = question, EdgesGrow, CertificateClosed,
           NEW R, R \subseteq DOMAIN policy, CertPart(R),
           R \subseteq DOMAIN policy', \A b \in R : policy'[b] = policy[b]
    PROVE  CertPart(R)'
<1>1. ASSUME NEW b \in R, NEW c, c \in ChildrenOf(b, policy[b])'
      PROVE  IsWin(c)' \/ c \in R
  <2>1. PICK a : a = policy[b]
    OBVIOUS
  <2>2. ChildrenOf(b, policy[b])' = ChildrenOf(b, a)'
    BY <2>1 DEF ChildrenOf, EdgeKey
  <2>3. c \in ChildrenOf(b, a)
    BY <1>1, <2>1, <2>2, PolicyChildrenKept
  <2> QED
    BY <2>1, <2>3 DEF CertPart, IsWin
<1> QED
  BY <1>1 DEF CertPart, IsWin

\* Without a new policy entry, a win keeps what it rests on.
LEMMA WonClearKept ==
    ASSUME question' = question, EdgesGrow, CertificateClosed, policy' = policy,
           NEW c, NEW S, WonClear(c, S)
    PROVE  WonClear(c, S)'
<1>1. CASE IsWin(c)
  BY <1>1 DEF WonClear, IsWin
<1>2. CASE c \in Clear(S)
  <2>1. PICK R : R = Clear(S)
    OBVIOUS
  <2>2. R \subseteq DOMAIN policy /\ CertPart(R) /\ R \cap S = {}
    BY <2>1, ClearFacts
  <2>3. CertPart(R)' /\ R \in SUBSET DOMAIN policy'
    BY <2>2, CertPartKept
  <2> QED
    BY <1>2, <2>1, <2>2, <2>3 DEF WonClear, Clear
<1> QED
  BY <1>1, <1>2 DEF WonClear

\* The policy receives an entry for b, whose children all win clear of b.
NewEntry(b, a, P) ==
    /\ DOMAIN policy' = DOMAIN policy \union {b} /\ policy'[b] = a
    /\ \A k \in DOMAIN policy : k # b => policy'[k] = policy[k]
    /\ P \subseteq DOMAIN policy /\ CertPart(P) /\ b \notin P
    /\ \A c \in ChildrenOf(b, a)' : IsWin(c) \/ c \in P

\* A part of the certificate stays one once b and what b rests on are added.
LEMMA CertPartNewEntry ==
    ASSUME question' = question, EdgesGrow, CertificateClosed,
           NEW b, NEW a, NEW P, NewEntry(b, a, P),
           NEW R, R \subseteq DOMAIN policy, CertPart(R)
    PROVE  CertPart(R \union {b} \union P)' /\ R \union {b} \union P \subseteq DOMAIN policy'
<1>1. ASSUME NEW k \in R \union {b} \union P, NEW c, c \in ChildrenOf(k, policy[k])'
      PROVE  IsWin(c)' \/ c \in R \union {b} \union P
  <2>1. PICK d : d = policy'[k]
    OBVIOUS
  <2>2. c \in ChildrenOf(k, d)'
    BY <1>1, <2>1 DEF ChildrenOf, EdgeKey
  <2>3. CASE k = b
    <3>1. d = a
      BY <2>1, <2>3 DEF NewEntry
    <3>2. c \in ChildrenOf(b, a)'
      BY <2>2, <2>3, <3>1
    <3> QED
      BY <3>2 DEF NewEntry, IsWin
  <2>4. CASE k # b
    <3>1. k \in DOMAIN policy /\ policy[k] = d
      BY <2>1, <2>4 DEF NewEntry
    <3>2. c \in ChildrenOf(k, policy[k])
      BY <2>2, <3>1, PolicyChildrenKept
    <3> QED
      BY <2>4, <3>2 DEF NewEntry, CertPart, IsWin
  <2> QED
    BY <2>3, <2>4
<1>2. PICK Q : Q = R \union {b} \union P
  OBVIOUS
<1>3. CertPart(Q)'
  BY <1>1, <1>2 DEF CertPart, IsWin
<1>4. CertPart(R \union {b} \union P)'
  BY <1>2, <1>3 DEF CertPart
<1> QED
  BY <1>4 DEF NewEntry

\* A new policy entry leaves every win clear of what it was clear of, and makes
\* its own bucket one.
LEMMA WonClearNewEntry ==
    ASSUME question' = question, EdgesGrow, CertificateClosed,
           NEW b, NEW a, NEW P, NewEntry(b, a, P), NEW S, b \notin S, P \cap S = {}, NEW c,
           WonClear(c, S) \/ c = b
    PROVE  WonClear(c, S)'
<1>1. CASE IsWin(c)
  BY <1>1 DEF WonClear, IsWin
<1>2. CASE c \in Clear(S) \/ c = b
  <2>1. PICK R : R = Clear(S)
    OBVIOUS
  <2>2. R \subseteq DOMAIN policy /\ CertPart(R) /\ R \cap S = {}
    BY <2>1, ClearFacts
  <2>3. PICK Q : Q = R \union {b} \union P
    OBVIOUS
  <2>4. CertPart(Q)' /\ Q \in SUBSET DOMAIN policy'
    <3>1. CertPart(R \union {b} \union P)' /\ R \union {b} \union P \subseteq DOMAIN policy'
      BY <2>2, CertPartNewEntry
    <3> QED
      BY <2>3, <3>1 DEF CertPart
  <2>5. c \in Q /\ Q \cap S = {}
    BY <1>2, <2>1, <2>2, <2>3
  <2> QED
    BY <2>4, <2>5 DEF WonClear, Clear
<1> QED
  BY <1>1, <1>2 DEF WonClear

\* No new policy entry closes a cycle.
LEMMA AcyclicNewEntry ==
    ASSUME question' = question, EdgesGrow, CertificateClosed, CertificateAcyclic,
           DOMAIN policy' \subseteq Live,
           NEW b, NEW a, NEW P, NewEntry(b, a, P)
    PROVE  CertificateAcyclic'
<1> SUFFICES ASSUME NEW C, C \subseteq DOMAIN policy', C # {},
                    \A k \in C : ChildrenOf(k, policy[k])' \cap C # {}
             PROVE  FALSE
  BY DEF CertificateAcyclic
<1>1. ASSUME NEW k \in C, k # b
      PROVE  k \in DOMAIN policy /\ \E c \in ChildrenOf(k, policy[k]) : c \in C
  <2>1. k \in DOMAIN policy /\ policy'[k] = policy[k]
    BY <1>1 DEF NewEntry
  <2>2. PICK d : d = policy[k]
    OBVIOUS
  <2>3. ChildrenOf(k, policy[k])' = ChildrenOf(k, d)'
    BY <2>1, <2>2 DEF ChildrenOf, EdgeKey
  <2>4. ChildrenOf(k, d)' = ChildrenOf(k, policy[k])
    BY <2>1, <2>2, PolicyChildrenKept
  <2> QED
    BY <2>1, <2>3, <2>4
<1>2. CASE b \notin C
  <2>1. C \subseteq DOMAIN policy /\ \A k \in C : ChildrenOf(k, policy[k]) \cap C # {}
    BY <1>1, <1>2
  <2> QED
    BY <2>1 DEF CertificateAcyclic
<1>3. CASE b \in C
  <2> DEFINE D == C \cap P
  <2>1. \A c \in C : ~IsWin(c)
    BY DEF Live, Terminal, IsWin
  <2>2. D # {}
    <3>1. ChildrenOf(b, policy[b])' = ChildrenOf(b, a)'
      BY DEF NewEntry, ChildrenOf, EdgeKey
    <3>2. PICK c \in C : c \in ChildrenOf(b, a)'
      BY <1>3, <3>1
    <3> QED
      BY <2>1, <3>2 DEF NewEntry
  <2>3. ASSUME NEW k \in D PROVE ChildrenOf(k, policy[k]) \cap D # {}
    <3>1. k # b /\ k \in C /\ k \in P
      BY DEF NewEntry
    <3>2. PICK c \in ChildrenOf(k, policy[k]) : c \in C
      BY <1>1, <3>1
    <3>3. c \in P
      BY <2>1, <3>1, <3>2 DEF NewEntry, CertPart
    <3> QED
      BY <3>2, <3>3
  <2>4. D \subseteq DOMAIN policy
    BY DEF NewEntry
  <2> HIDE DEF D
  <2> QED
    BY <2>2, <2>3, <2>4 DEF CertificateAcyclic
<1> QED
  BY <1>2, <1>3

-----------------------------------------------------------------------------
(* What the frames know, from one state to the next.                        *)

\* The buckets of the path that keep their place.
LEMMA PathKept ==
    ASSUME NEW i \in Nat, \A k \in 1..i : stack'[k].b = stack[k].b
    PROVE  StackBetween(0, i)' = StackBetween(0, i)
BY DEF StackBetween

LEMMA TriedClearPrimed ==
    ASSUME NEW i, NEW S, StackBetween(0, i)' = S,
           \A j \in 1..(stack'[i].ci - 1) :
               \A c : c = FrameChildren(stack[i])'[j] => WonClear(c, S)'
    PROVE  TriedClear(stack[i], StackBetween(0, i))'
<1>1. ASSUME NEW j \in 1..(stack'[i].ci - 1)
      PROVE  WonClear(FrameChildren(stack[i])[j], StackBetween(0, i))'
  <2>1. PICK c : c = FrameChildren(stack[i])'[j]
    OBVIOUS
  <2>2. WonClear(c, S)'
    BY <2>1
  <2>3. CASE IsWin(c)'
    BY <2>1, <2>3 DEF WonClear, IsWin
  <2>4. CASE c \in Clear(S)'
    <3>1. PICK R \in SUBSET DOMAIN policy' : CertPart(R)' /\ R \cap S = {} /\ c \in R
      BY <2>4 DEF Clear
    <3> QED
      BY <2>1, <3>1 DEF WonClear, Clear
  <2> QED
    BY <2>2, <2>3, <2>4 DEF WonClear
<1> QED
  BY <1>1 DEF TriedClear

LEMMA RetClearPrimed ==
    ASSUME NEW c, NEW S, WonClear(c, S)', Current' = c, StackBetween(0, Len(stack))' = S
    PROVE  WonClear(Current, StackBetween(0, Len(stack)))'
<1>1. CASE IsWin(c)'
  BY <1>1 DEF WonClear, IsWin
<1>2. CASE c \in Clear(S)'
  <2>1. PICK R \in SUBSET DOMAIN policy' : CertPart(R)' /\ R \cap S = {} /\ c \in R
    BY <1>2 DEF Clear
  <2> QED
    BY <2>1 DEF WonClear, Clear
<1> QED
  BY <1>1, <1>2 DEF WonClear

\* A frame that stays as it is keeps what it knows.
LEMMA FrameClearKept ==
    ASSUME ClearInv, question' = question, EdgesGrow, NEW i \in 1..Len(stack), i \in Nat,
           stack'[i] = stack[i], \A k \in 1..i : stack'[k].b = stack[k].b,
           stack[i].ci > 0 => Expanding(stack[i]),
           NEW S, S = StackBetween(0, i), \A c : WonClear(c, S) => WonClear(c, S)'
    PROVE  TriedClear(stack[i], StackBetween(0, i))'
<1>1. StackBetween(0, i)' = S
  BY PathKept
<1>2. CASE stack[i].ci > 0
  <2>1. FrameEdge(stack[i])' = FrameEdge(stack[i])
    BY DEF FrameEdge, FrameAction, EdgeKey
  <2>2. FrameChildren(stack[i])' = FrameChildren(stack[i])
    BY <1>2, <2>1 DEF FrameChildren, Expanding, EdgesGrow
  <2>3. \A j \in 1..(stack[i].ci - 1) : WonClear(FrameChildren(stack[i])[j], S)
    BY <1>2 DEF ClearInv, TriedClear
  <2> QED
    BY <1>1, <2>2, <2>3, TriedClearPrimed
<1>3. CASE ~(stack[i].ci > 0)
  BY <1>3 DEF TriedClear
<1> QED
  BY <1>2, <1>3

LEMMA ClearVisit ==
    ASSUME TypeOK, Linked, CertInv, AcyclicInv,
           VisitTerminal \/ VisitMemo \/ VisitDepthCap \/ VisitOnStack \/ VisitVisitCap
    PROVE  ClearInv'
<1> USE DEF VisitTerminal, VisitMemo, VisitDepthCap, VisitOnStack, VisitVisitCap, Visit, Return,
            callVars
<1>1. /\ UNCHANGED <<edges, question, root, stack, memo, policy, result, arg>> /\ pc = "call"
      /\ EdgesGrow /\ CertificateClosed /\ ClearInv /\ Len(stack) \in Nat
  BY DEF EdgesGrow, AcyclicInv, CertInv, TypeOK, StackOK
<1>2. Current' = arg
  BY <1>1 DEF Linked, Current, FrameChildren, FrameEdge, FrameAction, EdgeKey, Top
<1>3. ASSUME NEW i \in 1..Len(stack') PROVE TriedClear(stack[i], StackBetween(0, i))'
  <2>1. PICK S : S = StackBetween(0, i)
    OBVIOUS
  <2>2. Expanding(stack[i])
    BY <1>1 DEF Linked, StackLinked, Top
  <2> QED
    BY <1>1, <2>1, <2>2, WonClearKept, FrameClearKept
<1>4. PICK S : S = StackBetween(0, Len(stack))
  OBVIOUS
<1>5. StackBetween(0, Len(stack))' = S
  BY <1>1, <1>4 DEF StackBetween
<1>6. ret'.v = "WIN" => WonClear(arg, S)
  <2>1. CASE VisitTerminal
    BY <2>1 DEF WonClear, IsWin, DfsResult
  <2>2. ASSUME VisitMemo, ret'.v = "WIN" PROVE WonClear(arg, S)
    <3>1. EnableVerdictMemo /\ arg \in DOMAIN memo /\ memo[arg]
      BY <2>2 DEF InMemo, DfsResult
    <3>2. PICK R : R = DOMAIN policy
      OBVIOUS
    <3>3. arg \in R
      BY <3>1, <3>2 DEF CertInv, WinsIn
    <3>4. CertPart(R)
      BY <1>1, <3>2 DEF CertificateClosed, ForcesInto, CertPart
    <3>5. R \cap S = {}
      BY <1>1, <1>4, <3>1, <3>2 DEF AcyclicInv, StackUndecided, StackBetween
    <3> QED
      BY <3>2, <3>3, <3>4, <3>5, ClearHas DEF WonClear
  <2>3. CASE VisitDepthCap \/ VisitOnStack \/ VisitVisitCap
    BY <2>3 DEF DfsResult
  <2> QED
    BY <2>1, <2>2, <2>3
<1>7. ret'.v = "WIN" => WonClear(Current, StackBetween(0, Len(stack)))'
  <2>1. PICK c : c = arg
    OBVIOUS
  <2>2. WonClear(c, S) => WonClear(c, S)'
    BY <1>1, WonClearKept
  <2> QED
    BY <1>2, <1>5, <1>6, <2>1, <2>2, RetClearPrimed
<1> QED
  BY <1>3, <1>7 DEF ClearInv

LEMMA ClearPush ==
    ASSUME TypeOK, Linked, CertInv, AcyclicInv, VisitPush
    PROVE  ClearInv'
<1> USE DEF VisitPush, Visit, callVars
<1>1. /\ UNCHANGED <<edges, question, root, memo, policy, result, arg>> /\ pc = "call"
      /\ pc' = "loop" /\ EdgesGrow /\ CertificateClosed /\ ClearInv
  BY DEF EdgesGrow, AcyclicInv, CertInv
<1>2. stack \in Seq(Frame) /\ Len(stack) \in Nat /\ NewFrame(arg) \in Frame
  BY NewFrameFacts DEF TypeOK, StackOK
<1>3. /\ Len(stack') = Len(stack) + 1 /\ stack'[Len(stack) + 1] = NewFrame(arg)
      /\ \A i \in 1..Len(stack) : stack'[i] = stack[i]
  BY <1>2, PushFacts
<1>4. ASSUME NEW i \in 1..Len(stack') PROVE TriedClear(stack[i], StackBetween(0, i))'
  <2>1. CASE i = Len(stack) + 1
    BY <1>3, <2>1 DEF TriedClear, NewFrame
  <2>2. CASE i \in 1..Len(stack)
    <3>1. PICK S : S = StackBetween(0, i)
      OBVIOUS
    <3>2. Expanding(stack[i])
      BY <1>1, <1>2, <2>2 DEF Linked, StackLinked, Top
    <3>3. stack'[i] = stack[i] /\ \A k \in 1..i : stack'[k].b = stack[k].b
      BY <1>2, <1>3, <2>2
    <3> QED
      BY <1>1, <2>2, <3>1, <3>2, <3>3, WonClearKept, FrameClearKept
  <2> QED
    BY <1>2, <1>3, <2>1, <2>2
<1> QED
  BY <1>1, <1>4 DEF ClearInv

\* A step of the loops that decides nothing: only the new top needs a look.
LEMMA ClearSetTop ==
    ASSUME TypeOK, Linked, CertificateClosed, ClearInv, SameBelow, EdgesGrow,
           UNCHANGED <<question, policy>>, pc' # "ret",
           NEW n, n = Len(stack), TriedClear(stack[n], StackBetween(0, n))',
           stack'[n].b = stack[n].b
    PROVE  ClearInv'
<1>1. Len(stack) \in Nat /\ Len(stack) >= 1
  BY TopFacts DEF SameBelow
<1>2. ASSUME NEW i \in 1..Len(stack') PROVE TriedClear(stack[i], StackBetween(0, i))'
  <2>1. CASE i = n
    BY <2>1
  <2>2. CASE i # n
    <3>1. i \in 1..(Len(stack) - 1) /\ i \in 1..Len(stack) /\ i \in Nat
      BY <1>1, <2>2 DEF SameBelow
    <3>2. stack'[i] = stack[i] /\ \A k \in 1..i : stack'[k].b = stack[k].b
      BY <1>1, <3>1 DEF SameBelow
    <3>3. Expanding(stack[i])
      BY <3>1 DEF Linked, StackLinked
    <3>4. PICK S : S = StackBetween(0, i)
      OBVIOUS
    <3> QED
      BY <3>1, <3>2, <3>3, <3>4, WonClearKept, FrameClearKept
  <2> QED
    BY <2>1, <2>2
<1> QED
  BY <1>2 DEF ClearInv

LEMMA ClearLoops ==
    ASSUME TypeOK, Linked, CertInv, AcyclicInv,
           \/ SkipBanned \/ \E r \in Expansions : ExpandConceded(r) \/ ExpandChildren(r)
           \/ AndNextChild \/ AndNotWin
    PROVE  ClearInv'
<1>1. UNCHANGED <<question, policy>> /\ pc' # "ret" /\ CertificateClosed /\ ClearInv
  BY DEF SkipBanned, ExpandConceded, ExpandChildren, EdgeExpand, AndNextChild, AndNotWin,
         searchVars, callVars, Linked, CertInv, AcyclicInv
<1>2. PICK n : n = Len(stack)
  OBVIOUS
<1>3. ASSUME stack # <<>>, SameBelow, Top'.b = Top.b, Top'.ci = 0 \/ Top'.ci = 1
      PROVE  TriedClear(stack[n], StackBetween(0, n))' /\ stack'[n].b = stack[n].b
  <2>1. Top' = stack'[n] /\ Top = stack[n]
    BY <1>2, <1>3 DEF Top, SameBelow
  <2>2. 1..(stack'[n].ci - 1) = {}
    BY <1>3, <2>1
  <2> QED
    BY <1>3, <2>1, <2>2 DEF TriedClear
<1>4. CASE SkipBanned \/ \E r \in Expansions : ExpandConceded(r)
  <2>1. EdgesGrow /\ SameBelow /\ Top' = [Top EXCEPT !.ai = Top.ai + 1]
    BY <1>4, SkipInductive
  <2>2. Top'.ci = 0 /\ Top'.b = Top.b
    BY <1>4, <2>1, TopFacts
    DEF Linked, SameBelow, Frame, SkipBanned, ExpandConceded, EdgeExpand
  <2> QED
    BY <1>1, <1>2, <1>3, <2>1, <2>2, ClearSetTop DEF SameBelow
<1>5. CASE \E r \in Expansions : ExpandChildren(r)
  <2>1. EdgesGrow /\ SameBelow /\ Top' = [Top EXCEPT !.ci = 1, !.low = kLowlinkInf]
    BY <1>5, ExpandChildrenInductive
  <2>2. Top'.ci = 1 /\ Top'.b = Top.b
    BY <2>1, TopFacts DEF SameBelow, Frame
  <2> QED
    BY <1>1, <1>2, <1>3, <2>1, <2>2, ClearSetTop DEF SameBelow
<1>6. CASE AndNotWin
  <2>1. /\ EdgesGrow /\ SameBelow
        /\ Top' = [Top EXCEPT !.ai = Top.ai + 1, !.ci = 0, !.nlow = MinOf(Top.nlow, AndLow),
                              !.indet = Top.indet \/ ret.v = "INDET"]
    BY <1>6, AndNotWinInductive
  <2>2. Top'.ci = 0 /\ Top'.b = Top.b
    BY <2>1, TopFacts DEF SameBelow, Frame
  <2> QED
    BY <1>1, <1>2, <1>3, <2>1, <2>2, ClearSetTop DEF SameBelow
<1>7. CASE AndNextChild
  <2>1. EdgesGrow /\ SameBelow /\ Top' = [Top EXCEPT !.ci = Top.ci + 1, !.low = AndLow]
    BY <1>7, AndNextChildInductive
  <2>2. /\ UNCHANGED edges /\ Top \in Frame /\ Expanding(Top) /\ n \in 1..Len(stack)
        /\ pc = "ret" /\ ret.v = "WIN" /\ stack # <<>> /\ Top.ci \in 1..Len(TopChildren)
        /\ n \in Nat
    BY <1>2, <1>7, AndFacts, TopFacts DEF AndNextChild
  <2>3. Top'.ci = Top.ci + 1 /\ Top'.b = Top.b /\ Top'.ai = Top.ai
    BY <2>1, <2>2 DEF Frame
  <2>4. Top = stack[n] /\ Top' = stack'[n]
    BY <1>2, <2>1 DEF Top, SameBelow
  <2>5. FrameChildren(stack[n])' = FrameChildren(stack[n])
    BY <1>1, <2>2, <2>3, <2>4 DEF FrameChildren, FrameEdge, FrameAction, EdgeKey
  <2>6. PICK S : S = StackBetween(0, n)
    OBVIOUS
  <2>7. \A k \in 1..n : stack'[k].b = stack[k].b
    <3> TAKE k \in 1..n
    <3>1. CASE k = n
      BY <2>3, <2>4, <3>1
    <3>2. CASE k # n
      BY <1>2, <2>1, <2>2, <3>2 DEF SameBelow
    <3> QED
      BY <3>1, <3>2
  <2>8. StackBetween(0, n)' = S
    BY <2>2, <2>6, <2>7, PathKept
  <2>9. ASSUME NEW j \in 1..Top.ci PROVE WonClear(FrameChildren(stack[n])[j], S)
    <3>1. CASE j = Top.ci
      BY <1>1, <1>2, <2>2, <2>4, <2>6, <3>1 DEF ClearInv, Current
    <3>2. CASE j # Top.ci
      <4>1. j \in 1..(stack[n].ci - 1) /\ stack[n].ci > 0
        BY <2>2, <2>4, <3>2
      <4>2. TriedClear(stack[n], S)
        BY <1>1, <2>2, <2>6 DEF ClearInv
      <4> QED
        BY <2>2, <2>4, <4>1, <4>2 DEF TriedClear
    <3> QED
      BY <3>1, <3>2
  <2>10. 1..(stack'[n].ci - 1) = 1..Top.ci
    BY <2>2, <2>3, <2>4
  <2>11. \A c : WonClear(c, S) => WonClear(c, S)'
    BY <1>1, <2>1, WonClearKept
  <2>12. TriedClear(stack[n], StackBetween(0, n))'
    BY <2>5, <2>8, <2>9, <2>10, <2>11, TriedClearPrimed
  <2> QED
    BY <1>1, <1>2, <2>1, <2>3, <2>4, <2>12, ClearSetTop
<1> QED
  BY <1>4, <1>5, <1>6, <1>7

\* A step that returns from the top frame, when every win below keeps what it
\* rests on.
LEMMA ClearPop ==
    ASSUME TypeOK, Linked, ClearInv, stack # <<>>, stack' = Pop,
           UNCHANGED <<edges, question, root>>,
           \A i \in 1..(Len(stack) - 1) :
               \A S : S = StackBetween(0, i) => \A c : WonClear(c, S) => WonClear(c, S)',
           NEW b, b = Top.b, NEW Q, Q = StackBetween(0, Len(stack) - 1),
           ret'.v = "WIN" => WonClear(b, Q)'
    PROVE  ClearInv'
<1>1. /\ stack' \in Seq(Frame) /\ Len(stack') = Len(stack) - 1
      /\ \A i \in 1..(Len(stack) - 1) : stack'[i] = stack[i]
      /\ Current' = Top.b
  BY PopLinked DEF Linked
<1>2. Len(stack) \in Nat /\ Len(stack) >= 1 /\ EdgesGrow
  BY TopFacts DEF EdgesGrow
<1>3. ASSUME NEW i \in 1..Len(stack') PROVE TriedClear(stack[i], StackBetween(0, i))'
  <2>1. i \in 1..(Len(stack) - 1) /\ i \in 1..Len(stack) /\ i \in Nat
    BY <1>1, <1>2
  <2>2. stack'[i] = stack[i] /\ \A k \in 1..i : stack'[k].b = stack[k].b
    BY <1>1, <1>2, <2>1
  <2>3. Expanding(stack[i])
    BY <2>1 DEF Linked, StackLinked
  <2>4. PICK S : S = StackBetween(0, i)
    OBVIOUS
  <2>5. \A c : WonClear(c, S) => WonClear(c, S)'
    BY <2>1, <2>4
  <2> QED
    BY <1>2, <2>1, <2>2, <2>3, <2>4, <2>5, FrameClearKept
<1>4. StackBetween(0, Len(stack))' = Q
  <2>0. Len(stack) - 1 \in Nat
    BY <1>2
  <2>1. PICK m \in Nat : m = Len(stack) - 1
    BY <2>0, Zenon
  <2>2. StackBetween(0, m)' = StackBetween(0, m)
    BY <1>1, <2>1, PathKept
  <2> QED
    BY <1>1, <2>1, <2>2 DEF StackBetween
<1>5. ret'.v = "WIN" => WonClear(Current, StackBetween(0, Len(stack)))'
  BY <1>1, <1>4, RetClearPrimed
<1> QED
  BY <1>3, <1>5 DEF ClearInv

LEMMA ClearDecideOther ==
    ASSUME TypeOK, Linked, CertInv, AcyclicInv, DecideIndet \/ DecideFail
    PROVE  ClearInv'
<1>1. /\ stack # <<>> /\ stack' = Pop /\ UNCHANGED <<edges, question, root, policy>>
      /\ EdgesGrow /\ ClearInv /\ CertificateClosed
  BY DEF DecideIndet, DecideFail, Exhausted, Linked, searchVars, callVars, EdgesGrow, AcyclicInv,
         CertInv
<1>2. ret'.v # "WIN"
  <2>1. ret' = DfsResult("INDET", Top.nlow) \/ ret' = DfsResult("FAIL", Top.nlow)
    BY DEF DecideIndet, DecideFail, Return
  <2> QED
    BY <2>1 DEF DfsResult
<1>3. \A S, c : WonClear(c, S) => WonClear(c, S)'
  BY <1>1, WonClearKept
<1> QED
  BY <1>1, <1>2, <1>3, ClearPop

\* The bucket decided WIN rests on the children that won clear of the stack.
LEMMA DecideWinEntry ==
    ASSUME TypeOK, Linked, CertInv, AcyclicInv, DecideWin,
           NEW b, b = Top.b, NEW a, a = TopAction, NEW S, S = StackBetween(0, Len(stack)),
           NEW P, P = Clear(S)
    PROVE  NewEntry(b, a, P)
<1>1. /\ stack # <<>> /\ Top \in Frame /\ Expanding(Top) /\ TopEdge = FrameEdge(Top)
      /\ TopChildren = FrameChildren(Top) /\ TopChildren \in Seq(Bucket)
      /\ Top.ci \in 1..Len(TopChildren) /\ Top.ci = Len(TopChildren)
      /\ pc = "ret" /\ ret.v = "WIN" /\ UNCHANGED <<edges, question>> /\ ClearInv
      /\ Len(stack) \in 1..Len(stack) /\ Top = stack[Len(stack)]
  BY AndFacts, TopFacts DEF DecideWin, callVars, AcyclicInv, Top
<1>2. P \subseteq DOMAIN policy /\ CertPart(P) /\ P \cap S = {}
  BY ClearFacts
<1>3. b \in S
  BY <1>1 DEF StackBetween
<1>4. ChildrenOf(b, a)' = {TopChildren[j] : j \in DOMAIN TopChildren}
  BY <1>1 DEF ChildrenOf, TopChildren, TopEdge, EdgeKey
<1>5. ASSUME NEW j \in DOMAIN TopChildren PROVE WonClear(TopChildren[j], S)
  <2>1. CASE j = Top.ci
    BY <1>1, <2>1 DEF ClearInv, Current
  <2>2. CASE j # Top.ci
    <3>1. j \in 1..(Top.ci - 1) /\ Top.ci > 0
      BY <1>1, <2>2
    <3>2. TriedClear(Top, S)
      BY <1>1 DEF ClearInv
    <3> QED
      BY <1>1, <3>1, <3>2 DEF TriedClear
  <2> QED
    BY <2>1, <2>2
<1>6. \A c \in ChildrenOf(b, a)' : IsWin(c) \/ c \in P
  BY <1>4, <1>5 DEF WonClear
<1> QED
  BY <1>2, <1>3, <1>6, DecideWinInductive DEF NewEntry

LEMMA ClearDecideWin ==
    ASSUME TypeOK, Linked, CertInv, WinInv, AcyclicInv, DecideWin
    PROVE  ClearInv' /\ CertificateAcyclic'
<1>1. PICK b, a, S : b = Top.b /\ a = TopAction /\ S = StackBetween(0, Len(stack))
  OBVIOUS
<1>2. PICK P : P = Clear(S)
  OBVIOUS
<1>3. NewEntry(b, a, P) /\ P \cap S = {}
  BY <1>1, <1>2, DecideWinEntry, ClearFacts
<1>4. /\ stack # <<>> /\ stack' = Pop /\ UNCHANGED <<edges, question, root>> /\ EdgesGrow
      /\ CertificateClosed /\ CertificateAcyclic /\ ClearInv
      /\ Len(stack) \in Nat /\ Len(stack) >= 1
  BY AndFacts, TopFacts DEF DecideWin, callVars, EdgesGrow, CertInv, AcyclicInv
<1>5. ASSUME NEW i \in Nat, i < Len(stack), NEW Q, Q = StackBetween(0, i)
      PROVE  b \notin Q /\ P \cap Q = {}
  <2>1. \A k \in 1..i : stack[k].b # stack[Len(stack)].b
    BY <1>4, <1>5 DEF AcyclicInv, StackUndecided
  <2>2. b \notin Q
    BY <1>1, <1>5, <2>1 DEF StackBetween, Top
  <2>3. Q \subseteq S
    BY <1>1, <1>4, <1>5 DEF StackBetween
  <2> QED
    BY <1>3, <2>2, <2>3
<1>6. ASSUME NEW i \in 1..(Len(stack) - 1), NEW Q, Q = StackBetween(0, i), NEW c, WonClear(c, Q)
      PROVE  WonClear(c, Q)'
  <2>1. b \notin Q /\ P \cap Q = {}
    BY <1>4, <1>5, <1>6
  <2> QED
    BY <1>3, <1>4, <1>6, <2>1, WonClearNewEntry
<1>7. PICK Q : Q = StackBetween(0, Len(stack) - 1)
  OBVIOUS
<1>8. WonClear(b, Q)'
  <2>1. b \notin Q /\ P \cap Q = {}
    BY <1>4, <1>5, <1>7
  <2> QED
    BY <1>3, <1>4, <2>1, WonClearNewEntry
<1>9. ClearInv'
  BY <1>1, <1>4, <1>6, <1>7, <1>8, ClearPop
<1>10. DOMAIN policy' \subseteq Live
  <2>1. PICK X : X = Live
    OBVIOUS
  <2>2. X \in SUBSET Live /\ Closed(X)
    BY <2>1 DEF Closed
  <2>3. WinsIn(X)
    BY <2>2 DEF WinInv
  <2>4. Top.b \in Live
    BY <2>3, DecideWinForced
  <2> QED
    BY <2>1, <2>3, <2>4, DecideWinInductive DEF WinsIn
<1> QED
  BY <1>3, <1>4, <1>9, <1>10, AcyclicNewEntry

-----------------------------------------------------------------------------
(* The path holds no bucket twice and, with the memo on, no decided one.    *)

\* A step that keeps the buckets of the stack, the memo and the policy.
LEMMA UndecidedKept ==
    ASSUME StackUndecided, Len(stack) \in Nat, Len(stack') \in Nat, Len(stack') <= Len(stack),
           \A i \in 1..Len(stack') : stack'[i].b = stack[i].b, UNCHANGED <<memo, policy>>
    PROVE  StackUndecided'
BY DEF StackUndecided

LEMMA UndecidedPush ==
    ASSUME TypeOK, Linked, StackUndecided, VisitPush
    PROVE  StackUndecided'
<1>1. UNCHANGED <<memo, policy>> /\ stack' = Append(stack, NewFrame(arg))
  BY DEF VisitPush, Visit
<1>2. stack \in Seq(Frame) /\ Len(stack) \in Nat /\ NewFrame(arg) \in Frame /\ NewFrame(arg).b = arg
  BY NewFrameFacts DEF TypeOK, StackOK, NewFrame
<1>3. /\ Len(stack') = Len(stack) + 1 /\ stack'[Len(stack) + 1].b = arg
      /\ \A i \in 1..Len(stack) : stack'[i].b = stack[i].b
  BY <1>1, <1>2, PushFacts
<1>4. /\ \A i \in 1..Len(stack) : stack[i].b # arg
      /\ EnableVerdictMemo => arg \notin DOMAIN memo
  BY DEF VisitPush, OnStack, InMemo
<1> QED
  BY <1>1, <1>2, <1>3, <1>4 DEF StackUndecided

LEMMA UndecidedDecide ==
    ASSUME TypeOK, Linked, StackUndecided, DecideWin \/ DecideIndet \/ DecideFail
    PROVE  StackUndecided'
<1>1. stack # <<>> /\ stack' = Pop
  BY AndFacts DEF DecideWin, DecideIndet, DecideFail, Exhausted, Linked
<1>2. /\ Len(stack') = Len(stack) - 1 /\ Len(stack) \in Nat /\ Len(stack) >= 1
      /\ \A i \in 1..(Len(stack) - 1) : stack'[i] = stack[i]
      /\ Top.b \in Bucket /\ Top = stack[Len(stack)] /\ SearchOK
  BY <1>1, PopFacts, TopFacts DEF TypeOK, StackOK, Top
<1>3. CASE UNCHANGED <<memo, policy>>
  BY <1>2, <1>3, UndecidedKept
<1>4. ASSUME NEW v \in BOOLEAN, StoreMemo(Top.b, v),
             IF v THEN DOMAIN policy' = DOMAIN policy \union {Top.b} ELSE policy' = policy
      PROVE  StackUndecided'
  <2>1. \A i \in 1..Len(stack') : stack'[i].b = stack[i].b /\ stack[i].b # Top.b
    BY <1>2 DEF StackUndecided
  <2>2. EnableVerdictMemo => DOMAIN memo' = DOMAIN memo \union {Top.b} /\ memo'[Top.b] = v
    BY <1>2, <1>4, StoreMemoFacts
  <2>3. \A k \in DOMAIN memo' : k # Top.b => k \in DOMAIN memo /\ memo'[k] = memo[k]
    BY <1>2, <1>4, StoreMemoFacts
  <2>4. EnableVerdictMemo => Top.b \notin DOMAIN memo
    BY <1>2 DEF StackUndecided
  <2>5. \A i, k \in 1..Len(stack') : stack'[i].b = stack'[k].b => i = k
    BY <1>2, <2>1 DEF StackUndecided
  <2>6. EnableVerdictMemo => \A i \in 1..Len(stack') : stack'[i].b \notin DOMAIN memo'
    BY <1>2, <2>1, <2>2 DEF StackUndecided
  <2>7. ASSUME EnableVerdictMemo, NEW b \in DOMAIN policy' PROVE b \in DOMAIN memo' /\ memo'[b]
    <3>1. CASE b = Top.b
      <4>1. v
        BY <1>4, <2>4, <2>7, <3>1 DEF StackUndecided
      <4> QED
        BY <2>2, <2>7, <3>1, <4>1
    <3>2. CASE b # Top.b
      <4>1. b \in DOMAIN policy
        BY <1>4, <2>7, <3>2
      <4>2. b \in DOMAIN memo /\ memo[b]
        BY <2>7, <4>1 DEF StackUndecided
      <4> QED
        BY <2>2, <2>3, <2>7, <3>2, <4>2
    <3> QED
      BY <3>1, <3>2
  <2> QED
    BY <2>5, <2>6, <2>7 DEF StackUndecided
<1>5. CASE DecideWin
  BY <1>4, <1>5, DecideWinInductive DEF DecideWin
<1>6. CASE DecideIndet \/ DecideFail
  BY <1>3, <1>4, <1>6 DEF DecideIndet, DecideFail, searchVars
<1> QED
  BY <1>5, <1>6

LEMMA UndecidedStep ==
    ASSUME TypeOK, Linked, StackUndecided, [Next]_vars
    PROVE  StackUndecided'
<1>0. Len(stack) \in Nat
  BY DEF TypeOK, StackOK
<1>1. CASE VisitTerminal \/ VisitMemo \/ VisitDepthCap \/ VisitOnStack \/ VisitVisitCap
  BY <1>0, <1>1, UndecidedKept
  DEF VisitTerminal, VisitMemo, VisitDepthCap, VisitOnStack, VisitVisitCap, Visit
<1>2. ASSUME SameBelow, Top'.b = Top.b, UNCHANGED <<memo, policy>> PROVE StackUndecided'
  <2>1. \A i \in 1..Len(stack') : stack'[i].b = stack[i].b
    BY <1>0, <1>2 DEF SameBelow, Top
  <2> QED
    BY <1>0, <1>2, <2>1, UndecidedKept DEF SameBelow
<1>3. CASE SkipBanned \/ \E r \in Expansions : ExpandConceded(r)
  <2>1. SameBelow /\ Top' = [Top EXCEPT !.ai = Top.ai + 1]
    BY <1>3, SkipInductive
  <2>2. UNCHANGED <<memo, policy>>
    BY <1>3 DEF SkipBanned, ExpandConceded, EdgeExpand, searchVars
  <2> QED
    BY <1>2, <2>1, <2>2, TopFacts DEF SameBelow, Frame
<1>4. CASE \E r \in Expansions : ExpandChildren(r)
  <2>1. SameBelow /\ Top' = [Top EXCEPT !.ci = 1, !.low = kLowlinkInf]
    BY <1>4, ExpandChildrenInductive
  <2>2. UNCHANGED <<memo, policy>>
    BY <1>4 DEF ExpandChildren, EdgeExpand, searchVars
  <2> QED
    BY <1>2, <2>1, <2>2, TopFacts DEF SameBelow, Frame
<1>5. CASE AndNextChild
  <2>1. SameBelow /\ Top' = [Top EXCEPT !.ci = Top.ci + 1, !.low = AndLow]
    BY <1>5, AndNextChildInductive
  <2>2. UNCHANGED <<memo, policy>>
    BY <1>5 DEF AndNextChild, searchVars
  <2> QED
    BY <1>2, <2>1, <2>2, TopFacts DEF SameBelow, Frame
<1>6. CASE AndNotWin
  <2>1. /\ SameBelow
        /\ Top' = [Top EXCEPT !.ai = Top.ai + 1, !.ci = 0, !.nlow = MinOf(Top.nlow, AndLow),
                              !.indet = Top.indet \/ ret.v = "INDET"]
    BY <1>6, AndNotWinInductive
  <2>2. UNCHANGED <<memo, policy>>
    BY <1>6 DEF AndNotWin, searchVars
  <2> QED
    BY <1>2, <2>1, <2>2, TopFacts DEF SameBelow, Frame
<1>7. CASE \E r \in Expansions : ExpandThrows(r)
  <2>1. stack' = <<>> /\ UNCHANGED <<memo, policy>>
    BY <1>7 DEF ExpandThrows, EdgeExpand, searchVars
  <2> QED
    BY <1>0, <2>1, UndecidedKept
<1>8. CASE Join \/ UNCHANGED vars
  BY <1>0, <1>8, UndecidedKept DEF Join, searchVars, vars
<1>9. ASSUME NEW q \in Question, NEW b \in Bucket, CertifyTerminalRoot(q, b) \/ Certify(q, b)
      PROVE  StackUndecided'
  <2>1. stack' = <<>> /\ DOMAIN policy' = {}
    BY <1>9 DEF CertifyTerminalRoot, Certify, NewCall, Empty
  <2> QED
    BY <2>1 DEF StackUndecided
<1> QED
  BY <1>1, <1>3, <1>4, <1>5, <1>6, <1>7, <1>8, <1>9, UndecidedPush, UndecidedDecide
  DEF Next, DfsNext

\* Without a new policy entry the certificate keeps its shape.
LEMMA AcyclicKept ==
    ASSUME question' = question, EdgesGrow, CertificateClosed, CertificateAcyclic, policy' = policy
    PROVE  CertificateAcyclic'
<1> SUFFICES ASSUME NEW C \in SUBSET DOMAIN policy', C # {}
             PROVE  \E b \in C : ChildrenOf(b, policy[b])' \cap C = {}
  BY DEF CertificateAcyclic
<1>1. PICK b \in C : ChildrenOf(b, policy[b]) \cap C = {}
  BY DEF CertificateAcyclic
<1>2. PICK a : a = policy[b]
  OBVIOUS
<1>3. ChildrenOf(b, policy[b])' = ChildrenOf(b, a)'
  BY <1>2 DEF ChildrenOf, EdgeKey
<1>4. ChildrenOf(b, a)' = ChildrenOf(b, a)
  BY <1>2, PolicyChildrenKept
<1> QED
  BY <1>1, <1>2, <1>3, <1>4

LEMMA ClearStop ==
    ASSUME stack' = <<>>, pc' # "ret"
    PROVE  ClearInv'
BY DEF ClearInv

LEMMA AcyclicInit == Init => AcyclicInv
<1> SUFFICES ASSUME Init PROVE AcyclicInv
  OBVIOUS
<1>1. stack = <<>> /\ DOMAIN policy = {} /\ pc = "idle"
  BY DEF Init, Empty
<1> QED
  BY <1>1 DEF AcyclicInv, StackUndecided, ClearInv, CertificateAcyclic

LEMMA AcyclicStep ==
    TypeOK /\ Linked /\ WinInv /\ CertInv /\ AcyclicInv /\ [Next]_vars => AcyclicInv'
<1> SUFFICES ASSUME TypeOK, Linked, WinInv, CertInv, AcyclicInv, [Next]_vars PROVE AcyclicInv'
  OBVIOUS
<1>1. StackUndecided'
  BY UndecidedStep DEF AcyclicInv
<1>2. ASSUME NEW q \in Question, NEW b \in Bucket, CertifyTerminalRoot(q, b) \/ Certify(q, b)
      PROVE  AcyclicInv'
  <2>1. stack' = <<>> /\ DOMAIN policy' = {} /\ pc' # "ret"
    BY <1>2 DEF CertifyTerminalRoot, Certify, NewCall, Empty
  <2> QED
    BY <1>1, <2>1, ClearStop DEF AcyclicInv, CertificateAcyclic
<1>3. CASE DecideWin
  BY <1>1, <1>3, ClearDecideWin DEF AcyclicInv
<1>4. CASE SearchStep /\ ~DecideWin
  <2>1. question' = question /\ EdgesGrow
    BY <1>4, SearchStepFacts
  <2>2. policy' = policy
    BY <1>4 DEF SearchStep, DfsNext, Join, VisitTerminal, VisitMemo, VisitDepthCap,
       VisitOnStack, VisitVisitCap, VisitPush, Visit, SkipBanned, ExpandConceded, ExpandChildren,
       ExpandThrows, EdgeExpand, AndNextChild, AndNotWin, DecideIndet, DecideFail, searchVars
  <2>3. CertificateAcyclic'
    BY <2>1, <2>2, AcyclicKept DEF CertInv, AcyclicInv
  <2>4. ASSUME Join \/ \E r \in Expansions : ExpandThrows(r) PROVE ClearInv'
    BY <2>4, ClearStop DEF Join, ExpandThrows
  <2>5. ClearInv'
    BY <1>4, <2>4, ClearVisit, ClearPush, ClearLoops, ClearDecideOther DEF SearchStep, DfsNext
  <2> QED
    BY <1>1, <2>3, <2>5 DEF AcyclicInv
<1>5. CASE UNCHANGED vars
  <2>1. EdgesGrow /\ UNCHANGED <<edges, question, root, pc, ret, stack, policy>>
    BY <1>5 DEF vars, EdgesGrow
  <2>2. CertificateAcyclic'
    BY <2>1, AcyclicKept DEF CertInv, AcyclicInv
  <2>3. \A c, S : WonClear(c, S) => WonClear(c, S)'
    BY <2>1, WonClearKept DEF CertInv
  <2>4. ASSUME NEW i \in 1..Len(stack') PROVE TriedClear(stack[i], StackBetween(0, i))'
    <3>1. PICK S : S = StackBetween(0, i)
      OBVIOUS
    <3>2. FrameChildren(stack[i])' = FrameChildren(stack[i]) /\ StackBetween(0, i)' = S
      BY <2>1, <3>1 DEF FrameChildren, FrameEdge, FrameAction, EdgeKey, StackBetween
    <3>3. TriedClear(stack[i], S)
      BY <2>1, <3>1 DEF AcyclicInv, ClearInv
    <3>4. CASE stack[i].ci > 0 /\ Expanding(stack[i])
      BY <2>1, <2>3, <3>2, <3>3, <3>4, TriedClearPrimed DEF TriedClear
    <3>5. CASE ~(stack[i].ci > 0 /\ Expanding(stack[i]))
      BY <2>1, <3>5
      DEF TriedClear, Expanding, FrameChildren, FrameEdge, FrameAction, EdgeKey
    <3> QED
      BY <3>4, <3>5
  <2>5. ASSUME pc' = "ret", ret'.v = "WIN" PROVE WonClear(Current, StackBetween(0, Len(stack)))'
    <3>1. PICK c, S : c = Current /\ S = StackBetween(0, Len(stack))
      OBVIOUS
    <3>2. Current' = c /\ StackBetween(0, Len(stack))' = S
      BY <2>1, <3>1
      DEF Current, FrameChildren, FrameEdge, FrameAction, EdgeKey, Top, StackBetween
    <3>3. WonClear(c, S)
      BY <2>1, <2>5, <3>1 DEF AcyclicInv, ClearInv
    <3> QED
      BY <2>3, <3>2, <3>3, RetClearPrimed
  <2> QED
    BY <1>1, <2>2, <2>4, <2>5 DEF AcyclicInv, ClearInv
<1> QED
  BY <1>2, <1>3, <1>4, <1>5 DEF Next, SearchStep

\* The certificate of a WIN has no cycle, with and without the verdict memo and
\* however often a bucket is decided again: the exceptions of build_cert_node
\* and pp_max_consumption for a cyclic policy can never be thrown.
THEOREM CertificateHasNoCycle == Spec => []CertificateAcyclic
<1>1. Spec => [](TypeOK /\ Linked /\ WinInv /\ CertInv /\ AcyclicInv)
  BY TypeInit, LinkedStep, WinInvInit, WinInvStep, CertInvInit, CertInvStep, AcyclicInit,
     AcyclicStep, PTL DEF Spec
<1>2. AcyclicInv => CertificateAcyclic
  BY DEF AcyclicInv
<1> QED
  BY <1>1, <1>2, PTL
-----------------------------------------------------------------------------
(***************************************************************************)
(* FAIL: memoized or returned, it does not lean on the search stack.       *)
(***************************************************************************)
-----------------------------------------------------------------------------
(* Traps relative to a set of buckets.                                      *)

\* More edges keep an action from leaving a set.
LEMMA StaysInKept ==
    ASSUME question' = question, EdgesGrow, NEW b, NEW a, NEW T, StaysIn(b, a, T)
    PROVE  StaysIn(b, a, T)'
<1>1. EdgeKey(b, a)' = EdgeKey(b, a)
  BY DEF EdgeKey
<1>2. EdgeKey(b, a) \in DOMAIN edges' /\ edges'[EdgeKey(b, a)] = edges[EdgeKey(b, a)]
  BY DEF StaysIn, EdgesGrow
<1>3. ChildrenOf(b, a)' = ChildrenOf(b, a)
  BY <1>1, <1>2 DEF ChildrenOf
<1> QED
  BY <1>1, <1>2, <1>3 DEF StaysIn, IsLoss

\* A larger set is as hard to leave.
LEMMA StaysInMono ==
    ASSUME NEW b, NEW a, NEW T, NEW U, T \subseteq U, StaysIn(b, a, T)
    PROVE  StaysIn(b, a, U)
BY DEF StaysIn

LEMMA RelTrapKept ==
    ASSUME question' = question, EdgesGrow, NEW T, NEW S, RelTrap(T, S)
    PROVE  RelTrap(T, S)'
<1>1. \A b : Allowed(b)' = Allowed(b)
  BY DEF Allowed
<1> QED
  BY <1>1, StaysInKept DEF RelTrap

LEMMA LiveKept ==
    ASSUME question' = question
    PROVE  Live' = Live
BY DEF Live, Terminal

LEMMA FailsWithKept ==
    ASSUME question' = question, EdgesGrow, NEW b, NEW n, NEW S, FailsWith(b, n, S)
    PROVE  FailsWith(b, n, S)'
<1>1. PICK T \in SUBSET Live :
         /\ RelTrap(T, S)
         /\ \A j \in 1..(n - 1) :
               LegalActions[b][j] \notin Banned[question] =>
                   StaysIn(b, LegalActions[b][j], T \union S)
  BY DEF FailsWith
<1>2. T \in SUBSET Live'
  BY LiveKept
<1>3. RelTrap(T, S)'
  BY <1>1, RelTrapKept
<1>4. \A j \in 1..(n - 1) :
         LegalActions[b][j] \notin Banned[question'] =>
             StaysIn(b, LegalActions[b][j], T \union S)'
  BY <1>1, StaysInKept
<1> QED
  BY <1>2, <1>3, <1>4 DEF FailsWith

LEMMA TrappedKept ==
    ASSUME question' = question, EdgesGrow, NEW b, Trapped(b)
    PROVE  Trapped(b)'
BY LiveKept, RelTrapKept DEF Trapped

\* No action is tried before the first.
LEMMA FailsWithStart ==
    ASSUME NEW b, NEW S
    PROVE  FailsWith(b, 1, S)
<1>1. RelTrap({}, S) /\ {} \in SUBSET Live
  BY DEF RelTrap
<1> QED
  BY <1>1 DEF FailsWith

\* One more action that is banned, conceded or stays with a failing child.
LEMMA FailsWithNext ==
    ASSUME NEW b, NEW n \in Nat, n >= 1, NEW m, m = n + 1, NEW S, NEW S1, NEW S2, FailsWith(b, n, S1), S1 \subseteq S,
           S2 \subseteq S, NEW T2 \in SUBSET Live, RelTrap(T2, S2),
           \/ LegalActions[b][n] \in Banned[question]
           \/ StaysIn(b, LegalActions[b][n], T2 \union S2)
    PROVE  FailsWith(b, m, S)
<1>1. PICK T1 \in SUBSET Live :
         /\ RelTrap(T1, S1)
         /\ \A j \in 1..(n - 1) :
               LegalActions[b][j] \notin Banned[question] =>
                   StaysIn(b, LegalActions[b][j], T1 \union S1)
  BY DEF FailsWith
<1> DEFINE T == T1 \union T2
<1>2. T \in SUBSET Live /\ T1 \union S1 \subseteq T \union S /\ T2 \union S2 \subseteq T \union S
  OBVIOUS
<1> HIDE DEF T
<1>3. ASSUME NEW c \in T, NEW a \in Allowed(c) PROVE StaysIn(c, a, T \union S)
  <2>1. CASE c \in T1
    BY <1>1, <1>2, <2>1, StaysInMono DEF RelTrap
  <2>2. CASE c \in T2
    BY <1>2, <2>2, StaysInMono DEF RelTrap
  <2> QED
    BY <2>1, <2>2 DEF T
<1>4. ASSUME NEW j \in 1..n, LegalActions[b][j] \notin Banned[question]
      PROVE  StaysIn(b, LegalActions[b][j], T \union S)
  <2>1. CASE j = n
    BY <1>2, <1>4, <2>1, StaysInMono
  <2>2. CASE j # n
    <3>1. j \in 1..(n - 1)
      BY <2>2
    <3> QED
      BY <1>1, <1>2, <1>4, <3>1, StaysInMono
  <2> QED
    BY <2>1, <2>2
<1>5. 1..(m - 1) = 1..n
  OBVIOUS
<1>6. RelTrap(T, S)
  BY <1>3 DEF RelTrap
<1> QED
  BY <1>2, <1>4, <1>5, <1>6 DEF FailsWith

\* The same as a formula, to be used in the next state as well.
NextFails ==
    \A b, m, S, S1, S2 : \A n \in Nat : \A T2 \in SUBSET Live :
        /\ n >= 1 /\ m = n + 1 /\ FailsWith(b, n, S1) /\ S1 \subseteq S
        /\ S2 \subseteq S /\ RelTrap(T2, S2)
        /\ \/ LegalActions[b][n] \in Banned[question]
           \/ StaysIn(b, LegalActions[b][n], T2 \union S2)
        => FailsWith(b, m, S)

LEMMA NextFailsHolds == NextFails
<1> SUFFICES ASSUME NEW b, NEW m, NEW S, NEW S1, NEW S2, NEW n \in Nat, NEW T2 \in SUBSET Live,
                    n >= 1, m = n + 1, FailsWith(b, n, S1), S1 \subseteq S, S2 \subseteq S,
                    RelTrap(T2, S2),
                    \/ LegalActions[b][n] \in Banned[question]
                    \/ StaysIn(b, LegalActions[b][n], T2 \union S2)
             PROVE  FailsWith(b, m, S)
  BY DEF NextFails
<1> QED
  BY FailsWithNext

LEMMA NextFailsPrimed == NextFails'
BY NextFailsHolds, PTL

\* All actions tried: the bucket joins the trap.
LEMMA FailsWithAll ==
    ASSUME NEW b \in Live, LegalActions[b] \in Seq(Action), NEW S, NEW S0,
           S \subseteq S0 \union {b}, NEW m, m = Len(LegalActions[b]) + 1, FailsWith(b, m, S)
    PROVE  \E T \in SUBSET Live : b \in T /\ RelTrap(T, S0)
<1>1. PICK T1 \in SUBSET Live :
         /\ RelTrap(T1, S)
         /\ \A j \in 1..(m - 1) :
               LegalActions[b][j] \notin Banned[question] =>
                   StaysIn(b, LegalActions[b][j], T1 \union S)
  BY DEF FailsWith
<1> DEFINE T == T1 \union {b}
<1>2. T \in SUBSET Live /\ b \in T /\ T1 \union S \subseteq T \union S0
  OBVIOUS
<1> HIDE DEF T
<1>3. ASSUME NEW a \in Allowed(b) PROVE StaysIn(b, a, T \union S0)
  <2>1. PICK j \in 1..Len(LegalActions[b]) : a = LegalActions[b][j]
    BY DEF Allowed
  <2>2. a \notin Banned[question] /\ 1..(m - 1) = 1..Len(LegalActions[b])
    BY DEF Allowed
  <2> QED
    BY <1>1, <1>2, <2>1, <2>2, StaysInMono
<1>4. ASSUME NEW c \in T, NEW a \in Allowed(c) PROVE StaysIn(c, a, T \union S0)
  <2>1. CASE c = b
    BY <1>3, <1>4, <2>1
  <2>2. CASE c \in T1
    BY <1>1, <1>2, <2>2, StaysInMono DEF RelTrap
  <2> QED
    BY <2>1, <2>2 DEF T
<1> QED
  BY <1>2, <1>4 DEF RelTrap

-----------------------------------------------------------------------------
(* Frames.                                                                  *)

LEMMA FrameNlow ==
    ASSUME NEW f \in Frame
    PROVE  f.nlow \in Nat /\ f.low \in Nat /\ f.nlow <= DepthCap
<1>1. f.nlow \in 0..DepthCap /\ f.low \in 0..DepthCap
  BY DEF Frame, kLowlinkInf
<1> QED
  BY <1>1, WinSolverAssumption

\* What the frame at position i of the next state has to know.
LEMMA FrameFailsPrimed ==
    ASSUME NEW i, NEW b, NEW n, NEW S, FailsWith(b, n, S)', stack'[i].b = b, stack'[i].ai = n,
           StackBetween(stack[i].nlow, i)' = S
    PROVE  FrameFails(i)'
<1>1. PICK T \in SUBSET Live' :
         /\ RelTrap(T, S)'
         /\ \A j \in 1..(n - 1) :
               LegalActions[b][j] \notin Banned[question'] =>
                   StaysIn(b, LegalActions[b][j], T \union S)'
  BY DEF FailsWith
<1>2. RelTrap(T, StackBetween(stack[i].nlow, i))'
  BY <1>1 DEF RelTrap, StaysIn
<1>3. \A j \in 1..(stack'[i].ai - 1) :
         LegalActions[stack'[i].b][j] \notin Banned[question'] =>
            StaysIn(stack[i].b, LegalActions[stack[i].b][j],
                    T \union StackBetween(stack[i].nlow, i))'
  BY <1>1 DEF StaysIn, ChildrenOf, EdgeKey
<1> QED
  BY <1>2, <1>3 DEF FrameFails, FailsWith

\* A frame that keeps its bucket, action index and lowlink keeps what it knows.
LEMMA FrameFailsKept ==
    ASSUME TypeOK, question' = question, EdgesGrow, NEW i \in 1..Len(stack),
           stack'[i].b = stack[i].b, stack'[i].ai = stack[i].ai, stack'[i].nlow = stack[i].nlow,
           \A k \in 1..i : stack'[k].b = stack[k].b, FrameFails(i)
    PROVE  FrameFails(i)'
<1>1. stack[i].nlow \in Nat
  <2>1. stack[i] \in Frame
    BY DEF TypeOK, StackOK
  <2>2. stack[i].nlow \in 0..DepthCap
    BY <2>1 DEF Frame, kLowlinkInf
  <2> QED
    BY <2>2, WinSolverAssumption
<1>2. PICK S : S = StackBetween(stack[i].nlow, i)
  OBVIOUS
<1>3. StackBetween(stack[i].nlow, i)' = S
  BY <1>1, <1>2 DEF StackBetween
<1>4. FailsWith(stack[i].b, stack[i].ai, S)
  BY <1>2 DEF FrameFails
<1>5. PICK b, n : b = stack[i].b /\ n = stack[i].ai
  OBVIOUS
<1>6. FailsWith(b, n, S)
  BY <1>4, <1>5
<1>7. FailsWith(b, n, S)'
  BY <1>6, FailsWithKept
<1> QED
  BY <1>3, <1>5, <1>7, FrameFailsPrimed

\* A step of the loops: the frames below the top are kept.
LEMMA LoopFrames ==
    ASSUME TypeOK, Linked, FailInv, SameBelow, EdgesGrow, UNCHANGED <<question, root, memo, result>>,
           pc' # "ret", Top'.b = Top.b, NEW n, n = Len(stack), ~Top'.indet => FrameFails(n)'
    PROVE  FailInv'
<1>1. Len(stack) \in Nat /\ Len(stack) >= 1 /\ Len(stack') = Len(stack)
  <2>1. stack # <<>> /\ Len(stack') = Len(stack)
    BY DEF SameBelow
  <2> QED
    BY <2>1, TopFacts
<1>2. ASSUME NEW i \in 1..Len(stack'), ~stack'[i].indet PROVE FrameFails(i)'
  <2>1. CASE i = Len(stack)
    <3>1. ~Top'.indet
      BY <1>1, <1>2, <2>1 DEF Top
    <3> QED
      BY <2>1, <3>1
  <2>2. CASE i # Len(stack)
    <3>1. i \in 1..Len(stack) /\ \A k \in 1..i : stack'[k] = stack[k]
      BY <1>1, <2>2 DEF SameBelow
    <3>2. FrameFails(i) /\ stack'[i] = stack[i]
      BY <1>2, <3>1 DEF FailInv
    <3> QED
      BY <3>1, <3>2, FrameFailsKept
  <2> QED
    BY <2>1, <2>2
<1>3. \A b \in DOMAIN memo' : ~memo'[b] => Trapped(b)'
  BY TrappedKept DEF FailInv
<1>4. result' = "FAIL" => IsLoss(root)' \/ Trapped(root)'
  <2>1. PICK b : b = root
    OBVIOUS
  <2>2. Trapped(b) => Trapped(b)'
    BY TrappedKept
  <2> QED
    BY <2>1, <2>2 DEF FailInv, IsLoss, Trapped
<1> QED
  BY <1>2, <1>3, <1>4 DEF FailInv

\* The top frame of a set-top step whose bucket stays.
LEMMA TopBelow ==
    ASSUME TypeOK, SameBelow, Top'.b = Top.b
    PROVE  /\ Len(stack) \in Nat /\ Len(stack) >= 1 /\ Len(stack) \in 1..Len(stack)
           /\ Top = stack[Len(stack)] /\ Top' = stack'[Len(stack)]
           /\ \A k \in 1..Len(stack) : stack'[k].b = stack[k].b
<1>1. Len(stack) \in Nat /\ Len(stack) >= 1
  BY TopFacts DEF SameBelow
<1>2. Top = stack[Len(stack)] /\ Top' = stack'[Len(stack)]
  BY DEF Top, SameBelow
<1> QED
  BY <1>1, <1>2 DEF SameBelow

LEMMA FailInvAnd ==
    ASSUME TypeOK, Linked, FailInv,
           AndNextChild \/ \E r \in Expansions : ExpandChildren(r)
    PROVE  FailInv'
<1>1. /\ EdgesGrow /\ SameBelow /\ pc' # "ret" /\ UNCHANGED <<question, root, memo, result>>
  BY AndNextChildInductive, ExpandChildrenInductive
  DEF AndNextChild, ExpandChildren, EdgeExpand, callVars, searchVars
<1>2. \/ Top' = [Top EXCEPT !.ci = Top.ci + 1, !.low = AndLow]
      \/ Top' = [Top EXCEPT !.ci = 1, !.low = kLowlinkInf]
  BY AndNextChildInductive, ExpandChildrenInductive
<1>3. Top \in Frame
  BY <1>1, TopFacts DEF SameBelow
<1>4. Top'.b = Top.b /\ Top'.ai = Top.ai /\ Top'.nlow = Top.nlow /\ Top'.indet = Top.indet
  BY <1>2, <1>3 DEF Frame
<1>5. /\ Len(stack) \in 1..Len(stack)
      /\ Top = stack[Len(stack)] /\ Top' = stack'[Len(stack)]
      /\ \A k \in 1..Len(stack) : stack'[k].b = stack[k].b
  BY <1>1, <1>4, TopBelow
<1>6. ~Top.indet => FrameFails(Len(stack))
  BY <1>5 DEF FailInv
<1>7. PICK n : n = Len(stack)
  OBVIOUS
<1>8. ~Top'.indet => FrameFails(n)'
  BY <1>1, <1>4, <1>5, <1>6, <1>7, FrameFailsKept
<1> QED
  BY <1>1, <1>4, <1>7, <1>8, LoopFrames

LEMMA FailInvSkip ==
    ASSUME TypeOK, Linked, FailInv,
           SkipBanned \/ \E r \in Expansions : ExpandConceded(r)
    PROVE  FailInv'
<1>1. /\ EdgesGrow /\ SameBelow /\ pc' # "ret" /\ UNCHANGED <<question, root, memo, result>>
      /\ Top' = [Top EXCEPT !.ai = Top.ai + 1]
  BY SkipInductive DEF SkipBanned, ExpandConceded, EdgeExpand, callVars, searchVars
<1>2. Top \in Frame /\ Top.ai \in Nat /\ Top.ai >= 1 /\ stack # <<>>
  BY <1>1, TopFacts DEF SameBelow, FrameOK
<1>3. Top'.b = Top.b /\ Top'.ai = Top.ai + 1 /\ Top'.nlow = Top.nlow /\ Top'.indet = Top.indet
  BY <1>1, <1>2 DEF Frame
<1>4. /\ Len(stack) \in 1..Len(stack) /\ Len(stack) \in Nat
      /\ Top = stack[Len(stack)] /\ Top' = stack'[Len(stack)]
      /\ \A k \in 1..Len(stack) : stack'[k].b = stack[k].b
  BY <1>1, <1>3, TopBelow
<1>5. PICK n : n = Len(stack)
  OBVIOUS
<1>6. ASSUME ~Top'.indet PROVE FrameFails(n)'
  <2>1. PICK b, m, S : b = Top.b /\ m = Top.ai /\ S = StackBetween(Top.nlow, Len(stack))
    OBVIOUS
  <2>2. FailsWith(b, m, S)
    BY <1>3, <1>4, <1>6, <2>1 DEF FailInv, FrameFails
  <2>3. FailsWith(b, m, S)'
    BY <1>1, <2>2, FailsWithKept
  <2>4. RelTrap({}, S)' /\ {} \in SUBSET Live'
    BY DEF RelTrap
  <2>5. \/ LegalActions[b][m] \in Banned[question']
        \/ StaysIn(b, LegalActions[b][m], {} \union S)'
    <3>1. CASE SkipBanned
      BY <1>1, <2>1, <3>1 DEF SkipBanned, TopAction
    <3>2. ASSUME NEW r \in Expansions, ExpandConceded(r)
          PROVE  StaysIn(b, LegalActions[b][m], {} \union S)'
      <4>1. TopEdge \in DOMAIN edges' /\ edges'[TopEdge] = r /\ r.kind = "conceded"
        BY <3>2, EdgeExpandFacts DEF ExpandConceded
      <4>2. EdgeKey(b, LegalActions[b][m])' = TopEdge
        BY <1>1, <2>1 DEF EdgeKey, TopEdge, TopAction
      <4> QED
        BY <4>1, <4>2 DEF StaysIn
    <3> QED
      BY <3>1, <3>2
  <2>6. FailsWith(b, m + 1, S)'
    BY <1>2, <2>1, <2>3, <2>4, <2>5, NextFailsPrimed DEF NextFails
  <2>7. Top.nlow \in Nat
    BY <1>2, FrameNlow
  <2>8. StackBetween(stack[n].nlow, n)' = S
    BY <1>3, <1>4, <1>5, <2>1, <2>7 DEF StackBetween
  <2> QED
    BY <1>3, <1>4, <1>5, <2>1, <2>6, <2>8, FrameFailsPrimed
<1> QED
  BY <1>1, <1>3, <1>5, <1>6, LoopFrames

-----------------------------------------------------------------------------
(* The other steps.                                                         *)

\* The frames of a common prefix keep what they know; the rest is to be shown.
LEMMA FailInvKeep ==
    ASSUME TypeOK, FailInv, UNCHANGED <<question, root>>, EdgesGrow,
           NEW n \in Nat, n <= Len(stack), \A i \in 1..n : stack'[i] = stack[i],
           \A i \in 1..Len(stack') : i > n /\ ~stack'[i].indet => FrameFails(i)',
           pc' = "ret" /\ ret'.v = "FAIL" => RetFails',
           \A b \in DOMAIN memo' : ~memo'[b] => (b \in DOMAIN memo /\ ~memo[b]) \/ Trapped(b),
           result' = "FAIL" => result = "FAIL" \/ IsLoss(root) \/ Trapped(root)
    PROVE  FailInv'
<1>1. Len(stack) \in Nat
  BY DEF TypeOK, StackOK
<1>2. ASSUME NEW i \in 1..Len(stack'), ~stack'[i].indet PROVE FrameFails(i)'
  <2>1. CASE i > n
    BY <1>2, <2>1
  <2>2. CASE ~(i > n)
    <3>1. i \in 1..n /\ i \in 1..Len(stack) /\ \A k \in 1..i : stack'[k] = stack[k]
      BY <1>1, <2>2
    <3>2. FrameFails(i) /\ stack'[i] = stack[i]
      BY <1>2, <3>1 DEF FailInv
    <3> QED
      BY <3>1, <3>2, FrameFailsKept
  <2> QED
    BY <2>1, <2>2
<1>3. \A b \in DOMAIN memo' : ~memo'[b] => Trapped(b)'
  BY TrappedKept DEF FailInv
<1>4. result' = "FAIL" => IsLoss(root)' \/ Trapped(root)'
  <2>1. PICK b : b = root
    OBVIOUS
  <2>2. Trapped(b) => Trapped(b)'
    BY TrappedKept
  <2> QED
    BY <2>1, <2>2 DEF FailInv, IsLoss, Trapped
<1> QED
  BY <1>2, <1>3, <1>4 DEF FailInv

\* A FAIL handed over to the next state.
LEMMA RetFailsPrimed ==
    ASSUME question' = question, EdgesGrow, NEW c, NEW S, RetFailsWith(c, S),
           Current' = c, StackBetween(ret.low, Len(stack))' = S
    PROVE  RetFails'
<1>1. PICK T \in SUBSET Live : RelTrap(T, S) /\ (IsLoss(c) \/ c \in T \union S)
  BY DEF RetFailsWith
<1>2. T \in SUBSET Live' /\ RelTrap(T, S)'
  BY <1>1, LiveKept, RelTrapKept
<1>3. RelTrap(T, StackBetween(ret.low, Len(stack)))'
  BY <1>2 DEF RelTrap, StaysIn
<1>4. IsLoss(Current)' \/ Current' \in T \union StackBetween(ret.low, Len(stack))'
  BY <1>1 DEF IsLoss
<1> QED
  BY <1>2, <1>3, <1>4 DEF RetFails, RetFailsWith

LEMMA FailInvVisit ==
    ASSUME TypeOK, Linked, FailInv,
           VisitTerminal \/ VisitMemo \/ VisitDepthCap \/ VisitOnStack \/ VisitVisitCap
    PROVE  FailInv'
<1> USE DEF VisitTerminal, VisitMemo, VisitDepthCap, VisitOnStack, VisitVisitCap, Visit, Return,
            callVars
<1>1. UNCHANGED <<edges, question, root, stack, memo, result, arg>> /\ pc = "call" /\ EdgesGrow
  BY DEF EdgesGrow
<1>2. Current' = arg
  BY <1>1 DEF Linked, Current, FrameChildren, FrameEdge, FrameAction, EdgeKey, Top
<1>3. arg \in Bucket /\ question \in Question /\ Len(stack) \in Nat
  BY DEF TypeOK, CallOK, StackOK
<1>4. PICK c, S : c = arg /\ S = StackBetween(ret'.low, Len(stack))
  OBVIOUS
<1>5. StackBetween(ret.low, Len(stack))' = S
  BY <1>1, <1>4 DEF StackBetween
<1>6. ASSUME ret'.v = "FAIL" PROVE RetFailsWith(c, S)
  <2>1. CASE VisitTerminal
    <3>1. Outcome[question][arg] \in OutcomeValue
      BY <1>3, WinSolverAssumption
    <3>2. IsLoss(c)
      BY <1>4, <1>6, <2>1, <3>1 DEF IsLoss, DfsResult, OutcomeValue, Terminal
    <3>3. RelTrap({}, S) /\ {} \in SUBSET Live
      BY DEF RelTrap
    <3> QED
      BY <3>2, <3>3 DEF RetFailsWith
  <2>2. CASE VisitMemo
    <3>1. arg \in DOMAIN memo /\ ~memo[arg]
      BY <1>6, <2>2 DEF DfsResult, InMemo
    <3>2. PICK T \in SUBSET Live : arg \in T /\ RelTrap(T, {})
      BY <3>1 DEF FailInv, Trapped
    <3>3. RelTrap(T, S)
      BY <3>2, StaysInMono DEF RelTrap
    <3> QED
      BY <1>4, <3>2, <3>3 DEF RetFailsWith
  <2>3. CASE VisitOnStack
    <3>0. PICK k : k = CHOOSE i \in 1..Len(stack) : stack[i].b = arg
      OBVIOUS
    <3>a. k \in 1..Len(stack) /\ stack[k].b = arg
      BY <2>3, <3>0 DEF OnStack
    <3>1. k \in 1..Len(stack) /\ k = DepthOf(arg) + 1 /\ stack[k].b = arg
      BY <1>3, <3>0, <3>a DEF DepthOf
    <3>2. ret'.low = DepthOf(arg)
      BY <2>3 DEF DfsResult
    <3>3. c \in S
      BY <1>3, <1>4, <3>1, <3>2 DEF StackBetween
    <3>4. RelTrap({}, S) /\ {} \in SUBSET Live
      BY DEF RelTrap
    <3> QED
      BY <3>3, <3>4 DEF RetFailsWith
  <2>4. CASE VisitDepthCap \/ VisitVisitCap
    BY <1>6, <2>4 DEF DfsResult
  <2> QED
    BY <2>1, <2>2, <2>3, <2>4
<1>7. ret'.v = "FAIL" => RetFails'
  BY <1>1, <1>2, <1>4, <1>5, <1>6, RetFailsPrimed
<1>8. PICK n \in Nat : n = Len(stack)
  BY <1>3
<1>9. \A i \in 1..Len(stack') : ~(i > n)
  BY <1>1, <1>8
<1> QED
  BY <1>1, <1>7, <1>8, <1>9, FailInvKeep

LEMMA FailInvPush ==
    ASSUME TypeOK, Linked, FailInv, VisitPush
    PROVE  FailInv'
<1>1. /\ UNCHANGED <<edges, question, root, memo, result>>
      /\ pc' = "loop" /\ EdgesGrow
  BY DEF EdgesGrow, VisitPush, Visit, callVars
<1>2. stack \in Seq(Frame) /\ Len(stack) \in Nat /\ NewFrame(arg) \in Frame
  BY NewFrameFacts DEF TypeOK, StackOK
<1>3. /\ Len(stack') = Len(stack) + 1 /\ stack'[Len(stack) + 1] = NewFrame(arg)
      /\ \A i \in 1..Len(stack) : stack'[i] = stack[i]
  BY <1>2, PushFacts DEF VisitPush
<1>4. PICK n \in Nat : n = Len(stack)
  BY <1>2
<1>5. PICK m : m = n + 1
  OBVIOUS
<1>6. stack'[m].ai = 1
  BY <1>3, <1>4, <1>5 DEF NewFrame
<1>7. FrameFails(m)'
  <2>1. PICK b, S : b = stack'[m].b /\ S = StackBetween(stack[m].nlow, m)'
    OBVIOUS
  <2>2. RelTrap({}, S)' /\ {} \in SUBSET Live'
    BY DEF RelTrap
  <2>3. FailsWith(b, 1, S)'
    BY <2>2 DEF FailsWith
  <2> QED
    BY <1>6, <2>1, <2>3, FrameFailsPrimed
<1>8. \A i \in 1..Len(stack') : i > n => i = m
  BY <1>2, <1>3, <1>4, <1>5
<1> QED
  BY <1>1, <1>3, <1>4, <1>7, <1>8, FailInvKeep

\* A lower lowlink covers more frames.
LEMMA StackBetweenMono ==
    ASSUME NEW d1 \in Nat, NEW d2 \in Nat, d1 <= d2, NEW i \in Nat
    PROVE  StackBetween(d2, i) \subseteq StackBetween(d1, i)
<1>1. (d2 + 1)..i \subseteq (d1 + 1)..i
  OBVIOUS
<1> QED
  BY <1>1 DEF StackBetween

LEMMA FailInvNotWin ==
    ASSUME TypeOK, Linked, FailInv, AndNotWin
    PROVE  FailInv'
<1>1. /\ EdgesGrow /\ SameBelow
      /\ Top' = [Top EXCEPT !.ai = Top.ai + 1, !.ci = 0, !.nlow = MinOf(Top.nlow, AndLow),
                            !.indet = Top.indet \/ ret.v = "INDET"]
  BY AndNotWinInductive
<1>2. /\ UNCHANGED <<edges, question, root, memo, result>> /\ pc' = "loop"
      /\ pc = "ret" /\ Len(stack) > 0 /\ ret.v # "WIN" /\ ret \in DfsResults
  BY DEF AndNotWin, callVars, searchVars, TypeOK
<1>3. /\ stack # <<>> /\ Top \in Frame /\ Expanding(Top) /\ TopChildren = FrameChildren(Top)
      /\ TopChildren \in Seq(Bucket) /\ Top.ci \in 1..Len(TopChildren)
      /\ Top.ai \in Nat /\ Top.ai >= 1
  BY <1>2, AndFacts, TopFacts DEF FrameOK
<1>4. /\ Top'.b = Top.b /\ Top'.ai = Top.ai + 1 /\ Top'.nlow = MinOf(Top.nlow, AndLow)
      /\ Top'.indet = (Top.indet \/ ret.v = "INDET")
  BY <1>1, <1>3 DEF Frame
<1>5. /\ Len(stack) \in 1..Len(stack) /\ Len(stack) \in Nat
      /\ Top = stack[Len(stack)] /\ Top' = stack'[Len(stack)]
      /\ \A k \in 1..Len(stack) : stack'[k].b = stack[k].b
  BY <1>1, <1>4, TopBelow
<1>6. PICK n : n = Len(stack)
  OBVIOUS
<1>7. /\ Top.nlow \in Nat /\ ret.low \in Nat /\ MinOf(Top.nlow, AndLow) \in Nat
      /\ MinOf(Top.nlow, AndLow) <= Top.nlow /\ MinOf(Top.nlow, AndLow) <= ret.low
  <2>1. ret.low \in 0..DepthCap
    BY <1>2 DEF DfsResults, kLowlinkInf
  <2>2. ret.low \in Nat /\ Top.low \in Nat /\ Top.nlow \in Nat
    BY <1>3, <2>1, FrameNlow, WinSolverAssumption
  <2> QED
    BY <2>2 DEF MinOf, AndLow
<1>8. ASSUME ~Top'.indet PROVE FrameFails(n)'
  <2>1. ~Top.indet /\ ret.v = "FAIL"
    BY <1>2, <1>3, <1>4, <1>8 DEF Frame, DfsResults, Verdict
  <2>2. PICK b, m, m1, S, S1, S2 :
           /\ b = Top.b /\ m = Top.ai /\ m1 = m + 1
           /\ S = StackBetween(MinOf(Top.nlow, AndLow), Len(stack))
           /\ S1 = StackBetween(Top.nlow, Len(stack))
           /\ S2 = StackBetween(ret.low, Len(stack))
    OBVIOUS
  <2>3. S1 \subseteq S /\ S2 \subseteq S
    BY <1>5, <1>7, <2>2, StackBetweenMono
  <2>4. FailsWith(b, m, S1)
    BY <1>5, <2>1, <2>2 DEF FailInv, FrameFails
  <2>5. PICK T \in SUBSET Live :
           RelTrap(T, S2) /\ (IsLoss(Current) \/ Current \in T \union S2)
    BY <1>2, <2>1, <2>2 DEF FailInv, RetFails, RetFailsWith
  <2>6. StaysIn(b, LegalActions[b][m], T \union S2)
    <3>1. EdgeKey(b, LegalActions[b][m]) = FrameEdge(Top)
      BY <2>2 DEF FrameEdge, FrameAction
    <3>2. Current \in ChildrenOf(b, LegalActions[b][m])
      BY <1>3, <3>1 DEF Current, ChildrenOf, FrameChildren
    <3> QED
      BY <1>3, <2>5, <3>1, <3>2 DEF StaysIn, Expanding
  <2>7. FailsWith(b, m1, S)
    BY <1>3, <2>2, <2>3, <2>4, <2>5, <2>6, FailsWithNext
  <2>8. FailsWith(b, m1, S)'
    BY <1>1, <1>2, <2>7, FailsWithKept
  <2>9. StackBetween(stack[n].nlow, n)' = S
    BY <1>4, <1>5, <1>6, <1>7, <2>2 DEF StackBetween
  <2> QED
    BY <1>4, <1>5, <1>6, <2>2, <2>8, <2>9, FrameFailsPrimed
<1> QED
  BY <1>1, <1>2, <1>4, <1>6, <1>8, LoopFrames

LEMMA FailInvDecide ==
    ASSUME TypeOK, Linked, FailInv, DecideWin \/ DecideIndet
    PROVE  FailInv'
<1>1. stack # <<>> /\ stack' = Pop /\ UNCHANGED <<edges, question, root, result>>
  <2>1. CASE DecideWin
    BY <2>1, AndFacts DEF DecideWin, callVars
  <2>2. CASE DecideIndet
    BY <2>2 DEF DecideIndet, Exhausted, Linked, callVars, searchVars
  <2> QED
    BY <2>1, <2>2
<1>2. EdgesGrow
  BY <1>1 DEF EdgesGrow
<1>3. /\ Len(stack) \in Nat /\ Len(stack) >= 1 /\ Len(stack') = Len(stack) - 1
      /\ \A i \in 1..(Len(stack) - 1) : stack'[i] = stack[i]
  BY <1>1, PopLinked, TopFacts DEF Linked
<1>4. ret'.v # "FAIL"
  <2>1. CASE DecideWin
    <3>1. ret' = DfsResult("WIN", kLowlinkInf)
      BY <2>1 DEF DecideWin, Return
    <3> QED
      BY <3>1 DEF DfsResult
  <2>2. CASE DecideIndet
    <3>1. ret' = DfsResult("INDET", Top.nlow)
      BY <2>2 DEF DecideIndet, Return
    <3> QED
      BY <3>1 DEF DfsResult
  <2> QED
    BY <2>1, <2>2
<1>5. \A b \in DOMAIN memo' : ~memo'[b] => b \in DOMAIN memo /\ ~memo[b]
  <2>1. CASE DecideWin
    <3>1. StoreMemo(Top.b, TRUE) /\ Top.b \in Bucket /\ SearchOK
      BY <1>1, <2>1, TopFacts DEF DecideWin, TypeOK
    <3>2. /\ EnableVerdictMemo => memo'[Top.b] = TRUE
          /\ ~EnableVerdictMemo => memo' = memo
          /\ \A k \in DOMAIN memo' : k # Top.b => k \in DOMAIN memo /\ memo'[k] = memo[k]
      BY <3>1, StoreMemoFacts
    <3> QED
      BY <3>2
  <2>2. CASE DecideIndet
    BY <2>2 DEF DecideIndet, searchVars
  <2> QED
    BY <2>1, <2>2
<1>6. PICK n \in Nat : n = Len(stack) - 1
  BY <1>3
<1>7. n <= Len(stack) /\ \A i \in 1..Len(stack') : ~(i > n)
  BY <1>3, <1>6
<1> QED
  BY <1>1, <1>2, <1>3, <1>4, <1>5, <1>6, <1>7, FailInvKeep

LEMMA FailInvFail ==
    ASSUME TypeOK, Linked, FailInv, DecideFail
    PROVE  FailInv'
<1>1. /\ stack # <<>> /\ stack' = Pop /\ UNCHANGED <<edges, question, root, result>>
      /\ pc = "loop" /\ ~Top.indet /\ ret' = DfsResult("FAIL", Top.nlow)
  BY DEF DecideFail, Exhausted, Linked, callVars, Return
<1>2. EdgesGrow
  BY <1>1 DEF EdgesGrow
<1>3. /\ Len(stack) \in Nat /\ Len(stack) >= 1 /\ Len(stack') = Len(stack) - 1
      /\ \A i \in 1..(Len(stack) - 1) : stack'[i] = stack[i]
      /\ Current' = Top.b
  BY <1>1, PopLinked, TopFacts DEF Linked
<1>4. /\ Top \in Frame /\ Top.b \in Live /\ LegalActions[Top.b] \in Seq(Action)
      /\ Top.ai = Len(LegalActions[Top.b]) + 1 /\ Top.nlow \in Nat
  <2>1. /\ Top \in Frame /\ FrameOK(Top) /\ LegalActions[Top.b] \in Seq(Action)
        /\ Top.ai \in Nat /\ Top.b \in Bucket
    BY <1>1, TopFacts
  <2>2. Len(LegalActions[Top.b]) \in Nat
    BY <2>1
  <2> QED
    BY <2>1, <2>2, FrameNlow DEF FrameOK, Live, DecideFail, Exhausted
<1>5. PICK b, m, d, l, S, S0 :
         /\ b = Top.b /\ m = Top.ai /\ d = Top.nlow /\ l = Len(stack) - 1
         /\ S = StackBetween(Top.nlow, Len(stack))
         /\ S0 = StackBetween(Top.nlow, Len(stack) - 1)
  OBVIOUS
<1>6. FailsWith(b, m, S)
  <2>1. Len(stack) \in 1..Len(stack) /\ Top = stack[Len(stack)]
    BY <1>3 DEF Top
  <2> QED
    BY <1>1, <1>5, <2>1 DEF FailInv, FrameFails
<1>7. S \subseteq S0 \union {b}
  <2>1. \A k \in (Top.nlow + 1)..Len(stack) :
           k = Len(stack) \/ k \in (Top.nlow + 1)..(Len(stack) - 1)
    BY <1>3, <1>4
  <2> QED
    BY <1>5, <2>1 DEF StackBetween, Top
<1>8. PICK T \in SUBSET Live : b \in T /\ RelTrap(T, S0)
  BY <1>4, <1>5, <1>6, <1>7, FailsWithAll
<1>9. RetFailsWith(b, S0)
  BY <1>8 DEF RetFailsWith
<1>10. StackBetween(ret.low, Len(stack))' = S0
  <2>1. ret'.low = Top.nlow
    BY <1>1 DEF DfsResult
  <2> QED
    BY <1>3, <1>4, <1>5, <2>1 DEF StackBetween
<1>11. RetFails'
  BY <1>1, <1>2, <1>3, <1>5, <1>9, <1>10, RetFailsPrimed
<1>12. \A k \in DOMAIN memo' : ~memo'[k] => (k \in DOMAIN memo /\ ~memo[k]) \/ Trapped(k)
  <2>1. CASE Uncontaminated(Top, Len(stack) - 1)
    <3>1. S0 = {}
      BY <1>3, <1>4, <1>5, <2>1 DEF Uncontaminated, StackBetween
    <3>2. Trapped(b)
      BY <1>8, <3>1 DEF Trapped
    <3>3. StoreMemo(b, FALSE)
      BY <1>5, <2>1 DEF DecideFail
    <3> QED
      BY <3>2, <3>3 DEF StoreMemo
  <2>2. CASE ~Uncontaminated(Top, Len(stack) - 1)
    BY <2>2 DEF DecideFail
  <2> QED
    BY <2>1, <2>2
<1>13. PICK n \in Nat : n = Len(stack) - 1
  BY <1>3
<1>14. n <= Len(stack) /\ \A i \in 1..Len(stack') : ~(i > n)
  BY <1>3, <1>13
<1> QED
  BY <1>1, <1>2, <1>3, <1>11, <1>12, <1>13, <1>14, FailInvKeep

LEMMA FailInvThrow ==
    ASSUME TypeOK, Linked, FailInv, NEW r \in Expansions, ExpandThrows(r)
    PROVE  FailInv'
<1>1. /\ UNCHANGED <<question, root, memo>> /\ stack' = <<>> /\ pc' = "idle"
      /\ result' = "exception" /\ EdgesGrow
  BY ExpandThrowsInductive DEF ExpandThrows, EdgeExpand, callVars, searchVars
<1>2. Len(stack) \in Nat /\ Len(stack') = 0
  BY <1>1 DEF TypeOK, StackOK
<1>3. 0 \in Nat /\ 0 <= Len(stack) /\ 1..0 = {} /\ 1..Len(stack') = {}
  BY <1>2
<1> QED
  BY <1>1, <1>3, FailInvKeep

LEMMA FailInvJoin ==
    ASSUME TypeOK, Linked, FailInv, Join
    PROVE  FailInv'
<1>1. /\ UNCHANGED <<edges, question, root, memo, stack>> /\ stack = <<>> /\ pc = "ret"
      /\ pc' = "idle" /\ result' = ret.v /\ EdgesGrow
  BY DEF Join, callVars, searchVars, EdgesGrow
<1>2. Len(stack) = 0 /\ Len(stack') = 0 /\ ret.low \in Nat
  <2>1. ret.low \in 0..DepthCap
    BY DEF TypeOK, DfsResults, kLowlinkInf
  <2> QED
    BY <1>1, <2>1, WinSolverAssumption
<1>3. 0 \in Nat /\ 0 <= Len(stack) /\ 1..0 = {} /\ 1..Len(stack') = {}
  BY <1>2
<1>4. StackBetween(ret.low, Len(stack)) = {}
  BY <1>2 DEF StackBetween
<1>5. result' = "FAIL" => IsLoss(root) \/ Trapped(root)
  <2>1. Current = root
    BY <1>1 DEF Current
  <2>2. PICK c : c = root
    OBVIOUS
  <2>3. ASSUME result' = "FAIL" PROVE IsLoss(c) \/ Trapped(c)
    <3>1. PICK T \in SUBSET Live : RelTrap(T, {}) /\ (IsLoss(c) \/ c \in T)
      BY <1>1, <1>4, <2>1, <2>2, <2>3 DEF FailInv, RetFails, RetFailsWith
    <3> QED
      BY <3>1 DEF Trapped
  <2> QED
    BY <2>2, <2>3
<1> QED
  BY <1>1, <1>3, <1>5, FailInvKeep

LEMMA FailInvCall ==
    ASSUME TypeOK, Linked, NEW q \in Question, NEW b \in Bucket,
           CertifyTerminalRoot(q, b) \/ Certify(q, b)
    PROVE  FailInv'
<1>1. /\ stack' = <<>> /\ memo' = Empty /\ question' = q /\ root' = b /\ pc' # "ret"
  BY DEF CertifyTerminalRoot, Certify, NewCall
<1>2. 1..Len(stack') = {} /\ DOMAIN memo' = {}
  BY <1>1 DEF Empty
<1>3. result' = "FAIL" => IsLoss(root)'
  <2>1. CASE CertifyTerminalRoot(q, b)
    <3>1. Outcome[q][b] \in OutcomeValue
      BY WinSolverAssumption
    <3> QED
      BY <1>1, <2>1, <3>1 DEF CertifyTerminalRoot, OutcomeValue, IsLoss
  <2>2. CASE Certify(q, b)
    BY <2>2 DEF Certify, NoResult
  <2> QED
    BY <2>1, <2>2
<1> QED
  BY <1>1, <1>2, <1>3 DEF FailInv

LEMMA FailInvStutter ==
    ASSUME TypeOK, FailInv, UNCHANGED vars
    PROVE  FailInv'
<1>1. UNCHANGED <<edges, question, root, pc, ret, stack, memo, result>> /\ EdgesGrow
  BY DEF vars, EdgesGrow
<1>2. PICK n \in Nat : n = Len(stack)
  BY DEF TypeOK, StackOK
<1>3. \A i \in 1..Len(stack') : ~(i > n)
  BY <1>1, <1>2
<1>4. ASSUME pc' = "ret", ret'.v = "FAIL" PROVE RetFails'
  <2>1. PICK c, S : c = Current /\ S = StackBetween(ret.low, Len(stack))
    OBVIOUS
  <2>2. RetFailsWith(c, S)
    BY <1>1, <1>4, <2>1 DEF FailInv, RetFails
  <2>3. Current' = c
    BY <1>1, <2>1 DEF Current, FrameChildren, FrameEdge, FrameAction, EdgeKey, Top
  <2>4. StackBetween(ret.low, Len(stack))' = S
    BY <1>1, <2>1 DEF StackBetween
  <2> QED
    BY <1>1, <2>2, <2>3, <2>4, RetFailsPrimed
<1> QED
  BY <1>1, <1>2, <1>3, <1>4, FailInvKeep

LEMMA FailInvInit == Init => FailInv
<1> SUFFICES ASSUME Init PROVE FailInv
  OBVIOUS
<1>1. stack = <<>> /\ DOMAIN memo = {} /\ pc = "idle" /\ result = NoResult
  BY DEF Init, Empty
<1>2. 1..Len(stack) = {}
  BY <1>1
<1> QED
  BY <1>1, <1>2 DEF FailInv, NoResult

LEMMA FailInvStep == TypeOK /\ Linked /\ FailInv /\ [Next]_vars => FailInv'
<1> SUFFICES ASSUME TypeOK, Linked, FailInv, [Next]_vars PROVE FailInv'
  OBVIOUS
<1>1. ASSUME NEW q \in Question, NEW b \in Bucket, CertifyTerminalRoot(q, b) \/ Certify(q, b)
      PROVE  FailInv'
  BY <1>1, FailInvCall
<1>2. CASE VisitTerminal \/ VisitMemo \/ VisitDepthCap \/ VisitOnStack \/ VisitVisitCap
  BY <1>2, FailInvVisit
<1>3. CASE VisitPush
  BY <1>3, FailInvPush
<1>4. CASE SkipBanned \/ \E r \in Expansions : ExpandConceded(r)
  BY <1>4, FailInvSkip
<1>5. CASE AndNextChild \/ \E r \in Expansions : ExpandChildren(r)
  BY <1>5, FailInvAnd
<1>6. CASE \E r \in Expansions : ExpandThrows(r)
  BY <1>6, FailInvThrow
<1>7. CASE AndNotWin
  BY <1>7, FailInvNotWin
<1>8. CASE DecideWin \/ DecideIndet
  BY <1>8, FailInvDecide
<1>9. CASE DecideFail
  BY <1>9, FailInvFail
<1>10. CASE Join
  BY <1>10, FailInvJoin
<1>11. CASE UNCHANGED vars
  BY <1>11, FailInvStutter
<1> QED
  BY <1>1, <1>2, <1>3, <1>4, <1>5, <1>6, <1>7, <1>8, <1>9, <1>10, <1>11 DEF Next, DfsNext

\* A memoized FAIL and a FAIL verdict of bucket_win_certify lie in a trap: the
\* lowlink test of dfs() keeps every FAIL that leans on an ancestor out of the
\* memo, so no later path to the bucket can find it won.
THEOREM FailIsTrap == Spec => []FailSound
<1>1. FailInv => FailSound
  <2>1. \A T : RelTrap(T, {}) => Trap(T)
    BY DEF RelTrap, Trap
  <2> QED
    BY <2>1 DEF FailInv, FailSound, Trapped
<1>2. Spec => [](TypeOK /\ Linked /\ FailInv)
  BY TypeInit, LinkedStep, FailInvInit, FailInvStep, PTL DEF Spec
<1> QED
  BY <1>1, <1>2, PTL
=============================================================================
