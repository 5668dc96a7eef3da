-------------------------- MODULE WinSolverProofs --------------------------
(***************************************************************************)
(* Proofs about Solver B for every bucket graph, action set, cap and       *)
(* number of questions.                                                    *)
(***************************************************************************)
EXTENDS WinSolver, TLAPS

-----------------------------------------------------------------------------
(* The stack of frames.                                                     *)

\* Replacing the top frame keeps every other frame.
LEMMA SetTopFacts ==
    ASSUME stack \in Seq(Frame), stack # <<>>, NEW f \in Frame
    PROVE  /\ SetTop(f) \in Seq(Frame)
           /\ Len(SetTop(f)) = Len(stack)
           /\ SetTop(f) # <<>>
           /\ SetTop(f)[Len(stack)] = f
           /\ \A i \in 1..(Len(stack) - 1) : SetTop(f)[i] = stack[i]
BY DEF SetTop

\* Popping the top frame keeps every other frame.
LEMMA PopFacts ==
    ASSUME stack \in Seq(Frame), stack # <<>>
    PROVE  /\ Pop \in Seq(Frame)
           /\ Len(Pop) = Len(stack) - 1
           /\ \A i \in 1..(Len(stack) - 1) : Pop[i] = stack[i]
BY DEF Pop

\* Pushing a frame keeps every other frame.
LEMMA PushFacts ==
    ASSUME stack \in Seq(Frame), NEW f \in Frame
    PROVE  /\ Append(stack, f) \in Seq(Frame)
           /\ Len(Append(stack, f)) = Len(stack) + 1
           /\ Append(stack, f) # <<>>
           /\ Append(stack, f)[Len(stack) + 1] = f
           /\ \A i \in 1..Len(stack) : Append(stack, f)[i] = stack[i]
OBVIOUS

\* The frame of a fresh dfs() call is well formed.
LEMMA NewFrameFacts ==
    ASSUME NEW b \in Bucket
    PROVE  NewFrame(b) \in Frame
BY WinSolverAssumption DEF NewFrame, Frame, kLowlinkInf

\* What TypeOK says of a frame in use.
LEMMA TopFacts ==
    ASSUME TypeOK, stack # <<>>
    PROVE  /\ Len(stack) \in Nat /\ Len(stack) >= 1
           /\ Top \in Frame
           /\ Top.b \in Bucket /\ Top.ai \in Nat /\ Top.ci \in Nat
           /\ FrameOK(Top)
           /\ LegalActions[Top.b] \in Seq(Action)
<1>1. Len(stack) \in Nat /\ Len(stack) >= 1 /\ Top \in Frame
  BY DEF TypeOK, StackOK, Top
<1>2. FrameOK(Top)
  BY <1>1 DEF TypeOK, StackOK, Top
<1>3. Top.b \in Bucket /\ Top.ai \in Nat /\ Top.ci \in Nat
  BY <1>1 DEF Frame
<1> QED
  BY <1>1, <1>2, <1>3, WinSolverAssumption

\* The children of an expanded frame are buckets, its action is a legal one.
LEMMA ExpandingFacts ==
    ASSUME TypeOK, NEW f \in Frame, Expanding(f)
    PROVE  /\ FrameAction(f) \in Action
           /\ FrameChildren(f) \in Seq(Bucket)
           /\ FrameChildren(f)[f.ci] \in Bucket
           /\ edges[FrameEdge(f)] \in Expansions
<1>1. f.b \in Bucket /\ LegalActions[f.b] \in Seq(Action)
  BY WinSolverAssumption DEF Frame
<1>2. FrameAction(f) \in Action
  BY <1>1 DEF Expanding, FrameAction
<1>3. edges[FrameEdge(f)] \in Expansions
  BY DEF Expanding, TypeOK, CacheOK
<1>4. FrameChildren(f) \in Seq(Bucket)
  BY <1>3, WinSolverAssumption DEF FrameChildren, ExpandResult
<1> QED
  BY <1>2, <1>3, <1>4 DEF Expanding

-----------------------------------------------------------------------------
(* TypeOK and Linked are inductive.                                         *)

\* The variables that dfs() never writes outside its own call frame.
LEMMA TypeInit == Init => TypeOK /\ Linked
<1> SUFFICES ASSUME Init PROVE TypeOK /\ Linked
  OBVIOUS
<1>1. TypeOK
  <2>1. ret \in DfsResults
    BY WinSolverAssumption DEF Init, DfsResult, DfsResults, Verdict, kLowlinkInf
  <2>2. /\ DOMAIN edges = {} /\ DOMAIN memo = {} /\ DOMAIN policy = {}
        /\ capHit \in BOOLEAN
    BY DEF Init, Empty
  <2>3. stack \in Seq(Frame) /\ Len(stack) = 0
    BY DEF Init
  <2>4. calls \in 0..MaxCalls /\ Len(stack) <= DepthCap
    BY <2>3, WinSolverAssumption DEF Init
  <2> QED
    BY <2>1, <2>2, <2>3, <2>4
    DEF Init, TypeOK, CacheOK, CallOK, StackOK, SearchOK, NoResult
<1>2. Linked
  BY DEF Init, Linked, StackLinked
<1> QED
  BY <1>1, <1>2

LEMMA NewCallInductive ==
    ASSUME TypeOK, Linked, NEW q \in Question, NEW b \in Bucket,
           CertifyTerminalRoot(q, b) \/ Certify(q, b)
    PROVE  TypeOK' /\ Linked'
<1> USE DEF TypeOK, CertifyTerminalRoot, Certify, NewCall
<1>1. CacheOK'
  BY DEF CacheOK
<1>2. CallOK'
  BY WinSolverAssumption DEF CallOK, Verdict, NoResult
<1>3. StackOK'
  <2>1. stack' = <<>>
    OBVIOUS
  <2> QED
    BY <2>1, WinSolverAssumption DEF StackOK
<1>4. SearchOK'
  <2>1. DOMAIN memo' = {} /\ DOMAIN policy' = {} /\ capHit' \in BOOLEAN
    BY DEF Empty
  <2> QED
    BY <2>1 DEF SearchOK
<1>5. Linked'
  BY DEF Linked, StackLinked, NoResult, Current
<1> QED
  BY <1>1, <1>2, <1>3, <1>4, <1>5 DEF DfsResults

\* dfs() returns without entering its loops.
LEMMA VisitReturnInductive ==
    ASSUME TypeOK, Linked,
           VisitTerminal \/ VisitMemo \/ VisitDepthCap \/ VisitOnStack \/ VisitVisitCap
    PROVE  TypeOK' /\ Linked'
<1> USE DEF TypeOK, VisitTerminal, VisitMemo, VisitDepthCap, VisitOnStack, VisitVisitCap,
            Visit, Return, callVars
<1>1. UNCHANGED <<edges, calls, question, root, arg, stack, memo, policy, result>>
  OBVIOUS
<1>2. CacheOK' /\ CallOK'
  BY <1>1 DEF CacheOK, CallOK
<1>3. StackOK'
  BY <1>1 DEF StackOK, FrameOK, Terminal
<1>4. SearchOK'
  <2>1. visited' \in Nat
    BY DEF SearchOK
  <2>2. capHit' \in BOOLEAN
    BY DEF SearchOK
  <2>3. reason' \in {"None", "DepthCap", "VisitCap"}
    BY DEF SearchOK, FirstReason
  <2> QED
    BY <1>1, <2>1, <2>2, <2>3 DEF SearchOK
<1>5. pc' = "ret" /\ pc = "call"
  OBVIOUS
<1>6. ret' \in DfsResults
  <2>1. CASE VisitOnStack
    <3>1. stack \in Seq(Frame) /\ Len(stack) <= DepthCap /\ Len(stack) \in Nat
      BY DEF StackOK
    <3>2. PICK i \in 1..Len(stack) : stack[i].b = arg
      BY <2>1 DEF OnStack
    <3> DEFINE c == CHOOSE k \in 1..Len(stack) : stack[k].b = arg
    <3>3. c \in 1..Len(stack)
      BY <3>2
    <3>4. DepthOf(arg) \in 0..kLowlinkInf
      <4> HIDE DEF c
      <4>1. c - 1 \in 0..kLowlinkInf
        BY <3>1, <3>3, WinSolverAssumption DEF kLowlinkInf
      <4> QED
        BY <4>1 DEF DepthOf, c
    <3> QED
      BY <2>1, <3>4 DEF DfsResult, DfsResults, Verdict
  <2>2. CASE ~VisitOnStack
    BY <2>2, WinSolverAssumption DEF DfsResult, DfsResults, Verdict, kLowlinkInf
  <2> QED
    BY <2>1, <2>2
<1>7. Linked'
  BY <1>1, <1>5
  DEF Linked, StackLinked, Expanding, FrameChildren, FrameEdge, FrameAction, EdgeKey, Top, Current
<1> QED
  BY <1>1, <1>2, <1>3, <1>4, <1>5, <1>6, <1>7

\* dfs() pushes the bucket and starts its OR loop.
LEMMA VisitPushInductive ==
    ASSUME TypeOK, Linked, VisitPush
    PROVE  TypeOK' /\ Linked'
<1> USE DEF TypeOK, VisitPush, Visit, callVars
<1>1. UNCHANGED <<edges, calls, question, root, arg, memo, policy, capHit, reason, result, ret>>
  OBVIOUS
<1>2. CacheOK' /\ CallOK'
  BY <1>1 DEF CacheOK, CallOK
<1>3. /\ stack \in Seq(Frame) /\ Len(stack) \in Nat
      /\ NewFrame(arg) \in Frame
      /\ stack' = Append(stack, NewFrame(arg))
  BY NewFrameFacts DEF StackOK
<1>4. /\ stack' \in Seq(Frame) /\ Len(stack') = Len(stack) + 1
      /\ stack' # <<>> /\ stack'[Len(stack) + 1] = NewFrame(arg)
      /\ \A i \in 1..Len(stack) : stack'[i] = stack[i]
  BY <1>3, PushFacts
<1>5. StackOK'
  <2>1. Len(stack') <= DepthCap
    BY <1>3, <1>4, WinSolverAssumption DEF StackOK
  <2>2. NewFrame(arg).ai >= 1 /\ NewFrame(arg).ai <= Len(LegalActions[NewFrame(arg).b]) + 1 /\ ~Terminal(NewFrame(arg).b)
    BY WinSolverAssumption DEF NewFrame
  <2>3. \A i \in 1..Len(stack') : FrameOK(stack[i])'
    BY <1>1, <1>3, <1>4, <2>2 DEF StackOK, FrameOK, Terminal
  <2> QED
    BY <1>4, <2>1, <2>3 DEF StackOK
<1>6. SearchOK'
  BY <1>1 DEF SearchOK
<1>7. Linked'
  <2>1. pc' = "loop" /\ pc = "call"
    OBVIOUS
  <2>2. stack'[1].b = root'
    <3>1. CASE stack = <<>>
      BY <3>1, <1>1, <1>4, <2>1 DEF Linked, StackLinked, Current, NewFrame
    <3>2. CASE stack # <<>>
      BY <3>2, <1>1, <1>3, <1>4, <2>1 DEF Linked, StackLinked
    <3> QED
      BY <3>1, <3>2
  <2>3. ASSUME NEW i \in 1..(Len(stack') - 1)
        PROVE  /\ Expanding(stack[i])
               /\ FrameChildren(stack[i])[stack[i].ci] = stack'[i + 1].b
    <3>1. CASE i < Len(stack)
      BY <3>1, <1>3, <1>4 DEF Linked, StackLinked
    <3>2. CASE i = Len(stack)
      BY <3>2, <1>3, <1>4, <2>1 DEF Linked, StackLinked, Current, Top, NewFrame
    <3> QED
      BY <3>1, <3>2, <1>3, <1>4
  <2>4. ASSUME NEW i \in 1..(Len(stack') - 1)
        PROVE  (Expanding(stack[i]) /\ FrameChildren(stack[i])[stack[i].ci] = stack[i + 1].b)'
    <3>1. stack'[i] = stack[i]
      BY <1>3, <1>4
    <3> QED
      BY <1>1, <2>3, <3>1 DEF Expanding, FrameChildren, FrameEdge, FrameAction, EdgeKey
  <2>5. Top'.ci = 0
    BY <1>4 DEF Top, NewFrame
  <2> QED
    BY <1>1, <1>4, <2>1, <2>2, <2>4, <2>5 DEF Linked, StackLinked
<1> QED
  BY <1>1, <1>2, <1>5, <1>6, <1>7

\* The edge cache only grows.
EdgesGrow ==
    /\ DOMAIN edges \subseteq DOMAIN edges'
    /\ \A k \in DOMAIN edges : edges'[k] = edges[k]

\* Only the top frame changes.
SameBelow ==
    /\ stack # <<>> /\ stack' # <<>> /\ Len(stack') = Len(stack)
    /\ \A i \in 1..(Len(stack) - 1) : stack'[i] = stack[i]

\* Replacing the top frame by one for the same bucket keeps the links below it.
LEMMA SetTopLinked ==
    ASSUME TypeOK, StackLinked, stack # <<>>, NEW f \in Frame, f.b = Top.b, stack' = SetTop(f),
           UNCHANGED <<question, root>>, EdgesGrow
    PROVE  /\ StackLinked'
           /\ stack' \in Seq(Frame) /\ stack' # <<>> /\ Len(stack') = Len(stack)
           /\ Top' = f
           /\ \A i \in 1..(Len(stack) - 1) : stack'[i] = stack[i]
<1>1. stack \in Seq(Frame) /\ Len(stack) \in Nat /\ Len(stack) >= 1
  BY DEF TypeOK, StackOK
<1>2. /\ stack' \in Seq(Frame) /\ stack' # <<>> /\ Len(stack') = Len(stack)
      /\ stack'[Len(stack)] = f
      /\ \A i \in 1..(Len(stack) - 1) : stack'[i] = stack[i]
  BY <1>1, SetTopFacts
<1>3. \A i \in 1..Len(stack) : stack'[i].b = stack[i].b
  BY <1>1, <1>2 DEF Top
<1>4. stack'[1].b = root'
  BY <1>1, <1>3 DEF StackLinked
<1>5. ASSUME NEW i \in 1..(Len(stack') - 1)
      PROVE  (Expanding(stack[i]) /\ FrameChildren(stack[i])[stack[i].ci] = stack[i + 1].b)'
  <2>1. stack'[i] = stack[i] /\ stack'[i + 1].b = stack[i + 1].b
    BY <1>1, <1>2, <1>3
  <2>2. Expanding(stack[i]) /\ FrameChildren(stack[i])[stack[i].ci] = stack[i + 1].b
    BY <1>2 DEF StackLinked
  <2> QED
    BY <2>1, <2>2
    DEF EdgesGrow, Expanding, FrameChildren, FrameEdge, FrameAction, EdgeKey
<1> QED
  BY <1>2, <1>4, <1>5 DEF StackLinked, Top

\* Popping the top frame leaves a frame that is inside and_over_children.
LEMMA PopLinked ==
    ASSUME TypeOK, StackLinked, stack # <<>>, stack' = Pop,
           UNCHANGED <<question, root, edges>>
    PROVE  /\ StackLinked'
           /\ stack' \in Seq(Frame) /\ Len(stack') = Len(stack) - 1
           /\ \A i \in 1..(Len(stack) - 1) : stack'[i] = stack[i]
           /\ stack' # <<>> => Expanding(Top)'
           /\ Current' = Top.b
<1>1. stack \in Seq(Frame) /\ Len(stack) \in Nat /\ Len(stack) >= 1
  BY DEF TypeOK, StackOK
<1>2. /\ stack' \in Seq(Frame) /\ Len(stack') = Len(stack) - 1
      /\ \A i \in 1..(Len(stack) - 1) : stack'[i] = stack[i]
  BY <1>1, PopFacts
<1>3. ASSUME NEW i \in 1..(Len(stack) - 1)
      PROVE  /\ Expanding(stack[i])'
             /\ FrameChildren(stack[i])'[stack'[i].ci] = stack[i + 1].b
  <2>1. stack'[i] = stack[i]
    BY <1>2
  <2>2. Expanding(stack[i]) /\ FrameChildren(stack[i])[stack[i].ci] = stack[i + 1].b
    BY DEF StackLinked
  <2> QED
    BY <2>1, <2>2 DEF Expanding, FrameChildren, FrameEdge, FrameAction, EdgeKey
<1>4. stack' # <<>> => stack'[1].b = root'
  BY <1>1, <1>2 DEF StackLinked
<1>5. StackLinked'
  BY <1>1, <1>2, <1>3, <1>4 DEF StackLinked
<1>6. CASE Len(stack) = 1
  BY <1>1, <1>2, <1>5, <1>6 DEF Current, StackLinked, Top
<1>7. CASE Len(stack) > 1
  <2>1. Len(stack) - 1 \in 1..(Len(stack) - 1) /\ stack' # <<>> /\ Len(stack) - 1 + 1 = Len(stack)
    BY <1>1, <1>2, <1>7
  <2>2. Top' = stack'[Len(stack) - 1]
    BY <1>2 DEF Top
  <2>3. Expanding(Top)' /\ FrameChildren(Top)'[Top'.ci] = Top.b
    BY <1>2, <1>3, <2>1, <2>2 DEF Top
  <2> QED
    BY <1>2, <1>5, <2>1, <2>3 DEF Current
<1>8. \A n \in Nat : n >= 1 => n = 1 \/ n > 1
  OBVIOUS
<1> QED
  BY <1>1, <1>6, <1>7, <1>8

\* edge_expand reads or fills one entry of the cache.
LEMMA EdgeExpandFacts ==
    ASSUME TypeOK, Linked, NEW r \in Expansions, EdgeExpand(r)
    PROVE  /\ CacheOK' /\ EdgesGrow
           /\ TopEdge \in DOMAIN edges' /\ edges'[TopEdge] = r
           /\ stack # <<>> /\ Top.ai \in 1..Len(LegalActions[Top.b])
<1>1. stack # <<>>
  BY DEF EdgeExpand, Linked
<1>2. Top.ai \in 1..Len(LegalActions[Top.b])
  <2>1. Top.ai >= 1
    BY <1>1, TopFacts DEF FrameOK
  <2> QED
    BY <1>1, <2>1, TopFacts DEF EdgeExpand
<1>3. TopEdge \in Bucket \X {BpFp[q] : q \in Question} \X Action
  BY <1>1, <1>2, TopFacts DEF TypeOK, CallOK, TopEdge, EdgeKey, TopAction
<1>4. CASE TopEdge \in DOMAIN edges
  BY <1>1, <1>2, <1>4 DEF EdgeExpand, EdgesGrow, TypeOK, CacheOK
<1>5. CASE TopEdge \notin DOMAIN edges
  <2>1. edges' = [k \in DOMAIN edges \union {TopEdge} |-> IF k = TopEdge THEN r ELSE edges[k]]
    BY <1>5 DEF EdgeExpand
  <2> HIDE DEF TopEdge
  <2>2. DOMAIN edges' = DOMAIN edges \union {TopEdge} /\ edges'[TopEdge] = r
    BY <2>1
  <2>3. \A k \in DOMAIN edges : edges'[k] = edges[k]
    BY <1>5, <2>1
  <2> QED
    BY <1>1, <1>2, <1>3, <2>2, <2>3 DEF EdgesGrow, TypeOK, CacheOK
<1> QED
  BY <1>4, <1>5

\* A step that replaces the top frame and keeps the call and the memo.
LEMMA SetTopType ==
    ASSUME TypeOK, StackLinked, stack # <<>>, CacheOK', EdgesGrow,
           NEW f \in Frame, f.b = Top.b, f.ai <= Len(LegalActions[f.b]) + 1, f.ai >= 1,
           stack' = SetTop(f),
           UNCHANGED <<callVars, searchVars, result>>,
           pc' \in {"idle", "call", "loop", "ret"}, arg' \in Bucket, ret' \in DfsResults
    PROVE  TypeOK'
<1> USE DEF callVars, searchVars
<1>1. /\ stack' \in Seq(Frame) /\ Len(stack') = Len(stack) /\ Top' = f
      /\ \A i \in 1..(Len(stack) - 1) : stack'[i] = stack[i]
  BY SetTopLinked
<1>2. stack'[Len(stack)] = f
  BY <1>1 DEF Top
<1>3. FrameOK(Top) /\ Len(stack) \in Nat
  BY TopFacts
<1>4. ASSUME NEW i \in 1..Len(stack') PROVE FrameOK(stack[i])'
  <2>1. CASE i = Len(stack)
    BY <1>2, <1>3, <2>1 DEF FrameOK, Terminal
  <2>2. CASE i # Len(stack)
    <3>1. i \in 1..(Len(stack) - 1)
      BY <1>1, <1>3, <2>2
    <3>2. stack'[i] = stack[i]
      BY <1>1, <3>1
    <3>3. FrameOK(stack[i])
      BY <1>3, <3>1 DEF TypeOK, StackOK
    <3> QED
      BY <3>2, <3>3 DEF FrameOK, Terminal
  <2> QED
    BY <2>1, <2>2
<1>5. StackOK'
  BY <1>1, <1>4 DEF TypeOK, StackOK
<1>6. CallOK' /\ SearchOK'
  BY DEF TypeOK, CallOK, SearchOK
<1> QED
  BY <1>5, <1>6 DEF TypeOK

\* The frame updates of the OR and AND loops are well formed.
LEMMA FrameUpdateFacts ==
    ASSUME TypeOK, stack # <<>>
    PROVE  /\ [Top EXCEPT !.ai = Top.ai + 1] \in Frame
           /\ \A c \in Nat : [Top EXCEPT !.ci = c, !.low = kLowlinkInf] \in Frame
           /\ [Top EXCEPT !.ci = Top.ci + 1, !.low = AndLow] \in Frame
           /\ \A x \in BOOLEAN :
                 [Top EXCEPT !.ai = Top.ai + 1, !.ci = 0, !.nlow = MinOf(Top.nlow, AndLow), !.indet = x] \in Frame
<1>1. Top \in Frame
  BY TopFacts
<1>2. kLowlinkInf \in 0..kLowlinkInf
  BY WinSolverAssumption DEF kLowlinkInf
<1>3. ret.low \in 0..kLowlinkInf /\ Top.low \in 0..kLowlinkInf /\ Top.nlow \in 0..kLowlinkInf
  BY <1>1 DEF TypeOK, DfsResults, Frame
<1>4. AndLow \in 0..kLowlinkInf
  BY <1>3 DEF AndLow, MinOf
<1>5. MinOf(Top.nlow, AndLow) \in 0..kLowlinkInf
  BY <1>3, <1>4 DEF MinOf
<1>6. Top.ai + 1 \in Nat /\ Top.ci + 1 \in Nat
  BY <1>1 DEF Frame
<1>7. \A a \in Nat : [Top EXCEPT !.ai = a] \in Frame
  BY <1>1 DEF Frame
<1>8. \A c \in Nat, n \in 0..kLowlinkInf : [Top EXCEPT !.ci = c, !.low = n] \in Frame
  BY <1>1 DEF Frame
<1>9. \A a, c \in Nat, n \in 0..kLowlinkInf, x \in BOOLEAN :
         [Top EXCEPT !.ai = a, !.ci = c, !.nlow = n, !.indet = x] \in Frame
  BY <1>1, Zenon DEF Frame
<1> QED
  BY <1>2, <1>4, <1>5, <1>6, <1>7, <1>8, <1>9

LEMMA SkipInductive ==
    ASSUME TypeOK, Linked,
           SkipBanned \/ \E r \in Expansions : ExpandConceded(r)
    PROVE  /\ TypeOK' /\ Linked' /\ EdgesGrow /\ SameBelow
           /\ Top' = [Top EXCEPT !.ai = Top.ai + 1]
<1>1. stack # <<>> /\ pc = "loop" /\ Top.ai <= Len(LegalActions[Top.b])
  BY DEF SkipBanned, ExpandConceded, EdgeExpand, Linked
<1>2. CacheOK' /\ EdgesGrow
  <2>1. CASE SkipBanned
    BY <2>1 DEF SkipBanned, TypeOK, CacheOK, EdgesGrow
  <2>2. ASSUME NEW r \in Expansions, ExpandConceded(r) PROVE CacheOK' /\ EdgesGrow
    BY <2>2, EdgeExpandFacts DEF ExpandConceded
  <2> QED
    BY <2>1, <2>2
<1> DEFINE f == [Top EXCEPT !.ai = Top.ai + 1]
<1>3. /\ stack' = SetTop(f)
      /\ UNCHANGED <<callVars, searchVars, result, pc, arg, ret>>
  BY DEF SkipBanned, ExpandConceded, EdgeExpand, NextAction
<1>4. f \in Frame
  BY <1>1, FrameUpdateFacts
<1>5. f.b = Top.b /\ f.ai = Top.ai + 1 /\ f.ci = Top.ci
  BY <1>1, TopFacts DEF Frame
<1>6. f.ai >= 1 /\ f.ai <= Len(LegalActions[f.b]) + 1
  BY <1>1, <1>5, TopFacts
<1> HIDE DEF f
<1>7. TypeOK'
  BY <1>1, <1>2, <1>3, <1>4, <1>5, <1>6, SetTopType DEF TypeOK, Linked
<1>8. StackLinked' /\ stack' # <<>> /\ Top' = f /\ SameBelow
  BY <1>1, <1>2, <1>3, <1>4, <1>5, SetTopLinked DEF callVars, Linked, SameBelow
<1>9. Linked'
  BY <1>1, <1>3, <1>5, <1>8 DEF Linked
<1> QED
  BY <1>2, <1>7, <1>8, <1>9 DEF f

LEMMA ExpandChildrenInductive ==
    ASSUME TypeOK, Linked, NEW r \in Expansions, ExpandChildren(r)
    PROVE  /\ TypeOK' /\ Linked' /\ EdgesGrow /\ SameBelow
           /\ Top' = [Top EXCEPT !.ci = 1, !.low = kLowlinkInf]
<1>1. stack # <<>> /\ pc = "loop" /\ Top.ai <= Len(LegalActions[Top.b])
  BY DEF ExpandChildren, EdgeExpand, Linked
<1>2. /\ CacheOK' /\ EdgesGrow /\ TopEdge \in DOMAIN edges' /\ edges'[TopEdge] = r
      /\ Top.ai \in 1..Len(LegalActions[Top.b])
  BY EdgeExpandFacts DEF ExpandChildren
<1> DEFINE f == [Top EXCEPT !.ci = 1, !.low = kLowlinkInf]
<1>3. /\ stack' = SetTop(f)
      /\ UNCHANGED <<callVars, searchVars, result, ret>>
      /\ pc' = "call" /\ arg' = r.children[1]
  BY DEF ExpandChildren, EdgeExpand
<1>4. f \in Frame
  BY <1>1, FrameUpdateFacts
<1>5. f.b = Top.b /\ f.ai = Top.ai /\ f.ci = 1
  BY <1>1, TopFacts DEF Frame
<1>6. f.ai >= 1 /\ f.ai <= Len(LegalActions[f.b]) + 1
  BY <1>1, <1>2, <1>5, TopFacts
<1>7. r.children \in Seq(Bucket) /\ Len(r.children) > 0 /\ r.kind = "children"
  BY WinSolverAssumption DEF ExpandChildren, ExpandResult
<1>8. arg' \in Bucket
  BY <1>3, <1>7
<1> HIDE DEF f
<1>9. TypeOK'
  BY <1>1, <1>2, <1>3, <1>4, <1>5, <1>6, <1>8, SetTopType DEF TypeOK, Linked
<1>10. StackLinked' /\ stack' # <<>> /\ Top' = f /\ SameBelow
  BY <1>1, <1>2, <1>3, <1>4, <1>5, SetTopLinked DEF callVars, Linked, SameBelow
<1>11. FrameEdge(Top)' = TopEdge /\ FrameAction(Top)' = TopAction
  BY <1>3, <1>5, <1>10 DEF FrameEdge, FrameAction, TopEdge, TopAction, EdgeKey, callVars
<1>12. FrameChildren(Top)' = r.children
  BY <1>2, <1>11 DEF FrameChildren
<1>13. Expanding(Top)'
  <2>1. TopAction \notin Banned[question]
    BY DEF ExpandChildren, EdgeExpand
  <2>2. Len(FrameChildren(Top)') \in Nat /\ Len(FrameChildren(Top)') > 0
    BY <1>7, <1>12
  <2>3. Top'.ai \in 1..Len(LegalActions[Top'.b]) /\ Top'.ci = 1
    BY <1>2, <1>5, <1>10
  <2>4. edges'[FrameEdge(Top)'].kind = "children" /\ FrameEdge(Top)' \in DOMAIN edges'
    BY <1>2, <1>7, <1>11
  <2> QED
    BY <1>3, <1>11, <2>1, <2>2, <2>3, <2>4 DEF Expanding, callVars
<1>14. Linked'
  BY <1>1, <1>3, <1>5, <1>10, <1>12, <1>13 DEF Linked, Current
<1> QED
  BY <1>2, <1>9, <1>10, <1>14 DEF f

\* The top frame while and_over_children runs.
LEMMA AndFacts ==
    ASSUME TypeOK, Linked, pc = "ret", Len(stack) > 0
    PROVE  /\ stack # <<>> /\ Top \in Frame /\ Expanding(Top)
           /\ TopEdge = FrameEdge(Top) /\ TopAction = FrameAction(Top)
           /\ TopChildren = FrameChildren(Top) /\ TopChildren \in Seq(Bucket)
           /\ TopAction \in Action
           /\ Top.ai \in 1..Len(LegalActions[Top.b])
           /\ Top.ci \in 1..Len(TopChildren)
<1>1. stack # <<>>
  BY DEF TypeOK, StackOK
<1>2. Top \in Frame /\ Expanding(Top)
  BY <1>1, TopFacts DEF Linked
<1>3. TopAction = FrameAction(Top)
  BY DEF TopAction, FrameAction
<1>4. TopEdge = FrameEdge(Top)
  BY <1>3 DEF TopEdge, FrameEdge
<1>5. TopChildren = FrameChildren(Top)
  BY <1>4 DEF TopChildren, FrameChildren
<1> QED
  BY <1>1, <1>2, <1>3, <1>4, <1>5, ExpandingFacts DEF Expanding

LEMMA AndNextChildInductive ==
    ASSUME TypeOK, Linked, AndNextChild
    PROVE  /\ TypeOK' /\ Linked' /\ EdgesGrow /\ SameBelow
           /\ Top' = [Top EXCEPT !.ci = Top.ci + 1, !.low = AndLow]
<1>1. /\ stack # <<>> /\ Top \in Frame /\ Expanding(Top)
      /\ TopChildren = FrameChildren(Top) /\ TopChildren \in Seq(Bucket)
      /\ Top.ai \in 1..Len(LegalActions[Top.b])
      /\ Top.ci \in 1..Len(TopChildren)
  BY AndFacts DEF AndNextChild
<1> DEFINE f == [Top EXCEPT !.ci = Top.ci + 1, !.low = AndLow]
<1>2. /\ stack' = SetTop(f)
      /\ UNCHANGED <<edges, callVars, searchVars, result, ret>>
      /\ pc' = "call" /\ arg' = TopChildren[Top.ci + 1] /\ Top.ci < Len(TopChildren)
  BY DEF AndNextChild
<1>3. CacheOK' /\ EdgesGrow
  BY <1>2 DEF TypeOK, CacheOK, EdgesGrow
<1>4. f \in Frame
  BY <1>1, FrameUpdateFacts
<1>5. f.b = Top.b /\ f.ai = Top.ai /\ f.ci = Top.ci + 1
  BY <1>1 DEF Frame
<1>6. f.ai >= 1 /\ f.ai <= Len(LegalActions[f.b]) + 1
  BY <1>1, <1>5, TopFacts
<1>7. Top.ci + 1 \in 1..Len(TopChildren) /\ arg' \in Bucket
  BY <1>1, <1>2
<1> HIDE DEF f
<1>8. TypeOK'
  BY <1>1, <1>2, <1>3, <1>4, <1>5, <1>6, <1>7, SetTopType DEF TypeOK, Linked
<1>9. StackLinked' /\ stack' # <<>> /\ Top' = f /\ SameBelow
  BY <1>1, <1>2, <1>3, <1>4, <1>5, SetTopLinked DEF callVars, Linked, SameBelow
<1>10. FrameEdge(Top)' = FrameEdge(Top) /\ FrameAction(Top)' = FrameAction(Top)
  BY <1>2, <1>5, <1>9 DEF FrameEdge, FrameAction, EdgeKey, callVars
<1>11. FrameChildren(Top)' = TopChildren
  BY <1>1, <1>2, <1>10 DEF FrameChildren
<1>12. Expanding(Top)'
  BY <1>1, <1>2, <1>5, <1>7, <1>9, <1>10, <1>11 DEF Expanding, callVars
<1>13. Linked'
  BY <1>1, <1>2, <1>5, <1>9, <1>11, <1>12 DEF AndNextChild, Linked, Current
<1> QED
  BY <1>3, <1>8, <1>9, <1>13 DEF f

LEMMA AndNotWinInductive ==
    ASSUME TypeOK, Linked, AndNotWin
    PROVE  /\ TypeOK' /\ Linked' /\ EdgesGrow /\ SameBelow
           /\ Top' = [Top EXCEPT !.ai = Top.ai + 1, !.ci = 0, !.nlow = MinOf(Top.nlow, AndLow),
                                 !.indet = Top.indet \/ ret.v = "INDET"]
<1>1. /\ stack # <<>> /\ Top \in Frame
      /\ Top.ai \in 1..Len(LegalActions[Top.b])
  BY AndFacts DEF AndNotWin
<1> DEFINE f == [Top EXCEPT !.ai = Top.ai + 1, !.ci = 0, !.nlow = MinOf(Top.nlow, AndLow),
                            !.indet = Top.indet \/ ret.v = "INDET"]
<1>2. /\ stack' = SetTop(f)
      /\ UNCHANGED <<edges, callVars, searchVars, result, ret, arg>>
      /\ pc' = "loop"
  BY DEF AndNotWin
<1>3. CacheOK' /\ EdgesGrow
  BY <1>2 DEF TypeOK, CacheOK, EdgesGrow
<1>4. f \in Frame
  <2>1. (Top.indet \/ ret.v = "INDET") \in BOOLEAN
    OBVIOUS
  <2> QED
    BY <1>1, <2>1, FrameUpdateFacts
<1>5. f.b = Top.b /\ f.ai = Top.ai + 1 /\ f.ci = 0
  BY <1>1 DEF Frame
<1>6. f.ai >= 1 /\ f.ai <= Len(LegalActions[f.b]) + 1
  BY <1>1, <1>5, TopFacts
<1> HIDE DEF f
<1>7. TypeOK'
  BY <1>1, <1>2, <1>3, <1>4, <1>5, <1>6, SetTopType DEF TypeOK, Linked
<1>8. StackLinked' /\ stack' # <<>> /\ Top' = f /\ SameBelow
  BY <1>1, <1>2, <1>3, <1>4, <1>5, SetTopLinked DEF callVars, Linked, SameBelow
<1>9. Linked'
  BY <1>1, <1>2, <1>5, <1>8 DEF AndNotWin, Linked
<1> QED
  BY <1>3, <1>7, <1>8, <1>9 DEF f

\* A step that returns from the top frame.
LEMMA PopInductive ==
    ASSUME TypeOK, Linked, stack # <<>>, pc # "idle",
           stack' = Pop, UNCHANGED <<edges, callVars, arg, result>>,
           pc' = "ret", ret' \in DfsResults, SearchOK'
    PROVE  TypeOK' /\ Linked'
<1> USE DEF callVars
<1>1. /\ StackLinked' /\ stack' \in Seq(Frame) /\ Len(stack') = Len(stack) - 1
      /\ \A i \in 1..(Len(stack) - 1) : stack'[i] = stack[i]
      /\ stack' # <<>> => Expanding(Top)'
  BY PopLinked DEF Linked
<1>2. Len(stack) \in Nat
  BY TopFacts
<1>3. CacheOK' /\ CallOK'
  BY DEF TypeOK, CacheOK, CallOK
<1>4. \A i \in 1..Len(stack') : FrameOK(stack[i])'
  BY <1>1, <1>2 DEF TypeOK, StackOK, FrameOK, Terminal
<1>5. StackOK'
  BY <1>1, <1>2, <1>4, WinSolverAssumption DEF TypeOK, StackOK
<1>6. TypeOK'
  BY <1>3, <1>5 DEF TypeOK
<1>7. Linked'
  BY <1>1 DEF Linked
<1> QED
  BY <1>6, <1>7

\* Storing a verdict keeps the memo a function from buckets to Booleans.
LEMMA StoreMemoFacts ==
    ASSUME SearchOK, NEW b \in Bucket, NEW v \in BOOLEAN, StoreMemo(b, v)
    PROVE  /\ DOMAIN memo' \subseteq Bucket
           /\ \A k \in DOMAIN memo' : memo'[k] \in BOOLEAN
           /\ EnableVerdictMemo => DOMAIN memo' = DOMAIN memo \union {b} /\ memo'[b] = v
           /\ ~EnableVerdictMemo => memo' = memo
           /\ \A k \in DOMAIN memo' : k # b => k \in DOMAIN memo /\ memo'[k] = memo[k]
<1>1. CASE EnableVerdictMemo
  <2>1. memo' = [k \in DOMAIN memo \union {b} |-> IF k = b THEN v ELSE memo[k]]
    BY <1>1 DEF StoreMemo
  <2>2. DOMAIN memo' = DOMAIN memo \union {b}
    BY <2>1
  <2>3. \A k \in DOMAIN memo' : memo'[k] = IF k = b THEN v ELSE memo[k]
    BY <2>1
  <2>4. \A k \in DOMAIN memo' : memo'[k] \in BOOLEAN
    BY <2>2, <2>3, Zenon DEF SearchOK
  <2> QED
    BY <1>1, <2>2, <2>3, <2>4 DEF SearchOK
<1>2. CASE ~EnableVerdictMemo
  BY <1>2, Zenon DEF StoreMemo, SearchOK
<1> QED
  BY <1>1, <1>2

LEMMA DecideWinInductive ==
    ASSUME TypeOK, Linked, DecideWin
    PROVE  /\ TypeOK' /\ Linked'
           /\ DOMAIN policy' = DOMAIN policy \union {Top.b}
           /\ policy'[Top.b] = TopAction
           /\ \A k \in DOMAIN policy : k # Top.b => policy'[k] = policy[k]
<1>1. stack # <<>> /\ Top \in Frame /\ Top.b \in Bucket /\ TopAction \in Action
  BY AndFacts, TopFacts DEF DecideWin
<1>2. policy' = [k \in DOMAIN policy \union {Top.b} |->
                   IF k = Top.b THEN TopAction ELSE policy[k]]
  BY DEF DecideWin
<1>3. /\ DOMAIN policy' = DOMAIN policy \union {Top.b}
      /\ policy'[Top.b] = TopAction
      /\ \A k \in DOMAIN policy : k # Top.b => policy'[k] = policy[k]
  <2> HIDE DEF Top, TopAction
  <2> QED
    BY <1>2
<1>4. \A k \in DOMAIN policy' : policy'[k] \in Action
  BY <1>1, <1>3 DEF TypeOK, SearchOK
<1>5. SearchOK
  BY DEF TypeOK
<1>6. DOMAIN memo' \subseteq Bucket /\ \A k \in DOMAIN memo' : memo'[k] \in BOOLEAN
  BY <1>1, <1>5, StoreMemoFacts DEF DecideWin
<1>7. SearchOK'
  BY <1>1, <1>3, <1>4, <1>5, <1>6 DEF DecideWin, SearchOK
<1>8. ret' \in DfsResults
  BY WinSolverAssumption DEF DecideWin, Return, DfsResult, DfsResults, Verdict, kLowlinkInf
<1>9. TypeOK' /\ Linked'
  BY <1>1, <1>7, <1>8, PopInductive DEF DecideWin, Return
<1> QED
  BY <1>3, <1>9

LEMMA DecideOtherInductive ==
    ASSUME TypeOK, Linked, DecideIndet \/ DecideFail
    PROVE  TypeOK' /\ Linked'
<1>1. stack # <<>> /\ pc = "loop"
  BY DEF DecideIndet, DecideFail, Exhausted, Linked
<1>2. Top \in Frame /\ Top.b \in Bucket /\ Top.nlow \in 0..kLowlinkInf
  BY <1>1, TopFacts DEF Frame
<1>3. ret' \in DfsResults
  <2>1. \A v \in Verdict, n \in 0..kLowlinkInf : DfsResult(v, n) \in DfsResults
    BY DEF DfsResult, DfsResults
  <2>2. ret' = DfsResult("INDET", Top.nlow) \/ ret' = DfsResult("FAIL", Top.nlow)
    BY DEF DecideIndet, DecideFail, Return
  <2>3. "INDET" \in Verdict /\ "FAIL" \in Verdict
    BY DEF Verdict
  <2> QED
    BY <1>2, <2>1, <2>2, <2>3
<1>4. SearchOK'
  <2>0. SearchOK
    BY DEF TypeOK
  <2>1. DOMAIN memo' \subseteq Bucket /\ \A k \in DOMAIN memo' : memo'[k] \in BOOLEAN
    <3>1. CASE StoreMemo(Top.b, FALSE)
      <4>1. FALSE \in BOOLEAN
        OBVIOUS
      <4> QED
        BY <1>2, <2>0, <3>1, <4>1, StoreMemoFacts
    <3>2. CASE UNCHANGED memo
      BY <2>0, <3>2, Zenon DEF SearchOK
    <3> QED
      BY <3>1, <3>2 DEF DecideIndet, DecideFail, searchVars
  <2>2. UNCHANGED <<policy, visited, capHit, reason>>
    BY DEF DecideIndet, DecideFail, searchVars
  <2> QED
    BY <2>0, <2>1, <2>2 DEF SearchOK
<1> QED
  BY <1>1, <1>3, <1>4, PopInductive DEF DecideIndet, DecideFail, Return

LEMMA ExpandThrowsInductive ==
    ASSUME TypeOK, Linked, NEW r \in Expansions, ExpandThrows(r)
    PROVE  TypeOK' /\ Linked' /\ EdgesGrow
<1>1. CacheOK' /\ EdgesGrow
  BY EdgeExpandFacts DEF ExpandThrows
<1>2. /\ stack' = <<>> /\ pc' = "idle" /\ result' = "exception"
      /\ UNCHANGED <<callVars, ret, searchVars, arg>>
  BY DEF ExpandThrows, EdgeExpand
<1>3. StackOK'
  BY <1>2, WinSolverAssumption DEF StackOK
<1>4. CallOK' /\ SearchOK'
  BY <1>2 DEF TypeOK, CallOK, SearchOK, callVars, searchVars
<1>5. TypeOK'
  BY <1>1, <1>2, <1>3, <1>4 DEF TypeOK
<1>6. Linked'
  BY <1>2 DEF Linked, StackLinked
<1> QED
  BY <1>1, <1>5, <1>6

LEMMA JoinInductive ==
    ASSUME TypeOK, Linked, Join
    PROVE  TypeOK' /\ Linked'
<1>1. result' \in Verdict
  BY DEF Join, TypeOK, DfsResults
<1> USE DEF Join, TypeOK, callVars, searchVars
<1>2. TypeOK'
  <2>1. CacheOK' /\ CallOK'
    BY <1>1 DEF CacheOK, CallOK
  <2>2. StackOK'
    BY DEF StackOK, FrameOK, Terminal
  <2>3. SearchOK'
    BY DEF SearchOK
  <2> QED
    BY <2>1, <2>2, <2>3
<1>3. Linked'
  BY DEF Join, Linked, StackLinked, callVars
<1> QED
  BY <1>2, <1>3

LEMMA StutterInductive ==
    ASSUME TypeOK, Linked, UNCHANGED vars
    PROVE  TypeOK' /\ Linked'
<1>1. TypeOK'
  BY DEF vars, TypeOK, CacheOK, CallOK, StackOK, SearchOK, FrameOK, Terminal
<1>2. Linked'
  BY DEF vars, Linked, StackLinked, Expanding, FrameChildren, FrameEdge, FrameAction, EdgeKey,
         Top, Current
<1> QED
  BY <1>1, <1>2

LEMMA LinkedStep == TypeOK /\ Linked /\ [Next]_vars => TypeOK' /\ Linked'
<1> SUFFICES ASSUME TypeOK, Linked, [Next]_vars PROVE TypeOK' /\ Linked'
  OBVIOUS
<1>1. CASE \E q \in Question, b \in Bucket : CertifyTerminalRoot(q, b) \/ Certify(q, b)
  BY <1>1, NewCallInductive
<1>2. CASE DfsNext
  BY <1>2, VisitReturnInductive, VisitPushInductive, SkipInductive, ExpandChildrenInductive,
     ExpandThrowsInductive, AndNextChildInductive, AndNotWinInductive, DecideWinInductive,
     DecideOtherInductive
  DEF DfsNext
<1>3. CASE Join
  BY <1>3, JoinInductive
<1>4. CASE UNCHANGED vars
  BY <1>4, StutterInductive
<1> QED
  BY <1>1, <1>2, <1>3, <1>4 DEF Next

\* TypeOK holds for every instance: the explicit stack of the search, the memo,
\* the policy and the shared edge cache keep their shape, and the stack never
\* passes the depth cap nor holds a terminal bucket.
THEOREM TypeCorrect == Spec => []TypeOK
<1>1. Spec => [](TypeOK /\ Linked)
  BY TypeInit, LinkedStep, PTL DEF Spec
<1> QED
  BY <1>1, PTL

-----------------------------------------------------------------------------
(* IndetExplained: every INDET has a cap behind it.                         *)

\* The first reason stays.
LEMMA ReasonKept ==
    ASSUME TypeOK, Linked, IndetInv, DfsNext \/ Join
    PROVE  /\ reason # "None" => reason' # "None"
           /\ (reason = "VisitCap" => capHit)' /\ (capHit => visited > VisitCap)'
           /\ (capHit => reason # "None")'
<1>1. CASE VisitTerminal \/ VisitMemo \/ VisitOnStack \/ VisitPush
  <2>1. UNCHANGED <<reason, capHit>> /\ visited' = visited + 1 /\ visited \in Nat
    BY <1>1 DEF VisitTerminal, VisitMemo, VisitOnStack, VisitPush, Visit, TypeOK, SearchOK
  <2> QED
    BY <2>1, WinSolverAssumption DEF IndetInv, IndetExplained
<1>2. CASE VisitDepthCap
  <2>1. /\ capHit' = capHit /\ visited' = visited + 1 /\ visited \in Nat
        /\ reason' = FirstReason("DepthCap")
    BY <1>2 DEF VisitDepthCap, Visit, TypeOK, SearchOK
  <2> QED
    BY <2>1, WinSolverAssumption DEF IndetInv, IndetExplained, FirstReason
<1>3. CASE VisitVisitCap
  <2>1. /\ capHit' = TRUE /\ visited' = visited + 1 /\ visited \in Nat
        /\ reason' = FirstReason("VisitCap") /\ (capHit \/ visited + 1 > VisitCap)
    BY <1>3 DEF VisitVisitCap, Visit, TypeOK, SearchOK, OverVisitCap
  <2> QED
    BY <2>1, WinSolverAssumption DEF IndetInv, IndetExplained, FirstReason
<1>4. CASE \/ SkipBanned \/ AndNextChild \/ AndNotWin \/ DecideWin \/ DecideIndet \/ DecideFail
           \/ Join \/ \E r \in Expansions : ExpandConceded(r) \/ ExpandChildren(r) \/ ExpandThrows(r)
  <2>1. UNCHANGED <<reason, capHit, visited>>
    BY <1>4 DEF SkipBanned, AndNextChild, AndNotWin, DecideWin, DecideIndet, DecideFail, Join,
       ExpandConceded, ExpandChildren, ExpandThrows, EdgeExpand, searchVars
  <2> QED
    BY <2>1 DEF IndetInv, IndetExplained
<1> QED
  BY <1>1, <1>2, <1>3, <1>4 DEF DfsNext

LEMMA IndetVisit ==
    ASSUME TypeOK, Linked, IndetInv,
           VisitTerminal \/ VisitMemo \/ VisitDepthCap \/ VisitOnStack \/ VisitVisitCap
    PROVE  IndetInv'
<1> USE DEF VisitTerminal, VisitMemo, VisitDepthCap, VisitOnStack, VisitVisitCap, Visit, Return
<1>1. UNCHANGED <<stack, result>> /\ pc' = "ret"
  OBVIOUS
<1>2. ret'.v = "INDET" => reason' # "None"
  BY DEF DfsResult, FirstReason
<1>3. /\ reason # "None" => reason' # "None"
      /\ (reason = "VisitCap" => capHit)' /\ (capHit => visited > VisitCap)'
      /\ (capHit => reason # "None")'
  BY ReasonKept DEF DfsNext
<1> QED
  BY <1>1, <1>2, <1>3 DEF IndetInv, IndetExplained

LEMMA IndetPush ==
    ASSUME TypeOK, Linked, IndetInv, VisitPush
    PROVE  IndetInv'
<1>1. UNCHANGED <<reason, result>> /\ pc' = "loop" /\ stack' = Append(stack, NewFrame(arg))
  BY DEF VisitPush, Visit
<1>2. stack \in Seq(Frame) /\ Len(stack) \in Nat /\ NewFrame(arg) \in Frame
  BY NewFrameFacts DEF TypeOK, StackOK
<1>3. /\ Len(stack') = Len(stack) + 1 /\ stack'[Len(stack) + 1] = NewFrame(arg)
      /\ \A i \in 1..Len(stack) : stack'[i] = stack[i]
  BY <1>1, <1>2, PushFacts
<1>4. ~NewFrame(arg).indet
  BY DEF NewFrame
<1>5. \A i \in 1..Len(stack') : stack'[i].indet => reason' # "None"
  BY <1>1, <1>2, <1>3, <1>4 DEF IndetInv
<1> QED
  BY <1>1, <1>5, ReasonKept DEF IndetInv, IndetExplained, DfsNext

\* Only the top frame changes, and keeps any_indet but after an INDET child.
LEMMA IndetSetTop ==
    ASSUME TypeOK, Linked, IndetInv, SameBelow, DfsNext, UNCHANGED <<reason, result>>, pc' # "ret",
           Top'.indet => reason # "None"
    PROVE  IndetInv'
<1>1. Len(stack) \in Nat
  BY DEF TypeOK, StackOK
<1>2. ASSUME NEW i \in 1..Len(stack') PROVE stack'[i].indet => reason' # "None"
  BY <1>1 DEF SameBelow, Top, IndetInv
<1> QED
  BY <1>2, ReasonKept DEF IndetInv, IndetExplained

LEMMA IndetLoops ==
    ASSUME TypeOK, Linked, IndetInv,
           \/ SkipBanned \/ \E r \in Expansions : ExpandConceded(r) \/ ExpandChildren(r)
           \/ AndNextChild \/ AndNotWin
    PROVE  IndetInv'
<1>1. DfsNext
  BY DEF DfsNext
<1>2. UNCHANGED <<reason, result>> /\ pc' # "ret" /\ stack # <<>>
  BY DEF SkipBanned, ExpandConceded, ExpandChildren, EdgeExpand, AndNextChild, AndNotWin,
         searchVars, Linked, TypeOK, StackOK
<1>3. Top \in Frame /\ (Top.indet => reason # "None")
  BY <1>2, TopFacts DEF Top, IndetInv
<1>4. CASE SkipBanned \/ \E r \in Expansions : ExpandConceded(r)
  BY <1>1, <1>2, <1>3, <1>4, SkipInductive, IndetSetTop DEF Frame
<1>5. CASE \E r \in Expansions : ExpandChildren(r)
  BY <1>1, <1>2, <1>3, <1>5, ExpandChildrenInductive, IndetSetTop DEF Frame
<1>6. CASE AndNextChild
  BY <1>1, <1>2, <1>3, <1>6, AndNextChildInductive, IndetSetTop DEF Frame
<1>7. CASE AndNotWin
  <2>1. ret.v = "INDET" => reason # "None"
    BY <1>7 DEF AndNotWin, IndetInv
  <2>2. /\ SameBelow
        /\ Top' = [Top EXCEPT !.ai = Top.ai + 1, !.ci = 0, !.nlow = MinOf(Top.nlow, AndLow),
                              !.indet = Top.indet \/ ret.v = "INDET"]
    BY <1>7, AndNotWinInductive
  <2>3. Top'.indet = (Top.indet \/ ret.v = "INDET")
    BY <1>3, <2>2 DEF Frame
  <2> QED
    BY <1>1, <1>2, <1>3, <2>1, <2>2, <2>3, IndetSetTop
<1> QED
  BY <1>4, <1>5, <1>6, <1>7

LEMMA IndetDecide ==
    ASSUME TypeOK, Linked, IndetInv, DecideWin \/ DecideIndet \/ DecideFail
    PROVE  IndetInv'
<1>1. UNCHANGED <<reason, result>> /\ stack' = Pop /\ DfsNext /\ stack # <<>>
  <2>1. UNCHANGED <<reason, result>> /\ stack' = Pop
    BY DEF DecideWin, DecideIndet, DecideFail, searchVars
  <2>2. stack # <<>>
    BY AndFacts DEF DecideWin, DecideIndet, DecideFail, Exhausted, Linked
  <2> QED
    BY <2>1, <2>2 DEF DfsNext
<1>2. /\ Len(Pop) = Len(stack) - 1 /\ Len(stack) \in Nat
      /\ \A i \in 1..(Len(stack) - 1) : Pop[i] = stack[i]
  BY <1>1, PopFacts DEF TypeOK, StackOK
<1>3. \A i \in 1..Len(stack') : stack'[i].indet => reason' # "None"
  BY <1>1, <1>2 DEF IndetInv
<1>4. ret'.v = "INDET" => reason' # "None"
  <2>1. CASE DecideIndet
    <3>1. Top.indet /\ Len(stack) \in 1..Len(stack)
      BY <1>1, <2>1, TopFacts DEF DecideIndet
    <3> QED
      BY <1>1, <3>1 DEF Top, IndetInv
  <2>2. CASE DecideWin \/ DecideFail
    <3>1. ret' = DfsResult("WIN", kLowlinkInf) \/ ret' = DfsResult("FAIL", Top.nlow)
      BY <2>2 DEF DecideWin, DecideFail, Return
    <3> QED
      BY <3>1 DEF DfsResult
  <2> QED
    BY <1>1, <2>1, <2>2
<1> QED
  BY <1>1, <1>3, <1>4, ReasonKept DEF IndetInv, IndetExplained

LEMMA IndetInvInit == Init => IndetInv
BY DEF Init, IndetInv, IndetExplained, NoResult

LEMMA IndetInvStep == TypeOK /\ Linked /\ IndetInv /\ [Next]_vars => IndetInv'
<1> SUFFICES ASSUME TypeOK, Linked, IndetInv, [Next]_vars PROVE IndetInv'
  OBVIOUS
<1>1. CASE \E q \in Question, b \in Bucket : CertifyTerminalRoot(q, b) \/ Certify(q, b)
  <2>1. /\ stack' = <<>> /\ capHit' = FALSE /\ reason' = "None" /\ pc' # "ret"
        /\ result' # "INDET"
    BY <1>1 DEF CertifyTerminalRoot, Certify, NewCall, NoResult
  <2>2. Len(stack') = 0
    BY <2>1
  <2> QED
    BY <2>1, <2>2 DEF IndetInv, IndetExplained
<1>2. ASSUME NEW r \in Expansions, ExpandThrows(r) PROVE IndetInv'
  <2>1. /\ stack' = <<>> /\ result' = "exception" /\ pc' = "idle" /\ DfsNext
    BY <1>2 DEF ExpandThrows, DfsNext
  <2>2. Len(stack') = 0
    BY <2>1
  <2> QED
    BY <2>1, <2>2, ReasonKept DEF IndetInv, IndetExplained
<1>3. CASE Join
  <2>1. /\ stack' = stack /\ result' = ret.v /\ pc' = "idle" /\ pc = "ret" /\ reason' = reason
    BY <1>3 DEF Join, searchVars
  <2> QED
    BY <1>3, <2>1, ReasonKept DEF IndetInv, IndetExplained
<1>4. CASE UNCHANGED vars
  BY <1>4 DEF vars, IndetInv, IndetExplained
<1> QED
  BY <1>1, <1>2, <1>3, <1>4, IndetVisit, IndetPush, IndetLoops, IndetDecide DEF Next, DfsNext

\* An INDET of bucket_win_certify has a cap behind it: first_reason names one,
\* and the visit cap it may name was really passed.
THEOREM IndetHasReason == Spec => []IndetExplained
<1>1. Spec => [](TypeOK /\ Linked /\ IndetInv)
  BY TypeInit, LinkedStep, IndetInvInit, IndetInvStep, PTL DEF Spec
<1>2. IndetInv => IndetExplained
  BY DEF IndetInv
<1> QED
  BY <1>1, <1>2, PTL
=============================================================================
