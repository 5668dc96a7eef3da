--------------------------- MODULE BsolverProofs ---------------------------
(***************************************************************************)
(* Proofs about the point certifier for every game, oracle, mode and cap.  *)
(***************************************************************************)
EXTENDS Bsolver, WellFoundedInduction, TLAPS

-----------------------------------------------------------------------------
(* The stack of activations.                                                *)

\* Replacing the top frame keeps every other frame.
LEMMA SetTopFacts ==
    ASSUME stack \in Seq(Frame), stack # <<>>, NEW f \in Frame
    PROVE  /\ SetTop(f) \in Seq(Frame)
           /\ Len(SetTop(f)) = Len(stack)
           /\ SetTop(f) # <<>>
           /\ SetTop(f)[Len(stack)] = f
           /\ \A i \in 1..(Len(stack) - 1) : SetTop(f)[i] = stack[i]
BY DEF SetTop

\* Popping the top frame keeps every other frame.
LEMMA PopFacts ==
    ASSUME stack \in Seq(Frame), stack # <<>>
    PROVE  /\ Pop \in Seq(Frame)
           /\ Len(Pop) = Len(stack) - 1
           /\ \A i \in 1..(Len(stack) - 1) : Pop[i] = stack[i]
BY DEF Pop

\* Pushing a frame keeps every other frame.
LEMMA PushFacts ==
    ASSUME stack \in Seq(Frame), NEW f \in Frame
    PROVE  /\ Append(stack, f) \in Seq(Frame)
           /\ Len(Append(stack, f)) = Len(stack) + 1
           /\ Append(stack, f) # <<>>
           /\ Append(stack, f)[Len(stack) + 1] = f
           /\ \A i \in 1..Len(stack) : Append(stack, f)[i] = stack[i]
OBVIOUS

\* What TypeOK says of the frames.
LEMMA FrameFacts ==
    ASSUME TypeOK
    PROVE  /\ stack \in Seq(Frame) /\ Len(stack) \in Nat
           /\ \A i \in 1..Len(stack) : stack[i] \in Frame
           /\ \A f \in Frame : /\ f.s \in State /\ f.ai \in Nat /\ f.ci \in Nat
                               /\ f.prog \in BOOLEAN
                               /\ LegalActions[f.s] \in Seq(Action)
<1>1. stack \in Seq(Frame) /\ Len(stack) \in Nat
  BY DEF TypeOK
<1>2. \A i \in 1..Len(stack) : stack[i] \in Frame
  BY <1>1
<1>3. \A f \in Frame : f.s \in State /\ f.ai \in Nat /\ f.ci \in Nat /\ f.prog \in BOOLEAN
  BY DEF Frame
<1> QED
  BY <1>1, <1>2, <1>3, BsolverAssumption

LEMMA TopFacts ==
    ASSUME TypeOK, stack # <<>>
    PROVE  /\ Len(stack) \in Nat /\ Len(stack) >= 1 /\ Len(stack) \in 1..Len(stack)
           /\ Top = stack[Len(stack)] /\ Top \in Frame
           /\ Top.s \in State /\ Top.ai \in Nat /\ Top.ci \in Nat /\ Top.prog \in BOOLEAN
           /\ LegalActions[Top.s] \in Seq(Action)
<1>1. Len(stack) \in Nat /\ Len(stack) >= 1 /\ Len(stack) \in 1..Len(stack)
  BY DEF TypeOK
<1>2. Top = stack[Len(stack)] /\ Top \in Frame
  BY <1>1, FrameFacts DEF Top
<1> QED
  BY <1>1, <1>2, FrameFacts

\* Setting the locals of an activation.
LEMMA FrameUpdate ==
    ASSUME NEW t \in Frame
    PROVE  /\ LET f == [s |-> t.s, ai |-> t.ai + 1, ci |-> 0, prog |-> FALSE]
              IN  f \in Frame /\ f.s = t.s /\ f.ai = t.ai + 1 /\ f.ci = 0 /\ f.prog = FALSE
           /\ LET f == [t EXCEPT !.ci = t.ci + 1]
              IN  f \in Frame /\ f.s = t.s /\ f.ai = t.ai /\ f.ci = t.ci + 1 /\ f.prog = t.prog
           /\ LET f == [t EXCEPT !.ci = t.ci + 1, !.prog = TRUE]
              IN  f \in Frame /\ f.s = t.s /\ f.ai = t.ai /\ f.ci = t.ci + 1 /\ f.prog = TRUE
<1>2. LET f == [t EXCEPT !.ci = t.ci + 1]
      IN  f \in Frame /\ f.s = t.s /\ f.ai = t.ai /\ f.ci = t.ci + 1 /\ f.prog = t.prog
  BY DEF Frame
<1>3. ASSUME NEW c \in Nat, NEW p \in BOOLEAN
      PROVE  LET f == [t EXCEPT !.ci = c, !.prog = p]
             IN  f \in Frame /\ f.s = t.s /\ f.ai = t.ai /\ f.ci = c /\ f.prog = p
  BY DEF Frame
<1>4. TRUE \in BOOLEAN /\ FALSE \in BOOLEAN /\ 0 \in Nat /\ t.ai + 1 \in Nat /\ t.ci + 1 \in Nat
  BY DEF Frame
<1>5. LET f == [s |-> t.s, ai |-> t.ai + 1, ci |-> 0, prog |-> FALSE]
      IN  f \in Frame /\ f.s = t.s /\ f.ai = t.ai + 1 /\ f.ci = 0 /\ f.prog = FALSE
  <2> DEFINE x == t.ai + 1
  <2>1. x \in Nat /\ t.s \in State
    BY DEF Frame
  <2> HIDE DEF x
  <2>2. LET f == [s |-> t.s, ai |-> x, ci |-> 0, prog |-> FALSE]
        IN  f \in Frame /\ f.s = t.s /\ f.ai = x /\ f.ci = 0 /\ f.prog = FALSE
    BY <2>1 DEF Frame
  <2> QED
    BY <2>2 DEF x
<1>6. LET f == [t EXCEPT !.ci = t.ci + 1, !.prog = TRUE]
      IN  f \in Frame /\ f.s = t.s /\ f.ai = t.ai /\ f.ci = t.ci + 1 /\ f.prog = TRUE
  <2> DEFINE x == t.ci + 1
  <2>1. x \in Nat
    BY <1>4
  <2> HIDE DEF x
  <2>2. LET f == [t EXCEPT !.ci = x, !.prog = TRUE]
        IN  f \in Frame /\ f.s = t.s /\ f.ai = t.ai /\ f.ci = x /\ f.prog = TRUE
    BY <1>3, <1>4, <2>1, Zenon
  <2> QED
    BY <2>2 DEF x
<1> QED
  BY <1>2, <1>5, <1>6

\* An oracle result that is known.
LEMMA StepFacts ==
    ASSUME TypeOK, NEW k \in DOMAIN steps
    PROVE  /\ steps[k] \in Steps
           /\ steps[k].kept \in Seq(State) /\ steps[k].all \in SUBSET State
           /\ steps[k].complete \in BOOLEAN
           /\ Emitted(steps[k]) \subseteq steps[k].all
           /\ Len(steps[k].kept) \in Nat
           /\ \A i \in 1..Len(steps[k].kept) : steps[k].kept[i] \in Emitted(steps[k])
           /\ \A c \in Emitted(steps[k]) : \E i \in 1..Len(steps[k].kept) : c = steps[k].kept[i]
<1>1. steps[k] \in Steps
  BY DEF TypeOK
<1>2. steps[k] \in OracleStep /\ Emitted(steps[k]) \subseteq steps[k].all
  BY <1>1, BsolverAssumption
<1>3. steps[k].kept \in Seq(State) /\ steps[k].all \in SUBSET State /\ steps[k].complete \in BOOLEAN
  BY <1>2 DEF OracleStep
<1> DEFINE q == steps[k].kept
<1>4. q \in Seq(State) /\ DOMAIN q = 1..Len(q) /\ Len(q) \in Nat
  BY <1>3
<1> QED
  BY <1>1, <1>2, <1>3, <1>4 DEF Emitted

\* An activation inside oracle.step.
LEMMA InStepFacts ==
    ASSUME TypeOK, NEW f \in Frame, InStep(f)
    PROVE  /\ FrameAction(f) \in Allowed(f.s) /\ FrameAction(f) \in Action
           /\ FrameStep(f).kept \in Seq(State) /\ Len(FrameStep(f).kept) \in Nat
           /\ \A i \in 1..Len(FrameStep(f).kept) : FrameStep(f).kept[i] \in State
<1>1. f.s \in State /\ LegalActions[f.s] \in Seq(Action)
  BY FrameFacts
<1>2. FrameAction(f) \in Action /\ f.ai \in DOMAIN LegalActions[f.s]
  BY <1>1 DEF InStep, FrameAction
<1>3. FrameAction(f) \in Allowed(f.s)
  BY <1>1, <1>2 DEF InStep, FrameAction, Allowed
<1>4. FrameStep(f).kept \in Seq(State) /\ Len(FrameStep(f).kept) \in Nat
  BY StepFacts DEF InStep, FrameStep
<1> QED
  BY <1>2, <1>3, <1>4

-----------------------------------------------------------------------------
(* How a step changes the stack and the known steps.                        *)

\* The oracle results known so far stay what they are.
StepsGrow ==
    /\ DOMAIN steps \subseteq DOMAIN steps'
    /\ \A k \in DOMAIN steps : steps'[k] = steps[k]

\* Only the top frame changes, and it stays with its state.
SameBelow ==
    /\ stack' \in Seq(Frame) /\ stack' # <<>> /\ Len(stack') = Len(stack)
    /\ stack'[Len(stack)] = Top' /\ Top'.s = Top.s
    /\ \A i \in 1..(Len(stack) - 1) : stack'[i] = stack[i]

\* Replacing the top frame by one for the same state keeps the links below it.
LEMMA SetTopLinked ==
    ASSUME TypeOK, StackLinked, stack # <<>>, NEW f \in Frame, f.s = Top.s, stack' = SetTop(f),
           UNCHANGED root, StepsGrow
    PROVE  StackLinked' /\ SameBelow /\ Top' = f
<1>1. stack \in Seq(Frame) /\ Len(stack) \in Nat /\ Len(stack) >= 1
  BY TopFacts, FrameFacts
<1>2. /\ stack' \in Seq(Frame) /\ stack' # <<>> /\ Len(stack') = Len(stack)
      /\ stack'[Len(stack)] = f
      /\ \A i \in 1..(Len(stack) - 1) : stack'[i] = stack[i]
  BY <1>1, SetTopFacts
<1>3. \A i \in 1..Len(stack) : stack'[i].s = stack[i].s
  BY <1>1, <1>2 DEF Top
<1>4. stack'[1].s = root'
  BY <1>1, <1>3 DEF StackLinked
<1>5. ASSUME NEW i \in 1..(Len(stack') - 1)
      PROVE  (InChild(stack[i]) /\ FrameStep(stack[i]).kept[stack[i].ci] = stack[i + 1].s)'
  <2>1. stack'[i] = stack[i] /\ stack'[i + 1].s = stack[i + 1].s
    BY <1>1, <1>2, <1>3
  <2>2. InChild(stack[i]) /\ FrameStep(stack[i]).kept[stack[i].ci] = stack[i + 1].s
    BY <1>2 DEF StackLinked
  <2> QED
    BY <2>1, <2>2 DEF StepsGrow, InChild, InStep, FrameStep, FrameAction
<1>6. Top' = f
  BY <1>2 DEF Top
<1>7. StackLinked'
  BY <1>2, <1>4, <1>5 DEF StackLinked
<1> QED
  BY <1>2, <1>6, <1>7 DEF SameBelow

\* Popping the top frame leaves a frame that has recursed into it.
LEMMA PopLinked ==
    ASSUME TypeOK, StackLinked, stack # <<>>, stack' = Pop, UNCHANGED <<root, steps>>
    PROVE  /\ StackLinked'
           /\ stack' \in Seq(Frame) /\ Len(stack') = Len(stack) - 1
           /\ \A i \in 1..(Len(stack) - 1) : stack'[i] = stack[i]
           /\ stack' # <<>> => InChild(Top)' /\ Top' = stack[Len(stack) - 1] /\ Len(stack) > 1
           /\ Current' = Top.s
<1>1. stack \in Seq(Frame) /\ Len(stack) \in Nat /\ Len(stack) >= 1
  BY TopFacts, FrameFacts
<1>2. /\ stack' \in Seq(Frame) /\ Len(stack') = Len(stack) - 1
      /\ \A i \in 1..(Len(stack) - 1) : stack'[i] = stack[i]
  BY <1>1, PopFacts
<1>3. ASSUME NEW i \in 1..(Len(stack) - 1)
      PROVE  /\ InChild(stack[i])'
             /\ FrameStep(stack[i])'.kept[stack'[i].ci] = stack[i + 1].s
  <2>1. stack'[i] = stack[i]
    BY <1>2
  <2>2. InChild(stack[i]) /\ FrameStep(stack[i]).kept[stack[i].ci] = stack[i + 1].s
    BY DEF StackLinked
  <2> QED
    BY <2>1, <2>2 DEF InChild, InStep, FrameStep, FrameAction
<1>4. stack' # <<>> => stack'[1].s = root'
  BY <1>1, <1>2 DEF StackLinked
<1>5. StackLinked'
  <2>1. ASSUME NEW i \in 1..(Len(stack') - 1)
        PROVE  i \in 1..(Len(stack) - 1) /\ i + 1 \in 1..(Len(stack) - 1)
    BY <1>1, <1>2
  <2>2. ASSUME NEW i \in 1..(Len(stack') - 1)
        PROVE  (InChild(stack[i]) /\ FrameStep(stack[i]).kept[stack[i].ci] = stack[i + 1].s)'
    BY <1>2, <1>3, <2>1
  <2> QED
    BY <1>4, <2>2 DEF StackLinked
<1>6. CASE Len(stack) = 1
  BY <1>1, <1>2, <1>5, <1>6 DEF Current, StackLinked, Top
<1>7. CASE Len(stack) > 1
  <2>1. Len(stack) - 1 \in 1..(Len(stack) - 1) /\ stack' # <<>> /\ Len(stack) - 1 + 1 = Len(stack)
    BY <1>1, <1>2, <1>7
  <2>2. Top' = stack'[Len(stack) - 1]
    BY <1>2 DEF Top
  <2>3. InChild(Top)' /\ FrameStep(Top)'.kept[Top'.ci] = Top.s
    BY <1>2, <1>3, <2>1, <2>2 DEF Top
  <2> QED
    BY <1>2, <1>5, <1>7, <2>1, <2>2, <2>3 DEF Current
<1>8. \A n \in Nat : n >= 1 => n = 1 \/ n > 1
  OBVIOUS
<1> QED
  BY <1>1, <1>6, <1>7, <1>8

\* The states on the stack stay undecided when only the top frame changes.
LEMMA SameBelowUndecided ==
    ASSUME TypeOK, StackUndecided, stack # <<>>, SameBelow, UNCHANGED memo
    PROVE  StackUndecided'
<1>1. Len(stack') = Len(stack) /\ \A i \in 1..Len(stack) : stack'[i].s = stack[i].s
  BY TopFacts DEF SameBelow
<1> QED
  BY <1>1 DEF StackUndecided, Terminal

\* ... and when the top frame is decided and leaves the stack.
LEMMA PopUndecided ==
    ASSUME TypeOK, StackUndecided, stack # <<>>, NEW v,
           Len(stack') = Len(stack) - 1,
           \A i \in 1..(Len(stack) - 1) : stack'[i] = stack[i],
           memo' = Put(memo, Top.s, v)
    PROVE  StackUndecided'
<1>1. DOMAIN memo' = DOMAIN memo \union {Top.s}
  BY DEF Put
<1>2. Len(stack) \in 1..Len(stack) /\ Top.s = stack[Len(stack)].s /\ Len(stack) \in Nat
  BY TopFacts
<1>3. \A i \in 1..(Len(stack) - 1) : i \in 1..Len(stack) /\ i # Len(stack)
  BY <1>2
<1>4. \A i \in 1..(Len(stack) - 1) : stack[i].s # Top.s
  BY <1>2, <1>3 DEF StackUndecided
<1> QED
  BY <1>1, <1>2, <1>3, <1>4 DEF StackUndecided, Terminal

\* Recording a decision.
LEMMA PutFacts ==
    ASSUME NEW g, NEW k, NEW v
    PROVE  /\ DOMAIN Put(g, k, v) = DOMAIN g \union {k}
           /\ Put(g, k, v)[k] = v
           /\ \A x \in DOMAIN g : x # k => Put(g, k, v)[x] = g[x]
BY DEF Put

-----------------------------------------------------------------------------
(* TypeOK and Linked are inductive.                                         *)

LEMMA LinkedInit == Init => TypeOK /\ Linked
<1> SUFFICES ASSUME Init PROVE TypeOK /\ Linked
  OBVIOUS
<1>1. DOMAIN steps = {} /\ DOMAIN memo = {} /\ DOMAIN policy = {} /\ ret \in BOOLEAN
  BY DEF Init, Empty
<1>2. stack \in Seq(Frame) /\ Len(stack) = 0 /\ stack = <<>>
  BY DEF Init
<1>3. TypeOK
  BY <1>1, <1>2, BsolverAssumption DEF Init, TypeOK, IndetReason, NoResult
<1>4. StackLinked /\ StackUndecided /\ MemoOK /\ StepsOK
  BY <1>1, <1>2 DEF StackLinked, StackUndecided, MemoOK, StepsOK
<1>5. ControlLinked
  BY <1>2 DEF Init, ControlLinked
<1> QED
  BY <1>3, <1>4, <1>5 DEF Linked

\* The steps before and after the search: the stack is empty afterwards.
LEMMA CallerInductive ==
    ASSUME TypeOK, Linked, CertifyTerminal \/ Certify \/ Join \/ Unwind
    PROVE  TypeOK' /\ Linked'
<1> USE DEF CertifyTerminal, Certify, Join, Unwind, searchVars, stopVars
<1>1. /\ UNCHANGED <<steps, root, arg, ret, memo, expanded, reason, cycleKey>>
      /\ stack' = <<>> /\ policy' \in {policy, Empty}
      /\ pc' \in {"idle", "call"}
  BY DEF Linked, ControlLinked
<1>2. result' \in {NoResult, "WIN", "LOSS", "INDETERMINATE", "exception"}
  BY BsolverAssumption DEF TypeOK, Terminal, OutcomeValue
<1>3. DOMAIN policy' \subseteq DOMAIN policy /\ \A s \in DOMAIN policy' : policy'[s] = policy[s]
  BY <1>1 DEF Empty
<1>4. stack' \in Seq(Frame) /\ Len(stack') = 0
  BY <1>1
<1>5. TypeOK'
  BY <1>1, <1>2, <1>3, <1>4, BsolverAssumption DEF TypeOK
<1>6. StackLinked' /\ StackUndecided'
  BY <1>1, <1>4 DEF StackLinked, StackUndecided
<1>7. MemoOK'
  <2>1. pc' # "idle" => policy' = policy /\ pc # "idle"
    OBVIOUS
  <2> QED
    BY <1>1, <1>3, <2>1 DEF Linked, MemoOK, Terminal
<1>8. StepsOK'
  BY <1>1 DEF Linked, StepsOK
<1>9. ControlLinked'
  <2>1. pc' = "call" => result' = NoResult /\ arg' = root' /\ Current' = root'
    BY <1>1 DEF Linked, ControlLinked, Current
  <2> QED
    BY <1>1, <2>1 DEF ControlLinked
<1> QED
  BY <1>5, <1>6, <1>7, <1>8, <1>9 DEF Linked

\* A step that leaves the stack, the steps and the memo alone.
LEMMA SameStackLinked ==
    ASSUME TypeOK, Linked, UNCHANGED <<steps, mode, root, stack, memo, policy, result>>,
           pc # "idle", pc' # "idle"
    PROVE  StackLinked' /\ StackUndecided' /\ MemoOK' /\ StepsOK'
<1>1. StackLinked'
  BY DEF Linked, StackLinked, InChild, InStep, FrameStep, FrameAction
<1>2. StackUndecided' /\ MemoOK' /\ StepsOK'
  BY DEF Linked, StackUndecided, MemoOK, StepsOK, Terminal
<1> QED
  BY <1>1, <1>2

\* b_win returns without entering its loops, or stops the search; a child's
\* success goes back into the enumeration.
LEMMA QuietInductive ==
    ASSUME TypeOK, Linked,
           \/ VisitTerminal \/ VisitDepthCap \/ VisitMemo \/ VisitCycle \/ VisitNodeCap
           \/ ChildWins \/ OverBudget
    PROVE  /\ TypeOK' /\ Linked'
           /\ UNCHANGED <<steps, root, arg, stack, memo, policy, expanded, result>>
<1> USE DEF VisitTerminal, VisitDepthCap, VisitMemo, VisitCycle, VisitNodeCap, ChildWins,
            OverBudget, Undecided, Return, Stop, AllEmitted, searchVars, stopVars
<1>1. UNCHANGED <<steps, root, arg, stack, memo, policy, expanded, result>>
  OBVIOUS
<1>2. pc \in {"call", "ret", "emit"} /\ pc' \in {"ret", "stop", "emit"}
  OBVIOUS
<1>3. ret' \in BOOLEAN
  <2>1. CASE VisitMemo
    BY <2>1, Zenon DEF TypeOK
  <2>2. CASE VisitTerminal
    <3>1. (Outcome[arg] = "WIN") \in BOOLEAN
      OBVIOUS
    <3> QED
      BY <2>2, <3>1, Zenon
  <2>3. CASE UNCHANGED ret
    BY <2>3, Zenon DEF TypeOK
  <2> QED
    BY <2>1, <2>2, <2>3
<1>4. reason' \in IndetReason /\ cycleKey' \subseteq State
  BY DEF TypeOK, IndetReason
<1>5. TypeOK'
  BY <1>1, <1>2, <1>3, <1>4 DEF TypeOK
<1>6. StackLinked' /\ StackUndecided' /\ MemoOK' /\ StepsOK'
  BY <1>1, <1>2, SameStackLinked
<1>7. ControlLinked'
  <2>1. pc' = "ret" => pc = "call"
    OBVIOUS
  <2>2. pc' = "emit" => pc = "ret" /\ stack # <<>>
    OBVIOUS
  <2>3. pc' = "ret" /\ stack' # <<>> => InChild(Top)'
    BY <1>1, <2>1 DEF Linked, ControlLinked, InChild, InStep, FrameStep, FrameAction, Top
  <2>4. pc' = "emit" => stack' # <<>> /\ InStep(Top)'
    BY <1>1, <2>2 DEF Linked, ControlLinked, InChild, InStep, FrameStep, FrameAction, Top
  <2>5. result' = NoResult
    BY <1>1, <1>2 DEF Linked, ControlLinked
  <2> QED
    BY <1>2, <2>3, <2>4, <2>5 DEF ControlLinked
<1> QED
  BY <1>1, <1>5, <1>6, <1>7 DEF Linked

\* b_win expands an undecided state.
LEMMA VisitPushInductive ==
    ASSUME TypeOK, Linked, VisitPush
    PROVE  /\ TypeOK' /\ Linked'
           /\ UNCHANGED <<steps, root, memo, policy, result>>
           /\ Len(stack') = Len(stack) + 1
           /\ stack'[Len(stack) + 1] = NewFrame(arg)
           /\ \A i \in 1..Len(stack) : stack'[i] = stack[i]
           /\ Top' = NewFrame(arg)
<1> USE DEF VisitPush, Undecided, stopVars
<1>1. /\ UNCHANGED <<steps, root, arg, ret, memo, policy, reason, cycleKey, result>>
      /\ pc = "call" /\ pc' = "loop"
  OBVIOUS
<1>2. /\ stack \in Seq(Frame) /\ Len(stack) \in Nat /\ arg \in State
      /\ NewFrame(arg) \in Frame
      /\ stack' = Append(stack, NewFrame(arg))
  BY DEF TypeOK, NewFrame, Frame
<1>3. /\ stack' \in Seq(Frame) /\ Len(stack') = Len(stack) + 1
      /\ stack' # <<>> /\ stack'[Len(stack) + 1] = NewFrame(arg)
      /\ \A i \in 1..Len(stack) : stack'[i] = stack[i]
  BY <1>2, PushFacts
<1>4. /\ Top' = NewFrame(arg) /\ NewFrame(arg).s = arg /\ NewFrame(arg).ci = 0
      /\ NewFrame(arg).ai = 1 /\ ~NewFrame(arg).prog
  BY <1>3 DEF Top, NewFrame
<1> HIDE DEF NewFrame
<1>5. TypeOK'
  <2>1. Len(stack') <= DepthCap /\ expanded' \in 0..NodeCap
    BY <1>2, <1>3, BsolverAssumption DEF TypeOK
  <2> QED
    BY <1>1, <1>3, <2>1 DEF TypeOK
<1>6. StackLinked'
  <2>1. stack'[1].s = root'
    <3>1. CASE stack = <<>>
      BY <3>1, <1>1, <1>3, <1>4 DEF Linked, ControlLinked, Current
    <3>2. CASE stack # <<>>
      BY <3>2, <1>1, <1>2, <1>3 DEF Linked, StackLinked
    <3> QED
      BY <3>1, <3>2
  <2>2. ASSUME NEW i \in 1..(Len(stack') - 1)
        PROVE  /\ InChild(stack[i])
               /\ FrameStep(stack[i]).kept[stack[i].ci] = stack'[i + 1].s
    <3>1. CASE i < Len(stack)
      BY <3>1, <1>2, <1>3 DEF Linked, StackLinked
    <3>2. CASE i = Len(stack)
      BY <3>2, <1>1, <1>2, <1>3, <1>4 DEF Linked, ControlLinked, Current, Top
    <3> QED
      BY <3>1, <3>2, <1>2, <1>3
  <2>3. ASSUME NEW i \in 1..(Len(stack') - 1)
        PROVE  (InChild(stack[i]) /\ FrameStep(stack[i]).kept[stack[i].ci] = stack[i + 1].s)'
    <3>1. stack'[i] = stack[i]
      BY <1>2, <1>3
    <3> QED
      BY <1>1, <2>2, <3>1 DEF InChild, InStep, FrameStep, FrameAction
  <2> QED
    BY <1>3, <2>1, <2>3 DEF StackLinked
<1>7. StackUndecided'
  <2>1. \A i \in 1..Len(stack') : i \in 1..Len(stack) \/ i = Len(stack) + 1
    BY <1>2, <1>3
  <2>2. \A i \in 1..Len(stack) : stack[i].s # arg
    BY DEF OnStack
  <2> QED
    BY <1>1, <1>3, <1>4, <2>1, <2>2 DEF Linked, StackUndecided, Terminal
<1>8. MemoOK' /\ StepsOK'
  BY <1>1 DEF Linked, MemoOK, StepsOK, Terminal
<1>9. ControlLinked'
  BY <1>1, <1>3, <1>4 DEF Linked, ControlLinked
<1> QED
  BY <1>1, <1>3, <1>4, <1>5, <1>6, <1>7, <1>8, <1>9 DEF Linked

\* A step that replaces the top frame and leaves the memo alone.
LEMMA SetTopInductive ==
    ASSUME TypeOK, Linked, pc # "idle", pc' # "idle", stack # <<>>,
           NEW f \in Frame, f.s = Top.s, stack' = SetTop(f),
           arg' \in State,
           pc' \in {"start", "call", "loop", "emit", "ret", "stop", "idle"},
           UNCHANGED <<steps, mode, root, ret, memo, policy, expanded, reason, cycleKey, result>>
    PROVE  /\ TypeOK' /\ StackLinked' /\ StackUndecided' /\ MemoOK' /\ StepsOK'
           /\ SameBelow /\ Top' = f /\ result' = NoResult
<1>1. StepsGrow
  BY DEF StepsGrow
<1>2. StackLinked' /\ SameBelow /\ Top' = f
  BY <1>1, SetTopLinked DEF Linked
<1>3. TypeOK'
  BY <1>2 DEF TypeOK, SameBelow
<1>4. StackUndecided'
  BY <1>2, SameBelowUndecided DEF Linked
<1>5. MemoOK' /\ StepsOK'
  BY DEF Linked, MemoOK, StepsOK, Terminal
<1> QED
  BY <1>2, <1>3, <1>4, <1>5 DEF Linked, ControlLinked

\* The OR loop moves on.
LEMMA NextActionInductive ==
    ASSUME TypeOK, Linked, SkipBanned \/ ChildLoses \/ NoProgress
    PROVE  /\ TypeOK' /\ Linked' /\ SameBelow /\ stack # <<>>
           /\ Top'.ai = Top.ai + 1 /\ Top'.ci = 0 /\ ~Top'.prog
           /\ UNCHANGED <<steps, root, memo, policy, result>>
<1> USE DEF SkipBanned, ChildLoses, NoProgress, MoreActions, AllEmitted, searchVars, stopVars
<1>1. /\ UNCHANGED <<steps, root, arg, ret, memo, policy, expanded, reason, cycleKey, result>>
      /\ pc # "idle" /\ pc' = "loop" /\ stack' = NextAction
  OBVIOUS
<1>2. stack # <<>>
  BY DEF Linked, ControlLinked
<1> DEFINE f == [s |-> Top.s, ai |-> Top.ai + 1, ci |-> 0, prog |-> FALSE]
<1>3. Top \in Frame /\ Top.ai \in Nat
  BY <1>2, TopFacts
<1>4. f \in Frame /\ f.s = Top.s /\ f.ai = Top.ai + 1 /\ f.ci = 0 /\ ~f.prog
  BY ONLY <1>3, FrameUpdate
<1>5. stack' = SetTop(f) /\ arg' \in State
  BY <1>1 DEF NextAction, TypeOK
<1> HIDE DEF f
<1>6. /\ TypeOK' /\ StackLinked' /\ StackUndecided' /\ MemoOK' /\ StepsOK'
      /\ SameBelow /\ Top' = f /\ result' = NoResult
  BY <1>1, <1>2, <1>4, <1>5, SetTopInductive
<1>7. ControlLinked'
  BY <1>1, <1>3, <1>4, <1>6 DEF ControlLinked, SameBelow
<1> QED
  BY <1>1, <1>2, <1>4, <1>6, <1>7 DEF Linked

\* oracle.step is asked for a result.
LEMMA OracleStepForFacts ==
    ASSUME TypeOK, Linked, NEW r \in Steps, OracleStepFor(r)
    PROVE  /\ StepsGrow /\ StepsOK' /\ stack # <<>> /\ pc = "loop"
           /\ DOMAIN steps' \subseteq State \X Action
           /\ \A k \in DOMAIN steps' : steps'[k] \in Steps
           /\ <<Top.s, TopAction>> \in DOMAIN steps' /\ steps'[<<Top.s, TopAction>>] = r
           /\ Top.ai \in 1..Len(LegalActions[Top.s]) /\ TopAction \notin Banned
           /\ UNCHANGED <<mode, root, arg, ret, memo, policy, expanded, reason, cycleKey>>
<1>1. stack # <<>> /\ pc = "loop"
  BY DEF OracleStepFor, MoreActions, Linked, ControlLinked
<1>2. Top.ai \in 1..Len(LegalActions[Top.s]) /\ TopAction \notin Banned
  BY <1>1, TopFacts DEF OracleStepFor, MoreActions, Linked, ControlLinked
<1>3. Top.s \in State /\ TopAction \in Action
  BY <1>1, <1>2, TopFacts DEF TopAction
<1>4. UNCHANGED <<mode, root, arg, ret, memo, policy, expanded, reason, cycleKey>>
  BY DEF OracleStepFor, searchVars, stopVars
<1> DEFINE key == <<Top.s, TopAction>>
<1>5. key \in State \X Action /\ key[1] = Top.s
  BY <1>3
<1>6. CASE key \in DOMAIN steps
  BY <1>1, <1>2, <1>4, <1>6 DEF OracleStepFor, TopStep, StepsGrow, TypeOK, Linked, StepsOK
<1>7. CASE key \notin DOMAIN steps
  <2>1. EmitsFor(mode, key[1], r) /\ steps' = Put(steps, key, r)
    BY <1>5, <1>7 DEF OracleStepFor
  <2> HIDE DEF key
  <2>2. /\ DOMAIN steps' = DOMAIN steps \union {key} /\ steps'[key] = r
        /\ \A k \in DOMAIN steps : steps'[k] = steps[k]
    BY <1>7, <2>1 DEF Put
  <2>3. StepsOK'
    <3>1. \A k \in DOMAIN steps' : EmitsFor(mode', k[1], steps'[k])
      BY <1>4, <2>1, <2>2 DEF Linked, StepsOK
    <3> QED
      BY <3>1 DEF StepsOK, EmitsFor, CollapseKeepsProgress
  <2> QED
    BY <1>1, <1>2, <1>4, <1>5, <2>2, <2>3 DEF StepsGrow, TypeOK, key
<1> QED
  BY <1>6, <1>7

LEMMA StartStepInductive ==
    ASSUME TypeOK, Linked, NEW r \in Steps, StartStep(r)
    PROVE  /\ TypeOK' /\ Linked' /\ StepsGrow
           /\ UNCHANGED <<root, stack, memo, policy, result>>
           /\ stack # <<>> /\ Top.ci = 0 /\ ~Top.prog /\ pc' = "emit"
<1>1. /\ StepsGrow /\ StepsOK' /\ stack # <<>> /\ pc = "loop"
      /\ DOMAIN steps' \subseteq State \X Action
      /\ \A k \in DOMAIN steps' : steps'[k] \in Steps
      /\ <<Top.s, TopAction>> \in DOMAIN steps' /\ steps'[<<Top.s, TopAction>>] = r
      /\ Top.ai \in 1..Len(LegalActions[Top.s]) /\ TopAction \notin Banned
      /\ UNCHANGED <<mode, root, arg, ret, memo, policy, expanded, reason, cycleKey>>
  BY OracleStepForFacts DEF StartStep
<1>2. UNCHANGED <<stack, result>> /\ pc' = "emit"
  BY DEF StartStep
<1>3. TypeOK'
  BY <1>1, <1>2 DEF TypeOK
<1>4. Top.ci = 0 /\ ~Top.prog
  BY <1>1 DEF Linked, ControlLinked
<1>5. StackLinked'
  BY <1>1, <1>2 DEF Linked, StackLinked, StepsGrow, InChild, InStep, FrameStep, FrameAction
<1>6. StackUndecided' /\ MemoOK'
  BY <1>1, <1>2 DEF Linked, StackUndecided, MemoOK, Terminal
<1>7. InStep(Top)'
  <2>1. Top' = Top /\ TopAction = FrameAction(Top) /\ FrameAction(Top)' = FrameAction(Top)
    BY <1>2 DEF Top, TopAction, FrameAction
  <2>2. r.kept \in Seq(State)
    BY BsolverAssumption DEF OracleStep
  <2>3. FrameStep(Top)' = r
    BY <1>1, <2>1 DEF FrameStep
  <2>4. 0 \in 0..Len(r.kept)
    BY <2>2
  <2> QED
    BY <1>1, <1>4, <2>1, <2>3, <2>4 DEF InStep
<1>8. ControlLinked'
  BY <1>1, <1>2, <1>7 DEF Linked, ControlLinked
<1> QED
  BY <1>1, <1>2, <1>3, <1>4, <1>5, <1>6, <1>8 DEF Linked

LEMMA StepThrowsInductive ==
    ASSUME TypeOK, Linked, NEW r \in Steps, StepThrows(r)
    PROVE  /\ TypeOK' /\ Linked' /\ StepsGrow
           /\ UNCHANGED <<root, memo, policy>>
           /\ stack' = <<>> /\ pc' = "idle" /\ result' = "exception"
<1>1. /\ StepsGrow /\ StepsOK'
      /\ DOMAIN steps' \subseteq State \X Action
      /\ \A k \in DOMAIN steps' : steps'[k] \in Steps
      /\ UNCHANGED <<mode, root, arg, ret, memo, policy, expanded, reason, cycleKey>>
  BY OracleStepForFacts DEF StepThrows
<1>2. stack' = <<>> /\ pc' = "idle" /\ result' = "exception"
  BY DEF StepThrows
<1>3. stack' \in Seq(Frame) /\ Len(stack') = 0
  BY <1>2
<1>4. TypeOK'
  BY <1>1, <1>2, <1>3, BsolverAssumption DEF TypeOK
<1>5. StackLinked' /\ StackUndecided' /\ MemoOK' /\ ControlLinked'
  BY <1>1, <1>2, <1>3
  DEF Linked, StackLinked, StackUndecided, MemoOK, ControlLinked, Terminal
<1> QED
  BY <1>1, <1>2, <1>4, <1>5 DEF Linked

\* The oracle emits the next child.
LEMMA EmitFacts ==
    ASSUME TypeOK, Linked, Emitting
    PROVE  /\ stack # <<>> /\ Top \in Frame /\ InStep(Top) /\ TopStep = FrameStep(Top)
           /\ Top.ci + 1 \in 1..Len(FrameStep(Top).kept)
           /\ NextChild = FrameStep(Top).kept[Top.ci + 1] /\ NextChild \in State
<1>1. stack # <<>> /\ InStep(Top) /\ TopStep = FrameStep(Top)
  BY DEF Emitting, Linked, ControlLinked, TopStep, TopAction, FrameStep, FrameAction
<1>2. Top \in Frame /\ Top.ci \in Nat
  BY <1>1, TopFacts
<1>3. Len(FrameStep(Top).kept) \in Nat /\ \A i \in 1..Len(FrameStep(Top).kept) : FrameStep(Top).kept[i] \in State
  BY <1>1, <1>2, InStepFacts
<1>4. Top.ci + 1 \in 1..Len(FrameStep(Top).kept)
  BY <1>1, <1>2, <1>3 DEF Emitting
<1> QED
  BY <1>1, <1>2, <1>3, <1>4 DEF NextChild

LEMMA SkipSelfLoopInductive ==
    ASSUME TypeOK, Linked, SkipSelfLoop
    PROVE  /\ TypeOK' /\ Linked' /\ SameBelow /\ stack # <<>>
           /\ Top'.ai = Top.ai /\ Top'.ci = Top.ci + 1 /\ Top'.prog = Top.prog
           /\ FrameStep(Top)' = FrameStep(Top)
           /\ UNCHANGED <<steps, root, memo, policy, result>>
<1>1. /\ stack # <<>> /\ Top \in Frame /\ InStep(Top)
      /\ Top.ci + 1 \in 1..Len(FrameStep(Top).kept)
  BY EmitFacts DEF SkipSelfLoop
<1> DEFINE f == [Top EXCEPT !.ci = Top.ci + 1]
<1>2. /\ UNCHANGED <<steps, mode, root, arg, ret, memo, policy, expanded, reason, cycleKey, result>>
      /\ pc = "emit" /\ pc' = "emit" /\ stack' = SetTop(f)
  BY DEF SkipSelfLoop, Emitting, searchVars, stopVars
<1>3. /\ f \in Frame /\ f.s = Top.s /\ f.ai = Top.ai /\ f.ci = Top.ci + 1
      /\ f.prog = Top.prog
  BY ONLY <1>1, FrameUpdate
<1>4. arg' \in State
  BY <1>2 DEF TypeOK
<1> HIDE DEF f
<1>5. /\ TypeOK' /\ StackLinked' /\ StackUndecided' /\ MemoOK' /\ StepsOK'
      /\ SameBelow /\ Top' = f /\ result' = NoResult
  BY <1>1, <1>2, <1>3, <1>4, SetTopInductive
<1>6. FrameStep(Top)' = FrameStep(Top) /\ FrameAction(Top)' = FrameAction(Top)
  BY <1>2, <1>3, <1>5 DEF FrameStep, FrameAction
<1>7. InStep(Top)'
  <2>1. Top'.ci \in 0..Len(FrameStep(Top).kept)
    BY <1>1, <1>3, <1>5
  <2> QED
    BY <1>1, <1>2, <1>3, <1>5, <1>6, <2>1 DEF InStep
<1>8. ControlLinked'
  BY <1>2, <1>5, <1>7 DEF ControlLinked, SameBelow
<1> QED
  BY <1>1, <1>2, <1>3, <1>5, <1>6, <1>8 DEF Linked

LEMMA RecurseInductive ==
    ASSUME TypeOK, Linked, Recurse
    PROVE  /\ TypeOK' /\ Linked' /\ SameBelow /\ stack # <<>>
           /\ Top'.ai = Top.ai /\ Top'.ci = Top.ci + 1 /\ Top'.prog
           /\ FrameStep(Top)' = FrameStep(Top)
           /\ FrameStep(Top).kept[Top.ci + 1] # Top.s
           /\ UNCHANGED <<steps, root, memo, policy, result>>
<1>1. /\ stack # <<>> /\ Top \in Frame /\ InStep(Top)
      /\ Top.ci + 1 \in 1..Len(FrameStep(Top).kept)
      /\ NextChild = FrameStep(Top).kept[Top.ci + 1] /\ NextChild \in State
  BY EmitFacts DEF Recurse
<1> DEFINE f == [Top EXCEPT !.ci = Top.ci + 1, !.prog = TRUE]
<1>2. /\ UNCHANGED <<steps, mode, root, ret, memo, policy, expanded, reason, cycleKey, result>>
      /\ pc = "emit" /\ pc' = "call" /\ stack' = SetTop(f) /\ arg' = NextChild
      /\ NextChild # Top.s
  BY DEF Recurse, Emitting, SelfLoop, searchVars, stopVars
<1>3. /\ f \in Frame /\ f.s = Top.s /\ f.ai = Top.ai /\ f.ci = Top.ci + 1
      /\ f.prog = TRUE
  BY ONLY <1>1, FrameUpdate
<1>4. arg' \in State
  BY <1>1, <1>2
<1> HIDE DEF f
<1>5. /\ TypeOK' /\ StackLinked' /\ StackUndecided' /\ MemoOK' /\ StepsOK'
      /\ SameBelow /\ Top' = f /\ result' = NoResult
  BY <1>1, <1>2, <1>3, <1>4, SetTopInductive
<1>6. FrameStep(Top)' = FrameStep(Top) /\ FrameAction(Top)' = FrameAction(Top)
  BY <1>2, <1>3, <1>5 DEF FrameStep, FrameAction
<1>7. InChild(Top)'
  <2>1. Top'.ci \in 0..Len(FrameStep(Top).kept) /\ Top'.ci >= 1
    BY <1>1, <1>3, <1>5
  <2>2. InStep(Top)'
    BY <1>1, <1>2, <1>3, <1>5, <1>6, <2>1 DEF InStep
  <2>3. FrameStep(Top)'.kept[Top'.ci] # Top'.s
    BY <1>1, <1>2, <1>3, <1>5, <1>6
  <2> QED
    BY <1>3, <1>5, <2>1, <2>2, <2>3 DEF InChild
<1>8. arg' = Current'
  BY <1>1, <1>2, <1>3, <1>5, <1>6 DEF Current, SameBelow
<1>9. ControlLinked'
  BY <1>2, <1>5, <1>7, <1>8 DEF ControlLinked, SameBelow
<1> QED
  BY <1>1, <1>2, <1>3, <1>5, <1>6, <1>9 DEF Linked

\* A decided activation returns.
LEMMA DecideInductive ==
    ASSUME TypeOK, Linked, stack # <<>>, pc # "idle", NEW v \in BOOLEAN,
           memo' = Put(memo, Top.s, v), stack' = Pop, pc' = "ret", ret' = v,
           UNCHANGED <<steps, mode, root, arg, expanded, reason, cycleKey, result>>,
           DOMAIN policy' \subseteq State, \A s \in DOMAIN policy' : policy'[s] \in Action,
           MemoOK'
    PROVE  TypeOK' /\ Linked'
<1>1. /\ StackLinked' /\ stack' \in Seq(Frame) /\ Len(stack') = Len(stack) - 1
      /\ \A i \in 1..(Len(stack) - 1) : stack'[i] = stack[i]
      /\ stack' # <<>> => InChild(Top)'
  BY PopLinked DEF Linked
<1>2. Len(stack) \in Nat /\ Top.s \in State
  BY TopFacts
<1>3. DOMAIN memo' \subseteq State /\ \A s \in DOMAIN memo' : memo'[s] \in BOOLEAN
  <2>1. DOMAIN memo' = DOMAIN memo \union {Top.s}
    BY DEF Put
  <2>2. ASSUME NEW s \in DOMAIN memo' PROVE memo'[s] \in BOOLEAN
    <3>1. memo'[s] = IF s = Top.s THEN v ELSE memo[s]
      BY <2>1, Zenon DEF Put
    <3> QED
      BY <2>1, <3>1, Zenon DEF TypeOK
  <2> QED
    BY <1>2, <2>1, <2>2 DEF TypeOK
<1>4. TypeOK'
  <2>1. Len(stack') <= DepthCap
    BY <1>1, <1>2, BsolverAssumption DEF TypeOK
  <2>2. ret' \in BOOLEAN /\ pc' \in {"start", "call", "loop", "emit", "ret", "stop", "idle"}
    OBVIOUS
  <2> QED
    BY <1>1, <1>3, <2>1, <2>2, Zenon DEF TypeOK
<1>5. StackUndecided'
  BY <1>1, PopUndecided DEF Linked
<1>6. StepsOK'
  BY DEF Linked, StepsOK
<1>7. ControlLinked'
  BY <1>1 DEF Linked, ControlLinked
<1> QED
  BY <1>1, <1>4, <1>5, <1>6, <1>7 DEF Linked

LEMMA DecideWinInductive ==
    ASSUME TypeOK, Linked, DecideWin
    PROVE  /\ TypeOK' /\ Linked' /\ stack # <<>> /\ InStep(Top)
           /\ DOMAIN policy' = DOMAIN policy \union {Top.s}
           /\ policy'[Top.s] = FrameAction(Top)
           /\ \A s \in DOMAIN policy : s # Top.s /\ policy'[s] = policy[s]
           /\ LossPlane' = LossPlane
<1>1. /\ stack # <<>> /\ pc = "emit" /\ InStep(Top)
      /\ memo' = Put(memo, Top.s, TRUE) /\ policy' = Put(policy, Top.s, TopAction)
      /\ stack' = Pop /\ pc' = "ret" /\ ret' = TRUE
      /\ UNCHANGED <<steps, mode, root, arg, expanded, reason, cycleKey, result>>
  BY DEF DecideWin, AllEmitted, Linked, ControlLinked, Return, stopVars
<1>2. Top.s \in State /\ TopAction = FrameAction(Top) /\ TopAction \in Action
  BY <1>1, TopFacts, InStepFacts DEF TopAction, FrameAction
<1>3. Top.s \notin DOMAIN memo /\ ~Terminal(Top.s)
  BY <1>1, TopFacts DEF Linked, StackUndecided
<1> DEFINE t == Top.s
<1> HIDE DEF t
<1>4. /\ DOMAIN policy' = DOMAIN policy \union {t} /\ policy'[t] = TopAction
      /\ \A s \in DOMAIN policy : s # t => policy'[s] = policy[s]
      /\ DOMAIN memo' = DOMAIN memo \union {t} /\ memo'[t]
      /\ \A s \in DOMAIN memo : s # t => memo'[s] = memo[s]
  BY <1>1, Zenon DEF Put, t
<1>5. \A s \in DOMAIN policy : s # t
  BY <1>3 DEF Linked, MemoOK, t
<1>6. DOMAIN policy' \subseteq State /\ \A s \in DOMAIN policy' : policy'[s] \in Action
  BY <1>2, <1>4 DEF TypeOK, t
<1>7. \A s \in DOMAIN memo : s # t
  BY <1>3 DEF t
<1>8. MemoOK'
  <2>1. \A s \in DOMAIN memo' : ~Terminal(s)
    BY <1>3, <1>4 DEF Linked, MemoOK, t
  <2>2. \A s \in DOMAIN policy' : s \in DOMAIN memo' /\ memo'[s]
    BY <1>4, <1>5, <1>7, Zenon DEF Linked, MemoOK
  <2>3. \A s \in DOMAIN memo' : memo'[s] => s \in DOMAIN policy'
    BY <1>1, <1>4, <1>7, Zenon DEF Linked, MemoOK
  <2> QED
    BY <2>1, <2>2, <2>3 DEF MemoOK, Terminal
<1>9. LossPlane' = LossPlane
  BY <1>4, <1>7, Zenon DEF LossPlane
<1>10. TRUE \in BOOLEAN
  OBVIOUS
<1>11. TypeOK' /\ Linked'
  BY <1>1, <1>6, <1>8, <1>10, DecideInductive
<1> QED
  BY <1>1, <1>2, <1>4, <1>5, <1>9, <1>11 DEF t

LEMMA DecideLossInductive ==
    ASSUME TypeOK, Linked, DecideLoss
    PROVE  /\ TypeOK' /\ Linked' /\ stack # <<>> /\ Top.s \notin LossPlane
           /\ LossPlane' = LossPlane \union {Top.s}
           /\ UNCHANGED policy
<1>1. /\ stack # <<>> /\ pc = "loop"
      /\ memo' = Put(memo, Top.s, FALSE) /\ policy' = policy
      /\ stack' = Pop /\ pc' = "ret" /\ ret' = FALSE
      /\ UNCHANGED <<steps, mode, root, arg, expanded, reason, cycleKey, result>>
  BY DEF DecideLoss, Linked, ControlLinked, Return, stopVars
<1>3. Top.s \notin DOMAIN memo /\ ~Terminal(Top.s)
  BY <1>1, TopFacts DEF Linked, StackUndecided
<1> DEFINE t == Top.s
<1> HIDE DEF t
<1>4. /\ DOMAIN memo' = DOMAIN memo \union {t} /\ ~memo'[t]
      /\ \A s \in DOMAIN memo : s # t => memo'[s] = memo[s]
  BY <1>1, Zenon DEF Put, t
<1>6. DOMAIN policy' \subseteq State /\ \A s \in DOMAIN policy' : policy'[s] \in Action
  BY <1>1 DEF TypeOK
<1>7. \A s \in DOMAIN memo : s # t
  BY <1>3 DEF t
<1>8. MemoOK'
  <2>1. \A s \in DOMAIN memo' : ~Terminal(s)
    BY <1>3, <1>4 DEF Linked, MemoOK, t
  <2>2. \A s \in DOMAIN policy' : s \in DOMAIN memo' /\ memo'[s]
    BY <1>1, <1>4, <1>7, Zenon DEF Linked, MemoOK
  <2>3. \A s \in DOMAIN memo' : memo'[s] => s \in DOMAIN policy'
    BY <1>1, <1>4, <1>7, Zenon DEF Linked, MemoOK
  <2> QED
    BY <2>1, <2>2, <2>3 DEF MemoOK, Terminal
<1>9. LossPlane' = LossPlane \union {t} /\ t \notin LossPlane
  BY <1>4, <1>7, Zenon DEF LossPlane
<1>10. FALSE \in BOOLEAN
  OBVIOUS
<1>11. TypeOK' /\ Linked'
  BY <1>1, <1>6, <1>8, <1>10, DecideInductive
<1> QED
  BY <1>1, <1>9, <1>11 DEF t

LEMMA StutterInductive ==
    ASSUME TypeOK, Linked, UNCHANGED vars
    PROVE  TypeOK' /\ Linked'
<1>1. TypeOK'
  BY DEF vars, TypeOK
<1>2. StackLinked' /\ ControlLinked'
  BY DEF vars, Linked, StackLinked, ControlLinked, InChild, InStep, FrameStep, FrameAction,
         Top, Current
<1>3. StackUndecided' /\ MemoOK' /\ StepsOK'
  BY DEF vars, Linked, StackUndecided, MemoOK, StepsOK, Terminal
<1> QED
  BY <1>1, <1>2, <1>3 DEF Linked

LEMMA LinkedStep == TypeOK /\ Linked /\ [Next]_vars => TypeOK' /\ Linked'
<1> SUFFICES ASSUME TypeOK, Linked, [Next]_vars PROVE TypeOK' /\ Linked'
  OBVIOUS
<1>1. CASE CertifyTerminal \/ Certify \/ Join \/ Unwind
  BY <1>1, CallerInductive
<1>2. CASE \/ VisitTerminal \/ VisitDepthCap \/ VisitMemo \/ VisitCycle \/ VisitNodeCap
           \/ ChildWins \/ OverBudget
  BY <1>2, QuietInductive
<1>3. CASE VisitPush
  BY <1>3, VisitPushInductive
<1>4. CASE SkipBanned \/ ChildLoses \/ NoProgress
  BY <1>4, NextActionInductive
<1>5. CASE \E r \in Steps : StartStep(r) \/ StepThrows(r)
  BY <1>5, StartStepInductive, StepThrowsInductive
<1>6. CASE SkipSelfLoop \/ Recurse
  BY <1>6, SkipSelfLoopInductive, RecurseInductive
<1>7. CASE DecideWin \/ DecideLoss
  BY <1>7, DecideWinInductive, DecideLossInductive
<1>8. CASE UNCHANGED vars
  BY <1>8, StutterInductive
<1> QED
  BY <1>1, <1>2, <1>3, <1>4, <1>5, <1>6, <1>7, <1>8 DEF Next

\* TypeOK holds for every game and every oracle: the stack of the search never
\* passes the depth cap, the nodes counted never pass the node cap, and every
\* memo entry has one plane.
THEOREM SearchWithinCaps == Spec => []TypeOK
<1>1. Spec => [](TypeOK /\ Linked)
  BY LinkedInit, LinkedStep, PTL DEF Spec
<1> QED
  BY <1>1, PTL

-----------------------------------------------------------------------------
(* LOSS.  The parts of LossInv as functions of the known steps st and of the*)
(* LOSS plane lost, so that they can be compared before and after a step.   *)

Grows(st, st2) ==
    DOMAIN st \subseteq DOMAIN st2 /\ \A k \in DOMAIN st : st2[k] = st[k]

FailsIn(st, lost, s, a) ==
    /\ <<s, a>> \in DOMAIN st
    /\ \/ st[<<s, a>>].all = {s}
       \/ \E c \in st[<<s, a>>].all : c # s /\ (IsLoss(c) \/ c \in lost)

RankedIn(st, lost) ==
    \A Z \in (SUBSET lost) \ {{}} :
        \E s \in Z : \A a \in Allowed(s) : FailsIn(st, lost \ Z, s, a)

KeyOf(f) == <<f.s, LegalActions[f.s][f.ai]>>

LossFrame(st, lost, f) ==
    /\ \A j \in 1..(f.ai - 1) :
          LegalActions[f.s][j] \notin Banned => FailsIn(st, lost, f.s, LegalActions[f.s][j])
    /\ ~f.prog => \A j \in 1..f.ci : st[KeyOf(f)].kept[j] = f.s

LossFrames(st, lost, stk) == \A i \in 1..Len(stk) : LossFrame(st, lost, stk[i])

LossVerdict ==
    /\ pc = "ret" /\ ~ret => IsLoss(Current) \/ Current \in LossPlane
    /\ result = "LOSS" => IsLoss(root) \/ root \in LossPlane

LEMMA LossInvParts ==
    /\ LossInv <=> /\ LossFrames(steps, LossPlane, stack) /\ RankedIn(steps, LossPlane)
                   /\ LossVerdict
    /\ LossInv' <=> /\ LossFrames(steps', LossPlane', stack') /\ RankedIn(steps', LossPlane')
                    /\ LossVerdict'
<1>1. \A s, a, S : Fails(s, a, S) <=> FailsIn(steps, S, s, a)
  BY DEF Fails, FailsIn, Support
<1>2. \A s, a, S : Fails(s, a, S)' <=> FailsIn(steps', S, s, a)
  BY DEF Fails, FailsIn, Support
<1>3. LossRanked <=> RankedIn(steps, LossPlane)
  BY <1>1 DEF LossRanked, RankedIn
<1>4. LossRanked' <=> RankedIn(steps', LossPlane')
  BY DEF LossRanked, RankedIn, Fails, FailsIn, Support
<1>5. (\A i \in 1..Len(stack) : FailedBefore(stack[i]) /\ OnlySelfLoops(stack[i]))
        <=> LossFrames(steps, LossPlane, stack)
  BY <1>1 DEF LossFrames, LossFrame, FailedBefore, OnlySelfLoops, FrameStep, FrameAction, KeyOf
<1>6. (\A i \in 1..Len(stack) : FailedBefore(stack[i]) /\ OnlySelfLoops(stack[i]))'
        <=> LossFrames(steps', LossPlane', stack')
  BY DEF LossFrames, LossFrame, FailedBefore, OnlySelfLoops, FrameStep, FrameAction, KeyOf,
         Fails, FailsIn, Support
<1> QED
  BY <1>3, <1>4, <1>5, <1>6 DEF LossInv, LossVerdict

\* An action that fails still fails when more is known and more is lost.
LEMMA FailsMono ==
    ASSUME NEW st, NEW st2, Grows(st, st2), NEW lost, NEW lost2, lost \subseteq lost2,
           NEW s, NEW a, FailsIn(st, lost, s, a)
    PROVE  FailsIn(st2, lost2, s, a)
BY DEF Grows, FailsIn

LEMMA RankedMono ==
    ASSUME NEW st, NEW st2, Grows(st, st2), NEW lost, RankedIn(st, lost)
    PROVE  RankedIn(st2, lost)
BY FailsMono DEF RankedIn

LEMMA LossFrameMono ==
    ASSUME NEW st, NEW st2, Grows(st, st2), NEW lost, NEW lost2, lost \subseteq lost2,
           NEW f, LossFrame(st, lost, f), f.ci = 0 \/ KeyOf(f) \in DOMAIN st
    PROVE  LossFrame(st2, lost2, f)
<1>1. \A j \in 1..(f.ai - 1) :
         LegalActions[f.s][j] \notin Banned => FailsIn(st2, lost2, f.s, LegalActions[f.s][j])
  BY FailsMono DEF LossFrame
<1>2. ~f.prog => \A j \in 1..f.ci : st2[KeyOf(f)].kept[j] = f.s
  <2>1. CASE f.ci = 0
    BY <2>1
  <2>2. CASE KeyOf(f) \in DOMAIN st
    BY <2>2 DEF LossFrame, Grows
  <2> QED
    BY <2>1, <2>2
<1> QED
  BY <1>1, <1>2 DEF LossFrame

\* A state of which every action fails joins the ranked LOSS plane.
LEMMA RankedAdd ==
    ASSUME NEW st, NEW lost, RankedIn(st, lost), NEW s, s \notin lost,
           \A a \in Allowed(s) : FailsIn(st, lost, s, a)
    PROVE  RankedIn(st, lost \union {s})
<1> SUFFICES ASSUME NEW Z \in (SUBSET (lost \union {s})) \ {{}}
             PROVE  \E t \in Z : \A a \in Allowed(t) : FailsIn(st, (lost \union {s}) \ Z, t, a)
  BY DEF RankedIn
<1>0. Grows(st, st)
  BY DEF Grows
<1>1. CASE Z \cap lost # {}
  <2>1. PICK t \in Z \cap lost : \A a \in Allowed(t) : FailsIn(st, lost \ (Z \cap lost), t, a)
    BY <1>1 DEF RankedIn
  <2>2. lost \ (Z \cap lost) \subseteq (lost \union {s}) \ Z
    OBVIOUS
  <2> QED
    BY <1>0, <2>1, <2>2, FailsMono
<1>2. CASE Z \cap lost = {}
  <2>1. s \in Z /\ lost \subseteq (lost \union {s}) \ Z
    BY <1>2
  <2> QED
    BY <1>0, <2>1, FailsMono
<1> QED
  BY <1>1, <1>2

LEMMA BelowKnown ==
    ASSUME TypeOK, Linked
    PROVE  \A i \in 1..(Len(stack) - 1) : KeyOf(stack[i]) \in DOMAIN steps
BY DEF Linked, StackLinked, InChild, InStep, FrameAction, KeyOf

\* The index of a frame is the top's or below it.
LEMMA TopOrBelow ==
    ASSUME TypeOK, stack # <<>>
    PROVE  \A i \in 1..Len(stack) : i = Len(stack) \/ i \in 1..(Len(stack) - 1)
BY TopFacts

LEMMA LossInit == Init => LossInv
<1> SUFFICES ASSUME Init PROVE LossInv
  OBVIOUS
<1>1. LossPlane = {} /\ Len(stack) = 0
  BY DEF Init, LossPlane, Empty
<1>2. LossFrames(steps, LossPlane, stack) /\ RankedIn(steps, LossPlane)
  BY <1>1 DEF LossFrames, RankedIn
<1>3. LossVerdict
  BY DEF Init, LossVerdict, NoResult
<1> QED
  BY <1>2, <1>3, LossInvParts

LEMMA LossCaller ==
    ASSUME TypeOK, Linked, LossInv, CertifyTerminal \/ Certify \/ Join \/ Unwind
    PROVE  LossInv'
<1> USE DEF CertifyTerminal, Certify, Join, Unwind, searchVars, stopVars
<1>1. RankedIn(steps, LossPlane) /\ LossVerdict
  BY LossInvParts
<1>2. UNCHANGED <<steps, memo, root>> /\ LossPlane' = LossPlane
  BY DEF LossPlane
<1>3. Len(stack') = 0 /\ pc' \in {"idle", "call"}
  BY DEF Linked, ControlLinked
<1>4. LossFrames(steps', LossPlane', stack') /\ RankedIn(steps', LossPlane')
  BY <1>1, <1>2, <1>3 DEF LossFrames
<1>5. LossVerdict'
  <2>1. ASSUME result' = "LOSS" PROVE IsLoss(root) \/ root \in LossPlane
    <3>1. CASE CertifyTerminal
      BY <2>1, <3>1 DEF IsLoss
    <3>2. CASE Join
      BY <1>1, <2>1, <3>2 DEF LossVerdict, Current
    <3>3. CASE Certify \/ Unwind
      BY <1>1, <2>1, <3>3 DEF LossVerdict
    <3> QED
      BY <3>1, <3>2, <3>3
  <2> QED
    BY <1>2, <1>3, <2>1 DEF LossVerdict, IsLoss
<1> QED
  BY <1>4, <1>5, LossInvParts

LEMMA LossQuiet ==
    ASSUME TypeOK, Linked, LossInv,
           \/ VisitTerminal \/ VisitDepthCap \/ VisitMemo \/ VisitCycle \/ VisitNodeCap
           \/ ChildWins \/ OverBudget
    PROVE  LossInv'
<1>1. UNCHANGED <<steps, root, arg, stack, memo, policy, expanded, result>>
  BY QuietInductive
<1>2. LossPlane' = LossPlane /\ Current' = Current
  BY <1>1 DEF LossPlane, Current, FrameStep, FrameAction, Top
<1>3. LossFrames(steps', LossPlane', stack') /\ RankedIn(steps', LossPlane')
  BY <1>1, <1>2, LossInvParts
<1>4. ASSUME pc' = "ret", ~ret' PROVE IsLoss(Current) \/ Current \in LossPlane
  <2>1. CASE VisitTerminal
    <3>1. pc = "call" /\ Terminal(arg) /\ Outcome[arg] # "WIN"
      BY <1>4, <2>1 DEF VisitTerminal, Return
    <3>2. IsLoss(arg)
      BY <3>1, BsolverAssumption DEF TypeOK, Terminal, OutcomeValue, IsLoss
    <3> QED
      BY <3>1, <3>2 DEF Linked, ControlLinked
  <2>2. CASE VisitMemo
    <3>1. pc = "call" /\ arg \in DOMAIN memo /\ ~memo[arg]
      BY <1>4, <2>2 DEF VisitMemo, Return
    <3> QED
      BY <3>1, Zenon DEF Linked, ControlLinked, LossPlane
  <2> QED
    BY <1>4, <2>1, <2>2
    DEF VisitDepthCap, VisitCycle, VisitNodeCap, Stop, ChildWins, OverBudget
<1>5. LossVerdict'
  <2>1. result = "LOSS" => IsLoss(root) \/ root \in LossPlane
    BY LossInvParts DEF LossVerdict
  <2> QED
    BY <1>1, <1>2, <1>4, <2>1 DEF LossVerdict, IsLoss
<1> QED
  BY <1>3, <1>5, LossInvParts

LEMMA LossPush ==
    ASSUME TypeOK, Linked, LossInv, VisitPush
    PROVE  LossInv'
<1>1. /\ UNCHANGED <<steps, root, memo, policy, result>>
      /\ Len(stack') = Len(stack) + 1
      /\ stack'[Len(stack) + 1] = NewFrame(arg)
      /\ \A i \in 1..Len(stack) : stack'[i] = stack[i]
  BY VisitPushInductive
<1>2. LossPlane' = LossPlane /\ pc' = "loop"
  BY <1>1 DEF LossPlane, VisitPush
<1>3. LossFrame(steps, LossPlane, NewFrame(arg))
  BY DEF LossFrame, NewFrame
<1>4. Len(stack) \in Nat
  BY FrameFacts
<1>5. \A i \in 1..Len(stack') : i \in 1..Len(stack) \/ i = Len(stack) + 1
  BY <1>1, <1>4
<1>6. LossFrames(steps', LossPlane', stack')
  BY <1>1, <1>2, <1>3, <1>5, LossInvParts DEF LossFrames
<1>7. RankedIn(steps', LossPlane') /\ LossVerdict'
  BY <1>1, <1>2, LossInvParts DEF LossVerdict, IsLoss
<1> QED
  BY <1>6, <1>7, LossInvParts

\* A step that replaces the top frame: only the top's part is to be shown.
LEMMA LossSetTop ==
    ASSUME TypeOK, Linked, LossInv, stack # <<>>, SameBelow, pc' # "ret",
           UNCHANGED <<steps, root, memo, result>>,
           LossFrame(steps, LossPlane, Top')
    PROVE  LossInv'
<1>1. LossPlane' = LossPlane
  BY DEF LossPlane
<1>2. LossFrames(steps', LossPlane', stack')
  BY <1>1, TopOrBelow, LossInvParts DEF LossFrames, SameBelow
<1>3. RankedIn(steps', LossPlane') /\ LossVerdict'
  BY <1>1, LossInvParts DEF LossVerdict, IsLoss
<1> QED
  BY <1>2, <1>3, LossInvParts

\* The action the loop leaves is banned or fails.
LEMMA LossNextAction ==
    ASSUME TypeOK, Linked, LossInv, SkipBanned \/ ChildLoses \/ NoProgress
    PROVE  LossInv'
<1>1. /\ SameBelow /\ stack # <<>>
      /\ Top'.ai = Top.ai + 1 /\ Top'.ci = 0
      /\ UNCHANGED <<steps, root, memo, policy, result>>
  BY NextActionInductive
<1>2. pc' = "loop"
  BY DEF SkipBanned, ChildLoses, NoProgress, MoreActions
<1>3. /\ Top \in Frame /\ Top.ai \in Nat /\ Top.ci \in Nat /\ LossFrame(steps, LossPlane, Top)
  BY <1>1, TopFacts, LossInvParts DEF LossFrames
<1>4. \/ FrameAction(Top) \in Banned
      \/ FailsIn(steps, LossPlane, Top.s, FrameAction(Top))
  <2>1. CASE SkipBanned
    BY <2>1 DEF SkipBanned, TopAction, FrameAction
  <2>2. CASE ChildLoses
    <3>1. InChild(Top) /\ Current = FrameStep(Top).kept[Top.ci]
      BY <1>1, <2>2 DEF ChildLoses, Linked, ControlLinked, Current
    <3>2. IsLoss(Current) \/ Current \in LossPlane
      BY <2>2, LossInvParts DEF ChildLoses, LossVerdict
    <3>3. KeyOf(Top) \in DOMAIN steps /\ FrameStep(Top) = steps[KeyOf(Top)]
      BY <3>1 DEF InChild, InStep, KeyOf, FrameAction, FrameStep
    <3>4. Top.ci \in 1..Len(steps[KeyOf(Top)].kept)
      BY <1>3, <3>1, <3>3, StepFacts DEF InChild, InStep
    <3>5. Current \in steps[KeyOf(Top)].all
      BY <3>1, <3>3, <3>4, StepFacts
    <3>6. Current # Top.s
      BY <3>1 DEF InChild
    <3> QED
      BY <3>2, <3>3, <3>5, <3>6 DEF FailsIn, KeyOf, FrameAction
  <2>3. CASE NoProgress
    <3>1. InStep(Top) /\ Top.ci = Len(FrameStep(Top).kept) /\ FrameStep(Top).complete /\ ~Top.prog
      BY <2>3
      DEF NoProgress, AllEmitted, Linked, ControlLinked, TopStep, TopAction, FrameStep, FrameAction
    <3>2. KeyOf(Top) \in DOMAIN steps /\ FrameStep(Top) = steps[KeyOf(Top)] /\ KeyOf(Top)[1] = Top.s
      BY <3>1 DEF InStep, KeyOf, FrameAction, FrameStep
    <3> DEFINE r == steps[KeyOf(Top)]
    <3>3. EmitsFor(mode, Top.s, r) /\ r.complete
      BY <3>1, <3>2 DEF Linked, StepsOK
    <3>4. \A j \in 1..Len(r.kept) : r.kept[j] = Top.s
      BY <1>3, <3>1, <3>2 DEF LossFrame
    <3>5. /\ Len(r.kept) \in Nat /\ r.kept \in Seq(State)
          /\ \A j \in 1..Len(r.kept) : r.kept[j] \in Emitted(r)
          /\ \A c \in Emitted(r) : \E j \in 1..Len(r.kept) : c = r.kept[j]
      BY <3>2, StepFacts
    <3> HIDE DEF r
    <3>6. r.kept # <<>> => 1 \in 1..Len(r.kept)
      BY <3>5
    <3>7. Emitted(r) = {Top.s}
      BY <3>3, <3>4, <3>5, <3>6 DEF EmitsFor
    <3>8. r.all = {Top.s}
      BY <3>3, <3>7 DEF EmitsFor, CollapseKeepsProgress
    <3> QED
      BY <3>2, <3>8 DEF FailsIn, KeyOf, FrameAction, r
  <2> QED
    BY <2>1, <2>2, <2>3
<1>5. LossFrame(steps, LossPlane, Top')
  <2>1. ASSUME NEW j \in 1..(Top'.ai - 1), LegalActions[Top.s][j] \notin Banned
        PROVE  FailsIn(steps, LossPlane, Top.s, LegalActions[Top.s][j])
    <3>1. j = Top.ai \/ j \in 1..(Top.ai - 1)
      BY <1>1, <1>3
    <3> QED
      BY <1>3, <1>4, <2>1, <3>1 DEF LossFrame, FrameAction
  <2>2. Top'.s = Top.s
    BY <1>1 DEF SameBelow
  <2>3. 1..Top'.ci = {}
    BY <1>1
  <2> QED
    BY <2>1, <2>2, <2>3 DEF LossFrame
<1> QED
  BY <1>1, <1>2, <1>5, LossSetTop

LEMMA LossStepOracle ==
    ASSUME TypeOK, Linked, LossInv, NEW r \in Steps, StartStep(r) \/ StepThrows(r)
    PROVE  LossInv'
<1>1. /\ Grows(steps, steps') /\ UNCHANGED <<root, memo>>
      /\ pc' # "ret" /\ result' \in {result, "exception"}
      /\ stack' = <<>> \/ (stack' = stack /\ stack # <<>> /\ Top.ci = 0)
  BY StartStepInductive, StepThrowsInductive DEF StepsGrow, Grows, StartStep, StepThrows
<1>2. LossPlane' = LossPlane
  BY <1>1 DEF LossPlane
<1>3. RankedIn(steps', LossPlane')
  BY <1>1, <1>2, LossInvParts, RankedMono
<1>4. LossFrames(steps', LossPlane', stack')
  <2>1. CASE stack' = <<>>
    BY <2>1 DEF LossFrames
  <2>2. CASE stack' = stack /\ stack # <<>> /\ Top.ci = 0
    <3>1. ASSUME NEW i \in 1..Len(stack) PROVE LossFrame(steps', LossPlane, stack[i])
      <4>1. LossFrame(steps, LossPlane, stack[i])
        BY LossInvParts DEF LossFrames
      <4>2. stack[i].ci = 0 \/ KeyOf(stack[i]) \in DOMAIN steps
        BY <2>2, TopOrBelow, BelowKnown DEF Top
      <4> QED
        BY <1>1, <4>1, <4>2, LossFrameMono
    <3> QED
      BY <1>2, <2>2, <3>1 DEF LossFrames
  <2> QED
    BY <1>1, <2>1, <2>2
<1>5. LossVerdict'
  BY <1>1, <1>2, LossInvParts DEF LossVerdict, IsLoss
<1> QED
  BY <1>3, <1>4, <1>5, LossInvParts

LEMMA LossEmit ==
    ASSUME TypeOK, Linked, LossInv, SkipSelfLoop \/ Recurse
    PROVE  LossInv'
<1>1. /\ SameBelow /\ stack # <<>>
      /\ Top'.ai = Top.ai /\ Top'.ci = Top.ci + 1
      /\ UNCHANGED <<steps, root, memo, policy, result>>
  BY SkipSelfLoopInductive, RecurseInductive
<1>2. pc' # "ret"
  BY DEF SkipSelfLoop, Recurse, Emitting
<1>3. /\ Top.ci \in Nat /\ LossFrame(steps, LossPlane, Top)
  BY <1>1, TopFacts, LossInvParts DEF LossFrames
<1>4. Top'.s = Top.s /\ KeyOf(Top') = KeyOf(Top)
  BY <1>1 DEF SameBelow, KeyOf
<1>5. ASSUME ~Top'.prog, NEW j \in 1..Top'.ci PROVE steps[KeyOf(Top)].kept[j] = Top.s
  <2>1. SkipSelfLoop /\ ~Top.prog
    BY <1>5, SkipSelfLoopInductive, RecurseInductive
  <2>2. NextChild = Top.s /\ NextChild = FrameStep(Top).kept[Top.ci + 1]
    BY <2>1, EmitFacts DEF SkipSelfLoop, SelfLoop
  <2>3. j = Top.ci + 1 \/ j \in 1..Top.ci
    BY <1>1, <1>3
  <2> QED
    BY <1>3, <2>1, <2>2, <2>3 DEF LossFrame, FrameStep, FrameAction, KeyOf
<1>6. LossFrame(steps, LossPlane, Top')
  BY <1>1, <1>3, <1>4, <1>5 DEF LossFrame
<1> QED
  BY <1>1, <1>2, <1>6, LossSetTop

\* The activations that remain keep what they know of a larger LOSS plane.
LEMMA LossPop ==
    ASSUME TypeOK, Linked, LossInv, stack # <<>>, stack' = Pop, UNCHANGED <<steps, root>>,
           LossPlane \subseteq LossPlane'
    PROVE  LossFrames(steps', LossPlane', stack')
<1>1. /\ Len(stack') = Len(stack) - 1
      /\ \A i \in 1..(Len(stack) - 1) : stack'[i] = stack[i]
  BY PopLinked DEF Linked
<1>2. Grows(steps, steps')
  BY DEF Grows
<1>3. ASSUME NEW i \in 1..(Len(stack) - 1) PROVE LossFrame(steps', LossPlane', stack[i])
  <2>1. i \in 1..Len(stack)
    BY FrameFacts
  <2>2. LossFrame(steps, LossPlane, stack[i]) /\ KeyOf(stack[i]) \in DOMAIN steps
    BY <2>1, LossInvParts, BelowKnown DEF LossFrames
  <2> QED
    BY <1>2, <2>2, LossFrameMono
<1> QED
  BY <1>1, <1>3 DEF LossFrames

LEMMA LossDecideWin ==
    ASSUME TypeOK, Linked, LossInv, DecideWin
    PROVE  LossInv'
<1>1. stack # <<>> /\ LossPlane' = LossPlane
  BY DecideWinInductive
<1>2. stack' = Pop /\ UNCHANGED <<steps, root, result>> /\ ret' = TRUE
  BY DEF DecideWin, Return
<1>3. LossFrames(steps', LossPlane', stack')
  BY <1>1, <1>2, LossPop
<1>4. RankedIn(steps', LossPlane') /\ LossVerdict'
  BY <1>1, <1>2, LossInvParts DEF LossVerdict, IsLoss
<1> QED
  BY <1>3, <1>4, LossInvParts

LEMMA LossDecideLoss ==
    ASSUME TypeOK, Linked, LossInv, DecideLoss
    PROVE  LossInv'
<1>1. stack # <<>> /\ LossPlane' = LossPlane \union {Top.s} /\ Top.s \notin LossPlane
  BY DecideLossInductive
<1>2. stack' = Pop /\ UNCHANGED <<steps, root, result>> /\ Top.ai > Len(LegalActions[Top.s])
  BY DEF DecideLoss, Return
<1>3. LossFrames(steps', LossPlane', stack')
  BY <1>1, <1>2, LossPop
<1>4. ASSUME NEW a \in Allowed(Top.s) PROVE FailsIn(steps, LossPlane, Top.s, a)
  <2>1. LegalActions[Top.s] \in Seq(Action) /\ Top.ai \in Nat
    BY <1>1, TopFacts
  <2>2. PICK j \in 1..Len(LegalActions[Top.s]) : a = LegalActions[Top.s][j] /\ a \notin Banned
    BY <2>1 DEF Allowed
  <2>3. j \in 1..(Top.ai - 1)
    BY <1>2, <2>1
  <2>4. LossFrame(steps, LossPlane, Top)
    BY <1>1, TopFacts, LossInvParts DEF LossFrames
  <2> QED
    BY <2>2, <2>3, <2>4 DEF LossFrame
<1>5. RankedIn(steps', LossPlane')
  BY <1>1, <1>2, <1>4, LossInvParts, RankedAdd
<1>6. LossVerdict'
  <2>1. Current' = Top.s
    BY <1>1, <1>2, PopLinked DEF Linked
  <2>2. result = "LOSS" => IsLoss(root) \/ root \in LossPlane
    BY LossInvParts DEF LossVerdict
  <2> QED
    BY <1>1, <1>2, <2>1, <2>2 DEF LossVerdict, IsLoss
<1> QED
  BY <1>3, <1>5, <1>6, LossInvParts

LEMMA LossStutter ==
    ASSUME TypeOK, Linked, LossInv, UNCHANGED vars
    PROVE  LossInv'
<1>1. LossPlane' = LossPlane /\ LossVerdict' = LossVerdict
  BY DEF vars, LossPlane, LossVerdict, Current, FrameStep, FrameAction, Top, IsLoss
<1> QED
  BY <1>1, LossInvParts DEF vars

LEMMA LossStep == TypeOK /\ Linked /\ LossInv /\ [Next]_vars => LossInv'
<1> SUFFICES ASSUME TypeOK, Linked, LossInv, [Next]_vars PROVE LossInv'
  OBVIOUS
<1>1. CASE CertifyTerminal \/ Certify \/ Join \/ Unwind
  BY <1>1, LossCaller
<1>2. CASE \/ VisitTerminal \/ VisitDepthCap \/ VisitMemo \/ VisitCycle \/ VisitNodeCap
           \/ ChildWins \/ OverBudget
  BY <1>2, LossQuiet
<1>3. CASE VisitPush
  BY <1>3, LossPush
<1>4. CASE SkipBanned \/ ChildLoses \/ NoProgress
  BY <1>4, LossNextAction
<1>5. CASE \E r \in Steps : StartStep(r) \/ StepThrows(r)
  BY <1>5, LossStepOracle
<1>6. CASE SkipSelfLoop \/ Recurse
  BY <1>6, LossEmit
<1>7. CASE DecideWin \/ DecideLoss
  BY <1>7, LossDecideWin, LossDecideLoss
<1>8. CASE UNCHANGED vars
  BY <1>8, LossStutter
<1> QED
  BY <1>1, <1>2, <1>3, <1>4, <1>5, <1>6, <1>7, <1>8 DEF Next

\* A strategy that wins surely avoids the LOSS plane: among the states of the
\* plane it visits, one of lowest rank has no action to offer.
LEMMA LossRefutes ==
    ASSUME TypeOK, Linked, LossInv
    PROVE  LossConclusive
<1> SUFFICES ASSUME NEW X \in SUBSET {s \in State : ~Terminal(s)}, X \cap Lost # {},
                    NEW p \in [X -> Action], WinsSurely(X, p)
             PROVE  FALSE
  BY DEF LossConclusive
<1> DEFINE Z == X \cap LossPlane
<1>1. Z # {}
  <2>1. PICK x \in X : x \in Lost
    OBVIOUS
  <2>2. CASE x \in LossPlane
    BY <2>2
  <2>3. CASE x = root /\ result = "LOSS"
    <3>1. IsLoss(x) \/ x \in LossPlane
      BY <2>3, LossInvParts DEF LossVerdict
    <3>2. ~IsLoss(x)
      BY DEF Terminal, IsLoss
    <3> QED
      BY <3>1, <3>2
  <2> QED
    BY <2>1, <2>2, <2>3 DEF Lost, LossPlane
<1>2. PICK s \in Z : \A a \in Allowed(s) : FailsIn(steps, LossPlane \ Z, s, a)
  BY <1>1, LossInvParts DEF RankedIn
<1>3. p[s] \in Allowed(s) /\ \A c \in Support(s, p[s]) : IsWin(c) \/ c \in X
  BY <1>2 DEF WinsSurely, StaysWinning
<1>4. FailsIn(steps, LossPlane \ Z, s, p[s]) /\ Support(s, p[s]) = steps[<<s, p[s]>>].all
  BY <1>2, <1>3 DEF FailsIn, Support
<1>5. CASE Support(s, p[s]) = {s}
  <2>1. {s} \in (SUBSET X) \ {{}}
    BY <1>2
  <2>2. \E t \in {s} : Support(t, p[t]) = {} \/ \E c \in Support(t, p[t]) : c \notin {s}
    BY <2>1 DEF WinsSurely, Escapes
  <2> QED
    BY <1>5, <2>2
<1>6. CASE \E c \in Support(s, p[s]) : c # s /\ (IsLoss(c) \/ c \in LossPlane \ Z)
  <2>1. PICK c \in Support(s, p[s]) : IsLoss(c) \/ c \in LossPlane \ Z
    BY <1>6
  <2>2. IsWin(c) \/ c \in X
    BY <1>3, <2>1
  <2>3. CASE IsLoss(c)
    BY <2>2, <2>3 DEF IsLoss, IsWin, Terminal
  <2>4. CASE c \in LossPlane \ Z
    BY <2>2, <2>4 DEF LossPlane, Linked, MemoOK, Terminal, IsWin
  <2> QED
    BY <2>1, <2>3, <2>4
<1> QED
  BY <1>4, <1>5, <1>6 DEF FailsIn

\* A LOSS of bsolver_certify is a certificate for every game, oracle, mode and
\* cap: no strategy wins with probability one from a state of the LOSS plane,
\* or from a root reported lost.
THEOREM LossIsConclusive == Spec => []LossConclusive
<1>1. Spec => [](TypeOK /\ Linked /\ LossInv)
  BY LinkedInit, LinkedStep, LossInit, LossStep, PTL DEF Spec
<1>2. TypeOK /\ Linked /\ LossInv => LossConclusive
  BY LossRefutes
<1> QED
  BY <1>1, <1>2, PTL

-----------------------------------------------------------------------------
(* WIN, in the same way.                                                    *)

WonIn(pol, c) == IsWin(c) \/ c \in DOMAIN pol

WonUpTo(st, pol, f, n) ==
    \A j \in 1..(n - 1) : st[KeyOf(f)].kept[j] = f.s \/ WonIn(pol, st[KeyOf(f)].kept[j])

OtherIn(st, f) == f.prog => \E j \in 1..f.ci : st[KeyOf(f)].kept[j] # f.s

ClosedIn(st, pol) ==
    \A s \in DOMAIN pol :
        /\ pol[s] \in Allowed(s)
        /\ <<s, pol[s]>> \in DOMAIN st
        /\ st[<<s, pol[s]>>].complete
        /\ \A c \in Emitted(st[<<s, pol[s]>>]) : c = s \/ WonIn(pol, c)

EscapesIn(st, pol) ==
    \A Y \in (SUBSET DOMAIN pol) \ {{}} :
        \E s \in Y : \E c \in Emitted(st[<<s, pol[s]>>]) : c \notin Y

WinFrames(st, pol, stk) ==
    /\ \A i \in 1..Len(stk) : OtherIn(st, stk[i])
    /\ \A i \in 1..(Len(stk) - 1) : WonUpTo(st, pol, stk[i], stk[i].ci)

WinControl ==
    /\ pc \in {"call", "ret"} /\ stack # <<>> => WonUpTo(steps, policy, Top, Top.ci)
    /\ pc = "emit" => WonUpTo(steps, policy, Top, Top.ci + 1)
    /\ pc = "ret" /\ ret => WonIn(policy, Current)
    /\ result = "WIN" => WonIn(policy, root)

LEMMA WinInvParts ==
    /\ WinInv <=> /\ WinFrames(steps, policy, stack) /\ ClosedIn(steps, policy)
                  /\ EscapesIn(steps, policy) /\ WinControl
    /\ WinInv' <=> /\ WinFrames(steps', policy', stack') /\ ClosedIn(steps', policy')
                   /\ EscapesIn(steps', policy') /\ WinControl'
<1>1. WinInv <=> /\ WinFrames(steps, policy, stack) /\ ClosedIn(steps, policy)
                 /\ EscapesIn(steps, policy) /\ WinControl
  BY DEF WinInv, WinFrames, ClosedIn, EscapesIn, WinControl, SomeOther, OtherIn, WonBefore,
         WonUpTo, Won, WonIn, PolicyClosed, PolicyRanked, FrameStep, FrameAction, KeyOf
<1>2. WinInv' <=> /\ WinFrames(steps', policy', stack') /\ ClosedIn(steps', policy')
                  /\ EscapesIn(steps', policy') /\ WinControl'
  BY DEF WinInv, WinFrames, ClosedIn, EscapesIn, WinControl, SomeOther, OtherIn, WonBefore,
         WonUpTo, Won, WonIn, PolicyClosed, PolicyRanked, FrameStep, FrameAction, KeyOf
<1> QED
  BY <1>1, <1>2

\* More steps known and more states won.
LEMMA WonUpToMono ==
    ASSUME NEW st, NEW st2, Grows(st, st2), NEW pol, NEW pol2, DOMAIN pol \subseteq DOMAIN pol2,
           NEW f, KeyOf(f) \in DOMAIN st, NEW n, WonUpTo(st, pol, f, n)
    PROVE  WonUpTo(st2, pol2, f, n)
BY DEF Grows, WonUpTo, WonIn

LEMMA OtherMono ==
    ASSUME NEW st, NEW st2, Grows(st, st2), NEW f, KeyOf(f) \in DOMAIN st \/ ~f.prog, OtherIn(st, f)
    PROVE  OtherIn(st2, f)
BY DEF Grows, OtherIn

LEMMA ClosedMono ==
    ASSUME NEW st, NEW st2, Grows(st, st2), NEW pol, ClosedIn(st, pol), EscapesIn(st, pol)
    PROVE  ClosedIn(st2, pol) /\ EscapesIn(st2, pol)
<1>1. \A s \in DOMAIN pol : <<s, pol[s]>> \in DOMAIN st2 /\ st2[<<s, pol[s]>>] = st[<<s, pol[s]>>]
  BY DEF Grows, ClosedIn
<1>2. ClosedIn(st2, pol)
  BY <1>1 DEF ClosedIn
<1>3. EscapesIn(st2, pol)
  <2> SUFFICES ASSUME NEW Y \in (SUBSET DOMAIN pol) \ {{}}
               PROVE  \E s \in Y : \E c \in Emitted(st2[<<s, pol[s]>>]) : c \notin Y
    BY DEF EscapesIn
  <2>1. PICK s \in Y : \E c \in Emitted(st[<<s, pol[s]>>]) : c \notin Y
    BY DEF EscapesIn
  <2>2. s \in DOMAIN pol
    OBVIOUS
  <2> QED
    BY <1>1, <2>1, <2>2
<1> QED
  BY <1>2, <1>3

\* A state joins the policy with an action whose other children are all won.
LEMMA PolicyAdd ==
    ASSUME NEW st, NEW pol, NEW pol2, NEW s, s \notin DOMAIN pol, ~Terminal(s),
           DOMAIN pol2 = DOMAIN pol \union {s}, \A t \in DOMAIN pol : pol2[t] = pol[t],
           ClosedIn(st, pol), EscapesIn(st, pol),
           pol2[s] \in Allowed(s), <<s, pol2[s]>> \in DOMAIN st, st[<<s, pol2[s]>>].complete,
           \A c \in Emitted(st[<<s, pol2[s]>>]) : c = s \/ WonIn(pol, c),
           \E c \in Emitted(st[<<s, pol2[s]>>]) : c # s
    PROVE  ClosedIn(st, pol2) /\ EscapesIn(st, pol2)
<1>1. ClosedIn(st, pol2)
  BY DEF ClosedIn, WonIn
<1>2. EscapesIn(st, pol2)
  <2> SUFFICES ASSUME NEW Y \in (SUBSET DOMAIN pol2) \ {{}}
               PROVE  \E t \in Y : \E c \in Emitted(st[<<t, pol2[t]>>]) : c \notin Y
    BY DEF EscapesIn
  <2>1. CASE Y \cap DOMAIN pol # {}
    <3>1. PICK t \in Y \cap DOMAIN pol :
             \E c \in Emitted(st[<<t, pol[t]>>]) : c \notin Y \cap DOMAIN pol
      BY <2>1 DEF EscapesIn
    <3>2. PICK c \in Emitted(st[<<t, pol[t]>>]) : c \notin Y \cap DOMAIN pol
      BY <3>1
    <3>3. IsWin(c) \/ c \in DOMAIN pol
      BY <3>1, <3>2 DEF ClosedIn, WonIn
    <3>4. c # s
      BY <3>3 DEF IsWin, Terminal
    <3>5. c \notin Y
      BY <3>2, <3>3, <3>4
    <3> QED
      BY <3>1, <3>2, <3>5
  <2>2. CASE Y \cap DOMAIN pol = {}
    BY <2>2
  <2> QED
    BY <2>1, <2>2
<1> QED
  BY <1>1, <1>2

LEMMA WinInit == Init => WinInv
<1> SUFFICES ASSUME Init PROVE WinInv
  OBVIOUS
<1>1. DOMAIN policy = {} /\ Len(stack) = 0
  BY DEF Init, Empty
<1>2. WinFrames(steps, policy, stack) /\ ClosedIn(steps, policy) /\ EscapesIn(steps, policy)
  BY <1>1 DEF WinFrames, ClosedIn, EscapesIn
<1>3. WinControl
  BY DEF Init, WinControl, NoResult
<1> QED
  BY <1>2, <1>3, WinInvParts

LEMMA WinCaller ==
    ASSUME TypeOK, Linked, WinInv, CertifyTerminal \/ Certify \/ Join \/ Unwind
    PROVE  WinInv'
<1> USE DEF CertifyTerminal, Certify, Join, Unwind, searchVars, stopVars
<1>1. ClosedIn(steps, policy) /\ EscapesIn(steps, policy) /\ WinControl
  BY WinInvParts
<1>2. UNCHANGED <<steps, root>> /\ stack' = <<>> /\ Len(stack') = 0 /\ pc' \in {"idle", "call"}
  BY DEF Linked, ControlLinked
<1>3. WinFrames(steps', policy', stack')
  BY <1>2 DEF WinFrames
<1>4. CASE Unwind
  <2>1. DOMAIN policy' = {} /\ result' # "WIN" /\ pc' = "idle"
    BY <1>4 DEF Empty
  <2>2. ClosedIn(steps', policy') /\ EscapesIn(steps', policy')
    BY <2>1 DEF ClosedIn, EscapesIn
  <2> QED
    BY <1>3, <2>1, <2>2, WinInvParts DEF WinControl
<1>5. CASE CertifyTerminal \/ Certify \/ Join
  <2>1. policy' = policy
    BY <1>5
  <2>2. ASSUME result' = "WIN" PROVE WonIn(policy, root)
    <3>1. CASE CertifyTerminal
      BY <2>2, <3>1 DEF WonIn, IsWin
    <3>2. CASE Join
      BY <1>1, <2>2, <3>2 DEF WinControl, Current
    <3>3. CASE Certify
      BY <1>1, <2>2, <3>3 DEF WinControl
    <3> QED
      BY <1>5, <3>1, <3>2, <3>3
  <2>3. WinControl'
    BY <1>2, <2>1, <2>2 DEF WinControl
  <2> QED
    BY <1>1, <1>2, <1>3, <2>1, <2>3, WinInvParts
<1> QED
  BY <1>4, <1>5

LEMMA WinQuiet ==
    ASSUME TypeOK, Linked, WinInv,
           \/ VisitTerminal \/ VisitDepthCap \/ VisitMemo \/ VisitCycle \/ VisitNodeCap
           \/ ChildWins \/ OverBudget
    PROVE  WinInv'
<1>1. UNCHANGED <<steps, root, arg, stack, memo, policy, expanded, result>>
  BY QuietInductive
<1>2. Top' = Top /\ Current' = Current
  BY <1>1 DEF Current, FrameStep, FrameAction, Top
<1>3. /\ WinFrames(steps', policy', stack') /\ ClosedIn(steps', policy')
      /\ EscapesIn(steps', policy') /\ WinControl
  BY <1>1, WinInvParts
<1>4. ASSUME pc' = "ret", ret' PROVE WonIn(policy, Current)
  <2>1. CASE VisitTerminal
    <3>1. pc = "call" /\ IsWin(arg)
      BY <1>4, <2>1 DEF VisitTerminal, Return, IsWin
    <3> QED
      BY <3>1 DEF Linked, ControlLinked, WonIn
  <2>2. CASE VisitMemo
    <3>1. pc = "call" /\ arg \in DOMAIN memo /\ memo[arg]
      BY <1>4, <2>2 DEF VisitMemo, Return
    <3>2. arg \in DOMAIN policy
      BY <3>1 DEF Linked, MemoOK
    <3> QED
      BY <3>1, <3>2 DEF Linked, ControlLinked, WonIn
  <2> QED
    BY <1>4, <2>1, <2>2
    DEF VisitDepthCap, VisitCycle, VisitNodeCap, Stop, ChildWins, OverBudget
<1>5. ASSUME pc' = "ret", stack # <<>> PROVE WonUpTo(steps, policy, Top, Top.ci)
  <2>1. pc = "call"
    BY <1>5
    DEF VisitTerminal, VisitMemo, VisitDepthCap, VisitCycle, VisitNodeCap, Stop, Undecided,
        ChildWins, OverBudget
  <2> QED
    BY <1>3, <1>5, <2>1 DEF WinControl
<1>6. ASSUME pc' = "emit" PROVE WonUpTo(steps, policy, Top, Top.ci + 1)
  <2>1. pc = "ret" /\ ret /\ stack # <<>>
    BY <1>6
    DEF VisitTerminal, VisitMemo, Return, VisitDepthCap, VisitCycle, VisitNodeCap, Stop,
        ChildWins, OverBudget
  <2>2. WonUpTo(steps, policy, Top, Top.ci) /\ WonIn(policy, FrameStep(Top).kept[Top.ci])
    BY <1>3, <2>1 DEF WinControl, Current
  <2>3. Top.ci \in Nat /\ FrameStep(Top) = steps[KeyOf(Top)]
    BY <2>1, TopFacts DEF FrameStep, FrameAction, KeyOf
  <2>4. \A j \in 1..(Top.ci + 1 - 1) : j \in 1..(Top.ci - 1) \/ j = Top.ci
    BY <2>3
  <2> QED
    BY <2>2, <2>3, <2>4 DEF WonUpTo
<1>7. pc' \in {"ret", "stop", "emit"}
  BY DEF VisitTerminal, VisitMemo, Return, VisitDepthCap, VisitCycle, VisitNodeCap, Stop,
         ChildWins, OverBudget
<1>8. WinControl'
  <2>1. result' = "WIN" => WonIn(policy, root)
    BY <1>1, <1>3 DEF WinControl
  <2> QED
    BY <1>1, <1>2, <1>4, <1>5, <1>6, <1>7, <2>1 DEF WinControl
<1> QED
  BY <1>3, <1>8, WinInvParts

LEMMA WinPush ==
    ASSUME TypeOK, Linked, WinInv, VisitPush
    PROVE  WinInv'
<1>1. /\ UNCHANGED <<steps, root, memo, policy, result>>
      /\ Len(stack') = Len(stack) + 1
      /\ stack'[Len(stack) + 1] = NewFrame(arg)
      /\ \A i \in 1..Len(stack) : stack'[i] = stack[i]
  BY VisitPushInductive
<1>2. pc' = "loop" /\ pc = "call"
  BY DEF VisitPush, Undecided
<1>3. OtherIn(steps, NewFrame(arg))
  BY DEF OtherIn, NewFrame
<1>4. Len(stack) \in Nat
  BY FrameFacts
<1>5. /\ \A i \in 1..Len(stack') : i \in 1..Len(stack) \/ i = Len(stack) + 1
      /\ \A i \in 1..(Len(stack') - 1) : i \in 1..Len(stack)
      /\ \A i \in 1..Len(stack) : i = Len(stack) \/ i \in 1..(Len(stack) - 1)
  BY <1>1, <1>4
<1>6. WinFrames(steps, policy, stack) /\ WinControl
  BY WinInvParts
<1>7. ASSUME NEW i \in 1..Len(stack) PROVE WonUpTo(steps, policy, stack[i], stack[i].ci)
  <2>1. CASE i = Len(stack)
    <3>1. stack # <<>> /\ Top = stack[i]
      BY <1>4, <2>1 DEF Top
    <3> QED
      BY <1>2, <1>6, <3>1 DEF WinControl
  <2>2. CASE i \in 1..(Len(stack) - 1)
    BY <1>6, <2>2 DEF WinFrames
  <2> QED
    BY <1>5, <2>1, <2>2
<1>8. WinFrames(steps', policy', stack')
  BY <1>1, <1>3, <1>5, <1>6, <1>7 DEF WinFrames
<1>9. WinControl'
  BY <1>1, <1>2, <1>6 DEF WinControl
<1> QED
  BY <1>1, <1>8, <1>9, WinInvParts

\* A step that replaces the top frame.
LEMMA WinSetTop ==
    ASSUME TypeOK, Linked, WinInv, stack # <<>>, SameBelow, pc' # "ret",
           UNCHANGED <<steps, root, memo, policy, result>>,
           OtherIn(steps, Top'),
           pc' = "call" => WonUpTo(steps, policy, Top', Top'.ci),
           pc' = "emit" => WonUpTo(steps, policy, Top', Top'.ci + 1)
    PROVE  WinInv'
<1>1. WinFrames(steps, policy, stack) /\ WinControl
  BY WinInvParts
<1>2. WinFrames(steps', policy', stack')
  <2>1. Len(stack') = Len(stack)
    BY DEF SameBelow
  <2>2. \A i \in 1..Len(stack') : OtherIn(steps, stack'[i])
    BY <1>1, <2>1, TopOrBelow DEF WinFrames, SameBelow
  <2>3. \A i \in 1..(Len(stack') - 1) : WonUpTo(steps, policy, stack'[i], stack'[i].ci)
    BY <1>1, <2>1 DEF WinFrames, SameBelow
  <2> QED
    BY <2>2, <2>3 DEF WinFrames
<1>3. WinControl'
  BY <1>1 DEF WinControl
<1> QED
  BY <1>2, <1>3, WinInvParts

LEMMA WinNextAction ==
    ASSUME TypeOK, Linked, WinInv, SkipBanned \/ ChildLoses \/ NoProgress
    PROVE  WinInv'
<1>1. /\ SameBelow /\ stack # <<>> /\ ~Top'.prog
      /\ UNCHANGED <<steps, root, memo, policy, result>>
  BY NextActionInductive
<1>2. pc' = "loop"
  BY DEF SkipBanned, ChildLoses, NoProgress, MoreActions
<1>3. OtherIn(steps, Top')
  BY <1>1 DEF OtherIn
<1> QED
  BY <1>1, <1>2, <1>3, WinSetTop

LEMMA WinEmit ==
    ASSUME TypeOK, Linked, WinInv, SkipSelfLoop \/ Recurse
    PROVE  WinInv'
<1>1. /\ SameBelow /\ stack # <<>>
      /\ Top'.ai = Top.ai /\ Top'.ci = Top.ci + 1
      /\ UNCHANGED <<steps, root, memo, policy, result>>
  BY SkipSelfLoopInductive, RecurseInductive
<1>2. pc = "emit" /\ Emitting
  BY DEF SkipSelfLoop, Recurse, Emitting
<1>3. /\ Top.ci \in Nat /\ OtherIn(steps, Top) /\ WonUpTo(steps, policy, Top, Top.ci + 1)
  BY <1>1, <1>2, TopFacts, WinInvParts DEF WinFrames, WinControl
<1>4. Top'.s = Top.s /\ KeyOf(Top') = KeyOf(Top) /\ FrameStep(Top) = steps[KeyOf(Top)]
  BY <1>1 DEF SameBelow, KeyOf, FrameStep, FrameAction
<1>5. NextChild = steps[KeyOf(Top)].kept[Top.ci + 1]
  BY <1>2, <1>4, EmitFacts
<1>6. CASE SkipSelfLoop
  <2>0. Top'.prog = Top.prog
    BY <1>6, SkipSelfLoopInductive
  <2>1. pc' = "emit" /\ NextChild = Top.s
    BY <1>6 DEF SkipSelfLoop, SelfLoop, Emitting
  <2>2. \A j \in 1..(Top'.ci + 1 - 1) : j \in 1..Top.ci \/ j = Top.ci + 1
    BY <1>1, <1>3
  <2>3. WonUpTo(steps, policy, Top', Top'.ci + 1)
    <3>1. ASSUME NEW j \in 1..Top.ci
          PROVE  steps[KeyOf(Top)].kept[j] = Top.s \/ WonIn(policy, steps[KeyOf(Top)].kept[j])
      <4>1. j \in 1..(Top.ci + 1 - 1)
        BY <1>3
      <4> QED
        BY <1>3, <4>1 DEF WonUpTo
    <3>2. ASSUME NEW j \in 1..(Top'.ci + 1 - 1)
          PROVE  steps[KeyOf(Top')].kept[j] = Top'.s \/ WonIn(policy, steps[KeyOf(Top')].kept[j])
      BY <1>4, <1>5, <2>1, <2>2, <3>1
    <3>3. Top'.ci \in Nat
      BY <1>1, <1>3
    <3> QED
      BY <3>2, <3>3 DEF WonUpTo
  <2>4. \A j \in 1..Top.ci : j \in 1..Top'.ci
    BY <1>1, <1>3
  <2>5. OtherIn(steps, Top')
    BY <1>3, <1>4, <2>0, <2>4 DEF OtherIn
  <2> QED
    BY <1>1, <2>1, <2>3, <2>5, WinSetTop
<1>7. CASE Recurse
  <2>1. pc' = "call" /\ NextChild # Top.s
    BY <1>7 DEF Recurse, SelfLoop
  <2>2. Top.ci + 1 \in 1..Top'.ci
    BY <1>1, <1>3
  <2>3. OtherIn(steps, Top')
    BY <1>4, <1>5, <2>1, <2>2 DEF OtherIn
  <2>4. WonUpTo(steps, policy, Top', Top'.ci)
    BY <1>1, <1>3, <1>4 DEF WonUpTo
  <2> QED
    BY <1>1, <2>1, <2>3, <2>4, WinSetTop
<1> QED
  BY <1>6, <1>7

LEMMA WinStepOracle ==
    ASSUME TypeOK, Linked, WinInv, NEW r \in Steps, StartStep(r) \/ StepThrows(r)
    PROVE  WinInv'
<1>1. /\ Grows(steps, steps') /\ UNCHANGED <<root, policy>>
      /\ result' \in {result, "exception"}
      /\ \/ stack' = <<>> /\ pc' = "idle"
         \/ stack' = stack /\ stack # <<>> /\ pc' = "emit" /\ Top.ci = 0 /\ ~Top.prog
  BY StartStepInductive, StepThrowsInductive DEF StepsGrow, Grows
<1>2. ClosedIn(steps', policy') /\ EscapesIn(steps', policy')
  BY <1>1, WinInvParts, ClosedMono
<1>3. result' = "WIN" => WonIn(policy', root')
  BY <1>1, WinInvParts DEF WinControl
<1>4. CASE stack' = <<>> /\ pc' = "idle"
  <2>1. WinFrames(steps', policy', stack')
    BY <1>4 DEF WinFrames
  <2>2. WinControl'
    BY <1>3, <1>4 DEF WinControl
  <2> QED
    BY <1>2, <2>1, <2>2, WinInvParts
<1>5. CASE stack' = stack /\ stack # <<>> /\ pc' = "emit" /\ Top.ci = 0 /\ ~Top.prog
  <2>1. ASSUME NEW i \in 1..Len(stack) PROVE OtherIn(steps', stack[i])
    <3>1. OtherIn(steps, stack[i])
      BY WinInvParts DEF WinFrames
    <3>2. ~stack[i].prog \/ KeyOf(stack[i]) \in DOMAIN steps
      BY <1>5, TopOrBelow, BelowKnown DEF Top
    <3> QED
      BY <1>1, <3>1, <3>2, OtherMono
  <2>2. ASSUME NEW i \in 1..(Len(stack) - 1) PROVE WonUpTo(steps', policy, stack[i], stack[i].ci)
    <3>1. WonUpTo(steps, policy, stack[i], stack[i].ci) /\ KeyOf(stack[i]) \in DOMAIN steps
      BY WinInvParts, BelowKnown DEF WinFrames
    <3> QED
      BY <1>1, <3>1, WonUpToMono
  <2>3. WinFrames(steps', policy', stack')
    BY <1>1, <1>5, <2>1, <2>2 DEF WinFrames
  <2>4. WonUpTo(steps', policy', Top, 1)
    BY DEF WonUpTo
  <2>5. Top' = Top
    BY <1>5 DEF Top
  <2>6. WinControl'
    BY <1>3, <1>5, <2>4, <2>5 DEF WinControl
  <2> QED
    BY <1>2, <2>3, <2>6, WinInvParts
<1> QED
  BY <1>1, <1>4, <1>5

\* The activations that remain keep what they know of a larger policy.
LEMMA WinPop ==
    ASSUME TypeOK, Linked, WinInv, stack # <<>>, stack' = Pop, UNCHANGED <<steps, root, result>>,
           pc # "idle", pc' = "ret", DOMAIN policy \subseteq DOMAIN policy',
           ClosedIn(steps', policy'), EscapesIn(steps', policy'),
           ret' => Top.s \in DOMAIN policy'
    PROVE  WinInv'
<1>1. /\ Len(stack') = Len(stack) - 1
      /\ \A i \in 1..(Len(stack) - 1) : stack'[i] = stack[i]
      /\ stack' # <<>> => Top' = stack[Len(stack) - 1] /\ Len(stack) > 1
      /\ Current' = Top.s
  BY PopLinked DEF Linked
<1>2. Grows(steps, steps') /\ Len(stack) \in Nat
  BY FrameFacts DEF Grows
<1>3. ASSUME NEW i \in 1..(Len(stack) - 1)
      PROVE  OtherIn(steps', stack[i]) /\ WonUpTo(steps', policy', stack[i], stack[i].ci)
  <2>1. i \in 1..Len(stack)
    BY <1>2
  <2>2. /\ OtherIn(steps, stack[i]) /\ WonUpTo(steps, policy, stack[i], stack[i].ci)
        /\ KeyOf(stack[i]) \in DOMAIN steps
    BY <2>1, WinInvParts, BelowKnown DEF WinFrames
  <2> QED
    BY <1>2, <2>2, OtherMono, WonUpToMono
<1>4. \A i \in 1..(Len(stack') - 1) : i \in 1..(Len(stack) - 1)
  BY <1>1, <1>2
<1>5. WinFrames(steps', policy', stack')
  BY <1>1, <1>3, <1>4 DEF WinFrames
<1>6. WinControl'
  <2>1. stack' # <<>> => WonUpTo(steps', policy', Top', Top'.ci)
    <3>1. ASSUME stack' # <<>> PROVE Len(stack) - 1 \in 1..(Len(stack) - 1)
      BY <1>1, <1>2, <3>1
    <3> QED
      BY <1>1, <1>3, <3>1
  <2>2. result' # "WIN"
    BY DEF Linked, ControlLinked, NoResult
  <2> QED
    BY <1>1, <2>1, <2>2 DEF WinControl, WonIn
<1> QED
  BY <1>5, <1>6, WinInvParts

LEMMA WinDecideWin ==
    ASSUME TypeOK, Linked, WinInv, DecideWin
    PROVE  WinInv'
<1>1. /\ stack # <<>> /\ InStep(Top)
      /\ DOMAIN policy' = DOMAIN policy \union {Top.s}
      /\ policy'[Top.s] = FrameAction(Top)
      /\ \A s \in DOMAIN policy : s # Top.s /\ policy'[s] = policy[s]
  BY DecideWinInductive
<1>2. /\ pc = "emit" /\ pc' = "ret" /\ stack' = Pop /\ UNCHANGED <<steps, root, result>>
      /\ Top.ci = Len(FrameStep(Top).kept) /\ FrameStep(Top).complete /\ Top.prog
  BY DEF DecideWin, AllEmitted, Return, TopStep, TopAction, FrameStep, FrameAction
<1>3. ~Terminal(Top.s) /\ Top \in Frame /\ Top.ci \in Nat
  BY <1>1, TopFacts DEF Linked, StackUndecided
<1>4. FrameAction(Top) \in Allowed(Top.s)
  BY <1>1, <1>3, InStepFacts
<1>5. /\ KeyOf(Top) = <<Top.s, policy'[Top.s]>> /\ KeyOf(Top) \in DOMAIN steps
      /\ FrameStep(Top) = steps[KeyOf(Top)]
  BY <1>1 DEF KeyOf, FrameAction, FrameStep, InStep
<1> DEFINE q == steps[KeyOf(Top)]
<1>6. /\ \A i \in 1..Len(q.kept) : q.kept[i] \in Emitted(q)
      /\ \A c \in Emitted(q) : \E i \in 1..Len(q.kept) : c = q.kept[i]
  BY <1>5, StepFacts
<1>7. WonUpTo(steps, policy, Top, Top.ci + 1) /\ OtherIn(steps, Top)
  BY <1>1, <1>2, TopFacts, WinInvParts DEF WinFrames, WinControl
<1>8. \A c \in Emitted(q) : c = Top.s \/ WonIn(policy, c)
  <2>1. ASSUME NEW j \in 1..Len(q.kept) PROVE q.kept[j] = Top.s \/ WonIn(policy, q.kept[j])
    <3>1. j \in 1..(Top.ci + 1 - 1)
      BY <1>2, <1>3, <1>5
    <3> QED
      BY <1>3, <1>7, <3>1 DEF WonUpTo
  <2> QED
    BY <1>6, <2>1
<1>9. \E c \in Emitted(q) : c # Top.s
  <2>1. PICK j \in 1..Len(q.kept) : q.kept[j] # Top.s
    BY <1>2, <1>5, <1>7 DEF OtherIn
  <2> QED
    BY <1>6, <2>1
<1>10. ClosedIn(steps, policy) /\ EscapesIn(steps, policy)
  BY WinInvParts
<1>11. ClosedIn(steps, policy') /\ EscapesIn(steps, policy')
  <2>1. policy'[Top.s] \in Allowed(Top.s) /\ q.complete
    BY <1>1, <1>2, <1>4, <1>5
  <2> QED
    BY <1>1, <1>3, <1>5, <1>8, <1>9, <1>10, <2>1, PolicyAdd
<1> QED
  BY <1>1, <1>2, <1>11, WinPop

LEMMA WinDecideLoss ==
    ASSUME TypeOK, Linked, WinInv, DecideLoss
    PROVE  WinInv'
<1>1. stack # <<>> /\ policy' = policy
  BY DecideLossInductive
<1>2. /\ pc = "loop" /\ pc' = "ret" /\ stack' = Pop /\ UNCHANGED <<steps, root, result>>
      /\ ret' = FALSE
  BY DEF DecideLoss, Return
<1>3. ClosedIn(steps', policy') /\ EscapesIn(steps', policy')
  BY <1>1, <1>2, WinInvParts
<1> QED
  BY <1>1, <1>2, <1>3, WinPop

LEMMA WinStutter ==
    ASSUME TypeOK, Linked, WinInv, UNCHANGED vars
    PROVE  WinInv'
<1>1. Top' = Top /\ Current' = Current
  BY DEF vars, Current, FrameStep, FrameAction, Top
<1>2. WinControl'
  BY <1>1, WinInvParts DEF vars, WinControl
<1> QED
  BY <1>2, WinInvParts DEF vars

LEMMA WinStep == TypeOK /\ Linked /\ WinInv /\ [Next]_vars => WinInv'
<1> SUFFICES ASSUME TypeOK, Linked, WinInv, [Next]_vars PROVE WinInv'
  OBVIOUS
<1>1. CASE CertifyTerminal \/ Certify \/ Join \/ Unwind
  BY <1>1, WinCaller
<1>2. CASE \/ VisitTerminal \/ VisitDepthCap \/ VisitMemo \/ VisitCycle \/ VisitNodeCap
           \/ ChildWins \/ OverBudget
  BY <1>2, WinQuiet
<1>3. CASE VisitPush
  BY <1>3, WinPush
<1>4. CASE SkipBanned \/ ChildLoses \/ NoProgress
  BY <1>4, WinNextAction
<1>5. CASE \E r \in Steps : StartStep(r) \/ StepThrows(r)
  BY <1>5, WinStepOracle
<1>6. CASE SkipSelfLoop \/ Recurse
  BY <1>6, WinEmit
<1>7. CASE DecideWin \/ DecideLoss
  BY <1>7, WinDecideWin, WinDecideLoss
<1>8. CASE UNCHANGED vars
  BY <1>8, WinStutter
<1> QED
  BY <1>1, <1>2, <1>3, <1>4, <1>5, <1>6, <1>7, <1>8 DEF Next

\* In Exact mode the oracle emits the whole support, so a closed and ranked
\* policy wins surely in the full game.
LEMMA WinProves ==
    ASSUME TypeOK, Linked, WinInv
    PROVE  PolicyWinsSurely
<1> SUFFICES ASSUME mode = "Exact"
             PROVE  /\ WinsSurely(DOMAIN policy, policy)
                    /\ \A s \in DOMAIN policy : <<s, policy[s]>> \in DOMAIN steps
                    /\ result = "WIN" => IsWin(root) \/ root \in DOMAIN policy
  BY DEF PolicyWinsSurely
<1>1. ClosedIn(steps, policy) /\ EscapesIn(steps, policy) /\ WinControl
  BY WinInvParts
<1>2. ASSUME NEW s \in DOMAIN policy
      PROVE  /\ <<s, policy[s]>> \in DOMAIN steps
             /\ Support(s, policy[s]) = Emitted(steps[<<s, policy[s]>>])
  <2>1. <<s, policy[s]>> \in DOMAIN steps /\ steps[<<s, policy[s]>>].complete
    BY <1>1 DEF ClosedIn
  <2>2. EmitsFor(mode, s, steps[<<s, policy[s]>>])
    BY <2>1 DEF Linked, StepsOK
  <2> QED
    BY <2>1, <2>2 DEF EmitsFor, Support
<1>3. StaysWinning(DOMAIN policy, policy)
  BY <1>1, <1>2 DEF StaysWinning, ClosedIn, WonIn
<1>4. Escapes(DOMAIN policy, policy)
  <2> SUFFICES ASSUME NEW Y \in (SUBSET DOMAIN policy) \ {{}}
               PROVE  \E s \in Y : \E c \in Support(s, policy[s]) : c \notin Y
    BY DEF Escapes
  <2>1. PICK s \in Y : \E c \in Emitted(steps[<<s, policy[s]>>]) : c \notin Y
    BY <1>1 DEF EscapesIn
  <2> QED
    BY <1>2, <2>1
<1> QED
  BY <1>1, <1>2, <1>3, <1>4 DEF WinsSurely, WinControl, WonIn

\* A WIN of bsolver_certify in Exact mode is a certificate for every game and
\* cap: the policy it leaves wins with probability one from every state it
\* covers, self-loops included, and it covers the root.
THEOREM WinIsCertificate == Spec => []PolicyWinsSurely
<1>1. Spec => [](TypeOK /\ Linked /\ WinInv)
  BY LinkedInit, LinkedStep, WinInit, WinStep, PTL DEF Spec
<1>2. TypeOK /\ Linked /\ WinInv => PolicyWinsSurely
  BY WinProves
<1> QED
  BY <1>1, <1>2, PTL

-----------------------------------------------------------------------------
(* Cycles.                                                                  *)

\* A set of naturals that has a member has a least one.
LEMMA LeastMember ==
    ASSUME NEW T \in SUBSET Nat, T # {}
    PROVE  \E x \in T : \A y \in T : x <= y
<1> DEFINE R == {ss \in Nat \X Nat : ss[1] < ss[2]}
<1>1. IsWellFoundedOn(R, Nat)
  BY NatLessThanWellFounded, Zenon DEF OpToRel
<1>2. \E x \in T : \A y \in T : ~ (<<y, x>> \in R)
  <2> HIDE DEF R
  <2> QED
    BY <1>1, WFMin, Zenon
<1>3. \A x, y \in T : ~ (<<y, x>> \in R) => x <= y
  OBVIOUS
<1> QED
  BY <1>2, <1>3

\* The state of an activation's current call is in the support of the action
\* the activation is trying, which the player may choose.
LEMMA ChildInSupport ==
    ASSUME TypeOK, NEW f \in Frame, InChild(f)
    PROVE  \E a \in Allowed(f.s) : FrameStep(f).kept[f.ci] \in Support(f.s, a)
<1>1. InStep(f) /\ f.ci \in 1..Len(FrameStep(f).kept)
  BY DEF InChild, InStep
<1>2. FrameAction(f) \in Allowed(f.s) /\ <<f.s, FrameAction(f)>> \in DOMAIN steps
  BY <1>1, InStepFacts DEF InStep
<1>3. FrameStep(f).kept[f.ci] \in FrameStep(f).all
  BY <1>1, <1>2, StepFacts DEF FrameStep
<1> QED
  BY <1>2, <1>3 DEF Support, FrameStep

\* A closed set that holds the state of one activation, or the state that it
\* is asking about, holds the argument of the pending call.
LEMMA ClosedReachesCall ==
    ASSUME TypeOK, Linked, pc = "call", NEW X \in SUBSET State,
           \A s \in X : \A a \in Allowed(s) : Support(s, a) \subseteq X,
           NEW i \in 1..Len(stack), stack[i].s \in X
    PROVE  arg \in X
<1>1. /\ stack \in Seq(Frame) /\ Len(stack) \in Nat /\ stack # <<>>
      /\ \A j \in 1..Len(stack) : stack[j] \in Frame
  BY FrameFacts
<1> DEFINE Out == {j \in 1..Len(stack) : j >= i /\ stack[j].s \notin X}
<1>2. Out = {}
  <2> SUFFICES ASSUME Out # {} PROVE FALSE
    OBVIOUS
  <2>1. Out \in SUBSET Nat
    OBVIOUS
  <2>2. PICK m \in Out : \A j \in Out : m <= j
    BY <2>1, LeastMember
  <2>3. m \in 1..Len(stack) /\ m > i
    OBVIOUS
  <2>4. m - 1 \in 1..(Len(stack) - 1) /\ m - 1 >= i /\ m - 1 \notin Out /\ (m - 1) + 1 = m
    BY <1>1, <2>2, <2>3
  <2> DEFINE k == m - 1
  <2>5. stack[k].s \in X /\ stack[k] \in Frame
    BY <1>1, <2>4
  <2>6. InChild(stack[k]) /\ FrameStep(stack[k]).kept[stack[k].ci] = stack[k + 1].s
    BY <2>4, Zenon DEF Linked, StackLinked
  <2> HIDE DEF k
  <2>7. PICK a \in Allowed(stack[k].s) : stack[k + 1].s \in Support(stack[k].s, a)
    BY <2>5, <2>6, ChildInSupport
  <2>8. stack[k + 1].s \in X
    BY <2>5, <2>7
  <2> QED
    BY <2>2, <2>4, <2>8 DEF k
<1>3. Top \in Frame /\ Top.s \in X
  BY <1>1, <1>2, TopFacts
<1>4. InChild(Top) /\ arg = FrameStep(Top).kept[Top.ci]
  BY <1>1 DEF Linked, ControlLinked, Current
<1>5. PICK a \in Allowed(Top.s) : arg \in Support(Top.s, a)
  BY <1>3, <1>4, ChildInSupport
<1> QED
  BY <1>3, <1>5

\* The state reported is an activation below the top one, and the one above it
\* is a child of it other than itself.
LEMMA CycleVisit ==
    ASSUME TypeOK, Linked, VisitCycle
    PROVE  CycleInv'
<1>1. /\ pc = "call" /\ OnStack(arg) /\ pc' = "stop" /\ cycleKey' = {arg}
      /\ UNCHANGED steps
  BY DEF VisitCycle, Undecided, Stop
<1>2. PICK i \in 1..Len(stack) : stack[i].s = arg
  BY <1>1 DEF OnStack
<1>3. /\ stack \in Seq(Frame) /\ Len(stack) \in Nat /\ stack # <<>>
      /\ \A j \in 1..Len(stack) : stack[j] \in Frame
  BY FrameFacts
<1>4. InChild(Top) /\ arg = FrameStep(Top).kept[Top.ci] /\ arg # Top.s
  BY <1>1, <1>3 DEF Linked, ControlLinked, Current, InChild
<1>5. i \in 1..(Len(stack) - 1) /\ i + 1 \in 1..Len(stack)
  BY <1>2, <1>3, <1>4 DEF Top
<1>6. stack[i + 1].s # arg
  <2>1. stack[i + 1].s = stack[i].s => i + 1 = i
    BY <1>5, Zenon DEF Linked, StackUndecided
  <2> QED
    BY <1>2, <2>1
<1>7. InChild(stack[i]) /\ FrameStep(stack[i]).kept[stack[i].ci] = stack[i + 1].s
  BY <1>5 DEF Linked, StackLinked
<1>8. PICK a \in Allowed(arg) : stack[i + 1].s \in Support(arg, a)
  BY <1>2, <1>3, <1>7, ChildInSupport
<1>9. ASSUME NEW X \in SUBSET State,
             \A b \in Allowed(arg) : Support(arg, b) \ {arg} \subseteq X,
             \A s \in X : \A b \in Allowed(s) : Support(s, b) \subseteq X
      PROVE  arg \in X
  <2>1. stack[i + 1].s \in X
    BY <1>6, <1>8, <1>9
  <2> QED
    BY <1>1, <1>5, <1>9, <2>1, ClosedReachesCall
<1>10. CycleExists'
  BY <1>1, <1>9 DEF CycleExists, Support, Allowed
<1> QED
  BY <1>1, <1>10 DEF CycleInv

\* No other step reports a cycle, and the oracle is not asked any more once
\* one is reported.
LEMMA CycleOther ==
    ASSUME TypeOK, Linked, CycleInv, UNCHANGED cycleKey,
           \/ cycleKey = {}
           \/ UNCHANGED steps /\ pc' \in {"stop", "idle"}
    PROVE  CycleInv'
BY DEF CycleInv, CycleExists, Support, Allowed

LEMMA CycleStep == TypeOK /\ Linked /\ CycleInv /\ [Next]_vars => CycleInv'
<1> SUFFICES ASSUME TypeOK, Linked, CycleInv, [Next]_vars PROVE CycleInv'
  OBVIOUS
<1> USE DEF searchVars, stopVars
<1>1. CASE VisitCycle
  BY <1>1, CycleVisit
<1>2. CASE Unwind
  BY <1>2, CycleOther DEF Unwind
<1>3. CASE UNCHANGED vars
  BY <1>3, CycleOther DEF vars, CycleInv
<1>4. CASE pc \notin {"stop", "idle"} /\ UNCHANGED cycleKey
  BY <1>4, CycleOther DEF CycleInv
<1>5. CASE \E r \in Steps : StartStep(r) \/ StepThrows(r)
  BY <1>4, <1>5 DEF StartStep, StepThrows, OracleStepFor, MoreActions
<1> QED
  BY <1>1, <1>2, <1>3, <1>4, <1>5
  DEF Next, CertifyTerminal, Certify, Join, VisitTerminal, VisitDepthCap, VisitMemo,
      VisitNodeCap, VisitPush, SkipBanned, SkipSelfLoop, Recurse, ChildWins, ChildLoses,
      OverBudget, NoProgress, DecideWin, DecideLoss, Undecided, MoreActions, Emitting,
      AllEmitted, Stop

\* The cycle that INDETERMINATE with reason Cycle names (cycle_key) is one of
\* the game: whatever the player may choose, no set that is closed under the
\* turns from there avoids coming back to it.
THEOREM ReportedCycleExists == Spec => []CycleExists
<1>1. Init => CycleInv
  BY DEF Init, CycleInv, CycleExists
<1>2. Spec => [](TypeOK /\ Linked /\ CycleInv)
  BY <1>1, LinkedInit, LinkedStep, CycleStep, PTL DEF Spec
<1>3. CycleInv => CycleExists
  BY DEF CycleInv
<1> QED
  BY <1>2, <1>3, PTL
=============================================================================
