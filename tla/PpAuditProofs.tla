--------------------------- MODULE PpAuditProofs ---------------------------
(***************************************************************************)
(* Proofs about the PP audit, for every certificate, every number of slots *)
(* and every PP: the audit never throws, its use numbers are the maximum   *)
(* over lines of play, and an accepted certificate keeps the PP profile of *)
(* the root as long as no move changes an ability in the middle of a turn. *)
(***************************************************************************)
EXTENDS PpAudit, SequenceTheorems, TLAPS

\* What the assumption on Certificates says of the certificate at hand.
LEMMA CertTypes ==
    ASSUME TypeOK
    PROVE  /\ DOMAIN cert \subseteq Bucket /\ WinLeaf \notin DOMAIN cert
           /\ \A b \in DOMAIN cert :
                /\ cert[b].slot \in Actor
                /\ cert[b].oppPressure \in BOOLEAN /\ cert[b].plPressure \in BOOLEAN
                /\ cert[b].next \subseteq Edge
           /\ realPp \in [Slot -> Nat]
  BY PpAuditAssumption DEF TypeOK, Node

\* What a frame of the walk is.
LEMMA PathTypes ==
    ASSUME TypeOK
    PROVE  /\ Len(path) \in Nat /\ DOMAIN path = 1..Len(path)
           /\ \A i \in 1..Len(path) : path[i].b \in DOMAIN cert /\ path[i].rest \subseteq Edge
           /\ path # <<>> => Len(path) \in 1..Len(path)
           /\ Len(built) \in Nat /\ DOMAIN built = 1..Len(built)
           /\ \A i \in 1..Len(built) : built[i] \in DOMAIN cert
  <1>1. path \in Seq([b : DOMAIN cert, rest : SUBSET Edge]) /\ built \in Seq(DOMAIN cert)
    BY DEF TypeOK
  <1>2. \A i \in 1..Len(path) : path[i] \in [b : DOMAIN cert, rest : SUBSET Edge]
    <2> DEFINE F == [b : DOMAIN cert, rest : SUBSET Edge]
    <2>1. path \in Seq(F)
      BY <1>1
    <2> HIDE DEF F
    <2>3. \A i \in 1..Len(path) : path[i] \in F
      BY <2>1, ElementOfSeq
    <2> QED BY <2>3 DEF F
  <1>3. \A i \in 1..Len(path) : path[i].b \in DOMAIN cert /\ path[i].rest \subseteq Edge
    BY <1>2
  <1>4. path # <<>> => Len(path) \in Nat \ {0}
    BY <1>1, EmptySeq
  <1> QED BY <1>1, <1>3, <1>4

\* A cost is 0, 1 or 2.
LEMMA CostType ==
    ASSUME NEW a, NEW pressure, NEW s
    PROVE  CostAt(a, pressure, s) \in 0..2
  BY DEF CostAt, action_pp_cost

LEMMA OwnUseType ==
    ASSUME NEW b, NEW s
    PROVE  OwnUse(b, s) \in Nat
  <1>1. OwnUse(b, s) \in 0..2
    BY CostType DEF OwnUse
  <1> QED BY <1>1

\* The use of a branch is a number once its child is finished.
LEMMA BranchType ==
    ASSUME TypeOK, NEW b, NEW e, NEW s \in Slot,
           e.child = WinLeaf \/ e.child \in DOMAIN use
    PROVE  Branch(b, e, s) \in Nat
  <1>1. CostAt(e.slot, cert[b].plPressure, s) \in Nat
    <2>1. CostAt(e.slot, cert[b].plPressure, s) \in 0..2
      BY CostType
    <2> QED BY <2>1
  <1>2. Below(e)[s] \in Nat
    BY DEF TypeOK, Below, Zero
  <1> QED BY <1>1, <1>2 DEF Branch

-----------------------------------------------------------------------------
\* The walk of build_cert_node and the DP start from the invariant.
LEMMA InitAudit ==
    ASSUME Init
    PROVE  AuditInv
  <1> USE DEF Init
  <1>1. DOMAIN cert \subseteq Bucket /\ \A b \in DOMAIN cert : cert[b].next \in SUBSET Edge
    BY PpAuditAssumption DEF Node
  <1>2. Len(path) = 1 /\ path[1] = Frame(root) /\ path[1].b = root /\ path[1].rest = cert[root].next
    BY DEF Frame
  <1>3. Len(built) = 0 /\ DOMAIN built = {} /\ BuiltSet = {}
    BY DEF BuiltSet
  <1>4. TypeOK
    <2>1. path \in Seq([b : DOMAIN cert, rest : SUBSET Edge])
      BY <1>1 DEF Frame
    <2>2. built \in Seq(DOMAIN cert) /\ childMax \in [Slot -> Nat]
      BY DEF Zero
    <2>3. use \in [DOMAIN use -> [Slot -> Nat]]
      BY DEF NoUse, Zero
    <2>4. pp \in [Slot -> Nat]
      BY PpAuditAssumption
    <2> QED BY <2>1, <2>2, <2>3, <2>4 DEF TypeOK
  <1>5. WalkInv
    <2>1. CertGood
      BY DEF CertGood
    <2>2. PathLinked
      BY <1>2, <1>3 DEF PathLinked
    <2>3. PathVisited
      BY <1>2 DEF PathVisited
    <2>4. BuiltOnce /\ ChildrenFirst
      BY <1>3 DEF BuiltOnce, ChildrenFirst
    <2> QED BY <2>1, <2>2, <2>3, <2>4 DEF WalkInv
  <1>6. DpInv
    <2>1. DOMAIN use = {} /\ {built[j] : j \in 1..(idx - 1)} = {}
      BY DEF NoUse
    <2>2. DpProgress
      BY <2>1, <1>3 DEF DpProgress, Walking, Audited
    <2>3. MergedMax /\ UseIsMaximum
      BY <2>1 DEF MergedMax, UseIsMaximum
    <2> QED BY <2>2, <2>3 DEF DpInv
  <1> QED BY <1>4, <1>5, <1>6 DEF AuditInv, AuditNeverThrows

\* A child that is still to be walked is never on the path: the path from
\* that bucket up would be a set every bucket of which has a child in it.
LEMMA NotOnPath ==
    ASSUME AuditInv, path # <<>>, NEW e \in cert[PathTop.b].next
    PROVE  ~OnPath(e.child)
  <1>0. Len(path) \in Nat /\ DOMAIN path = 1..Len(path)
        /\ \A i \in 1..Len(path) : path[i].b \in DOMAIN cert
    BY PathTypes DEF AuditInv
  <1>1. SUFFICES ASSUME NEW k \in 1..Len(path), path[k].b = e.child
                 PROVE  FALSE
    BY <1>0 DEF OnPath, PathSet
  <1> DEFINE X == {path[i].b : i \in k..Len(path)}
  <1>2. X \in (SUBSET DOMAIN cert) \ {{}}
    <2>1. \A i \in k..Len(path) : path[i].b \in DOMAIN cert
      BY <1>0
    <2>2. path[k].b \in X
      BY <1>0
    <2> QED BY <2>1, <2>2
  <1>3. PICK b \in X : \A f \in cert[b].next : f.child \notin X
    BY <1>2 DEF AuditInv, WalkInv, CertGood, AcyclicCert
  <1>4. PICK i \in k..Len(path) : b = path[i].b
    OBVIOUS
  <1>5. CASE i = Len(path)
    <2>1. path[k].b \in X
      BY <1>0
    <2>2. e \in cert[b].next
      BY <1>4, <1>5 DEF PathTop
    <2> QED BY <1>1, <1>3, <2>1, <2>2
  <1>6. CASE i # Len(path)
    <2>1. i \in 1..(Len(path) - 1) /\ i + 1 \in k..Len(path)
      BY <1>0, <1>6
    <2>2. PICK f \in cert[path[i].b].next : f.child = path[i + 1].b
      BY <2>1 DEF AuditInv, WalkInv, PathLinked
    <2>3. path[i + 1].b \in X
      BY <2>1
    <2> QED BY <1>3, <1>4, <2>2, <2>3
  <1> QED BY <1>5, <1>6

LEMMA NeverThrowsStep ==
    ASSUME AuditInv, path # <<>>, NEW e \in cert[PathTop.b].next, e.child # WinLeaf
    PROVE  ~WalkThrows(e.child) /\ e.child \in DOMAIN cert
  <1>1. PathTop.b \in DOMAIN cert
    BY PathTypes DEF AuditInv, PathTop
  <1>2. e.child \in DOMAIN cert
    BY <1>1 DEF AuditInv, WalkInv, CertGood, ClosedCert
  <1>3. ~OnPath(e.child)
    BY NotOnPath
  <1> QED BY <1>2, <1>3 DEF WalkThrows

\* Passing a child only shortens the top frame's rest.
LEMMA PastFacts ==
    ASSUME TypeOK, path # <<>>, NEW e
    PROVE  /\ Past(e) \in Seq([b : DOMAIN cert, rest : SUBSET Edge])
           /\ Len(Past(e)) = Len(path)
           /\ \A i \in 1..Len(path) : Past(e)[i].b = path[i].b
           /\ \A i \in 1..(Len(path) - 1) : Past(e)[i] = path[i]
           /\ Past(e)[Len(path)].rest = PathTop.rest \ {e}
  <1> DEFINE F == [b : DOMAIN cert, rest : SUBSET Edge]
             f == [b |-> PathTop.b, rest |-> PathTop.rest \ {e}]
  <1>1. path \in Seq(F) /\ Len(path) \in 1..Len(path)
    BY PathTypes DEF TypeOK
  <1>2. PathTop.b \in DOMAIN cert /\ PathTop.rest \subseteq Edge
    BY <1>1, PathTypes DEF PathTop
  <1>3. f \in F /\ f.b = PathTop.b /\ f.rest = PathTop.rest \ {e}
    BY <1>2
  <1>4. /\ Past(e) \in Seq(F)
        /\ Len(Past(e)) = Len(path)
        /\ \A j \in 1..Len(path) : Past(e)[j] = IF j = Len(path) THEN f ELSE path[j]
    <2> HIDE DEF F
    <2>1. f \in F
      BY <1>3
    <2> HIDE DEF f
    <2>2. /\ [path EXCEPT ![Len(path)] = f] \in Seq(F)
          /\ Len([path EXCEPT ![Len(path)] = f]) = Len(path)
          /\ \A j \in 1..Len(path) :
                [path EXCEPT ![Len(path)] = f][j] = IF j = Len(path) THEN f ELSE path[j]
      BY <1>1, <2>1, ExceptSeq
    <2>3. Past(e) = [path EXCEPT ![Len(path)] = f]
      BY DEF Past, f
    <2> QED BY <2>2, <2>3
  <1> QED BY <1>1, <1>3, <1>4 DEF PathTop

\* A step that leaves the DP alone keeps its part of the invariant.
LEMMA DpKept ==
    ASSUME DpInv, Walking, pc' = "walk", UNCHANGED <<cert, built, idx, todo, childMax, use>>
    PROVE  DpInv'
  <1>1. DpProgress'
    BY DEF DpInv, DpProgress, Walking, Audited, Zero
  <1>2. MergedMax'
    BY DEF MergedMax
  <1>3. UseIsMaximum'
    BY DEF DpInv, UseIsMaximum, OwnUse, Branch, Below, CostAt, action_pp_cost, Zero
  <1> QED BY <1>1, <1>2, <1>3 DEF DpInv

\* The walk passes a leaf or a finished node.
LEMMA WalkPastStep ==
    ASSUME AuditInv, pc = "walk", path # <<>>, NEW e \in PathTop.rest,
           e.child = WinLeaf \/ e.child \in BuiltSet,
           path' = Past(e),
           UNCHANGED <<certVars, pc, built, idx, todo, childMax, use, at, pp, asCharged>>
    PROVE  AuditInv'
  <1> USE DEF AuditInv, certVars
  <1>0. Len(path) \in Nat /\ Len(path) \in 1..Len(path) /\ DOMAIN built = 1..Len(built)
        /\ Len(built) \in Nat
    BY PathTypes
  <1>1. /\ path' \in Seq([b : DOMAIN cert, rest : SUBSET Edge])
        /\ Len(path') = Len(path)
        /\ \A i \in 1..Len(path) : path'[i].b = path[i].b
        /\ \A i \in 1..(Len(path) - 1) : path'[i] = path[i]
        /\ path'[Len(path)].rest = PathTop.rest \ {e}
    BY PastFacts
  <1>2. TypeOK'
    BY <1>1 DEF TypeOK
  <1>3. WalkInv'
    <2> USE DEF WalkInv
    <2>1. BuiltSet' = BuiltSet
      BY DEF BuiltSet
    <2>2. CertGood'
      BY DEF CertGood, ClosedCert, AcyclicCert
    <2>3. PathLinked'
      <3>1. path' # <<>>
        BY <1>0, <1>1
      <3>2. path'[1].b = root
        BY <1>0, <1>1 DEF PathLinked
      <3>3. \A i \in 1..(Len(path) - 1) : i \in 1..Len(path) /\ i + 1 \in 1..Len(path)
        BY <1>0
      <3>4. \A i \in 1..(Len(path') - 1) : \E f \in cert[path'[i].b].next : f.child = path'[i + 1].b
        <4>1. SUFFICES ASSUME NEW i \in 1..(Len(path) - 1)
                       PROVE  \E f \in cert[path'[i].b].next : f.child = path'[i + 1].b
          BY <1>1
        <4>2. \E f \in cert[path[i].b].next : f.child = path[i + 1].b
          BY DEF PathLinked
        <4>3. path'[i].b = path[i].b /\ path'[i + 1].b = path[i + 1].b
          BY <1>1, <3>3
        <4> QED BY <4>2, <4>3
      <3>5. \A i, j \in 1..Len(path') : path'[i].b = path'[j].b => i = j
        BY <1>1 DEF PathLinked
      <3>6. \A i \in 1..Len(path') : path'[i].b \notin BuiltSet'
        BY <1>1, <2>1 DEF PathLinked
      <3> QED BY <3>1, <3>2, <3>4, <3>5, <3>6 DEF PathLinked
    <2>4. PathVisited'
      <3>1. SUFFICES ASSUME NEW i \in 1..Len(path)
                     PROVE  /\ path'[i].rest \subseteq cert[path[i].b].next
                            /\ \A f \in cert[path[i].b].next \ path'[i].rest :
                                  \/ f.child = WinLeaf
                                  \/ f.child \in BuiltSet
                                  \/ i < Len(path) /\ f.child = path'[i + 1].b
        BY <1>1, <2>1 DEF PathVisited
      <3>2. CASE i = Len(path)
        BY <1>0, <1>1, <3>2 DEF PathVisited, PathTop
      <3>3. CASE i # Len(path)
        <4>1. i \in 1..(Len(path) - 1) /\ i + 1 \in 1..Len(path)
          BY <1>0, <3>3
        <4> QED BY <1>1, <4>1 DEF PathVisited
      <3> QED BY <3>2, <3>3
    <2>5. BuiltOnce' /\ ChildrenFirst'
      BY DEF BuiltOnce, ChildrenFirst
    <2> QED BY <2>2, <2>3, <2>4, <2>5
  <1>4. DpInv'
    BY DpKept DEF Walking
  <1> QED BY <1>2, <1>3, <1>4 DEF AuditNeverThrows

\* The walk enters a new bucket.
LEMMA WalkPushStep ==
    ASSUME AuditInv, pc = "walk", path # <<>>, NEW e \in PathTop.rest,
           e.child # WinLeaf, e.child \notin BuiltSet,
           path' = Append(Past(e), Frame(e.child)),
           UNCHANGED <<certVars, pc, built, idx, todo, childMax, use, at, pp, asCharged>>
    PROVE  AuditInv'
  <1> USE DEF AuditInv, certVars
  <1> DEFINE n == Len(path)
             F == [b : DOMAIN cert, rest : SUBSET Edge]
  <1>0. n \in Nat /\ n \in 1..n /\ DOMAIN path = 1..n
    BY PathTypes
  <1>1. e \in cert[PathTop.b].next
    BY <1>0 DEF WalkInv, PathVisited, PathTop
  <1>2. e.child \in DOMAIN cert /\ ~OnPath(e.child)
    BY <1>1, NeverThrowsStep, NotOnPath
  <1>3. \A i \in 1..n : path[i].b # e.child
    BY <1>0, <1>2 DEF OnPath, PathSet
  <1>4. Frame(e.child) \in F /\ Frame(e.child).b = e.child
        /\ Frame(e.child).rest = cert[e.child].next
    BY <1>2, CertTypes DEF Frame
  <1>5. /\ path' \in Seq(F)
        /\ Len(path') = n + 1
        /\ \A i \in 1..n : path'[i].b = path[i].b
        /\ \A i \in 1..(n - 1) : path'[i] = path[i]
        /\ path'[n].rest = PathTop.rest \ {e}
        /\ path'[n + 1].b = e.child
        /\ path'[n + 1].rest = cert[e.child].next
    <2>1. /\ Past(e) \in Seq(F)
          /\ Len(Past(e)) = n
          /\ \A i \in 1..n : Past(e)[i].b = path[i].b
          /\ \A i \in 1..(n - 1) : Past(e)[i] = path[i]
          /\ Past(e)[n].rest = PathTop.rest \ {e}
      BY PastFacts
    <2> HIDE DEF F, n
    <2>2. /\ path' \in Seq(F)
          /\ Len(path') = n + 1
          /\ \A i \in 1..n : path'[i] = Past(e)[i]
          /\ path'[n + 1] = Frame(e.child)
      BY <1>0, <1>4, <2>1
    <2> QED BY <1>0, <1>4, <2>1, <2>2
  <1>6. TypeOK'
    BY <1>5 DEF TypeOK
  <1> HIDE DEF n, F
  <1>9. n \in Nat \ {0} /\ \A i \in 1..(n + 1) : i \in 1..(n - 1) \/ i = n \/ i = n + 1
    BY <1>0
  <1>10. \A i \in 1..(n + 1) : i \in 1..n \/ i = n + 1
    BY <1>9
  <1>7. WalkInv'
    <2> USE DEF WalkInv
    <2>1. BuiltSet' = BuiltSet
      BY DEF BuiltSet
    <2>2. CertGood'
      BY DEF CertGood, ClosedCert, AcyclicCert
    <2>3. PathLinked'
      <3>1. path' # <<>>
        BY <1>0, <1>5
      <3>2. path'[1].b = root
        BY <1>0, <1>5 DEF PathLinked
      <3>3. \A i \in 1..(Len(path') - 1) : \E f \in cert[path'[i].b].next : f.child = path'[i + 1].b
        <4>1. SUFFICES ASSUME NEW i \in 1..n
                       PROVE  \E f \in cert[path'[i].b].next : f.child = path'[i + 1].b
          BY <1>0, <1>5
        <4>2. CASE i = n
          BY <1>0, <1>1, <1>5, <4>2 DEF PathTop, n
        <4>3. CASE i # n
          <5>1. i \in 1..(Len(path) - 1) /\ i + 1 \in 1..n
            BY <1>0, <4>3 DEF n
          <5>2. \E f \in cert[path[i].b].next : f.child = path[i + 1].b
            BY <5>1 DEF PathLinked
          <5>3. path'[i].b = path[i].b /\ path'[i + 1].b = path[i + 1].b
            BY <1>5, <5>1
          <5> QED BY <5>2, <5>3
        <4> QED BY <4>2, <4>3
      <3>4. \A i, j \in 1..(n + 1) : path'[i].b = path'[j].b => i = j
        <4>1. SUFFICES ASSUME NEW i \in 1..(n + 1), NEW j \in 1..(n + 1), path'[i].b = path'[j].b
                       PROVE  i = j
          OBVIOUS
        <4>2. CASE i \in 1..n /\ j \in 1..n
          BY <1>5, <4>1, <4>2 DEF PathLinked, n
        <4>3. CASE i = n + 1 /\ j \in 1..n
          BY <1>3, <1>5, <4>1, <4>3
        <4>4. CASE j = n + 1 /\ i \in 1..n
          BY <1>3, <1>5, <4>1, <4>4
        <4> QED BY <1>0, <4>2, <4>3, <4>4
      <3>5. \A i \in 1..(n + 1) : path'[i].b \notin BuiltSet'
        <4>1. SUFFICES ASSUME NEW i \in 1..(n + 1)
                       PROVE  path'[i].b \notin BuiltSet
          BY <2>1
        <4>2. CASE i = n + 1
          BY <1>5, <4>2
        <4>3. CASE i \in 1..n
          BY <1>5, <4>3 DEF PathLinked, n
        <4> QED BY <1>10, <4>2, <4>3
      <3> QED BY <1>5, <3>1, <3>2, <3>3, <3>4, <3>5 DEF PathLinked
    <2>4. PathVisited'
      <3>1. SUFFICES ASSUME NEW i \in 1..(n + 1)
                     PROVE  /\ path'[i].rest \subseteq cert[path'[i].b].next
                            /\ \A f \in cert[path'[i].b].next \ path'[i].rest :
                                  \/ f.child = WinLeaf
                                  \/ f.child \in BuiltSet
                                  \/ i < n + 1 /\ f.child = path'[i + 1].b
        BY <1>5, <2>1 DEF PathVisited
      <3>2. CASE i = n + 1
        BY <1>5, <3>2
      <3>3. CASE i = n
        <4>1. PathTop = path[n] /\ n \in 1..Len(path)
          BY <1>0 DEF PathTop, n
        <4>2. /\ PathTop.rest \subseteq cert[PathTop.b].next
              /\ \A f \in cert[PathTop.b].next \ PathTop.rest :
                    f.child = WinLeaf \/ f.child \in BuiltSet
          BY <4>1, <1>9 DEF PathVisited, n
        <4>3. path'[n].b = PathTop.b /\ path'[n].rest = PathTop.rest \ {e} /\ path'[n + 1].b = e.child
          BY <4>1, <1>0, <1>5
        <4>4. \A f \in cert[PathTop.b].next \ (PathTop.rest \ {e}) :
                 f.child = WinLeaf \/ f.child \in BuiltSet \/ f.child = e.child
          BY <4>2
        <4>5. n < n + 1
          BY <1>9
        <4> QED BY <4>2, <4>3, <4>4, <4>5, <3>3
      <3>4. CASE i \in 1..(n - 1)
        <4>1. i \in 1..Len(path) /\ i + 1 \in 1..n /\ i < Len(path)
          BY <1>0, <3>4 DEF n
        <4>2. path'[i] = path[i] /\ path'[i + 1].b = path[i + 1].b
          BY <1>5, <3>4, <4>1
        <4> QED BY <1>0, <4>1, <4>2 DEF PathVisited, n
      <3> QED BY <1>9, <3>2, <3>3, <3>4
    <2>5. BuiltOnce' /\ ChildrenFirst'
      BY DEF BuiltOnce, ChildrenFirst
    <2> QED BY <2>2, <2>3, <2>4, <2>5
  <1>8. DpInv'
    BY DpKept DEF Walking
  <1> QED BY <1>6, <1>7, <1>8 DEF AuditNeverThrows

LEMMA WalkEdgeStep ==
    ASSUME AuditInv, NEW e, WalkEdge(e)
    PROVE  AuditInv'
  <1> USE DEF WalkEdge, IsBuilt
  <1>1. Len(path) \in 1..Len(path)
    BY PathTypes DEF AuditInv
  <1>2. e \in cert[PathTop.b].next
    BY <1>1 DEF AuditInv, WalkInv, PathVisited, PathTop
  <1>3. CASE e.child = WinLeaf
    <2>1. path' = Past(e) /\ UNCHANGED pc
      BY <1>3
    <2> QED BY <1>3, <2>1, WalkPastStep
  <1>4. CASE e.child # WinLeaf
    <2>1. ~WalkThrows(e.child)
      BY <1>2, <1>4, NeverThrowsStep
    <2>2. CASE e.child \in BuiltSet
      BY <1>4, <2>1, <2>2, WalkPastStep
    <2>3. CASE e.child \notin BuiltSet
      BY <1>4, <2>1, <2>3, WalkPushStep
    <2> QED BY <2>2, <2>3
  <1> QED BY <1>3, <1>4

\* The top frame has no child left: its bucket becomes a node.
LEMMA WalkDoneStep ==
    ASSUME AuditInv, WalkDone
    PROVE  AuditInv'
  <1> USE DEF AuditInv, WalkDone, certVars
  <1> DEFINE n == Len(path)
             m == Len(built)
             F == [b : DOMAIN cert, rest : SUBSET Edge]
  <1>0. /\ n \in Nat \ {0} /\ n \in 1..n /\ m \in Nat
        /\ DOMAIN built = 1..m /\ PathTop = path[n]
        /\ \A i \in 1..n : path[i].b \in DOMAIN cert
        /\ \A i \in 1..m : built[i] \in DOMAIN cert
    BY PathTypes DEF PathTop
  <1>1. path' \in Seq(F) /\ Len(path') = n - 1 /\ \A i \in 1..(n - 1) : path'[i] = path[i]
    <2>1. path \in Seq(F)
      BY DEF TypeOK
    <2> HIDE DEF F
    <2>2. \A i \in 1..(n - 1) : path[i] \in F
      BY <1>0, <2>1, ElementOfSeq
    <2>3. path' = SubSeq(path, 1, n - 1)
      OBVIOUS
    <2> HIDE DEF n
    <2> QED BY <1>0, <2>2, <2>3, SubSeqProperties
  <1>2. /\ built' \in Seq(DOMAIN cert)
        /\ Len(built') = m + 1
        /\ \A i \in 1..m : built'[i] = built[i]
        /\ built'[m + 1] = path[n].b
    <2>1. built \in Seq(DOMAIN cert) /\ path[n].b \in DOMAIN cert
      BY <1>0 DEF TypeOK
    <2>2. built' = Append(built, path[n].b)
      BY <1>0
    <2> QED BY <2>1, <2>2
  <1>3. TypeOK'
    BY <1>1, <1>2 DEF TypeOK
  <1>4. BuiltSet' = BuiltSet \union {path[n].b}
    <2>1. DOMAIN built' = 1..(m + 1)
      BY <1>0, <1>2
    <2>2. \A i \in 1..(m + 1) : i \in 1..m \/ i = m + 1
      BY <1>0
    <2>3. m + 1 \in 1..(m + 1) /\ \A i \in 1..m : i \in 1..(m + 1)
      BY <1>0
    <2> HIDE DEF m, n
    <2> QED BY <1>0, <1>2, <2>1, <2>2, <2>3 DEF BuiltSet
  <1>5. \A i \in 1..(n - 1) : i \in 1..n /\ i < n /\ i # n
    BY <1>0
  <1>6. PathLinked'
    <2> USE DEF WalkInv
    <2>1. path' # <<>> => path'[1].b = root
      BY <1>0, <1>1 DEF PathLinked
    <2>2. path' = <<>> => root \in BuiltSet'
      BY <1>0, <1>1, <1>4 DEF PathLinked
    <2>3. \A i \in 1..(n - 2) : \E f \in cert[path'[i].b].next : f.child = path'[i + 1].b
      <3>1. SUFFICES ASSUME NEW i \in 1..(n - 2)
                     PROVE  \E f \in cert[path'[i].b].next : f.child = path'[i + 1].b
        OBVIOUS
      <3>2. i \in 1..(Len(path) - 1) /\ i + 1 \in 1..(n - 1)
        BY <1>0
      <3>3. \E f \in cert[path[i].b].next : f.child = path[i + 1].b
        BY <3>2 DEF PathLinked
      <3> QED BY <3>2, <3>3, <1>1
    <2>4. \A i, j \in 1..(n - 1) : path'[i].b = path'[j].b => i = j
      BY <1>1, <1>5 DEF PathLinked
    <2>5. \A i \in 1..(n - 1) : path'[i].b \notin BuiltSet'
      BY <1>0, <1>1, <1>4, <1>5 DEF PathLinked
    <2>6. n - 1 - 1 = n - 2
      BY <1>0
    <2> QED BY <1>1, <2>1, <2>2, <2>3, <2>4, <2>5, <2>6 DEF PathLinked
  <1>7. PathVisited'
    <2>1. SUFFICES ASSUME NEW i \in 1..(n - 1)
                   PROVE  /\ path[i].rest \subseteq cert[path[i].b].next
                          /\ \A f \in cert[path[i].b].next \ path[i].rest :
                                \/ f.child = WinLeaf
                                \/ f.child \in BuiltSet'
                                \/ i < n - 1 /\ f.child = path'[i + 1].b
      BY <1>1 DEF PathVisited
    <2>2. /\ path[i].rest \subseteq cert[path[i].b].next
          /\ \A f \in cert[path[i].b].next \ path[i].rest :
                f.child = WinLeaf \/ f.child \in BuiltSet \/ f.child = path[i + 1].b
      BY <1>5 DEF WalkInv, PathVisited
    <2>3. CASE i = n - 1
      <3>1. i + 1 = n
        BY <1>0, <2>3
      <3> QED BY <1>4, <2>2, <3>1
    <2>4. CASE i < n - 1
      <3>1. i + 1 \in 1..(n - 1)
        BY <1>0, <2>4
      <3> QED BY <1>1, <1>4, <2>2, <2>4, <3>1
    <2> QED BY <1>0, <2>3, <2>4
  <1>8. BuiltOnce'
    <2>1. SUFFICES ASSUME NEW i \in 1..(m + 1), NEW j \in 1..(m + 1), built'[i] = built'[j]
                   PROVE  i = j
      BY <1>2 DEF BuiltOnce
    <2>2. \A k \in 1..m : built[k] # path[n].b
      BY <1>0 DEF WalkInv, PathLinked, BuiltSet
    <2>3. CASE i \in 1..m /\ j \in 1..m
      BY <1>2, <2>1, <2>3 DEF WalkInv, BuiltOnce
    <2>4. CASE i = m + 1 /\ j \in 1..m
      BY <1>2, <2>1, <2>2, <2>4
    <2>5. CASE j = m + 1 /\ i \in 1..m
      BY <1>2, <2>1, <2>2, <2>5
    <2> QED BY <1>0, <2>3, <2>4, <2>5
  <1>9. ChildrenFirst'
    <2>1. SUFFICES ASSUME NEW i \in 1..(m + 1), NEW e \in cert[built'[i]].next, e.child # WinLeaf
                   PROVE  \E j \in 1..(i - 1) : built'[j] = e.child
      BY <1>2 DEF ChildrenFirst
    <2>2. CASE i \in 1..m
      <3>1. PICK j \in 1..(i - 1) : built[j] = e.child
        BY <1>2, <2>1, <2>2 DEF WalkInv, ChildrenFirst
      <3>2. j \in 1..m
        BY <1>0, <2>2
      <3> QED BY <1>2, <3>1, <3>2
    <2>3. CASE i = m + 1
      <3>1. e \in cert[path[n].b].next \ path[n].rest
        BY <1>0, <1>2, <2>3
      <3>2. e.child \in BuiltSet
        BY <1>0, <2>1, <3>1 DEF WalkInv, PathVisited
      <3>3. PICK j \in 1..m : built[j] = e.child
        BY <1>0, <3>2 DEF BuiltSet
      <3>4. j \in 1..(i - 1)
        BY <1>0, <2>3
      <3> QED BY <1>2, <3>3, <3>4
    <2> QED BY <1>0, <2>2, <2>3
  <1>10. WalkInv'
    <2>1. CertGood'
      BY DEF WalkInv, CertGood, ClosedCert, AcyclicCert
    <2> QED BY <2>1, <1>6, <1>7, <1>8, <1>9 DEF WalkInv
  <1>11. DpInv'
    <2>1. DpProgress'
      <3>1. idx = 1 /\ childMax = Zero
        BY DEF DpInv, DpProgress, Walking
      <3>2. 1..(idx - 1) = {}
        BY <3>1
      <3>3. DOMAIN use = {} /\ {built'[j] : j \in 1..(idx - 1)} = {}
        BY <3>2 DEF DpInv, DpProgress
      <3> QED BY <1>0, <1>2, <3>1, <3>3 DEF DpProgress, Walking, Audited, Zero
    <2>2. MergedMax'
      BY DEF MergedMax
    <2>3. UseIsMaximum'
      BY DEF DpInv, UseIsMaximum, OwnUse, Branch, Below, CostAt, action_pp_cost, Zero
    <2> QED BY <2>1, <2>2, <2>3 DEF DpInv
  <1> QED BY <1>3, <1>10, <1>11 DEF AuditNeverThrows

-----------------------------------------------------------------------------
\* visit_node: every child of a node before idx, or at idx, is finished.
LEMMA ChildrenFinished ==
    ASSUME AuditInv, NEW i \in 1..Len(built), i <= idx,
           NEW e \in cert[built[i]].next, e.child # WinLeaf
    PROVE  e.child \in DOMAIN use
  <1>1. PICK j \in 1..(i - 1) : built[j] = e.child
    BY DEF AuditInv, WalkInv, ChildrenFirst
  <1>2. j \in 1..(idx - 1)
    BY DEF AuditInv, TypeOK
  <1> QED BY <1>1, <1>2 DEF AuditInv, DpInv, DpProgress

\* The walk's part of the invariant does not depend on the DP.
LEMMA WalkKept ==
    ASSUME WalkInv, UNCHANGED <<certVars, path, built>>
    PROVE  WalkInv'
  <1> USE DEF certVars
  <1>1. BuiltSet' = BuiltSet
    BY DEF BuiltSet
  <1>2. CertGood'
    BY DEF WalkInv, CertGood, ClosedCert, AcyclicCert
  <1>3. PathLinked'
    BY <1>1 DEF WalkInv, PathLinked
  <1>4. PathVisited'
    BY <1>1 DEF WalkInv, PathVisited
  <1>5. BuiltOnce' /\ ChildrenFirst'
    BY DEF WalkInv, BuiltOnce, ChildrenFirst
  <1> QED BY <1>2, <1>3, <1>4, <1>5 DEF WalkInv

LEMMA UseKept ==
    ASSUME UseIsMaximum, UNCHANGED <<cert, use>>
    PROVE  UseIsMaximum'
  BY DEF UseIsMaximum, OwnUse, Branch, Below, CostAt, action_pp_cost, Zero

LEMMA StartDpStep ==
    ASSUME AuditInv, StartDp
    PROVE  AuditInv'
  <1> USE DEF AuditInv, StartDp
  <1>1. Len(built) \in Nat /\ 1 \in 1..Len(built) /\ built[1] \in DOMAIN cert
    <2>1. root \in BuiltSet
      BY DEF WalkInv, PathLinked
    <2> QED BY <2>1, PathTypes DEF BuiltSet
  <1>2. idx = 1 /\ childMax = Zero
    BY DEF DpInv, DpProgress, Walking
  <1>3. TypeOK'
    <2>1. todo' \subseteq Edge
      BY <1>1, CertTypes
    <2> QED BY <2>1 DEF TypeOK, certVars
  <1>4. WalkInv'
    BY WalkKept
  <1>5. DpInv'
    <2>1. DpProgress'
      BY <1>1, <1>2 DEF DpInv, DpProgress, Walking, Audited, certVars
    <2>2. MergedMax'
      <3>1. cert'[built'[idx']].next \ todo' = {}
        BY <1>2 DEF certVars
      <3>2. \A s \in Slot : childMax'[s] = 0
        BY <1>2 DEF Zero
      <3> QED BY <3>1, <3>2 DEF MergedMax
    <2>3. UseIsMaximum'
      BY UseKept DEF DpInv, certVars
    <2> QED BY <2>1, <2>2, <2>3 DEF DpInv
  <1> QED BY <1>3, <1>4, <1>5 DEF AuditNeverThrows

LEMMA MergeChildStep ==
    ASSUME AuditInv, NEW e, MergeChild(e)
    PROVE  AuditInv'
  <1> USE DEF AuditInv, MergeChild
  <1> DEFINE b == built[idx]
  <1>1. idx \in 1..Len(built) /\ todo \subseteq cert[b].next /\ b \in DOMAIN cert
    <2>1. idx \in 1..Len(built) /\ todo \subseteq cert[b].next
      BY PathTypes DEF DpInv, DpProgress, TypeOK
    <2> QED BY <2>1, PathTypes
  <1>2. \A f \in cert[b].next, s \in Slot : Branch(b, f, s) \in Nat
    <2>1. \A f \in cert[b].next : f.child = WinLeaf \/ f.child \in DOMAIN use
      <3>1. idx <= idx
        BY <1>1
      <3> QED BY <1>1, <3>1, ChildrenFinished
    <2> QED BY <2>1, BranchType
  <1>3. TypeOK'
    <2>1. childMax' \in [Slot -> Nat]
      <3>1. childMax \in [Slot -> Nat] /\ e \in cert[b].next
        BY <1>1 DEF TypeOK
      <3>2. \A s \in Slot : Branch(b, e, s) \in Nat
        BY <1>2, <3>1
      <3> QED BY <3>1, <3>2
    <2>2. todo' \subseteq Edge
      BY DEF TypeOK
    <2> QED BY <2>1, <2>2 DEF TypeOK, certVars
  <1>4. WalkInv'
    BY WalkKept
  <1>5. DpInv'
    <2>1. DpProgress'
      BY DEF DpInv, DpProgress, Walking, Audited, certVars
    <2>2. MergedMax'
      <3>1. \A f, s : Branch(b, f, s)' = Branch(b, f, s)
        BY DEF Branch, Below, CostAt, action_pp_cost, certVars, Zero
      <3>2. /\ cert' = cert /\ built' = built /\ idx' = idx /\ todo' = todo \ {e}
            /\ e \in cert[b].next
        BY <1>1 DEF certVars
      <3>3. SUFFICES ASSUME NEW s \in Slot
                     PROVE  /\ \A f \in cert[b].next \ todo' : Branch(b, f, s) <= childMax'[s]
                            /\ \/ childMax'[s] = 0
                               \/ \E f \in cert[b].next \ todo' : Branch(b, f, s) = childMax'[s]
        BY <3>1, <3>2 DEF MergedMax
      <3>4. /\ \A f \in cert[b].next \ todo : Branch(b, f, s) <= childMax[s]
            /\ \/ childMax[s] = 0
               \/ \E f \in cert[b].next \ todo : Branch(b, f, s) = childMax[s]
        BY DEF DpInv, MergedMax
      <3>5. childMax'[s] = IF Branch(b, e, s) > childMax[s] THEN Branch(b, e, s) ELSE childMax[s]
        OBVIOUS
      <3>6. \A f \in cert[b].next \ todo' : f = e \/ f \in cert[b].next \ todo
        BY <3>2
      <3>7. \A f \in cert[b].next \ todo : f \in cert[b].next \ todo'
        BY <3>2
      <3>8. e \in cert[b].next \ todo'
        BY <3>2
      <3>9. childMax[s] \in Nat /\ Branch(b, e, s) \in Nat
        BY <1>2, <3>2 DEF TypeOK
      <3> HIDE DEF b
      <3>10. \A f \in cert[b].next \ todo' : Branch(b, f, s) <= childMax'[s]
        BY <1>2, <3>4, <3>5, <3>6, <3>9
      <3>11. childMax'[s] = 0 \/ \E f \in cert[b].next \ todo' : Branch(b, f, s) = childMax'[s]
        BY <3>4, <3>5, <3>7, <3>8, <3>9
      <3> QED BY <3>10, <3>11
    <2>3. UseIsMaximum'
      BY UseKept DEF DpInv, certVars
    <2> QED BY <2>1, <2>2, <2>3 DEF DpInv
  <1> QED BY <1>3, <1>4, <1>5 DEF AuditNeverThrows

LEMMA FinishNodeStep ==
    ASSUME AuditInv, FinishNode
    PROVE  AuditInv'
  <1> USE DEF AuditInv, FinishNode
  <1> DEFINE b == built[idx]
  <1>1. /\ idx \in 1..Len(built) /\ Len(built) \in Nat /\ b \in DOMAIN cert
        /\ \A i \in 1..Len(built) : built[i] \in DOMAIN cert
    BY PathTypes DEF DpInv, DpProgress, TypeOK
  <1>2. cert' = cert /\ built' = built /\ path' = path /\ realPp' = realPp /\ root' = root
    BY DEF certVars
  <1>3. b \notin DOMAIN use
    <2>1. SUFFICES ASSUME NEW j \in 1..(idx - 1), built[j] = b
                   PROVE  FALSE
      BY DEF DpInv, DpProgress
    <2>2. j \in 1..Len(built) /\ j # idx
      BY <1>1
    <2> QED BY <1>1, <2>1, <2>2 DEF WalkInv, BuiltOnce
  <1>4. /\ DOMAIN use' = DOMAIN use \union {b}
        /\ \A c \in DOMAIN use : use'[c] = use[c]
        /\ use'[b] = [s \in Slot |-> OwnUse(b, s) + childMax[s]]
    BY <1>3
  <1>5. TypeOK'
    <2>1. use' \in [DOMAIN use' -> [Slot -> Nat]]
      <3>1. \A s \in Slot : OwnUse(b, s) + childMax[s] \in Nat
        BY OwnUseType DEF TypeOK
      <3>2. use'[b] \in [Slot -> Nat]
        BY <1>4, <3>1
      <3>3. \A c \in DOMAIN use : use'[c] \in [Slot -> Nat]
        BY <1>4 DEF TypeOK
      <3> HIDE DEF b
      <3>4. \A c \in DOMAIN use' : use'[c] \in [Slot -> Nat]
        BY <1>4, <3>2, <3>3
      <3>5. use' = [c \in DOMAIN use' |-> use'[c]]
        BY <1>4 DEF b
      <3> QED BY <3>4, <3>5
    <2>2. todo' \subseteq Edge
      <3>1. CASE idx < Len(built)
        <4>1. built[idx + 1] \in DOMAIN cert
          BY <1>1, <3>1
        <4> QED BY <3>1, <4>1, CertTypes
      <3>2. CASE ~(idx < Len(built))
        BY <3>2
      <3> QED BY <3>1, <3>2
    <2>3. idx' \in Nat \ {0} /\ childMax' \in [Slot -> Nat]
      BY <1>1 DEF Zero
    <2>4. pc' \in {"dp", "check"}
      OBVIOUS
    <2> QED BY <1>2, <2>1, <2>2, <2>3, <2>4 DEF TypeOK
  <1>6. WalkInv'
    BY WalkKept
  <1>7. DpProgress'
    <2>1. DOMAIN use' = {built'[j] : j \in 1..(idx' - 1)}
      <3>1. DOMAIN use = {built[j] : j \in 1..(idx - 1)}
        BY DEF DpInv, DpProgress
      <3>2. idx' - 1 = idx /\ idx \in 1..idx
        BY <1>1
      <3>3. \A j \in 1..idx : j = idx \/ j \in 1..(idx - 1)
        BY <1>1
      <3>4. \A j \in 1..(idx - 1) : j \in 1..idx
        BY <1>1
      <3> QED BY <1>2, <1>4, <3>1, <3>2, <3>3, <3>4
    <2>2. path = <<>>
      BY DEF DpInv, DpProgress, Walking
    <2>3. CASE idx < Len(built)
      BY <1>1, <1>2, <2>1, <2>2, <2>3 DEF DpProgress, Walking, Audited
    <2>4. CASE ~(idx < Len(built))
      BY <1>1, <1>2, <2>1, <2>2, <2>4 DEF DpProgress, Walking, Audited
    <2> QED BY <2>3, <2>4
  <1>8. MergedMax'
    <2>1. SUFFICES ASSUME pc' = "dp"
                   PROVE  MergedMax'
      BY DEF MergedMax
    <2>2. cert'[built'[idx']].next \ todo' = {}
      BY <1>2, <2>1
    <2>3. \A s \in Slot : childMax'[s] = 0
      BY DEF Zero
    <2> QED BY <2>2, <2>3 DEF MergedMax
  <1>9. UseIsMaximum'
    <2>1. \A c, s : OwnUse(c, s)' = OwnUse(c, s)
      BY <1>2 DEF OwnUse, CostAt, action_pp_cost
    <2>2. \A c, f, s : (f.child = WinLeaf \/ f.child \in DOMAIN use) =>
              Branch(c, f, s)' = Branch(c, f, s)
      BY <1>2, <1>4 DEF Branch, Below, CostAt, action_pp_cost, Zero
    <2>3. \A f \in cert[b].next : f.child = WinLeaf \/ f.child \in DOMAIN use
      BY <1>1, ChildrenFinished
    <2>4. \A c \in DOMAIN use : \A f \in cert[c].next : f.child = WinLeaf \/ f.child \in DOMAIN use
      <3>1. SUFFICES ASSUME NEW c \in DOMAIN use, NEW f \in cert[c].next
                     PROVE  f.child = WinLeaf \/ f.child \in DOMAIN use
        OBVIOUS
      <3>2. PICK j \in 1..(idx - 1) : c = built[j]
        BY DEF DpInv, DpProgress
      <3>3. j \in 1..Len(built) /\ j <= idx
        BY <1>1
      <3> QED BY <3>2, <3>3, ChildrenFinished
    <2>5. SUFFICES ASSUME NEW c \in DOMAIN use', NEW s \in Slot
                   PROVE  /\ \A f \in cert[c].next : use'[c][s] >= OwnUse(c, s) + Branch(c, f, s)'
                          /\ \E f \in cert[c].next : use'[c][s] = OwnUse(c, s) + Branch(c, f, s)'
      BY <1>2, <2>1 DEF UseIsMaximum
    <2>6. CASE c \in DOMAIN use
      <3>1. /\ \A f \in cert[c].next : use[c][s] >= OwnUse(c, s) + Branch(c, f, s)
            /\ \E f \in cert[c].next : use[c][s] = OwnUse(c, s) + Branch(c, f, s)
        BY <2>6 DEF DpInv, UseIsMaximum
      <3> QED BY <1>4, <2>2, <2>4, <2>6, <3>1
    <2>7. CASE c = b
      <3>1. /\ \A f \in cert[c].next : Branch(c, f, s) <= childMax[s]
            /\ childMax[s] = 0 \/ \E f \in cert[c].next : Branch(c, f, s) = childMax[s]
        BY <2>7 DEF DpInv, MergedMax
      <3>2. \A f \in cert[c].next : Branch(c, f, s) \in Nat /\ Branch(c, f, s)' = Branch(c, f, s)
        <4>1. SUFFICES ASSUME NEW f \in cert[c].next
                       PROVE  Branch(c, f, s) \in Nat /\ Branch(c, f, s)' = Branch(c, f, s)
          OBVIOUS
        <4>2. f.child = WinLeaf \/ f.child \in DOMAIN use
          BY <2>3, <2>7
        <4>3. Branch(c, f, s)' = Branch(c, f, s)
          BY <2>2, <4>2
        <4>4. Branch(c, f, s) \in Nat
          BY <4>2, BranchType
        <4> QED BY <4>3, <4>4
      <3>3. childMax[s] \in Nat /\ OwnUse(c, s) \in Nat /\ use'[c][s] = OwnUse(c, s) + childMax[s]
        BY <1>4, <2>7, OwnUseType DEF TypeOK
      <3>4. cert[c].next # {}
        BY <1>1, <2>7 DEF WalkInv, CertGood, ClosedCert
      <3>5. \E f \in cert[c].next : Branch(c, f, s) = childMax[s]
        BY <3>1, <3>2, <3>3, <3>4
      <3>6. \A f \in cert[c].next : use'[c][s] >= OwnUse(c, s) + Branch(c, f, s)
        BY <3>1, <3>2, <3>3
      <3>7. \E f \in cert[c].next : use'[c][s] = OwnUse(c, s) + Branch(c, f, s)
        BY <3>3, <3>5
      <3> QED BY <3>2, <3>6, <3>7
    <2> QED BY <1>4, <2>6, <2>7
  <1>10. DpInv'
    BY <1>7, <1>8, <1>9 DEF DpInv
  <1> QED BY <1>5, <1>6, <1>10 DEF AuditNeverThrows

-----------------------------------------------------------------------------
\* cpp_consume_pp takes n from one slot and stops at 0.
LEMMA PayFacts ==
    ASSUME NEW p \in [Slot -> Nat], NEW a \in Actor, NEW n \in 0..2
    PROVE  /\ Pay(p, a, n) \in [Slot -> Nat]
           /\ \A s \in Slot : /\ Pay(p, a, n)[s] <= p[s]
                              /\ a # s => Pay(p, a, n)[s] = p[s]
                              /\ a = s => Pay(p, a, n)[s] >= p[s] - n
  <1>1. CASE a = NoSlot
    BY <1>1, PpAuditAssumption DEF Pay
  <1>2. CASE a # NoSlot
    <2>1. a \in Slot
      BY <1>2 DEF Actor
    <2>2. (IF p[a] > n THEN p[a] - n ELSE 0) \in Nat
      BY <2>1
    <2>3. Pay(p, a, n) = [s \in Slot |-> IF s = a THEN IF p[a] > n THEN p[a] - n ELSE 0 ELSE p[s]]
      BY <1>2, <2>1 DEF Pay
    <2> QED BY <2>1, <2>2, <2>3
  <1> QED BY <1>1, <1>2

\* The state after the audit is over is not touched by a verdict or a turn.
LEMMA AuditedKept ==
    ASSUME AuditInv, Audited, pc' \in {"play", "over", "rejected"},
           UNCHANGED <<certVars, auditVars>>, at' \in DOMAIN cert, pp' \in [Slot -> Nat],
           asCharged' \in BOOLEAN
    PROVE  AuditInv'
  <1> USE DEF AuditInv, certVars, auditVars
  <1>1. TypeOK'
    BY DEF TypeOK
  <1>2. WalkInv'
    BY WalkKept
  <1>3. DpProgress'
    BY DEF DpInv, DpProgress, Walking, Audited
  <1>4. MergedMax'
    BY DEF MergedMax
  <1>5. UseIsMaximum'
    BY UseKept DEF DpInv
  <1>6. DpInv'
    BY <1>3, <1>4, <1>5 DEF DpInv
  <1> QED BY <1>1, <1>2, <1>6 DEF AuditNeverThrows

\* What a turn is made of: the actors, what each pays, what is overwritten.
LEMMA CourseFacts ==
    ASSUME AuditInv, NEW e, e \in cert[at].next, NEW c \in Course(e), Possible(e, c)
    PROVE  /\ e \in Edge /\ cert[at].slot \in Actor /\ e.slot \in Actor
           /\ \A x \in Side : Used(x, e) \in Actor /\ c.cost[x] \in 0..2
           /\ \A x \in c.wrote : IsOverwrite(Transforms[Used(x, e)])
           /\ IsOverwrite(c.lead)
           /\ c.first \in Side /\ Foe(c.first) \in Side /\ c.faced \subseteq Side
  <1>1. at \in DOMAIN cert
    BY DEF AuditInv, TypeOK
  <1>2. cert[at].slot \in Actor /\ e \in Edge
    BY <1>1, CertTypes DEF AuditInv
  <1>3. e.slot \in Actor
    BY <1>2 DEF Edge
  <1>4. \A x \in Side : Used(x, e) \in Actor
    BY <1>2, <1>3 DEF Used
  <1>5. /\ c.first \in Side /\ c.faced \subseteq Side
        /\ c.cost \in [Side -> 0..2]
        /\ c.wrote \subseteq {x \in Side : Used(x, e) \in DOMAIN Transforms}
        /\ c.lead \in {NoOverwrite} \union Imposters
    BY DEF Course
  <1>6. IsOverwrite(NoOverwrite)
    BY DEF IsOverwrite, NoOverwrite
  <1>7. IsOverwrite(c.lead)
    BY <1>5, <1>6, PpAuditAssumption
  <1>8. \A x \in c.wrote : IsOverwrite(Transforms[Used(x, e)])
    BY <1>5, PpAuditAssumption
  <1>9. Foe(c.first) \in Side
    BY <1>5 DEF Foe, Side
  <1> QED BY <1>2, <1>3, <1>4, <1>5, <1>7, <1>8, <1>9

LEMMA OverwriteType ==
    ASSUME NEW p \in [Slot -> Nat], NEW f, IsOverwrite(f)
    PROVE  Overwrite(p, f) \in [Slot -> Nat]
  BY DEF Overwrite, IsOverwrite, kTransformPp

LEMMA ActedType ==
    ASSUME AuditInv, NEW e, e \in cert[at].next, NEW c \in Course(e), Possible(e, c),
           NEW p \in [Slot -> Nat], NEW x \in Side
    PROVE  Acted(p, x, e, c) \in [Slot -> Nat]
  <1>1. Pay(p, Used(x, e), c.cost[x]) \in [Slot -> Nat]
    BY CourseFacts, PayFacts
  <1>2. x \in c.wrote => Overwrite(Pay(p, Used(x, e), c.cost[x]), Transforms[Used(x, e)]) \in [Slot -> Nat]
    BY <1>1, CourseFacts, OverwriteType
  <1> QED BY <1>1, <1>2 DEF Acted

\* What a turn does to the PP and the bucket.
LEMMA TurnFacts ==
    ASSUME AuditInv, NEW e, e \in cert[at].next, NEW c \in Course(e), Turn(e, c)
    PROVE  /\ e.child = WinLeaf \/ e.child \in DOMAIN cert
           /\ at' = IF e.child = WinLeaf THEN at ELSE e.child
           /\ pc' = IF e.child = WinLeaf THEN "over" ELSE pc
           /\ pp' = PpAfter(e, c)
           /\ pp' \in [Slot -> Nat]
           /\ asCharged' \in BOOLEAN
  <1>1. at \in DOMAIN cert /\ pp \in [Slot -> Nat] /\ Possible(e, c)
    BY DEF AuditInv, TypeOK, Turn
  <1>2. e.child = WinLeaf \/ e.child \in DOMAIN cert
    BY <1>1 DEF AuditInv, WalkInv, CertGood, ClosedCert
  <1>3. Overwrite(pp, c.lead) \in [Slot -> Nat]
    BY <1>1, CourseFacts, OverwriteType
  <1>4. c.first \in Side /\ Foe(c.first) \in Side
    BY <1>1, CourseFacts
  <1>5. Acted(Overwrite(pp, c.lead), c.first, e, c) \in [Slot -> Nat]
    BY <1>1, <1>3, <1>4, ActedType
  <1>6. PpAfter(e, c) \in [Slot -> Nat]
    BY <1>1, <1>4, <1>5, ActedType DEF PpAfter
  <1>7. asCharged' \in BOOLEAN
    <2>1. asCharged' = (asCharged /\ AsAudited(c))
      BY DEF Turn
    <2> QED BY <2>1
  <1> QED BY <1>2, <1>6, <1>7 DEF Turn

\* Every step keeps the audit's invariant.
LEMMA NextAudit ==
    ASSUME AuditInv, [Next]_vars
    PROVE  AuditInv'
  <1>1. CASE UNCHANGED vars
    <2> USE DEF vars, certVars, auditVars
    <2>1. TypeOK'
      BY <1>1 DEF AuditInv, TypeOK
    <2>2. WalkInv'
      BY <1>1, WalkKept DEF AuditInv
    <2>3. DpProgress'
      BY <1>1 DEF AuditInv, DpInv, DpProgress, Walking, Audited, Zero
    <2>4. MergedMax'
      BY <1>1 DEF AuditInv, DpInv, MergedMax, Branch, Below, CostAt, action_pp_cost, Zero
    <2>5. UseIsMaximum'
      BY <1>1, UseKept DEF AuditInv, DpInv
    <2> QED BY <1>1, <2>1, <2>2, <2>3, <2>4, <2>5 DEF AuditInv, DpInv, AuditNeverThrows
  <1>2. ASSUME NEW e \in Edge, WalkEdge(e)
        PROVE  AuditInv'
    BY <1>2, WalkEdgeStep
  <1>3. ASSUME NEW e \in Edge, MergeChild(e)
        PROVE  AuditInv'
    BY <1>3, MergeChildStep
  <1>4. CASE WalkDone
    BY <1>4, WalkDoneStep
  <1>5. CASE StartDp
    BY <1>5, StartDpStep
  <1>6. CASE FinishNode
    BY <1>6, FinishNodeStep
  <1>7. CASE Accept
    BY <1>7, AuditedKept DEF Accept, Audited, AuditInv, TypeOK, certVars
  <1>8. CASE Reject
    BY <1>8, AuditedKept DEF Reject, Audited, AuditInv, TypeOK, certVars
  <1>9. CASE Play
    <2>1. PICK e \in cert[at].next : \E c \in Course(e) : Turn(e, c)
      BY <1>9 DEF Play
    <2>2. PICK c \in Course(e) : Turn(e, c)
      BY <2>1
    <2>3. at \in DOMAIN cert /\ pc = "play"
      BY <1>9 DEF AuditInv, TypeOK, Play
    <2>4. /\ at' \in DOMAIN cert /\ pp' \in [Slot -> Nat] /\ pc' \in {"play", "over"}
          /\ asCharged' \in BOOLEAN
      BY <2>2, <2>3, TurnFacts
    <2>5. UNCHANGED <<certVars, auditVars>> /\ Audited
      BY <2>2, <2>3 DEF Turn, Audited
    <2> QED BY <2>4, <2>5, AuditedKept
  <1> QED BY <1>1, <1>2, <1>3, <1>4, <1>5, <1>6, <1>7, <1>8, <1>9 DEF Next, WalkOrDp

-----------------------------------------------------------------------------
\* A turn the audit foresaw: each actor pays at most what it was charged and
\* nothing else changes.
LEMMA ForeseenCost ==
    ASSUME AuditInv, NEW e, e \in cert[at].next, NEW c \in Course(e), Possible(e, c),
           AsAudited(c), NEW s \in Slot
    PROVE  /\ cert[at].slot = s => c.cost["player"] <= OwnUse(at, s)
           /\ e.slot = s => c.cost["opponent"] <= CostAt(e.slot, cert[at].plPressure, s)
  <1>1. "player" \in c.faced => cert[at].oppPressure
    BY DEF AsAudited, HasPressure, Foe
  <1>2. "opponent" \in c.faced => cert[at].plPressure
    BY DEF AsAudited, HasPressure, Foe
  <1>3. c.cost["player"] \in PaidCosts(cert[at].slot, "player" \in c.faced)
    BY DEF Possible, Side, Used
  <1>4. c.cost["opponent"] \in PaidCosts(e.slot, "opponent" \in c.faced)
    BY DEF Possible, Side, Used
  <1>5. ASSUME cert[at].slot = s PROVE c.cost["player"] <= OwnUse(at, s)
    BY <1>1, <1>3, <1>5, PpAuditAssumption DEF PaidCosts, OwnUse, CostAt, action_pp_cost
  <1>6. ASSUME e.slot = s
        PROVE  c.cost["opponent"] <= CostAt(e.slot, cert[at].plPressure, s)
    BY <1>2, <1>4, <1>6, PpAuditAssumption DEF PaidCosts, CostAt, action_pp_cost
  <1> QED BY <1>5, <1>6

\* Without an overwrite the two payments, in either order, take at most what
\* the turn was charged.
LEMMA ForeseenPp ==
    ASSUME AuditInv, NEW e, e \in cert[at].next, NEW c \in Course(e), Possible(e, c),
           AsAudited(c), NEW s \in Slot
    PROVE  /\ PpAfter(e, c)[s] <= pp[s]
           /\ PpAfter(e, c)[s] >= pp[s] - (OwnUse(at, s) + CostAt(e.slot, cert[at].plPressure, s))
  <1> DEFINE K(x) == IF x = "player" THEN OwnUse(at, s) ELSE CostAt(e.slot, cert[at].plPressure, s)
  <1>1. pp \in [Slot -> Nat] /\ at \in DOMAIN cert /\ e \in Edge
    BY CourseFacts DEF AuditInv, TypeOK
  <1>2. Overwrite(pp, c.lead) = pp
    <2>1. Overwrite(pp, c.lead) = [t \in Slot |-> pp[t]]
      BY DEF AsAudited, Overwrite, NoOverwrite
    <2> QED BY <1>1, <2>1
  <1>3. \A p, x : Acted(p, x, e, c) = Pay(p, Used(x, e), c.cost[x])
    BY DEF AsAudited, Acted
  <1>4. K("player") \in 0..2 /\ K("opponent") \in 0..2
    <2>1. OwnUse(at, s) \in 0..2
      BY CostType DEF OwnUse
    <2>2. CostAt(e.slot, cert[at].plPressure, s) \in 0..2
      BY CostType
    <2> QED BY <2>1, <2>2
  <1>5. \A x \in Side : Used(x, e) = s => c.cost[x] <= K(x)
    BY ForeseenCost DEF Side, Used
  <1> HIDE DEF K
  <1>6. ASSUME NEW p \in [Slot -> Nat], NEW x \in Side
        PROVE  /\ Acted(p, x, e, c) \in [Slot -> Nat]
               /\ Acted(p, x, e, c)[s] <= p[s] /\ Acted(p, x, e, c)[s] >= p[s] - K(x)
    <2>1. Used(x, e) \in Actor /\ c.cost[x] \in 0..2
      BY CourseFacts
    <2>2. Acted(p, x, e, c) = Pay(p, Used(x, e), c.cost[x])
      BY <1>3
    <2>3. /\ Pay(p, Used(x, e), c.cost[x]) \in [Slot -> Nat]
          /\ Pay(p, Used(x, e), c.cost[x])[s] <= p[s]
          /\ Used(x, e) # s => Pay(p, Used(x, e), c.cost[x])[s] = p[s]
          /\ Used(x, e) = s => Pay(p, Used(x, e), c.cost[x])[s] >= p[s] - c.cost[x]
      BY <2>1, PayFacts
    <2>4. K(x) \in 0..2
      BY <1>4 DEF Side
    <2>5. Used(x, e) = s => c.cost[x] <= K(x)
      BY <1>5
    <2>6. p[s] \in Nat /\ Pay(p, Used(x, e), c.cost[x])[s] \in Nat
      BY <2>3
    <2> QED BY <2>1, <2>2, <2>3, <2>4, <2>5, <2>6
  <1>7. c.first \in Side /\ Foe(c.first) \in Side /\ K(c.first) + K(Foe(c.first)) = K("player") + K("opponent")
    <2>1. c.first \in Side /\ Foe(c.first) \in Side
      BY CourseFacts
    <2>2. K(c.first) + K(Foe(c.first)) = K("player") + K("opponent")
      BY <1>4, <2>1 DEF Foe, Side
    <2> QED BY <2>1, <2>2
  <1> DEFINE q == Acted(pp, c.first, e, c)
             r == Acted(q, Foe(c.first), e, c)
  <1>8. q \in [Slot -> Nat] /\ q[s] <= pp[s] /\ q[s] >= pp[s] - K(c.first)
    BY <1>1, <1>6, <1>7
  <1>9. r \in [Slot -> Nat] /\ r[s] <= q[s] /\ r[s] >= q[s] - K(Foe(c.first))
    <2> HIDE DEF q
    <2> QED BY <1>6, <1>7, <1>8
  <1>10. PpAfter(e, c) = r
    BY <1>2 DEF PpAfter
  <1>11. K(c.first) \in 0..2 /\ K(Foe(c.first)) \in 0..2
    BY <1>4, <1>7 DEF Side
  <1>12. pp[s] \in Nat /\ q[s] \in Nat /\ r[s] \in Nat
    BY <1>1, <1>8, <1>9
  <1> HIDE DEF q, r
  <1>13. r[s] <= pp[s] /\ r[s] >= pp[s] - (K("player") + K("opponent"))
    BY <1>4, <1>7, <1>8, <1>9, <1>11, <1>12
  <1> QED BY <1>10, <1>13 DEF K

\* The PP a bucket's lines of play may still take is there when the battle
\* starts and after every turn the audit foresaw.
LEMMA TurnCovers ==
    ASSUME PlayInv, pc = "play", NEW e, e \in cert[at].next, NEW c \in Course(e), Turn(e, c)
    PROVE  PpCovers'
  <1> USE DEF PlayInv
  <1>0. at \in DOMAIN use /\ pp \in [Slot -> Nat] /\ Possible(e, c)
        /\ DOMAIN use = BuiltSet /\ realPp \in [Slot -> Nat] /\ use \in [DOMAIN use -> [Slot -> Nat]]
    <2>1. DOMAIN use = BuiltSet
      <3>1. idx - 1 = Len(built)
        BY PathTypes DEF AuditInv, DpInv, DpProgress, Audited
      <3> QED BY <3>1, PathTypes DEF AuditInv, DpInv, DpProgress, BuiltSet
    <2> QED BY <2>1, CertTypes DEF Turn, PpCovers, AuditInv, TypeOK
  <1>1. /\ e.child = WinLeaf \/ e.child \in DOMAIN cert
        /\ at' = IF e.child = WinLeaf THEN at ELSE e.child
        /\ pc' = IF e.child = WinLeaf THEN "over" ELSE "play"
        /\ pp' = PpAfter(e, c) /\ pp' \in [Slot -> Nat]
    BY TurnFacts
  <1>2. e.child = WinLeaf \/ e.child \in DOMAIN use
    <2>1. PICK i \in 1..Len(built) : at = built[i]
      BY <1>0, PathTypes DEF BuiltSet, AuditInv
    <2>2. i <= idx
      BY <1>0, <2>1, PathTypes DEF AuditInv, DpInv, DpProgress, Audited
    <2> QED BY <1>0, <2>1, <2>2, ChildrenFinished DEF AuditInv
  <1>3. realPp' = realPp /\ root' = root /\ use' = use /\ BuiltSet' = BuiltSet
    BY DEF Turn, certVars, auditVars, BuiltSet
  <1>4. asCharged' => asCharged /\ AsAudited(c)
    <2>1. asCharged' = (asCharged /\ AsAudited(c))
      BY DEF Turn
    <2> QED BY <2>1
  <1>5. \A s \in Slot : Below(e)[s] \in Nat
    BY <1>0, <1>2 DEF Below, Zero
  <1>6. ASSUME asCharged' PROVE \A s \in Slot : pp'[s] <= realPp[s]
    <2>1. SUFFICES ASSUME NEW s \in Slot
                   PROVE  pp'[s] <= realPp[s]
      OBVIOUS
    <2>2. pp[s] \in Nat /\ pp'[s] \in Nat /\ realPp[s] \in Nat
      BY <1>0, <1>1
    <2>3. pp[s] <= realPp[s]
      BY <1>4, <1>6 DEF PpCovers
    <2>4. pp'[s] <= pp[s]
      BY <1>0, <1>1, <1>4, <1>6, ForeseenPp
    <2> QED BY <2>2, <2>3, <2>4
  <1>7. ASSUME asCharged' PROVE \A s \in Masked : realPp[s] > 0 => pp'[s] > Below(e)[s]
    <2>1. SUFFICES ASSUME NEW s \in Masked, realPp[s] > 0
                   PROVE  pp'[s] > Below(e)[s]
      OBVIOUS
    <2>2. s \in Slot /\ pp[s] > use[at][s]
      BY <1>4, <1>7, <2>1, PpAuditAssumption DEF PpCovers
    <2> DEFINE k == CostAt(e.slot, cert[at].plPressure, s)
    <2>3. pp[s] \in Nat /\ pp'[s] \in Nat /\ Below(e)[s] \in Nat
      BY <1>0, <1>1, <1>5, <2>2
    <2>4. OwnUse(at, s) \in Nat /\ k \in 0..2
      BY <1>0, <2>2, OwnUseType, CostType, CertTypes, CourseFacts DEF AuditInv, TypeOK
    <2>5. use[at][s] \in Nat /\ use[at][s] >= OwnUse(at, s) + (k + Below(e)[s])
      BY <1>0, <2>2 DEF AuditInv, DpInv, UseIsMaximum, Branch
    <2>6. pp'[s] >= pp[s] - (OwnUse(at, s) + k)
      BY <1>0, <1>1, <1>4, <1>7, <2>2, ForeseenPp
    <2> HIDE DEF k
    <2> QED BY <2>2, <2>3, <2>4, <2>5, <2>6
  <1>8. CASE e.child = WinLeaf
    <2>1. asCharged' => \A s \in Masked : realPp[s] > 0 => pp'[s] > 0
      BY <1>7, <1>8, PpAuditAssumption DEF Below, Zero
    <2> QED BY <1>0, <1>1, <1>3, <1>6, <1>8, <2>1 DEF PpCovers
  <1>9. CASE e.child # WinLeaf
    <2>1. asCharged' => \A s \in Masked : realPp[s] > 0 => pp'[s] > use[e.child][s]
      BY <1>7, <1>9 DEF Below
    <2> QED BY <1>0, <1>1, <1>2, <1>3, <1>6, <1>9, <2>1 DEF PpCovers
  <1> QED BY <1>8, <1>9

LEMMA NextPlay ==
    ASSUME PlayInv, [Next]_vars
    PROVE  PlayInv'
  <1>0. AuditInv'
    BY NextAudit DEF PlayInv
  <1>1. CASE Accept
    <2>1. root \in BuiltSet
      BY <1>1 DEF Accept, PlayInv, AuditInv, WalkInv, PathLinked, DpInv, DpProgress, Walking
    <2>2. root \in DOMAIN use
      <3>1. idx - 1 = Len(built)
        BY <1>1, PathTypes DEF Accept, PlayInv, AuditInv, DpInv, DpProgress, Audited
      <3> QED BY <2>1, <3>1, PathTypes DEF PlayInv, AuditInv, DpInv, DpProgress, BuiltSet
    <2>3. at = root /\ pp = realPp /\ realPp \in [Slot -> Nat] /\ use[root] \in [Slot -> Nat]
      BY <1>1, <2>2, CertTypes DEF Accept, PlayInv, PpCovers, AuditInv, TypeOK
    <2>4. \A s \in Masked : realPp[s] > 0 => pp[s] > use[root][s]
      BY <1>1, <2>3, PpAuditAssumption DEF Accept, OverUsed
    <2>5. BuiltSet' = BuiltSet
      BY <1>1 DEF Accept, auditVars, BuiltSet
    <2> QED BY <1>0, <1>1, <2>1, <2>3, <2>4, <2>5 DEF PlayInv, PpCovers, Accept, certVars, auditVars
  <1>2. CASE Play
    BY <1>0, <1>2, TurnCovers DEF PlayInv, Play
  <1>3. CASE WalkOrDp
    <2>1. pc \notin {"play", "over"} /\ pc' \notin {"play", "over"} /\ UNCHANGED <<realPp, root, at, pp, asCharged>>
      BY <1>3 DEF WalkOrDp, WalkEdge, MergeChild, WalkDone, StartDp, FinishNode, certVars
    <2> QED BY <1>0, <2>1 DEF PlayInv, PpCovers
  <1>4. CASE Reject
    BY <1>0, <1>4 DEF Reject, PlayInv, PpCovers, certVars
  <1>5. CASE UNCHANGED vars
    <2>1. BuiltSet' = BuiltSet
      BY <1>5 DEF vars, auditVars, BuiltSet
    <2> QED BY <1>0, <1>5, <2>1 DEF PlayInv, PpCovers, vars, certVars, auditVars
  <1> QED BY <1>1, <1>2, <1>3, <1>4, <1>5 DEF Next

\* A masked slot the rest of the battle may still use has PP.
LEMMA ChargedKeepsPp ==
    ASSUME PlayInv, asCharged, pc \in {"play", "over"},
           NEW s \in Masked, s \in Slot, realPp[s] > 0
    PROVE  pp[s] > 0
  <1>1. CASE pc = "over"
    BY <1>1 DEF PlayInv, PpCovers
  <1>2. CASE pc = "play"
    <2>1. at \in DOMAIN use
      <3>1. idx - 1 = Len(built) /\ at \in BuiltSet
        BY <1>2, PathTypes DEF PlayInv, PpCovers, AuditInv, DpInv, DpProgress, Audited
      <3> QED BY <3>1, PathTypes DEF PlayInv, AuditInv, DpInv, DpProgress, BuiltSet
    <2>2. use[at][s] \in Nat /\ pp[s] \in Nat
      BY <2>1 DEF PlayInv, AuditInv, TypeOK
    <2> QED BY <1>2, <2>2 DEF PlayInv, PpCovers
  <1> QED BY <1>1, <1>2

-----------------------------------------------------------------------------
\* The type invariant holds of every behaviour of the audit and the battle.
THEOREM AuditTypeCorrect == Spec => []TypeOK
  <1>1. Init => AuditInv
    BY InitAudit
  <1>2. AuditInv /\ [Next]_vars => AuditInv'
    BY NextAudit
  <1>3. AuditInv => TypeOK
    BY DEF AuditInv
  <1> QED BY <1>1, <1>2, <1>3, PTL DEF Spec

\* The audit never reaches the throws of build_cert_node that its comment
\* calls impossible, whatever the certificate.
THEOREM WalkNeverThrows == Spec => []AuditNeverThrows
  <1>1. Init => AuditInv
    BY InitAudit
  <1>2. AuditInv /\ [Next]_vars => AuditInv'
    BY NextAudit
  <1>3. AuditInv => AuditNeverThrows
    BY DEF AuditInv
  <1> QED BY <1>1, <1>2, <1>3, PTL DEF Spec

\* visit_node's memo holds the maximum PP use over all lines of play.
THEOREM DpIsMaximum == Spec => []UseIsMaximum
  <1>1. Init => AuditInv
    BY InitAudit
  <1>2. AuditInv /\ [Next]_vars => AuditInv'
    BY NextAudit
  <1>3. AuditInv => UseIsMaximum
    BY DEF AuditInv, DpInv
  <1> QED BY <1>1, <1>2, <1>3, PTL DEF Spec

\* An audited certificate is played without leaving the canonical states it was
\* computed for, whatever the moves and abilities of the two mons, as long as
\* Pressure is faced only where it was charged and no move slot is overwritten:
\* the Pressure gained within a turn (move_exec.cpp:690) and the slots copied by
\* Transform or Imposter (effects.cpp:1486, effects_entry.cpp:341) are the only
\* ways past the audit.
THEOREM AuditedPlayKeepsProfile == Spec => []ProfileKept
  <1>1. Init => PlayInv
    <2>1. Init => PpCovers
      BY PpAuditAssumption DEF Init, PpCovers
    <2> QED BY <2>1, InitAudit DEF PlayInv
  <1>2. PlayInv /\ [Next]_vars => PlayInv'
    BY NextPlay
  <1>3. PlayInv => ProfileKept
    <2>1. SUFFICES ASSUME PlayInv, pc \in {"play", "over"}, asCharged, NEW s \in Masked
                   PROVE  Canonical(pp)[s] = Canonical(realPp)[s]
      BY DEF ProfileKept
    <2>2. s \in Slot /\ pp[s] \in Nat /\ realPp[s] \in Nat /\ pp[s] <= realPp[s]
      BY <2>1, PpAuditAssumption, CertTypes DEF PlayInv, AuditInv, TypeOK, PpCovers
    <2>3. realPp[s] > 0 => pp[s] > 0
      BY <2>1, <2>2, ChargedKeepsPp DEF PlayInv
    <2> QED BY <2>2, <2>3 DEF Canonical
  <1> QED BY <1>1, <1>2, <1>3, PTL DEF Spec

\* Where no move copies abilities or moves and no side gains Pressure before
\* the moves, every turn is one the audit foresaw: an accepted certificate keeps
\* the promise of pp_canon.h without a proviso.
THEOREM NeverUsedUpWithoutCopies ==
    Copiers = {} /\ Entering = {} /\ Imposters = {} => (Spec => []NeverUsedUp)
  <1>1. SUFFICES ASSUME Copiers = {}, Entering = {}, Imposters = {}
                 PROVE  Spec => []NeverUsedUp
    OBVIOUS
  <1>2. Init => PlayInv /\ asCharged
    <2>1. Init => PpCovers /\ asCharged
      BY PpAuditAssumption DEF Init, PpCovers
    <2> QED BY <2>1, InitAudit DEF PlayInv
  <1>3. PlayInv /\ asCharged /\ [Next]_vars => (PlayInv /\ asCharged)'
    <2>1. SUFFICES ASSUME PlayInv, asCharged, [Next]_vars
                   PROVE  asCharged'
      BY NextPlay
    <2>2. CASE Play
      <3>1. PICK e \in cert[at].next : \E c \in Course(e) : Turn(e, c)
        BY <2>2 DEF Play
      <3>2. PICK c \in Course(e) : Turn(e, c)
        BY <3>1
      <3>3. AsAudited(c)
        BY <1>1, <3>2, PpAuditAssumption
           DEF AsAudited, Course, MayFacePressure, MayTakePressure, MayHavePressure
      <3> QED BY <2>1, <3>2, <3>3 DEF Turn
    <2>3. CASE WalkOrDp \/ Accept \/ Reject \/ UNCHANGED vars
      BY <2>1, <2>3
         DEF WalkOrDp, WalkEdge, MergeChild, WalkDone, StartDp, FinishNode, Accept, Reject, vars
    <2> QED BY <2>1, <2>2, <2>3 DEF Next
  <1>4. PlayInv /\ asCharged => NeverUsedUp
    <2>1. SUFFICES ASSUME PlayInv, asCharged, pc \in {"play", "over"},
                          NEW s \in Masked, realPp[s] > 0
                   PROVE  pp[s] > 0
      BY DEF NeverUsedUp
    <2> QED BY <2>1, PpAuditAssumption, ChargedKeepsPp DEF PlayInv
  <1> QED BY <1>2, <1>3, <1>4, PTL DEF Spec

-----------------------------------------------------------------------------
\* visit_node has finished exactly the nodes of the graph once it is audited.
LEMMA AuditedUse ==
    ASSUME AuditInv, Audited
    PROVE  DOMAIN use = BuiltSet /\ idx = Len(built) + 1 /\ path = <<>>
  <1>1. idx - 1 = Len(built)
    BY PathTypes DEF AuditInv, DpInv, DpProgress
  <1>2. path = <<>>
    BY DEF AuditInv, DpInv, DpProgress, Walking, Audited
  <1> QED BY <1>1, <1>2, PathTypes DEF AuditInv, DpInv, DpProgress, BuiltSet

\* The battle starts at the root and moves from node to node.
LEMMA NextAtBuilt ==
    ASSUME AuditInv, AtBuilt, [Next]_vars
    PROVE  AtBuilt'
  <1>0. AuditInv'
    BY NextAudit
  <1>1. ASSUME pc = "play", NEW e, e \in cert[at].next, NEW c \in Course(e), Turn(e, c)
        PROVE  AtBuilt'
    <2>1. /\ at \in BuiltSet /\ DOMAIN use = BuiltSet /\ UNCHANGED built
          /\ at' = IF e.child = WinLeaf THEN at ELSE e.child
          /\ pc' = IF e.child = WinLeaf THEN "over" ELSE "play"
      BY <1>1, AuditedUse, TurnFacts DEF Turn, AtBuilt, Audited, auditVars
    <2>2. PICK i \in 1..Len(built) : at = built[i]
      BY <2>1, PathTypes DEF BuiltSet, AuditInv
    <2>3. i <= idx
      BY <1>1, <2>2, AuditedUse, PathTypes DEF AuditInv, Turn, Audited
    <2>4. e.child = WinLeaf \/ e.child \in BuiltSet
      BY <1>1, <2>1, <2>2, <2>3, ChildrenFinished DEF AuditInv
    <2> QED BY <1>1, <2>1, <2>4 DEF AtBuilt, BuiltSet
  <1>2. CASE WalkOrDp
    <2>1. pc \notin {"play", "over"} /\ pc' \notin {"play", "over"} /\ UNCHANGED <<root, at>>
      BY <1>2 DEF WalkOrDp, WalkEdge, MergeChild, WalkDone, StartDp, FinishNode, certVars
    <2>2. Audited' => root' \in BuiltSet'
      BY <1>0 DEF AuditInv, WalkInv, PathLinked, DpInv, DpProgress, Walking, Audited
    <2> QED BY <2>1, <2>2 DEF AtBuilt
  <1>3. CASE Accept \/ Reject \/ UNCHANGED vars
    <2>1. UNCHANGED <<root, at, built>> /\ (Audited' => Audited)
          /\ (pc' \notin {"play", "over"} => pc \notin {"play", "over"})
      BY <1>3 DEF Accept, Reject, vars, certVars, auditVars, Audited
    <2> QED BY <2>1 DEF AtBuilt, BuiltSet
  <1> QED BY <1>1, <1>2, <1>3 DEF Next, Play

\* build_cert_node lists a bucket once and after its children, so visit_node
\* reads finished entries only, and every bucket a battle along the certificate
\* can reach has been audited.
THEOREM GraphIsOrdered == Spec => []BuiltInOrder
  <1>1. Init => AuditInv /\ AtBuilt
    BY InitAudit DEF Init, AtBuilt, Audited
  <1>2. AuditInv /\ AtBuilt /\ [Next]_vars => (AuditInv /\ AtBuilt)'
    BY NextAudit, NextAtBuilt
  <1>3. AuditInv /\ AtBuilt => BuiltInOrder
    <2>1. SUFFICES ASSUME AuditInv, AtBuilt PROVE BuiltInOrder
      OBVIOUS
    <2>2. DOMAIN built = 1..Len(built)
      BY PathTypes DEF AuditInv
    <2>3. Audited => at \in DOMAIN use
      BY <2>1, AuditedUse DEF AtBuilt
    <2> QED BY <2>1, <2>2, <2>3 DEF AuditInv, WalkInv, BuiltOnce, ChildrenFirst, BuiltInOrder, Audited
  <1> QED BY <1>1, <1>2, <1>3, PTL DEF Spec
=============================================================================
