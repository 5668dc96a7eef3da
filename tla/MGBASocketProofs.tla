--------------------------- MODULE MGBASocketProofs ---------------------------
(***************************************************************************)
(* Proofs about MGBASocket: its inductive invariant, the bound on how far  *)
(* the client runs ahead of the emulator, and the refinement of            *)
(* EmulatorLink.                                                           *)
(***************************************************************************)
EXTENDS MGBASocket, SequenceTheorems, WellFoundedInduction, TLAPS

(* ------------------------------- lemmas -------------------------------- *)
(* A set of naturals that has a member has a least one.                    *)
LEMMA LeastMember ==
  ASSUME NEW T \in SUBSET Nat, T # {}
  PROVE  \E x \in T : \A y \in T : x <= y
<1>. DEFINE R == {ss \in Nat \X Nat : ss[1] < ss[2]}
<1>1. IsWellFoundedOn(R, Nat)
  BY NatLessThanWellFounded, Zenon DEF OpToRel
<1>2. \E x \in T : \A y \in T : ~ (<<y, x>> \in R)
  <2>. HIDE DEF R
  <2>. QED  BY <1>1, WFMin, Zenon
<1>3. \A x, y \in T : ~ (<<y, x>> \in R) => x <= y
  OBVIOUS
<1>. QED  BY <1>2, <1>3

(* What FirstEnd and FirstEvent choose.                                    *)
LEMMA FirstEndIs ==
  ASSUME NEW P, NEW s \in Seq(P), NEW e \in Ends(s), \A j \in Ends(s) : e <= j
  PROVE  FirstEnd(s) = e
<1>1. Ends(s) \subseteq Int
  BY DEF Ends
<1>2. \A i \in Ends(s) : (\A j \in Ends(s) : i <= j) => i = e
  BY <1>1
<1>. QED  BY <1>2 DEF FirstEnd

LEMMA FirstEventIs ==
  ASSUME NEW P, NEW s \in Seq(P), EventEnds(s) # {}
  PROVE  /\ FirstEvent(s) \in EventEnds(s)
         /\ \A j \in EventEnds(s) : FirstEvent(s) <= j
<1>1. EventEnds(s) \in SUBSET Nat
  BY DEF EventEnds, Ends
<1>2. \E i \in EventEnds(s) : \A j \in EventEnds(s) : i <= j
  BY <1>1, LeastMember
<1>. QED  BY <1>2 DEF FirstEvent

LEMMA FirstEventUnique ==
  ASSUME NEW P, NEW s \in Seq(P), NEW e \in EventEnds(s), \A j \in EventEnds(s) : e <= j
  PROVE  FirstEvent(s) = e
<1>1. EventEnds(s) \subseteq Int
  BY DEF EventEnds, Ends
<1>2. \A i \in EventEnds(s) : (\A j \in EventEnds(s) : i <= j) => i = e
  BY <1>1
<1>. QED  BY <1>2 DEF FirstEvent

LEMMA PairIs ==
  ASSUME NEW P, NEW a \in P, NEW b \in P
  PROVE  <<a, b>> \in Seq(P) /\ Len(<<a, b>>) = 2 /\ <<a, b>>[1] = a /\ <<a, b>>[2] = b
OBVIOUS

LEMMA SingleIs ==
  ASSUME NEW P, NEW a \in P
  PROVE  /\ Len(<<a>>) = 1 /\ <<a>>[1] = a
         /\ \A s \in Seq(P) : Len(s) = 1 /\ s[1] = a => s = <<a>>
OBVIOUS

(* What is left of a sequence when its first n elements are taken.         *)
IsDrop(t, s, n) ==
  /\ Len(t) = Len(s) - n
  /\ \A i \in 1 .. Len(t) : t[i] = s[i + n]
  /\ \A i : i \in Ends(t) <=> i \in 1 .. Len(t) /\ i + n \in Ends(s)
  /\ \A i : i \in EventEnds(t) <=> i \in 1 .. Len(t) /\ i + n \in EventEnds(s)

LEMMA DropIs ==
  ASSUME NEW P, NEW s \in Seq(P), NEW n \in 0 .. Len(s), NEW t
  PROVE  t = SubSeq(s, n + 1, Len(s)) => t \in Seq(P) /\ IsDrop(t, s, n)
<1>1. SUFFICES ASSUME t = SubSeq(s, n + 1, Len(s)) PROVE t \in Seq(P) /\ IsDrop(t, s, n)
  OBVIOUS
<1>2. Len(s) \in Nat
  BY LenProperties
<1>3. \A i \in n + 1 .. Len(s) : s[i] \in P
  BY <1>2, ElementOfSeq
<1>4. /\ t \in Seq(P) /\ Len(t) = IF n + 1 <= Len(s) THEN Len(s) - (n + 1) + 1 ELSE 0
      /\ \A i \in 1 .. Len(s) - (n + 1) + 1 : t[i] = s[n + 1 + i - 1]
  BY <1>1, <1>2, <1>3, SubSeqProperties
<1>5. Len(t) = Len(s) - n
  BY <1>2, <1>4
<1>6. \A i \in 1 .. Len(t) : t[i] = s[i + n] /\ i + n \in 1 .. Len(s)
  <2>1. \A i \in 1 .. Len(s) - n : i \in 1 .. Len(s) - (n + 1) + 1 /\ n + 1 + i - 1 = i + n
                                   /\ i + n \in 1 .. Len(s)
    BY <1>2
  <2>. QED  BY <2>1, <1>4, <1>5
<1>7. \A i : i \in Ends(t) <=> i \in 1 .. Len(t) /\ i + n \in Ends(s)
  BY <1>6, Zenon DEF Ends
<1>8. \A i : i \in EventEnds(t) <=> i \in 1 .. Len(t) /\ i + n \in EventEnds(s)
  BY <1>6, <1>7, Zenon DEF EventEnds
<1>. QED  BY <1>4, <1>5, <1>6, <1>7, <1>8 DEF IsDrop

(* A message appended to a sequence.                                       *)
IsAppended(t, s, m) ==
  /\ Len(t) = Len(s) + 2
  /\ \A i \in 1 .. Len(s) : t[i] = s[i]
  /\ t[Len(s) + 1] = Piece(m, FALSE) /\ t[Len(s) + 2] = Piece(m, TRUE)
  /\ Ends(t) = Ends(s) \cup {Len(s) + 2}
  /\ m.kind # "EVENT" => EventEnds(t) = EventEnds(s)
  /\ m.kind = "EVENT" => EventEnds(t) = EventEnds(s) \cup {Len(s) + 2}

LEMMA AppendIs ==
  ASSUME NEW K, NEW s \in Seq(Pieces(K)), NEW m \in [kind : K, n : Nat], NEW t
  PROVE  t = s \o Wire(m) => t \in Seq(Pieces(K)) /\ IsAppended(t, s, m)
<1>1. SUFFICES ASSUME t = s \o Wire(m) PROVE t \in Seq(Pieces(K)) /\ IsAppended(t, s, m)
  OBVIOUS
<1>2. Len(s) \in Nat
  BY LenProperties
<1>3. /\ Piece(m, FALSE) \in Pieces(K) /\ Piece(m, TRUE) \in Pieces(K)
      /\ Piece(m, FALSE).end = FALSE /\ Piece(m, TRUE).end = TRUE /\ Piece(m, TRUE).msg = m
  BY DEF Piece, Pieces
<1>4. /\ Wire(m) \in Seq(Pieces(K)) /\ Len(Wire(m)) = 2
      /\ Wire(m)[1] = Piece(m, FALSE) /\ Wire(m)[2] = Piece(m, TRUE)
  BY <1>3, PairIs DEF Wire
<1>5. /\ t \in Seq(Pieces(K)) /\ Len(t) = Len(s) + 2
      /\ \A i \in 1 .. Len(s) + 2 : t[i] = IF i <= Len(s) THEN s[i] ELSE Wire(m)[i - Len(s)]
  <2>1. \A w \in Seq(Pieces(K)) :
          /\ s \o w \in Seq(Pieces(K)) /\ Len(s \o w) = Len(s) + Len(w)
          /\ \A i \in 1 .. Len(s) + Len(w) : (s \o w)[i] = IF i <= Len(s) THEN s[i] ELSE w[i - Len(s)]
    BY ConcatProperties, Zenon
  <2>. QED  BY <1>1, <1>4, <2>1, Zenon
<1>6. /\ \A i \in 1 .. Len(s) : i \in 1 .. Len(s) + 2 /\ i <= Len(s)
      /\ \A i \in 1 .. Len(s) + 2 : i \in 1 .. Len(s) \/ i = Len(s) + 1 \/ i = Len(s) + 2
      /\ Len(s) + 1 \in 1 .. Len(s) + 2 /\ ~ (Len(s) + 1 <= Len(s)) /\ Len(s) + 1 - Len(s) = 1
      /\ Len(s) + 2 \in 1 .. Len(s) + 2 /\ ~ (Len(s) + 2 <= Len(s)) /\ Len(s) + 2 - Len(s) = 2
      /\ Len(s) + 2 \notin 1 .. Len(s)
  BY <1>2
<1>7. \A i \in 1 .. Len(s) : t[i] = s[i]
  BY <1>5, <1>6, Zenon
<1>8. t[Len(s) + 1] = Piece(m, FALSE) /\ t[Len(s) + 2] = Piece(m, TRUE)
  <2>1. t[Len(s) + 1] = Wire(m)[Len(s) + 1 - Len(s)] /\ t[Len(s) + 2] = Wire(m)[Len(s) + 2 - Len(s)]
    BY <1>5, <1>6
  <2>. QED  BY <2>1, <1>4, <1>6
<1>9. Ends(t) = Ends(s) \cup {Len(s) + 2}
  <2>1. \A i \in 1 .. Len(s) : t[i].end = s[i].end
    BY <1>7
  <2>2. t[Len(s) + 1].end = FALSE /\ t[Len(s) + 2].end = TRUE
    BY <1>3, <1>8
  <2>. QED  BY <2>1, <2>2, <1>5, <1>6, Zenon DEF Ends
<1>10. t[Len(s) + 2].msg = m
  BY <1>3, <1>8
<1>11. \A i \in Ends(s) : t[i].msg = s[i].msg
  BY <1>7, Zenon DEF Ends
<1>12. m.kind # "EVENT" => EventEnds(t) = EventEnds(s)
  BY <1>9, <1>10, <1>11, Zenon DEF EventEnds
<1>13. m.kind = "EVENT" => EventEnds(t) = EventEnds(s) \cup {Len(s) + 2}
  BY <1>9, <1>10, <1>11, Zenon DEF EventEnds
<1>. QED  BY <1>5, <1>7, <1>8, <1>9, <1>12, <1>13, Zenon DEF IsAppended

(* The shape of the way back survives taking from its front...             *)
LEMMA AlternatesDrop ==
  ASSUME NEW P, NEW s \in Seq(P), NEW n \in 0 .. Len(s), NEW t, Alternates(s)
  PROVE  t = SubSeq(s, n + 1, Len(s)) => Alternates(t)
<1>1. SUFFICES ASSUME t = SubSeq(s, n + 1, Len(s)) PROVE Alternates(t)
  OBVIOUS
<1>0. t \in Seq(P) /\ IsDrop(t, s, n)
  BY <1>1, DropIs
<1>2. /\ t \in Seq(P) /\ \A i \in 1 .. Len(t) : t[i] = s[i + n]
      /\ \A i : i \in Ends(t) <=> i \in 1 .. Len(t) /\ i + n \in Ends(s)
  BY <1>0 DEF IsDrop
<1>3. Len(s) \in Nat /\ Len(t) \in Nat /\ Len(t) = Len(s) - n
  BY <1>0, LenProperties DEF IsDrop
<1>4. t # <<>> => t[Len(t)].end
  <2>1. SUFFICES ASSUME t # <<>> PROVE t[Len(t)].end
    OBVIOUS
  <2>2. Len(t) \in 1 .. Len(t)
    BY <2>1, <1>2, <1>3, EmptySeq
  <2>3. Len(t) + n = Len(s) /\ Len(s) > 0
    BY <2>2, <1>3
  <2>4. s[Len(s)].end
    BY <2>3, EmptySeq DEF Alternates
  <2>. QED  BY <2>2, <2>3, <2>4, <1>2
<1>5. \A i \in 1 .. Len(t) - 1 : t[i].end <=> ~t[i + 1].end
  <2>1. TAKE i \in 1 .. Len(t) - 1
  <2>2. i \in 1 .. Len(t) /\ i + 1 \in 1 .. Len(t) /\ i + n \in 1 .. Len(s) - 1 /\ i + 1 + n = i + n + 1
    BY <1>3
  <2>3. s[i + n].end <=> ~s[i + n + 1].end
    BY <2>2 DEF Alternates
  <2>. QED  BY <2>2, <2>3, <1>2
<1>6. \A i \in Ends(t) : \E m \in 0 .. Len(t) : Len(t) - i = 2 * m
  <2>1. TAKE i \in Ends(t)
  <2>2. i \in 1 .. Len(t) /\ i + n \in Ends(s)
    BY <1>2
  <2>3. PICK m \in 0 .. Len(s) : Len(s) - (i + n) = 2 * m
    BY <2>2 DEF Alternates
  <2>4. Len(t) - i = 2 * m /\ m \in 0 .. Len(t)
    <3>1. i \in 1 .. Len(t)
      BY <2>2
    <3>2. Len(t) - i = 2 * m
      BY <1>3, <2>3, <3>1
    <3>. QED  BY <1>3, <3>1, <3>2
  <2>. QED  BY <2>4
<1>. QED  BY <1>4, <1>5, <1>6 DEF Alternates

LEMMA EventsDrop ==
  ASSUME NEW P, NEW s \in Seq(P), NEW n \in 0 .. Len(s), NEW t, NEW last, EventsInOrder(s, last)
  PROVE  t = SubSeq(s, n + 1, Len(s)) => EventsInOrder(t, last)
<1>1. SUFFICES ASSUME t = SubSeq(s, n + 1, Len(s)) PROVE EventsInOrder(t, last)
  OBVIOUS
<1>2. /\ Len(t) = Len(s) - n /\ \A i \in 1 .. Len(t) : t[i] = s[i + n]
      /\ \A i : i \in EventEnds(t) <=> i \in 1 .. Len(t) /\ i + n \in EventEnds(s)
  <2>1. IsDrop(t, s, n)
    BY <1>1, DropIs
  <2>. QED  BY <2>1 DEF IsDrop
<1>3. \A i, j \in 1 .. Len(t) : i < j => i + n < j + n
  OBVIOUS
<1>. QED  BY <1>2, <1>3 DEF EventsInOrder

(* ... and appending a message.                                            *)
LEMMA AlternatesAppend ==
  ASSUME NEW K, NEW s \in Seq(Pieces(K)), NEW m \in [kind : K, n : Nat], NEW t, Alternates(s)
  PROVE  t = s \o Wire(m) => Alternates(t)
<1>1. SUFFICES ASSUME t = s \o Wire(m) PROVE Alternates(t)
  OBVIOUS
<1>2. /\ t \in Seq(Pieces(K)) /\ Len(t) = Len(s) + 2
      /\ \A i \in 1 .. Len(s) : t[i] = s[i]
      /\ t[Len(s) + 1] = Piece(m, FALSE) /\ t[Len(s) + 2] = Piece(m, TRUE)
      /\ Ends(t) = Ends(s) \cup {Len(s) + 2}
  <2>1. t \in Seq(Pieces(K)) /\ IsAppended(t, s, m)
    BY <1>1, AppendIs
  <2>. QED  BY <2>1, Zenon DEF IsAppended
<1>3. Len(s) \in Nat
  BY LenProperties
<1>4. ~t[Len(s) + 1].end /\ t[Len(s) + 2].end
  BY <1>2 DEF Piece
<1>5. \A i \in 1 .. Len(t) - 1 : t[i].end <=> ~t[i + 1].end
  <2>1. TAKE i \in 1 .. Len(t) - 1
  <2>2. CASE i \in 1 .. Len(s) - 1
    <3>1. i \in 1 .. Len(s) /\ i + 1 \in 1 .. Len(s)
      BY <2>2, <1>3
    <3>2. s[i].end <=> ~s[i + 1].end
      BY <2>2 DEF Alternates
    <3>. QED  BY <3>1, <3>2, <1>2
  <2>3. CASE i = Len(s)
    <3>1. i \in 1 .. Len(s) /\ s # <<>>
      BY <2>1, <2>3, <1>3, EmptySeq
    <3>2. s[Len(s)].end
      BY <3>1 DEF Alternates
    <3>. QED  BY <3>1, <3>2, <2>3, <1>2, <1>4
  <2>4. CASE i = Len(s) + 1
    <3>1. i + 1 = Len(s) + 2
      BY <2>4, <1>3
    <3>. QED  BY <3>1, <2>4, <1>4
  <2>5. i \in 1 .. Len(s) - 1 \/ i = Len(s) \/ i = Len(s) + 1
    BY <1>2, <1>3
  <2>. QED  BY <2>2, <2>3, <2>4, <2>5
<1>6. \A i \in Ends(t) : \E k \in 0 .. Len(t) : Len(t) - i = 2 * k
  <2>1. TAKE i \in Ends(t)
  <2>2. CASE i \in Ends(s)
    <3>1. PICK k \in 0 .. Len(s) : Len(s) - i = 2 * k
      BY <2>2 DEF Alternates
    <3>2. i \in Int
      BY <2>2 DEF Ends
    <3>3. Len(t) - i = 2 * (k + 1) /\ k + 1 \in 0 .. Len(t)
      BY <3>1, <3>2, <1>2, <1>3
    <3>. QED  BY <3>3
  <2>3. CASE i = Len(s) + 2
    <3>1. Len(t) - i = 2 * 0 /\ 0 \in 0 .. Len(t)
      BY <2>3, <1>2, <1>3
    <3>. QED  BY <3>1
  <2>. QED  BY <2>2, <2>3, <1>2
<1>. QED  BY <1>2, <1>4, <1>5, <1>6 DEF Alternates

LEMMA EventsAppend ==
  ASSUME NEW K, NEW s \in Seq(Pieces(K)), NEW m \in [kind : K, n : Nat], NEW t,
         NEW last \in Nat, EventsInOrder(s, last)
  PROVE  t = s \o Wire(m) =>
         /\ m.kind # "EVENT" => EventsInOrder(t, last)
         /\ m.kind = "EVENT" /\ m.n = last + 1 => EventsInOrder(t, last + 1)
<1>1. SUFFICES ASSUME t = s \o Wire(m)
               PROVE  /\ m.kind # "EVENT" => EventsInOrder(t, last)
                      /\ m.kind = "EVENT" /\ m.n = last + 1 => EventsInOrder(t, last + 1)
  OBVIOUS
<1>2. /\ Len(t) = Len(s) + 2 /\ \A i \in 1 .. Len(s) : t[i] = s[i]
      /\ t[Len(s) + 2] = Piece(m, TRUE)
      /\ m.kind # "EVENT" => EventEnds(t) = EventEnds(s)
      /\ m.kind = "EVENT" => EventEnds(t) = EventEnds(s) \cup {Len(s) + 2}
  <2>1. t \in Seq(Pieces(K)) /\ IsAppended(t, s, m)
    BY <1>1, AppendIs
  <2>. QED  BY <2>1, Zenon DEF IsAppended
<1>3. Len(s) \in Nat
  BY LenProperties
<1>4. EventEnds(s) \subseteq 1 .. Len(s)
  BY DEF EventEnds, Ends
<1>5. \A i \in EventEnds(s) : t[i].msg.n = s[i].msg.n
  BY <1>2, <1>4
<1>6. m.kind # "EVENT" => EventsInOrder(t, last)
  BY <1>2, <1>5, Zenon DEF EventsInOrder
<1>7. ASSUME m.kind = "EVENT", m.n = last + 1 PROVE EventsInOrder(t, last + 1)
  <2>1. t[Len(s) + 2].msg.n = last + 1
    BY <1>2, <1>7 DEF Piece
  <2>2. \A i \in EventEnds(s) : s[i].msg.n \in Nat
    <3>1. \A i \in EventEnds(s) : s[i] \in Pieces(K)
      BY <1>4, ElementOfSeq
    <3>. QED  BY <3>1 DEF Pieces
  <2>3. \A i \in EventEnds(s) : s[i].msg.n <= last
    BY Zenon DEF EventsInOrder
  <2>4. ASSUME NEW i \in EventEnds(t) PROVE t[i].msg.n <= last + 1
    <3>1. CASE i \in EventEnds(s)
      <4>1. s[i].msg.n <= last /\ s[i].msg.n \in Nat
        BY <3>1, <2>2, <2>3
      <4>2. t[i].msg.n = s[i].msg.n
        BY <3>1, <1>5
      <4>. QED  BY <4>1, <4>2
    <3>2. CASE i = Len(s) + 2
      BY <3>2, <2>1
    <3>. QED  BY <3>1, <3>2, <1>2, <1>7
  <2>5. ASSUME NEW i \in EventEnds(t), NEW j \in EventEnds(t), i < j PROVE t[i].msg.n < t[j].msg.n
    <3>1. CASE j \in EventEnds(s)
      <4>1. i \in EventEnds(s)
        <5>1. j <= Len(s) /\ i \in Int
          BY <3>1, <1>2, <1>3, <1>4, <1>7
        <5>2. i # Len(s) + 2
          BY <5>1, <2>5, <1>3
        <5>. QED  BY <5>2, <1>2, <1>7
      <4>. QED  BY <4>1, <3>1, <2>5, <1>5 DEF EventsInOrder
    <3>2. CASE j = Len(s) + 2
      <4>1. i # Len(s) + 2 /\ i \in EventEnds(s)
        <5>1. i # Len(s) + 2
          BY <3>2, <2>5, <1>3
        <5>. QED  BY <5>1, <1>2, <1>7
      <4>2. s[i].msg.n <= last /\ s[i].msg.n \in Nat /\ t[i].msg.n = s[i].msg.n
        BY <4>1, <2>2, <2>3, <1>5
      <4>. QED  BY <4>2, <3>2, <2>1
    <3>. QED  BY <3>1, <3>2, <1>2, <1>7
  <2>. QED  BY <2>4, <2>5 DEF EventsInOrder
<1>. QED  BY <1>6, <1>7

(* The first message on the way back is complete by its second piece.      *)
LEMMA FirstOfStream ==
  ASSUME NEW P, NEW s \in Seq(P), Alternates(s), Len(s) > 0
  PROVE  \/ /\ s[1].end /\ FirstEnd(s) = 1
            /\ \E m \in Nat : Len(s) = 2 * m + 1
         \/ /\ ~s[1].end /\ Len(s) > 1 /\ s[2].end /\ FirstEnd(s) = 2
<1>0. s # <<>>
  BY EmptySeq
<1>1. Len(s) \in Nat
  BY LenProperties
<1>2. CASE s[1].end
  <2>1. 1 \in Ends(s) /\ \A j \in Ends(s) : 1 <= j
    BY <1>1, <1>2 DEF Ends
  <2>2. FirstEnd(s) = 1
    BY <2>1, FirstEndIs
  <2>3. PICK m \in 0 .. Len(s) : Len(s) - 1 = 2 * m
    BY <2>1 DEF Alternates
  <2>4. m \in Nat /\ Len(s) = 2 * m + 1
    BY <2>3, <1>1
  <2>. QED  BY <1>2, <2>2, <2>4
<1>3. CASE ~s[1].end
  <2>1. Len(s) # 1
    BY <1>0, <1>3 DEF Alternates
  <2>2. 1 \in 1 .. Len(s) - 1 /\ 2 \in 1 .. Len(s) /\ Len(s) > 1
    <3>1. \A k \in Nat : k > 0 /\ k # 1 => 1 \in 1 .. k - 1 /\ 2 \in 1 .. k /\ k > 1
      OBVIOUS
    <3>. QED  BY <3>1, <1>1, <2>1, Zenon
  <2>3. s[1].end <=> ~s[1 + 1].end
    BY <2>2 DEF Alternates
  <2>4. s[2].end
    BY <1>3, <2>3
  <2>5. 2 \in Ends(s) /\ \A j \in Ends(s) : 2 <= j
    BY <1>1, <1>3, <2>2, <2>4 DEF Ends
  <2>6. FirstEnd(s) = 2
    BY <2>5, FirstEndIs
  <2>. QED  BY <1>3, <2>2, <2>4, <2>6
<1>. QED  BY <1>2, <1>3

(* ---------------------- the invariant is inductive --------------------- *)
LEMMA EmptyWay ==
  ASSUME NEW s, s = <<>>, NEW last
  PROVE  Ends(s) = {} /\ EventEnds(s) = {} /\ Alternates(s) /\ EventsInOrder(s, last) /\ Len(s) = 0
<1>1. Len(s) = 0
  OBVIOUS
<1>2. Ends(s) = {} /\ EventEnds(s) = {}
  BY <1>1 DEF Ends, EventEnds
<1>3. Alternates(s)
  BY <1>1, <1>2 DEF Alternates
<1>. QED  BY <1>1, <1>2, <1>3 DEF EventsInOrder

(* The way back in the next state.                                         *)
LEMMA WayBackPrimed ==
  ASSUME Alternates(toClient'), EventsInOrder(toClient', pushed')
  PROVE  WayBack'
BY DEF WayBack, Alternates, EventsInOrder, EventEnds, Ends

LEMMA WayBackKept ==
  ASSUME WayBack, toClient' = toClient, pushed' = pushed
  PROVE  WayBack'
BY WayBackPrimed DEF WayBack

LEMMA InitInv == Init => SocketInv
<1>. SUFFICES ASSUME Init PROVE SocketInv
  OBVIOUS
<1>1. \A K : <<>> \in Seq(Pieces(K))
  OBVIOUS
<1>2. Ends(buf) = {} /\ WayBack /\ Len(toClient) = 0
  BY EmptyWay DEF Init, WayBack
<1>3. TypeOK
  <2>1. 0 \in 0 .. MaxAttempts /\ 0 \in 0 .. 0 /\ 0 \in Nat
    BY SocketAssumption
  <2>. QED  BY <1>1, <1>2, <2>1, Zenon DEF Init, TypeOK
<1>4. Connected
  BY DEF Init, Connected
<1>5. CommandsInOrder
  <2>1. Len(srvBuf \o toServer) = 0
    BY DEF Init
  <2>. QED  BY <2>1 DEF Init, CommandsInOrder, Commands
<1>6. Balance
  BY <1>2 DEF Init, Balance, Open
<1>7. InStep
  BY <1>2 DEF Init, InStep
<1>. QED  BY <1>2, <1>3, <1>4, <1>5, <1>6, <1>7 DEF SocketInv

LEMMA CloseStep ==
  ASSUME SocketInv, close
  PROVE  SocketInv'
<1>. USE DEF SocketInv, close
<1>1. \A K : <<>> \in Seq(Pieces(K))
  OBVIOUS
<1>2. Ends(buf') = {} /\ Alternates(toClient') /\ EventsInOrder(toClient', pushed') /\ Len(toClient') = 0
  BY EmptyWay
<1>3. TypeOK'
  <2>1. Ends(buf)' = {}
    BY <1>2 DEF Ends
  <2>. QED  BY <1>1, <2>1 DEF TypeOK
<1>4. Connected'
  BY DEF Connected
<1>5. CommandsInOrder'
  BY DEF CommandsInOrder
<1>6. Balance'
  <2>1. Open' = 1 /\ Open \in {0, 1}
    BY DEF Open
  <2>2. issued \in Int /\ executed \in Int /\ pushed \in Int /\ delivered \in Int /\ Len(toClient) \in Nat
    BY LenProperties DEF TypeOK
  <2>. QED  BY <1>2, <2>1, <2>2 DEF Balance
<1>7. InStep'
  BY DEF InStep
<1>. QED  BY <1>2, <1>3, <1>4, <1>5, <1>6, <1>7, WayBackPrimed

(* The conjuncts that a step leaves alone.                                 *)
LEMMA CommandsKept ==
  ASSUME CommandsInOrder, UNCHANGED <<srvBuf, toServer, issued, executed>>,
         ~broken' /\ client' # "closed" => ~broken /\ client # "closed"
  PROVE  CommandsInOrder'
BY DEF CommandsInOrder, Commands

LEMMA BalanceKept ==
  ASSUME Balance, UNCHANGED <<issued, executed, pushed, delivered, toClient>>,
         client' \in {"call", "closed"} <=> client \in {"call", "closed"}
  PROVE  Balance'
BY DEF Balance, Open

LEMMA InStepKept ==
  ASSUME InStep, client' = client, buf' = buf, toClient' = toClient, broken' = broken,
         issued' = issued, executed' = executed, skewed' = skewed
  PROVE  InStep'
BY DEF InStep, Calling, Resting, OwnAnswer

LEMMA BufKept ==
  ASSUME Ends(buf) = {}, buf' = buf
  PROVE  Ends(buf)' = {}
BY DEF Ends

LEMMA BufEmptied ==
  ASSUME buf' = <<>>
  PROVE  Ends(buf)' = {} /\ \A K : buf' \in Seq(Pieces(K))
<1>1. \A K : <<>> \in Seq(Pieces(K))
  OBVIOUS
<1>2. Ends(buf') = {}
  BY EmptyWay
<1>. QED  BY <1>1, <1>2 DEF Ends

LEMMA BindStep == ASSUME SocketInv, Bind PROVE SocketInv'
<1>. USE DEF SocketInv, Bind, clientVars, serverVars
<1>1. TypeOK'
  BY BufKept DEF TypeOK
<1>2. Connected'
  BY DEF Connected
<1>3. CommandsInOrder' /\ WayBack'
  BY CommandsKept, WayBackKept
<1>4. Balance'
  BY BalanceKept
<1>5. InStep'
  BY InStepKept, Zenon
<1>. QED  BY <1>1, <1>2, <1>3, <1>4, <1>5

LEMMA ConnectStep == ASSUME SocketInv, Connect PROVE SocketInv'
<1>. USE DEF SocketInv, Connect, clientVars, serverVars
<1>1. TypeOK'
  BY BufKept, SocketAssumption DEF TypeOK
<1>2. Connected'
  BY DEF Connected
<1>3. CommandsInOrder' /\ WayBack' /\ Balance'
  BY CommandsKept, WayBackKept, BalanceKept
<1>4. InStep'
  <2>1. toClient' = <<>> /\ Len(toClient') = 0 /\ executed' = issued' /\ client' = "idle"
    BY EmptyWay DEF Connected
  <2>. QED  BY <2>1 DEF InStep, Resting
<1>. QED  BY <1>1, <1>2, <1>3, <1>4

LEMMA ConnectFailsStep == ASSUME SocketInv, ConnectFails PROVE SocketInv'
<1>. USE DEF SocketInv, ConnectFails, clientVars, serverVars
<1>1. TypeOK'
  <2>1. tries' \in 0 .. MaxAttempts
    BY SocketAssumption DEF TypeOK
  <2>. QED  BY <2>1, BufKept DEF TypeOK
<1>2. Connected'
  BY DEF Connected
<1>3. CommandsInOrder' /\ WayBack'
  BY CommandsKept, WayBackKept
<1>4. Balance'
  BY BalanceKept
<1>5. InStep'
  BY InStepKept, Zenon
<1>. QED  BY <1>1, <1>2, <1>3, <1>4, <1>5

LEMMA RecvEventStep == ASSUME SocketInv, recv_event PROVE SocketInv'
<1>. USE DEF SocketInv, recv_event, clientVars, serverVars
<1>1. TypeOK'
  BY BufEmptied DEF TypeOK
<1>2. Connected'
  BY DEF Connected
<1>3. CommandsInOrder' /\ WayBack' /\ Balance'
  BY CommandsKept, WayBackKept, BalanceKept
<1>4. InStep'
  <2>1. ~skewed => Resting
    BY DEF InStep
  <2>. QED  BY <2>1 DEF InStep, Resting
<1>. QED  BY <1>1, <1>2, <1>3, <1>4

LEMMA AcceptStep == ASSUME SocketInv, Accept PROVE SocketInv'
<1>. USE DEF SocketInv, Accept, clientVars, serverVars
<1>1. srvBuf' = srvBuf
  BY DEF Connected
<1>2. TypeOK'
  BY <1>1, BufKept DEF TypeOK
<1>3. Connected'
  BY DEF Connected
<1>4. CommandsInOrder' /\ WayBack'
  BY <1>1, CommandsKept, WayBackKept
<1>5. Balance'
  BY BalanceKept
<1>6. InStep'
  BY InStepKept
<1>. QED  BY <1>2, <1>3, <1>4, <1>5, <1>6

(* ------------------------ commands on their way ------------------------ *)
(* The oldest command in Lua's buffer.                                     *)
LEMMA OldestCommand ==
  ASSUME SocketInv, server = "drain"
  PROVE  /\ FirstEnd(srvBuf) = 2 /\ Len(srvBuf) > 1
         /\ srvBuf[2].msg.n = executed + 1 /\ executed < issued
<1>. USE DEF SocketInv
<1>1. Commands(srvBuf \o toServer, executed, issued)
  BY DEF CommandsInOrder, Connected
<1>2. /\ Len(srvBuf) \in Nat /\ Len(toServer) \in Nat
      /\ Len(srvBuf \o toServer) = Len(srvBuf) + Len(toServer)
      /\ \A i \in 1 .. Len(srvBuf) : (srvBuf \o toServer)[i] = srvBuf[i]
  BY LenProperties, ConcatProperties DEF TypeOK
<1>3. PICK e \in Ends(srvBuf) : TRUE
  BY DEF Connected
<1>4. e \in 1 .. Len(srvBuf) /\ srvBuf[e].end
  BY <1>3 DEF Ends
<1>5. issued \in Nat /\ executed \in Nat /\ executed < issued
  <2>1. issued \in Nat /\ executed \in Nat /\ Len(srvBuf) + Len(toServer) = 2 * (issued - executed)
    BY <1>1, <1>2 DEF Commands, TypeOK
  <2>. QED  BY <1>2, <1>4, <2>1
<1>6. /\ (srvBuf \o toServer)[1] = Piece(Msg("COMMAND", executed + 1), FALSE)
      /\ (srvBuf \o toServer)[2] = Piece(Msg("COMMAND", executed + 1), TRUE)
  <2>1. 1 \in 1 .. issued - executed /\ 2 * 1 - 1 = 1 /\ 2 * 1 = 2
    BY <1>5
  <2>. QED  BY <1>1, <2>1 DEF Commands
<1>7. srvBuf[1] = Piece(Msg("COMMAND", executed + 1), FALSE)
  <2>1. 1 \in 1 .. Len(srvBuf)
    BY <1>2, <1>4
  <2>. QED  BY <2>1, <1>2, <1>6
<1>8. ~srvBuf[1].end
  BY <1>7 DEF Piece
<1>9. e # 1
  BY <1>4, <1>8
<1>10. Len(srvBuf) > 1 /\ 2 \in 1 .. Len(srvBuf)
  BY <1>2, <1>4, <1>9
<1>11. srvBuf[2] = Piece(Msg("COMMAND", executed + 1), TRUE)
  BY <1>2, <1>6, <1>10
<1>12. srvBuf[2].end /\ srvBuf[2].msg.n = executed + 1
  BY <1>11 DEF Piece, Msg
<1>13. 2 \in Ends(srvBuf) /\ \A j \in Ends(srvBuf) : 2 <= j
  BY <1>2, <1>8, <1>10, <1>12 DEF Ends
<1>14. FirstEnd(srvBuf) = 2
  BY <1>13, FirstEndIs DEF TypeOK
<1>. QED  BY <1>5, <1>10, <1>12, <1>14

(* The oldest command leaves the buffer.                                   *)
LEMMA CommandTaken ==
  ASSUME SocketInv, server = "drain"
  PROVE  /\ AfterMessage(srvBuf) \in Seq(Pieces({"COMMAND"}))
         /\ Commands(AfterMessage(srvBuf) \o toServer, executed + 1, issued)
<1>. DEFINE P == Pieces({"COMMAND"})
            S == srvBuf \o toServer
<1>1. srvBuf \in Seq(P) /\ toServer \in Seq(P) /\ issued \in Nat /\ executed \in Nat
  BY DEF SocketInv, TypeOK
<1>2. FirstEnd(srvBuf) = 2 /\ Len(srvBuf) > 1 /\ executed < issued
  BY OldestCommand
<1>3. PICK b : b = AfterMessage(srvBuf)
  OBVIOUS
<1>4. b = SubSeq(srvBuf, 2 + 1, Len(srvBuf))
  BY <1>2, <1>3 DEF AfterMessage
<1>5. Len(srvBuf) \in Nat /\ Len(toServer) \in Nat /\ 2 \in 0 .. Len(srvBuf)
  BY <1>1, <1>2, LenProperties
<1>6. b \in Seq(P) /\ IsDrop(b, srvBuf, 2)
  <2>. HIDE DEF P
  <2>. QED  BY <1>1, <1>4, <1>5, DropIs
<1>7. Len(b) = Len(srvBuf) - 2 /\ \A i \in 1 .. Len(b) : b[i] = srvBuf[i + 2]
  BY <1>6 DEF IsDrop
<1>8. /\ Len(S) = Len(srvBuf) + Len(toServer)
      /\ \A i \in 1 .. Len(srvBuf) + Len(toServer) :
           S[i] = IF i <= Len(srvBuf) THEN srvBuf[i] ELSE toServer[i - Len(srvBuf)]
  <2>. HIDE DEF P
  <2>. QED  BY <1>1, ConcatProperties
<1>9. /\ Len(b \o toServer) = Len(b) + Len(toServer)
      /\ \A i \in 1 .. Len(b) + Len(toServer) :
           (b \o toServer)[i] = IF i <= Len(b) THEN b[i] ELSE toServer[i - Len(b)]
  <2>. HIDE DEF P
  <2>. QED  BY <1>1, <1>6, ConcatProperties
<1>10. ~broken /\ client # "closed" /\ Commands(S, executed, issued)
  BY DEF SocketInv, CommandsInOrder, Connected
<1>11. /\ Len(S) = 2 * (issued - executed)
       /\ \A k \in 1 .. issued - executed :
            /\ S[2 * k - 1] = Piece(Msg("COMMAND", executed + k), FALSE)
            /\ S[2 * k] = Piece(Msg("COMMAND", executed + k), TRUE)
  <2>. HIDE DEF S
  <2>. QED  BY <1>10 DEF Commands
<1>12. \A i \in 1 .. Len(b) + Len(toServer) : (b \o toServer)[i] = S[i + 2]
  <2>. HIDE DEF S
  <2>1. TAKE i \in 1 .. Len(b) + Len(toServer)
  <2>2. i + 2 \in 1 .. Len(srvBuf) + Len(toServer)
    BY <1>5, <1>7
  <2>3. CASE i <= Len(b)
    <3>1. i \in 1 .. Len(b) /\ i + 2 <= Len(srvBuf)
      BY <2>3, <1>5, <1>7
    <3>2. (b \o toServer)[i] = b[i]
      BY <1>9, <2>3
    <3>3. S[i + 2] = srvBuf[i + 2]
      BY <3>1, <2>2, <1>8
    <3>. QED  BY <3>1, <3>2, <3>3, <1>7
  <2>4. CASE ~ (i <= Len(b))
    <3>1. ~ (i + 2 <= Len(srvBuf)) /\ i + 2 - Len(srvBuf) = i - Len(b)
      BY <2>4, <1>5, <1>7
    <3>2. (b \o toServer)[i] = toServer[i - Len(b)]
      BY <1>9, <2>4
    <3>3. S[i + 2] = toServer[i + 2 - Len(srvBuf)]
      BY <3>1, <2>2, <1>8
    <3>. QED  BY <3>1, <3>2, <3>3
  <2>. QED  BY <2>3, <2>4
<1>13. Len(b) + Len(toServer) = 2 * (issued - (executed + 1))
  <2>. HIDE DEF S
  <2>1. Len(srvBuf) + Len(toServer) = 2 * (issued - executed)
    BY <1>8, <1>11, Zenon
  <2>2. Len(b) = Len(srvBuf) - 2
    BY <1>7
  <2>. QED  BY <1>1, <1>5, <2>1, <2>2
<1>14. ASSUME NEW k \in 1 .. issued - (executed + 1)
       PROVE  /\ (b \o toServer)[2 * k - 1] = Piece(Msg("COMMAND", executed + 1 + k), FALSE)
              /\ (b \o toServer)[2 * k] = Piece(Msg("COMMAND", executed + 1 + k), TRUE)
  <2>. HIDE DEF S
  <2>1. /\ 2 * k - 1 \in 1 .. 2 * (issued - (executed + 1))
        /\ 2 * k \in 1 .. 2 * (issued - (executed + 1))
        /\ 2 * k - 1 + 2 = 2 * (k + 1) - 1 /\ 2 * k + 2 = 2 * (k + 1)
        /\ k + 1 \in 1 .. issued - executed
        /\ executed + (k + 1) = executed + 1 + k
    BY <1>1
  <2>2. (b \o toServer)[2 * k - 1] = S[2 * (k + 1) - 1] /\ (b \o toServer)[2 * k] = S[2 * (k + 1)]
    <3>1. (b \o toServer)[2 * k - 1] = S[2 * k - 1 + 2] /\ (b \o toServer)[2 * k] = S[2 * k + 2]
      BY <2>1, <1>12, <1>13, Zenon
    <3>. QED  BY <3>1, <2>1, Zenon
  <2>3. /\ S[2 * (k + 1) - 1] = Piece(Msg("COMMAND", executed + (k + 1)), FALSE)
        /\ S[2 * (k + 1)] = Piece(Msg("COMMAND", executed + (k + 1)), TRUE)
    BY <2>1, <1>11, Zenon
  <2>. QED  BY <2>1, <2>2, <2>3, Zenon
<1>. QED
  <2>1. Len(b \o toServer) = 2 * (issued - (executed + 1))
    BY <1>9, <1>13, Zenon
  <2>2. Commands(b \o toServer, executed + 1, issued)
    BY <2>1, <1>14, Zenon DEF Commands
  <2>. QED  BY <2>2, <1>3, <1>6, Zenon

LEMMA CommandsPrimed ==
  ASSUME NEW T, NEW e, NEW i,
         srvBuf' \o toServer' = T, executed' = e, issued' = i, Commands(T, e, i)
  PROVE  CommandsInOrder'
BY DEF CommandsInOrder, Commands

Associates(s, a, b) == (s \o a) \o b = s \o (a \o b)
LEMMA Associative ==
  ASSUME NEW P, NEW s \in Seq(P), NEW a \in Seq(P), NEW b \in Seq(P)
  PROVE  Associates(s, a, b)
BY ConcatAssociative, SMT DEF Associates

(* Moving n elements from one sequence to the end of another one.          *)
LEMMA Moved ==
  ASSUME NEW P, NEW s \in Seq(P), NEW t \in Seq(P), NEW n \in 1 .. Len(t)
  PROVE  /\ s \o SubSeq(t, 1, n) \in Seq(P) /\ SubSeq(t, n + 1, Len(t)) \in Seq(P)
         /\ (s \o SubSeq(t, 1, n)) \o SubSeq(t, n + 1, Len(t)) = s \o t
<1>1. Len(t) \in Nat
  BY LenProperties
<1>2. PICK a, b : a = SubSeq(t, 1, n) /\ b = SubSeq(t, n + 1, Len(t))
  OBVIOUS
<1>3. a \in Seq(P) /\ b \in Seq(P)
  <2>1. \A i \in 1 .. Len(t) : t[i] \in P
    BY ElementOfSeq
  <2>2. /\ \A i \in 1 .. n : t[i] \in P
        /\ \A i \in n + 1 .. Len(t) : t[i] \in P
        /\ n \in Int /\ n + 1 \in Int /\ Len(t) \in Int /\ 1 \in Int
    BY <2>1, <1>1
  <2>. QED  BY <2>2, <1>2, SubSeqProperties
<1>4. s \o a \in Seq(P)
  BY <1>3, ConcatProperties
<1>5. (s \o a) \o b = s \o (a \o b)
  <2>1. Associates(s, a, b)
    BY <1>3, Associative, Zenon
  <2>. QED  BY <2>1, Zenon DEF Associates
<1>6. a \o b = t
  <2>1. 1 \in 1 .. Len(t) + 1 /\ n \in 1 - 1 .. Len(t) /\ Len(t) \in n .. Len(t)
    BY <1>1
  <2>2. a \o b = SubSeq(t, 1, Len(t))
    BY <2>1, <1>2, ConcatAdjacentSubSeq
  <2>. QED  BY <2>2, SubSeqFull
<1>. QED  BY <1>2, <1>3, <1>4, <1>5, <1>6

LEMMA FrameReceiveStep == ASSUME SocketInv, FrameReceive PROVE SocketInv'
<1>. USE DEF SocketInv, FrameReceive, clientVars, serverVars
<1>1. PICK n \in 1 .. Len(toServer) :
        /\ srvBuf' = srvBuf \o SubSeq(toServer, 1, n)
        /\ toServer' = SubSeq(toServer, n + 1, Len(toServer))
  OBVIOUS
<1>2. srvBuf \in Seq(Pieces({"COMMAND"})) /\ toServer \in Seq(Pieces({"COMMAND"}))
  BY DEF TypeOK
<1>3. /\ srvBuf \o SubSeq(toServer, 1, n) \in Seq(Pieces({"COMMAND"}))
      /\ SubSeq(toServer, n + 1, Len(toServer)) \in Seq(Pieces({"COMMAND"}))
      /\ (srvBuf \o SubSeq(toServer, 1, n)) \o SubSeq(toServer, n + 1, Len(toServer))
           = srvBuf \o toServer
  BY <1>2, Moved, Zenon
<1>4. srvBuf' \in Seq(Pieces({"COMMAND"})) /\ toServer' \in Seq(Pieces({"COMMAND"}))
  BY <1>1, <1>3, Zenon
<1>5. srvBuf' \o toServer' = srvBuf \o toServer
  BY <1>1, <1>3, Zenon
<1>6. TypeOK'
  <2>1. server' \in {"served", "drain"}
    BY DEF InFrame
  <2>. QED  BY <2>1, <1>4, BufKept DEF TypeOK
<1>7. Connected'
  <2>1. server' = "drain" => Ends(srvBuf)' # {}
    <3>1. server' = "drain" => Ends(srvBuf') # {}
      BY DEF InFrame
    <3>. QED  BY <3>1 DEF Ends
  <2>2. server' \in {"served", "drain"}
    BY DEF InFrame
  <2>. QED  BY <2>1, <2>2 DEF Connected
<1>8. CommandsInOrder'
  <2>1. PICK T, e, i : T = srvBuf \o toServer /\ e = executed /\ i = issued
    OBVIOUS
  <2>2. Commands(T, e, i)
    BY <2>1 DEF CommandsInOrder, Connected
  <2>3. srvBuf' \o toServer' = T /\ executed' = e /\ issued' = i
    BY <2>1, <1>5
  <2>. QED  BY <2>2, <2>3, CommandsPrimed, Zenon
<1>9. WayBack'
  BY WayBackKept
<1>10. Balance'
  BY BalanceKept
<1>11. InStep'
  BY InStepKept, Zenon
<1>. QED  BY <1>6, <1>7, <1>8, <1>9, <1>10, <1>11

LEMMA SendStep ==
  ASSUME SocketInv, NEW data \in BOOLEAN, Send(data)
  PROVE  SocketInv'
<1>. DEFINE m == Msg("COMMAND", issued + 1)
<1>0. /\ srvBuf \in Seq(Pieces({"COMMAND"})) /\ toServer \in Seq(Pieces({"COMMAND"}))
      /\ issued \in Nat /\ executed \in 0 .. issued /\ executed \in Nat
  BY DEF SocketInv, TypeOK
<1>1. /\ client = "idle" /\ ~broken /\ client' = "call" /\ reads' = data /\ buf' = <<>>
      /\ issued' = issued + 1 /\ toServer' = toServer \o Wire(m)
      /\ skewed' = (skewed \/ toClient # <<>>)
      /\ UNCHANGED <<timed, tries, delivered, got, server, broken, srvBuf, executed, pushed, toClient>>
  BY DEF Send, serverVars
<1>2. m \in [kind : {"COMMAND"}, n : Nat]
  BY <1>0 DEF Msg
<1>3. PICK w : w = Wire(m)
  OBVIOUS
<1>4. w \in Seq(Pieces({"COMMAND"})) /\ toServer' \in Seq(Pieces({"COMMAND"}))
  <2>. HIDE DEF m
  <2>1. Piece(m, FALSE) \in Pieces({"COMMAND"}) /\ Piece(m, TRUE) \in Pieces({"COMMAND"})
    BY <1>2 DEF Piece, Pieces
  <2>2. w \in Seq(Pieces({"COMMAND"}))
    BY <2>1, <1>3, PairIs DEF Wire
  <2>3. toServer \o w \in Seq(Pieces({"COMMAND"}))
    BY <2>2, <1>0, ConcatProperties
  <2>. QED  BY <2>2, <2>3, <1>1, <1>3
<1>5. PICK S, T : S = srvBuf \o toServer /\ T = srvBuf' \o toServer'
  OBVIOUS
<1>6. S \in Seq(Pieces({"COMMAND"})) /\ T = S \o Wire(m)
  <2>. HIDE DEF m
  <2>1. Associates(srvBuf, toServer, w)
    BY <1>0, <1>4, Associative, Zenon
  <2>2. srvBuf' = srvBuf /\ toServer' = toServer \o w
    BY <1>1, <1>3
  <2>3. T = S \o w
    BY <2>1, <2>2, <1>5, Zenon DEF Associates
  <2>. QED  BY <2>3, <1>0, <1>3, <1>5, ConcatProperties
<1>7. IsAppended(T, S, m)
  <2>. HIDE DEF m
  <2>. QED  BY <1>2, <1>6, AppendIs, Zenon
<1>8. /\ Len(S) = 2 * (issued - executed)
      /\ \A k \in 1 .. issued - executed : /\ S[2 * k - 1] = Piece(Msg("COMMAND", executed + k), FALSE)
                                           /\ S[2 * k] = Piece(Msg("COMMAND", executed + k), TRUE)
  <2>1. Commands(S, executed, issued)
    BY <1>1, <1>5 DEF SocketInv, CommandsInOrder
  <2>. QED  BY <2>1, Zenon DEF Commands
<1>9. CommandsInOrder'
  <2>. HIDE DEF m
  <2>1. Len(T) = Len(S) + 2 /\ (\A i \in 1 .. Len(S) : T[i] = S[i])
        /\ T[Len(S) + 1] = Piece(m, FALSE) /\ T[Len(S) + 2] = Piece(m, TRUE)
    BY <1>7, Zenon DEF IsAppended
  <2>2. Len(T) = 2 * ((issued + 1) - executed)
    BY <2>1, <1>0, <1>8
  <2>3. ASSUME NEW k \in 1 .. (issued + 1) - executed
        PROVE  /\ T[2 * k - 1] = Piece(Msg("COMMAND", executed + k), FALSE)
               /\ T[2 * k] = Piece(Msg("COMMAND", executed + k), TRUE)
    <3>1. CASE k \in 1 .. issued - executed
      <4>1. 2 * k - 1 \in 1 .. 2 * (issued - executed) /\ 2 * k \in 1 .. 2 * (issued - executed)
        BY <3>1, <1>0
      <4>2. T[2 * k - 1] = S[2 * k - 1] /\ T[2 * k] = S[2 * k]
        BY <4>1, <2>1, <1>8, Zenon
      <4>. QED  BY <4>2, <3>1, <1>8, Zenon
    <3>2. CASE ~ (k \in 1 .. issued - executed)
      <4>1. k = issued - executed + 1
        BY <3>2, <1>0
      <4>2. 2 * k - 1 = 2 * (issued - executed) + 1 /\ 2 * k = 2 * (issued - executed) + 2
            /\ executed + k = issued + 1
        BY <4>1, <1>0
      <4>3. T[2 * k - 1] = Piece(m, FALSE) /\ T[2 * k] = Piece(m, TRUE)
        BY <4>2, <2>1, <1>8, Zenon
      <4>. QED  BY <4>2, <4>3, Zenon DEF m
    <3>. QED  BY <3>1, <3>2
  <2>4. srvBuf' \o toServer' = T /\ executed' = executed /\ issued' = issued + 1
    BY <1>1, <1>5
  <2>5. PICK i : i = issued + 1
    OBVIOUS
  <2>6. Commands(T, executed, i)
    <3>1. Commands(T, executed, issued + 1)
      BY <2>2, <2>3, Zenon DEF Commands
    <3>. QED  BY <3>1, <2>5, Zenon
  <2>7. issued' = i
    BY <2>4, <2>5
  <2>. QED  BY <2>4, <2>6, <2>7, CommandsPrimed, Zenon
<1>10. TypeOK'
  <2>1. issued' \in Nat /\ executed' \in 0 .. issued'
    BY <1>0, <1>1
  <2>. QED  BY <2>1, <1>1, <1>4, BufEmptied DEF SocketInv, TypeOK
<1>11. Connected'
  <2>. HIDE DEF m
  <2>. QED  BY <1>1 DEF SocketInv, Connected, Ends
<1>12. WayBack'
  BY <1>1, WayBackKept DEF SocketInv
<1>13. Balance'
  <2>1. Open = 0 /\ Open' = 1 /\ delivered \in Nat
    BY <1>1 DEF Open, SocketInv, TypeOK
  <2>2. issued' - Open' + delivered' = issued - Open + delivered
    BY <2>1, <1>0, <1>1
  <2>. QED  BY <2>2, <1>1 DEF SocketInv, Balance
<1>14. InStep'
  <2>1. ASSUME ~skewed' PROVE Calling'
    <3>1. Resting /\ toClient = <<>>
      BY <2>1, <1>1 DEF SocketInv, InStep
    <3>2. executed = issued
      BY <3>1, <1>1 DEF Resting
    <3>3. executed' = issued' - 1 /\ buf' = <<>> /\ toClient' = <<>>
      BY <3>1, <3>2, <1>0, <1>1
    <3>. QED  BY <3>3 DEF Calling
  <2>. QED  BY <2>1, <1>1 DEF InStep
<1>. QED  BY <1>9, <1>10, <1>11, <1>12, <1>13, <1>14 DEF SocketInv

(* A message of the server is appended to the way back.                    *)
LEMMA Sent ==
  ASSUME SocketInv, NEW m \in [kind : Kinds, n : Nat], toClient' = toClient \o Wire(m)
  PROVE  /\ toClient' \in Seq(Pieces(Kinds)) /\ Len(toClient') = Len(toClient) + 2
         /\ IsAppended(toClient', toClient, m)
         /\ Alternates(toClient')
         /\ m.kind # "EVENT" => EventsInOrder(toClient', pushed)
         /\ m.kind = "EVENT" /\ m.n = pushed + 1 => EventsInOrder(toClient', pushed + 1)
<1>1. toClient \in Seq(Pieces(Kinds)) /\ Alternates(toClient) /\ EventsInOrder(toClient, pushed)
      /\ pushed \in Nat
  BY DEF SocketInv, TypeOK, WayBack
<1>2. PICK t : t = toClient'
  OBVIOUS
<1>3. t = toClient \o Wire(m)
  BY <1>2
<1>4. t \in Seq(Pieces(Kinds)) /\ IsAppended(t, toClient, m)
  BY <1>1, <1>3, AppendIs, Zenon
<1>5. Alternates(t)
  BY <1>1, <1>3, AlternatesAppend, Zenon
<1>6. /\ m.kind # "EVENT" => EventsInOrder(t, pushed)
      /\ m.kind = "EVENT" /\ m.n = pushed + 1 => EventsInOrder(t, pushed + 1)
  BY <1>1, <1>3, EventsAppend, Zenon
<1>7. Len(t) = Len(toClient) + 2
  BY <1>4, Zenon DEF IsAppended
<1>. QED  BY <1>2, <1>4, <1>5, <1>6, <1>7, Zenon

LEMMA TakenPrimed ==
  ASSUME SocketInv, server = "drain",
         srvBuf' = AfterMessage(srvBuf), UNCHANGED <<toServer, issued>>, executed' = executed + 1
  PROVE  CommandsInOrder'
<1>1. PICK T, e : T = AfterMessage(srvBuf) \o toServer /\ e = executed + 1
  OBVIOUS
<1>2. Commands(T, e, issued)
  BY <1>1, CommandTaken, Zenon
<1>3. srvBuf' \o toServer' = T /\ executed' = e /\ issued' = issued
  BY <1>1
<1>. QED  BY <1>2, <1>3, CommandsPrimed, Zenon

LEMMA HandleStep == ASSUME SocketInv, handle_command PROVE SocketInv'
<1>1. /\ server = "drain" /\ srvBuf' = AfterMessage(srvBuf) /\ server' = InFrame(srvBuf')
      /\ executed' = srvBuf[FirstEnd(srvBuf)].msg.n
      /\ UNCHANGED <<client, timed, tries, reads, buf, delivered, got, broken, pushed,
                     toServer, issued, skewed>>
  BY DEF handle_command, clientVars
<1>2. executed' = executed + 1 /\ executed < issued
  BY <1>1, OldestCommand
<1>3. PICK kind \in {"SUCCESS", "ERROR"} : toClient' = toClient \o Wire(Msg(kind, executed'))
  BY DEF handle_command
<1>4. issued \in Nat /\ executed \in Nat /\ pushed \in Nat /\ delivered \in Nat
  BY DEF SocketInv, TypeOK
<1>5. PICK m : m = Msg(kind, executed')
  OBVIOUS
<1>6. m \in [kind : Kinds, n : Nat] /\ m.kind # "EVENT" /\ toClient' = toClient \o Wire(m)
  BY <1>2, <1>3, <1>4, <1>5 DEF Msg, Kinds
<1>7. /\ toClient' \in Seq(Pieces(Kinds)) /\ Len(toClient') = Len(toClient) + 2
      /\ Alternates(toClient') /\ EventsInOrder(toClient', pushed)
  BY <1>6, Sent
<1>8. server' \in {"served", "drain"} /\ (server' = "drain" => Ends(srvBuf') # {})
  BY <1>1 DEF InFrame
<1>9. TypeOK'
  <2>1. srvBuf' \in Seq(Pieces({"COMMAND"}))
    BY <1>1, CommandTaken
  <2>2. executed' \in 0 .. issued'
    BY <1>1, <1>2, <1>4
  <2>. QED  BY <2>1, <2>2, <1>1, <1>7, <1>8, BufKept DEF SocketInv, TypeOK
<1>10. Connected'
  <2>1. server' = "drain" => Ends(srvBuf)' # {}
    BY <1>8 DEF Ends
  <2>2. ~broken /\ client \notin {"down", "closed"}
    BY <1>1 DEF SocketInv, Connected
  <2>. QED  BY <2>1, <2>2, <1>1, <1>8 DEF Connected
<1>11. CommandsInOrder'
  BY <1>1, <1>2, TakenPrimed
<1>12. WayBack'
  BY <1>1, <1>7, WayBackPrimed
<1>13. Balance'
  <2>1. Open' = Open /\ Open \in Int /\ Len(toClient) \in Int
    BY <1>1, LenProperties DEF Open, SocketInv, TypeOK
  <2>. QED  BY <2>1, <1>1, <1>2, <1>4, <1>7 DEF SocketInv, Balance
<1>14. InStep'
  <2>1. ASSUME ~skewed PROVE (client = "call" /\ Calling')
                        \/ client \notin {"call", "idle", "wait"}
    <3>1. ~broken
      BY <1>1 DEF SocketInv, Connected
    <3>2. client \notin {"idle", "wait"}
      <4>1. executed # issued
        BY <1>2, <1>4
      <4>. QED  BY <2>1, <3>1, <4>1 DEF SocketInv, InStep, Resting
    <3>3. CASE client = "call"
      <4>1. executed = issued - 1 /\ buf = <<>> /\ toClient = <<>>
        <5>1. Calling /\ executed # issued
          BY <2>1, <3>3, <1>2, <1>4 DEF SocketInv, InStep
        <5>. QED  BY <5>1, <3>1 DEF Calling
      <4>2. executed' = issued' /\ m = Msg(kind, issued')
        BY <4>1, <1>1, <1>2, <1>4, <1>5
      <4>3. toClient' = Wire(m) /\ buf' = <<>>
        <5>1. Wire(m) \in Seq(Pieces(Kinds))
          <6>1. Piece(m, FALSE) \in Pieces(Kinds) /\ Piece(m, TRUE) \in Pieces(Kinds)
            BY <1>6 DEF Piece, Pieces
          <6>. QED  BY <6>1, PairIs DEF Wire
        <5>. QED  BY <5>1, <4>1, <1>1, <1>6, ConcatEmptySeq
      <4>. QED  BY <3>3, <4>2, <4>3 DEF Calling, OwnAnswer
    <3>. QED  BY <3>2, <3>3
  <2>. QED  BY <2>1, <1>1 DEF InStep
<1>. QED  BY <1>9, <1>10, <1>11, <1>12, <1>13, <1>14 DEF SocketInv

LEMMA KeyStep == ASSUME SocketInv, Key PROVE SocketInv'
<1>1. /\ server = "served" /\ pushed' = pushed + 1
      /\ skewed' = (skewed \/ client = "call")
      /\ UNCHANGED <<client, timed, tries, reads, buf, delivered, got, server, broken, srvBuf,
                     executed, toServer, issued>>
  BY DEF Key, clientVars
<1>2. issued \in Nat /\ executed \in Nat /\ pushed \in Nat /\ delivered \in Nat
  BY DEF SocketInv, TypeOK
<1>3. PICK m : m = Msg("EVENT", pushed + 1)
  OBVIOUS
<1>4. m \in [kind : Kinds, n : Nat] /\ m.kind = "EVENT" /\ m.n = pushed + 1 /\ toClient' = toClient \o Wire(m)
  BY <1>2, <1>3 DEF Key, Msg, Kinds
<1>5. /\ toClient' \in Seq(Pieces(Kinds)) /\ Len(toClient') = Len(toClient) + 2
      /\ IsAppended(toClient', toClient, m)
      /\ Alternates(toClient') /\ EventsInOrder(toClient', pushed + 1)
  BY <1>4, Sent
<1>6. TypeOK'
  BY <1>1, <1>2, <1>5, BufKept DEF SocketInv, TypeOK
<1>7. Connected'
  BY <1>1 DEF SocketInv, Connected, Ends
<1>8. CommandsInOrder'
  BY <1>1, CommandsKept DEF SocketInv
<1>9. WayBack'
  <2>1. EventsInOrder(toClient', pushed')
    BY <1>1, <1>5
  <2>. QED  BY <2>1, <1>5, WayBackPrimed
<1>10. Balance'
  <2>1. Open' = Open /\ Open \in Int /\ Len(toClient) \in Int
    BY <1>1, LenProperties DEF Open, SocketInv, TypeOK
  <2>. QED  BY <2>1, <1>1, <1>2, <1>5 DEF SocketInv, Balance
<1>11. InStep'
  <2>1. ASSUME ~skewed', client \in {"idle", "wait"} PROVE Resting'
    <3>1. Resting
      BY <2>1, <1>1 DEF SocketInv, InStep
    <3>2. Len(toClient) \in Nat
      BY LenProperties DEF SocketInv, TypeOK
    <3>3. ASSUME NEW i \in 1 .. Len(toClient') PROVE toClient'[i].msg.kind = "EVENT"
      <4>1. CASE i \in 1 .. Len(toClient)
        <5>1. toClient'[i] = toClient[i]
          BY <4>1, <1>5, Zenon DEF IsAppended
        <5>. QED  BY <5>1, <4>1, <3>1 DEF Resting
      <4>2. CASE i = Len(toClient) + 1 \/ i = Len(toClient) + 2
        <5>1. toClient'[i] = Piece(m, FALSE) \/ toClient'[i] = Piece(m, TRUE)
          BY <4>2, <1>5, Zenon DEF IsAppended
        <5>. QED  BY <5>1, <1>4 DEF Piece
      <4>. QED  BY <4>1, <4>2, <3>2, <1>5
    <3>. QED  BY <3>1, <3>3, <1>1 DEF Resting
  <2>. QED  BY <2>1, <1>1 DEF InStep
<1>. QED  BY <1>6, <1>7, <1>8, <1>9, <1>10, <1>11 DEF SocketInv

(* The server drops the connection.                                        *)
LEMMA ResetStep ==
  ASSUME SocketInv, server \in {"served", "drain"}, reset_connection,
         \/ executed' = executed /\ toClient' \in {toClient, <<>>}
         \/ executed' = executed + 1 /\ executed < issued /\ toClient' = toClient
  PROVE  SocketInv'
<1>1. /\ server' = "listen" /\ broken' = TRUE /\ srvBuf' = <<>> /\ toServer' = <<>>
      /\ UNCHANGED <<client, timed, tries, reads, buf, delivered, got, pushed, issued, skewed>>
  BY DEF reset_connection, clientVars
<1>2. /\ issued \in Nat /\ executed \in Nat /\ pushed \in Nat /\ delivered \in Nat
      /\ executed' \in 0 .. issued /\ executed' \in Nat /\ executed' >= executed
  BY DEF SocketInv, TypeOK
<1>3. ~broken /\ client \notin {"down", "closed"}
  BY DEF SocketInv, Connected
<1>4. /\ toClient' \in Seq(Pieces(Kinds)) /\ Alternates(toClient') /\ EventsInOrder(toClient', pushed)
      /\ Len(toClient') <= Len(toClient) /\ Len(toClient) \in Int /\ Len(toClient') \in Int
  <2>1. toClient \in Seq(Pieces(Kinds)) /\ Alternates(toClient) /\ EventsInOrder(toClient, pushed)
    BY DEF SocketInv, TypeOK, WayBack
  <2>2. Len(toClient) \in Nat
    BY <2>1, LenProperties
  <2>3. CASE toClient' = <<>>
    <3>1. toClient' \in Seq(Pieces(Kinds)) /\ Len(toClient') = 0
      BY <2>3
    <3>. QED  BY <3>1, <2>2, <2>3, EmptyWay
  <2>4. CASE toClient' = toClient
    BY <2>1, <2>2, <2>4
  <2>. QED  BY <2>3, <2>4
<1>5. TypeOK'
  <2>1. \A K : <<>> \in Seq(Pieces(K))
    OBVIOUS
  <2>. QED  BY <2>1, <1>1, <1>2, <1>4, BufKept DEF SocketInv, TypeOK
<1>6. Connected'
  BY <1>1, <1>3 DEF Connected
<1>7. CommandsInOrder'
  BY <1>1 DEF CommandsInOrder
<1>8. WayBack'
  BY <1>1, <1>4, WayBackPrimed
<1>9. Balance'
  <2>1. Open' = Open /\ Open \in Int
    BY <1>1 DEF Open
  <2>. QED  BY <2>1, <1>1, <1>2, <1>4 DEF SocketInv, Balance
<1>10. InStep'
  <2>1. ASSUME ~skewed, client = "call" PROVE Calling'
    <3>1. Calling
      BY <2>1 DEF SocketInv, InStep
    <3>2. CASE toClient' = <<>>
      BY <3>2, <1>1 DEF Calling
    <3>3. CASE toClient' = toClient /\ executed' = executed
      BY <3>1, <3>3, <1>1, <1>3 DEF Calling, OwnAnswer
    <3>4. CASE executed' = executed + 1 /\ executed < issued /\ toClient' = toClient
      <4>1. executed # issued
        BY <3>4, <1>2
      <4>2. toClient = <<>>
        BY <3>1, <4>1, <1>3 DEF Calling
      <4>. QED  BY <4>2, <3>4, <1>1 DEF Calling
    <3>. QED  BY <3>2, <3>3, <3>4
  <2>2. ASSUME ~skewed, client \in {"idle", "wait"} PROVE Resting'
    <3>1. Resting
      BY <2>2 DEF SocketInv, InStep
    <3>2. CASE toClient' = <<>>
      <4>1. Len(toClient') = 0
        BY <3>2
      <4>. QED  BY <4>1, <1>1 DEF Resting
    <3>3. CASE toClient' = toClient
      BY <3>1, <3>3, <1>1 DEF Resting
    <3>. QED  BY <3>2, <3>3
  <2>. QED  BY <2>1, <2>2, <1>1 DEF InStep
<1>. QED  BY <1>5, <1>6, <1>7, <1>8, <1>9, <1>10 DEF SocketInv

LEMMA ReceiveFailsStep == ASSUME SocketInv, ReceiveFails PROVE SocketInv'
BY ResetStep DEF ReceiveFails

LEMMA FrameErrorStep == ASSUME SocketInv, FrameError PROVE SocketInv'
<1>1. /\ server = "drain" /\ reset_connection /\ toClient' = toClient
      /\ executed' = srvBuf[FirstEnd(srvBuf)].msg.n
  BY DEF FrameError
<1>2. executed' = executed + 1 /\ executed < issued
  BY <1>1, OldestCommand
<1>. QED  BY <1>1, <1>2, ResetStep

(* ------------------------ the client's receives ------------------------ *)
(* What a recv takes, and what it leaves.                                  *)
LEMMA Received ==
  ASSUME SocketInv, NEW n \in 1 .. Len(toClient)
  PROVE  /\ Arrived(n) \in Seq(Pieces(Kinds)) /\ Len(Arrived(n)) = n
         /\ \A i \in 1 .. n : Arrived(n)[i] = toClient[i]
         /\ Rest(n) \in Seq(Pieces(Kinds)) /\ IsDrop(Rest(n), toClient, n)
         /\ Len(Rest(n)) = Len(toClient) - n
         /\ Alternates(Rest(n)) /\ EventsInOrder(Rest(n), pushed)
<1>1. toClient \in Seq(Pieces(Kinds)) /\ Alternates(toClient) /\ EventsInOrder(toClient, pushed)
  BY DEF SocketInv, TypeOK, WayBack
<1>2. Len(toClient) \in Nat /\ n \in 0 .. Len(toClient)
  BY <1>1, LenProperties
<1>3. PICK t : t = Rest(n)
  OBVIOUS
<1>4. t = SubSeq(toClient, n + 1, Len(toClient))
  BY <1>3 DEF Rest
<1>5. t \in Seq(Pieces(Kinds)) /\ IsDrop(t, toClient, n)
  BY <1>1, <1>2, <1>4, DropIs, Zenon
<1>6. Alternates(t) /\ EventsInOrder(t, pushed)
  BY <1>1, <1>2, <1>4, AlternatesDrop, EventsDrop, Zenon
<1>7. Len(t) = Len(toClient) - n
  BY <1>5, Zenon DEF IsDrop
<1>8. /\ Arrived(n) \in Seq(Pieces(Kinds)) /\ Len(Arrived(n)) = n
      /\ \A i \in 1 .. n : Arrived(n)[i] = toClient[i]
  <2>1. \A i \in 1 .. n : toClient[i] \in Pieces(Kinds)
    BY <1>1, <1>2, ElementOfSeq
  <2>2. /\ SubSeq(toClient, 1, n) \in Seq(Pieces(Kinds))
        /\ Len(SubSeq(toClient, 1, n)) = IF 1 <= n THEN n - 1 + 1 ELSE 0
        /\ \A i \in 1 .. n - 1 + 1 : SubSeq(toClient, 1, n)[i] = toClient[1 + i - 1]
    <3>1. 1 \in Int /\ n \in Int
      BY <1>2
    <3>. QED  BY <2>1, <3>1, SubSeqProperties
  <2>3. 1 <= n /\ n - 1 + 1 = n /\ \A i \in 1 .. n : 1 + i - 1 = i
    BY <1>2
  <2>. QED  BY <2>2, <2>3, Zenon DEF Arrived
<1>. QED  BY <1>3, <1>5, <1>6, <1>7, <1>8, Zenon

(* The buffer with what has arrived; the first piece of it that ends a     *)
(* message is the first such piece on the way back.                        *)
LEMMA FirstReceived ==
  ASSUME SocketInv, NEW n \in 1 .. Len(toClient), NEW s, s = buf \o Arrived(n)
  PROVE  /\ s \in Seq(Pieces(Kinds)) /\ Len(s) = Len(buf) + n
         /\ \A i \in 1 .. n : s[Len(buf) + i] = toClient[i]
         /\ Ends(s) = {} => \A i \in 1 .. n : i \notin Ends(toClient)
         /\ Ends(s) # {} => \E f \in 1 .. 2 :
              /\ f <= n /\ f \in Ends(toClient) /\ \A j \in Ends(toClient) : f <= j
              /\ FirstEnd(s) = Len(buf) + f
              /\ f = 1 => \E m \in Nat : Len(toClient) = 2 * m + 1
<1>1. /\ buf \in Seq(Pieces(Kinds)) /\ toClient \in Seq(Pieces(Kinds)) /\ Ends(buf) = {}
      /\ Alternates(toClient)
  BY DEF SocketInv, TypeOK, WayBack
<1>2. Len(toClient) \in Nat /\ Len(buf) \in Nat
  BY <1>1, LenProperties
<1>3. PICK a : a = Arrived(n)
  OBVIOUS
<1>4. a \in Seq(Pieces(Kinds)) /\ Len(a) = n /\ \A i \in 1 .. n : a[i] = toClient[i]
  BY <1>3, Received, Zenon
<1>5. /\ s \in Seq(Pieces(Kinds)) /\ Len(s) = Len(buf) + n
      /\ \A i \in 1 .. Len(buf) + n : s[i] = IF i <= Len(buf) THEN buf[i] ELSE a[i - Len(buf)]
  <2>1. s = buf \o a
    BY <1>3
  <2>2. \A w \in Seq(Pieces(Kinds)) :
          /\ buf \o w \in Seq(Pieces(Kinds)) /\ Len(buf \o w) = Len(buf) + Len(w)
          /\ \A i \in 1 .. Len(buf) + Len(w) : (buf \o w)[i] = IF i <= Len(buf) THEN buf[i] ELSE w[i - Len(buf)]
    BY <1>1, ConcatProperties, Zenon
  <2>3. /\ buf \o a \in Seq(Pieces(Kinds)) /\ Len(buf \o a) = Len(buf) + Len(a)
        /\ \A i \in 1 .. Len(buf) + Len(a) : (buf \o a)[i] = IF i <= Len(buf) THEN buf[i] ELSE a[i - Len(buf)]
    BY <2>2, <1>4, Zenon
  <2>4. PICK b : b = buf \o a
    OBVIOUS
  <2>5. /\ b \in Seq(Pieces(Kinds)) /\ Len(b) = Len(buf) + n
        /\ \A i \in 1 .. Len(buf) + n : b[i] = IF i <= Len(buf) THEN buf[i] ELSE a[i - Len(buf)]
    BY <2>3, <2>4, <1>4, Zenon
  <2>6. s = b
    BY <2>1, <2>4, Zenon
  <2>. QED  BY <2>5, <2>6, Zenon
<1>6. \A i \in 1 .. n : s[Len(buf) + i] = toClient[i]
  <2>1. TAKE i \in 1 .. n
  <2>2. Len(buf) + i \in 1 .. Len(buf) + n /\ ~ (Len(buf) + i <= Len(buf)) /\ Len(buf) + i - Len(buf) = i
    BY <1>2
  <2>3. s[Len(buf) + i] = a[Len(buf) + i - Len(buf)]
    BY <2>2, <1>5
  <2>. QED  BY <2>2, <2>3, <1>4
<1>7. \A i \in 1 .. n : Len(buf) + i \in Ends(s) <=> i \in Ends(toClient)
  <2>1. TAKE i \in 1 .. n
  <2>2. Len(buf) + i \in 1 .. Len(s) /\ i \in 1 .. Len(toClient)
    BY <1>2, <1>5
  <2>. QED  BY <2>2, <1>6, Zenon DEF Ends
<1>8. ASSUME NEW j \in Ends(s) PROVE j \in Int /\ j > Len(buf) /\ j - Len(buf) \in 1 .. n
  <2>1. j \in 1 .. Len(buf) + n /\ s[j].end
    BY <1>5 DEF Ends
  <2>2. CASE j <= Len(buf)
    <3>1. j \in 1 .. Len(buf) /\ s[j] = buf[j]
      BY <2>1, <2>2, <1>2, <1>5
    <3>. QED  BY <3>1, <2>1, <1>1 DEF Ends
  <2>3. CASE ~ (j <= Len(buf))
    BY <2>1, <2>3, <1>2
  <2>. QED  BY <2>2, <2>3
<1>9. Ends(s) = {} => \A i \in 1 .. n : i \notin Ends(toClient)
  BY <1>7
<1>10. ASSUME Ends(s) # {}
       PROVE  \E f \in 1 .. 2 :
                /\ f <= n /\ f \in Ends(toClient) /\ \A j \in Ends(toClient) : f <= j
                /\ FirstEnd(s) = Len(buf) + f
                /\ f = 1 => \E m \in Nat : Len(toClient) = 2 * m + 1
  <2>1. PICK j \in Ends(s) : TRUE
    BY <1>10
  <2>2. PICK i \in 1 .. n : j = Len(buf) + i
    <3>1. j - Len(buf) \in 1 .. n /\ j = Len(buf) + (j - Len(buf))
      BY <1>2, <1>8
    <3>. QED  BY <3>1
  <2>3. i \in Ends(toClient)
    BY <2>1, <2>2, <1>7
  <2>4. PICK f \in 1 .. 2 : /\ f \in Ends(toClient) /\ \A k \in Ends(toClient) : f <= k
                            /\ f = 1 => \E m \in Nat : Len(toClient) = 2 * m + 1
    <3>1. Len(toClient) > 0
      BY <1>2
    <3>5. 1 \in 1 .. 2 /\ 2 \in 1 .. 2 /\ 2 # 1
      OBVIOUS
    <3>2. CASE toClient[1].end /\ \E m \in Nat : Len(toClient) = 2 * m + 1
      <4>1. 1 \in Ends(toClient) /\ \A k \in Ends(toClient) : 1 <= k
        BY <1>2, <3>1, <3>2 DEF Ends
      <4>. QED  BY <4>1, <3>2, <3>5, Zenon
    <3>3. CASE ~toClient[1].end /\ Len(toClient) > 1 /\ toClient[2].end
      <4>1. 2 \in Ends(toClient) /\ \A k \in Ends(toClient) : 2 <= k
        BY <1>2, <3>3 DEF Ends
      <4>. QED  BY <4>1, <3>5, Zenon
    <3>4. \/ toClient[1].end /\ \E m \in Nat : Len(toClient) = 2 * m + 1
          \/ ~toClient[1].end /\ Len(toClient) > 1 /\ toClient[2].end
      BY <3>1, <1>1, FirstOfStream, Zenon
    <3>. QED  BY <3>2, <3>3, <3>4, Zenon
  <2>5. f <= n /\ f \in 1 .. n
    BY <2>2, <2>3, <2>4
  <2>6. Len(buf) + f \in Ends(s)
    BY <2>4, <2>5, <1>7
  <2>7. ASSUME NEW k \in Ends(s) PROVE Len(buf) + f <= k
    <3>1. k \in Int /\ k - Len(buf) \in 1 .. n /\ Len(buf) + (k - Len(buf)) = k
      BY <1>2, <1>8
    <3>2. k - Len(buf) \in Ends(toClient)
      BY <3>1, <1>7
    <3>3. f <= k - Len(buf)
      BY <3>2, <2>4
    <3>. QED  BY <3>1, <3>3, <1>2
  <2>8. FirstEnd(s) = Len(buf) + f
    BY <2>6, <2>7, <1>5, FirstEndIs
  <2>. QED  BY <2>4, <2>5, <2>8
<1>. QED  BY <1>5, <1>6, <1>9, <1>10

LEMMA RecvMoreStep == ASSUME SocketInv, RecvMore PROVE SocketInv'
<1>1. PICK n \in 1 .. Len(toClient) :
        Ends(buf \o Arrived(n)) = {} /\ buf' = buf \o Arrived(n) /\ toClient' = Rest(n)
  BY DEF RecvMore, RecvSizes
<1>2. /\ client \in {"call", "wait"}
      /\ UNCHANGED <<client, timed, tries, reads, delivered, got, server, broken, srvBuf, executed,
                     pushed, toServer, issued, skewed>>
  BY DEF RecvMore, serverVars
<1>3. /\ Len(Arrived(n)) = n /\ \A i \in 1 .. n : Arrived(n)[i] = toClient[i]
      /\ Arrived(n) \in Seq(Pieces(Kinds))
      /\ toClient' \in Seq(Pieces(Kinds)) /\ IsDrop(toClient', toClient, n)
      /\ Len(toClient') = Len(toClient) - n
      /\ Alternates(toClient') /\ EventsInOrder(toClient', pushed)
  BY <1>1, Received
<1>4. PICK s : s = buf \o Arrived(n)
  OBVIOUS
<1>5. s \in Seq(Pieces(Kinds)) /\ Ends(s) = {} /\ \A i \in 1 .. n : i \notin Ends(toClient)
  BY <1>1, <1>4, FirstReceived
<1>6. /\ issued \in Nat /\ executed \in Nat /\ pushed \in Nat /\ delivered \in Nat
      /\ toClient \in Seq(Pieces(Kinds)) /\ Len(toClient) \in Nat
  BY LenProperties DEF SocketInv, TypeOK
<1>7. TypeOK'
  <2>1. Ends(buf)' = {}
    BY <1>1 DEF Ends
  <2>2. buf' \in Seq(Pieces(Kinds))
    BY <1>1, <1>4, <1>5
  <2>. QED  BY <2>1, <2>2, <1>2, <1>3 DEF SocketInv, TypeOK
<1>8. Connected'
  BY <1>2 DEF SocketInv, Connected, Ends
<1>9. CommandsInOrder'
  BY <1>2, CommandsKept DEF SocketInv
<1>10. WayBack'
  BY <1>2, <1>3, WayBackPrimed
<1>11. Balance'
  <2>1. Open' = Open /\ Open \in Int
    BY <1>2 DEF Open
  <2>. QED  BY <2>1, <1>2, <1>3, <1>6 DEF SocketInv, Balance
<1>12. InStep'
  <2>1. ASSUME ~skewed, client = "call" PROVE Calling'
    <3>1. toClient # <<>>
      BY <1>6
    <3>2. PICK kind \in {"SUCCESS", "ERROR"} : executed = issued /\ OwnAnswer(Msg(kind, issued))
      BY <3>1, <2>1 DEF SocketInv, InStep, Calling
    <3>3. PICK m : m = Msg(kind, issued)
      OBVIOUS
    <3>4. PICK p, q : p = Piece(m, FALSE) /\ q = Piece(m, TRUE)
      OBVIOUS
    <3>5. p \in Pieces(Kinds) /\ q \in Pieces(Kinds) /\ q.end
      BY <3>3, <3>4, <1>6 DEF Piece, Pieces, Msg, Kinds
    <3>6. CASE buf = <<p>> /\ toClient = <<q>>
      <4>1. Len(toClient) = 1 /\ toClient[1] = q
        BY <3>5, <3>6, SingleIs, Zenon
      <4>2. 1 \in Ends(toClient) /\ 1 \in 1 .. n
        BY <4>1, <3>5 DEF Ends
      <4>. QED  BY <4>2, <1>5
    <3>7. CASE buf = <<>> /\ toClient = <<p, q>>
      <4>1. Len(toClient) = 2 /\ toClient[1] = p /\ toClient[2] = q
        BY <3>5, <3>7, PairIs, Zenon
      <4>2. 2 \in Ends(toClient)
        BY <4>1, <3>5 DEF Ends
      <4>3. n = 1
        BY <4>1, <4>2, <1>5
      <4>4. buf' = <<p>>
        <5>1. PICK a : a = Arrived(n)
          OBVIOUS
        <5>2. a \in Seq(Pieces(Kinds)) /\ Len(a) = 1 /\ a[1] = p
          BY <5>1, <4>1, <4>3, <1>3
        <5>3. <<>> \o a = a
          BY <5>2, ConcatEmptySeq, Zenon
        <5>4. buf' = a
          BY <5>1, <5>3, <3>7, <1>1, Zenon
        <5>. QED  BY <5>2, <5>4, <3>5, SingleIs, Zenon
      <4>5. toClient' = <<q>>
        <5>1. PICK t : t = toClient'
          OBVIOUS
        <5>2. t \in Seq(Pieces(Kinds)) /\ IsDrop(t, toClient, n) /\ Len(t) = 1
          BY <5>1, <4>1, <4>3, <1>3
        <5>3. t[1] = toClient[1 + n]
          <6>1. 1 \in 1 .. Len(t)
            BY <5>2
          <6>. QED  BY <6>1, <5>2, Zenon DEF IsDrop
        <5>4. t[1] = q
          BY <5>3, <4>1, <4>3
        <5>. QED  BY <5>1, <5>2, <5>4, <3>5, SingleIs, Zenon
      <4>. QED  BY <4>4, <4>5, <3>2, <3>3, <3>4, <1>2 DEF Calling, OwnAnswer
    <3>. QED  BY <3>2, <3>3, <3>4, <3>6, <3>7 DEF OwnAnswer, Wire
  <2>2. ASSUME ~skewed, client = "wait" PROVE Resting'
    <3>1. Resting
      BY <2>2 DEF SocketInv, InStep
    <3>2. ASSUME NEW i \in 1 .. Len(toClient') PROVE toClient'[i].msg.kind = "EVENT"
      <4>1. toClient'[i] = toClient[i + n]
        BY <1>3 DEF IsDrop
      <4>2. i + n \in 1 .. Len(toClient)
        BY <1>3, <1>6
      <4>. QED  BY <4>1, <4>2, <3>1 DEF Resting
    <3>. QED  BY <3>1, <3>2, <1>2 DEF Resting
  <2>. QED  BY <2>1, <2>2, <1>2 DEF InStep
<1>. QED  BY <1>7, <1>8, <1>9, <1>10, <1>11, <1>12 DEF SocketInv

(* A call that took a complete message took it whole from the way back, or *)
(* what had been left of it there.                                         *)
LEMMA BalanceTaken ==
  ASSUME SocketInv, NEW n \in 1 .. Len(toClient), Ends(buf \o Arrived(n)) # {}
  PROVE  2 * (issued - Open + delivered + 1) + (Len(toClient) - n) <= 2 * (executed + pushed)
<1>1. PICK f \in 1 .. 2 : f <= n /\ (f = 1 => \E m \in Nat : Len(toClient) = 2 * m + 1)
  <2>1. PICK s : s = buf \o Arrived(n)
    OBVIOUS
  <2>2. Ends(s) # {}
    BY <2>1
  <2>. QED  BY <2>1, <2>2, FirstReceived
<1>2. /\ issued \in Nat /\ executed \in Nat /\ pushed \in Nat /\ delivered \in Nat
      /\ Len(toClient) \in Nat /\ Open \in {0, 1}
  BY LenProperties DEF SocketInv, TypeOK, Open
<1>3. 2 * (issued - Open + delivered) + Len(toClient) <= 2 * (executed + pushed)
  BY DEF SocketInv, Balance
<1>4. CASE f = 1
  <2>1. PICK m \in Nat : Len(toClient) = 2 * m + 1
    BY <1>1, <1>4
  <2>. QED  BY <2>1, <1>2, <1>3
<1>5. CASE f = 2
  BY <1>1, <1>2, <1>3, <1>5
<1>. QED  BY <1>1, <1>4, <1>5

(* What a call leaves when it returns.                                     *)
LEMMA ReturnStep ==
  ASSUME SocketInv, NEW n \in 1 .. Len(toClient), Ends(buf \o Arrived(n)) # {},
         NEW result, Return(n, result),
         \/ client = "call" /\ delivered' = delivered
         \/ client = "wait" /\ delivered' = delivered + 1
  PROVE  SocketInv'
<1>1. /\ client' = "idle" /\ buf' = <<>> /\ toClient' = Rest(n)
      /\ UNCHANGED <<timed, tries, reads, server, broken, srvBuf, executed, pushed,
                     toServer, issued, skewed>>
  BY DEF Return, serverVars
<1>2. /\ toClient' \in Seq(Pieces(Kinds)) /\ IsDrop(toClient', toClient, n)
      /\ Len(toClient') = Len(toClient) - n
      /\ Alternates(toClient') /\ EventsInOrder(toClient', pushed)
  BY <1>1, Received
<1>3. /\ issued \in Nat /\ executed \in Nat /\ pushed \in Nat /\ delivered \in Nat
      /\ toClient \in Seq(Pieces(Kinds)) /\ Len(toClient) \in Nat
  BY LenProperties DEF SocketInv, TypeOK
<1>4. TypeOK'
  <2>1. delivered' \in Nat
    BY <1>3
  <2>2. Ends(buf)' = {} /\ buf' \in Seq(Pieces(Kinds))
    BY <1>1, BufEmptied
  <2>. QED  BY <2>1, <2>2, <1>1, <1>2 DEF SocketInv, TypeOK
<1>5. Connected'
  BY <1>1 DEF SocketInv, Connected, Ends
<1>6. CommandsInOrder'
  BY <1>1, CommandsKept DEF SocketInv
<1>7. WayBack'
  BY <1>1, <1>2, WayBackPrimed
<1>8. Balance'
  <2>1. 2 * (issued - Open + delivered + 1) + (Len(toClient) - n) <= 2 * (executed + pushed)
    BY BalanceTaken
  <2>2. Open' = 0 /\ issued - Open + delivered + 1 = issued' - Open' + delivered'
    BY <1>1, <1>3 DEF Open
  <2>. QED  BY <2>1, <2>2, <1>1, <1>2 DEF Balance
<1>9. InStep'
  <2>1. ASSUME ~skewed, client = "wait" PROVE Resting'
    <3>1. Resting
      BY <2>1 DEF SocketInv, InStep
    <3>2. ASSUME NEW i \in 1 .. Len(toClient') PROVE toClient'[i].msg.kind = "EVENT"
      <4>1. toClient'[i] = toClient[i + n]
        BY <1>2 DEF IsDrop
      <4>2. i + n \in 1 .. Len(toClient)
        BY <1>2, <1>3
      <4>. QED  BY <4>1, <4>2, <3>1 DEF Resting
    <3>. QED  BY <3>1, <3>2, <1>1 DEF Resting
  <2>2. ASSUME ~skewed, client = "call" PROVE Resting'
    <3>1. toClient # <<>>
      BY <1>3
    <3>2. PICK kind \in {"SUCCESS", "ERROR"} : executed = issued /\ OwnAnswer(Msg(kind, issued))
      BY <3>1, <2>2 DEF SocketInv, InStep, Calling
    <3>3. Len(toClient') = 0
      <4>1. PICK m, p, q : m = Msg(kind, issued) /\ p = Piece(m, FALSE) /\ q = Piece(m, TRUE)
        OBVIOUS
      <4>2. p \in Pieces(Kinds) /\ q \in Pieces(Kinds) /\ ~p.end
        BY <4>1, <1>3 DEF Piece, Pieces, Msg, Kinds
      <4>3. CASE buf = <<p>> /\ toClient = <<q>>
        <5>1. Len(toClient) = 1
          BY <4>2, <4>3, SingleIs, Zenon
        <5>. QED  BY <5>1, <1>2
      <4>4. CASE buf = <<>> /\ toClient = <<p, q>>
        <5>1. Len(toClient) = 2 /\ toClient[1] = p
          BY <4>2, <4>4, PairIs, Zenon
        <5>2. n # 1
          <6>1. PICK s : s = buf \o Arrived(n)
            OBVIOUS
          <6>2. PICK f \in 1 .. 2 : f <= n /\ f \in Ends(toClient)
            <7>1. Ends(s) # {}
              BY <6>1
            <7>. QED  BY <6>1, <7>1, FirstReceived
          <6>3. toClient[f].end
            BY <6>2 DEF Ends
          <6>. QED  BY <6>2, <6>3, <5>1, <4>2
        <5>. QED  BY <5>1, <5>2, <1>2
      <4>. QED  BY <3>2, <4>1, <4>3, <4>4 DEF OwnAnswer, Wire
    <3>. QED  BY <3>2, <3>3, <1>1 DEF Resting
  <2>. QED  BY <2>1, <2>2, <1>1 DEF InStep
<1>. QED  BY <1>4, <1>5, <1>6, <1>7, <1>8, <1>9 DEF SocketInv

LEMMA RecvResponseStep == ASSUME SocketInv, RecvResponse PROVE SocketInv'
<1>0. PICK n \in RecvSizes :
        /\ Ends(buf \o Arrived(n)) # {}
        /\ \/ Return(n, ResultOf(MessageOf(buf \o Arrived(n)))) /\ UNCHANGED delivered
           \/ close
  BY DEF RecvResponse
<1>1. n \in 1 .. Len(toClient)
  BY LenProperties DEF RecvSizes, SocketInv, TypeOK
<1>2. client = "call"
  BY DEF RecvResponse
<1>3. CASE close
  BY <1>3, CloseStep
<1>4. CASE ~close
  BY <1>0, <1>1, <1>2, <1>4, ReturnStep
<1>. QED  BY <1>3, <1>4

LEMMA RecvEventMsgStep == ASSUME SocketInv, RecvEvent PROVE SocketInv'
<1>0. PICK n \in RecvSizes :
        /\ Ends(buf \o Arrived(n)) # {}
        /\ \/ Return(n, ResultOf(MessageOf(buf \o Arrived(n)))) /\ delivered' = delivered + 1
           \/ close
  BY DEF RecvEvent
<1>1. n \in 1 .. Len(toClient)
  BY LenProperties DEF RecvSizes, SocketInv, TypeOK
<1>2. client = "wait"
  BY DEF RecvEvent
<1>3. CASE close
  BY <1>3, CloseStep
<1>4. CASE ~close
  BY <1>0, <1>1, <1>2, <1>4, ReturnStep
<1>. QED  BY <1>3, <1>4

LEMMA EventTimeoutStep == ASSUME SocketInv, EventTimeout PROVE SocketInv'
<1>1. /\ client = "wait" /\ toClient = <<>> /\ client' = "idle" /\ buf' = <<>>
      /\ toClient' = SubSeq(toClient, 0 + 1, Len(toClient))
      /\ UNCHANGED <<timed, tries, reads, delivered, server, broken, srvBuf, executed, pushed,
                     toServer, issued, skewed>>
  BY DEF EventTimeout, Return, Rest, serverVars
<1>2. toClient' = toClient
  BY <1>1
<1>3. TypeOK'
  BY <1>1, <1>2, BufEmptied DEF SocketInv, TypeOK
<1>4. Connected'
  BY <1>1, <1>2 DEF SocketInv, Connected, Ends
<1>5. CommandsInOrder'
  BY <1>1, CommandsKept DEF SocketInv
<1>6. WayBack'
  BY <1>1, <1>2, WayBackKept DEF SocketInv
<1>7. Balance'
  BY <1>1, <1>2, BalanceKept DEF SocketInv
<1>8. InStep'
  <2>1. ~skewed => Resting
    BY <1>1 DEF SocketInv, InStep
  <2>. QED  BY <2>1, <1>1, <1>2 DEF InStep, Resting
<1>. QED  BY <1>3, <1>4, <1>5, <1>6, <1>7, <1>8 DEF SocketInv

LEMMA StepInv == ASSUME SocketInv, [Next]_vars PROVE SocketInv'
<1>1. CASE Bind \/ Connect \/ ConnectFails \/ ConnectGivesUp \/ Quit
  BY <1>1, BindStep, ConnectStep, ConnectFailsStep, CloseStep DEF ConnectGivesUp, Quit
<1>2. CASE \E data \in BOOLEAN : Send(data)
  BY <1>2, SendStep
<1>3. CASE SendFails \/ recv_event
  BY <1>3, CloseStep, RecvEventStep DEF SendFails
<1>4. CASE RecvMore \/ RecvResponse \/ RecvEvent
  BY <1>4, RecvMoreStep, RecvResponseStep, RecvEventMsgStep
<1>5. CASE EventTimeout \/ CommandTimeout \/ RecvClosed
  BY <1>5, EventTimeoutStep, CloseStep DEF CommandTimeout, RecvClosed
<1>6. CASE Accept \/ FrameReceive \/ handle_command
  BY <1>6, AcceptStep, FrameReceiveStep, HandleStep
<1>7. CASE Key \/ ReceiveFails \/ FrameError
  BY <1>7, KeyStep, ReceiveFailsStep, FrameErrorStep
<1>8. CASE UNCHANGED vars
  <2>1. UNCHANGED <<client, timed, tries, reads, buf, delivered, got, server, broken, srvBuf,
                    executed, pushed, toServer, toClient, issued, skewed>>
    BY <1>8 DEF vars, clientVars, serverVars
  <2>2. TypeOK' /\ Connected'
    BY <2>1, BufKept DEF SocketInv, TypeOK, Connected, Ends
  <2>3. CommandsInOrder' /\ WayBack'
    BY <2>1, CommandsKept, WayBackKept DEF SocketInv
  <2>4. Balance'
    BY <2>1, BalanceKept DEF SocketInv
  <2>5. InStep'
    BY <2>1, InStepKept DEF SocketInv
  <2>. QED  BY <2>2, <2>3, <2>4, <2>5 DEF SocketInv
<1>. QED  BY <1>1, <1>2, <1>3, <1>4, <1>5, <1>6, <1>7, <1>8, Zenon DEF Next

LEMMA SocketInvariant == Spec => []SocketInv
<1>1. Init => SocketInv
  BY InitInv
<1>2. SocketInv /\ [Next]_vars => SocketInv'
  BY StepInv
<1>. QED  BY <1>1, <1>2, PTL DEF Spec

(* BoundedRunAhead holds in every reachable state, whatever the bounds and *)
(* the sizes of the receives: the client (_raw_send) is ahead of the       *)
(* emulator by at most one command for each event that recv_event did not  *)
(* return.                                                                 *)
THEOREM RunAheadIsBounded == Spec => []BoundedRunAhead
<1>1. SocketInv => BoundedRunAhead
  <2>. SUFFICES ASSUME SocketInv PROVE BoundedRunAhead
    OBVIOUS
  <2>1. /\ issued \in Nat /\ executed \in Nat /\ pushed \in Nat /\ delivered \in Nat
        /\ Len(toClient) \in Nat /\ Open \in {0, 1}
    BY LenProperties DEF SocketInv, TypeOK, Open
  <2>2. 2 * (issued - Open + delivered) + Len(toClient) <= 2 * (executed + pushed)
    BY DEF SocketInv, Balance
  <2>. QED  BY <2>1, <2>2 DEF BoundedRunAhead
<1>. QED  BY <1>1, SocketInvariant, PTL

(* ------------------------------ refinement ----------------------------- *)
(* The unread events are numbered without gaps up to the latest one.       *)
IsFrom(s, a, last) == /\ s \in Seq(Nat) /\ Len(s) = (last + 1) - a
                      /\ \A i \in 1 .. (last + 1) - a : s[i] = (a + i) - 1

LEMMA FromIs ==
  ASSUME NEW a \in Nat, NEW last \in Nat, a <= last + 1
  PROVE  IsFrom(From(a, last), a, last)
<1>1. (last + 1) - a \in Nat
  OBVIOUS
<1>2. \A i \in 1 .. (last + 1) - a : (a + i) - 1 \in Nat
  OBVIOUS
<1>3. From(a, last) = [i \in 1 .. (last + 1) - a |-> (a + i) - 1]
  BY DEF From
<1>. QED  BY <1>1, <1>2, <1>3 DEF IsFrom

LEMMA FromUnique ==
  ASSUME NEW s, NEW t, NEW a \in Nat, NEW last \in Nat, a <= last + 1,
         IsFrom(s, a, last), IsFrom(t, a, last)
  PROVE  s = t
<1>1. /\ s \in Seq(Nat) /\ t \in Seq(Nat) /\ Len(s) = Len(t) /\ Len(s) = (last + 1) - a
      /\ \A i \in 1 .. (last + 1) - a : s[i] = (a + i) - 1 /\ t[i] = (a + i) - 1
  BY Zenon DEF IsFrom
<1>2. \A i \in 1 .. Len(s) : s[i] = t[i]
  BY <1>1
<1>. QED  BY <1>1, <1>2, SeqEqual

LEMMA FromEmpty ==
  ASSUME NEW last \in Nat
  PROVE  From(last + 1, last) = <<>>
<1>1. last + 1 \in Nat /\ last + 1 <= last + 1 /\ (last + 1) - (last + 1) = 0
  OBVIOUS
<1>2. IsFrom(From(last + 1, last), last + 1, last)
  BY <1>1, FromIs, Zenon
<1>. QED  BY <1>1, <1>2, EmptySeq DEF IsFrom

(* A suffix of it...                                                       *)
LEMMA SuffixIsFrom ==
  ASSUME NEW s, NEW a \in Nat, NEW c \in Nat, NEW last \in Nat, a <= c, c <= last + 1,
         IsFrom(s, a, last)
  PROVE  IsFrom(SubSeq(s, (c - a) + 1, Len(s)), c, last) /\ c - a \in 0 .. Len(s)
<1>1. /\ s \in Seq(Nat) /\ Len(s) = (last + 1) - a
      /\ \A i \in 1 .. (last + 1) - a : s[i] = (a + i) - 1
  BY Zenon DEF IsFrom
<1>2. c - a \in 0 .. Len(s)
  BY <1>1
<1>3. PICK u : u = SubSeq(s, (c - a) + 1, Len(s))
  OBVIOUS
<1>4. u \in Seq(Nat) /\ IsDrop(u, s, c - a)
  BY <1>1, <1>2, <1>3, DropIs, Zenon
<1>5. Len(u) = Len(s) - (c - a) /\ \A i \in 1 .. Len(u) : u[i] = s[i + (c - a)]
  BY <1>4, Zenon DEF IsDrop
<1>6. Len(u) = (last + 1) - c
  BY <1>1, <1>5
<1>7. ASSUME NEW i \in 1 .. (last + 1) - c PROVE u[i] = (c + i) - 1
  <2>1. i + (c - a) \in 1 .. (last + 1) - a /\ (a + (i + (c - a))) - 1 = (c + i) - 1
    OBVIOUS
  <2>2. u[i] = s[i + (c - a)]
    BY <1>5, <1>6
  <2>. QED  BY <1>1, <2>1, <2>2
<1>. QED  BY <1>2, <1>3, <1>4, <1>6, <1>7, Zenon DEF IsFrom

LEMMA FromSuffix ==
  ASSUME NEW a \in Nat, NEW c \in Nat, NEW last \in Nat, a <= c, c <= last + 1
  PROVE  Link!Behind(From(a, last), From(c, last))
<1>1. a <= last + 1
  OBVIOUS
<1>2. PICK s, t : s = From(a, last) /\ t = From(c, last)
  OBVIOUS
<1>3. IsFrom(s, a, last) /\ IsFrom(t, c, last)
  BY <1>1, <1>2, FromIs, Zenon
<1>4. /\ IsFrom(SubSeq(s, (c - a) + 1, Len(s)), c, last)
      /\ c - a \in 0 .. Len(s)
  BY <1>3, SuffixIsFrom, Zenon
<1>5. t = SubSeq(s, (c - a) + 1, Len(s))
  BY <1>3, <1>4, FromUnique, Zenon
<1>. QED  BY <1>2, <1>4, <1>5, Zenon DEF Link!Behind

LEMMA FromTail ==
  ASSUME NEW a \in Nat, NEW last \in Nat, a <= last
  PROVE  From(a, last) # <<>> /\ Head(From(a, last)) = a /\ Tail(From(a, last)) = From(a + 1, last)
<1>1. a <= last + 1 /\ a <= a + 1 /\ a + 1 \in Nat /\ a + 1 <= last + 1 /\ (a + 1) - a = 1
  OBVIOUS
<1>2. PICK s, t : s = From(a, last) /\ t = From(a + 1, last)
  OBVIOUS
<1>3. IsFrom(s, a, last) /\ IsFrom(t, a + 1, last)
  BY <1>1, <1>2, FromIs, Zenon
<1>4. IsFrom(SubSeq(s, 1 + 1, Len(s)), a + 1, last)
  BY <1>1, <1>3, SuffixIsFrom, Zenon
<1>5. t = SubSeq(s, 1 + 1, Len(s))
  BY <1>1, <1>3, <1>4, FromUnique, Zenon
<1>6. s \in Seq(Nat) /\ Len(s) = (last + 1) - a /\ s[1] = (a + 1) - 1
  <2>1. 1 \in 1 .. (last + 1) - a
    OBVIOUS
  <2>. QED  BY <2>1, <1>3, Zenon DEF IsFrom
<1>7. s # <<>> /\ Head(s) = a
  BY <1>6
<1>8. Tail(s) = SubSeq(s, 2, Len(s))
  BY <1>6
<1>. QED  BY <1>2, <1>5, <1>7, <1>8

LEMMA FromAppend ==
  ASSUME NEW a \in Nat, NEW last \in Nat, a <= last + 1
  PROVE  Append(From(a, last), last + 1) = From(a, last + 1)
<1>1. last + 1 \in Nat /\ a <= (last + 1) + 1
  OBVIOUS
<1>2. PICK s, t : s = From(a, last) /\ t = From(a, last + 1)
  OBVIOUS
<1>3. IsFrom(s, a, last) /\ IsFrom(t, a, last + 1)
  BY <1>1, <1>2, FromIs, Zenon
<1>4. /\ s \in Seq(Nat) /\ Len(s) = (last + 1) - a
      /\ \A i \in 1 .. (last + 1) - a : s[i] = (a + i) - 1
  BY <1>3, Zenon DEF IsFrom
<1>5. PICK u : u = Append(s, last + 1)
  OBVIOUS
<1>6. /\ u \in Seq(Nat) /\ Len(u) = Len(s) + 1
      /\ \A i \in 1 .. Len(s) : u[i] = s[i]
      /\ u[Len(s) + 1] = last + 1
  BY <1>1, <1>4, <1>5
<1>7. ASSUME NEW i \in 1 .. ((last + 1) + 1) - a PROVE u[i] = (a + i) - 1
  <2>1. CASE i \in 1 .. Len(s)
    BY <2>1, <1>4, <1>6
  <2>2. CASE i = Len(s) + 1
    <3>1. (a + i) - 1 = last + 1
      BY <2>2, <1>4
    <3>. QED  BY <3>1, <2>2, <1>6
  <2>. QED  BY <2>1, <2>2, <1>4
<1>8. Len(u) = ((last + 1) + 1) - a
  BY <1>4, <1>6
<1>9. IsFrom(u, a, last + 1)
  BY <1>6, <1>7, <1>8, Zenon DEF IsFrom
<1>10. u = t
  BY <1>1, <1>3, <1>9, FromUnique, Zenon
<1>. QED  BY <1>2, <1>5, <1>10, Zenon

(* The number of the oldest unread event, ...                              *)
LEMMA OldestIs ==
  ASSUME NEW K, NEW s \in Seq(Pieces(K)), NEW last \in Nat, EventsInOrder(s, last)
  PROVE  /\ Oldest(s, last) \in Nat /\ Oldest(s, last) <= last + 1
         /\ EventEnds(s) # {} => /\ FirstEvent(s) \in EventEnds(s)
                                 /\ \A j \in EventEnds(s) : FirstEvent(s) <= j
                                 /\ Oldest(s, last) = s[FirstEvent(s)].msg.n
                                 /\ Oldest(s, last) <= last
         /\ \A i \in EventEnds(s) : s[i].msg.n \in Nat /\ Oldest(s, last) <= s[i].msg.n
<1>1. CASE EventEnds(s) = {}
  BY <1>1 DEF Oldest
<1>2. CASE EventEnds(s) # {}
  <2>1. PICK f : f = FirstEvent(s)
    OBVIOUS
  <2>2. f \in EventEnds(s) /\ \A j \in EventEnds(s) : f <= j
    BY <1>2, <2>1, FirstEventIs
  <2>3. \A i \in EventEnds(s) : i \in 1 .. Len(s) /\ s[i].msg.n \in Nat /\ s[i].msg.n <= last
    <3>1. \A i \in EventEnds(s) : i \in 1 .. Len(s)
      BY DEF EventEnds, Ends
    <3>2. \A i \in 1 .. Len(s) : s[i].msg.n \in Nat
      <4>1. \A i \in 1 .. Len(s) : s[i] \in Pieces(K)
        BY ElementOfSeq
      <4>. QED  BY <4>1 DEF Pieces
    <3>. QED  BY <3>1, <3>2 DEF EventsInOrder
  <2>4. Oldest(s, last) = s[f].msg.n
    BY <1>2, <2>1 DEF Oldest
  <2>5. \A i \in EventEnds(s) : s[f].msg.n <= s[i].msg.n
    <3>1. TAKE i \in EventEnds(s)
    <3>2. CASE i = f
      BY <3>2, <2>2, <2>3
    <3>3. CASE f < i
      BY <3>3, <2>2, <2>3 DEF EventsInOrder
    <3>4. i = f \/ f < i
      BY <2>2, <2>3
    <3>. QED  BY <3>2, <3>3, <3>4
  <2>6. s[f].msg.n <= last + 1
    BY <2>2, <2>3
  <2>. QED  BY <1>2, <2>1, <2>2, <2>3, <2>4, <2>5, <2>6
<1>. QED  BY <1>1, <1>2

(* ... when pieces leave the connection ...                                *)
OldestMoves(s, t, n, last) ==
  /\ Oldest(t, last) \in Nat /\ Oldest(t, last) <= last + 1
  /\ Oldest(s, last) <= Oldest(t, last)
  /\ (\E i \in EventEnds(s) : i <= n) => Oldest(s, last) < Oldest(t, last)
  /\ (\A i \in EventEnds(s) : n < i) => Oldest(s, last) = Oldest(t, last)

LEMMA OldestDrop ==
  ASSUME NEW K, NEW s \in Seq(Pieces(K)), NEW n \in 0 .. Len(s), NEW t,
         NEW last \in Nat, EventsInOrder(s, last)
  PROVE  t = SubSeq(s, n + 1, Len(s)) => OldestMoves(s, t, n, last)
<1>. SUFFICES ASSUME t = SubSeq(s, n + 1, Len(s))
              PROVE  /\ Oldest(t, last) \in Nat /\ Oldest(t, last) <= last + 1
                     /\ Oldest(s, last) <= Oldest(t, last)
                     /\ (\E i \in EventEnds(s) : i <= n) => Oldest(s, last) < Oldest(t, last)
                     /\ (\A i \in EventEnds(s) : n < i) => Oldest(s, last) = Oldest(t, last)
  BY DEF OldestMoves
<1>1. t \in Seq(Pieces(K)) /\ IsDrop(t, s, n) /\ EventsInOrder(t, last)
  BY DropIs, EventsDrop
<1>2. /\ Len(t) = Len(s) - n /\ \A i \in 1 .. Len(t) : t[i] = s[i + n]
      /\ \A i : i \in EventEnds(t) <=> i \in 1 .. Len(t) /\ i + n \in EventEnds(s)
  BY <1>1 DEF IsDrop
<1>3. Len(s) \in Nat /\ EventEnds(s) \subseteq 1 .. Len(s) /\ EventEnds(t) \subseteq 1 .. Len(t)
  BY LenProperties DEF EventEnds, Ends
<1>4. /\ Oldest(s, last) \in Nat
      /\ EventEnds(s) # {} => /\ FirstEvent(s) \in EventEnds(s)
                              /\ \A j \in EventEnds(s) : FirstEvent(s) <= j
                              /\ Oldest(s, last) = s[FirstEvent(s)].msg.n
                              /\ Oldest(s, last) <= last
      /\ \A i \in EventEnds(s) : s[i].msg.n \in Nat /\ Oldest(s, last) <= s[i].msg.n
      /\ Oldest(s, last) <= last + 1
  BY OldestIs
<1>5. /\ Oldest(t, last) \in Nat /\ Oldest(t, last) <= last + 1
      /\ EventEnds(t) # {} => /\ FirstEvent(t) \in EventEnds(t)
                              /\ \A j \in EventEnds(t) : FirstEvent(t) <= j
                              /\ Oldest(t, last) = t[FirstEvent(t)].msg.n
  BY <1>1, OldestIs
<1>6. CASE EventEnds(t) = {}
  <2>1. Oldest(t, last) = last + 1
    BY <1>6 DEF Oldest
  <2>2. (\E i \in EventEnds(s) : i <= n) => Oldest(s, last) < Oldest(t, last)
    BY <2>1, <1>4
  <2>3. ASSUME \A i \in EventEnds(s) : n < i PROVE EventEnds(s) = {}
    <3>1. ASSUME NEW i \in EventEnds(s) PROVE FALSE
      <4>1. i - n \in 1 .. Len(t) /\ (i - n) + n = i
        BY <2>3, <1>2, <1>3
      <4>. QED  BY <4>1, <1>2, <1>6
    <3>. QED  BY <3>1
  <2>4. EventEnds(s) = {} => Oldest(s, last) = Oldest(t, last)
    BY <1>6 DEF Oldest
  <2>. QED  BY <2>1, <2>2, <2>3, <2>4, <1>4, <1>5
<1>7. CASE EventEnds(t) # {}
  <2>1. PICK f : f = FirstEvent(t)
    OBVIOUS
  <2>2. PICK g : g = FirstEvent(s)
    OBVIOUS
  <2>3. /\ f \in EventEnds(t) /\ f \in 1 .. Len(t) /\ f + n \in EventEnds(s)
        /\ t[f] = s[f + n] /\ Oldest(t, last) = s[f + n].msg.n
        /\ \A j \in EventEnds(t) : f <= j
    BY <1>2, <1>3, <1>5, <1>7, <2>1
  <2>4. /\ g \in EventEnds(s) /\ g <= f + n /\ g \in 1 .. Len(s)
        /\ Oldest(s, last) = s[g].msg.n
    BY <1>3, <1>4, <2>2, <2>3
  <2>5. Oldest(s, last) <= Oldest(t, last)
    BY <1>4, <2>3
  <2>6. ASSUME NEW i \in EventEnds(s), i <= n PROVE Oldest(s, last) < Oldest(t, last)
    <3>1. i < f + n
      BY <2>6, <2>3, <1>3
    <3>2. s[i].msg.n < s[f + n].msg.n
      BY <3>1, <2>3 DEF EventsInOrder
    <3>3. Oldest(s, last) <= s[i].msg.n /\ s[i].msg.n \in Nat
      BY <1>4
    <3>4. s[i].msg.n < Oldest(t, last)
      BY <3>2, <2>3
    <3>. QED  BY <3>3, <3>4, <1>4, <1>5
  <2>7. ASSUME \A i \in EventEnds(s) : n < i PROVE Oldest(s, last) = Oldest(t, last)
    <3>1. g - n \in 1 .. Len(t) /\ (g - n) + n = g
      BY <2>7, <2>4, <1>2, <1>3
    <3>2. g - n \in EventEnds(t)
      BY <3>1, <2>4, <1>2
    <3>3. f <= g - n
      BY <3>2, <2>3
    <3>4. f + n = g
      BY <3>1, <3>3, <2>3, <2>4, <1>3
    <3>. QED  BY <3>4, <2>3, <2>4
  <2>. QED  BY <2>5, <2>6, <2>7, <1>5
<1>. QED  BY <1>6, <1>7

(* ... and when a message joins them.                                      *)
OldestStays(s, t, m, last) ==
  /\ m.kind # "EVENT" => Oldest(t, last) = Oldest(s, last)
  /\ m.kind = "EVENT" /\ m.n = last + 1 => Oldest(t, last + 1) = Oldest(s, last)

LEMMA OldestAppend ==
  ASSUME NEW K, NEW s \in Seq(Pieces(K)), NEW m \in [kind : K, n : Nat], NEW t,
         NEW last \in Nat, EventsInOrder(s, last)
  PROVE  t = s \o Wire(m) => OldestStays(s, t, m, last)
<1>. SUFFICES ASSUME t = s \o Wire(m)
              PROVE  /\ m.kind # "EVENT" => Oldest(t, last) = Oldest(s, last)
                     /\ m.kind = "EVENT" /\ m.n = last + 1 => Oldest(t, last + 1) = Oldest(s, last)
  BY DEF OldestStays
<1>1. t \in Seq(Pieces(K)) /\ IsAppended(t, s, m)
  BY AppendIs
<1>2. /\ \A i \in 1 .. Len(s) : t[i] = s[i]
      /\ t[Len(s) + 2] = Piece(m, TRUE)
      /\ m.kind # "EVENT" => EventEnds(t) = EventEnds(s)
      /\ m.kind = "EVENT" => EventEnds(t) = EventEnds(s) \cup {Len(s) + 2}
  BY <1>1, Zenon DEF IsAppended
<1>3. Len(s) \in Nat /\ EventEnds(s) \subseteq 1 .. Len(s)
  BY LenProperties DEF EventEnds, Ends
<1>4. EventEnds(s) # {} => /\ FirstEvent(s) \in EventEnds(s)
                           /\ \A j \in EventEnds(s) : FirstEvent(s) <= j
                           /\ Oldest(s, last) = s[FirstEvent(s)].msg.n
  BY OldestIs
<1>5. ASSUME m.kind # "EVENT" PROVE Oldest(t, last) = Oldest(s, last)
  <2>1. EventEnds(t) = EventEnds(s)
    BY <1>2, <1>5
  <2>2. CASE EventEnds(s) = {}
    BY <2>1, <2>2 DEF Oldest
  <2>3. CASE EventEnds(s) # {}
    <3>1. FirstEvent(t) = FirstEvent(s)
      BY <2>1, Zenon DEF FirstEvent
    <3>2. t[FirstEvent(s)] = s[FirstEvent(s)]
      BY <2>3, <1>2, <1>3, <1>4
    <3>. QED  BY <3>1, <3>2, <2>1, <2>3 DEF Oldest
  <2>. QED  BY <2>2, <2>3
<1>6. ASSUME m.kind = "EVENT", m.n = last + 1 PROVE Oldest(t, last + 1) = Oldest(s, last)
  <2>1. EventEnds(t) = EventEnds(s) \cup {Len(s) + 2}
    BY <1>2, <1>6
  <2>2. CASE EventEnds(s) = {}
    <3>1. FirstEvent(t) = Len(s) + 2
      <4>1. PICK e \in Nat : e = Len(s) + 2
        BY <1>3
      <4>2. e \in EventEnds(t) /\ \A j \in EventEnds(t) : e <= j
        BY <2>1, <2>2, <4>1
      <4>. QED  BY <4>1, <4>2, <1>1, FirstEventUnique, Zenon
    <3>2. t[Len(s) + 2].msg.n = last + 1
      BY <1>2, <1>6 DEF Piece
    <3>. QED  BY <3>1, <3>2, <2>1, <2>2 DEF Oldest
  <2>3. CASE EventEnds(s) # {}
    <3>1. PICK g : g = FirstEvent(s)
      OBVIOUS
    <3>2. g \in EventEnds(t) /\ \A j \in EventEnds(t) : g <= j
      <4>1. g \in EventEnds(s) /\ g \in 1 .. Len(s) /\ \A j \in EventEnds(s) : g <= j
        BY <2>3, <3>1, <1>3, <1>4
      <4>. QED  BY <4>1, <2>1, <1>3
    <3>3. FirstEvent(t) = g
      BY <3>2, <1>1, FirstEventUnique
    <3>4. t[g] = s[g]
      BY <2>3, <3>1, <1>2, <1>3, <1>4
    <3>. QED  BY <3>1, <3>3, <3>4, <2>1, <2>3, <1>4 DEF Oldest
  <2>. QED  BY <2>2, <2>3
<1>. QED  BY <1>5, <1>6

(* The unread events of the next state.                                    *)
LEMMA UnreadPrimed == Unread' = From(Oldest(toClient', pushed'), pushed')
BY Zenon DEF Unread, From, Oldest, FirstEvent, EventEnds, Ends

LEMMA UnreadKept ==
  ASSUME toClient' = toClient, pushed' = pushed
  PROVE  Unread' = Unread
BY UnreadPrimed, Zenon DEF Unread

(* No event is on its way if the connection is empty or only one answer is.*)
LEMMA UnreadEmpty ==
  ASSUME NEW s, s = <<>>, NEW last \in Nat
  PROVE  From(Oldest(s, last), last) = <<>>
<1>1. EventEnds(s) = {}
  BY EmptyWay, Zenon
<1>2. Oldest(s, last) = last + 1
  BY <1>1, Zenon DEF Oldest
<1>. QED  BY <1>2, FromEmpty, Zenon

LEMMA UnreadClosed ==
  ASSUME SocketInv, toClient' = <<>>, pushed' = pushed
  PROVE  Unread' = <<>>
<1>1. PICK s, p : s = toClient' /\ p = pushed'
  OBVIOUS
<1>2. p \in Nat
  BY <1>1 DEF SocketInv, TypeOK
<1>3. From(Oldest(s, p), p) = <<>>
  BY <1>1, <1>2, UnreadEmpty, Zenon
<1>. QED  BY <1>1, <1>3, UnreadPrimed, Zenon

LEMMA InitLink == Init => Link!Init
<1>. SUFFICES ASSUME Init PROVE Link!Init
  OBVIOUS
<1>1. Unread = <<>>
  BY UnreadEmpty DEF Init, Unread
<1>. QED  BY <1>1 DEF Init, Link!Init, Nothing, Result, Link!Nothing, Link!Result

(* Pieces that leave the connection take the unread events from its front. *)
LEMMA UnreadTaken ==
  ASSUME SocketInv, NEW n \in 0 .. Len(toClient), toClient' = Rest(n), pushed' = pushed
  PROVE  /\ Link!Behind(Unread, Unread')
         /\ (\A i \in EventEnds(toClient) : n < i) => Unread' = Unread
         /\ (\E i \in EventEnds(toClient) : i <= n) =>
              /\ Unread # <<>> /\ Head(Unread) = toClient[FirstEvent(toClient)].msg.n
              /\ Link!Behind(Tail(Unread), Unread')
<1>1. PICK s, t, p : s = toClient /\ t = toClient' /\ p = pushed
  OBVIOUS
<1>2. s \in Seq(Pieces(Kinds)) /\ p \in Nat /\ EventsInOrder(s, p)
  BY <1>1 DEF SocketInv, TypeOK, WayBack
<1>3. n \in 0 .. Len(s) /\ t = SubSeq(s, n + 1, Len(s))
  BY <1>1 DEF Rest
<1>4. PICK a, c : a = Oldest(s, p) /\ c = Oldest(t, p)
  OBVIOUS
<1>5. /\ a \in Nat /\ a <= p + 1
      /\ EventEnds(s) # {} => a = s[FirstEvent(s)].msg.n /\ a <= p
  BY <1>2, <1>4, OldestIs
<1>6. /\ c \in Nat /\ c <= p + 1 /\ a <= c
      /\ (\E i \in EventEnds(s) : i <= n) => a < c
      /\ (\A i \in EventEnds(s) : n < i) => a = c
  <2>1. OldestMoves(s, t, n, p)
    BY <1>2, <1>3, OldestDrop, Zenon
  <2>. QED  BY <2>1, <1>4 DEF OldestMoves
<1>7. Unread = From(a, p) /\ Unread' = From(c, p)
  BY <1>1, <1>4, UnreadPrimed, Zenon DEF Unread
<1>8. Link!Behind(From(a, p), From(c, p))
  BY <1>2, <1>5, <1>6, FromSuffix, Zenon
<1>9. ASSUME \E i \in EventEnds(s) : i <= n
      PROVE  /\ From(a, p) # <<>> /\ Head(From(a, p)) = s[FirstEvent(s)].msg.n
             /\ Link!Behind(Tail(From(a, p)), From(c, p))
  <2>1. a = s[FirstEvent(s)].msg.n /\ a <= p /\ a < c
    BY <1>5, <1>6, <1>9
  <2>2. a + 1 \in Nat /\ a + 1 <= c
    BY <2>1, <1>5, <1>6
  <2>3. From(a, p) # <<>> /\ Head(From(a, p)) = a /\ Tail(From(a, p)) = From(a + 1, p)
    BY <2>1, <1>2, <1>5, FromTail, Zenon
  <2>4. Link!Behind(From(a + 1, p), From(c, p))
    BY <2>2, <1>2, <1>6, FromSuffix, Zenon
  <2>. QED  BY <2>1, <2>3, <2>4, Zenon
<1>. QED  BY <1>1, <1>6, <1>7, <1>8, <1>9, Zenon

(* A message that joins them: an answer, or the next event.                *)
LEMMA UnreadAppended ==
  ASSUME SocketInv, NEW m \in [kind : Kinds, n : Nat], toClient' = toClient \o Wire(m)
  PROVE  /\ m.kind # "EVENT" /\ pushed' = pushed => Unread' = Unread
         /\ m.kind = "EVENT" /\ m.n = pushed + 1 /\ pushed' = pushed + 1 =>
              Unread' = Append(Unread, pushed + 1)
<1>1. PICK s, t, p : s = toClient /\ t = toClient' /\ p = pushed
  OBVIOUS
<1>2. s \in Seq(Pieces(Kinds)) /\ p \in Nat /\ EventsInOrder(s, p)
  BY <1>1 DEF SocketInv, TypeOK, WayBack
<1>3. t = s \o Wire(m)
  BY <1>1
<1>4. PICK a : a = Oldest(s, p)
  OBVIOUS
<1>5. a \in Nat /\ a <= p + 1
  BY <1>2, <1>4, OldestIs, Zenon
<1>6. /\ m.kind # "EVENT" => Oldest(t, p) = a
      /\ m.kind = "EVENT" /\ m.n = p + 1 => Oldest(t, p + 1) = a
  <2>1. OldestStays(s, t, m, p)
    BY <1>2, <1>3, OldestAppend, Zenon
  <2>. QED  BY <2>1, <1>4 DEF OldestStays
<1>7. Append(From(a, p), p + 1) = From(a, p + 1)
  BY <1>2, <1>5, FromAppend, Zenon
<1>8. Unread = From(a, p)
  BY <1>1, <1>4, Zenon DEF Unread
<1>. QED  BY <1>1, <1>6, <1>7, <1>8, UnreadPrimed, Zenon

(* Every step of the connection is a step of the abstract link, or none.   *)
LEMMA LinkStutters ==
  ASSUME Unread' = Unread,
         UNCHANGED <<client, issued, executed, pushed, delivered, got, skewed>>
  PROVE  [Link!Next]_(Link!vars)
BY DEF Link!vars

LEMMA LinkCloses ==
  ASSUME SocketInv, close, client # "closed"
  PROVE  [Link!Next]_(Link!vars)
<1>1. /\ client' = "closed" /\ toClient' = <<>>
      /\ UNCHANGED <<issued, executed, pushed, delivered, got, skewed>>
  BY DEF close
<1>2. Unread' = <<>>
  BY <1>1, UnreadClosed
<1>3. Link!Close
  BY <1>1, <1>2 DEF Link!Close
<1>. QED  BY <1>3 DEF Link!Next

(* In step, an idle client has something unread exactly if an event is.    *)
LEMMA UnreadIsEvent ==
  ASSUME SocketInv, client = "idle", ~skewed
  PROVE  toClient # <<>> <=> Unread # <<>>
<1>1. /\ toClient \in Seq(Pieces(Kinds)) /\ Alternates(toClient) /\ EventsInOrder(toClient, pushed)
      /\ pushed \in Nat
  BY DEF SocketInv, TypeOK, WayBack
<1>2. ASSUME toClient = <<>> PROVE Unread = <<>>
  BY <1>1, <1>2, UnreadEmpty, Zenon DEF Unread
<1>3. ASSUME toClient # <<>> PROVE Unread # <<>>
  <2>1. Len(toClient) \in Nat /\ Len(toClient) \in 1 .. Len(toClient)
    BY <1>1, <1>3, EmptySeq, LenProperties
  <2>2. toClient[Len(toClient)].end
    BY <1>3, <1>1 DEF Alternates
  <2>3. toClient[Len(toClient)].msg.kind = "EVENT"
    BY <2>1 DEF SocketInv, InStep, Resting
  <2>4. Len(toClient) \in EventEnds(toClient)
    BY <2>1, <2>2, <2>3 DEF EventEnds, Ends
  <2>5. PICK a : a = Oldest(toClient, pushed)
    OBVIOUS
  <2>6. a \in Nat /\ a <= pushed
    BY <2>4, <2>5, <1>1, OldestIs
  <2>7. From(a, pushed) # <<>>
    BY <2>6, <1>1, FromTail, Zenon
  <2>. QED  BY <2>5, <2>7, Zenon DEF Unread
<1>. QED  BY <1>2, <1>3

LEMMA LinkCalls ==
  ASSUME SocketInv, NEW data \in BOOLEAN, Send(data)
  PROVE  [Link!Next]_(Link!vars)
<1>1. /\ client = "idle" /\ client' = "call" /\ issued' = issued + 1
      /\ skewed' = (skewed \/ toClient # <<>>)
      /\ UNCHANGED <<executed, pushed, toClient, delivered, got>>
  BY DEF Send, serverVars
<1>2. Unread' = Unread
  BY <1>1, UnreadKept
<1>3. skewed \in BOOLEAN
  BY DEF SocketInv, TypeOK
<1>4. skewed' = (skewed \/ Unread # <<>>)
  BY <1>1, <1>3, UnreadIsEvent
<1>5. Link!Call
  BY <1>1, <1>2, <1>4 DEF Link!Call
<1>. QED  BY <1>5 DEF Link!Next

LEMMA LinkExecutes ==
  ASSUME SocketInv, handle_command \/ FrameError
  PROVE  [Link!Next]_(Link!vars)
<1>1. /\ server = "drain" /\ executed' = srvBuf[FirstEnd(srvBuf)].msg.n
      /\ UNCHANGED <<client, issued, pushed, delivered, got, skewed>>
  BY DEF handle_command, FrameError, reset_connection, clientVars
<1>2. executed' = executed + 1 /\ executed < issued /\ executed \in Nat /\ issued \in Nat
  BY <1>1, OldestCommand DEF SocketInv, TypeOK
<1>3. Unread' = Unread
  <2>1. CASE FrameError
    BY <2>1, <1>1, UnreadKept DEF FrameError
  <2>2. CASE handle_command
    <3>1. PICK kind \in {"SUCCESS", "ERROR"} : toClient' = toClient \o Wire(Msg(kind, executed'))
      BY <2>2 DEF handle_command
    <3>2. PICK m : m = Msg(kind, executed')
      OBVIOUS
    <3>3. m \in [kind : Kinds, n : Nat] /\ m.kind # "EVENT" /\ toClient' = toClient \o Wire(m)
      BY <3>1, <3>2, <1>2 DEF Msg, Kinds
    <3>. QED  BY <3>3, <1>1, UnreadAppended
  <2>. QED  BY <2>1, <2>2
<1>4. executed' \in executed + 1 .. issued
  BY <1>2
<1>5. Link!Execute
  BY <1>1, <1>3, <1>4 DEF Link!Execute
<1>. QED  BY <1>5 DEF Link!Next

LEMMA LinkPushes ==
  ASSUME SocketInv, Key
  PROVE  [Link!Next]_(Link!vars)
<1>1. /\ server = "served" /\ pushed' = pushed + 1
      /\ toClient' = toClient \o Wire(Msg("EVENT", pushed + 1))
      /\ skewed' = (skewed \/ client = "call")
      /\ UNCHANGED <<client, issued, executed, delivered, got>>
  BY DEF Key, clientVars
<1>2. client \notin {"down", "closed"} /\ pushed \in Nat
  BY <1>1 DEF SocketInv, Connected, TypeOK
<1>3. PICK m : m = Msg("EVENT", pushed + 1)
  OBVIOUS
<1>4. m \in [kind : Kinds, n : Nat] /\ m.kind = "EVENT" /\ m.n = pushed + 1
  BY <1>2, <1>3 DEF Msg, Kinds
<1>5. Unread' = Append(Unread, pushed + 1)
  BY <1>1, <1>3, <1>4, UnreadAppended
<1>6. Link!Push
  BY <1>1, <1>2, <1>5 DEF Link!Push
<1>. QED  BY <1>6 DEF Link!Next

LEMMA LinkLoses ==
  ASSUME SocketInv, ReceiveFails
  PROVE  [Link!Next]_(Link!vars)
<1>1. /\ toClient' \in {toClient, <<>>}
      /\ UNCHANGED <<client, issued, executed, pushed, delivered, got, skewed>>
  BY DEF ReceiveFails, reset_connection, clientVars
<1>2. CASE toClient' = toClient
  BY <1>1, <1>2, UnreadKept, LinkStutters
<1>3. CASE toClient' = <<>>
  <2>1. PICK a, p : a = Oldest(toClient, pushed) /\ p = pushed
    OBVIOUS
  <2>2. p \in Nat /\ a \in Nat /\ a <= p + 1
    BY <2>1, OldestIs DEF SocketInv, TypeOK, WayBack
  <2>3. p + 1 \in Nat /\ p + 1 <= p + 1
    BY <2>2
  <2>4. Link!Behind(From(a, p), From(p + 1, p))
    BY <2>2, <2>3, FromSuffix, Zenon
  <2>5. Unread' = <<>>
    BY <1>1, <1>3, UnreadClosed
  <2>6. Link!Behind(Unread, Unread')
    BY <2>1, <2>2, <2>4, <2>5, FromEmpty, Zenon DEF Unread
  <2>7. Link!Lose
    BY <1>1, <2>6 DEF Link!Lose
  <2>. QED  BY <2>7 DEF Link!Next
<1>. QED  BY <1>1, <1>2, <1>3

(* The message that a receive completes is the first on the way back.      *)
LEMMA MessageReceived ==
  ASSUME SocketInv, NEW n \in 1 .. Len(toClient), NEW s, s = buf \o Arrived(n), Ends(s) # {}
  PROVE  \E f \in 1 .. n : /\ f \in Ends(toClient) /\ \A j \in Ends(toClient) : f <= j
                           /\ toClient[f].msg \in [kind : Kinds, n : Nat]
                           /\ FirstEnd(s) = Len(buf) + f
                           /\ FirstEnd(s) # 1 => MessageOf(s) = toClient[f].msg
                           /\ FirstEnd(s) = 1 => MessageOf(s) = Msg("JUNK", 0)
<1>1. \A i \in 1 .. n : s[Len(buf) + i] = toClient[i]
  BY FirstReceived
<1>2. PICK f \in 1 .. 2 : /\ f <= n /\ f \in Ends(toClient) /\ \A j \in Ends(toClient) : f <= j
                          /\ FirstEnd(s) = Len(buf) + f
                          /\ f = 1 => \E m \in Nat : Len(toClient) = 2 * m + 1
  BY FirstReceived
<1>3. toClient \in Seq(Pieces(Kinds)) /\ Len(toClient) \in Nat
  BY LenProperties DEF SocketInv, TypeOK
<1>4. f \in 1 .. n /\ f \in 1 .. Len(toClient)
  BY <1>2, <1>3
<1>5. toClient[f] \in Pieces(Kinds)
  BY <1>3, <1>4, ElementOfSeq
<1>6. toClient[f].msg \in [kind : Kinds, n : Nat]
  BY <1>5 DEF Pieces
<1>7. s[FirstEnd(s)] = toClient[f]
  BY <1>1, <1>2, <1>4
<1>8. FirstEnd(s) # 1 => MessageOf(s) = toClient[f].msg
  BY <1>7 DEF MessageOf
<1>9. FirstEnd(s) = 1 => MessageOf(s) = Msg("JUNK", 0)
  BY DEF MessageOf
<1>. QED  BY <1>2, <1>4, <1>6, <1>8, <1>9

(* A call that is in step finds its own answer and nothing else.           *)
LEMMA AnswerReceived ==
  ASSUME SocketInv, client = "call", ~skewed, NEW n \in 1 .. Len(toClient),
         NEW s, s = buf \o Arrived(n), Ends(s) # {}
  PROVE  /\ executed = issued /\ EventEnds(toClient) = {}
         /\ MessageOf(s).kind \in {"SUCCESS", "ERROR"} /\ MessageOf(s).n = issued
<1>1. Len(toClient) \in Nat /\ issued \in Nat
  BY LenProperties DEF SocketInv, TypeOK
<1>2. toClient # <<>>
  BY <1>1
<1>3. PICK kind \in {"SUCCESS", "ERROR"} : executed = issued /\ OwnAnswer(Msg(kind, issued))
  BY <1>2 DEF SocketInv, InStep, Calling
<1>4. PICK m, p, q : m = Msg(kind, issued) /\ p = Piece(m, FALSE) /\ q = Piece(m, TRUE)
  OBVIOUS
<1>5. /\ p \in Pieces(Kinds) /\ q \in Pieces(Kinds) /\ ~p.end /\ p.msg = m /\ q.msg = m
      /\ m.kind \in {"SUCCESS", "ERROR"} /\ m.n = issued
  BY <1>1, <1>4 DEF Piece, Pieces, Msg, Kinds
<1>6. PICK f \in 1 .. n : /\ f \in Ends(toClient)
                          /\ FirstEnd(s) = Len(buf) + f
                          /\ FirstEnd(s) # 1 => MessageOf(s) = toClient[f].msg
  BY MessageReceived
<1>7. f \in 1 .. Len(toClient) /\ toClient[f].end
  BY <1>6 DEF Ends
<1>8. /\ \A i \in 1 .. Len(toClient) : toClient[i].msg = m
      /\ FirstEnd(s) # 1
  <2>1. CASE buf = <<p>> /\ toClient = <<q>>
    <3>1. Len(toClient) = 1 /\ toClient[1] = q /\ Len(buf) = 1
      BY <2>1, <1>5, SingleIs, Zenon
    <3>. QED  BY <3>1, <1>5, <1>6, <1>7
  <2>2. CASE buf = <<>> /\ toClient = <<p, q>>
    <3>1. Len(toClient) = 2 /\ toClient[1] = p /\ toClient[2] = q
      BY <2>2, <1>5, PairIs, Zenon
    <3>2. Len(buf) = 0
      BY <2>2
    <3>3. f # 1
      BY <3>1, <1>5, <1>7
    <3>. QED  BY <3>1, <3>2, <3>3, <1>5, <1>6, <1>7
  <2>. QED  BY <2>1, <2>2, <1>3, <1>4 DEF OwnAnswer, Wire
<1>9. EventEnds(toClient) = {}
  <2>1. ASSUME NEW i \in EventEnds(toClient) PROVE FALSE
    <3>1. i \in 1 .. Len(toClient) /\ toClient[i].msg.kind = "EVENT"
      BY DEF EventEnds, Ends
    <3>. QED  BY <3>1, <1>5, <1>8
  <2>. QED  BY <2>1
<1>10. MessageOf(s) = m
  BY <1>6, <1>7, <1>8
<1>. QED  BY <1>3, <1>5, <1>9, <1>10

LEMMA LinkReplies ==
  ASSUME SocketInv, RecvResponse
  PROVE  [Link!Next]_(Link!vars)
<1>1. PICK n \in 1 .. Len(toClient) :
        /\ Ends(buf \o Arrived(n)) # {}
        /\ \/ Return(n, ResultOf(MessageOf(buf \o Arrived(n)))) /\ UNCHANGED delivered
           \/ close
  BY LenProperties DEF RecvResponse, RecvSizes, SocketInv, TypeOK
<1>2. client = "call"
  BY DEF RecvResponse
<1>3. CASE close
  BY <1>2, <1>3, LinkCloses
<1>4. CASE Return(n, ResultOf(MessageOf(buf \o Arrived(n)))) /\ UNCHANGED delivered
  <2>1. PICK s : s = buf \o Arrived(n)
    OBVIOUS
  <2>2. Ends(s) # {} /\ got' = ResultOf(MessageOf(s))
    BY <2>1, <1>1, <1>4 DEF Return
  <2>3. /\ client' = "idle" /\ toClient' = Rest(n)
        /\ UNCHANGED <<issued, executed, pushed, delivered, skewed>>
    BY <1>4 DEF Return, serverVars
  <2>4. n \in 0 .. Len(toClient)
    BY LenProperties DEF SocketInv, TypeOK
  <2>5. CASE ~skewed
    <3>1. /\ executed = issued /\ EventEnds(toClient) = {}
          /\ MessageOf(s).kind \in {"SUCCESS", "ERROR"} /\ MessageOf(s).n = issued
      BY <2>1, <2>2, <2>5, <1>2, AnswerReceived
    <3>2. Unread' = Unread
      <4>1. \A i \in EventEnds(toClient) : n < i
        BY <3>1
      <4>. QED  BY <4>1, <2>3, <2>4, UnreadTaken
    <3>3. got' = Link!Result("reply", issued)
      BY <3>1, <2>2 DEF ResultOf, Result, Link!Result
    <3>4. Link!Reply
      BY <1>2, <2>3, <2>5, <3>1, <3>2, <3>3 DEF Link!Reply
    <3>. QED  BY <3>4 DEF Link!Next
  <2>6. CASE skewed
    <3>1. Link!Behind(Unread, Unread')
      BY <2>3, <2>4, UnreadTaken
    <3>2. got' \in Link!Results
      <4>1. PICK f \in 1 .. n : /\ toClient[f].msg \in [kind : Kinds, n : Nat]
                                /\ FirstEnd(s) # 1 => MessageOf(s) = toClient[f].msg
                                /\ FirstEnd(s) = 1 => MessageOf(s) = Msg("JUNK", 0)
        BY <2>1, <2>2, MessageReceived
      <4>2. CASE FirstEnd(s) = 1
        BY <4>1, <4>2, <2>2 DEF ResultOf, Result, Msg, Link!Results
      <4>3. CASE FirstEnd(s) # 1
        <5>1. MessageOf(s) \in [kind : Kinds, n : Nat]
          BY <4>1, <4>3
        <5>. QED  BY <5>1, <2>2 DEF ResultOf, Result, Link!Results, Kinds
      <4>. QED  BY <4>2, <4>3
    <3>3. Link!Misreply
      BY <1>2, <2>3, <2>6, <3>1, <3>2 DEF Link!Misreply
    <3>. QED  BY <3>3 DEF Link!Next
  <2>. QED  BY <2>5, <2>6
<1>. QED  BY <1>1, <1>3, <1>4

LEMMA LinkDelivers ==
  ASSUME SocketInv, RecvEvent
  PROVE  [Link!Next]_(Link!vars)
<1>1. PICK n \in 1 .. Len(toClient) :
        /\ Ends(buf \o Arrived(n)) # {}
        /\ \/ /\ MessageOf(buf \o Arrived(n)).kind = "EVENT"
              /\ Return(n, ResultOf(MessageOf(buf \o Arrived(n)))) /\ delivered' = delivered + 1
           \/ close
  BY LenProperties DEF RecvEvent, RecvSizes, SocketInv, TypeOK
<1>2. client = "wait"
  BY DEF RecvEvent
<1>3. CASE close
  BY <1>2, <1>3, LinkCloses
<1>4. CASE ~close
  <2>1. PICK s : s = buf \o Arrived(n)
    OBVIOUS
  <2>2. /\ Ends(s) # {} /\ MessageOf(s).kind = "EVENT" /\ got' = ResultOf(MessageOf(s))
        /\ delivered' = delivered + 1
    BY <2>1, <1>1, <1>4 DEF Return
  <2>3. /\ client' = "idle" /\ toClient' = Rest(n)
        /\ UNCHANGED <<issued, executed, pushed, skewed>>
    BY <1>1, <1>4 DEF Return, serverVars
  <2>4. n \in 0 .. Len(toClient)
    BY LenProperties DEF SocketInv, TypeOK
  <2>5. PICK f \in 1 .. n : /\ f \in Ends(toClient) /\ \A j \in Ends(toClient) : f <= j
                            /\ FirstEnd(s) # 1 => MessageOf(s) = toClient[f].msg
                            /\ FirstEnd(s) = 1 => MessageOf(s) = Msg("JUNK", 0)
    BY <2>1, <2>2, MessageReceived
  <2>6. MessageOf(s) = toClient[f].msg
    BY <2>2, <2>5 DEF Msg
  <2>7. f \in EventEnds(toClient) /\ \A j \in EventEnds(toClient) : f <= j
    BY <2>2, <2>5, <2>6 DEF EventEnds
  <2>8. FirstEvent(toClient) = f
    BY <2>7, FirstEventUnique DEF SocketInv, TypeOK
  <2>9. \E i \in EventEnds(toClient) : i <= n
    BY <2>5, <2>7
  <2>10. /\ Unread # <<>> /\ Head(Unread) = toClient[f].msg.n
         /\ Link!Behind(Tail(Unread), Unread')
    BY <2>3, <2>4, <2>8, <2>9, UnreadTaken
  <2>11. got' = Link!Result("event", Head(Unread))
    BY <2>2, <2>6, <2>10 DEF ResultOf, Result, Link!Result
  <2>12. Link!Event
    BY <1>2, <2>2, <2>3, <2>10, <2>11 DEF Link!Event
  <2>. QED  BY <2>12 DEF Link!Next
<1>. QED  BY <1>3, <1>4

LEMMA LinkTimesOut ==
  ASSUME SocketInv, EventTimeout
  PROVE  [Link!Next]_(Link!vars)
<1>1. /\ client = "wait" /\ toClient = <<>> /\ client' = "idle" /\ got' = Nothing
      /\ toClient' = SubSeq(toClient, 0 + 1, Len(toClient))
      /\ UNCHANGED <<issued, executed, pushed, delivered, skewed>>
  BY DEF EventTimeout, Return, Rest, serverVars
<1>2. toClient' = toClient
  BY <1>1
<1>3. Unread' = Unread
  BY <1>1, <1>2, UnreadKept
<1>4. Link!NoEvent
  BY <1>1, <1>3 DEF Link!NoEvent, Nothing, Result, Link!Nothing, Link!Result
<1>. QED  BY <1>4 DEF Link!Next

LEMMA LinkGathers ==
  ASSUME SocketInv, RecvMore
  PROVE  [Link!Next]_(Link!vars)
<1>1. PICK n \in 1 .. Len(toClient) : Ends(buf \o Arrived(n)) = {} /\ toClient' = Rest(n)
  BY LenProperties DEF RecvMore, RecvSizes, SocketInv, TypeOK
<1>2. UNCHANGED <<client, issued, executed, pushed, delivered, got, skewed>>
  BY DEF RecvMore, serverVars
<1>3. \A i \in 1 .. n : i \notin Ends(toClient)
  <2>1. PICK s : s = buf \o Arrived(n)
    OBVIOUS
  <2>2. Ends(s) = {}
    BY <2>1, <1>1
  <2>. QED  BY <2>1, <2>2, FirstReceived
<1>4. Len(toClient) \in Nat /\ n \in 0 .. Len(toClient)
  BY LenProperties DEF SocketInv, TypeOK
<1>5. \A i \in EventEnds(toClient) : n < i
  <2>1. \A i \in EventEnds(toClient) : i \in Ends(toClient) /\ i \in 1 .. Len(toClient)
    BY DEF EventEnds, Ends
  <2>. QED  BY <2>1, <1>3, <1>4
<1>6. Unread' = Unread
  BY <1>1, <1>2, <1>4, <1>5, UnreadTaken
<1>. QED  BY <1>2, <1>6, LinkStutters

LEMMA StepLink ==
  ASSUME SocketInv, [Next]_vars
  PROVE  [Link!Next]_(Link!vars)
<1>1. CASE Bind \/ ConnectFails \/ Accept \/ FrameReceive \/ UNCHANGED vars
  <2>1. UNCHANGED <<client, issued, executed, pushed, toClient, delivered, got, skewed>>
    BY <1>1 DEF Bind, ConnectFails, Accept, FrameReceive, vars, clientVars, serverVars
  <2>. QED  BY <2>1, UnreadKept, LinkStutters
<1>2. CASE Connect
  <2>1. /\ client = "down" /\ client' = "idle"
        /\ UNCHANGED <<issued, executed, pushed, toClient, delivered, got, skewed>>
    BY <1>2 DEF Connect, serverVars
  <2>2. Link!Connect
    BY <2>1, UnreadKept DEF Link!Connect
  <2>. QED  BY <2>2 DEF Link!Next
<1>3. CASE recv_event
  <2>1. /\ client = "idle" /\ client' = "wait"
        /\ UNCHANGED <<issued, executed, pushed, toClient, delivered, got, skewed>>
    BY <1>3 DEF recv_event, serverVars
  <2>2. Link!Wait
    BY <2>1, UnreadKept DEF Link!Wait
  <2>. QED  BY <2>2 DEF Link!Next
<1>4. CASE ConnectGivesUp \/ Quit \/ SendFails \/ CommandTimeout \/ RecvClosed
  BY <1>4, LinkCloses DEF ConnectGivesUp, Quit, SendFails, CommandTimeout, RecvClosed
<1>5. CASE \E data \in BOOLEAN : Send(data)
  BY <1>5, LinkCalls
<1>6. CASE RecvMore \/ RecvResponse \/ RecvEvent \/ EventTimeout
  BY <1>6, LinkGathers, LinkReplies, LinkDelivers, LinkTimesOut
<1>7. CASE handle_command \/ FrameError \/ Key \/ ReceiveFails
  BY <1>7, LinkExecutes, LinkPushes, LinkLoses
<1>. QED  BY <1>1, <1>2, <1>3, <1>4, <1>5, <1>6, <1>7, Zenon DEF Next

(* The byte-level connection (RawSocketClient, and the Lua server that     *)
(* mGBA runs) implements the abstract link for all bounds, sizes of the    *)
(* receives and numbers of events: a call that returns while nothing was   *)
(* skewed returns its own answer, after the emulator has done it.          *)
THEOREM ConnectionImplementsLink == Spec => LinkImplemented
<1>1. Init => Link!Init
  BY InitLink
<1>2. SocketInv /\ [Next]_vars => [Link!Next]_(Link!vars)
  BY StepLink
<1>. QED  BY <1>1, <1>2, SocketInvariant, PTL DEF Spec, LinkImplemented, Link!Spec
=============================================================================
