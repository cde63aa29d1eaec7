------------------------- MODULE ResponseReaderProofs -------------------------
(***************************************************************************)
(* Proofs about ResponseReader, for every body, however long and however   *)
(* wrong, every size of the buffers and every way the chunks are cut.      *)
(***************************************************************************)
EXTENDS ResponseReader, SequenceTheorems, WellFoundedInduction, TLAPS

------------------------------------------------------------------------------
(* Induction                                                                *)

\* A set of numbers has a least one.
LEMMA Least ==
    ASSUME NEW T, T \subseteq Nat, T # {}
    PROVE  \E x \in T : \A y \in T : x <= y
<1>1. PICK x \in T : \A y \in T : ~(<<y, x>> \in OpToRel(<, Nat))
    BY WFMin, NatLessThanWellFounded, Zenon
<1>2. \A y \in T : <<y, x>> \in OpToRel(<, Nat) <=> y < x
    BY DEF OpToRel
<1>3. \A y \in T : ~(y < x)
    BY <1>1, <1>2, Zenon
<1> QED
    BY <1>3

\* Induction, for a set instead of a predicate.
LEMMA SetInduction ==
    ASSUME NEW P, 0 \in P, \A k \in Nat : k \in P => k + 1 \in P
    PROVE  Nat \subseteq P
<1> SUFFICES ASSUME Nat \ P # {} PROVE FALSE
    OBVIOUS
<1>1. PICK x \in Nat \ P : \A y \in Nat \ P : x <= y
    BY Least
<1>2. x # 0 /\ x - 1 \in Nat /\ x - 1 \in P
    BY <1>1
<1> QED
    BY <1>2

\* A function can be iterated.
LEMMA Iterate ==
    ASSUME NEW a \in Nat, NEW step \in [Nat -> Nat]
    PROVE  \E f \in [Nat -> Nat] : f[0] = a /\ \A k \in Nat : f[k + 1] = step[f[k]]
<1> DEFINE Good(m, g) == g[0] = a /\ \A k \in Nat : k < m => g[k + 1] = step[g[k]]
           P == {m \in Nat : \E g \in [Nat -> Nat] : Good(m, g)}
<1>1. 0 \in P
  <2> DEFINE g == [k \in Nat |-> a]
  <2>1. g \in [Nat -> Nat] /\ Good(0, g)
    OBVIOUS
  <2> HIDE DEF g, Good
  <2> QED
    BY <2>1
<1>2. ASSUME NEW m \in Nat, m \in P PROVE m + 1 \in P
  <2>1. PICK g \in [Nat -> Nat] : Good(m, g)
    BY <1>2
  <2> DEFINE h == [k \in Nat |-> IF k = m + 1 THEN step[g[m]] ELSE g[k]]
  <2>2. h \in [Nat -> Nat] /\ h[0] = g[0] /\ h[m + 1] = step[g[m]] /\ \A k \in Nat : k <= m => h[k] = g[k]
    OBVIOUS
  <2> HIDE DEF h
  <2>3. ASSUME NEW k \in Nat, k < m + 1 PROVE h[k + 1] = step[h[k]]
    <3>1. CASE k = m
        BY <2>2, <3>1
    <3>2. CASE k < m
        BY <2>1, <2>2, <3>2
    <3> QED
        BY <2>3, <3>1, <3>2
  <2>4. Good(m + 1, h)
    BY <2>1, <2>2, <2>3
  <2> HIDE DEF Good
  <2> QED
    BY <2>2, <2>4
<1>3. Nat \subseteq P
  <2> HIDE DEF P
  <2> QED
    BY <1>1, <1>2, SetInduction
<1>4. ASSUME NEW l \in Nat, NEW m \in Nat, l <= m, NEW g \in [Nat -> Nat], NEW h \in [Nat -> Nat],
             Good(l, g), Good(m, h)
      PROVE  g[l] = h[l]
  <2> DEFINE Q == {k \in Nat : k <= l => g[k] = h[k]}
  <2>1. 0 \in Q
    BY <1>4
  <2>2. ASSUME NEW k \in Nat, k \in Q PROVE k + 1 \in Q
    <3>1. CASE k + 1 <= l
      <4>1. k < l /\ k < m /\ g[k] = h[k]
        BY <1>4, <2>2, <3>1
      <4> QED
        BY <1>4, <4>1
    <3> QED
        BY <3>1
  <2>3. Nat \subseteq Q
    <3> HIDE DEF Q
    <3> QED
        BY <2>1, <2>2, SetInduction
  <2> QED
    BY <2>3
<1> DEFINE F(m) == CHOOSE g \in [Nat -> Nat] : Good(m, g)
           f == [m \in Nat |-> F(m)[m]]
<1>5. ASSUME NEW m \in Nat PROVE F(m) \in [Nat -> Nat] /\ Good(m, F(m))
  <2>1. \E g \in [Nat -> Nat] : Good(m, g)
    BY <1>3
  <2> HIDE DEF Good
  <2> QED
    BY <2>1
<1>6. f \in [Nat -> Nat]
  <2> HIDE DEF F
  <2>1. ASSUME NEW m \in Nat PROVE F(m)[m] \in Nat
    BY <1>5
  <2> QED
    BY <2>1
<1>7. f[0] = a
  <2> HIDE DEF F
  <2>1. Good(0, F(0))
    <3> HIDE DEF Good
    <3> QED
        BY <1>5
  <2> QED
    BY <2>1
<1>8. ASSUME NEW k \in Nat PROVE f[k + 1] = step[f[k]]
  <2>1. /\ F(k) \in [Nat -> Nat] /\ Good(k, F(k)) /\ F(k + 1) \in [Nat -> Nat] /\ Good(k + 1, F(k + 1))
        /\ k + 1 \in Nat /\ k <= k + 1 /\ k < k + 1
    <3> HIDE DEF F, Good
    <3> QED
        BY <1>5
  <2>2. F(k)[k] = F(k + 1)[k]
    <3> HIDE DEF F, Good
    <3> QED
        BY <1>4, <2>1
  <2>3. F(k + 1)[k + 1] = step[F(k + 1)[k]]
    <3> HIDE DEF F
    <3> QED
        BY <2>1
  <2> HIDE DEF F
  <2> QED
    BY <2>1, <2>2, <2>3
<1> HIDE DEF f
<1> QED
    BY <1>6, <1>7, <1>8

------------------------------------------------------------------------------
(* The frames of a body                                                     *)

\* The length a frame header after p bytes declares; a whole data frame is there.
LengthAt(s, p) == Uint32(From(s, p + 1))

FrameAt(p) ==
    /\ p + completeHeaderLen <= Len(wire)
    /\ ~HasTrailerFlag(wire[p + 1])
    /\ p + completeHeaderLen + LengthAt(wire, p) <= Len(wire)

NextFrame == [p \in Nat |-> IF FrameAt(p) THEN p + completeHeaderLen + LengthAt(wire, p) ELSE p]

\* Where data frames begin, and the last one ends.
Starts == {LastFrameEnd[k] : k \in Nat}

\* Part of a body.
LEMMA Part ==
    ASSUME NEW s \in Seq(Byte), NEW a \in Nat, NEW b \in Nat, a <= b, b <= Len(s)
    PROVE  /\ SubSeq(s, a + 1, b) \in Seq(Byte) /\ Len(SubSeq(s, a + 1, b)) = b - a
           /\ \A i \in 1 .. b - a : SubSeq(s, a + 1, b)[i] = s[a + i]
OBVIOUS

\* A byte is a number.
LEMMA Bytes ==
    ASSUME NEW s \in Seq(Byte), NEW i \in 1 .. Len(s)
    PROVE  s[i] \in Byte /\ s[i] \in Nat
<1>1. s[i] \in Byte
    BY ElementOfSeq
<1>2. \A b \in 0 .. 255 : b \in Nat
    OBVIOUS
<1> QED
    BY <1>1, <1>2, Zenon DEF Byte

\* Four bytes are a number.
LEMMA FourBytes ==
    ASSUME NEW s \in Seq(Byte), Len(s) >= completeHeaderLen
    PROVE  Uint32(s) \in Nat
<1>1. 2 \in 1 .. Len(s) /\ 3 \in 1 .. Len(s) /\ 4 \in 1 .. Len(s) /\ 5 \in 1 .. Len(s)
    BY DEF completeHeaderLen
<1>2. PICK a \in Nat, b \in Nat, c \in Nat, d \in Nat : s[2] = a /\ s[3] = b /\ s[4] = c /\ s[5] = d
    BY <1>1, Bytes
<1>3. a * 256 + b \in Nat /\ (a * 256 + b) * 256 + c \in Nat
      /\ ((a * 256 + b) * 256 + c) * 256 + d \in Nat
    OBVIOUS
<1>4. Uint32(s) = ((a * 256 + b) * 256 + c) * 256 + d
    BY <1>2 DEF Uint32
<1> QED
    BY <1>3, <1>4

\* Two headers with the same bytes declare the same length.
LEMMA SameLength ==
    ASSUME NEW s, NEW t, \A i \in 1 .. completeHeaderLen : s[i] = t[i]
    PROVE  Uint32(s) = Uint32(t)
<1>1. s[2] = t[2] /\ s[3] = t[3] /\ s[4] = t[4] /\ s[5] = t[5]
    BY DEF completeHeaderLen
<1> QED
    BY <1>1 DEF Uint32

\* The length in a header that is there is a number.
LEMMA LengthIsNumber ==
    ASSUME wire \in Seq(Byte), NEW p \in Nat, p + completeHeaderLen <= Len(wire)
    PROVE  LengthAt(wire, p) \in Nat
<1>1. Len(wire) \in Nat /\ p <= Len(wire)
    BY DEF completeHeaderLen
<1>2. From(wire, p + 1) \in Seq(Byte) /\ Len(From(wire, p + 1)) = Len(wire) - p
    BY <1>1, Part DEF From
<1>3. Len(From(wire, p + 1)) >= completeHeaderLen
    BY <1>1, <1>2 DEF completeHeaderLen
<1> QED
    BY <1>2, <1>3, FourBytes DEF LengthAt

\* The step from one frame to the next, as a function.
LEMMA NextFrameType ==
    ASSUME wire \in Seq(Byte)
    PROVE  NextFrame \in [Nat -> Nat]
<1>1. ASSUME NEW p \in Nat, FrameAt(p) PROVE p + completeHeaderLen + LengthAt(wire, p) \in Nat
    BY <1>1, LengthIsNumber DEF FrameAt, completeHeaderLen
<1> QED
    BY <1>1 DEF NextFrame

\* LastFrameEnd is what its definition says.
LEMMA Unfold ==
    ASSUME wire \in Seq(Byte)
    PROVE  /\ LastFrameEnd[0] = 0
           /\ \A k \in Nat : LastFrameEnd[k] \in Nat
           /\ \A k \in Nat : LastFrameEnd[k + 1] = NextFrame[LastFrameEnd[k]]
<1> DEFINE Body(f, k) ==
             IF k = 0 THEN 0
             ELSE LET p == f[k - 1]
                      q == p + completeHeaderLen + Uint32(From(wire, p + 1))
                  IN  IF /\ p + completeHeaderLen <= Len(wire)
                         /\ ~HasTrailerFlag(wire[p + 1])
                         /\ q <= Len(wire)
                      THEN q ELSE p
<1>1. PICK f \in [Nat -> Nat] : f[0] = 0 /\ \A k \in Nat : f[k + 1] = NextFrame[f[k]]
    BY NextFrameType, Iterate
<1>2. ASSUME NEW g, NEW k \in Nat, g[k] \in Nat PROVE NextFrame[g[k]] = Body(g, k + 1)
  <2>1. k + 1 # 0 /\ (k + 1) - 1 = k
    OBVIOUS
  <2> QED
    BY <1>2, <2>1 DEF NextFrame, FrameAt, LengthAt
<1>3. f = [k \in Nat |-> Body(f, k)]
  <2>1. ASSUME NEW k \in Nat PROVE f[k] = Body(f, k)
    <3>1. CASE k = 0
        BY <1>1, <3>1
    <3>2. CASE k # 0
      <4>1. k - 1 \in Nat /\ (k - 1) + 1 = k
        BY <3>2
      <4>2. f[k - 1] \in Nat /\ f[k] = NextFrame[f[k - 1]]
        BY <1>1, <4>1
      <4>3. NextFrame[f[k - 1]] = Body(f, (k - 1) + 1)
        BY <1>2, <4>1, <4>2
      <4> HIDE DEF Body
      <4> QED
        BY <4>1, <4>2, <4>3
    <3> QED
        BY <3>1, <3>2
  <2> HIDE DEF Body
  <2> QED
    BY <2>1
<1>4. LastFrameEnd = CHOOSE h : h = [k \in Nat |-> Body(h, k)]
    BY Zenon DEF LastFrameEnd
<1> HIDE DEF Body
<1>5. LastFrameEnd = [k \in Nat |-> Body(LastFrameEnd, k)]
    BY <1>3, <1>4
<1>6. LastFrameEnd[0] = 0
  <2>1. LastFrameEnd[0] = Body(LastFrameEnd, 0)
    BY <1>5
  <2> QED
    BY <2>1 DEF Body
<1> DEFINE P == {k \in Nat : LastFrameEnd[k] \in Nat}
<1>7. ASSUME NEW k \in Nat, LastFrameEnd[k] \in Nat
      PROVE  LastFrameEnd[k + 1] = NextFrame[LastFrameEnd[k]] /\ LastFrameEnd[k + 1] \in Nat
  <2>1. LastFrameEnd[k + 1] = Body(LastFrameEnd, k + 1)
    <3>1. k + 1 \in Nat
        OBVIOUS
    <3> QED
        BY <1>5, <3>1
  <2>2. NextFrame[LastFrameEnd[k]] = Body(LastFrameEnd, k + 1)
    BY <1>2, <1>7
  <2>3. NextFrame[LastFrameEnd[k]] \in Nat
    BY <1>7, NextFrameType
  <2> QED
    BY <2>1, <2>2, <2>3
<1>8. Nat \subseteq P
  <2>1. 0 \in P /\ \A k \in Nat : k \in P => k + 1 \in P
    BY <1>6, <1>7
  <2> HIDE DEF P
  <2> QED
    BY <2>1, SetInduction
<1> QED
    BY <1>6, <1>7, <1>8

\* A data frame takes its header and its payload; the steps stay within the body.
LEMMA OneFrame ==
    ASSUME wire \in Seq(Byte), NEW k \in Nat
    PROVE  /\ LastFrameEnd[k] \in Nat /\ LastFrameEnd[k + 1] \in Nat
           /\ FrameAt(LastFrameEnd[k]) =>
                 /\ LastFrameEnd[k + 1] = LastFrameEnd[k] + completeHeaderLen + LengthAt(wire, LastFrameEnd[k])
                 /\ LastFrameEnd[k + 1] >= LastFrameEnd[k] + completeHeaderLen
                 /\ LastFrameEnd[k + 1] <= Len(wire)
           /\ ~FrameAt(LastFrameEnd[k]) => LastFrameEnd[k + 1] = LastFrameEnd[k]
<1>1. k + 1 \in Nat
    OBVIOUS
<1>2. PICK p \in Nat : p = LastFrameEnd[k]
    BY Unfold
<1>3. LastFrameEnd[k + 1] = NextFrame[p] /\ LastFrameEnd[k + 1] \in Nat
    BY <1>1, <1>2, Unfold
<1>4. FrameAt(p) => LengthAt(wire, p) \in Nat
    BY LengthIsNumber DEF FrameAt
<1>5. FrameAt(p) => NextFrame[p] = p + completeHeaderLen + LengthAt(wire, p)
                    /\ p + completeHeaderLen + LengthAt(wire, p) <= Len(wire)
    BY DEF NextFrame, FrameAt
<1>6. ~FrameAt(p) => NextFrame[p] = p
    BY DEF NextFrame
<1>7. \A a, b \in Nat : a + completeHeaderLen + b >= a + completeHeaderLen
    BY DEF completeHeaderLen
<1>8. FrameAt(p) => p + completeHeaderLen + LengthAt(wire, p) >= p + completeHeaderLen
    BY <1>4, <1>7
<1> HIDE DEF FrameAt, NextFrame, LengthAt
<1>9. FrameAt(p) =>
        /\ LastFrameEnd[k + 1] = p + completeHeaderLen + LengthAt(wire, p)
        /\ LastFrameEnd[k + 1] >= p + completeHeaderLen
        /\ LastFrameEnd[k + 1] <= Len(wire)
    BY <1>3, <1>5, <1>8, Zenon
<1> QED
    BY <1>2, <1>3, <1>6, <1>9, Zenon

\* Frames end within the body, and each takes at least a header.
LEMMA Progress ==
    ASSUME wire \in Seq(Byte), NEW k \in Nat
    PROVE  /\ LastFrameEnd[k] <= Len(wire)
           /\ FrameAt(LastFrameEnd[k]) => LastFrameEnd[k] >= completeHeaderLen * k
<1> DEFINE L(j) == LastFrameEnd[j]
           Ok(j) == L(j) <= Len(wire) /\ (FrameAt(L(j)) => L(j) >= completeHeaderLen * j)
           P == {j \in Nat : Ok(j)}
<1>1. Ok(0)
  <2>1. L(0) = 0 /\ Len(wire) \in Nat
    BY Unfold
  <2> QED
    BY <2>1 DEF completeHeaderLen
<1>2. ASSUME NEW j \in Nat, Ok(j) PROVE Ok(j + 1)
  <2>1. /\ L(j) \in Nat /\ L(j + 1) \in Nat
        /\ FrameAt(L(j)) => L(j + 1) >= L(j) + completeHeaderLen /\ L(j + 1) <= Len(wire)
        /\ ~FrameAt(L(j)) => L(j + 1) = L(j)
    BY OneFrame
  <2> HIDE DEF L
  <2>2. CASE FrameAt(L(j))
    <3>1. L(j + 1) >= completeHeaderLen * (j + 1)
        BY <1>2, <2>1, <2>2 DEF completeHeaderLen
    <3> QED
        BY <2>1, <2>2, <3>1
  <2>3. CASE ~FrameAt(L(j))
    BY <1>2, <2>1, <2>3
  <2> QED
    BY <2>2, <2>3
<1> HIDE DEF Ok
<1>3. 0 \in P /\ \A j \in Nat : j \in P => j + 1 \in P
    BY <1>1, <1>2
<1>4. Nat \subseteq P
  <2> HIDE DEF P
  <2> QED
    BY <1>3, SetInduction
<1> QED
    BY <1>4 DEF Ok

\* The ends of the frames ascend, up to where none begins.
LEMMA Ascending ==
    ASSUME wire \in Seq(Byte), NEW j \in Nat, NEW d \in Nat
    PROVE  /\ LastFrameEnd[j] <= LastFrameEnd[j + d]
           /\ ~FrameAt(LastFrameEnd[j]) => LastFrameEnd[j + d] = LastFrameEnd[j]
<1> DEFINE L(i) == LastFrameEnd[i]
           Ok(i) == L(j) <= L(j + i) /\ (~FrameAt(L(j)) => L(j + i) = L(j))
           P == {i \in Nat : Ok(i)}
<1>1. Ok(0)
  <2>1. L(j) \in Nat /\ j + 0 = j
    BY Unfold
  <2> QED
    BY <2>1
<1>2. ASSUME NEW i \in Nat, Ok(i) PROVE Ok(i + 1)
  <2>1. j + i \in Nat /\ j + (i + 1) = (j + i) + 1 /\ L(j) \in Nat
    BY Unfold
  <2>2. /\ L(j + i) \in Nat /\ L((j + i) + 1) \in Nat
        /\ FrameAt(L(j + i)) => L((j + i) + 1) >= L(j + i) + completeHeaderLen
        /\ ~FrameAt(L(j + i)) => L((j + i) + 1) = L(j + i)
    BY <2>1, OneFrame
  <2> HIDE DEF L
  <2>3. L(j + i) <= L((j + i) + 1)
    BY <2>2 DEF completeHeaderLen
  <2>4. L(j) <= L((j + i) + 1)
    BY <1>2, <2>1, <2>2, <2>3
  <2>5. ~FrameAt(L(j)) => L((j + i) + 1) = L(j)
    BY <1>2, <2>2
  <2> QED
    BY <2>1, <2>4, <2>5
<1> HIDE DEF Ok
<1>3. 0 \in P /\ \A i \in Nat : i \in P => i + 1 \in P
    BY <1>1, <1>2
<1>4. Nat \subseteq P
  <2> HIDE DEF P
  <2> QED
    BY <1>3, SetInduction
<1> QED
    BY <1>4 DEF Ok

\* What the proofs below need to know of the frames: DataFrames is the only place where
\* frames have ended and no further one begins.
LEMMA Frames ==
    ASSUME wire \in Seq(Byte)
    PROVE  /\ DataFrames \in Nat /\ DataFrames <= Len(wire)
           /\ 0 \in Starts
           /\ \A p \in Starts : p \in Nat /\ p <= DataFrames
           /\ \A p \in Starts : FrameAt(p) => p + completeHeaderLen + LengthAt(wire, p) \in Starts
           /\ \A p \in Starts : ~FrameAt(p) => p = DataFrames
<1> DEFINE K == Len(wire) \div completeHeaderLen
           L(j) == LastFrameEnd[j]
<1>1. K \in Nat /\ completeHeaderLen * (K + 1) > Len(wire) /\ Len(wire) \in Nat
  <2>1. Len(wire) \in Nat
    OBVIOUS
  <2>2. \A m \in Nat : m \div 5 \in Nat /\ 5 * (m \div 5 + 1) > m
    OBVIOUS
  <2> QED
    BY <2>1, <2>2 DEF completeHeaderLen
<1> HIDE DEF K
<1>2. /\ L(0) = 0 /\ \A j \in Nat : L(j) \in Nat /\ L(j) <= Len(wire)
    BY Unfold, Progress
<1>3. ASSUME NEW j \in Nat, NEW i \in Nat, j <= i
      PROVE  L(j) <= L(i) /\ (~FrameAt(L(j)) => L(i) = L(j))
  <2>1. PICK d \in Nat : i = j + d
    <3>1. i - j \in Nat /\ i = j + (i - j)
        BY <1>3
    <3> QED
        BY <3>1
  <2> QED
    BY <2>1, Ascending
<1>4. ~FrameAt(L(K))
  <2> SUFFICES ASSUME FrameAt(L(K)) PROVE FALSE
    OBVIOUS
  <2>1. L(K) >= completeHeaderLen * K
    BY <1>1, Progress
  <2>2. L(K) + completeHeaderLen <= Len(wire)
    BY DEF FrameAt
  <2>3. L(K) \in Nat
    BY <1>1, <1>2
  <2> HIDE DEF L
  <2> QED
    BY <1>1, <2>1, <2>2, <2>3 DEF completeHeaderLen
<1>5. DataFrames = L(K)
    BY DEF DataFrames, K
<1>6. ASSUME NEW j \in Nat PROVE L(j) <= L(K) /\ (~FrameAt(L(j)) => L(j) = L(K))
  <2>1. CASE j <= K
    BY <1>1, <1>3, <2>1
  <2>2. CASE K <= j
    <3>1. L(j) = L(K)
        BY <1>1, <1>3, <1>4, <2>2
    <3>2. L(K) \in Nat
        BY <1>1, <1>2
    <3> QED
        BY <3>1, <3>2
  <2> QED
    BY <1>1, <2>1, <2>2
<1>7. ASSUME NEW j \in Nat, FrameAt(L(j)) PROVE L(j) + completeHeaderLen + LengthAt(wire, L(j)) \in Starts
  <2>1. L(j + 1) = L(j) + completeHeaderLen + LengthAt(wire, L(j)) /\ j + 1 \in Nat
    BY <1>7, OneFrame
  <2> QED
    BY <2>1 DEF Starts
<1>8. 0 \in Starts /\ \A p \in Starts : \E j \in Nat : p = L(j)
    BY <1>2 DEF Starts
<1> HIDE DEF L
<1> QED
    BY <1>1, <1>2, <1>5, <1>6, <1>7, <1>8

------------------------------------------------------------------------------
(* The bytes of a body                                                      *)

\* The bytes of s after the first a, up to the b-th.
Window(s, a, b) == SubSeq(s, a + 1, b)

\* Such a part has the bytes one expects.
LEMMA WindowBytes ==
    ASSUME wire \in Seq(Byte), NEW a \in Nat, NEW b \in Nat, a <= b, b <= Len(wire)
    PROVE  /\ Window(wire, a, b) \in Seq(Byte) /\ Len(Window(wire, a, b)) = b - a
           /\ \A i \in 1 .. b - a : Window(wire, a, b)[i] = wire[a + i]
           /\ Window(wire, a, b) = <<>> <=> a = b
<1>1. /\ Window(wire, a, b) \in Seq(Byte) /\ Len(Window(wire, a, b)) = b - a
      /\ \A i \in 1 .. b - a : Window(wire, a, b)[i] = wire[a + i]
    BY Part DEF Window
<1>2. Window(wire, a, b) = <<>> <=> Len(Window(wire, a, b)) = 0
    BY <1>1, EmptySeq
<1> QED
    BY <1>1, <1>2

\* The end and the beginning of such a part.
LEMMA WindowParts ==
    ASSUME wire \in Seq(Byte), NEW a \in Nat, NEW b \in Nat, NEW k \in Nat,
           a + k <= b, b <= Len(wire)
    PROVE  /\ From(Window(wire, a, b), k + 1) = Window(wire, a + k, b)
           /\ SubSeq(Window(wire, a, b), 1, k) = Window(wire, a, a + k)
<1>1. a <= b /\ a + k \in Nat /\ a + k <= Len(wire) /\ a <= a + k /\ Len(wire) \in Nat
      /\ b - (a + k) = (b - a) - k /\ (a + k) - a = k /\ k <= b - a /\ b - a \in Nat
    OBVIOUS
<1> DEFINE s == Window(wire, a, b)
           t == Window(wire, a + k, b)
           u == Window(wire, a, a + k)
<1>2. s \in Seq(Byte) /\ Len(s) = b - a /\ \A i \in 1 .. b - a : s[i] = wire[a + i]
    BY <1>1, WindowBytes
<1>3. t \in Seq(Byte) /\ Len(t) = (b - a) - k /\ \A i \in 1 .. (b - a) - k : t[i] = wire[(a + k) + i]
    BY <1>1, WindowBytes
<1>4. u \in Seq(Byte) /\ Len(u) = k /\ \A i \in 1 .. k : u[i] = wire[a + i]
  <2>1. /\ u \in Seq(Byte) /\ Len(u) = (a + k) - a
        /\ \A i \in 1 .. (a + k) - a : u[i] = wire[a + i]
    BY <1>1, WindowBytes, Zenon
  <2> QED
    BY <1>1, <2>1, Zenon
<1> HIDE DEF s, t, u
<1>5. From(s, k + 1) = t
  <2>1. /\ From(s, k + 1) \in Seq(Byte) /\ Len(From(s, k + 1)) = (b - a) - k
        /\ \A i \in 1 .. (b - a) - k : From(s, k + 1)[i] = s[k + i]
    BY <1>1, <1>2, Part DEF From
  <2>2. ASSUME NEW i \in 1 .. (b - a) - k PROVE From(s, k + 1)[i] = t[i]
    <3>1. k + i \in 1 .. b - a /\ a + (k + i) = (a + k) + i
        BY <1>1
    <3>2. s[k + i] = wire[(a + k) + i]
        BY <1>2, <3>1
    <3> QED
        BY <1>3, <2>1, <3>2
  <2> QED
    BY <1>3, <2>1, <2>2, SeqEqual
<1>6. SubSeq(s, 1, k) = u
  <2>1. /\ SubSeq(s, 0 + 1, k) \in Seq(Byte) /\ Len(SubSeq(s, 0 + 1, k)) = k - 0
        /\ \A i \in 1 .. k - 0 : SubSeq(s, 0 + 1, k)[i] = s[0 + i]
    <3>1. 0 \in Nat /\ 0 <= k /\ k <= Len(s)
        BY <1>1, <1>2
    <3> QED
        BY <1>2, <3>1, Part, Zenon
  <2>2. /\ SubSeq(s, 1, k) \in Seq(Byte) /\ Len(SubSeq(s, 1, k)) = k
        /\ \A i \in 1 .. k : SubSeq(s, 1, k)[i] = s[i]
    BY <2>1
  <2>3. ASSUME NEW i \in 1 .. k PROVE SubSeq(s, 1, k)[i] = u[i]
    <3>1. i \in 1 .. b - a
        BY <1>1
    <3> QED
        BY <1>2, <1>4, <2>2, <3>1
  <2> QED
    BY <1>4, <2>2, <2>3, SeqEqual
<1> QED
    BY <1>5, <1>6 DEF s, t, u

\* Two parts next to each other.
LEMMA WindowJoin ==
    ASSUME wire \in Seq(Byte), NEW a \in Nat, NEW b \in Nat, NEW c \in Nat,
           a <= b, b <= c, c <= Len(wire)
    PROVE  Window(wire, a, b) \o Window(wire, b, c) = Window(wire, a, c)
<1>1. a <= c /\ b <= Len(wire) /\ b - a \in Nat /\ c - b \in Nat /\ (b - a) + (c - b) = c - a
    OBVIOUS
<1> DEFINE s == Window(wire, a, b)
           t == Window(wire, b, c)
           u == Window(wire, a, c)
<1>2. s \in Seq(Byte) /\ Len(s) = b - a /\ \A i \in 1 .. b - a : s[i] = wire[a + i]
    BY <1>1, WindowBytes
<1>3. t \in Seq(Byte) /\ Len(t) = c - b /\ \A i \in 1 .. c - b : t[i] = wire[b + i]
    BY <1>1, WindowBytes
<1>4. u \in Seq(Byte) /\ Len(u) = c - a /\ \A i \in 1 .. c - a : u[i] = wire[a + i]
    BY <1>1, WindowBytes
<1> HIDE DEF s, t, u
<1>5. /\ s \o t \in Seq(Byte) /\ Len(s \o t) = c - a
      /\ \A i \in 1 .. c - a : (s \o t)[i] = IF i <= b - a THEN s[i] ELSE t[i - (b - a)]
  <2>1. /\ s \o t \in Seq(Byte) /\ Len(s \o t) = Len(s) + Len(t)
        /\ \A i \in 1 .. Len(s) + Len(t) : (s \o t)[i] = IF i <= Len(s) THEN s[i] ELSE t[i - Len(s)]
    BY <1>2, <1>3, ConcatProperties
  <2>2. Len(s) + Len(t) = c - a
    BY <1>1, <1>2, <1>3
  <2>3. \A i \in 1 .. c - a : (s \o t)[i] = IF i <= Len(s) THEN s[i] ELSE t[i - Len(s)]
    BY <2>1, <2>2, Zenon
  <2> QED
    BY <1>2, <2>1, <2>2, <2>3
<1>6. ASSUME NEW i \in 1 .. c - a PROVE (s \o t)[i] = u[i]
  <2>1. CASE i <= b - a
    <3>1. i \in 1 .. b - a
        BY <1>1, <2>1
    <3> QED
        BY <1>2, <1>4, <1>5, <2>1, <3>1
  <2>2. CASE ~(i <= b - a)
    <3>1. i - (b - a) \in 1 .. c - b /\ b + (i - (b - a)) = a + i
        BY <1>1, <2>2
    <3>2. t[i - (b - a)] = wire[a + i]
        BY <1>3, <3>1
    <3> QED
        BY <1>4, <1>5, <2>2, <3>2
  <2> QED
    BY <2>1, <2>2
<1>7. s \o t = u
    BY <1>4, <1>5, <1>6, SeqEqual
<1> QED
    BY <1>7 DEF s, t, u

------------------------------------------------------------------------------
(* What consume knows                                                       *)

\* After c bytes of the body s, whose frames begin at S: h are the bytes of a frame header
\* so far, or r bytes of a message are missing.
AtHeader(s, S, h, c) ==
    \E p \in S :
        /\ c = p + Len(h) /\ h = Window(s, p, c)
        /\ h # <<>> => ~HasTrailerFlag(s[p + 1])

InMessage(s, S, r, c) ==
    \E p \in S :
        /\ ~HasTrailerFlag(s[p + 1])
        /\ p + completeHeaderLen <= c /\ c + r = p + completeHeaderLen + LengthAt(s, p)

Parsing(s, S, r, h, c) == IF r = 0 THEN AtHeader(s, S, h, c) ELSE h = <<>> /\ InMessage(s, S, r, c)

\* A message that ends in the body is a whole frame.
LEMMA MessageEnds ==
    ASSUME wire \in Seq(Byte), NEW c \in Nat, c <= Len(wire), InMessage(wire, Starts, 0, c)
    PROVE  AtHeader(wire, Starts, <<>>, c)
<1>1. PICK p \in Starts : /\ ~HasTrailerFlag(wire[p + 1]) /\ p + completeHeaderLen <= c
                          /\ c + 0 = p + completeHeaderLen + LengthAt(wire, p)
    BY DEF InMessage
<1>2. p \in Nat
    BY <1>1, Frames
<1>3. c = p + completeHeaderLen + LengthAt(wire, p) /\ p + completeHeaderLen <= Len(wire)
    BY <1>1, <1>2 DEF completeHeaderLen
<1>4. c \in Starts
    BY <1>1, <1>3, Frames DEF FrameAt
<1>5. Window(wire, c, c) = <<>> /\ Len(<<>>) = 0 /\ c + 0 = c
    BY WindowBytes
<1> QED
    BY <1>4, <1>5 DEF AtHeader

\* Bytes of the current message.
LEMMA MessageBytes ==
    ASSUME wire \in Seq(Byte), NEW r \in Nat, NEW h \in Seq(Byte), NEW c \in Nat, NEW l \in Nat,
           l <= r, c + l <= Len(wire), Parsing(wire, Starts, r, h, c)
    PROVE  Parsing(wire, Starts, r - l, h, c + l)
<1>1. CASE r = 0
  <2>1. r - l = r /\ c + l = c
    BY <1>1
  <2> QED
    BY <2>1
<1>2. CASE r # 0
  <2>1. h = <<>> /\ InMessage(wire, Starts, r, c)
    BY <1>2 DEF Parsing
  <2>2. PICK p \in Starts : /\ ~HasTrailerFlag(wire[p + 1]) /\ p + completeHeaderLen <= c
                            /\ c + r = p + completeHeaderLen + LengthAt(wire, p)
    BY <2>1 DEF InMessage
  <2>3. p \in Nat
    BY <2>2, Frames
  <2>4. p + completeHeaderLen <= c + l /\ (c + l) + (r - l) = c + r
    BY <2>2, <2>3 DEF completeHeaderLen
  <2>5. InMessage(wire, Starts, r - l, c + l)
    BY <2>2, <2>4 DEF InMessage
  <2>6. CASE r - l = 0
    <3>1. AtHeader(wire, Starts, <<>>, c + l)
        BY <2>5, <2>6, MessageEnds
    <3> QED
        BY <2>1, <2>6, <3>1 DEF Parsing
  <2>7. CASE r - l # 0
    BY <2>1, <2>5, <2>7 DEF Parsing
  <2> QED
    BY <2>6, <2>7
<1> QED
    BY <1>1, <1>2

\* Bytes of a frame header.
LEMMA HeaderBytes ==
    ASSUME wire \in Seq(Byte), NEW h \in Seq(Byte), NEW c \in Nat, NEW k \in Nat \ {0},
           Len(h) + k <= completeHeaderLen, c + k <= Len(wire), Parsing(wire, Starts, 0, h, c),
           h = <<>> => ~HasTrailerFlag(wire[c + 1])
    PROVE  LET hdr == h \o Window(wire, c, c + k)
           IN  /\ hdr \in Seq(Byte) /\ Len(hdr) = Len(h) + k
               /\ Len(hdr) = completeHeaderLen =>
                     Uint32(hdr) \in Nat /\ Parsing(wire, Starts, Uint32(hdr), <<>>, c + k)
               /\ Len(hdr) < completeHeaderLen => Parsing(wire, Starts, 0, hdr, c + k)
<1> DEFINE hdr == h \o Window(wire, c, c + k)
<1>1. PICK p \in Starts : /\ c = p + Len(h) /\ h = Window(wire, p, c)
                          /\ h # <<>> => ~HasTrailerFlag(wire[p + 1])
    BY DEF Parsing, AtHeader
<1>2. p \in Nat /\ Len(h) \in Nat /\ p <= c /\ c <= c + k /\ c + k \in Nat /\ Len(wire) \in Nat
  <2>1. p \in Nat
    BY <1>1, Frames
  <2>2. Len(h) \in Nat /\ Len(wire) \in Nat
    BY LenProperties
  <2>3. \A x, y \in Nat : x <= x + y /\ x + y \in Nat
    OBVIOUS
  <2>4. p <= p + Len(h) /\ c <= c + k /\ c + k \in Nat
    BY <2>1, <2>2, <2>3
  <2> QED
    BY <1>1, <2>1, <2>2, <2>4, Zenon
<1>3. ~HasTrailerFlag(wire[p + 1])
  <2>1. Len(<<>>) = 0 /\ p + 0 = p
    BY <1>2, EmptySeq
  <2> QED
    BY <1>1, <2>1, Zenon
<1>4. hdr = Window(wire, p, c + k)
  <2>1. Window(wire, p, c) \o Window(wire, c, c + k) = Window(wire, p, c + k)
    BY <1>2, WindowJoin
  <2> QED
    BY <1>1, <2>1, Zenon
<1> HIDE DEF hdr
<1>5. /\ hdr \in Seq(Byte) /\ Len(hdr) = (c + k) - p /\ \A i \in 1 .. (c + k) - p : hdr[i] = wire[p + i]
  <2>1. p <= c + k
    BY <1>2
  <2>2. /\ Window(wire, p, c + k) \in Seq(Byte) /\ Len(Window(wire, p, c + k)) = (c + k) - p
        /\ \A i \in 1 .. (c + k) - p : Window(wire, p, c + k)[i] = wire[p + i]
    BY <1>2, <2>1, WindowBytes
  <2> QED
    BY <1>4, <2>2, Zenon
<1>6. Len(hdr) = Len(h) + k /\ c + k = p + Len(hdr)
  <2>1. Len(hdr) = (c + k) - p /\ c = p + Len(h)
    BY <1>1, <1>5, Zenon
  <2>2. \A x, y, z \in Nat : ((x + y) + z) - x = y + z /\ (x + y) + z = x + (y + z)
    OBVIOUS
  <2> QED
    BY <1>2, <2>1, <2>2
<1>7. ASSUME Len(hdr) = completeHeaderLen
      PROVE  Uint32(hdr) \in Nat /\ Parsing(wire, Starts, Uint32(hdr), <<>>, c + k)
  <2>1. c + k = p + completeHeaderLen /\ p + completeHeaderLen <= Len(wire)
    BY <1>6, <1>7
  <2>2. LengthAt(wire, p) \in Nat
    BY <1>2, <2>1, LengthIsNumber
  <2>3. Uint32(hdr) = LengthAt(wire, p)
    <3>1. \A i \in 1 .. Len(wire) - p : From(wire, p + 1)[i] = wire[p + i]
      <4>1. p <= Len(wire)
        BY <1>2, <2>1 DEF completeHeaderLen
      <4> QED
        BY <1>2, <4>1, Part DEF From
    <3>2. \A i \in 1 .. completeHeaderLen : i \in 1 .. Len(wire) - p /\ i \in 1 .. (c + k) - p
        BY <1>2, <2>1 DEF completeHeaderLen
    <3>3. \A i \in 1 .. completeHeaderLen : hdr[i] = From(wire, p + 1)[i]
        BY <1>5, <3>1, <3>2, Zenon
    <3> QED
        BY <3>3, SameLength DEF LengthAt
  <2>4. InMessage(wire, Starts, Uint32(hdr), c + k)
    <3>1. c + k + Uint32(hdr) = p + completeHeaderLen + LengthAt(wire, p) /\ p + completeHeaderLen <= c + k
        BY <1>2, <2>1, <2>2, <2>3 DEF completeHeaderLen
    <3> QED
        BY <1>1, <1>3, <3>1 DEF InMessage
  <2>5. Uint32(hdr) = 0 => AtHeader(wire, Starts, <<>>, c + k)
    BY <1>2, <2>4, MessageEnds
  <2> QED
    BY <2>2, <2>3, <2>4, <2>5 DEF Parsing
<1>8. Parsing(wire, Starts, 0, hdr, c + k)
    BY <1>1, <1>3, <1>4, <1>6 DEF Parsing, AtHeader
<1> QED
    BY <1>5, <1>6, <1>7, <1>8 DEF hdr

\* What has been gone over is data; and where a trailers frame begins, the data ends.
LEMMA ParsedIsData ==
    ASSUME wire \in Seq(Byte), NEW r \in Nat, NEW h \in Seq(Byte), NEW c \in Nat, c <= Len(wire),
           Len(h) < completeHeaderLen, Parsing(wire, Starts, r, h, c)
    PROVE  /\ DataLen \in Nat /\ DataLen <= Len(wire) /\ c <= DataLen
           /\ r = 0 /\ h = <<>> /\ c < Len(wire) /\ HasTrailerFlag(wire[c + 1]) =>
                 HasTrailers /\ DataLen = c
<1>1. DataFrames \in Nat /\ DataFrames <= Len(wire) /\ Len(wire) \in Nat
    BY Frames
<1>2. DataLen \in Nat /\ DataLen <= Len(wire)
    BY <1>1 DEF DataLen
<1>3. c <= DataLen
  <2>1. CASE ~HasTrailers
    BY <2>1 DEF DataLen
  <2>2. CASE HasTrailers
    <3>0. DataLen = DataFrames
        BY <2>2 DEF DataLen
    <3>1. ASSUME NEW p \in Starts, ~HasTrailerFlag(wire[p + 1])
          PROVE  FrameAt(p) /\ p \in Nat /\ p + completeHeaderLen + LengthAt(wire, p) <= DataFrames
                 /\ LengthAt(wire, p) \in Nat
      <4>1. p \in Nat /\ (~FrameAt(p) => p = DataFrames)
        BY Frames
      <4>2. FrameAt(p)
        BY <2>2, <3>1, <4>1 DEF HasTrailers
      <4>3. LengthAt(wire, p) \in Nat
        BY <4>1, <4>2, LengthIsNumber DEF FrameAt
      <4> QED
        BY <4>1, <4>2, <4>3, Frames
    <3>2. CASE r = 0
      <4>1. PICK p \in Starts : /\ c = p + Len(h)
                                /\ h # <<>> => ~HasTrailerFlag(wire[p + 1])
        BY <3>2 DEF Parsing, AtHeader
      <4>2. p \in Nat /\ p <= DataFrames /\ Len(h) \in Nat
        BY <4>1, Frames
      <4>3. CASE h = <<>>
        BY <3>0, <4>1, <4>2, <4>3
      <4>4. CASE h # <<>>
        <5>1. p + completeHeaderLen + LengthAt(wire, p) <= DataFrames /\ LengthAt(wire, p) \in Nat
            BY <3>1, <4>1, <4>4
        <5> QED
            BY <1>1, <3>0, <4>1, <4>2, <5>1 DEF completeHeaderLen
      <4> QED
        BY <4>3, <4>4
    <3>3. CASE r # 0
      <4>1. PICK p \in Starts : /\ ~HasTrailerFlag(wire[p + 1])
                                /\ c + r = p + completeHeaderLen + LengthAt(wire, p)
        BY <3>3 DEF Parsing, InMessage
      <4>2. p + completeHeaderLen + LengthAt(wire, p) <= DataFrames
        BY <3>1, <4>1
      <4> QED
        BY <1>1, <3>0, <4>1, <4>2
    <3> QED
        BY <3>2, <3>3
  <2> QED
    BY <2>1, <2>2
<1>4. ASSUME r = 0, h = <<>>, c < Len(wire), HasTrailerFlag(wire[c + 1])
      PROVE  HasTrailers /\ DataLen = c
  <2>1. c \in Starts
    <3>1. PICK p \in Starts : c = p + Len(<<>>)
        BY <1>4 DEF Parsing, AtHeader
    <3>2. p \in Nat /\ Len(<<>>) = 0
        BY <3>1, Frames
    <3> QED
        BY <3>1, <3>2
  <2>2. c = DataFrames
    BY <1>4, <2>1, Frames DEF FrameAt
  <2> QED
    BY <1>4, <2>2 DEF HasTrailers, DataLen
<1> QED
    BY <1>2, <1>3, <1>4

------------------------------------------------------------------------------
(* The invariant                                                            *)

\* Where Read is, and what it has.
PhaseInv ==
    /\ err # NoErr => pc = "idle"
    /\ hasReadTrailers =>
          partialTrailerData = <<>> /\ pc \in {"idle", "upstream"} /\ (pc = "idle" => err # NoErr)
    /\ pc = "trailers" => partialTrailerData # <<>>
    /\ pc \in {"upstream", "consume", "return"} => partialTrailerData = <<>>
    /\ partialTrailerData # <<>> => hasReadData
    /\ ~hasReadData => pos = 0
    /\ ~hasReadTrailers /\ err # "extraData" => trailers = <<>>

\* Before the trailers: every byte of the body is delivered or in the chunk, and consume
\* knows where in a frame the first one is that it has not gone over.
ChunkInv ==
    /\ Len(delivered) + Len(chunk) = pos /\ chunk = Window(wire, Len(delivered), pos)
    /\ n + Len(buf) = Len(chunk) /\ buf = Window(wire, pos - Len(buf), pos)
    /\ Len(chunk) > 0 => hasReadData
    /\ upErr # NoErr => upErr = end /\ pos = Len(wire)

ReadingInv ==
    partialTrailerData = <<>> /\ ~hasReadTrailers =>
        /\ Len(buf) <= pos
        /\ Parsing(wire, Starts, currMessageRemaining, currPartialMsgHeader, pos - Len(buf))
        /\ pc \in {"idle", "upstream"} => buf = <<>> /\ Len(delivered) = pos
        /\ pc \in {"consume", "return"} => ChunkInv
        /\ pc = "return" /\ buf # <<>> =>
              /\ currMessageRemaining = 0 /\ currPartialMsgHeader = <<>>
              /\ HasTrailerFlag(wire[pos - Len(buf) + 1])

\* The trailers end in the middle of a line, and with them the body: the stored bytes are
\* all there is to try again with.
TriedInVain ==
    /\ UnfinishedLine /\ ~GoesOn /\ pos = Len(wire)
    /\ \E p \in DataLen .. Len(wire) : partialTrailerData = Window(wire, DataLen, p)

\* Bytes of the trailers frame are stored.
PendingInv ==
    partialTrailerData # <<>> =>
        /\ HasTrailers /\ Len(delivered) = DataLen
        /\ \/ err # NoErr
           \/ UnfinishedLine /\ GoesOn
           \/ TriedInVain
           \/ DataLen <= pos /\ partialTrailerData = Window(wire, DataLen, pos)

\* The trailers have been added.
DoneInv ==
    hasReadTrailers =>
        /\ HasTrailers /\ Len(delivered) = DataLen
        /\ \/ UnfinishedLine /\ GoesOn
           \/ /\ Len(TrailersFrame) >= completeHeaderLen
              /\ ~HasCompressedFlag(TrailersFrame[1])
              /\ ReadMIMEHeader(TrailersText, NoErr) = NoErr
              /\ trailers = <<TrailersText>>
              /\ err = NoErr => pos = DataLen + completeHeaderLen + Uint32(TrailersFrame)

Inv == TypeOK /\ PhaseInv /\ ReadingInv /\ PendingInv /\ DoneInv
          /\ PayloadExact /\ EOFMeansComplete /\ NoFalseAlarm

\* What the body says does not change.
LEMMA SameBody ==
    ASSUME wire' = wire
    PROVE  /\ Starts' = Starts /\ DataLen' = DataLen /\ HasTrailers' = HasTrailers
           /\ TrailersFrame' = TrailersFrame /\ TrailersText' = TrailersText
           /\ WellFormed' = WellFormed /\ UnfinishedLine' = UnfinishedLine /\ GoesOn' = GoesOn
<1>1. LastFrameEnd' = LastFrameEnd
    BY DEF LastFrameEnd
<1>2. Starts' = Starts
    BY <1>1 DEF Starts
<1>3. DataFrames' = DataFrames
    BY <1>1 DEF DataFrames
<1>4. HasTrailers' = HasTrailers
    BY <1>3 DEF HasTrailers
<1>5. DataLen' = DataLen
    BY <1>3, <1>4 DEF DataLen
<1>6. TrailersFrame' = TrailersFrame
    BY <1>5 DEF TrailersFrame
<1>7. TrailersText' = TrailersText
    BY <1>6 DEF TrailersText
<1>8. WellFormed' = WellFormed /\ UnfinishedLine' = UnfinishedLine /\ GoesOn' = GoesOn
    BY <1>4, <1>6, <1>7 DEF WellFormed, UnfinishedLine, GoesOn
<1> QED
    BY <1>2, <1>4, <1>5, <1>6, <1>7, <1>8

\* The trailers frame is the part of the body after the data.
LEMMA BodyParts ==
    ASSUME wire \in Seq(Byte)
    PROVE  /\ DataLen \in Nat /\ DataLen <= Len(wire) /\ Len(wire) \in Nat
           /\ TrailersFrame = Window(wire, DataLen, Len(wire))
           /\ TrailersFrame \in Seq(Byte) /\ Len(TrailersFrame) = Len(wire) - DataLen
           /\ HasTrailers => DataLen < Len(wire)
<1>1. DataFrames \in Nat /\ DataFrames <= Len(wire) /\ Len(wire) \in Nat
    BY Frames
<1>2. DataLen \in Nat /\ DataLen <= Len(wire)
    BY <1>1 DEF DataLen
<1>3. TrailersFrame = Window(wire, DataLen, Len(wire))
    BY DEF TrailersFrame, From, Window
<1>4. TrailersFrame \in Seq(Byte) /\ Len(TrailersFrame) = Len(wire) - DataLen
  <2>1. Len(wire) <= Len(wire)
    BY <1>1
  <2> QED
    BY <1>1, <1>2, <1>3, <2>1, WindowBytes
<1>5. HasTrailers => DataLen < Len(wire)
    BY DEF HasTrailers, DataLen
<1> QED
    BY <1>1, <1>2, <1>3, <1>4, <1>5

\* The results ReadMIMEHeader can have.
LEMMA Results ==
    ASSUME NEW d, NEW e
    PROVE  /\ ReadMIMEHeader(d, e) \in {"EOF", e, "trailers"}
           /\ e # NoErr => ReadMIMEHeader(d, e) \in {e, "trailers"}
BY DEF ReadMIMEHeader

\* The length of the payload of a frame that has a header.
LEMMA PayloadLength ==
    ASSUME NEW f \in Seq(Byte), Len(f) >= completeHeaderLen
    PROVE  /\ Uint32(f) \in Nat /\ Payload(f) \in Seq(Byte)
           /\ Len(Payload(f)) < Uint32(f) <=> Len(f) < completeHeaderLen + Uint32(f)
<1> DEFINE u == Uint32(f)
           last == Smaller(completeHeaderLen + u, Len(f))
<1>1. u \in Nat /\ Len(f) \in Nat
    BY FourBytes
<1> HIDE DEF u
<1>2. last \in Nat /\ completeHeaderLen <= last /\ last <= Len(f) /\ completeHeaderLen \in Nat
      /\ (last < completeHeaderLen + u <=> Len(f) < completeHeaderLen + u)
    BY <1>1 DEF Smaller, completeHeaderLen
<1> HIDE DEF last
<1>3. Payload(f) = SubSeq(f, completeHeaderLen + 1, last)
    BY DEF Payload, last, u
<1>4. Payload(f) \in Seq(Byte) /\ Len(Payload(f)) = last - completeHeaderLen
    BY <1>2, <1>3, Part
<1>5. Len(Payload(f)) < u <=> last < completeHeaderLen + u
    BY <1>1, <1>2, <1>4 DEF completeHeaderLen
<1> QED
    BY <1>1, <1>2, <1>4, <1>5 DEF u

\* What readFullTrailers has before it, and where it stops.
LEMMA Taken ==
    ASSUME TypeOK
    PROVE  /\ TrailersData \in Seq(Byte) /\ Len(TrailersData) \in Nat
           /\ Len(TrailersData) = Len(partialTrailerData) + (Len(wire) - pos)
           /\ Len(TrailersData) >= completeHeaderLen => FrameLen \in Nat
           /\ TrailersPos \in 0 .. Len(wire)
<1>1. pos \in Nat /\ pos <= Len(wire) /\ Len(wire) \in Nat /\ wire \in Seq(Byte)
      /\ partialTrailerData \in Seq(Byte) /\ Len(partialTrailerData) \in Nat
    BY DEF TypeOK
<1>2. From(wire, pos + 1) \in Seq(Byte) /\ Len(From(wire, pos + 1)) = Len(wire) - pos
    BY <1>1, Part DEF From
<1>3. TrailersData \in Seq(Byte) /\ Len(TrailersData) = Len(partialTrailerData) + (Len(wire) - pos)
  <2>1. PICK t : t = From(wire, pos + 1)
    OBVIOUS
  <2>2. TrailersData = partialTrailerData \o t /\ t \in Seq(Byte) /\ Len(t) = Len(wire) - pos
    BY <1>2, <2>1 DEF TrailersData
  <2>3. partialTrailerData \o t \in Seq(Byte) /\ Len(partialTrailerData \o t) = Len(partialTrailerData) + Len(t)
    BY <1>1, <2>2, ConcatProperties
  <2> QED
    BY <2>2, <2>3
<1>4. Len(TrailersData) >= completeHeaderLen => FrameLen \in Nat
    BY <1>3, FourBytes DEF FrameLen
<1>5. TrailersPos \in 0 .. Len(wire)
  <2>1. CASE Len(TrailersData) < completeHeaderLen
    BY <1>1, <2>1 DEF TrailersPos
  <2>2. CASE ~(Len(TrailersData) < completeHeaderLen)
    <3>1. FrameLen \in Nat
        BY <1>3, <1>4, <2>2 DEF completeHeaderLen
    <3>2. PICK last \in Nat : last = completeHeaderLen + FrameLen
        BY <3>1 DEF completeHeaderLen
    <3>3. TrailersPos = IF last <= Len(partialTrailerData) THEN pos
                        ELSE Smaller(pos + last - Len(partialTrailerData), Len(wire))
        BY <2>2, <3>2 DEF TrailersPos
    <3> QED
        BY <1>1, <3>2, <3>3 DEF Smaller
  <2> QED
    BY <2>1, <2>2
<1> QED
    BY <1>3, <1>4, <1>5

\* While the stored bytes are the ones since the trailers frame began, readFullTrailers
\* has that frame before it.
LEMMA FrameBefore ==
    ASSUME TypeOK, DataLen <= pos, partialTrailerData = Window(wire, DataLen, pos)
    PROVE  /\ TrailersData = TrailersFrame
           /\ FrameLen = Uint32(TrailersFrame) /\ TrailersPayload = TrailersText
           /\ Len(partialTrailerData) = pos - DataLen
<1>1. pos \in Nat /\ pos <= Len(wire) /\ wire \in Seq(Byte) /\ Len(wire) \in Nat /\ Len(wire) <= Len(wire)
    BY DEF TypeOK
<1>2. DataLen \in Nat /\ TrailersFrame = Window(wire, DataLen, Len(wire))
    BY <1>1, BodyParts
<1>3. Window(wire, DataLen, pos) \o Window(wire, pos, Len(wire)) = Window(wire, DataLen, Len(wire))
    BY <1>1, <1>2, WindowJoin
<1>4. From(wire, pos + 1) = Window(wire, pos, Len(wire))
    BY DEF From, Window
<1>5. TrailersData = TrailersFrame
    BY <1>2, <1>3, <1>4 DEF TrailersData
<1>6. FrameLen = Uint32(TrailersFrame) /\ TrailersPayload = TrailersText
    BY <1>5 DEF FrameLen, TrailersPayload, TrailersText
<1>7. Len(partialTrailerData) = pos - DataLen
    BY <1>1, <1>2, WindowBytes
<1> QED
    BY <1>5, <1>6, <1>7

\* With nothing but the stored bytes left, readFullTrailers fails as it did before.
LEMMA InVain ==
    ASSUME TypeOK, TriedInVain
    PROVE  TrailersError # NoErr /\ TrailersPos = Len(wire)
<1>1. wire \in Seq(Byte) /\ Len(wire) \in Nat /\ pos = Len(wire) /\ end \in {"EOF", "reset"}
      /\ UnfinishedLine /\ ~GoesOn
    BY DEF TypeOK, TriedInVain
<1>2. /\ DataLen \in Nat /\ TrailersFrame = Window(wire, DataLen, Len(wire)) /\ TrailersFrame \in Seq(Byte)
      /\ Len(TrailersFrame) = Len(wire) - DataLen /\ DataLen <= Len(wire)
    BY <1>1, BodyParts
<1>3. PICK p \in DataLen .. Len(wire) : partialTrailerData = Window(wire, DataLen, p)
    BY DEF TriedInVain
<1>4. p \in Nat /\ DataLen <= p /\ p <= Len(wire)
    BY <1>1, <1>2
<1>5. /\ partialTrailerData \in Seq(Byte) /\ Len(partialTrailerData) = p - DataLen
      /\ \A i \in 1 .. p - DataLen : partialTrailerData[i] = wire[DataLen + i]
    BY <1>1, <1>2, <1>3, <1>4, WindowBytes
<1>6. \A i \in 1 .. Len(wire) - DataLen : TrailersFrame[i] = wire[DataLen + i]
  <2>1. Len(wire) <= Len(wire)
    BY <1>1
  <2> QED
    BY <1>1, <1>2, <2>1, WindowBytes
<1>7. TrailersData = partialTrailerData
  <2>1. Window(wire, pos, Len(wire)) = <<>>
    BY <1>1, WindowBytes
  <2>2. From(wire, pos + 1) = <<>>
    BY <2>1 DEF From, Window
  <2> QED
    BY <1>5, <2>2, ConcatEmptySeq DEF TrailersData
<1>8. TrailersPos = Len(wire)
  <2>1. TrailersData \in Seq(Byte) /\ (~(Len(TrailersData) < completeHeaderLen) => FrameLen \in Nat)
    BY <1>5, <1>7, FourBytes DEF FrameLen, completeHeaderLen
  <2>2. CASE Len(TrailersData) < completeHeaderLen
    BY <2>2 DEF TrailersPos
  <2>3. CASE ~(Len(TrailersData) < completeHeaderLen)
    <3>1. PICK last \in Nat : last = completeHeaderLen + FrameLen
        BY <2>1, <2>3 DEF completeHeaderLen
    <3>2. TrailersPos = IF last <= Len(partialTrailerData) THEN pos
                        ELSE Smaller(pos + last - Len(partialTrailerData), Len(wire))
        BY <2>3, <3>1 DEF TrailersPos
    <3>3. PICK x \in Nat : x = Len(partialTrailerData)
        BY <1>5
    <3>4. last <= x \/ pos + last - x > Len(wire)
        BY <1>1, <3>1, <3>3
    <3> QED
        BY <1>1, <3>2, <3>3, <3>4 DEF Smaller
  <2> QED
    BY <2>2, <2>3
<1>9. CASE Len(TrailersData) < completeHeaderLen
  <2>1. TrailersError \in {"unexpectedEOF", "reset"}
    BY <1>9 DEF TrailersError
  <2> QED
    BY <1>8, <2>1 DEF NoErr
<1>10. CASE ~(Len(TrailersData) < completeHeaderLen) /\ HasCompressedFlag(TrailersData[1])
    BY <1>8, <1>10 DEF TrailersError, NoErr
<1>11. CASE /\ ~(Len(TrailersData) < completeHeaderLen) /\ ~HasCompressedFlag(TrailersData[1])
            /\ Len(TrailersPayload) < FrameLen
    BY <1>8, <1>11 DEF TrailersError, NoErr
<1>12. CASE /\ ~(Len(TrailersData) < completeHeaderLen) /\ ~HasCompressedFlag(TrailersData[1])
            /\ ~(Len(TrailersPayload) < FrameLen)
  <2>1. completeHeaderLen <= p - DataLen /\ completeHeaderLen <= Len(partialTrailerData)
    BY <1>2, <1>4, <1>5, <1>7, <1>12 DEF completeHeaderLen
  <2>2. FrameLen = Uint32(TrailersFrame)
    <3>1. \A i \in 1 .. completeHeaderLen : i \in 1 .. p - DataLen /\ i \in 1 .. Len(wire) - DataLen
        BY <1>1, <1>2, <1>4, <2>1 DEF completeHeaderLen
    <3>2. \A i \in 1 .. completeHeaderLen : partialTrailerData[i] = TrailersFrame[i]
        BY <1>5, <1>6, <3>1, Zenon
    <3>3. Uint32(partialTrailerData) = Uint32(TrailersFrame)
        BY <3>2, SameLength
    <3> QED
        BY <1>7, <3>3 DEF FrameLen
  <2>3. FrameLen \in Nat /\ ~(p - DataLen < completeHeaderLen + FrameLen)
    <3>1. Len(partialTrailerData) >= completeHeaderLen
        BY <1>5, <2>1 DEF completeHeaderLen
    <3>2. /\ Uint32(partialTrailerData) \in Nat
          /\ Len(Payload(partialTrailerData)) < Uint32(partialTrailerData)
                <=> Len(partialTrailerData) < completeHeaderLen + Uint32(partialTrailerData)
        BY <1>5, <3>1, PayloadLength
    <3> QED
        BY <1>5, <1>7, <1>12, <3>2 DEF FrameLen, TrailersPayload
  <2>4. ~(Len(wire) - DataLen > completeHeaderLen + FrameLen)
    BY <1>1, <1>2, <2>2 DEF GoesOn
  <2>5. p = Len(wire)
    BY <1>1, <1>2, <1>4, <2>3, <2>4 DEF completeHeaderLen
  <2>6. TrailersPayload = TrailersText
    BY <1>2, <1>3, <1>7, <2>5 DEF TrailersPayload, TrailersText
  <2>7. ReadMIMEHeader(TrailersPayload, NoErr) = "EOF"
    BY <1>1, <2>6 DEF UnfinishedLine
  <2>8. TrailersError = "EOF"
    BY <1>12, <2>7 DEF TrailersError
  <2> QED
    BY <1>8, <2>8 DEF NoErr
<1> QED
    BY <1>9, <1>10, <1>11, <1>12

------------------------------------------------------------------------------
(* Every step keeps the invariant                                           *)

\* A new reader has read nothing.
LEMMA InvInit == Init => Inv
<1> SUFFICES ASSUME Init PROVE Inv
    OBVIOUS
<1>0. /\ end \in {"EOF", "reset"} /\ pos = 0 /\ pc = "idle" /\ size = 0 /\ chunk = <<>> /\ upErr = NoErr
      /\ buf = <<>> /\ n = 0 /\ currMessageRemaining = 0 /\ currPartialMsgHeader = <<>>
      /\ partialTrailerData = <<>> /\ hasReadData = FALSE /\ hasReadTrailers = FALSE /\ err = NoErr
      /\ trailers = <<>> /\ delivered = <<>>
    BY DEF Init
<1>1. wire \in Seq(Byte) /\ Len(wire) \in Nat
    BY WiresAssumption DEF Init
<1>2. TypeOK
  <2>1. 0 \in 0 .. Len(wire) /\ 0 \in 0 .. 0 /\ 0 < 5 /\ 0 \in Nat
    BY <1>1
  <2>2. Len(<<>>) = 0 /\ <<>> \in Seq(Byte) /\ <<>> \in Seq(Seq(Byte))
    BY EmptySeq
  <2>3. n \in 0 .. Len(chunk) /\ Len(currPartialMsgHeader) < 5
    BY <1>0, <2>1, <2>2, Zenon
  <2> QED
    BY <1>0, <1>1, <2>1, <2>2, <2>3, Zenon DEF TypeOK, NoErr, completeHeaderLen, Errors
<1>3. 0 \in Starts /\ DataLen \in Nat /\ 0 <= Len(wire)
    BY <1>1, Frames, BodyParts
<1>4. AtHeader(wire, Starts, <<>>, 0)
  <2>1. Window(wire, 0, 0) = <<>> /\ Len(<<>>) = 0 /\ 0 + 0 = 0
    BY <1>1, <1>3, WindowBytes
  <2> QED
    BY <1>3, <2>1 DEF AtHeader
<1>5. ReadingInv
  <2>1. Len(<<>>) = 0 /\ 0 <= 0 /\ 0 - 0 = 0
    OBVIOUS
  <2>2. Len(buf) = 0 /\ Len(buf) <= pos /\ pos - Len(buf) = 0 /\ Len(delivered) = pos
    BY <1>0, <2>1, Zenon
  <2> QED
    BY <1>0, <1>4, <2>2 DEF ReadingInv, Parsing
<1>6. PhaseInv /\ PendingInv /\ DoneInv /\ EOFMeansComplete /\ NoFalseAlarm
    BY DEF Init, PhaseInv, PendingInv, DoneInv, EOFMeansComplete, NoFalseAlarm, NoErr
<1>7. PayloadExact
  <2>1. Len(delivered) = 0 /\ delivered = <<>>
    BY DEF Init
  <2>2. Window(wire, 0, 0) = <<>>
    BY <1>1, <1>3, WindowBytes
  <2> QED
    BY <1>3, <2>1, <2>2 DEF PayloadExact, Window
<1> QED
    BY <1>2, <1>5, <1>6, <1>7 DEF Inv

\* Read begins: stored bytes of the trailers come first.
LEMMA ReadStartStep ==
    ASSUME Inv, ReadStart
    PROVE  Inv'
<1>1. /\ wire' = wire /\ end' = end /\ pos' = pos /\ chunk' = chunk /\ upErr' = upErr /\ buf' = buf
      /\ n' = n /\ currMessageRemaining' = currMessageRemaining
      /\ currPartialMsgHeader' = currPartialMsgHeader /\ partialTrailerData' = partialTrailerData
      /\ hasReadData' = hasReadData /\ hasReadTrailers' = hasReadTrailers /\ err' = err
      /\ trailers' = trailers /\ delivered' = delivered
      /\ pc = "idle" /\ err = NoErr /\ size' \in Nat
      /\ pc' = IF partialTrailerData = <<>> THEN "upstream" ELSE "trailers"
    BY ReadSizesAssumption DEF ReadStart, bodyVars, frameVars
<1>2. TypeOK'
    BY <1>1 DEF Inv, TypeOK
<1>3. PhaseInv'
    BY <1>1 DEF Inv, PhaseInv
<1>4. ReadingInv'
    BY <1>1, SameBody DEF Inv, ReadingInv
<1>5. PendingInv' /\ DoneInv' /\ PayloadExact' /\ EOFMeansComplete' /\ NoFalseAlarm'
    BY <1>1, SameBody DEF Inv, PendingInv, TriedInVain, DoneInv, PayloadExact, EOFMeansComplete, NoFalseAlarm
<1> QED
    BY <1>2, <1>3, <1>4, <1>5 DEF Inv

\* The stored bytes and the rest of the body are the trailers frame: it has been read
\* completely, and the body goes on right after it.
LEMMA ReadTrailersStep ==
    ASSUME Inv, ReadTrailers
    PROVE  Inv'
<1>1. /\ wire' = wire /\ end' = end /\ size' = size /\ chunk' = chunk /\ upErr' = upErr /\ buf' = buf
      /\ n' = n /\ currMessageRemaining' = currMessageRemaining
      /\ currPartialMsgHeader' = currPartialMsgHeader
      /\ hasReadData' = hasReadData /\ delivered' = delivered
      /\ pc = "trailers" /\ TrailersError = NoErr
      /\ trailers' = Append(trailers, TrailersPayload) /\ pos' = TrailersPos
    BY DEF ReadTrailers, bodyVars, stepVars, frameVars
<1>2. /\ TypeOK /\ err = NoErr /\ hasReadTrailers = FALSE /\ partialTrailerData # <<>>
      /\ hasReadData = TRUE /\ trailers = <<>> /\ HasTrailers /\ Len(delivered) = DataLen /\ PayloadExact
  <2>1. TypeOK /\ PhaseInv /\ PendingInv /\ PayloadExact
    BY DEF Inv
  <2>2. partialTrailerData # <<>> /\ err = NoErr /\ ~hasReadTrailers /\ hasReadData
    BY <1>1, <2>1 DEF PhaseInv
  <2>3. hasReadTrailers = FALSE /\ hasReadData = TRUE
    BY <2>1, <2>2 DEF TypeOK
  <2>4. trailers = <<>>
    BY <2>1, <2>2 DEF PhaseInv, NoErr
  <2> QED
    BY <2>1, <2>2, <2>3, <2>4 DEF PendingInv
<1>3. /\ Len(TrailersData) >= completeHeaderLen /\ TrailersData \in Seq(Byte)
      /\ ~HasCompressedFlag(TrailersData[1])
      /\ ~(Len(TrailersPayload) < FrameLen)
      /\ ReadMIMEHeader(TrailersPayload, NoErr) = NoErr
  <2>1. Len(TrailersData) \in Nat /\ TrailersData \in Seq(Byte)
    BY <1>2, Taken
  <2>2. ~(Len(TrailersData) < completeHeaderLen)
    BY <1>1 DEF TrailersError, NoErr
  <2>3. ~HasCompressedFlag(TrailersData[1])
    BY <1>1, <2>2 DEF TrailersError, NoErr
  <2>4. ~(Len(TrailersPayload) < FrameLen)
    BY <1>1, <2>2, <2>3 DEF TrailersError, NoErr
  <2>5. ReadMIMEHeader(TrailersPayload, NoErr) = NoErr
    BY <1>1, <2>2, <2>3, <2>4 DEF TrailersError
  <2> QED
    BY <2>1, <2>2, <2>3, <2>4, <2>5 DEF completeHeaderLen
<1>4. /\ TrailersPayload \in Seq(Byte) /\ FrameLen \in Nat
      /\ completeHeaderLen + FrameLen <= Len(TrailersData)
  <2>1. /\ Uint32(TrailersData) \in Nat /\ Payload(TrailersData) \in Seq(Byte)
        /\ Len(Payload(TrailersData)) < Uint32(TrailersData)
              <=> Len(TrailersData) < completeHeaderLen + Uint32(TrailersData)
    BY <1>3, PayloadLength
  <2>2. ~(Len(TrailersData) < completeHeaderLen + FrameLen) /\ TrailersPayload \in Seq(Byte) /\ FrameLen \in Nat
    BY <1>3, <2>1 DEF FrameLen, TrailersPayload
  <2> QED
    BY <1>3, <2>2 DEF completeHeaderLen
<1>5. trailers' = <<TrailersPayload>> /\ trailers' \in Seq(Seq(Byte))
    BY <1>1, <1>2, <1>4
<1>6. pos' \in 0 .. Len(wire)
    BY <1>1, <1>2, Taken
\* What has been read is the trailers frame, unless that ends in the middle of a line and
\* there is more to read.
<1>7. ASSUME ~(UnfinishedLine /\ GoesOn)
      PROVE  /\ Len(TrailersFrame) >= completeHeaderLen /\ ~HasCompressedFlag(TrailersFrame[1])
             /\ ReadMIMEHeader(TrailersText, NoErr) = NoErr
             /\ trailers' = <<TrailersText>>
             /\ ExtraBytes => ~WellFormed
             /\ ~ExtraBytes => pos' = DataLen + completeHeaderLen + Uint32(TrailersFrame)
  <2>1. DataLen <= pos /\ partialTrailerData = Window(wire, DataLen, pos)
    <3>1. ~TriedInVain
        BY <1>1, <1>2, InVain
    <3> QED
        BY <1>2, <1>7, <3>1 DEF Inv, PendingInv
  <2>2. /\ TrailersData = TrailersFrame /\ FrameLen = Uint32(TrailersFrame)
        /\ TrailersPayload = TrailersText /\ Len(partialTrailerData) = pos - DataLen
    BY <1>2, <2>1, FrameBefore
  <2>3. /\ Len(TrailersFrame) >= completeHeaderLen /\ ~HasCompressedFlag(TrailersFrame[1])
        /\ ReadMIMEHeader(TrailersText, NoErr) = NoErr /\ trailers' = <<TrailersText>>
    BY <1>3, <1>5, <2>2
  <2>4. wire \in Seq(Byte) /\ pos \in Nat /\ pos <= Len(wire)
    BY <1>2 DEF TypeOK
  <2>5. DataLen \in Nat /\ Len(wire) \in Nat /\ Len(TrailersFrame) = Len(wire) - DataLen
    BY <2>4, BodyParts
  <2>6. ExtraBytes => Len(TrailersFrame) # completeHeaderLen + Uint32(TrailersFrame)
    BY <1>4, <2>2, <2>4, <2>5 DEF ExtraBytes, completeHeaderLen
  <2>7. ~ExtraBytes => pos' = DataLen + completeHeaderLen + FrameLen
    <3>1. PICK last \in Nat : last = completeHeaderLen + FrameLen
        BY <1>4 DEF completeHeaderLen
    <3>2. ~(Len(TrailersData) < completeHeaderLen)
        BY <1>3 DEF completeHeaderLen
    <3>3. TrailersPos = IF last <= Len(partialTrailerData) THEN pos
                        ELSE Smaller(pos + last - Len(partialTrailerData), Len(wire))
        BY <3>1, <3>2 DEF TrailersPos
    <3>4. last <= Len(wire) - DataLen /\ (~ExtraBytes => ~(pos - DataLen > last))
        BY <1>4, <2>2, <2>5, <3>1 DEF ExtraBytes
    <3>5. DataLen + completeHeaderLen + FrameLen = DataLen + last
        BY <1>4, <2>5, <3>1 DEF completeHeaderLen
    <3>6. ~(pos - DataLen > last) => TrailersPos = DataLen + last
      <4>1. PICK d \in Nat, q \in Nat, w \in Nat : d = DataLen /\ q = pos /\ w = Len(wire)
        BY <2>4, <2>5
      <4>2. /\ d <= q /\ q <= w /\ last <= w - d
            /\ TrailersPos = IF last <= q - d THEN q ELSE Smaller(q + last - (q - d), w)
        BY <2>1, <2>2, <2>4, <3>3, <3>4, <4>1, Zenon
      <4>3. ~(q - d > last) => TrailersPos = d + last
        BY <3>1, <4>2 DEF Smaller
      <4> QED
        BY <4>1, <4>3, Zenon
    <3> QED
        BY <1>1, <3>4, <3>5, <3>6
  <2> QED
    BY <2>2, <2>3, <2>6, <2>7 DEF WellFormed
<1>8. UnfinishedLine => ~WellFormed
    BY DEF UnfinishedLine, WellFormed, NoErr
<1>9. /\ DataLen' = DataLen /\ HasTrailers' = HasTrailers /\ TrailersFrame' = TrailersFrame
      /\ TrailersText' = TrailersText /\ WellFormed' = WellFormed
      /\ UnfinishedLine' = UnfinishedLine /\ GoesOn' = GoesOn
    BY <1>1, SameBody
<1>10. CASE ExtraBytes
  <2>1. err' = "extraData" /\ pc' = "idle" /\ partialTrailerData' = partialTrailerData
        /\ hasReadTrailers' = FALSE
    BY <1>2, <1>10 DEF ReadTrailers
  <2>2. TypeOK'
    BY <1>1, <1>2, <1>5, <1>6, <2>1 DEF TypeOK, Errors
  <2>3. PhaseInv'
    BY <1>1, <1>2, <2>1 DEF PhaseInv
  <2>4. ReadingInv' /\ PendingInv' /\ DoneInv'
    BY <1>1, <1>2, <1>9, <2>1 DEF ReadingInv, PendingInv, DoneInv, NoErr
  <2>5. PayloadExact' /\ EOFMeansComplete' /\ NoFalseAlarm'
    BY <1>1, <1>2, <1>7, <1>8, <1>9, <1>10, <2>1 DEF PayloadExact, EOFMeansComplete, NoFalseAlarm
  <2> QED
    BY <2>2, <2>3, <2>4, <2>5 DEF Inv
<1>11. CASE ~ExtraBytes
  <2>1. err' = NoErr /\ pc' = "upstream" /\ partialTrailerData' = <<>> /\ hasReadTrailers' = TRUE
    BY <1>2, <1>11 DEF ReadTrailers
  <2>2. TypeOK'
    BY <1>1, <1>2, <1>5, <1>6, <2>1 DEF TypeOK, Errors
  <2>3. PhaseInv'
    BY <1>1, <1>2, <2>1 DEF PhaseInv
  <2>4. ReadingInv' /\ PendingInv'
    BY <2>1 DEF ReadingInv, PendingInv
  <2>5. DoneInv'
    BY <1>1, <1>2, <1>7, <1>9, <1>11, <2>1 DEF DoneInv
  <2>6. PayloadExact' /\ EOFMeansComplete' /\ NoFalseAlarm'
    BY <1>1, <1>2, <1>9, <2>1 DEF PayloadExact, EOFMeansComplete, NoFalseAlarm, NoErr
  <2> QED
    BY <2>2, <2>3, <2>4, <2>5, <2>6 DEF Inv
<1> QED
    BY <1>10, <1>11

\* The trailers could not be read: the body is not correct, and if they end in the middle of
\* a line the error is dropped.
LEMMA ReadTrailersErrStep ==
    ASSUME Inv, ReadTrailersErr
    PROVE  Inv'
<1>1. /\ wire' = wire /\ end' = end /\ size' = size /\ chunk' = chunk /\ upErr' = upErr /\ buf' = buf
      /\ n' = n /\ currMessageRemaining' = currMessageRemaining
      /\ currPartialMsgHeader' = currPartialMsgHeader /\ partialTrailerData' = partialTrailerData
      /\ hasReadData' = hasReadData /\ hasReadTrailers' = hasReadTrailers
      /\ trailers' = trailers /\ delivered' = delivered
      /\ pc = "trailers" /\ TrailersError # NoErr /\ pos' = TrailersPos /\ pc' = "idle"
      /\ err' = AdjustResult(0, TrailersError)
    BY DEF ReadTrailersErr, bodyVars, stepVars, frameVars
<1>2. /\ TypeOK /\ err = NoErr /\ hasReadTrailers = FALSE /\ partialTrailerData # <<>>
      /\ hasReadData = TRUE /\ trailers = <<>> /\ HasTrailers /\ Len(delivered) = DataLen /\ PayloadExact
  <2>1. TypeOK /\ PhaseInv /\ PendingInv /\ PayloadExact
    BY DEF Inv
  <2>2. partialTrailerData # <<>> /\ err = NoErr /\ ~hasReadTrailers /\ hasReadData
    BY <1>1, <2>1 DEF PhaseInv
  <2>3. hasReadTrailers = FALSE /\ hasReadData = TRUE
    BY <2>1, <2>2 DEF TypeOK
  <2>4. trailers = <<>>
    BY <2>1, <2>2 DEF PhaseInv, NoErr
  <2> QED
    BY <2>1, <2>2, <2>3, <2>4 DEF PendingInv
<1>3. err' = IF TrailersError = "EOF" THEN NoErr ELSE TrailersError
    BY <1>1, <1>2 DEF AdjustResult
<1> DEFINE e == IF Len(TrailersPayload) < FrameLen /\ end # "EOF" THEN end ELSE NoErr
           result == ReadMIMEHeader(TrailersPayload, e)
<1>4. /\ TrailersError \in {"unexpectedEOF", "reset", "trailers", "EOF"}
      /\ TrailersError = "EOF" =>
            /\ ~(Len(TrailersData) < completeHeaderLen) /\ ~HasCompressedFlag(TrailersData[1])
            /\ ReadMIMEHeader(TrailersPayload, NoErr) = "EOF"
  <2>1. ASSUME ~(Len(TrailersData) < completeHeaderLen), ~HasCompressedFlag(TrailersData[1])
        PROVE  TrailersError = IF result = NoErr /\ Len(TrailersPayload) < FrameLen THEN "trailers" ELSE result
    BY <2>1 DEF TrailersError
  <2>2. /\ result \in {"EOF", e, "trailers"} /\ (e # NoErr => result \in {e, "trailers"})
    BY Results
  <2>3. e \in {NoErr, "reset"} /\ end \in {"EOF", "reset"}
    BY <1>2 DEF TypeOK
  <2>4. e = NoErr => result = ReadMIMEHeader(TrailersPayload, NoErr)
    OBVIOUS
  <2> HIDE DEF e, result
  <2>5. Len(TrailersData) < completeHeaderLen => TrailersError \in {"unexpectedEOF", "reset"}
    BY DEF TrailersError
  <2>6. ~(Len(TrailersData) < completeHeaderLen) /\ HasCompressedFlag(TrailersData[1]) => TrailersError = "trailers"
    BY DEF TrailersError
  <2>7. result = "EOF" => e = NoErr
    BY <2>2, <2>3 DEF NoErr
  <2> QED
    BY <1>1, <2>1, <2>2, <2>3, <2>4, <2>5, <2>6, <2>7 DEF NoErr
<1>5. ASSUME ~UnfinishedLine
      PROVE  TrailersError # "EOF" /\ ~WellFormed
  <2>1. DataLen <= pos /\ partialTrailerData = Window(wire, DataLen, pos)
    BY <1>2, <1>5 DEF Inv, PendingInv, TriedInVain
  <2>2. /\ TrailersData = TrailersFrame /\ FrameLen = Uint32(TrailersFrame)
        /\ TrailersPayload = TrailersText /\ Len(partialTrailerData) = pos - DataLen
    BY <1>2, <2>1, FrameBefore
  <2>3. TrailersFrame \in Seq(Byte) /\ Len(TrailersFrame) \in Nat
    BY <1>2, <2>2, Taken
  <2>4. TrailersError # "EOF"
    BY <1>2, <1>4, <1>5, <2>2, <2>3 DEF UnfinishedLine, completeHeaderLen
  <2>5. ASSUME WellFormed PROVE FALSE
    <3>1. /\ Len(TrailersFrame) >= completeHeaderLen /\ ~HasCompressedFlag(TrailersFrame[1])
          /\ Len(TrailersFrame) = completeHeaderLen + Uint32(TrailersFrame)
          /\ ReadMIMEHeader(TrailersText, NoErr) = NoErr
        BY <2>5 DEF WellFormed
    <3>2. ~(Len(Payload(TrailersFrame)) < Uint32(TrailersFrame)) /\ ~(Len(TrailersFrame) < completeHeaderLen)
      <4>1. /\ Uint32(TrailersFrame) \in Nat
            /\ Len(Payload(TrailersFrame)) < Uint32(TrailersFrame)
                  <=> Len(TrailersFrame) < completeHeaderLen + Uint32(TrailersFrame)
        BY <2>3, <3>1, PayloadLength
      <4> QED
        BY <2>3, <3>1, <4>1 DEF completeHeaderLen
    <3>3. TrailersError = NoErr
        BY <2>2, <3>1, <3>2 DEF TrailersError, TrailersText
    <3> QED
        BY <1>1, <3>3
  <2> QED
    BY <2>4, <2>5
<1>6. UnfinishedLine => ~WellFormed
    BY DEF UnfinishedLine, WellFormed, NoErr
<1>7. pos' \in 0 .. Len(wire)
    BY <1>1, <1>2, Taken
<1>8. /\ DataLen' = DataLen /\ HasTrailers' = HasTrailers /\ TrailersFrame' = TrailersFrame
      /\ TrailersText' = TrailersText /\ WellFormed' = WellFormed
      /\ UnfinishedLine' = UnfinishedLine /\ GoesOn' = GoesOn
    BY <1>1, SameBody
<1>9. TypeOK'
    BY <1>1, <1>2, <1>3, <1>4, <1>7 DEF TypeOK, Errors
<1>10. PhaseInv'
    BY <1>1, <1>2 DEF PhaseInv
<1>11. ReadingInv' /\ DoneInv'
    BY <1>1, <1>2 DEF ReadingInv, DoneInv
<1>12. PendingInv'
  <2>1. ASSUME TrailersError = "EOF", ~GoesOn PROVE TriedInVain'
    <3>1. UnfinishedLine
        BY <1>5, <2>1
    <3>2. DataLen \in Nat /\ DataLen <= Len(wire) /\ Len(wire) \in Nat /\ Len(TrailersFrame) = Len(wire) - DataLen
          /\ pos \in Nat /\ pos <= Len(wire)
        BY <1>2, BodyParts DEF TypeOK
    <3>3. TriedInVain \/ (DataLen <= pos /\ partialTrailerData = Window(wire, DataLen, pos))
        BY <1>2, <2>1 DEF Inv, PendingInv
    <3>4. CASE TriedInVain
      <4>1. TrailersPos = Len(wire) /\ \E p \in DataLen .. Len(wire) : partialTrailerData = Window(wire, DataLen, p)
        BY <1>2, <3>4, InVain DEF TriedInVain
      <4> QED
        BY <1>1, <1>8, <2>1, <3>1, <4>1 DEF TriedInVain
    <3>5. CASE DataLen <= pos /\ partialTrailerData = Window(wire, DataLen, pos)
      <4>1. /\ TrailersData = TrailersFrame /\ FrameLen = Uint32(TrailersFrame)
            /\ Len(partialTrailerData) = pos - DataLen
        BY <1>2, <3>5, FrameBefore
      <4>2. ~(Len(TrailersData) < completeHeaderLen) /\ FrameLen \in Nat
        BY <1>2, <1>4, <2>1, Taken DEF completeHeaderLen
      <4>3. PICK last \in Nat : last = completeHeaderLen + FrameLen
        BY <4>2 DEF completeHeaderLen
      <4>4. TrailersPos = IF last <= Len(partialTrailerData) THEN pos
                          ELSE Smaller(pos + last - Len(partialTrailerData), Len(wire))
        BY <4>2, <4>3 DEF TrailersPos
      <4>5. ~(Len(wire) - DataLen > last)
        BY <2>1, <3>2, <4>1, <4>3 DEF GoesOn
      <4>6. TrailersPos = Len(wire)
        BY <3>2, <3>5, <4>1, <4>3, <4>4, <4>5 DEF Smaller
      <4>7. pos \in DataLen .. Len(wire)
        BY <3>2, <3>5
      <4> QED
        BY <1>1, <1>8, <2>1, <3>1, <3>5, <4>6, <4>7 DEF TriedInVain
    <3> QED
        BY <3>3, <3>4, <3>5
  <2> QED
    BY <1>1, <1>2, <1>3, <1>4, <1>5, <1>8, <2>1 DEF PendingInv, NoErr
<1>13. PayloadExact' /\ EOFMeansComplete' /\ NoFalseAlarm'
    BY <1>1, <1>2, <1>3, <1>4, <1>5, <1>6, <1>8 DEF PayloadExact, EOFMeansComplete, NoFalseAlarm, NoErr
<1> QED
    BY <1>9, <1>10, <1>11, <1>12, <1>13 DEF Inv

\* After the trailers only the end is left; before them the chunk begins where the delivered
\* bytes end.
LEMMA ReadUpstreamStep ==
    ASSUME Inv, ReadUpstream
    PROVE  Inv'
<1>1. /\ wire' = wire /\ end' = end /\ size' = size /\ currMessageRemaining' = currMessageRemaining
      /\ currPartialMsgHeader' = currPartialMsgHeader /\ partialTrailerData' = partialTrailerData
      /\ hasReadTrailers' = hasReadTrailers /\ trailers' = trailers /\ delivered' = delivered
      /\ pc = "upstream" /\ n' = 0
    BY DEF ReadUpstream, bodyVars, frameVars
<1>2. /\ TypeOK /\ err = NoErr /\ partialTrailerData = <<>> /\ PhaseInv /\ PayloadExact
      /\ ReadingInv /\ DoneInv
    BY <1>1 DEF Inv, PhaseInv
<1>3. /\ wire \in Seq(Byte) /\ Len(wire) \in Nat /\ pos \in Nat /\ pos <= Len(wire) /\ size \in Nat
      /\ end \in {"EOF", "reset"}
    BY <1>2 DEF TypeOK
<1>4. PICK m \in 0 .. Smaller(size, Len(wire) - pos) :
         /\ m = 0 => pos = Len(wire)
         /\ chunk' = SubSeq(wire, pos + 1, pos + m)
         /\ pos' = pos + m
         /\ hasReadData' = (hasReadData \/ m > 0)
         /\ upErr' \in (IF m > 0 THEN {NoErr} ELSE {})
                         \cup (IF pos' = Len(wire) THEN {end} ELSE {})
    BY DEF ReadUpstream
<1>5. m \in Nat /\ pos + m \in Nat /\ pos + m <= Len(wire) /\ pos <= pos + m /\ (pos + m) - m = pos
      /\ (pos + m) - pos = m
    BY <1>3 DEF Smaller
<1>6. chunk' = Window(wire, pos, pos + m) /\ chunk' \in Seq(Byte) /\ Len(chunk') = m
  <2>1. chunk' = Window(wire, pos, pos + m)
    BY <1>4 DEF Window
  <2>2. Window(wire, pos, pos + m) \in Seq(Byte) /\ Len(Window(wire, pos, pos + m)) = (pos + m) - pos
    BY <1>3, <1>5, WindowBytes
  <2> QED
    BY <1>5, <2>1, <2>2, Zenon
<1>7. /\ upErr' \in {NoErr, end}
      /\ upErr' # NoErr => upErr' = end /\ pos' = Len(wire)
      /\ m = 0 => upErr' = end
  <2>1. m > 0 <=> m # 0
    BY <1>5
  <2> QED
    BY <1>4, <2>1
<1>8. pos' \in 0 .. Len(wire) /\ n' \in 0 .. Len(chunk')
    BY <1>1, <1>4, <1>5, <1>6
<1>9. hasReadData' \in BOOLEAN /\ (hasReadData => hasReadData') /\ (m > 0 => hasReadData')
      /\ (~hasReadData' => pos' = 0)
  <2>1. hasReadData \in BOOLEAN /\ (~hasReadData => pos = 0)
    BY <1>2 DEF TypeOK, PhaseInv
  <2>2. ~(m > 0) => pos' = pos
    BY <1>3, <1>4, <1>5
  <2> QED
    BY <1>4, <2>1, <2>2
<1>10. /\ Starts' = Starts
       /\ DataLen' = DataLen /\ HasTrailers' = HasTrailers /\ TrailersFrame' = TrailersFrame
       /\ TrailersText' = TrailersText /\ WellFormed' = WellFormed
       /\ UnfinishedLine' = UnfinishedLine /\ GoesOn' = GoesOn
    BY <1>1, SameBody
<1>11. ASSUME hasReadTrailers PROVE Inv'
  <2>1. err' = AdjustResult(Len(chunk'), upErr') /\ pc' = "idle" /\ buf' = <<>>
    BY <1>11 DEF ReadUpstream
  <2>2. err' = IF m > 0 /\ upErr' \in {NoErr, "EOF"} THEN "extraData" ELSE upErr'
    BY <1>6, <1>11, <2>1 DEF AdjustResult
  <2>3. TypeOK'
    BY <1>1, <1>2, <1>3, <1>6, <1>7, <1>8, <1>9, <2>1, <2>2 DEF TypeOK, Errors
  <2>4. err' # NoErr
    <3>1. m > 0 \/ m = 0
        BY <1>5
    <3> QED
        BY <1>3, <1>7, <2>2, <3>1 DEF NoErr
  <2>5. PhaseInv'
    BY <1>1, <1>2, <1>9, <1>11, <2>1, <2>4 DEF PhaseInv
  <2>6. ReadingInv' /\ PendingInv'
    BY <1>1, <1>2, <1>11 DEF ReadingInv, PendingInv
  <2>7. DoneInv'
    BY <1>1, <1>2, <1>10, <1>11, <2>4 DEF DoneInv
  <2>8. PayloadExact'
    BY <1>1, <1>2, <1>10 DEF PayloadExact
  <2>9. ASSUME ~(UnfinishedLine /\ GoesOn)
        PROVE  /\ HasTrailers /\ Len(delivered) = DataLen /\ trailers = <<TrailersText>>
               /\ Len(TrailersFrame) >= completeHeaderLen /\ ~HasCompressedFlag(TrailersFrame[1])
               /\ ReadMIMEHeader(TrailersText, NoErr) = NoErr
               /\ pos = Len(wire) <=> Len(TrailersFrame) = completeHeaderLen + Uint32(TrailersFrame)
    <3>1. /\ HasTrailers /\ Len(delivered) = DataLen /\ trailers = <<TrailersText>>
          /\ Len(TrailersFrame) >= completeHeaderLen /\ ~HasCompressedFlag(TrailersFrame[1])
          /\ ReadMIMEHeader(TrailersText, NoErr) = NoErr
          /\ pos = DataLen + completeHeaderLen + Uint32(TrailersFrame)
        BY <1>2, <1>11, <2>9 DEF DoneInv
    <3>2. DataLen \in Nat /\ Len(TrailersFrame) = Len(wire) - DataLen /\ TrailersFrame \in Seq(Byte)
        BY <1>3, BodyParts
    <3>3. PICK u \in Nat : u = Uint32(TrailersFrame)
        BY <3>1, <3>2, FourBytes
    <3>4. pos = Len(wire) <=> Len(wire) - DataLen = completeHeaderLen + u
      <4>1. PICK d \in Nat, w \in Nat : d = DataLen /\ w = Len(wire)
        BY <1>3, <3>2
      <4>2. pos = d + 5 + u
        BY <3>1, <3>3, <4>1 DEF completeHeaderLen
      <4>3. d + 5 + u = w <=> w - d = 5 + u
        OBVIOUS
      <4> QED
        BY <4>1, <4>2, <4>3, Zenon DEF completeHeaderLen
    <3> QED
        BY <3>1, <3>2, <3>3, <3>4
  <2>10. EOFMeansComplete'
    <3>1. ASSUME err' = "EOF" PROVE m = 0
      <4>1. ~(m > 0)
        BY <3>1, <2>2 DEF NoErr
      <4> QED
        BY <1>5, <4>1
    <3>2. CASE UnfinishedLine /\ GoesOn
        BY <1>10, <3>2 DEF EOFMeansComplete
    <3>3. CASE ~(UnfinishedLine /\ GoesOn)
      <4>1. m = 0 => WellFormed /\ Len(delivered) = DataLen /\ trailers = <<TrailersText>>
        BY <1>4, <2>9, <3>3 DEF WellFormed
      <4> QED
        BY <1>1, <1>10, <3>1, <4>1 DEF EOFMeansComplete
    <3> QED
        BY <3>2, <3>3
  <2>11. NoFalseAlarm'
    <3>1. CASE UnfinishedLine
      <4>1. ~WellFormed
        BY <3>1 DEF UnfinishedLine, WellFormed, NoErr
      <4> QED
        BY <1>10, <4>1 DEF NoFalseAlarm
    <3>2. CASE ~UnfinishedLine
      <4>1. WellFormed => pos = Len(wire)
        BY <2>9, <3>2 DEF WellFormed
      <4>2. m > 0 => pos # Len(wire)
        BY <1>3, <1>5
      <4>3. err' \notin {NoErr, "EOF"} => m > 0 \/ end = "reset"
        BY <1>3, <1>7, <2>2
      <4> QED
        BY <1>1, <1>10, <4>1, <4>2, <4>3 DEF NoFalseAlarm
    <3> QED
        BY <3>1, <3>2
  <2> QED
    BY <2>3, <2>5, <2>6, <2>7, <2>8, <2>10, <2>11 DEF Inv
<1>12. ASSUME ~hasReadTrailers PROVE Inv'
  <2>1. err' = NoErr /\ pc' = "consume" /\ buf' = chunk'
    BY <1>2, <1>12 DEF ReadUpstream
  <2>2. TypeOK'
    BY <1>1, <1>2, <1>3, <1>6, <1>7, <1>8, <1>9, <2>1 DEF TypeOK
  <2>3. hasReadTrailers = FALSE /\ trailers = <<>>
    BY <1>2, <1>12 DEF TypeOK, PhaseInv, NoErr
  <2>4. PhaseInv'
    BY <1>1, <1>2, <1>9, <2>1, <2>3 DEF PhaseInv
  <2>5. ReadingInv'
    <3>1. /\ buf = <<>> /\ Len(delivered) = pos
          /\ Parsing(wire, Starts, currMessageRemaining, currPartialMsgHeader, pos - Len(buf))
        BY <1>1, <1>2, <2>3 DEF ReadingInv
    <3>2. pos - Len(buf) = pos
      <4>1. Len(<<>>) = 0 /\ pos - 0 = pos
        BY <1>3
      <4> QED
        BY <3>1, <4>1, Zenon
    <3>3. Len(buf') = m /\ Len(chunk') = m /\ buf' = Window(wire, pos, pos + m)
        BY <1>6, <2>1
    <3>4. pos' - Len(buf') = pos /\ Len(buf') <= pos' /\ n' + Len(buf') = Len(chunk')
          /\ Len(delivered) + Len(chunk') = pos'
        BY <1>1, <1>3, <1>4, <1>5, <3>1, <3>3
    <3>5. ChunkInv'
      <4>1. Len(delivered)' + Len(chunk)' = pos' /\ chunk' = Window(wire', Len(delivered)', pos')
        BY <1>1, <1>4, <1>6, <3>1, <3>4
      <4>2. n' + Len(buf)' = Len(chunk)' /\ buf' = Window(wire', pos' - Len(buf)', pos')
        BY <1>1, <1>4, <3>3, <3>4
      <4>3. Len(chunk)' > 0 => hasReadData'
        BY <1>6, <1>9
      <4>4. upErr' # NoErr => upErr' = end' /\ pos' = Len(wire)'
        BY <1>1, <1>7
      <4> QED
        BY <4>1, <4>2, <4>3, <4>4 DEF ChunkInv
    <3> QED
        BY <1>1, <1>10, <2>1, <3>1, <3>2, <3>4, <3>5 DEF ReadingInv
  <2>6. PendingInv' /\ DoneInv'
    BY <1>1, <1>2, <2>3 DEF PendingInv, DoneInv
  <2>7. PayloadExact' /\ EOFMeansComplete' /\ NoFalseAlarm'
    BY <1>1, <1>2, <1>10, <2>1 DEF PayloadExact, EOFMeansComplete, NoFalseAlarm, NoErr
  <2> QED
    BY <2>2, <2>4, <2>5, <2>6, <2>7 DEF Inv
<1> QED
    BY <1>11, <1>12

\* consume knows where it is in a frame, wherever the chunk was cut.
LEMMA ConsumeStep ==
    ASSUME Inv, Consume
    PROVE  Inv'
<1>1. /\ wire' = wire /\ end' = end /\ pos' = pos /\ size' = size /\ chunk' = chunk /\ upErr' = upErr
      /\ partialTrailerData' = partialTrailerData /\ hasReadData' = hasReadData
      /\ hasReadTrailers' = hasReadTrailers /\ err' = err /\ trailers' = trailers
      /\ delivered' = delivered /\ pc = "consume" /\ buf # <<>>
    BY DEF Consume, bodyVars
<1>2. /\ TypeOK /\ PhaseInv /\ ReadingInv /\ err = NoErr /\ partialTrailerData = <<>>
      /\ hasReadTrailers = FALSE /\ trailers = <<>> /\ PayloadExact
  <2>1. TypeOK /\ PhaseInv /\ ReadingInv /\ PayloadExact
    BY DEF Inv
  <2>2. err = NoErr /\ partialTrailerData = <<>> /\ ~hasReadTrailers
    BY <1>1, <2>1 DEF PhaseInv
  <2> QED
    BY <2>1, <2>2 DEF TypeOK, PhaseInv, NoErr
<1> DEFINE r == currMessageRemaining
           h == currPartialMsgHeader
           l == LastMsgBytes
           c == pos - Len(buf)
<1>3. /\ wire \in Seq(Byte) /\ Len(wire) \in Nat /\ pos \in Nat /\ pos <= Len(wire) /\ buf \in Seq(Byte)
      /\ Len(buf) \in Nat /\ Len(buf) # 0 /\ chunk \in Seq(Byte) /\ Len(chunk) \in Nat /\ n \in Nat
      /\ r \in Nat /\ h \in Seq(Byte) /\ Len(h) \in Nat /\ Len(h) < completeHeaderLen
  <2>1. Len(buf) \in Nat /\ Len(buf) # 0
    BY <1>1, <1>2, EmptySeq DEF TypeOK
  <2> QED
    BY <1>2, <2>1 DEF TypeOK
<1>4. /\ Len(buf) <= pos /\ Parsing(wire, Starts, r, h, c) /\ ChunkInv
    BY <1>1, <1>2 DEF ReadingInv
<1>5. l \in Nat /\ l <= r /\ l <= Len(buf) /\ (l # Len(buf) => r - l = 0) /\ r - l \in Nat
    BY <1>3 DEF LastMsgBytes, Smaller
<1>6. c \in Nat /\ c + l \in Nat /\ c + l <= pos /\ c + l <= Len(wire) /\ c <= pos /\ c + Len(buf) = pos
    BY <1>3, <1>4, <1>5
<1>7. buf = Window(wire, c, pos) /\ n + Len(buf) = Len(chunk)
    BY <1>4 DEF ChunkInv
<1> HIDE DEF l, c, r, h
<1>8. Parsing(wire, Starts, r - l, h, c + l)
    BY <1>3, <1>4, <1>5, <1>6, MessageBytes
<1> DEFINE rest == From(buf, l + 1)
           more == Smaller(completeHeaderLen - Len(h), Len(rest))
           hdr == h \o SubSeq(rest, 1, more)
<1>9. /\ rest = Window(wire, c + l, pos) /\ rest \in Seq(Byte) /\ Len(rest) = pos - (c + l)
      /\ rest = <<>> <=> c + l = pos
      /\ \A i \in 1 .. pos - (c + l) : rest[i] = wire[(c + l) + i]
  <2>1. From(Window(wire, c, pos), l + 1) = Window(wire, c + l, pos)
    BY <1>3, <1>5, <1>6, WindowParts
  <2>2. rest = Window(wire, c + l, pos)
    BY <1>7, <2>1
  <2>3. /\ Window(wire, c + l, pos) \in Seq(Byte) /\ Len(Window(wire, c + l, pos)) = pos - (c + l)
        /\ \A i \in 1 .. pos - (c + l) : Window(wire, c + l, pos)[i] = wire[(c + l) + i]
        /\ Window(wire, c + l, pos) = <<>> <=> c + l = pos
    BY <1>3, <1>6, WindowBytes
  <2> HIDE DEF rest
  <2> QED
    BY <2>2, <2>3, Zenon
<1>10. \/ /\ rest # <<>> => AtTrailers(rest)
          /\ buf' = rest /\ n' = n + l /\ currMessageRemaining' = r - l /\ pc' = "return"
          /\ currPartialMsgHeader' = h
       \/ /\ rest # <<>> /\ ~AtTrailers(rest)
          /\ buf' = From(rest, more + 1) /\ n' = n + l + more /\ pc' = pc
          /\ \/ /\ Len(hdr) = completeHeaderLen
                /\ currMessageRemaining' = Uint32(hdr) /\ currPartialMsgHeader' = <<>>
             \/ /\ Len(hdr) < completeHeaderLen
                /\ currMessageRemaining' = r - l /\ currPartialMsgHeader' = hdr
    BY DEF Consume, r, h, l
<1> HIDE DEF rest
<1>11. rest # <<>> => /\ r - l = 0 /\ rest[1] = wire[(c + l) + 1] /\ c + l < pos
                      /\ (AtTrailers(rest) <=> h = <<>> /\ HasTrailerFlag(wire[(c + l) + 1]))
  <2> SUFFICES ASSUME rest # <<>>
               PROVE  /\ r - l = 0 /\ rest[1] = wire[(c + l) + 1] /\ c + l < pos
                      /\ (AtTrailers(rest) <=> h = <<>> /\ HasTrailerFlag(wire[(c + l) + 1]))
    OBVIOUS
  <2>1. c + l < pos /\ l # Len(buf) /\ 1 \in 1 .. pos - (c + l)
    BY <1>3, <1>5, <1>6, <1>9
  <2>2. rest[1] = wire[(c + l) + 1]
    BY <1>9, <2>1
  <2> QED
    BY <1>5, <2>1, <2>2 DEF AtTrailers, h
<1>12. /\ Starts' = Starts
       /\ DataLen' = DataLen /\ HasTrailers' = HasTrailers /\ TrailersFrame' = TrailersFrame
       /\ TrailersText' = TrailersText /\ WellFormed' = WellFormed
       /\ UnfinishedLine' = UnfinishedLine /\ GoesOn' = GoesOn
    BY <1>1, SameBody
<1>13. PendingInv' /\ DoneInv' /\ PayloadExact' /\ EOFMeansComplete' /\ NoFalseAlarm'
    BY <1>1, <1>2, <1>12 DEF PendingInv, DoneInv, PayloadExact, EOFMeansComplete, NoFalseAlarm, NoErr
\* What remains: consume has gone over k more bytes.
<1>14. ASSUME NEW k \in Nat, c + k <= pos, pc' \in {"consume", "return"},
              buf' = Window(wire, c + k, pos), n' = n + k,
              currMessageRemaining' \in Nat, currPartialMsgHeader' \in Seq(Byte),
              Len(currPartialMsgHeader') < completeHeaderLen,
              Parsing(wire, Starts, currMessageRemaining', currPartialMsgHeader', c + k),
              pc' = "return" /\ buf' # <<>> =>
                 /\ currMessageRemaining' = 0 /\ currPartialMsgHeader' = <<>>
                 /\ HasTrailerFlag(wire[(c + k) + 1])
       PROVE  Inv'
  <2>1. c + k \in Nat /\ c + k <= Len(wire)
    BY <1>3, <1>6, <1>14
  <2>2. buf' \in Seq(Byte) /\ Len(buf') = pos - (c + k)
    BY <1>3, <1>14, <2>1, WindowBytes
  <2>3. /\ Len(buf') \in Nat /\ Len(buf') <= pos /\ pos - Len(buf') = c + k
        /\ n' + Len(buf') = Len(chunk) /\ n' \in 0 .. Len(chunk)
    <3>1. \A p, q, a, b, d \in Nat : q + b = p /\ q + d <= p =>
               /\ p - (q + d) \in Nat /\ p - (q + d) <= p /\ p - (p - (q + d)) = q + d
               /\ (a + d) + (p - (q + d)) = a + b /\ a + d \in 0 .. a + b
        OBVIOUS
    <3>2. PICK b \in Nat : b = Len(buf)
        BY <1>3
    <3>3. c + b = pos /\ n + b = Len(chunk)
        BY <1>6, <1>7, <3>2, Zenon
    <3>4. /\ pos - (c + k) \in Nat /\ pos - (c + k) <= pos /\ pos - (pos - (c + k)) = c + k
          /\ (n + k) + (pos - (c + k)) = n + b /\ n + k \in 0 .. n + b
        BY <1>3, <1>6, <1>14, <3>1, <3>3, Zenon
    <3> QED
        BY <1>14, <2>2, <3>3, <3>4, Zenon
  <2>4. TypeOK'
    BY <1>1, <1>2, <1>14, <2>2, <2>3 DEF TypeOK
  <2>5. PhaseInv'
    BY <1>1, <1>2, <1>14 DEF PhaseInv
  <2>6. ChunkInv'
    BY <1>1, <1>4, <1>14, <2>3 DEF ChunkInv
  <2>7. ReadingInv'
    BY <1>1, <1>12, <1>14, <2>3, <2>6 DEF ReadingInv
  <2> QED
    BY <1>13, <2>4, <2>5, <2>7 DEF Inv
<1>15. CASE /\ rest # <<>> => AtTrailers(rest)
            /\ buf' = rest /\ n' = n + l /\ currMessageRemaining' = r - l /\ pc' = "return"
            /\ currPartialMsgHeader' = h
  <2>1. /\ buf' = Window(wire, c + l, pos)
        /\ buf' # <<>> => /\ currMessageRemaining' = 0 /\ currPartialMsgHeader' = <<>>
                          /\ HasTrailerFlag(wire[(c + l) + 1])
    BY <1>9, <1>11, <1>15
  <2>2. /\ currMessageRemaining' \in Nat /\ currPartialMsgHeader' \in Seq(Byte)
        /\ Len(currPartialMsgHeader') < completeHeaderLen
        /\ Parsing(wire, Starts, currMessageRemaining', currPartialMsgHeader', c + l)
    BY <1>3, <1>5, <1>8, <1>15
  <2> QED
    BY <1>5, <1>6, <1>14, <1>15, <2>1, <2>2
<1>16. CASE /\ rest # <<>> /\ ~AtTrailers(rest)
            /\ buf' = From(rest, more + 1) /\ n' = n + l + more /\ pc' = pc
            /\ \/ /\ Len(hdr) = completeHeaderLen
                  /\ currMessageRemaining' = Uint32(hdr) /\ currPartialMsgHeader' = <<>>
               \/ /\ Len(hdr) < completeHeaderLen
                  /\ currMessageRemaining' = r - l /\ currPartialMsgHeader' = hdr
  <2>1. /\ more \in Nat \ {0} /\ Len(h) + more <= completeHeaderLen /\ (c + l) + more <= pos
    <3>1. PICK x \in Nat, y \in Nat : x = Len(h) /\ y = Len(rest)
        BY <1>3, <1>9, LenProperties
    <3>2. PICK b \in Nat, q \in Nat : b = c + l /\ q = pos
        BY <1>3, <1>6
    <3>3. x < 5 /\ more = Smaller(5 - x, y)
        BY <1>3, <3>1, Zenon DEF completeHeaderLen
    <3>4. y = q - b /\ b < q
        BY <1>9, <1>11, <1>16, <3>1, <3>2, Zenon
    <3> HIDE DEF more
    <3>5. more \in Nat \ {0} /\ x + more <= 5 /\ b + more <= q
        BY <3>3, <3>4 DEF Smaller
    <3> QED
        BY <3>1, <3>2, <3>5, Zenon DEF completeHeaderLen
  <2>2. r - l = 0 /\ (h = <<>> => ~HasTrailerFlag(wire[(c + l) + 1]))
    BY <1>11, <1>16
  <2>3. /\ From(rest, more + 1) = Window(wire, (c + l) + more, pos)
        /\ SubSeq(rest, 1, more) = Window(wire, c + l, (c + l) + more)
    <3> HIDE DEF more
    <3>1. PICK b \in Nat, k \in Nat : b = c + l /\ k = more
        BY <1>6, <2>1
    <3>2. b + k <= pos
        BY <2>1, <3>1, Zenon
    <3>3. /\ From(Window(wire, b, pos), k + 1) = Window(wire, b + k, pos)
          /\ SubSeq(Window(wire, b, pos), 1, k) = Window(wire, b, b + k)
      <4>1. wire \in Seq(Byte) /\ pos \in Nat /\ pos <= Len(wire)
        BY <1>3
      <4> QED
        BY <3>2, <4>1, WindowParts
    <3> QED
        BY <1>9, <3>1, <3>3, Zenon
  <2>4. hdr = h \o Window(wire, c + l, (c + l) + more)
    BY <2>3
  <2> HIDE DEF hdr, more
  <2>5. PICK b \in Nat : b = c + l
    BY <1>6
  <2>6. PICK k \in Nat \ {0} : k = more
    BY <2>1
  <2>7. LET x == h \o Window(wire, b, b + k)
        IN  /\ x \in Seq(Byte) /\ Len(x) = Len(h) + k
            /\ Len(x) = completeHeaderLen =>
                  Uint32(x) \in Nat /\ Parsing(wire, Starts, Uint32(x), <<>>, b + k)
            /\ Len(x) < completeHeaderLen => Parsing(wire, Starts, 0, x, b + k)
    <3>1. Len(h) + k <= completeHeaderLen /\ b + k <= Len(wire)
        BY <1>3, <2>1, <2>5, <2>6
    <3>2. Parsing(wire, Starts, 0, h, b) /\ (h = <<>> => ~HasTrailerFlag(wire[b + 1]))
        BY <1>8, <2>2, <2>5
    <3> QED
        BY <1>3, <3>1, <3>2, HeaderBytes
  <2>8. hdr = h \o Window(wire, b, b + k)
    BY <2>4, <2>5, <2>6
  <2>9. /\ hdr \in Seq(Byte)
        /\ Len(hdr) = completeHeaderLen =>
              Uint32(hdr) \in Nat /\ Parsing(wire, Starts, Uint32(hdr), <<>>, b + k)
        /\ Len(hdr) < completeHeaderLen => Parsing(wire, Starts, 0, hdr, b + k)
    BY <2>7, <2>8
  <2>10. /\ currMessageRemaining' \in Nat /\ currPartialMsgHeader' \in Seq(Byte)
         /\ Len(currPartialMsgHeader') < completeHeaderLen
         /\ Parsing(wire, Starts, currMessageRemaining', currPartialMsgHeader', b + k)
    <3>1. CASE Len(hdr) = completeHeaderLen /\ currMessageRemaining' = Uint32(hdr) /\ currPartialMsgHeader' = <<>>
      <4>1. <<>> \in Seq(Byte) /\ Len(<<>>) < completeHeaderLen
        BY EmptySeq DEF completeHeaderLen
      <4> QED
        BY <2>9, <3>1, <4>1, Zenon
    <3>2. CASE Len(hdr) < completeHeaderLen /\ currMessageRemaining' = r - l /\ currPartialMsgHeader' = hdr
        BY <2>2, <2>9, <3>2
    <3> QED
        BY <1>16, <3>1, <3>2
  <2>11. l + more \in Nat /\ c + (l + more) = b + k /\ c + (l + more) <= pos /\ n' = n + (l + more)
    <3>1. \A x, y, z \in Nat : x + (y + z) = (x + y) + z /\ y + z \in Nat
        OBVIOUS
    <3>2. c + (l + k) = (c + l) + k /\ l + k \in Nat /\ n + (l + k) = (n + l) + k
        BY <1>3, <1>5, <1>6, <2>6, <3>1
    <3> QED
        BY <1>16, <2>1, <2>5, <2>6, <3>2
  <2>12. buf' = Window(wire, c + (l + more), pos) /\ pc' = "consume"
    BY <1>1, <1>16, <2>3, <2>5, <2>6, <2>11
  <2> QED
    BY <1>14, <2>10, <2>11, <2>12
<1> QED
    BY <1>10, <1>15, <1>16

\* What consume has gone over is data, and what it leaves over begins the trailers frame.
LEMMA ReadReturnStep ==
    ASSUME Inv, ReadReturn
    PROVE  Inv'
<1>1. /\ wire' = wire /\ end' = end /\ pos' = pos /\ chunk' = chunk /\ upErr' = upErr /\ buf' = buf
      /\ n' = n /\ currMessageRemaining' = currMessageRemaining
      /\ currPartialMsgHeader' = currPartialMsgHeader /\ hasReadData' = hasReadData
      /\ hasReadTrailers' = hasReadTrailers /\ trailers' = trailers
      /\ pc \in {"consume", "return"} /\ (buf # <<>> => pc = "return")
      /\ partialTrailerData' = partialTrailerData \o buf
    BY DEF ReadReturn, bodyVars, frameVars
<1>2. /\ TypeOK /\ PhaseInv /\ ReadingInv /\ err = NoErr /\ partialTrailerData = <<>>
      /\ hasReadTrailers = FALSE /\ trailers = <<>> /\ PayloadExact
  <2>1. TypeOK /\ PhaseInv /\ ReadingInv /\ PayloadExact
    BY DEF Inv
  <2>2. err = NoErr /\ partialTrailerData = <<>> /\ ~hasReadTrailers
    BY <1>1, <2>1 DEF PhaseInv
  <2> QED
    BY <2>1, <2>2 DEF TypeOK, PhaseInv, NoErr
<1> DEFINE c == pos - Len(buf)
<1>3. /\ wire \in Seq(Byte) /\ Len(wire) \in Nat /\ pos \in Nat /\ pos <= Len(wire) /\ buf \in Seq(Byte)
      /\ Len(buf) \in Nat /\ chunk \in Seq(Byte) /\ Len(chunk) \in Nat /\ n \in Nat /\ n <= Len(chunk)
      /\ currMessageRemaining \in Nat /\ currPartialMsgHeader \in Seq(Byte)
      /\ Len(currPartialMsgHeader) < completeHeaderLen
      /\ delivered \in Seq(Byte) /\ Len(delivered) \in Nat /\ end \in {"EOF", "reset"}
    BY <1>2 DEF TypeOK
<1>4. /\ Len(buf) <= pos /\ ChunkInv
      /\ Parsing(wire, Starts, currMessageRemaining, currPartialMsgHeader, c)
      /\ buf # <<>> => /\ currMessageRemaining = 0 /\ currPartialMsgHeader = <<>>
                       /\ HasTrailerFlag(wire[c + 1])
    BY <1>1, <1>2 DEF ReadingInv
<1>5. /\ Len(delivered) + Len(chunk) = pos /\ chunk = Window(wire, Len(delivered), pos)
      /\ n + Len(buf) = Len(chunk) /\ buf = Window(wire, c, pos)
      /\ (Len(chunk) > 0 => hasReadData)
      /\ upErr # NoErr => upErr = end /\ pos = Len(wire)
    BY <1>4 DEF ChunkInv
<1>6. partialTrailerData' = buf
    BY <1>1, <1>2, <1>3, ConcatEmptySeq
<1>7. c \in Nat /\ c <= Len(wire) /\ c <= pos /\ Len(delivered) + n = c /\ (buf # <<>> => c < Len(wire))
  <2>1. PICK d \in Nat, x \in Nat, b \in Nat : d = Len(delivered) /\ x = Len(chunk) /\ b = Len(buf)
    BY <1>3
  <2>2. d + x = pos /\ n + b = x /\ c = pos - b
    BY <1>5, <2>1, Zenon
  <2> HIDE DEF c
  <2>3. c \in Nat /\ c <= Len(wire) /\ c <= pos /\ d + n = c /\ (b # 0 => c < Len(wire))
    <3>1. PICK w \in Nat : w = Len(wire) /\ pos <= w
        BY <1>3
    <3>2. n \in Nat /\ pos \in Nat
        BY <1>3
    <3>3. c \in Nat /\ c <= w /\ c <= pos /\ d + n = c /\ (b # 0 => c < w)
        BY <2>2, <3>1, <3>2
    <3> QED
        BY <3>1, <3>3
  <2>4. buf # <<>> => b # 0
    BY <1>3, <2>1, EmptySeq
  <2> QED
    BY <2>1, <2>3, <2>4, Zenon
<1> HIDE DEF c
<1>8. /\ DataLen \in Nat /\ DataLen <= Len(wire) /\ c <= DataLen
      /\ buf # <<>> => HasTrailers /\ DataLen = c
    BY <1>3, <1>4, <1>7, ParsedIsData
<1>9. /\ Starts' = Starts
      /\ DataLen' = DataLen /\ HasTrailers' = HasTrailers /\ TrailersFrame' = TrailersFrame
      /\ TrailersText' = TrailersText /\ WellFormed' = WellFormed
      /\ UnfinishedLine' = UnfinishedLine /\ GoesOn' = GoesOn
    BY <1>1, SameBody
<1>10. buf # <<>> => hasReadData
  <2>1. buf # <<>> => Len(chunk) > 0
    BY <1>3, <1>5, EmptySeq
  <2> QED
    BY <1>5, <2>1
<1>11. CASE n = 0 /\ partialTrailerData' # <<>> /\ size' = Len(chunk) /\ pc' = "trailers"
            /\ err' = err /\ delivered' = delivered
  <2>1. buf # <<>> /\ Len(delivered) = c
    BY <1>3, <1>6, <1>7, <1>11
  <2>2. TypeOK'
    BY <1>1, <1>2, <1>3, <1>6, <1>11 DEF TypeOK
  <2>3. PhaseInv'
    BY <1>1, <1>2, <1>6, <1>10, <1>11, <2>1 DEF PhaseInv
  <2>4. ReadingInv' /\ DoneInv'
    BY <1>1, <1>2, <1>11 DEF ReadingInv, DoneInv
  <2>5. PendingInv'
    BY <1>1, <1>5, <1>6, <1>7, <1>8, <1>9, <1>11, <2>1 DEF PendingInv
  <2>6. PayloadExact' /\ EOFMeansComplete' /\ NoFalseAlarm'
    BY <1>1, <1>2, <1>9, <1>11 DEF PayloadExact, EOFMeansComplete, NoFalseAlarm, NoErr
  <2> QED
    BY <2>2, <2>3, <2>4, <2>5, <2>6 DEF Inv
<1>12. CASE /\ delivered' = delivered \o SubSeq(chunk, 1, n)
            /\ err' = AdjustResult(n, upErr) /\ pc' = "idle" /\ size' = size
  <2>0. wire \in Seq(Byte) /\ pos \in Nat /\ pos <= Len(wire) /\ c \in Nat /\ 0 <= c /\ c <= Len(wire)
    BY <1>3, <1>7
  <2>1. delivered' = Window(wire, 0, c)
    <3>1. PICK d \in Nat : d = Len(delivered)
        BY <1>3
    <3>2. d + n = c /\ d + n <= pos /\ d <= c /\ chunk = Window(wire, d, pos)
        BY <1>3, <1>5, <1>7, <3>1
    <3>3. SubSeq(chunk, 1, n) = Window(wire, d, d + n)
      <4>1. SubSeq(Window(wire, d, pos), 1, n) = Window(wire, d, d + n)
        <5>1. n \in Nat /\ d + n <= pos
            BY <1>3, <3>2
        <5> QED
            BY <2>0, <5>1, WindowParts
      <4> QED
        BY <3>2, <4>1, Zenon
    <3>4. delivered = Window(wire, 0, d)
        BY <1>2, <3>1 DEF PayloadExact, Window
    <3>5. Window(wire, 0, d) \o Window(wire, d, c) = Window(wire, 0, c)
      <4>1. d <= c /\ 0 <= d
        BY <3>2
      <4> QED
        BY <2>0, <4>1, WindowJoin
    <3> QED
        BY <1>12, <3>2, <3>3, <3>4, <3>5, Zenon
  <2>2. delivered' \in Seq(Byte) /\ Len(delivered') = c
    <3>1. Window(wire, 0, c) \in Seq(Byte) /\ Len(Window(wire, 0, c)) = c - 0 /\ c - 0 = c
        BY <2>0, WindowBytes
    <3> QED
        BY <2>1, <3>1, Zenon
  <2>3. err' = IF hasReadData /\ upErr = "EOF" THEN (IF buf # <<>> THEN NoErr ELSE "unexpectedEOF") ELSE upErr
    BY <1>1, <1>2, <1>6, <1>12 DEF AdjustResult
  <2>4. TypeOK'
    BY <1>1, <1>2, <1>3, <1>6, <1>12, <2>2, <2>3 DEF TypeOK, Errors
  <2>5. PhaseInv'
    BY <1>1, <1>2, <1>6, <1>10, <1>12 DEF PhaseInv
  <2>6. ReadingInv'
    <3>1. CASE buf # <<>>
        BY <1>6, <3>1 DEF ReadingInv
    <3>2. CASE buf = <<>>
      <4>1. Len(buf) = 0 /\ pos - 0 = pos
        BY <1>3, <3>2
      <4>2. c = pos
        BY <4>1, Zenon DEF c
      <4> QED
        BY <1>1, <1>4, <1>9, <1>12, <2>2, <3>2, <4>2 DEF ReadingInv, c
    <3> QED
        BY <3>1, <3>2
  <2>7. DoneInv'
    BY <1>1, <1>2 DEF DoneInv
  <2>8. PendingInv'
    BY <1>1, <1>5, <1>6, <1>7, <1>8, <1>9, <2>2 DEF PendingInv
  <2>9. PayloadExact'
    <3>1. delivered' = SubSeq(wire, 0 + 1, Len(delivered'))
        BY <2>1, <2>2 DEF Window
    <3> QED
        BY <1>1, <1>8, <1>9, <2>2, <3>1 DEF PayloadExact
  <2>10. EOFMeansComplete'
    <3>1. ASSUME err' = "EOF" PROVE wire = <<>>
      <4>1. ~hasReadData /\ upErr = "EOF"
        BY <2>3, <3>1 DEF NoErr
      <4>2. pos = 0 /\ pos = Len(wire)
        BY <1>2, <1>5, <4>1 DEF PhaseInv, NoErr
      <4> QED
        BY <1>3, <4>2, EmptySeq
    <3> QED
        BY <1>1, <3>1 DEF EOFMeansComplete
  <2>11. NoFalseAlarm'
    <3>1. ASSUME err' \notin {NoErr, "EOF"} PROVE ~WellFormed \/ end = "reset"
      <4>1. CASE hasReadData /\ upErr = "EOF"
        <5>1. buf = <<>> /\ pos = Len(wire)
            BY <1>5, <2>3, <3>1, <4>1 DEF NoErr
        <5>2. Len(buf) = 0 /\ pos - 0 = pos
            BY <1>3, <5>1
        <5>3. c = Len(wire)
            BY <5>1, <5>2, Zenon DEF c
        <5>4. ~HasTrailers
            BY <1>3, <1>8, <5>3, BodyParts
        <5> QED
            BY <5>4 DEF WellFormed
      <4>2. CASE ~(hasReadData /\ upErr = "EOF")
        <5>1. err' = upErr
            BY <2>3, <4>2
        <5> QED
            BY <1>3, <1>5, <3>1, <5>1
      <4> QED
        BY <4>1, <4>2
    <3> QED
        BY <1>1, <1>9, <3>1 DEF NoFalseAlarm
  <2> QED
    BY <2>4, <2>5, <2>6, <2>7, <2>8, <2>9, <2>10, <2>11 DEF Inv
<1> QED
    BY <1>11, <1>12 DEF ReadReturn

\* The three properties, and what it takes to keep them, hold whenever Read is between two
\* of its steps.
THEOREM InvHolds == Spec => []Inv
<1>1. Inv /\ [Next]_vars => Inv'
  <2> SUFFICES ASSUME Inv, [Next]_vars PROVE Inv'
    OBVIOUS
  <2>1. CASE UNCHANGED vars
    <3>1. /\ wire' = wire /\ end' = end /\ pos' = pos /\ pc' = pc /\ size' = size /\ chunk' = chunk
          /\ upErr' = upErr /\ buf' = buf /\ n' = n /\ currMessageRemaining' = currMessageRemaining
          /\ currPartialMsgHeader' = currPartialMsgHeader
          /\ partialTrailerData' = partialTrailerData /\ hasReadData' = hasReadData
          /\ hasReadTrailers' = hasReadTrailers /\ err' = err /\ trailers' = trailers
          /\ delivered' = delivered
        BY <2>1 DEF vars, bodyVars, stepVars, frameVars
    <3>2. TypeOK' /\ PhaseInv'
        BY <3>1 DEF Inv, TypeOK, PhaseInv
    <3>3. ReadingInv'
        BY <3>1, SameBody DEF Inv, ReadingInv, ChunkInv
    <3>4. PendingInv' /\ DoneInv' /\ PayloadExact' /\ EOFMeansComplete' /\ NoFalseAlarm'
        BY <3>1, SameBody DEF Inv, PendingInv, TriedInVain, DoneInv, PayloadExact, EOFMeansComplete,
                              NoFalseAlarm
    <3> QED
        BY <3>2, <3>3, <3>4 DEF Inv
  <2> QED
    BY <2>1, ReadStartStep, ReadTrailersStep, ReadTrailersErrStep, ReadUpstreamStep, ConsumeStep,
       ReadReturnStep DEF Next
<1> QED
    BY <1>1, InvInit, PTL DEF Spec

\* Read never returns a byte that is not data, leaves one out or changes their order, for
\* any body and any chunks.
THEOREM DataOnly == Spec => []PayloadExact
<1>1. Inv => PayloadExact
    BY DEF Inv
<1> QED
    BY <1>1, InvHolds, PTL

\* Read reports the end of a body only if all data has been returned and the trailers have
\* been added, once; except for an empty body, and for trailers that end in the middle of
\* a line and have more bytes after them.
THEOREM NeverCutShort == Spec => []EOFMeansComplete
<1>1. Inv => EOFMeansComplete
    BY DEF Inv
<1> QED
    BY <1>1, InvHolds, PTL

\* Read never fails on a correct body, however it is cut, unless the connection does.
THEOREM CorrectBodyAccepted == Spec => []NoFalseAlarm
<1>1. Inv => NoFalseAlarm
    BY DEF Inv
<1> QED
    BY <1>1, InvHolds, PTL
===============================================================================
