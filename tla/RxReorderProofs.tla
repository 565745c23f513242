--------------------------- MODULE RxReorderProofs ---------------------------
(***************************************************************************)
(* What is proved of the reordering, for every window, pool, stream and    *)
(* number of faults: no descriptor leaks, no frame is lost, frames go up   *)
(* in order, the buffer is in order and inside the window, ind_sn never    *)
(* moves back, and a gap is always watched.                                *)
(*                                                                         *)
(* The code compares sequence numbers, the properties are about positions  *)
(* in the stream.  The two agree as long as all that is compared lies      *)
(* within half the sequence space.  That is so because the sender keeps to *)
(* its window: between the position the receiver waits for and the frame   *)
(* in hand there is only what is in the window, was lost, or is direct     *)
(* (HandNear counts them).                                                 *)
(***************************************************************************)
EXTENDS RxReorder, WellFoundedInduction, SequenceTheorems, FiniteSetTheorems, TLAPS

-----------------------------------------------------------------------------
(* The arithmetic of sequence numbers.                                     *)

\* Half the sequence space: SN_LESS tells earlier from later within it.
Half == SeqSpace \div 2

\* What the constants are.
LEMMA SizesHold ==
    /\ SeqSpace \in Nat \ {0} /\ Half \in Nat /\ SeqSpace = 2 * Half
    /\ Window \in Nat \ {0} /\ MaxFaults \in Nat /\ FirstPos \in Nat /\ LastPos \in Nat
BY SeqAssumption DEF Half

\* Division with remainder
LEMMA DivMod ==
    ASSUME NEW a \in Int, NEW m \in Nat \ {0}
    PROVE  /\ a = m * (a \div m) + (a % m) /\ a \div m \in Int /\ a % m \in 0..(m - 1)
OBVIOUS

\* A multiple of m that is not 0 is at least m away from 0.
LEMMA MulGap == ASSUME NEW m \in Nat \ {0}, NEW k \in Int, k # 0
   PROVE m * k >= m \/ m * k <= -m
OBVIOUS

\* The remainder is the only one.
LEMMA ModIs ==
    ASSUME NEW m \in Nat \ {0}, NEW a \in Int, NEW k \in Int, NEW r \in 0..(m - 1), a = m * k + r
    PROVE  a % m = r
<1> DEFINE d == a \div m
<1>1. d \in Int /\ a = m * d + (a % m) /\ a % m \in 0..(m - 1)
  BY DivMod
<1>2. m * (d - k) = r - (a % m)
  BY <1>1
<1>3. CASE d - k = 0
  BY <1>1, <1>2, <1>3
<1>4. CASE d - k # 0
  BY <1>1, <1>2, <1>4, MulGap
<1>5. QED
  BY <1>3, <1>4

\* Sequence numbers.
LEMMA SnIs ==
    ASSUME NEW n \in Int
    PROVE  /\ Sn(n) \in 0..(SeqSpace - 1) /\ Sn(n) # FirstSn
           /\ \E k \in Int : n = SeqSpace * k + Sn(n)
<1>1. SeqSpace \in Nat \ {0}
  BY SizesHold
<1>2. n \div SeqSpace \in Int /\ n = SeqSpace * (n \div SeqSpace) + (n % SeqSpace)
      /\ n % SeqSpace \in 0..(SeqSpace - 1)
  BY <1>1, DivMod
<1> DEFINE k == n \div SeqSpace
<1>3. k \in Int /\ n = SeqSpace * k + Sn(n) /\ Sn(n) \in 0..(SeqSpace - 1)
  BY <1>2 DEF Sn
<1> HIDE DEF k
<1>4. QED
  BY <1>1, <1>3 DEF FirstSn

\* Sequence numbers and positions move together ...
LEMMA SnShift ==
    ASSUME NEW n \in Int, NEW d \in Int
    PROVE  (Sn(n) + d) % SeqSpace = Sn(n + d)
<1>1. SeqSpace \in Nat \ {0}
  BY SizesHold
<1>2. PICK k \in Int : n = SeqSpace * k + Sn(n)
  BY SnIs
<1>3. PICK j \in Int : n + d = SeqSpace * j + Sn(n + d)
  BY SnIs
<1>4. Sn(n) \in Int /\ Sn(n + d) \in 0..(SeqSpace - 1)
  BY SnIs, <1>1
<1>5. Sn(n) + d = SeqSpace * (j - k) + Sn(n + d) /\ Sn(n) + d \in Int /\ j - k \in Int
  BY <1>1, <1>2, <1>3, <1>4
<1> HIDE DEF Sn
<1>6. QED
  BY <1>1, <1>4, <1>5, ModIs

\* ... and lie equally far apart, modulo SeqSpace.
LEMMA SnDiff ==
    ASSUME NEW a \in Int, NEW b \in Int
    PROVE  (Sn(a) - Sn(b)) % SeqSpace = (a - b) % SeqSpace
<1>1. SeqSpace \in Nat \ {0}
  BY SizesHold
<1>2. PICK k \in Int : b = SeqSpace * k + Sn(b)
  BY SnIs
<1>3. PICK j \in Int : a = SeqSpace * j + Sn(a)
  BY SnIs
<1> DEFINE e == (Sn(a) - Sn(b)) \div SeqSpace
           r == (Sn(a) - Sn(b)) % SeqSpace
<1>4. Sn(a) \in Int /\ Sn(b) \in Int
  BY SnIs, <1>1
<1>5. e \in Int /\ r \in 0..(SeqSpace - 1) /\ Sn(a) - Sn(b) = SeqSpace * e + r
  <2> DEFINE x == Sn(a) - Sn(b)
  <2>1. x \in Int
    BY <1>4
  <2> HIDE DEF x
  <2>2. x = SeqSpace * (x \div SeqSpace) + (x % SeqSpace) /\ x \div SeqSpace \in Int
        /\ x % SeqSpace \in 0..(SeqSpace - 1)
    BY <1>1, <2>1, DivMod
  <2>3. QED
    BY <2>2 DEF x
<1> HIDE DEF e, r
<1>6. a - b = SeqSpace * (e + j - k) + r
  BY <1>1, <1>2, <1>3, <1>4, <1>5
<1>7. (a - b) % SeqSpace = r
  BY <1>1, <1>5, <1>6, ModIs
<1>8. QED
  BY <1>7 DEF r

\* The remainder of what is less than SeqSpace away from 0
LEMMA ModSmall ==
    ASSUME NEW d \in Int
    PROVE  /\ d \in 0..(SeqSpace - 1) => d % SeqSpace = d
           /\ d \in (-SeqSpace)..(-1) => d % SeqSpace = d + SeqSpace
<1>1. SeqSpace \in Nat \ {0}
  BY SizesHold
<1>2. ASSUME d \in 0..(SeqSpace - 1) PROVE d % SeqSpace = d
  <2>1. d = SeqSpace * 0 + d
    BY <1>1
  <2>2. QED
    BY <1>1, <1>2, <2>1, ModIs
<1>3. ASSUME d \in (-SeqSpace)..(-1) PROVE d % SeqSpace = d + SeqSpace
  <2>1. d = SeqSpace * (-1) + (d + SeqSpace) /\ d + SeqSpace \in 0..(SeqSpace - 1)
    BY <1>1, <1>3
  <2>2. QED
    BY <1>1, <2>1, ModIs
<1>4. QED
  BY <1>2, <1>3

\* Comparisons of sequence numbers are those of positions that are near.
LEMMA LessIs ==
    ASSUME NEW a \in Int, NEW b \in Int, a - b < Half, b - a < Half
    PROVE  Less(Sn(a), Sn(b)) <=> a < b
<1>1. SeqSpace \in Nat \ {0} /\ Half \in Nat /\ SeqSpace = 2 * Half
  BY SizesHold
<1>2. Less(Sn(a), Sn(b)) <=> (a - b) % SeqSpace >= Half
  BY SnDiff DEF Less, Half
<1>3. CASE a - b >= 0
  <2>1. (a - b) % SeqSpace = a - b
    BY <1>1, <1>3, ModSmall
  <2>2. QED
    BY <1>1, <1>2, <1>3, <2>1
<1>4. CASE a - b < 0
  <2>1. (a - b) % SeqSpace = a - b + SeqSpace
    BY <1>1, <1>4, ModSmall
  <2>2. QED
    BY <1>1, <1>2, <1>4, <2>1
<1>5. QED
  BY <1>3, <1>4

\* Near positions have the same sequence number only if they are the same.
LEMMA SameIs ==
    ASSUME NEW a \in Int, NEW b \in Int, a - b < Half, b - a < Half
    PROVE  Sn(a) = Sn(b) <=> a = b
<1>1. SeqSpace \in Nat \ {0} /\ Half \in Nat /\ SeqSpace = 2 * Half
  BY SizesHold
<1>2. ASSUME Sn(a) = Sn(b) PROVE a = b
  <2>1. (a - b) % SeqSpace = (b - b) % SeqSpace
    BY <1>2, SnDiff
  <2>2. (b - b) % SeqSpace = 0
    BY <1>1, ModSmall
  <2>3. a - b >= 0 => (a - b) % SeqSpace = a - b
    BY <1>1, ModSmall
  <2>4. a - b < 0 => (a - b) % SeqSpace = a - b + SeqSpace
    BY <1>1, ModSmall
  <2>5. QED
    BY <1>1, <2>1, <2>2, <2>3, <2>4
<1>3. QED
  BY <1>2

\* ind_sn steps to the next position ...
LEMMA SuccIs == ASSUME NEW n \in Int PROVE Succ(Sn(n)) = Sn(n + 1)
BY SnShift DEF Succ

\* ... or to the start of the window that ends with n.
LEMMA MovedIs == ASSUME NEW n \in Int PROVE MovedTo(Sn(n)) = Sn(n - (Window - 1))
<1>1. Window \in Nat
  BY SizesHold
<1>2. -(Window - 1) \in Int /\ n + (-(Window - 1)) = n - (Window - 1)
  BY <1>1
<1>3. (Sn(n) + (-(Window - 1))) % SeqSpace = Sn(n + (-(Window - 1)))
  BY <1>2, SnShift
<1>4. Sn(n) + (-(Window - 1)) = Sn(n) - (Window - 1)
  BY <1>1, SnIs, SizesHold
<1>5. QED
  BY <1>2, <1>3, <1>4 DEF MovedTo

\* Beyond the window is beyond the window.
LEMMA PastIs ==
    ASSUME NEW p \in Int, NEW n \in Int, n >= p, n < p + Half
    PROVE  PastWindow(Sn(p), Sn(n)) <=> n >= p + Window
<1>1. Window \in Nat \ {0} /\ Half \in Nat
  BY SizesHold
<1>2. p + (Window - 1) \in Int /\ (Sn(p) + (Window - 1)) % SeqSpace = Sn(p + (Window - 1))
  BY <1>1, SnShift
<1>3. Sn(p) + Window - 1 = Sn(p) + (Window - 1)
  BY <1>1, SnIs, SizesHold
<1>4. PastWindow(Sn(p), Sn(n)) <=> Less(Sn(p + (Window - 1)), Sn(n))
  BY <1>2, <1>3 DEF PastWindow
<1>5. p + (Window - 1) - n < Half
  BY <1>1, SeqAssumption DEF Half
<1>6. QED
  BY <1>1, <1>2, <1>4, <1>5, LessIs

-----------------------------------------------------------------------------
(* The operations on the buffer.                                           *)

\* The first of some positions
LEMMA MinLeast ==
    ASSUME NEW I \in SUBSET Nat, NEW x \in I
    PROVE  Min(I) \in I /\ \A y \in I : Min(I) =< y
<1>1. PICK z \in I : \A y \in I : ~(<<y, z>> \in OpToRel(<, Nat))
  BY NatLessThanWellFounded, WFMin, Zenon
<1>2. OpToRel(<, Nat) = {ss \in Nat \X Nat : ss[1] < ss[2]}
  BY Zenon DEF OpToRel
<1>3. \A y \in I : <<y, z>> \notin {ss \in Nat \X Nat : ss[1] < ss[2]}
  BY <1>1, <1>2, Zenon
<1>4. ASSUME NEW y \in I PROVE z =< y
  <2>1. z \in Nat /\ y \in Nat /\ <<y, z>> \in Nat \X Nat
    OBVIOUS
  <2>2. ~(<<y, z>>[1] < <<y, z>>[2])
    BY <1>3, <2>1
  <2>3. QED
    BY <2>1, <2>2
<1>5. \E v \in I : \A y \in I : v =< y
  BY <1>4
<1>6. QED
  BY <1>5 DEF Min

LEMMA MinIn == ASSUME NEW I \in SUBSET Nat, I # {} PROVE Min(I) \in I
BY MinLeast

\* A frame is put at a place in the buffer, or behind it.
LEMMA PlaceRange ==
    ASSUME NEW q \in Seq(Frames), NEW n
    PROVE  Place(q, n) \in 0..Len(q)
<1> DEFINE I == {i \in 1..Len(q) : ~Less(Sn(q[i]), Sn(n))}
<1>1. Place(q, n) = IF I # {} THEN Min(I) ELSE 0
  BY DEF Place, SelectInSeq
<1>2. Len(q) \in Nat
  BY LenProperties
<1>3. I # {} => Min(I) \in I
  <2>1. I \in SUBSET Nat
    BY <1>2
  <2>2. QED
    BY <2>1, MinIn
<1>4. QED
  BY <1>1, <1>2, <1>3

\* What is due is a number of frames at the head of the buffer.
LEMMA DueRange ==
    ASSUME NEW q \in Seq(Frames), NEW ind
    PROVE  Due(ind, q) \in 0..Len(q)
<1> DEFINE I == {i \in 1..Len(q) : Less(ind, Sn(q[i]))}
           stop == SelectInSeq(q, LAMBDA n : Less(ind, Sn(n)))
<1>1. stop = IF I # {} THEN Min(I) ELSE 0
  BY DEF SelectInSeq
<1>2. Len(q) \in Nat
  BY LenProperties
<1>3. I # {} => Min(I) \in I
  <2>1. I \in SUBSET Nat
    BY <1>2
  <2>2. QED
    BY <2>1, MinIn
<1>4. stop \in 0..Len(q)
  BY <1>1, <1>2, <1>3
<1>5. Due(ind, q) = IF stop = 0 THEN Len(q) ELSE stop - 1
  BY DEF Due
<1> HIDE DEF stop
<1>6. QED
  BY <1>2, <1>4, <1>5

\* The elements of a sequence, by their places.
LEMMA ToSetIs ==
    ASSUME NEW S, NEW q \in Seq(S)
    PROVE  \A x : x \in ToSet(q) <=> \E i \in 1..Len(q) : x = q[i]
<1>1. DOMAIN q = 1..Len(q)
  OBVIOUS
<1>2. QED
  BY <1>1, Zenon DEF ToSet

\* Where each frame is once n was put into the buffer.
LEMMA EnqueuePlaces ==
    ASSUME NEW q \in Seq(Frames), NEW n \in Frames, NEW c,
           c = IF Place(q, n) = 0 THEN Len(q) + 1 ELSE Place(q, n)
    PROVE  /\ c \in 1..(Len(q) + 1)
           /\ Enqueue(q, n) \in Seq(Frames) /\ Len(Enqueue(q, n)) = Len(q) + 1
           /\ \A i \in 1..(Len(q) + 1) :
                 Enqueue(q, n)[i] = IF i < c THEN q[i] ELSE IF i = c THEN n ELSE q[i - 1]
<1> DEFINE k == Place(q, n)
<1>1. Len(q) \in Nat /\ k \in 0..Len(q)
  BY LenProperties, PlaceRange
<1>2. c = IF k = 0 THEN Len(q) + 1 ELSE k
  OBVIOUS
<1> HIDE DEF k
<1>3. CASE k = 0
  <2> DEFINE e == Append(q, n)
  <2>1. Enqueue(q, n) = e
    BY <1>3 DEF Enqueue, k
  <2>2. e \in Seq(Frames) /\ Len(e) = Len(q) + 1
    BY AppendProperties
  <2>3. \A i \in 1..(Len(q) + 1) : e[i] = IF i = Len(q) + 1 THEN n ELSE q[i]
    BY <1>1
  <2> HIDE DEF e
  <2>4. c = Len(q) + 1
    BY <1>2, <1>3
  <2>5. ASSUME NEW i \in 1..(Len(q) + 1)
        PROVE  e[i] = IF i < c THEN q[i] ELSE IF i = c THEN n ELSE q[i - 1]
    BY <1>1, <2>3, <2>4
  <2>6. QED
    BY <1>1, <2>1, <2>2, <2>4, <2>5
<1>4. CASE k # 0
  <2> DEFINE a == SubSeq(q, 1, k - 1)
             b == SubSeq(q, k, Len(q))
  <2>1. Enqueue(q, n) = (a \o <<n>>) \o b
    BY <1>4 DEF Enqueue, InsertAt, k
  <2>2. a \in Seq(Frames) /\ Len(a) = k - 1 /\ \A i \in 1..(k - 1) : a[i] = q[i]
    BY <1>1, <1>4
  <2>3. /\ b \in Seq(Frames) /\ Len(b) = Len(q) - k + 1
        /\ \A i \in 1..(Len(q) - k + 1) : b[i] = q[i + k - 1]
    BY <1>1, <1>4
  <2> HIDE DEF a, b
  <2> DEFINE d == a \o <<n>>
             e == d \o b
  <2>4. /\ d \in Seq(Frames) /\ Len(d) = k
        /\ \A i \in 1..k : d[i] = IF i = k THEN n ELSE q[i]
    BY <1>1, <1>4, <2>2
  <2> HIDE DEF d
  <2>5. e \in Seq(Frames) /\ Len(e) = Len(q) + 1
    <3>1. e \in Seq(Frames) /\ Len(e) = Len(d) + Len(b)
      BY <2>3, <2>4, ConcatProperties
    <3>2. QED
      BY <1>1, <2>3, <2>4, <3>1
  <2>6. ASSUME NEW i \in 1..(Len(q) + 1)
        PROVE  e[i] = IF i < k THEN q[i] ELSE IF i = k THEN n ELSE q[i - 1]
    <3>1. CASE i =< k
      <4>1. i \in 1..k /\ e[i] = d[i]
        BY <1>1, <1>4, <2>4, <2>3, <3>1
      <4>2. d[i] = IF i = k THEN n ELSE q[i]
        BY <2>4, <4>1
      <4>3. QED
        BY <1>1, <3>1, <4>1, <4>2
    <3>2. CASE i > k
      <4>1. i - k \in 1..(Len(q) - k + 1) /\ e[i] = b[i - k]
        BY <1>1, <1>4, <2>4, <2>3, <3>2
      <4>2. b[i - k] = q[i - 1]
        BY <1>1, <1>4, <2>3, <3>2, <4>1
      <4>3. QED
        BY <1>1, <1>4, <3>2, <4>1, <4>2
    <3>3. i =< k \/ i > k
      BY <1>1
    <3>4. QED
      BY <3>1, <3>2, <3>3, Zenon
  <2> HIDE DEF e
  <2>7. c = k
    BY <1>2, <1>4
  <2>8. Enqueue(q, n) = e
    BY <2>1 DEF e, d
  <2>9. QED
    BY <1>1, <1>4, <2>5, <2>6, <2>7, <2>8
<1>5. QED
  BY <1>3, <1>4

\* What is in the buffer once n is.
LEMMA EnqueueAdds ==
    ASSUME NEW q \in Seq(Frames), NEW n \in Frames
    PROVE  /\ Enqueue(q, n) \in Seq(Frames)
           /\ Len(Enqueue(q, n)) = Len(q) + 1
           /\ ToSet(Enqueue(q, n)) = ToSet(q) \cup {n}
<1> DEFINE c == IF Place(q, n) = 0 THEN Len(q) + 1 ELSE Place(q, n)
           e == Enqueue(q, n)
<1>1. /\ c \in 1..(Len(q) + 1) /\ e \in Seq(Frames) /\ Len(e) = Len(q) + 1
      /\ \A i \in 1..(Len(q) + 1) :
            e[i] = IF i < c THEN q[i] ELSE IF i = c THEN n ELSE q[i - 1]
  BY EnqueuePlaces
<1>2. Len(q) \in Nat
  BY LenProperties
<1> HIDE DEF c, e
<1>3. ToSet(e) \subseteq ToSet(q) \cup {n}
  <2>1. ASSUME NEW i \in 1..(Len(q) + 1) PROVE e[i] \in ToSet(q) \cup {n}
    <3>1. CASE i < c
      BY <1>1, <1>2, <3>1, ToSetIs
    <3>2. CASE i >= c
      BY <1>1, <1>2, <3>2, ToSetIs
    <3>3. QED
      BY <1>1, <1>2, <3>1, <3>2
  <2>2. QED
    BY <1>1, <2>1, ToSetIs
<1>4. n \in ToSet(e)
  <2>1. e[c] = n /\ c \in 1..Len(e)
    BY <1>1, <1>2
  <2>2. QED
    BY <1>1, <2>1, ToSetIs
<1>5. ASSUME NEW i \in 1..Len(q) PROVE q[i] \in ToSet(e)
  <2>1. CASE i < c
    BY <1>1, <1>2, <2>1, ToSetIs
  <2>2. CASE i >= c
    <3>1. i + 1 \in 1..(Len(q) + 1) /\ e[i + 1] = q[i]
      BY <1>1, <1>2, <2>2
    <3>2. QED
      BY <1>1, <3>1, ToSetIs
  <2>3. QED
    BY <1>1, <1>2, <2>1, <2>2
<1>6. ToSet(q) \subseteq ToSet(e)
  BY <1>5, ToSetIs
<1>7. QED
  BY <1>1, <1>3, <1>4, <1>6 DEF e

\* What is indicated and what stays are together what was there.
LEMMA IndicateSplits ==
    ASSUME NEW q \in Seq(Frames), NEW k \in 0..Len(q), Indicate(q, k), out \in SUBSET Frames
    PROVE  /\ buf' \in Seq(Frames) /\ Len(buf') = Len(q) - k
           /\ out' \in SUBSET Frames
           /\ out \cup ToSet(q) = out' \cup ToSet(buf')
<1> DEFINE a == SubSeq(q, 1, k)
           b == SubSeq(q, k + 1, Len(q))
<1>1. Len(q) \in Nat
  BY LenProperties
<1>2. a \in Seq(Frames) /\ Len(a) = k /\ \A i \in 1..k : a[i] = q[i]
  BY <1>1
<1>3. /\ b \in Seq(Frames) /\ Len(b) = Len(q) - k
      /\ \A i \in 1..(Len(q) - k) : b[i] = q[i + k]
  BY <1>1
<1>4. buf' = b /\ out' = out \cup ToSet(a)
  BY DEF Indicate
<1> HIDE DEF a, b
<1>5. ToSet(a) \subseteq ToSet(q) /\ ToSet(b) \subseteq ToSet(q) /\ ToSet(q) \subseteq Frames
  <2>1. \A i \in 1..Len(q) : q[i] \in Frames /\ q[i] \in ToSet(q)
    BY <1>1, ToSetIs
  <2>2. ToSet(q) \subseteq Frames
    BY <2>1, ToSetIs
  <2>3. ToSet(a) \subseteq ToSet(q)
    BY <1>1, <1>2, <2>1, ToSetIs
  <2>4. \A i \in 1..(Len(q) - k) : b[i] \in ToSet(q)
    BY <1>1, <1>3, <2>1
  <2>5. ToSet(b) \subseteq ToSet(q)
    BY <1>3, <2>4, ToSetIs
  <2>6. QED
    BY <2>2, <2>3, <2>5
<1>6. ASSUME NEW i \in 1..Len(q) PROVE q[i] \in ToSet(a) \cup ToSet(b)
  <2>1. CASE i =< k
    BY <1>1, <1>2, <2>1, ToSetIs
  <2>2. CASE i > k
    <3>1. i - k \in 1..(Len(q) - k) /\ b[i - k] = q[i]
      BY <1>1, <1>3, <2>2
    <3>2. QED
      BY <1>3, <3>1, ToSetIs
  <2>3. QED
    BY <1>1, <2>1, <2>2
<1>7. ToSet(q) \subseteq ToSet(a) \cup ToSet(b)
  BY <1>6, ToSetIs
<1>8. QED
  BY <1>3, <1>4, <1>5, <1>7

-----------------------------------------------------------------------------
(* The inductive invariant: the property, and what holds between the steps *)
(* of the threads.  The bus thread has a frame in hand between its lookup  *)
(* and the lock, and only a teardown that frees memory in use ends it.     *)

Steps ==
    /\ rx = "found" => hand \in Frames
    /\ rx = "undefined" <=> de = "dangling"
    /\ rx = "undefined" => ~timer /\ ~irq /\ ~work /\ ~worker

IInv == TypeOK /\ Steps /\ PoolWhole

LEMMA InitIInv == Init => IInv
<1> SUFFICES ASSUME Init PROVE IInv
  OBVIOUS
<1>1. Len(buf) = 0 /\ buf \in Seq(Frames)
  BY DEF Init
<1>2. TypeOK
  <2>1. DOMAIN ctl = DOMAIN Fresh /\ {ctl.linked, ctl.enable} \subseteq BOOLEAN
    BY DEF Init, Absent, Fresh
  <2>2. {irq, work, worker, down} \subseteq BOOLEAN
    BY DEF Init
  <2>3. used \in [Faults -> Nat] /\ free \in 0..PoolSize
    BY SeqAssumption DEF Init
  <2>4. QED
    BY <1>1, <2>1, <2>2, <2>3 DEF Init, TypeOK
<1>3. Steps /\ PoolWhole
  BY <1>1, SeqAssumption DEF Init, Steps, PoolWhole
<1>4. QED
  BY <1>2, <1>3 DEF IInv

LEMMA Typed ==
    ASSUME IInv
    PROVE  /\ buf \in Seq(Frames) /\ Len(buf) \in Nat /\ ToSet(buf) \in SUBSET Frames
           /\ free \in Nat /\ PoolSize \in Nat
<1>1. buf \in Seq(Frames) /\ Len(buf) \in Nat
  BY LenProperties DEF IInv, TypeOK
<1>2. ToSet(buf) \in SUBSET Frames
  BY <1>1, ToSetIs
<1>3. QED
  BY <1>1, <1>2, SeqAssumption DEF IInv, TypeOK

\* What every step does to the fields of the control.
Fields == DOMAIN ctl = DOMAIN Fresh /\ {ctl.linked, ctl.enable} \subseteq BOOLEAN

LEMMA FieldsKept ==
    ASSUME Fields, NEW i,
           \/ ctl' \in {ctl, Fresh, Absent}
           \/ ctl' = [ctl EXCEPT !.ind = i] \/ ctl' = [ctl EXCEPT !.enable = FALSE]
    PROVE  Fields'
<1>1. CASE ctl' \in {ctl, Fresh, Absent}
  <2>1. CASE ctl' = ctl
    BY <2>1 DEF Fields
  <2>2. CASE ctl' = Fresh
    BY <2>2 DEF Fields, Fresh
  <2>3. CASE ctl' = Absent
    <3>1. DOMAIN Absent = DOMAIN Fresh
      BY DEF Absent, Fresh
    <3>2. Absent.linked = FALSE /\ Absent.enable = FALSE
      BY DEF Absent
    <3>3. QED
      BY <2>3, <3>1, <3>2 DEF Fields
  <2>4. QED
    BY <1>1, <2>1, <2>2, <2>3
<1>2. CASE ctl' = [ctl EXCEPT !.ind = i]
  <2>1. DOMAIN ctl' = DOMAIN ctl
    BY <1>2, Zenon
  <2>2. ctl'.linked = ctl.linked /\ ctl'.enable = ctl.enable
    BY <1>2
  <2>3. QED
    BY <2>1, <2>2 DEF Fields
<1>3. CASE ctl' = [ctl EXCEPT !.enable = FALSE]
  <2>1. DOMAIN ctl' = DOMAIN ctl
    BY <1>3, Zenon
  <2>2. DOMAIN ctl = {"linked", "enable", "ind"}
    BY DEF Fields, Fresh
  <2>3. ctl'.linked = ctl.linked /\ ctl'.enable = FALSE
    BY <1>3, <2>2
  <2>4. QED
    BY <2>1, <2>3 DEF Fields
<1>4. QED
  BY <1>1, <1>2, <1>3

LEMMA BelowFrames == ASSUME NEW n \in Frames, NEW k \in Nat PROVE Below(n - k) \in SUBSET Frames
BY SeqAssumption DEF Below, Frames

\* A fault is counted.
LEMMA UseTyped ==
    ASSUME used \in [Faults -> Nat], NEW f \in Faults, Use(f)
    PROVE  used' \in [Faults -> Nat]
BY DEF Use

\* A frame arrives, or does not; it is in hand now or with the stack.
LEMMA ArrivalKeeps ==
    ASSUME IInv, NEW n \in Frames, NEW acked \in BOOLEAN,
           ReceiveDirect(n, acked) \/ ReceiveNoControl(n, acked) \/ Receive(n, acked)
    PROVE  IInv'
<1> USE Typed
<1>1. /\ air' \in SUBSET Frames /\ got' \in SUBSET Frames /\ used' \in [Faults -> Nat]
      /\ rx = "idle" /\ free > 0
  BY DEF ReceiveDirect, ReceiveNoControl, Receive, Arrives, Use, IInv, TypeOK, Faults
<1>2. CASE ReceiveDirect(n, acked) \/ ReceiveNoControl(n, acked)
  <2>1. /\ UNCHANGED <<free, ctl, buf, clock, down, rx, hand, de, gone>>
        /\ out' = out \cup {n} /\ passed' \in {passed, passed \cup Below(n - 0)}
    BY <1>2, SeqAssumption DEF ReceiveDirect, ReceiveNoControl, Frames
  <2>2. passed' \in SUBSET Frames
    BY <2>1, BelowFrames DEF IInv, TypeOK
  <2>3. TypeOK'
    BY <1>1, <2>1, <2>2 DEF IInv, TypeOK, clock
  <2>4. QED
    BY <1>1, <2>1, <2>3 DEF IInv, Steps, PoolWhole, clock
<1>3. CASE Receive(n, acked)
  <2>1. Fields'
    BY <1>3, FieldsKept DEF Receive, IInv, TypeOK, Fields
  <2>2. QED
    BY <1>1, <1>3, <2>1 DEF Receive, Fields, clock, IInv, TypeOK, Steps, PoolWhole
<1>4. QED
  BY <1>2, <1>3

\* What the receiver gives up on are frames.
LEMMA PassedTyped ==
    ASSUME NEW n \in Frames, passed \in SUBSET Frames
    PROVE  /\ passed \cup Below(n) \in SUBSET Frames
           /\ passed \cup PassedBy(n) \in SUBSET Frames
BY SeqAssumption DEF PassedBy, Below, Frames

\* The frame in hand is done with without entering the buffer.
LEMMA HandKeeps ==
    ASSUME IInv, ProcessDisabled \/ ProcessLate \/ ProcessCopy
    PROVE  IInv'
<1> USE Typed
<1>1. /\ rx = "found" /\ rx' = "idle" /\ hand' = NoFrame /\ free' = free + 1
      /\ UNCHANGED <<net, buf, clock, down, de, got>>
  BY DEF ProcessDisabled, ProcessLate, ProcessCopy, IndicateHand, Done
<1>2. hand \in Frames /\ de # "dangling"
  BY <1>1 DEF IInv, Steps
<1>3. free' \in 0..PoolSize /\ PoolWhole'
  BY <1>1 DEF IInv, PoolWhole
<1>4. Steps'
  BY <1>1, <1>2 DEF IInv, Steps, net, clock
<1>5. Fields'
  BY FieldsKept DEF ProcessDisabled, ProcessLate, ProcessCopy, IInv, TypeOK, Fields
<1>6. /\ out' \in {out, out \cup {hand}} /\ gone' \in {gone, gone \cup {hand}}
      /\ passed' \in {passed, passed \cup Below(hand), passed \cup PassedBy(hand)}
  BY DEF ProcessDisabled, ProcessLate, ProcessCopy, IndicateHand
<1>7. out' \in SUBSET Frames /\ gone' \in SUBSET Frames /\ passed' \in SUBSET Frames
  BY <1>2, <1>6, PassedTyped DEF IInv, TypeOK
<1>8. TypeOK'
  BY <1>1, <1>3, <1>5, <1>7 DEF IInv, TypeOK, Fields, net, clock
<1>9. QED
  BY <1>3, <1>4, <1>8 DEF IInv

\* The frame enters the buffer, and what is due leaves it.
LEMMA FrameKeeps == ASSUME IInv, ProcessFrame PROVE IInv'
<1> USE Typed
<1> DEFINE q == Enqueue(buf, hand)
           p == Process(Check.ind, q)
           k == Due(p.ind, q)
<1>1. /\ rx = "found" /\ rx' = "idle" /\ hand' = NoFrame /\ hand \in Frames
      /\ UNCHANGED <<net, irq, work, worker, down, de, got, gone>>
  BY DEF ProcessFrame, IInv, Steps
<1>2. /\ ctl' = [ctl EXCEPT !.ind = p.ind] /\ timer' = p.more
      /\ Indicate(q, k) /\ free' = free + k /\ passed' = passed \cup PassedBy(hand)
  BY DEF ProcessFrame
<1>3. q \in Seq(Frames) /\ Len(q) = Len(buf) + 1
  BY <1>1, EnqueueAdds
<1>4. k \in 0..Len(q)
  BY <1>3, DueRange
<1> HIDE DEF q, p, k
<1>5. buf' \in Seq(Frames) /\ Len(buf') = Len(q) - k /\ out' \in SUBSET Frames
  BY <1>2, <1>3, <1>4, IndicateSplits DEF IInv, TypeOK
<1>6. free' \in 0..PoolSize /\ PoolWhole'
  BY <1>1, <1>2, <1>3, <1>4, <1>5 DEF IInv, PoolWhole
<1>7. Fields'
  BY <1>2, FieldsKept DEF IInv, TypeOK, Fields
<1>8. passed' \in SUBSET Frames
  BY <1>1, <1>2, PassedTyped DEF IInv, TypeOK
<1>9. TypeOK'
  BY <1>1, <1>2, <1>5, <1>6, <1>7, <1>8 DEF IInv, TypeOK, Fields, net
<1>10. QED
  BY <1>1, <1>6, <1>9 DEF IInv, Steps

-----------------------------------------------------------------------------
(* The flush, the timeouts and the teardown.                               *)

\* What a step that leaves the descriptors and the buffer alone has to keep.
LEMMA QuietKeeps ==
    ASSUME IInv, UNCHANGED <<free, buf, hist, hand>>,
           air' \in SUBSET Frames, used' \in [Faults -> Nat], Fields',
           {irq', work', worker', down'} \subseteq BOOLEAN,
           \/ UNCHANGED <<rx, de>> /\ (rx = "undefined" => ~timer' /\ ~irq' /\ ~work' /\ ~worker')
           \/ /\ UNCHANGED de /\ rx \notin {"found", "undefined"}
              /\ rx' \in {"idle", "flush", "stop_timer", "stop_work"}
           \/ /\ UNCHANGED <<rx, timer, irq, work, worker>> /\ de # "dangling"
              /\ de' \in {"idle", "timer", "work", "list", "free"}
    PROVE  IInv'
<1>1. TypeOK'
  BY DEF IInv, TypeOK, Fields, hist, Steps
<1>2. Steps'
  BY DEF IInv, Steps
<1>3. PoolWhole'
  BY DEF IInv, PoolWhole, Steps
<1>4. QED
  BY <1>1, <1>2, <1>3 DEF IInv

LEMMA QuietSteps ==
    ASSUME IInv,
           \/ GiveUp \/ ReceiveNoDescriptor \/ FlushLookup \/ FlushStopTimer \/ FlushCancelWork
           \/ TimerExpires \/ TimeoutHandler \/ WorkStarts \/ BusDown
           \/ DeinitStart \/ DeinitStopTimer \/ DeinitCancelWork \/ DeinitFree
    PROVE  IInv'
<1>1. /\ air \in SUBSET Frames /\ used \in [Faults -> Nat] /\ Fields
      /\ {irq, work, worker, down} \subseteq BOOLEAN
      /\ rx = "undefined" <=> de = "dangling"
      /\ rx = "undefined" => ~timer /\ ~irq /\ ~work /\ ~worker
  BY DEF IInv, TypeOK, Fields, Steps
<1>2. {"loss", "flush", "deinit"} \subseteq Faults
  BY DEF Faults
<1>3. CASE GiveUp \/ ReceiveNoDescriptor
  <2>1. Fields' /\ used' \in [Faults -> Nat]
    BY <1>1, <1>2, <1>3, UseTyped DEF GiveUp, ReceiveNoDescriptor, Fields
  <2>2. QED
    BY <1>1, <1>3, <2>1, QuietKeeps DEF GiveUp, ReceiveNoDescriptor, clock
<1>4. CASE FlushLookup
  <2>1. Fields' /\ used' \in [Faults -> Nat]
    BY <1>1, <1>2, <1>4, UseTyped DEF FlushLookup, Fields
  <2>2. QED
    BY <1>1, <1>4, <2>1, QuietKeeps DEF FlushLookup, clock
<1>5. CASE FlushStopTimer \/ FlushCancelWork
  <2>1. Fields'
    BY <1>1, <1>5 DEF FlushStopTimer, FlushCancelWork, Fields
  <2>2. QED
    BY <1>1, <1>5, <2>1, QuietKeeps DEF FlushStopTimer, FlushCancelWork, StopTimer, CancelWork, net
<1>6. CASE TimerExpires \/ TimeoutHandler \/ WorkStarts \/ BusDown
  <2>1. Fields'
    BY <1>1, <1>6 DEF TimerExpires, TimeoutHandler, WorkStarts, BusDown, Fields
  <2>2. {irq', work', worker', down'} \subseteq BOOLEAN
    BY <1>1, <1>6 DEF TimerExpires, TimeoutHandler, WorkStarts, BusDown, clock
  <2>3. QED
    BY <1>1, <1>6, <2>1, <2>2, QuietKeeps
       DEF TimerExpires, TimeoutHandler, WorkStarts, BusDown, net, clock
<1>7. CASE DeinitStart
  <2>1. Fields' /\ used' \in [Faults -> Nat]
    BY <1>1, <1>2, <1>7, UseTyped, FieldsKept DEF DeinitStart
  <2>2. QED
    BY <1>1, <1>7, <2>1, QuietKeeps DEF DeinitStart, clock
<1>8. CASE DeinitStopTimer \/ DeinitCancelWork
  <2>1. Fields' /\ rx # "undefined"
    BY <1>1, <1>8 DEF DeinitStopTimer, DeinitCancelWork, Fields
  <2>2. ~(rx' = "undefined") /\ UNCHANGED rx /\ de' \in {"work", "list"}
    BY <1>8, <2>1 DEF DeinitStopTimer, DeinitCancelWork
  <2>3. TypeOK' /\ Steps' /\ PoolWhole'
    BY <1>1, <1>8, <2>1, <2>2
       DEF DeinitStopTimer, DeinitCancelWork, StopTimer, CancelWork,
           net, hist, IInv, TypeOK, Steps, PoolWhole, Fields
  <2>4. QED
    BY <2>3 DEF IInv
<1>9. CASE DeinitFree
  <2>1. Fields'
    BY <1>1, <1>9, FieldsKept DEF DeinitFree
  <2>2. QED
    BY <1>1, <1>9, <2>1, QuietKeeps DEF DeinitFree, net, clock
<1>10. QED
  BY <1>3, <1>4, <1>5, <1>6, <1>7, <1>8, <1>9

\* The whole buffer goes up.
LEMMA FlushKeeps == ASSUME IInv, FlushBuffer PROVE IInv'
<1> USE Typed
<1>1. /\ rx = "flush" /\ rx' = "stop_timer"
      /\ UNCHANGED <<net, timer, irq, work, worker, down, hand, de, got, gone>>
      /\ free' = free + Len(buf) /\ Indicate(buf, Len(buf))
      /\ ctl' = [ctl EXCEPT !.enable = FALSE]
      /\ passed' = passed \cup (IF buf = <<>> THEN {} ELSE Below(buf[Len(buf)]))
  BY DEF FlushBuffer, clock
<1>2. buf' \in Seq(Frames) /\ Len(buf') = 0 /\ out' \in SUBSET Frames
  BY <1>1, IndicateSplits DEF IInv, TypeOK
<1>3. free' \in 0..PoolSize /\ PoolWhole'
  BY <1>1, <1>2 DEF IInv, PoolWhole
<1>4. Fields'
  BY <1>1, FieldsKept DEF IInv, TypeOK, Fields
<1>5. passed' \in SUBSET Frames
  <2>1. buf # <<>> => buf[Len(buf)] \in Frames
    OBVIOUS
  <2>2. passed \in SUBSET Frames
    BY DEF IInv, TypeOK
  <2>3. QED
    BY <1>1, <2>1, <2>2, PassedTyped
<1>6. TypeOK'
  BY <1>1, <1>2, <1>3, <1>4, <1>5 DEF IInv, TypeOK, Fields, net
<1>7. QED
  BY <1>1, <1>3, <1>6 DEF IInv, Steps

\* The gap is given up, and what is due leaves the buffer.
LEMMA WorkerKeeps == ASSUME IInv, TimeoutWorker PROVE IInv'
<1> USE Typed
<1> DEFINE p == Process(Forced, buf)
           k == Due(p.ind, buf)
<1>1. /\ worker /\ worker' = FALSE
      /\ UNCHANGED <<net, irq, work, down, rx, hand, de, got, gone>>
      /\ passed' = passed \cup (IF buf = <<>> THEN {} ELSE Below(Head(buf)))
  BY DEF TimeoutWorker
<1>2. ctl' = [ctl EXCEPT !.ind = p.ind] /\ Indicate(buf, k) /\ free' = free + k
  BY DEF TimeoutWorker
<1>3. k \in 0..Len(buf)
  BY DueRange
<1> HIDE DEF p, k
<1>4. buf' \in Seq(Frames) /\ Len(buf') = Len(buf) - k /\ out' \in SUBSET Frames
  BY <1>2, <1>3, IndicateSplits DEF IInv, TypeOK
<1>5. rx # "undefined"
  BY <1>1 DEF IInv, Steps
<1>6. free' \in 0..PoolSize /\ PoolWhole'
  BY <1>1, <1>2, <1>3, <1>4, <1>5 DEF IInv, PoolWhole
<1>7. Fields'
  BY <1>2, FieldsKept DEF IInv, TypeOK, Fields
<1>8. passed' \in SUBSET Frames
  <2>1. buf # <<>> => Head(buf) \in Frames
    OBVIOUS
  <2>2. passed \in SUBSET Frames
    BY DEF IInv, TypeOK
  <2>3. QED
    BY <1>1, <2>1, <2>2, PassedTyped
<1>9. TypeOK'
  BY <1>1, <1>4, <1>6, <1>7, <1>8 DEF IInv, TypeOK, Fields, net
<1>10. QED
  BY <1>1, <1>5, <1>6, <1>9 DEF IInv, Steps

\* The teardown empties the buffer; it may free a control that is in use.
LEMMA DeinitKeeps == ASSUME IInv, DeinitList \/ DeinitDangling PROVE IInv'
<1> USE Typed
<1>1. CASE DeinitList
  <2>1. /\ Fields' /\ buf' = <<>> /\ Len(buf') = 0 /\ rx # "undefined"
    BY <1>1 DEF DeinitList, IInv, TypeOK, Fields, Steps
  <2>2. free' \in 0..PoolSize /\ PoolWhole'
    BY <1>1, <2>1 DEF DeinitList, IInv, TypeOK, PoolWhole
  <2>3. gone' \in SUBSET Frames
    BY <1>1 DEF DeinitList, IInv, TypeOK
  <2>4. TypeOK' /\ Steps'
    BY <1>1, <2>1, <2>2, <2>3 DEF DeinitList, IInv, TypeOK, Fields, Steps, net, clock
  <2>5. QED
    BY <2>2, <2>4 DEF IInv
<1>2. CASE DeinitDangling
  <2>1. Fields'
    BY <1>2, FieldsKept DEF DeinitDangling, IInv, TypeOK, Fields
  <2>2. QED
    BY <1>2, <2>1 DEF DeinitDangling, IInv, TypeOK, Fields, Steps, PoolWhole, net, hist
<1>3. QED
  BY <1>1, <1>2

-----------------------------------------------------------------------------
LEMMA Inductive == ASSUME IInv, [Next]_vars PROVE IInv'
<1>1. CASE BusThread
  BY <1>1, ArrivalKeeps, HandKeeps, FrameKeeps, FlushKeeps, QuietSteps DEF BusThread
<1>2. CASE Timeout
  BY <1>2, WorkerKeeps, QuietSteps DEF Timeout
<1>3. CASE Teardown
  BY <1>3, DeinitKeeps, QuietSteps DEF Teardown
<1>4. CASE GiveUp \/ BusDown
  BY <1>4, QuietSteps
<1>5. CASE UNCHANGED vars
  BY <1>5 DEF vars, net, clock, hist, IInv, TypeOK, Steps, PoolWhole
<1>6. QED
  BY <1>1, <1>2, <1>3, <1>4, <1>5 DEF Next

LEMMA Invariance == Spec => []IInv
BY InitIInv, Inductive, PTL DEF Spec

\* Every variable of the reordering keeps its type.
THEOREM TypeCorrect == Spec => []TypeOK
<1>1. IInv => TypeOK
  BY DEF IInv
<1>2. QED
  BY <1>1, Invariance, PTL

\* rwnx_rx.c takes a descriptor in rwnx_rxdataind_aicwf and gives it back in
\* reord_single_frame_ind, in reord_process_unit or in a teardown: none of the
\* paths a frame may take loses one or gives one back twice, whatever the
\* window, the sizes and the order in which the threads run.
THEOREM PoolWholeHolds == Spec => []PoolWhole
<1>1. IInv => PoolWhole
  BY DEF IInv
<1>2. QED
  BY <1>1, Invariance, PTL

-----------------------------------------------------------------------------
(* The buffer in stream order: what enqueueing, the scan and the           *)
(* indication make of it when sequence numbers compare as positions do.    *)

\* A buffer in stream order.
Sorted(q) == \A i, j \in 1..Len(q) : i < j => q[i] < q[j]

\* Positions so near to n that sequence numbers compare as the positions do.
Close(S, n) == \A m \in S : m - n < Half /\ n - m < Half

\* Positions are integers.
LEMMA FramesInt == Frames \subseteq Int /\ NoFrame \in Int /\ NoFrame \notin Frames
BY SizesHold DEF Frames, NoFrame

\* The elements of a buffer are positions.
LEMMA ElementsInt ==
    ASSUME NEW q \in Seq(Frames)
    PROVE  Len(q) \in Nat /\ \A i \in 1..Len(q) : q[i] \in Int /\ q[i] \in ToSet(q)
<1>1. Len(q) \in Nat
  BY LenProperties
<1>2. ASSUME NEW i \in 1..Len(q) PROVE q[i] \in ToSet(q)
  BY ToSetIs
<1>3. ASSUME NEW i \in 1..Len(q) PROVE q[i] \in Int
  <2>1. q[i] \in Frames
    BY <1>1
  <2>2. QED
    BY <2>1, FramesInt
<1>4. QED
  BY <1>1, <1>2, <1>3

\* A frame goes before the first that is not below it.
LEMMA PlaceIs ==
    ASSUME NEW q \in Seq(Frames), NEW n \in Frames, Close(ToSet(q), n), NEW k, k = Place(q, n)
    PROVE  /\ k \in 0..Len(q)
           /\ k = 0 => \A i \in 1..Len(q) : q[i] < n
           /\ k # 0 => q[k] >= n /\ \A i \in 1..(k - 1) : q[i] < n
<1> DEFINE I == {i \in 1..Len(q) : ~Less(Sn(q[i]), Sn(n))}
<1>1. k = IF I # {} THEN Min(I) ELSE 0
  BY DEF Place, SelectInSeq
<1>2. Len(q) \in Nat /\ \A i \in 1..Len(q) : q[i] \in Frames /\ q[i] \in ToSet(q)
  BY LenProperties, ToSetIs
<1>3. \A i \in 1..Len(q) : Less(Sn(q[i]), Sn(n)) <=> q[i] < n
  BY <1>2, LessIs, FramesInt DEF Close
<1>4. CASE I = {}
  BY <1>1, <1>2, <1>3, <1>4
<1>5. CASE I # {}
  <2>1. I \in SUBSET Nat /\ k = Min(I)
    BY <1>1, <1>2, <1>5
  <2>2. k \in I /\ \A y \in I : k =< y
    BY <1>5, <2>1, MinLeast
  <2>3. \A i \in 1..(k - 1) : i \in 1..Len(q) /\ i \notin I
    BY <1>2, <2>2
  <2> HIDE DEF I
  <2>4. k \in 1..Len(q) /\ ~Less(Sn(q[k]), Sn(n))
    BY <2>2 DEF I
  <2>5. \A i \in 1..(k - 1) : Less(Sn(q[i]), Sn(n))
    BY <2>3 DEF I
  <2>6. q[k] >= n
    <3>1. q[k] \in Int /\ n \in Int /\ ~(q[k] < n)
      BY <1>2, <1>3, <2>4, FramesInt
    <3>2. QED
      BY <3>1
  <2>7. QED
    BY <1>2, <1>3, <2>3, <2>4, <2>5, <2>6
<1>6. QED
  BY <1>4, <1>5

\* A frame is known exactly if it waits already.
LEMMA KnownIs ==
    ASSUME NEW q \in Seq(Frames), NEW n \in Frames, Close(ToSet(q), n), Sorted(q)
    PROVE  Known(q, n) <=> n \in ToSet(q)
<1> DEFINE k == Place(q, n)
<1>1. /\ k \in 0..Len(q)
      /\ k = 0 => \A i \in 1..Len(q) : q[i] < n
      /\ k # 0 => q[k] >= n /\ \A i \in 1..(k - 1) : q[i] < n
  BY PlaceIs
<1>2. Len(q) \in Nat /\ \A i \in 1..Len(q) : q[i] \in Frames /\ q[i] \in ToSet(q)
  BY LenProperties, ToSetIs
<1> HIDE DEF k
<1>3. ASSUME Known(q, n) PROVE n \in ToSet(q)
  <2>1. k \in 1..Len(q) /\ Sn(q[k]) = Sn(n)
    BY <1>1, <1>2, <1>3 DEF Known, k
  <2>2. q[k] = n
    BY <1>2, <2>1, SameIs, FramesInt DEF Close
  <2>3. QED
    BY <1>2, <2>1, <2>2
<1>4. ASSUME n \in ToSet(q) PROVE Known(q, n)
  <2>1. PICK i \in 1..Len(q) : q[i] = n
    BY <1>4, ToSetIs
  <2>2. n \in Int /\ q[i] \in Int
    BY <1>2, FramesInt
  <2>3. k # 0 /\ k =< i
    BY <1>1, <1>2, <2>1, <2>2
  <2>4. k \in 1..Len(q) /\ q[k] >= n
    BY <1>1, <1>2, <2>3
  <2>5. k = i
    <3>1. q[k] \in Int
      BY <1>2, <2>4, FramesInt
    <3>2. k < i => q[k] < q[i]
      BY <2>4 DEF Sorted
    <3>3. QED
      BY <1>2, <2>1, <2>2, <2>3, <2>4, <3>1, <3>2
  <2>6. QED
    BY <2>1, <2>3, <2>5 DEF Known, k
<1>5. QED
  BY <1>3, <1>4

\* A new frame leaves the buffer in order.
LEMMA EnqueueSorted ==
    ASSUME NEW q \in Seq(Frames), NEW n \in Frames, Close(ToSet(q), n), Sorted(q),
           n \notin ToSet(q)
    PROVE  Sorted(Enqueue(q, n))
<1> DEFINE k == Place(q, n)
           c == IF k = 0 THEN Len(q) + 1 ELSE k
           e == Enqueue(q, n)
<1>1. /\ c \in 1..(Len(q) + 1) /\ e \in Seq(Frames) /\ Len(e) = Len(q) + 1
      /\ \A i \in 1..(Len(q) + 1) :
            e[i] = IF i < c THEN q[i] ELSE IF i = c THEN n ELSE q[i - 1]
  BY EnqueuePlaces
<1>2. /\ k \in 0..Len(q)
      /\ k = 0 => \A i \in 1..Len(q) : q[i] < n
      /\ k # 0 => q[k] >= n /\ \A i \in 1..(k - 1) : q[i] < n
  BY PlaceIs
<1>3. /\ Len(q) \in Nat /\ n \in Int
      /\ \A i \in 1..Len(q) : q[i] \in Int /\ q[i] \in ToSet(q) /\ q[i] # n
  BY ElementsInt, FramesInt
<1>4. c = IF k = 0 THEN Len(q) + 1 ELSE k
  OBVIOUS
<1> HIDE DEF k, c, e
<1>5. \A i \in 1..Len(q) : i < c => q[i] < n
  BY <1>2, <1>3, <1>4
<1>6. ASSUME NEW i \in 1..Len(q), i >= c PROVE q[i] > n
  <2>1. k = c /\ k # 0 /\ k \in 1..Len(q)
    BY <1>1, <1>3, <1>4, <1>6
  <2>2. q[k] > n
    BY <1>2, <1>3, <2>1
  <2>3. k < i => q[k] < q[i]
    BY <2>1 DEF Sorted
  <2>4. QED
    BY <1>3, <1>6, <2>1, <2>2, <2>3
<1>7. ASSUME NEW i \in 1..(Len(q) + 1), NEW j \in 1..(Len(q) + 1), i < j
      PROVE  e[i] < e[j]
  <2>1. CASE j < c
    <3>1. i \in 1..Len(q) /\ j \in 1..Len(q) /\ e[i] = q[i] /\ e[j] = q[j]
      BY <1>1, <1>3, <1>7, <2>1
    <3>2. QED
      BY <1>7, <3>1 DEF Sorted
  <2>2. CASE j = c
    <3>1. i \in 1..Len(q) /\ e[i] = q[i] /\ e[j] = n /\ i < c
      BY <1>1, <1>3, <1>7, <2>2
    <3>2. QED
      BY <1>5, <3>1
  <2>3. CASE j > c /\ i < c
    <3>1. /\ i \in 1..Len(q) /\ j - 1 \in 1..Len(q) /\ j - 1 >= c
          /\ e[i] = q[i] /\ e[j] = q[j - 1]
      BY <1>1, <1>3, <1>7, <2>3
    <3>2. q[i] < n /\ q[j - 1] > n /\ q[i] \in Int /\ q[j - 1] \in Int
      BY <1>3, <1>5, <1>6, <2>3, <3>1
    <3>3. QED
      BY <1>3, <3>1, <3>2
  <2>4. CASE j > c /\ i = c
    <3>1. j - 1 \in 1..Len(q) /\ j - 1 >= c /\ e[i] = n /\ e[j] = q[j - 1]
      BY <1>1, <1>3, <1>7, <2>4
    <3>2. QED
      BY <1>3, <1>6, <3>1
  <2>5. CASE j > c /\ i > c
    <3>1. /\ i - 1 \in 1..Len(q) /\ j - 1 \in 1..Len(q) /\ i - 1 < j - 1
          /\ e[i] = q[i - 1] /\ e[j] = q[j - 1]
      BY <1>1, <1>3, <1>7, <2>5
    <3>2. QED
      BY <3>1 DEF Sorted
  <2>6. QED
    BY <1>1, <1>3, <2>1, <2>2, <2>3, <2>4, <2>5
<1>8. QED
  BY <1>1, <1>7 DEF Sorted, e

\* What the scan has found before each place of the buffer: that there is such a
\* function, and what Process returns of it.
Scan(ind, q, n, g) ==
    g = [i \in 0..n |-> IF i = 0 THEN [ind |-> ind, more |-> FALSE]
                        ELSE Advance(g[i - 1], Sn(q[i]))]

\* The scan over n frames has a result: otherwise there is a least n without.
LEMMA ScanExists ==
    ASSUME NEW ind, NEW q, NEW n \in Nat
    PROVE  \E g : Scan(ind, q, n, g)
<1> DEFINE I == {m \in Nat : ~ \E g : Scan(ind, q, m, g)}
           base == [ind |-> ind, more |-> FALSE]
<1>1. SUFFICES ASSUME I # {} PROVE FALSE
  OBVIOUS
<1>2. PICK m \in I : \A y \in I : m =< y
  <2>1. I \in SUBSET Nat
    OBVIOUS
  <2>2. QED
    BY <1>1, <2>1, MinLeast
<1>3. CASE m = 0
  <2> DEFINE h == [i \in 0..m |-> base]
  <2>1. h = [i \in 0..m |-> IF i = 0 THEN base ELSE Advance(h[i - 1], Sn(q[i]))]
    BY <1>3
  <2>2. Scan(ind, q, m, h)
    BY <2>1 DEF Scan
  <2>3. QED
    BY <1>2, <2>2
<1>4. CASE m # 0
  <2>1. m - 1 \in Nat /\ m - 1 \notin I
    BY <1>2, <1>4
  <2>2. PICK g : Scan(ind, q, m - 1, g)
    BY <2>1
  <2>3. g = [i \in 0..(m - 1) |-> IF i = 0 THEN base ELSE Advance(g[i - 1], Sn(q[i]))]
    BY <2>2 DEF Scan
  <2> DEFINE h == [i \in 0..m |-> IF i = m THEN Advance(g[m - 1], Sn(q[m])) ELSE g[i]]
  <2>4. ASSUME NEW i \in 0..m
        PROVE  h[i] = IF i = 0 THEN base ELSE Advance(h[i - 1], Sn(q[i]))
    <3>1. CASE i = m
      <4>1. h[i] = Advance(g[m - 1], Sn(q[m])) /\ h[i - 1] = g[m - 1]
        BY <1>2, <1>4, <3>1
      <4>2. QED
        BY <1>4, <3>1, <4>1
    <3>2. CASE i # m
      <4>1. i \in 0..(m - 1) /\ h[i] = g[i] /\ (i # 0 => h[i - 1] = g[i - 1])
        BY <1>2, <3>2
      <4>2. g[i] = IF i = 0 THEN base ELSE Advance(g[i - 1], Sn(q[i]))
        BY <2>3, <4>1
      <4>3. QED
        BY <4>1, <4>2
    <3>3. QED
      BY <3>1, <3>2
  <2>5. h = [i \in 0..m |-> IF i = 0 THEN base ELSE Advance(h[i - 1], Sn(q[i]))]
    <3> DEFINE f == [i \in 0..m |-> IF i = 0 THEN base ELSE Advance(h[i - 1], Sn(q[i]))]
    <3> HIDE DEF base
    <3>1. DOMAIN h = 0..m /\ DOMAIN f = 0..m
      OBVIOUS
    <3>2. \A i \in 0..m : f[i] = IF i = 0 THEN base ELSE Advance(h[i - 1], Sn(q[i]))
      OBVIOUS
    <3>3. \A i \in 0..m : h[i] = f[i]
      BY <2>4, <3>2
    <3>4. h = [i \in 0..m |-> h[i]] /\ f = [i \in 0..m |-> f[i]]
      OBVIOUS
    <3> HIDE DEF h, f
    <3>5. h = f
      BY <3>3, <3>4
    <3>6. QED
      BY <3>5 DEF f
  <2> HIDE DEF h
  <2>6. Scan(ind, q, m, h)
    BY <2>5 DEF Scan
  <2>7. QED
    BY <1>2, <2>6
<1>5. QED
  BY <1>3, <1>4

\* Process is that result.
LEMMA ProcessScans ==
    ASSUME NEW ind, NEW q, Len(q) \in Nat
    PROVE  \E g : Scan(ind, q, Len(q), g) /\ Process(ind, q) = g[Len(q)]
<1> DEFINE past == CHOOSE g : g = [i \in 0..Len(q) |->
                                     IF i = 0 THEN [ind |-> ind, more |-> FALSE]
                                     ELSE Advance(g[i - 1], Sn(q[i]))]
<1>1. Process(ind, q) = past[Len(q)]
  BY DEF Process
<1>2. \E g : g = [i \in 0..Len(q) |-> IF i = 0 THEN [ind |-> ind, more |-> FALSE]
                                     ELSE Advance(g[i - 1], Sn(q[i]))]
  <2>1. PICK g : Scan(ind, q, Len(q), g)
    BY ScanExists
  <2>2. g = [i \in 0..Len(q) |-> IF i = 0 THEN [ind |-> ind, more |-> FALSE]
                                 ELSE Advance(g[i - 1], Sn(q[i]))]
    BY <2>1 DEF Scan
  <2>3. QED
    BY <2>2, Zenon
<1>3. past = [i \in 0..Len(q) |-> IF i = 0 THEN [ind |-> ind, more |-> FALSE]
                                     ELSE Advance(past[i - 1], Sn(q[i]))]
  BY <1>2, Zenon
<1> HIDE DEF past
<1>4. Scan(ind, q, Len(q), past)
  BY <1>3 DEF Scan
<1>5. QED
  BY <1>1, <1>4

\* p2 is the first position from p on that is missing in q.
Gap(q, p, p2) == p2 >= p /\ p2 \notin ToSet(q) /\ \A n \in p..(p2 - 1) : n \in ToSet(q)

\* What the scan has established when it is past i frames.
ScanAt(q, p, acc, i, x) ==
    /\ acc.ind = Sn(x) /\ acc.more \in BOOLEAN /\ x >= p
    /\ \A n \in p..(x - 1) : n \in ToSet(q)
    /\ \A j \in 1..i : q[j] # x
    /\ IF acc.more THEN \E j \in 1..i : q[j] > x ELSE \A j \in 1..i : q[j] < x

\* One step of the scan, over the next frame of the buffer
LEMMA ScanStep ==
    ASSUME NEW q \in Seq(Frames), Sorted(q), NEW p \in Int, NEW lo \in Int,
           \A n \in ToSet(q) : n \in lo..(lo + Half - 2),
           NEW i \in 0..(Len(q) - 1), NEW acc, NEW x \in lo..(lo + Half - 1),
           ScanAt(q, p, acc, i, x)
    PROVE  \E y \in lo..(lo + Half - 1) : ScanAt(q, p, Advance(acc, Sn(q[i + 1])), i + 1, y)
<1> DEFINE n == q[i + 1]
           next == Advance(acc, Sn(n))
<1>1. /\ Len(q) \in Nat /\ i + 1 \in 1..Len(q) /\ n \in lo..(lo + Half - 2) /\ n \in ToSet(q)
      /\ \A j \in 1..Len(q) : q[j] \in Int
      /\ Half \in Nat /\ n \in Int /\ x \in Int
  <2>1. Len(q) \in Nat /\ Half \in Nat
    BY LenProperties, SizesHold
  <2>2. i + 1 \in 1..Len(q)
    BY <2>1
  <2>3. \A j \in 1..Len(q) : q[j] \in ToSet(q) /\ q[j] \in Int
    BY <2>1, ToSetIs, FramesInt
  <2>4. QED
    BY <2>1, <2>2, <2>3
<1>2. /\ acc.ind = Sn(x) /\ acc.more \in BOOLEAN /\ x >= p
      /\ \A m \in p..(x - 1) : m \in ToSet(q)
      /\ \A j \in 1..i : q[j] # x
      /\ IF acc.more THEN \E j \in 1..i : q[j] > x ELSE \A j \in 1..i : q[j] < x
  BY DEF ScanAt
<1>3. /\ next.ind = IF ~acc.more /\ acc.ind = Sn(n) THEN Succ(Sn(n)) ELSE acc.ind
      /\ next.more = (acc.more \/ Less(acc.ind, Sn(n)))
  BY DEF Advance
<1>4. (Less(Sn(x), Sn(n)) <=> x < n) /\ (Sn(x) = Sn(n) <=> x = n)
  <2>1. x - n < Half /\ n - x < Half
    BY <1>1
  <2>2. QED
    BY <1>1, <2>1, LessIs, SameIs
<1>5. \A j \in 1..(i + 1) : j \in 1..i \/ j = i + 1
  BY <1>1
<1>6. \A j \in 1..i : j \in 1..Len(q) /\ q[j] < n /\ q[j] \in Int
  BY <1>1 DEF Sorted
<1> HIDE DEF next
<1>7. CASE acc.more
  <2>1. next.ind = Sn(x) /\ next.more = TRUE
    BY <1>2, <1>3, <1>7
  <2>2. PICK j \in 1..i : q[j] > x
    BY <1>2, <1>7
  <2>3. n > x /\ n # x
    BY <1>1, <1>6, <2>2
  <2>4. j \in 1..(i + 1)
    BY <1>1
  <2> HIDE DEF n
  <2>5. \A k \in 1..(i + 1) : q[k] # x
    BY <1>2, <1>5, <2>3 DEF n
  <2>6. ScanAt(q, p, next, i + 1, x)
    BY <1>2, <2>1, <2>2, <2>4, <2>5 DEF ScanAt
  <2>7. QED
    BY <2>6 DEF next, n
<1>8. CASE ~acc.more /\ n < x
  <2>1. next.ind = Sn(x) /\ next.more = FALSE
    BY <1>1, <1>2, <1>3, <1>4, <1>8
  <2>2. \A k \in 1..(i + 1) : q[k] < x /\ q[k] # x
    BY <1>1, <1>2, <1>5, <1>6, <1>8
  <2>3. ScanAt(q, p, next, i + 1, x)
    BY <1>2, <2>1, <2>2 DEF ScanAt
  <2>4. QED
    BY <2>3 DEF next, n
<1>9. CASE ~acc.more /\ n = x
  <2>1. next.ind = Sn(x + 1) /\ next.more = FALSE
    <3>1. acc.ind = Sn(n) /\ next.ind = Succ(Sn(n))
      BY <1>2, <1>3, <1>9
    <3>2. Succ(Sn(n)) = Sn(x + 1)
      BY <1>1, <1>9, SuccIs
    <3>3. ~Less(acc.ind, Sn(n))
      BY <1>1, <1>2, <1>4, <1>9
    <3>4. QED
      BY <1>3, <1>9, <3>1, <3>2, <3>3
  <2>2. \A k \in 1..(i + 1) : q[k] < x + 1 /\ q[k] # x + 1
    BY <1>1, <1>2, <1>5, <1>6, <1>9
  <2>3. x + 1 \in lo..(lo + Half - 1) /\ x + 1 >= p
    BY <1>1, <1>2, <1>9
  <2>4. \A m \in p..(x + 1 - 1) : m \in ToSet(q)
    <3>1. ASSUME NEW m \in p..(x + 1 - 1) PROVE m \in p..(x - 1) \/ m = n
      BY <1>1, <1>9
    <3>2. QED
      BY <1>1, <1>2, <3>1
  <2>5. ScanAt(q, p, next, i + 1, x + 1)
    <3>1. next.more \in BOOLEAN /\ ~next.more
      BY <2>1
    <3>2. QED
      BY <2>1, <2>2, <2>3, <2>4, <3>1 DEF ScanAt
  <2>6. QED
    BY <2>3, <2>5 DEF next, n
<1>10. CASE ~acc.more /\ n > x
  <2>1. next.ind = Sn(x) /\ next.more = TRUE
    <3>1. Less(acc.ind, Sn(n)) /\ acc.ind # Sn(n)
      BY <1>1, <1>2, <1>4, <1>10
    <3>2. QED
      BY <1>2, <1>3, <3>1
  <2>2. i + 1 \in 1..(i + 1) /\ q[i + 1] > x /\ n # x
    BY <1>1, <1>10
  <2>3. \A k \in 1..(i + 1) : q[k] # x
    BY <1>2, <1>5, <2>2
  <2>4. ScanAt(q, p, next, i + 1, x)
    BY <1>2, <2>1, <2>2, <2>3 DEF ScanAt
  <2>5. QED
    BY <2>4 DEF next, n
<1>11. QED
  BY <1>1, <1>2, <1>7, <1>8, <1>9, <1>10

\* The scan moves ind to the first gap, and says whether a frame waits behind it.
LEMMA ProcessIs ==
    ASSUME NEW q \in Seq(Frames), Sorted(q), NEW lo \in Int, NEW p \in lo..(lo + Half - 1),
           \A n \in ToSet(q) : n \in lo..(lo + Half - 2)
    PROVE  \E p2 \in lo..(lo + Half - 1) :
              /\ Gap(q, p, p2) /\ Process(Sn(p), q).ind = Sn(p2)
              /\ Process(Sn(p), q).more <=> \E n \in ToSet(q) : n > p2
              /\ Process(Sn(p), q).more \in BOOLEAN
<1>1. /\ Len(q) \in Nat /\ Half \in Nat /\ p \in Int
      /\ \A j \in 1..Len(q) : q[j] \in Int /\ q[j] \in ToSet(q)
  BY LenProperties, SizesHold, ToSetIs, FramesInt
<1>2. PICK g : Scan(Sn(p), q, Len(q), g) /\ Process(Sn(p), q) = g[Len(q)]
  BY <1>1, ProcessScans
<1>3. \A i \in 0..Len(q) : g[i] = IF i = 0 THEN [ind |-> Sn(p), more |-> FALSE]
                                  ELSE Advance(g[i - 1], Sn(q[i]))
  BY <1>2 DEF Scan
<1> DEFINE Fine(i) == \E x \in lo..(lo + Half - 1) : ScanAt(q, p, g[i], i, x)
           I == {i \in 0..Len(q) : ~Fine(i)}
<1>4. Fine(0)
  <2>1. 0 \in 0..Len(q)
    BY <1>1
  <2>2. g[0] = [ind |-> Sn(p), more |-> FALSE]
    BY <1>3, <2>1
  <2>3. \A m \in p..(p - 1) : FALSE
    BY <1>1
  <2>4. \A j \in 1..0 : FALSE
    OBVIOUS
  <2>5. ScanAt(q, p, g[0], 0, p)
    BY <1>1, <2>2, <2>3, <2>4 DEF ScanAt
  <2>6. QED
    BY <2>5
<1>5. ASSUME NEW i \in 0..(Len(q) - 1), Fine(i) PROVE Fine(i + 1)
  <2>1. PICK x \in lo..(lo + Half - 1) : ScanAt(q, p, g[i], i, x)
    BY <1>5
  <2>2. \E y \in lo..(lo + Half - 1) : ScanAt(q, p, Advance(g[i], Sn(q[i + 1])), i + 1, y)
    BY <1>1, <2>1, ScanStep
  <2>3. i + 1 \in 0..Len(q) /\ i + 1 # 0 /\ (i + 1) - 1 = i
    BY <1>1
  <2>4. g[i + 1] = Advance(g[i], Sn(q[i + 1]))
    BY <1>3, <2>3
  <2>5. QED
    BY <2>2, <2>4
<1> HIDE DEF Fine
<1>6. Fine(Len(q))
  <2>1. SUFFICES ASSUME ~Fine(Len(q)) PROVE FALSE
    OBVIOUS
  <2>2. I \in SUBSET Nat /\ Len(q) \in I
    BY <1>1, <2>1
  <2>3. PICK m \in I : \A y \in I : m =< y
    BY <2>2, MinLeast
  <2>4. m # 0 /\ m \in 0..Len(q)
    BY <1>4, <2>3
  <2>5. m - 1 \in 0..(Len(q) - 1) /\ m - 1 \in 0..Len(q) /\ m - 1 \notin I /\ (m - 1) + 1 = m
    BY <1>1, <2>2, <2>3, <2>4
  <2>6. Fine(m - 1)
    BY <2>5
  <2>7. Fine((m - 1) + 1)
    BY <1>5, <2>5, <2>6
  <2>8. QED
    BY <2>3, <2>5, <2>7
<1>7. PICK x \in lo..(lo + Half - 1) : ScanAt(q, p, g[Len(q)], Len(q), x)
  BY <1>6 DEF Fine
<1> DEFINE r == Process(Sn(p), q)
<1>8. /\ r.ind = Sn(x) /\ r.more \in BOOLEAN /\ x >= p
      /\ \A n \in p..(x - 1) : n \in ToSet(q)
      /\ \A j \in 1..Len(q) : q[j] # x
      /\ IF r.more THEN \E j \in 1..Len(q) : q[j] > x ELSE \A j \in 1..Len(q) : q[j] < x
  BY <1>2, <1>7 DEF ScanAt
<1> HIDE DEF r
<1>9. x \in Int /\ x \notin ToSet(q)
  BY <1>1, <1>8, ToSetIs
<1>10. Gap(q, p, x)
  BY <1>8, <1>9 DEF Gap
<1>11. r.more <=> \E n \in ToSet(q) : n > x
  <2>1. ASSUME r.more PROVE \E n \in ToSet(q) : n > x
    BY <1>1, <1>8, <2>1
  <2>2. ASSUME ~r.more, NEW n \in ToSet(q), n > x PROVE FALSE
    <3>1. PICK j \in 1..Len(q) : n = q[j]
      BY ToSetIs
    <3>2. q[j] < x
      BY <1>8, <2>2
    <3>3. QED
      BY <1>1, <1>9, <2>2, <3>1, <3>2
  <2>3. QED
    BY <2>1, <2>2
<1>12. QED
  BY <1>8, <1>10, <1>11 DEF r

\* The frames that are due are those below the gap.
LEMMA DueIs ==
    ASSUME NEW q \in Seq(Frames), Sorted(q), NEW p \in Int, Close(ToSet(q), p),
           p \notin ToSet(q), NEW k, k = Due(Sn(p), q)
    PROVE  /\ k \in 0..Len(q)
           /\ \A i \in 1..k : q[i] < p
           /\ \A i \in (k + 1)..Len(q) : q[i] > p
<1> DEFINE I == {i \in 1..Len(q) : Less(Sn(p), Sn(q[i]))}
           stop == SelectInSeq(q, LAMBDA n : Less(Sn(p), Sn(n)))
<1>1. stop = IF I # {} THEN Min(I) ELSE 0
  BY DEF SelectInSeq
<1>2. k = IF stop = 0 THEN Len(q) ELSE stop - 1
  BY DEF Due
<1>3. /\ Len(q) \in Nat
      /\ \A i \in 1..Len(q) : q[i] \in Int /\ q[i] \in ToSet(q) /\ q[i] # p
  BY ElementsInt, FramesInt
<1>4. \A i \in 1..Len(q) : Less(Sn(p), Sn(q[i])) <=> p < q[i]
  BY <1>3, LessIs DEF Close
<1>5. CASE I = {}
  <2>1. k = Len(q)
    BY <1>1, <1>2, <1>5
  <2>2. \A i \in 1..Len(q) : ~Less(Sn(p), Sn(q[i]))
    BY <1>5
  <2>3. QED
    BY <1>3, <1>4, <2>1, <2>2
<1>6. CASE I # {}
  <2>1. I \in SUBSET Nat /\ stop = Min(I)
    BY <1>1, <1>3, <1>6
  <2>2. stop \in I /\ \A y \in I : stop =< y
    BY <1>6, <2>1, MinLeast
  <2>4. stop \in 1..Len(q) /\ Less(Sn(p), Sn(q[stop]))
    BY <2>2
  <2>3. ASSUME NEW i \in 1..(stop - 1) PROVE i \in 1..Len(q) /\ i \notin I
    <3>1. i \in 1..Len(q) /\ ~(stop =< i)
      BY <1>3, <2>4
    <3>2. QED
      BY <2>2, <3>1
  <2>5. \A i \in 1..(stop - 1) : i \in 1..Len(q) /\ ~Less(Sn(p), Sn(q[i]))
    BY <2>3
  <2> HIDE DEF I, stop
  <2>6. k = stop - 1
    BY <1>2, <1>3, <2>4
  <2>7. \A i \in 1..k : q[i] < p
    BY <1>3, <1>4, <2>5, <2>6
  <2>8. q[stop] > p
    BY <1>3, <1>4, <2>4
  <2>9. ASSUME NEW i \in (k + 1)..Len(q) PROVE q[i] > p
    <3>1. i \in 1..Len(q) /\ i >= stop
      BY <1>3, <2>4, <2>6
    <3>2. i > stop => q[stop] < q[i]
      BY <2>4, <3>1 DEF Sorted
    <3>3. QED
      BY <1>3, <2>4, <2>8, <3>1, <3>2
  <2>10. QED
    BY <1>3, <2>4, <2>6, <2>7, <2>9
<1>7. QED
  BY <1>5, <1>6

\* They go up and the others stay, in order.
LEMMA IndicateDue ==
    ASSUME NEW q \in Seq(Frames), Sorted(q), NEW p \in Int, Close(ToSet(q), p),
           p \notin ToSet(q), Indicate(q, Due(Sn(p), q))
    PROVE  /\ buf' \in Seq(Frames) /\ Sorted(buf')
           /\ ToSet(buf') = {n \in ToSet(q) : n > p}
           /\ out' = out \cup {n \in ToSet(q) : n < p}
<1> DEFINE k == Due(Sn(p), q)
           a == SubSeq(q, 1, k)
           b == SubSeq(q, k + 1, Len(q))
<1>1. Len(q) \in Nat /\ \A i \in 1..Len(q) : q[i] \in Int /\ q[i] \in ToSet(q)
  BY ElementsInt
<1>2. /\ k \in 0..Len(q)
      /\ \A i \in 1..k : q[i] < p
      /\ \A i \in (k + 1)..Len(q) : q[i] > p
  BY DueIs
<1>3. buf' = b /\ out' = out \cup ToSet(a)
  BY DEF Indicate
<1> HIDE DEF k
<1>4. a \in Seq(Frames) /\ Len(a) = k /\ \A i \in 1..k : a[i] = q[i]
  BY <1>1, <1>2
<1>5. /\ b \in Seq(Frames) /\ Len(b) = Len(q) - k
      /\ \A i \in 1..(Len(q) - k) : b[i] = q[i + k]
  BY <1>1, <1>2
<1> HIDE DEF a, b
<1>6. Sorted(b)
  <2>1. ASSUME NEW i \in 1..(Len(q) - k), NEW j \in 1..(Len(q) - k), i < j
        PROVE  b[i] < b[j]
    <3>1. i + k \in 1..Len(q) /\ j + k \in 1..Len(q) /\ i + k < j + k
      BY <1>1, <1>2, <2>1
    <3>2. q[i + k] < q[j + k]
      BY <3>1 DEF Sorted
    <3>3. QED
      BY <1>5, <3>2
  <2>2. QED
    BY <1>5, <2>1 DEF Sorted
<1>7. ASSUME NEW n \in ToSet(a) PROVE n \in ToSet(q) /\ n < p
  <2>1. PICK i \in 1..k : n = a[i]
    BY <1>4, ToSetIs
  <2>2. QED
    BY <1>1, <1>2, <1>4, <2>1
<1>8. ASSUME NEW n \in ToSet(b) PROVE n \in ToSet(q) /\ n > p
  <2>1. PICK i \in 1..(Len(q) - k) : n = b[i]
    BY <1>5, ToSetIs
  <2>2. i + k \in (k + 1)..Len(q) /\ i + k \in 1..Len(q) /\ n = q[i + k]
    BY <1>1, <1>2, <1>5, <2>1
  <2>3. QED
    BY <1>1, <1>2, <2>2
<1>9. ASSUME NEW n \in ToSet(q)
      PROVE  n \in Int /\ (n < p => n \in ToSet(a)) /\ (n > p => n \in ToSet(b))
  <2>1. PICK i \in 1..Len(q) : n = q[i]
    BY ToSetIs
  <2>2. n \in Int
    BY <1>1, <2>1
  <2>3. ASSUME n < p PROVE n \in ToSet(a)
    <3>1. i \in 1..k
      BY <1>1, <1>2, <2>1, <2>2, <2>3
    <3>2. QED
      BY <1>4, <2>1, <3>1, ToSetIs
  <2>4. ASSUME n > p PROVE n \in ToSet(b)
    <3>1. i - k \in 1..(Len(q) - k) /\ (i - k) + k = i
      BY <1>1, <1>2, <2>1, <2>2, <2>4
    <3>2. b[i - k] = n
      BY <1>5, <2>1, <3>1
    <3>3. QED
      BY <1>5, <3>1, <3>2, ToSetIs
  <2>5. QED
    BY <2>2, <2>3, <2>4
<1>10. ToSet(b) = {n \in ToSet(q) : n > p}
  BY <1>8, <1>9
<1>11. ToSet(a) = {n \in ToSet(q) : n < p}
  BY <1>7, <1>9
<1>12. QED
  BY <1>3, <1>5, <1>6, <1>10, <1>11

-----------------------------------------------------------------------------
(* The inductive invariant of the order.                                   *)

\* Faults are bounded.  A frame the sender has settled without the receiver getting
\* it was lost; a teardown in progress has been counted.
Budget ==
    /\ used["loss"] + used["copy"] + used["flush"] + used["deinit"] <= MaxFaults
    /\ Cardinality(Frames \ (air \cup got)) <= used["loss"]
    /\ de # "idle" => used["deinit"] > 0

\* The sender keeps to its window: nothing that arrived is further ahead of an
\* unsettled frame, and the frame in hand was within it when it arrived.
Ahead ==
    /\ \A n \in got, m \in air : n < m + Window
    /\ rx = "found" => hand \in got \ Direct /\ \A n \in got : n < hand + Window
    /\ rx \notin {"found", "undefined"} => hand = NoFrame

\* A control that is not linked is not enabled, and a buffer without an enabled
\* control, or one that has seen no frame, is empty except in a teardown.
Phases ==
    /\ rx # "undefined" /\ ~ctl.linked => ~ctl.enable /\ de = "idle"
    /\ de = "idle" /\ (~ctl.enable \/ ctl.ind = FirstSn) => buf = <<>>
    /\ rx = "found" => ctl.linked /\ (de = "idle" => ctl.enable)
    /\ rx \in {"stop_timer", "stop_work"} => buf = <<>>

\* The buffer is in stream order, holds frames that arrived, and all of them are
\* within one window.
Buffered ==
    /\ Sorted(buf)
    /\ Waiting \subseteq got \ Direct
    /\ \A m, n \in Waiting : m < n + Window

\* The frame that may lie far ahead without being in hand: none, or one that a
\* control disabled or enabled afresh in a teardown has let pass.
Spared ==
    {NoFrame} \cup (IF de = "idle" \/ (rx = "found" /\ ~ctl.enable) THEN {} ELSE Frames)

\* Of the frames that arrived only the one in hand and a spared one are a window
\* or more ahead of r.
Near(r) == \E x \in Spared : \A n \in got \ Direct : n >= r + Window => n \in {hand, x}

\* The control waits for some position ...
Tracking == ctl.enable /\ ctl.ind # FirstSn

\* ... which is p: ind_sn is its number, something arrived at or behind it, nothing
\* but the frame in hand is far ahead of it, what waits lies within the window
\* around it, and all below it is settled.
At(p) ==
    /\ ctl.ind = Sn(p) /\ (\E n \in got : p <= n + 1) /\ Near(p)
    /\ \A n \in Waiting : n < p + Window /\ p <= n + Window /\ (de = "idle" => p < n)
    /\ Below(p) \subseteq Settled

\* A control that waits for a position has one, and nothing is far ahead of what
\* waits in its buffer.
Placed ==
    rx # "undefined" =>
      /\ \A n \in Waiting : Near(n)
      /\ Tracking => \E p \in FirstPos..(LastPos + 1) : At(p)

\* The stream is finite.
LEMMA FramesFinite ==
    IsFiniteSet(Frames) /\ \A S \in SUBSET Frames : IsFiniteSet(S) /\ Cardinality(S) \in Nat
<1>1. IsFiniteSet(Frames)
  BY SizesHold, FS_Interval DEF Frames
<1>2. QED
  BY <1>1, FS_Subset, FS_CardinalityType

\* The frame in hand is less than half the sequence space ahead of what the
\* receiver waits for: all that lies between is in the window, lost, or direct.
LEMMA HandNear ==
    ASSUME TypeOK, Budget, Ahead, rx = "found", NEW r \in FirstPos..(LastPos + 1), Near(r)
    PROVE  hand =< r + Half - 2
<1> DEFINE G == (r + Window)..(hand - Window)
           Lost == Frames \ (air \cup got)
<1>1. SUFFICES ASSUME hand >= r + Half - 1 PROVE FALSE
  BY SizesHold DEF Ahead, TypeOK, Frames, NoFrame
<1>2. /\ Window \in Nat \ {0} /\ Half \in Nat /\ FirstPos \in Nat /\ LastPos \in Nat /\ MaxFaults \in Nat
      /\ hand \in Frames /\ hand \in got /\ r \in Int /\ hand \in Int
      /\ got \subseteq Frames /\ air \subseteq Frames /\ Direct \subseteq Frames /\ Frames \subseteq Int
  <2>1. hand \in got /\ got \subseteq Frames /\ air \subseteq Frames
    BY DEF Ahead, TypeOK
  <2>2. QED
    BY <2>1, SizesHold, SeqAssumption, FramesInt
<1>3. PICK x \in Spared : \A n \in got \ Direct : n >= r + Window => n \in {hand, x}
  BY DEF Near
<1>4. ASSUME NEW n \in G PROVE n \in Frames /\ n \notin air /\ n # hand /\ n >= r + Window
  <2>1. n \in Int /\ n >= FirstPos /\ n =< LastPos /\ n # hand /\ n >= r + Window /\ n + Window =< hand
    BY <1>2 DEF Frames
  <2>2. n \notin air
    BY <1>2, <2>1 DEF Ahead
  <2>3. QED
    BY <2>1, <2>2 DEF Frames
<1> DEFINE X == IF x \in Frames THEN {x} ELSE {}
<1>5. G \subseteq Lost \cup (Direct \cup X)
  <2>1. ASSUME NEW n \in G PROVE n \in Lost \/ n \in Direct \/ n = x
    BY <1>3, <1>4, <2>1
  <2>2. QED
    BY <1>4, <2>1
<1>6. Cardinality(G) >= Half - 2 * Window
  <2>1. r + Window \in Int /\ hand - Window \in Int
    BY <1>2
  <2>2. Cardinality(G) = IF r + Window > hand - Window THEN 0
                         ELSE hand - Window - (r + Window) + 1
    BY <2>1, FS_Interval
  <2>3. QED
    BY <1>1, <1>2, <2>2
<1>7. /\ used["loss"] \in Nat /\ used["copy"] \in Nat /\ used["flush"] \in Nat
      /\ used["deinit"] \in Nat
  BY DEF TypeOK, Faults
<1>8. Cardinality(X) =< used["deinit"]
  <2>1. CASE x \in Frames
    <3>1. de # "idle"
      BY <2>1, FramesInt DEF Spared
    <3>2. Cardinality(X) = 1
      BY <2>1, FS_Singleton
    <3>3. QED
      BY <1>7, <3>1, <3>2 DEF Budget
  <2>2. CASE x \notin Frames
    BY <1>7, <2>2, FS_EmptySet
  <2>3. QED
    BY <2>1, <2>2
<1>9. /\ IsFiniteSet(Lost) /\ IsFiniteSet(Direct) /\ IsFiniteSet(X)
      /\ Cardinality(Lost) \in Nat /\ Cardinality(Direct) \in Nat /\ Cardinality(X) \in Nat
  <2>1. Lost \in SUBSET Frames /\ Direct \in SUBSET Frames /\ X \in SUBSET Frames
    BY <1>2
  <2> HIDE DEF Lost, X
  <2>2. QED
    BY <2>1, FramesFinite
<1>10. Cardinality(Lost) =< used["loss"]
  BY DEF Budget
<1> HIDE DEF G, Lost, X
<1> DEFINE DX == Direct \cup X
<1>11. IsFiniteSet(DX) /\ Cardinality(DX) =< Cardinality(Direct) + Cardinality(X) /\ Cardinality(DX) \in Nat
  <2>1. /\ IsFiniteSet(DX)
        /\ Cardinality(DX) = Cardinality(Direct) + Cardinality(X) - Cardinality(Direct \cap X)
    BY <1>9, FS_Union
  <2>2. Cardinality(Direct \cap X) \in Nat
    BY <1>9, FS_Intersection, FS_CardinalityType
  <2>3. Cardinality(DX) \in Nat
    BY <2>1, FS_CardinalityType
  <2> HIDE DEF DX
  <2>4. QED
    BY <1>9, <2>1, <2>2, <2>3
<1> HIDE DEF DX
<1> DEFINE L == Lost \cup DX
<1>12. IsFiniteSet(L) /\ Cardinality(L) =< Cardinality(Lost) + Cardinality(DX) /\ Cardinality(L) \in Nat
  <2>1. /\ IsFiniteSet(L)
        /\ Cardinality(L) = Cardinality(Lost) + Cardinality(DX) - Cardinality(Lost \cap DX)
    BY <1>9, <1>11, FS_Union
  <2>2. Cardinality(Lost \cap DX) \in Nat
    BY <1>9, <1>11, FS_Intersection, FS_CardinalityType
  <2>3. Cardinality(L) \in Nat
    BY <2>1, FS_CardinalityType
  <2> HIDE DEF L
  <2>4. QED
    BY <1>9, <1>11, <2>1, <2>2, <2>3
<1>13. Cardinality(G) =< Cardinality(L) /\ Cardinality(G) \in Nat
  <2>1. G \subseteq L
    BY <1>5 DEF DX
  <2> HIDE DEF L
  <2>2. IsFiniteSet(G) /\ Cardinality(G) =< Cardinality(L)
    BY <1>12, <2>1, FS_Subset
  <2>3. QED
    BY <2>2, FS_CardinalityType
<1> HIDE DEF L
<1>14. used["loss"] + used["deinit"] =< MaxFaults
  BY <1>2, <1>7 DEF Budget
<1>15. 2 * Window + MaxFaults + Cardinality(Direct) < Half
  BY SeqAssumption DEF Half
<1>16. QED
  BY <1>2, <1>6, <1>7, <1>8, <1>9, <1>10, <1>11, <1>12, <1>13, <1>14, <1>15

\* Together, with the properties that are parts of the induction.
Order == Budget /\ Ahead /\ Phases /\ Buffered /\ Placed /\ InOrder /\ NothingLost
RInv == IInv /\ Order

\* What the type invariant says.
LEMMA Known0 ==
    ASSUME IInv
    PROVE  /\ buf \in Seq(Frames) /\ Waiting \in SUBSET Frames /\ Frames \in SUBSET Nat
           /\ got \in SUBSET Frames /\ air \in SUBSET Frames /\ out \in SUBSET Frames
           /\ gone \in SUBSET Frames /\ passed \in SUBSET Frames
           /\ NoFrame \notin Frames /\ NoFrame \in Int
           /\ Fields /\ used \in [Faults -> Nat]
<1>1. Frames \in SUBSET Nat
  BY SizesHold DEF Frames
<1>2. QED
  BY <1>1, Typed, FramesInt DEF IInv, TypeOK, Fields, Waiting

\* A sequence is empty exactly if it has no element.
LEMMA EmptyIs == ASSUME NEW S, NEW q \in Seq(S) PROVE q = <<>> <=> ToSet(q) = {}
<1>1. Len(q) \in Nat
  BY LenProperties
<1>2. ASSUME q # <<>> PROVE ToSet(q) # {}
  <2>1. 1 \in 1..Len(q)
    BY <1>1, <1>2
  <2>2. QED
    BY <2>1, ToSetIs
<1>3. ASSUME q = <<>> PROVE ToSet(q) = {}
  <2>1. Len(q) = 0
    BY <1>3
  <2>2. \A i \in 1..Len(q) : FALSE
    BY <2>1
  <2>3. \A x : x \in ToSet(q) => \E i \in 1..Len(q) : x = q[i]
    BY ToSetIs
  <2>4. QED
    BY <2>2, <2>3
<1>4. QED
  BY <1>2, <1>3

\* ind_sn is set and nothing else.
LEMMA CtlIs ==
    ASSUME Fields, NEW i, ctl' = [ctl EXCEPT !.ind = i]
    PROVE  ctl'.ind = i /\ ctl'.enable = ctl.enable /\ ctl'.linked = ctl.linked
<1>1. DOMAIN ctl = {"linked", "enable", "ind"}
  BY DEF Fields, Fresh
<1>2. QED
  BY <1>1

\* What a scan and the indication after it leave behind.
LEMMA Rescan ==
    ASSUME NEW q \in Seq(Frames), Sorted(q), NEW lo \in Int, NEW p \in lo..(lo + Half - 1),
           \A n \in ToSet(q) : n \in lo..(lo + Half - 2), Fields,
           NEW r, r = Process(Sn(p), q),
           ctl' = [ctl EXCEPT !.ind = r.ind], Indicate(q, Due(r.ind, q))
    PROVE  \E p2 \in lo..(lo + Half - 1) :
              /\ Gap(q, p, p2) /\ ctl'.ind = Sn(p2)
              /\ buf' \in Seq(Frames) /\ Sorted(buf')
              /\ ToSet(buf') = {n \in ToSet(q) : n > p2}
              /\ out' = out \cup {n \in ToSet(q) : n < p2}
              /\ r.more \in BOOLEAN /\ (r.more <=> buf' # <<>>)
<1>1. PICK p2 \in lo..(lo + Half - 1) :
              /\ Gap(q, p, p2) /\ r.ind = Sn(p2)
              /\ r.more <=> \E n \in ToSet(q) : n > p2
              /\ r.more \in BOOLEAN
  BY ProcessIs
<1>2. p2 \in Int /\ p2 \notin ToSet(q) /\ Close(ToSet(q), p2)
  <2>1. ASSUME NEW n \in ToSet(q) PROVE n - p2 < Half /\ p2 - n < Half
    <3>1. n \in Int /\ n >= lo /\ n =< lo + Half - 2
      BY SizesHold
    <3>2. p2 \in Int /\ p2 >= lo /\ p2 =< lo + Half - 1 /\ Half \in Nat
      BY SizesHold
    <3>3. QED
      BY <3>1, <3>2
  <2>2. p2 \in Int /\ p2 \notin ToSet(q)
    BY <1>1 DEF Gap
  <2>3. QED
    BY <2>1, <2>2 DEF Close
<1>3. /\ buf' \in Seq(Frames) /\ Sorted(buf')
      /\ ToSet(buf') = {n \in ToSet(q) : n > p2}
      /\ out' = out \cup {n \in ToSet(q) : n < p2}
  BY <1>1, <1>2, IndicateDue
<1>4. r.more <=> buf' # <<>>
  BY <1>1, <1>3, EmptyIs
<1>5. ctl'.ind = Sn(p2)
  BY <1>1, CtlIs
<1>6. QED
  BY <1>1, <1>3, <1>4, <1>5

\* The first of some positions
LEMMA LowestIs ==
    ASSUME NEW S \in SUBSET Nat, S # {}
    PROVE  \E lo \in S : \A n \in S : lo =< n
BY MinLeast

\* What is near to a position is near to a later one.
LEMMA NearMono ==
    ASSUME IInv, NEW r \in Int, NEW s \in Int, r =< s, Near(r)
    PROVE  Near(s)
<1>1. PICK x \in Spared : \A n \in got \ Direct : n >= r + Window => n \in {hand, x}
  BY DEF Near
<1>2. \A n \in got \ Direct : n >= s + Window => n >= r + Window
  BY Known0, SizesHold
<1>3. QED
  BY <1>1, <1>2 DEF Near

\* The frame in hand against the position the receiver waits for.
LEMMA HandAt ==
    ASSUME RInv, rx = "found", NEW p \in FirstPos..(LastPos + 1), At(p)
    PROVE  /\ hand =< p + Half - 2 /\ p =< hand + Window /\ hand \in Frames /\ p \in Nat
           /\ Less(Sn(hand), Sn(p)) <=> hand < p
           /\ Sn(hand) = Sn(p) <=> hand = p
           /\ hand >= p => (PastWindow(Sn(p), Sn(hand)) <=> hand >= p + Window)
<1>1. /\ hand \in got /\ hand \in Frames /\ hand \in Nat /\ p \in Nat
      /\ Half \in Nat /\ Window \in Nat \ {0} /\ 2 * Window < Half
  <2>1. 2 * Window < Half
    <3>1. Cardinality(Direct) \in Nat
      BY FramesFinite, SeqAssumption
    <3>2. QED
      BY <3>1, SizesHold, SeqAssumption DEF Half
  <2>2. hand \in got
    BY DEF RInv, Order, Ahead
  <2>3. QED
    BY <2>1, <2>2, Known0, SizesHold DEF RInv
<1>2. hand =< p + Half - 2
  BY HandNear DEF RInv, IInv, Order, At
<1>3. p =< hand + Window
  <2>1. PICK n \in got : p =< n + 1
    BY DEF At
  <2>2. n < hand + Window /\ n \in Nat
    BY Known0 DEF RInv, Order, Ahead
  <2>3. QED
    BY <1>1, <2>1, <2>2
<1>4. hand - p < Half /\ p - hand < Half
  BY <1>1, <1>2, <1>3
<1>5. QED
  BY <1>1, <1>2, <1>3, <1>4, LessIs, SameIs, PastIs

\* The window is less than a quarter of the sequence space.
LEMMA WindowHalf == 2 * Window < Half /\ Window \in Nat \ {0} /\ Half \in Nat
<1>1. Cardinality(Direct) \in Nat
  BY FramesFinite, SeqAssumption
<1>2. QED
  BY <1>1, SizesHold, SeqAssumption DEF Half

-----------------------------------------------------------------------------
(* reord_need_check                                                        *)

\* What reord_need_check makes of a frame that is not late: the position p from
\* which the buffer is then scanned, lo the lowest position in play.
Checked(lo, p) ==
    /\ lo \in Nat /\ p \in lo..(lo + Half - 1) /\ p \in FirstPos..(hand + 1)
    /\ Check.ind = Sn(p)
    /\ \A n \in Waiting \cup {hand} : n \in lo..(lo + Half - 2) /\ n < p + Window
    /\ \E x \in Spared : \A n \in got \ Direct : n >= p + Window => n = x
    /\ Below(p) \subseteq Settled \cup PassedBy(hand) \cup {hand}
    /\ Tracking /\ de = "idle" => ctl.ind = Sn(lo)
    /\ de = "idle" /\ hand \in Waiting => At(p)

\* The first frame of all
LEMMA CheckFirst ==
    ASSUME RInv, rx = "found", ctl.ind = FirstSn
    PROVE  ~Check.late /\ \E lo, p \in Nat : Checked(lo, p)
<1>1. /\ hand \in got /\ hand \in got \ Direct /\ hand \in Frames /\ hand \in Nat /\ hand >= FirstPos
      /\ \A n \in got : n < hand + Window
      /\ Waiting \subseteq got /\ got \subseteq Nat /\ Waiting \subseteq Nat
      /\ \A m, n \in Waiting : m < n + Window
  <2>1. hand \in got \ Direct /\ \A n \in got : n < hand + Window
    BY DEF RInv, Order, Ahead
  <2>2. Waiting \subseteq got /\ \A m, n \in Waiting : m < n + Window
    BY DEF RInv, Order, Buffered
  <2>3. got \subseteq Frames /\ Frames \subseteq Nat
    BY Known0 DEF RInv
  <2>4. hand >= FirstPos
    BY <2>1, <2>3 DEF Frames
  <2>5. QED
    BY <2>1, <2>2, <2>3, <2>4
<1>2. ~Less(Sn(hand), Sn(hand))
  BY <1>1, WindowHalf, LessIs
<1>3. Check.late = FALSE /\ Check.ind = Succ(Sn(hand))
  BY <1>2 DEF Check, NeedCheck
<1>4. PICK lo \in Waiting \cup {hand} : \A n \in Waiting \cup {hand} : lo =< n
  BY <1>1, LowestIs
<1> DEFINE p == hand + 1
<1>5. Check.ind = Sn(p)
  BY <1>1, <1>3, SuccIs
<1>6. \A n \in Waiting : n < lo + Window
  BY <1>1, <1>4
<1>7. hand =< lo + Half - 2
  <2>1. CASE lo = hand
    BY <1>1, <2>1, WindowHalf
  <2>2. CASE lo \in Waiting
    <3>1. Near(lo)
      BY <2>2 DEF RInv, Order, Placed
    <3>2. lo \in FirstPos..(LastPos + 1)
      BY <2>2, Known0, SizesHold DEF RInv, Frames
    <3>3. QED
      BY <3>1, <3>2, HandNear DEF RInv, IInv, Order
  <2>3. QED
    BY <1>4, <2>1, <2>2
<1>8. lo \in Nat /\ lo =< hand
  BY <1>1, <1>4
<1>9. p \in lo..(lo + Half - 1) /\ p \in FirstPos..(hand + 1)
  BY <1>1, <1>7, <1>8, WindowHalf, SizesHold
<1>10. \A n \in Waiting \cup {hand} : n \in lo..(lo + Half - 2) /\ n < p + Window
  <2>1. ASSUME NEW n \in Waiting PROVE n \in lo..(lo + Half - 2) /\ n < p + Window
    <3>1. n \in Nat /\ n < hand + Window /\ n < lo + Window /\ lo =< n
      BY <1>1, <1>4, <1>6
    <3>2. QED
      BY <1>1, <1>8, <3>1, WindowHalf
  <2>2. hand \in lo..(lo + Half - 2) /\ hand < p + Window
    BY <1>1, <1>7, <1>8, WindowHalf
  <2>3. QED
    BY <2>1, <2>2
<1>11. \A n \in got \ Direct : ~(n >= p + Window)
  BY <1>1, WindowHalf
<1>12. NoFrame \in Spared
  BY DEF Spared
<1>13. Below(p) \subseteq PassedBy(hand) \cup {hand}
  <2>1. PassedBy(hand) = Below(hand)
    BY DEF PassedBy
  <2>2. QED
    BY <1>1, <2>1, SizesHold DEF Below
<1>14. ~Tracking
  BY DEF Tracking
<1>15. ASSUME de = "idle", hand \in Waiting PROVE FALSE
  <2>1. buf = <<>>
    BY <1>15 DEF RInv, Order, Phases
  <2>2. QED
    BY <1>15, <2>1, EmptyIs, Known0 DEF RInv, Waiting
<1> HIDE DEF p
<1>16. Checked(lo, p)
  BY <1>5, <1>8, <1>9, <1>10, <1>11, <1>12, <1>13, <1>14, <1>15 DEF Checked
<1>17. QED
  BY <1>1, <1>3, <1>8, <1>9, <1>16, SizesHold

\* Any other
LEMMA CheckNext ==
    ASSUME RInv, rx = "found", Tracking, NEW p0 \in FirstPos..(LastPos + 1), At(p0)
    PROVE  /\ Check.late <=> hand < p0
           /\ ~Check.late => \E lo, p \in Nat : Checked(lo, p)
<1>1. /\ hand =< p0 + Half - 2 /\ p0 =< hand + Window /\ hand \in Frames /\ p0 \in Nat
      /\ Less(Sn(hand), Sn(p0)) <=> hand < p0
      /\ Sn(hand) = Sn(p0) <=> hand = p0
      /\ hand >= p0 => (PastWindow(Sn(p0), Sn(hand)) <=> hand >= p0 + Window)
  BY HandAt
<1>2. ctl.ind = Sn(p0) /\ ctl.ind # FirstSn
  BY DEF At, Tracking
<1>3. Check = IF hand < p0 THEN [late |-> TRUE, ind |-> Sn(p0)]
              ELSE [late |-> FALSE,
                    ind  |-> IF hand = p0 THEN Succ(Sn(p0))
                             ELSE IF PastWindow(Sn(p0), Sn(hand)) THEN MovedTo(Sn(hand)) ELSE Sn(p0)]
  BY <1>1, <1>2 DEF Check, NeedCheck
<1>4. Check.late <=> hand < p0
  BY <1>3
<1>5. ASSUME hand >= p0 PROVE \E lo, p \in Nat : Checked(lo, p)
  <2>1. /\ hand \in Nat /\ hand \in got /\ FirstPos \in Nat
        /\ Waiting \subseteq got /\ got \subseteq Nat /\ Waiting \subseteq Nat
        /\ \A m, n \in Waiting : m < n + Window
        /\ \A n \in Waiting : n < p0 + Window /\ p0 =< n + Window /\ (de = "idle" => p0 < n)
    <3>1. Waiting \subseteq got /\ \A m, n \in Waiting : m < n + Window
      BY DEF RInv, Order, Buffered
    <3>2. hand \in got
      BY DEF RInv, Order, Ahead
    <3>3. got \subseteq Frames /\ Frames \subseteq Nat
      BY Known0 DEF RInv
    <3>4. \A n \in Waiting : n < p0 + Window /\ p0 =< n + Window /\ (de = "idle" => p0 < n)
      BY DEF At
    <3>5. QED
      BY <3>1, <3>2, <3>3, <3>4, SizesHold
  <2> DEFINE p == IF hand = p0 THEN p0 + 1
                  ELSE IF hand >= p0 + Window THEN hand - (Window - 1) ELSE p0
  <2>2. p >= p0 /\ p =< hand + 1 /\ p \in Nat /\ hand < p + Window
    BY <1>1, <1>5, <2>1, WindowHalf
  <2>3. Check.ind = Sn(p)
    <3>1. Succ(Sn(p0)) = Sn(p0 + 1) /\ MovedTo(Sn(hand)) = Sn(hand - (Window - 1))
      BY <1>1, <2>1, SuccIs, MovedIs
    <3>2. Check.ind = IF hand = p0 THEN Succ(Sn(p0))
                      ELSE IF PastWindow(Sn(p0), Sn(hand)) THEN MovedTo(Sn(hand)) ELSE Sn(p0)
      BY <1>1, <1>3, <1>5, <2>1
    <3>3. QED
      BY <1>1, <1>5, <3>1, <3>2
  <2>4. PICK lo \in Waiting \cup {p0} : \A n \in Waiting \cup {p0} : lo =< n
    BY <1>1, <2>1, LowestIs
  <2>5. lo \in Nat /\ lo =< p0 /\ Near(lo) /\ lo \in FirstPos..(LastPos + 1) /\ p0 =< lo + Window
    <3>1. CASE lo = p0
      BY <1>1, <2>4, <3>1, WindowHalf DEF At
    <3>2. CASE lo \in Waiting
      <4>1. Near(lo)
        BY <3>2 DEF RInv, Order, Placed
      <4>2. lo \in FirstPos..(LastPos + 1)
        BY <3>2, Known0, SizesHold DEF RInv, Frames
      <4>3. QED
        BY <1>1, <2>1, <2>4, <3>2, <4>1, <4>2
    <3>3. QED
      BY <2>4, <3>1, <3>2
  <2>6. hand =< lo + Half - 2
    BY <2>5, HandNear DEF RInv, IInv, Order
  <2> HIDE DEF p
  <2>7. p \in lo..(lo + Half - 1) /\ p \in FirstPos..(hand + 1)
    <3>1. p0 >= FirstPos
      BY <2>1
    <3>2. QED
      BY <1>1, <2>1, <2>2, <2>5, <2>6, <3>1, WindowHalf
  <2>8. \A n \in Waiting \cup {hand} : n \in lo..(lo + Half - 2) /\ n < p + Window
    <3>1. ASSUME NEW n \in Waiting PROVE n \in lo..(lo + Half - 2) /\ n < p + Window
      <4>1. n \in Nat /\ lo =< n /\ n < p0 + Window
        BY <2>1, <2>4
      <4>2. n < lo + Window
        BY <2>1, <2>4, <4>1
      <4>3. QED
        BY <1>1, <2>2, <2>5, <4>1, <4>2, WindowHalf
    <3>2. hand \in lo..(lo + Half - 2) /\ hand < p + Window
      BY <1>1, <1>5, <2>1, <2>2, <2>5, <2>6, WindowHalf
    <3>3. QED
      BY <3>1, <3>2
  <2>9. \E x \in Spared : \A n \in got \ Direct : n >= p + Window => n = x
    <3>1. PICK x \in Spared : \A n \in got \ Direct : n >= p0 + Window => n \in {hand, x}
      BY DEF At, Near
    <3>2. ASSUME NEW n \in got \ Direct, n >= p + Window PROVE n = x
      <4>1. n \in Nat
        BY <2>1
      <4>2. n >= p0 + Window /\ n # hand
        BY <1>1, <2>1, <2>2, <3>2, <4>1, WindowHalf
      <4>3. QED
        BY <3>1, <4>2
    <3>3. QED
      BY <3>2
  <2>10. Below(p0) \subseteq Settled
    BY DEF At
  <2>11. Below(p) \subseteq Settled \cup PassedBy(hand) \cup {hand}
    <3>1. CASE hand = p0
      <4>1. p = hand + 1
        BY <3>1 DEF p
      <4>2. Below(p) \subseteq Below(p0) \cup {hand}
        BY <1>1, <2>1, <3>1, <4>1 DEF Below
      <4>3. QED
        BY <2>10, <4>2
    <3>2. CASE hand >= p0 + Window
      <4>1. p = hand - (Window - 1)
        BY <1>1, <2>1, <3>2, WindowHalf DEF p
      <4>2. PassedBy(hand) = Below(hand - (Window - 1))
        BY <1>1, <1>2, <1>5, <3>2 DEF PassedBy
      <4>3. QED
        BY <4>1, <4>2
    <3>3. CASE hand # p0 /\ ~(hand >= p0 + Window)
      <4>1. p = p0
        BY <3>3 DEF p
      <4>2. QED
        BY <2>10, <4>1
    <3>4. QED
      BY <3>1, <3>2, <3>3
  <2>12. ASSUME de = "idle" PROVE lo = p0 /\ ctl.ind = Sn(lo)
    <3>1. \A n \in Waiting : p0 < n
      BY <2>1, <2>12
    <3>2. lo = p0
      BY <1>1, <2>1, <2>4, <2>5, <3>1
    <3>3. QED
      BY <1>2, <3>2
  <2>13. ASSUME de = "idle", hand \in Waiting PROVE At(p)
    <3>1. p0 < hand /\ hand < p0 + Window
      BY <2>1, <2>13
    <3>2. p = p0
      BY <1>1, <2>1, <3>1, WindowHalf DEF p
    <3>3. QED
      BY <3>2
  <2>14. Checked(lo, p)
    BY <2>3, <2>5, <2>7, <2>8, <2>9, <2>11, <2>12, <2>13 DEF Checked
  <2>15. QED
    BY <2>2, <2>5, <2>14
<1>6. ~(hand < p0) => hand >= p0
  BY <1>1, Known0 DEF RInv
<1>7. QED
  BY <1>4, <1>5, <1>6

-----------------------------------------------------------------------------
(* The steps, one after the other.                                         *)

\* Steps that leave the frames, the buffer and the control alone
LEMMA QuietOrder ==
    ASSUME RInv, UNCHANGED <<net, buf, hand, hist>>,
           ctl'.ind = ctl.ind, ctl'.enable = ctl.enable, ctl'.linked = ctl.linked,
           \/ UNCHANGED <<rx, de>>
           \/ /\ rx \in {"stop_timer", "stop_work"} /\ rx' \in {"stop_work", "idle"}
              /\ UNCHANGED de
           \/ /\ UNCHANGED rx /\ de \notin {"idle", "dangling"} /\ de' \in {"work", "list"}
    PROVE  Order'
<1>1. UNCHANGED <<air, used, buf, hand, got, out, gone, passed>>
  BY DEF net, hist
<1>2. rx = "undefined" <=> de = "dangling"
  BY DEF RInv, IInv, Steps
<1>3. (de' = "idle" <=> de = "idle") /\ (rx' = "found" <=> rx = "found")
      /\ (rx' = "undefined" <=> rx = "undefined")
  OBVIOUS
<1>4. Budget'
  BY <1>1, <1>3 DEF RInv, Order, Budget
<1>5. Ahead'
  BY <1>1, <1>3 DEF RInv, Order, Ahead
<1>6. Phases'
  BY <1>1, <1>2, <1>3 DEF RInv, Order, Phases
<1>7. Buffered'
  BY <1>1 DEF RInv, Order, Buffered, Waiting
<1>8. Settled' = Settled /\ Waiting' = Waiting /\ (Tracking' <=> Tracking)
  BY <1>1, <1>3 DEF Settled, Waiting, Tracking
<1>9. Spared' = Spared
  BY <1>1, <1>3 DEF Spared
<1>10. ASSUME NEW r PROVE Near(r)' <=> Near(r)
  BY <1>1, <1>9 DEF Near
<1>11. ASSUME NEW p, At(p) PROVE At(p)'
  BY <1>1, <1>3, <1>8, <1>10, <1>11 DEF At
<1>12. Placed'
  BY <1>3, <1>8, <1>10, <1>11 DEF RInv, Order, Placed
<1>13. InOrder' /\ NothingLost'
  BY <1>1, <1>8 DEF RInv, Order, InOrder, NothingLost
<1>14. QED
  BY <1>4, <1>5, <1>6, <1>7, <1>12, <1>13 DEF Order

\* The steps of the timer, the cancellations and the loss of the bus are such.
LEMMA ClockOrder ==
    ASSUME RInv,
           \/ TimerExpires \/ TimeoutHandler \/ WorkStarts \/ BusDown
           \/ FlushStopTimer \/ FlushCancelWork \/ DeinitStopTimer \/ DeinitCancelWork
    PROVE  Order'
<1>1. CASE TimerExpires \/ TimeoutHandler \/ WorkStarts \/ BusDown
  BY <1>1, QuietOrder DEF TimerExpires, TimeoutHandler, WorkStarts, BusDown
<1>2. CASE FlushStopTimer \/ FlushCancelWork
  BY <1>2, QuietOrder DEF FlushStopTimer, FlushCancelWork
<1>3. CASE DeinitStopTimer \/ DeinitCancelWork
  BY <1>3, QuietOrder DEF DeinitStopTimer, DeinitCancelWork
<1>4. QED
  BY <1>1, <1>2, <1>3

\* A fault is counted, and they stay within the bound.
LEMMA UseIs ==
    ASSUME used \in [Faults -> Nat], NEW f \in Faults, Use(f)
    PROVE  /\ used' \in [Faults -> Nat]
           /\ used'[f] = used[f] + 1
           /\ \A g \in Faults : used'[g] >= used[g]
           /\ used'["loss"] + used'["copy"] + used'["flush"] + used'["deinit"] <= MaxFaults
<1>1. /\ used' = [used EXCEPT ![f] = @ + 1]
      /\ used["loss"] + used["copy"] + used["flush"] + used["deinit"] < MaxFaults
  BY DEF Use
<1>2. \A g \in Faults : used'[g] = IF g = f THEN used[g] + 1 ELSE used[g]
  BY <1>1
<1>3. /\ used["loss"] \in Nat /\ used["copy"] \in Nat /\ used["flush"] \in Nat /\ used["deinit"] \in Nat
      /\ MaxFaults \in Nat
  BY SizesHold DEF Faults
<1>4. f \in {"loss", "copy", "flush", "deinit"} /\ {"loss", "copy", "flush", "deinit"} = Faults
  BY DEF Faults
<1>5. used'["loss"] + used'["copy"] + used'["flush"] + used'["deinit"]
        = used["loss"] + used["copy"] + used["flush"] + used["deinit"] + 1
  <2>1. CASE f = "loss"
    BY <1>2, <1>3, <1>4, <2>1
  <2>2. CASE f = "copy"
    BY <1>2, <1>3, <1>4, <2>2
  <2>3. CASE f = "flush"
    BY <1>2, <1>3, <1>4, <2>3
  <2>4. CASE f = "deinit"
    BY <1>2, <1>3, <1>4, <2>4
  <2>5. QED
    BY <1>4, <2>1, <2>2, <2>3, <2>4
<1>6. \A g \in Faults : used'[g] >= used[g]
  BY <1>2
<1>7. QED
  BY <1>1, <1>2, <1>3, <1>5, <1>6

\* A frame is given up.
LEMMA LossOrder ==
    ASSUME RInv, GiveUp \/ ReceiveNoDescriptor
    PROVE  Order'
<1>1. PICK n \in Sent : air' = air \ {n}
  BY DEF GiveUp, ReceiveNoDescriptor
<1>2. Use("loss") /\ UNCHANGED <<ctl, buf, rx, hand, de, got, out, gone, passed>>
  BY DEF GiveUp, ReceiveNoDescriptor, hist
<1>3. "loss" \in Faults /\ "deinit" \in Faults
  BY DEF Faults
<1>4. used \in [Faults -> Nat]
  BY Known0 DEF RInv
<1>5. /\ used'["loss"] = used["loss"] + 1 /\ used'["deinit"] >= used["deinit"]
      /\ used["loss"] \in Nat /\ used["deinit"] \in Nat /\ used'["deinit"] \in Nat
      /\ used'["loss"] + used'["copy"] + used'["flush"] + used'["deinit"] <= MaxFaults
  BY <1>2, <1>3, <1>4, UseIs
<1>6. Cardinality(Frames \ (air' \cup got)) <= Cardinality(Frames \ (air \cup got)) + 1
  <2> DEFINE L == Frames \ (air \cup got)
             M == Frames \ (air' \cup got)
  <2>1. L \in SUBSET Frames /\ M \in SUBSET Frames /\ M \subseteq L \cup {n}
    BY <1>1
  <2> HIDE DEF L, M
  <2>2. IsFiniteSet(L) /\ Cardinality(L) \in Nat /\ Cardinality(M) \in Nat
    BY <2>1, FramesFinite
  <2>3. /\ IsFiniteSet(L \cup {n})
        /\ Cardinality(L \cup {n}) = IF n \in L THEN Cardinality(L) ELSE Cardinality(L) + 1
    BY <2>2, FS_AddElement
  <2>4. Cardinality(M) <= Cardinality(L \cup {n})
    BY <2>1, <2>3, FS_Subset
  <2>5. Cardinality(M) <= Cardinality(L) + 1
    BY <2>2, <2>3, <2>4
  <2>6. QED
    BY <2>5 DEF L, M
<1>7. Budget'
  <2>1. Cardinality(Frames \ (air \cup got)) \in Nat /\ Cardinality(Frames \ (air' \cup got)) \in Nat
    BY FramesFinite
  <2>2. Cardinality(Frames \ (air \cup got)) <= used["loss"]
    BY DEF RInv, Order, Budget
  <2>3. Cardinality(Frames \ (air' \cup got)) <= used'["loss"]
    BY <1>5, <1>6, <2>1, <2>2
  <2>4. (de # "idle" => used["deinit"] > 0)
    BY DEF RInv, Order, Budget
  <2>5. de' # "idle" => used'["deinit"] > 0
    BY <1>2, <1>5, <2>4
  <2>6. QED
    BY <1>2, <1>5, <2>3, <2>5 DEF Budget
<1>8. Ahead'
  BY <1>1, <1>2 DEF RInv, Order, Ahead
<1>9. Phases' /\ Buffered'
  BY <1>2 DEF RInv, Order, Phases, Buffered, Waiting
<1>10. Settled' = Settled /\ Waiting' = Waiting /\ (Tracking' <=> Tracking) /\ Spared' = Spared
  BY <1>2 DEF Settled, Waiting, Tracking, Spared
<1>11. ASSUME NEW r PROVE Near(r)' <=> Near(r)
  BY <1>2, <1>10 DEF Near
<1>12. ASSUME NEW p, At(p) PROVE At(p)'
  BY <1>2, <1>10, <1>11, <1>12 DEF At
<1>13. Placed'
  BY <1>2, <1>10, <1>11, <1>12 DEF RInv, Order, Placed
<1>14. InOrder' /\ NothingLost'
  BY <1>2, <1>5, <1>10 DEF RInv, Order, InOrder, NothingLost
<1>15. QED
  BY <1>7, <1>8, <1>9, <1>13, <1>14 DEF Order

\* reord_flush_tid finds the control.
LEMMA FlushLookupOrder == ASSUME RInv, FlushLookup PROVE Order'
<1>1. /\ rx = "idle" /\ rx' = "flush" /\ ctl.linked /\ Use("flush")
      /\ UNCHANGED <<air, ctl, buf, hand, de, got, out, gone, passed>>
  BY DEF FlushLookup, hist
<1>2. "flush" \in Faults /\ "loss" \in Faults /\ "deinit" \in Faults /\ used \in [Faults -> Nat]
  BY Known0 DEF RInv, Faults
<1>3. /\ used'["loss"] >= used["loss"] /\ used'["deinit"] >= used["deinit"]
      /\ used["loss"] \in Nat /\ used["deinit"] \in Nat
      /\ used'["loss"] \in Nat /\ used'["deinit"] \in Nat
      /\ used'["loss"] + used'["copy"] + used'["flush"] + used'["deinit"] <= MaxFaults
  BY <1>1, <1>2, UseIs
<1>4. Budget'
  <2>1. Cardinality(Frames \ (air \cup got)) \in Nat
    BY FramesFinite
  <2>2. /\ Cardinality(Frames \ (air \cup got)) <= used["loss"]
        /\ de # "idle" => used["deinit"] > 0
    BY DEF RInv, Order, Budget
  <2>3. Cardinality(Frames \ (air \cup got)) <= used'["loss"]
    BY <1>3, <2>1, <2>2
  <2>4. QED
    BY <1>1, <1>3, <2>2, <2>3 DEF Budget
<1>5. Ahead' /\ Phases' /\ Buffered'
  BY <1>1 DEF RInv, Order, Ahead, Phases, Buffered, Waiting
<1>6. Settled' = Settled /\ Waiting' = Waiting /\ (Tracking' <=> Tracking) /\ Spared' = Spared
  BY <1>1 DEF Settled, Waiting, Tracking, Spared
<1>7. ASSUME NEW r PROVE Near(r)' <=> Near(r)
  BY <1>1, <1>6 DEF Near
<1>8. ASSUME NEW p, At(p) PROVE At(p)'
  BY <1>1, <1>6, <1>7, <1>8 DEF At
<1>9. Placed'
  BY <1>1, <1>6, <1>7, <1>8 DEF RInv, Order, Placed
<1>10. InOrder' /\ NothingLost'
  BY <1>1, <1>3, <1>6 DEF RInv, Order, InOrder, NothingLost
<1>11. QED
  BY <1>4, <1>5, <1>9, <1>10 DEF Order

\* A frame arrives: what that does to the sender, whatever is done with the frame
LEMMA ArrivesOrder ==
    ASSUME RInv, NEW n \in Frames, NEW acked \in BOOLEAN, Arrives(n, acked), UNCHANGED de
    PROVE  /\ Budget' /\ \A m \in got', k \in air' : m < k + Window
           /\ rx = "idle" /\ hand = NoFrame /\ got' = got \cup {n}
           /\ \A m \in got' : m < n + Window
           /\ used["deinit"] > 0 => used'["deinit"] > 0
<1>1. /\ rx = "idle" /\ n \in air /\ \A m \in air : n < m + Window
      /\ got' = got \cup {n}
      /\ (air' = air \ {n} /\ UNCHANGED used) \/ (Use("copy") /\ UNCHANGED air)
  BY DEF Arrives, Sent
<1>2. "copy" \in Faults /\ "loss" \in Faults /\ "deinit" \in Faults /\ used \in [Faults -> Nat]
  BY Known0 DEF RInv, Faults
<1>3. /\ used'["loss"] >= used["loss"] /\ used'["deinit"] >= used["deinit"]
      /\ used["loss"] \in Nat /\ used["deinit"] \in Nat
      /\ used'["loss"] \in Nat /\ used'["deinit"] \in Nat
      /\ used'["loss"] + used'["copy"] + used'["flush"] + used'["deinit"] <= MaxFaults
  <2>1. CASE Use("copy")
    BY <1>2, <2>1, UseIs
  <2>2. CASE UNCHANGED used
    BY <1>2, <2>2 DEF RInv, Order, Budget
  <2>3. QED
    BY <1>1, <2>1, <2>2
<1>4. Cardinality(Frames \ (air' \cup got')) <= Cardinality(Frames \ (air \cup got))
  <2> DEFINE L == Frames \ (air \cup got)
             M == Frames \ (air' \cup got')
  <2>1. L \in SUBSET Frames /\ M \subseteq L
    BY <1>1
  <2> HIDE DEF L, M
  <2>2. IsFiniteSet(L)
    BY <2>1, FramesFinite
  <2>3. Cardinality(M) <= Cardinality(L)
    BY <2>1, <2>2, FS_Subset
  <2>4. QED
    BY <2>3 DEF L, M
<1>5. Budget'
  <2>1. /\ Cardinality(Frames \ (air \cup got)) \in Nat
        /\ Cardinality(Frames \ (air' \cup got')) \in Nat
    BY FramesFinite
  <2>2. /\ Cardinality(Frames \ (air \cup got)) <= used["loss"]
        /\ de # "idle" => used["deinit"] > 0
    BY DEF RInv, Order, Budget
  <2>3. Cardinality(Frames \ (air' \cup got')) <= used'["loss"]
    BY <1>3, <1>4, <2>1, <2>2
  <2>4. QED
    BY <1>3, <2>2, <2>3 DEF Budget
<1>6. \A m \in got, k \in air : m < k + Window
  BY DEF RInv, Order, Ahead
<1>7. hand = NoFrame
  BY <1>1 DEF RInv, Order, Ahead
<1>8. n < n + Window
  BY Known0, WindowHalf DEF RInv
<1>9. QED
  BY <1>1, <1>3, <1>5, <1>6, <1>7, <1>8

\* A frame that goes up at once, from outside the buffer
LEMMA DirectOrder ==
    ASSUME RInv, NEW n \in Frames, NEW acked \in BOOLEAN,
           ReceiveDirect(n, acked) \/ ReceiveNoControl(n, acked)
    PROVE  Order'
<1>1. /\ Arrives(n, acked) /\ UNCHANGED <<ctl, buf, rx, hand, de, gone>>
      /\ out' = out \cup {n}
      /\ \/ n \in Direct /\ UNCHANGED passed
         \/ ~ctl.linked /\ passed' = passed \cup Below(n)
  BY DEF ReceiveDirect, ReceiveNoControl
<1>2. /\ Budget' /\ \A m \in got', k \in air' : m < k + Window
      /\ rx = "idle" /\ hand = NoFrame /\ got' = got \cup {n}
      /\ used["deinit"] > 0 => used'["deinit"] > 0
  BY <1>1, ArrivesOrder
<1>3. ASSUME ~ctl.linked PROVE Waiting = {} /\ ~Tracking /\ de = "idle"
  <2>1. ~ctl.enable /\ de = "idle" /\ buf = <<>>
    BY <1>2, <1>3 DEF RInv, Order, Phases
  <2>2. QED
    BY <2>1, EmptyIs, Known0 DEF RInv, Waiting, Tracking
<1>4. Ahead'
  BY <1>1, <1>2 DEF Ahead
<1>5. Phases' /\ Buffered'
  BY <1>1, <1>2 DEF RInv, Order, Phases, Buffered, Waiting
<1>6. /\ Settled \subseteq Settled' /\ Waiting' = Waiting /\ (Tracking' <=> Tracking)
      /\ Spared' = Spared
  BY <1>1 DEF Settled, Waiting, Tracking, Spared
<1>7. ASSUME NEW r, n \in Direct, Near(r) PROVE Near(r)'
  <2>1. got' \ Direct = got \ Direct
    BY <1>2, <1>7
  <2>2. QED
    BY <1>1, <1>6, <1>7, <2>1 DEF Near
<1>8. ASSUME NEW p, n \in Direct, At(p) PROVE At(p)'
  <2>1. Near(p)'
    BY <1>7, <1>8 DEF At
  <2>2. QED
    BY <1>1, <1>2, <1>6, <1>8, <2>1 DEF At
<1>9. Placed'
  <2>1. CASE n \in Direct
    BY <1>1, <1>6, <1>7, <1>8, <2>1 DEF RInv, Order, Placed
  <2>2. CASE ~ctl.linked
    BY <1>3, <1>6, <2>2 DEF Placed
  <2>3. QED
    BY <1>1, <2>1, <2>2
<1>10. InOrder'
  <2>1. ASSUME NEW m \in out' \ Direct PROVE Below(m) \subseteq Settled'
    <3>1. CASE m \in out
      BY <1>6, <3>1 DEF RInv, Order, InOrder
    <3>2. CASE m = n
      BY <1>1, <2>1, <3>2 DEF Settled
    <3>3. QED
      BY <1>1, <2>1, <3>1, <3>2
  <2>2. QED
    BY <2>1 DEF InOrder
<1>11. NothingLost'
  BY <1>1, <1>2, <1>6 DEF RInv, Order, NothingLost
<1>12. QED
  BY <1>2, <1>4, <1>5, <1>9, <1>10, <1>11 DEF Order

\* A frame that gets a control, or enables it afresh
LEMMA ReceiveOrder ==
    ASSUME RInv, NEW n \in Frames, NEW acked \in BOOLEAN, Receive(n, acked)
    PROVE  Order'
<1>1. /\ Arrives(n, acked) /\ UNCHANGED <<buf, de, out, gone, passed>> /\ n \notin Direct
      /\ rx' = "found" /\ hand' = n /\ ctl' = IF ctl.enable THEN ctl ELSE Fresh
  BY DEF Receive
<1>2. /\ Budget' /\ \A m \in got', k \in air' : m < k + Window
      /\ rx = "idle" /\ hand = NoFrame /\ got' = got \cup {n}
      /\ \A m \in got' : m < n + Window
      /\ used["deinit"] > 0 => used'["deinit"] > 0
  BY <1>1, ArrivesOrder
<1>3. Ahead'
  BY <1>1, <1>2 DEF Ahead
<1>4. ctl'.enable /\ ctl'.linked /\ (~ctl.enable => ctl'.ind = FirstSn)
  <2>1. ctl.enable => ctl.linked
    BY <1>2 DEF RInv, Order, Phases
  <2>2. Fresh.enable /\ Fresh.linked /\ Fresh.ind = FirstSn
    BY DEF Fresh
  <2>3. QED
    BY <1>1, <2>1, <2>2
<1>5. Phases'
  <2>1. de = "idle" /\ (~ctl.enable \/ ctl.ind = FirstSn) => buf = <<>>
    BY DEF RInv, Order, Phases
  <2>2. de' = "idle" /\ (~ctl'.enable \/ ctl'.ind = FirstSn) => buf' = <<>>
    BY <1>1, <1>4, <2>1
  <2>3. QED
    BY <1>1, <1>4, <2>2 DEF Phases
<1>6. Buffered'
  BY <1>1, <1>2 DEF RInv, Order, Buffered, Waiting
<1>7. Settled' = Settled /\ Waiting' = Waiting /\ Spared' = Spared
  BY <1>1, <1>2, <1>4 DEF Settled, Waiting, Spared
<1>8. ASSUME NEW r, Near(r) PROVE Near(r)'
  <2>1. PICK x \in Spared : \A m \in got \ Direct : m >= r + Window => m \in {hand, x}
    BY <1>8 DEF Near
  <2>2. ASSUME NEW m \in got' \ Direct, m >= r + Window PROVE m \in {hand', x}
    <3>1. CASE m = n
      BY <1>1, <3>1
    <3>2. CASE m \in got
      <4>1. m # hand
        BY <1>2, <3>2, Known0 DEF RInv
      <4>2. QED
        BY <2>1, <2>2, <3>2, <4>1
    <3>3. QED
      BY <1>2, <2>2, <3>1, <3>2
  <2>3. QED
    BY <1>7, <2>1, <2>2 DEF Near
<1>9. ASSUME NEW p, At(p), ctl' = ctl PROVE At(p)'
  <2>1. Near(p)'
    BY <1>8, <1>9 DEF At
  <2>2. QED
    BY <1>1, <1>2, <1>7, <1>9, <2>1 DEF At
<1>10. Placed'
  <2>1. \A m \in Waiting' : Near(m)'
    BY <1>2, <1>7, <1>8 DEF RInv, Order, Placed
  <2>2. ASSUME Tracking' PROVE \E p \in FirstPos..(LastPos + 1) : At(p)'
    <3>1. ctl' = ctl /\ Tracking
      BY <1>1, <1>4, <2>2 DEF Tracking
    <3>2. PICK p \in FirstPos..(LastPos + 1) : At(p)
      BY <1>2, <3>1 DEF RInv, Order, Placed
    <3>3. QED
      BY <1>9, <3>1, <3>2
  <2>3. QED
    BY <2>1, <2>2 DEF Placed
<1>11. InOrder'
  BY <1>1, <1>7 DEF RInv, Order, InOrder
<1>12. NothingLost'
  <2>1. got \subseteq out \cup Waiting \cup gone
    BY <1>2, Known0 DEF RInv, Order, NothingLost
  <2>2. QED
    BY <1>1, <1>2, <1>7, <2>1 DEF RInv, Order, NothingLost
<1>13. QED
  BY <1>2, <1>3, <1>5, <1>6, <1>10, <1>11, <1>12 DEF Order

\* The bus thread is done with the frame in hand.
LEMMA HandDone ==
    ASSUME RInv, rx = "found", rx' = "idle", hand' = NoFrame, UNCHANGED <<net, de, got>>
    PROVE  /\ Budget' /\ Ahead' /\ hand \in got \ Direct /\ hand \in Frames /\ used' = used
           /\ air' = air
           /\ ctl.enable => Spared' = Spared
           /\ ~ctl.enable => de # "idle" /\ Spared = {NoFrame}
           /\ de # "idle" => Spared' = Frames \cup {NoFrame}
           /\ ctl.linked
           /\ de = "idle" => ctl.enable
<1>1. hand \in got \ Direct /\ hand \in Frames
  BY Known0 DEF RInv, Order, Ahead
<1>2. ctl.linked /\ (de = "idle" => ctl.enable)
  BY DEF RInv, Order, Phases
<1>3. air' = air /\ used' = used
  BY DEF net
<1>4. Budget'
  BY <1>3 DEF RInv, Order, Budget
<1>5. Ahead'
  BY <1>3 DEF RInv, Order, Ahead
<1>6. ctl.enable => Spared' = Spared
  BY DEF Spared
<1>7. ~ctl.enable => de # "idle" /\ Spared = {NoFrame}
  BY <1>2 DEF Spared
<1>8. de # "idle" => Spared' = Frames \cup {NoFrame}
  BY DEF Spared
<1>9. QED
  BY <1>1, <1>2, <1>3, <1>4, <1>5, <1>6, <1>7, <1>8

\* The control was disabled meanwhile: the frame passes by the buffer.
LEMMA DisabledOrder == ASSUME RInv, ProcessDisabled PROVE Order'
<1>1. /\ rx = "found" /\ rx' = "idle" /\ hand' = NoFrame /\ UNCHANGED <<net, buf, de, got, gone>>
      /\ ~ctl.enable /\ out' = out \cup {hand} /\ passed' = passed \cup Below(hand)
      /\ ctl' = [ctl EXCEPT !.ind = Succ(Sn(hand))]
  BY DEF ProcessDisabled, IndicateHand, Done
<1>2. /\ Budget' /\ Ahead' /\ hand \in got \ Direct /\ hand \in Frames /\ used' = used
      /\ de # "idle" /\ Spared = {NoFrame} /\ Spared' = Frames \cup {NoFrame} /\ ctl.linked
  BY <1>1, HandDone
<1>3. ~ctl'.enable /\ ctl'.linked
  BY <1>1, <1>2, CtlIs, Known0 DEF RInv
<1>4. Phases' /\ Buffered'
  BY <1>1, <1>2, <1>3 DEF RInv, Order, Phases, Buffered, Waiting
<1>5. ASSUME NEW r, Near(r) PROVE Near(r)'
  <2>1. \A m \in got \ Direct : m >= r + Window => m \in {hand, NoFrame}
    BY <1>2, <1>5 DEF Near
  <2>2. hand \in Spared' /\ hand \in {hand', hand}
    BY <1>2
  <2>3. \A m \in got' \ Direct : m >= r + Window => m \in {hand', hand}
    BY <1>1, <2>1
  <2>4. QED
    BY <2>2, <2>3 DEF Near
<1>6. Waiting' = Waiting /\ Settled \subseteq Settled' /\ ~Tracking'
  BY <1>1, <1>3 DEF Waiting, Settled, Tracking
<1>7. Placed'
  BY <1>1, <1>5, <1>6 DEF RInv, Order, Placed
<1>8. InOrder'
  BY <1>1, <1>6 DEF RInv, Order, InOrder, Settled
<1>9. NothingLost'
  BY <1>1, <1>2, <1>6 DEF RInv, Order, NothingLost
<1>10. QED
  BY <1>2, <1>4, <1>7, <1>8, <1>9 DEF Order

\* A late frame lies below ind_sn: all before it is settled.
LEMMA LateOrder == ASSUME RInv, ProcessLate PROVE Order'
<1>1. /\ rx = "found" /\ rx' = "idle" /\ hand' = NoFrame /\ UNCHANGED <<net, ctl, buf, de, got, passed>>
      /\ ctl.enable /\ Check.late
      /\ \/ hand \in Rtp /\ gone' = gone \cup {hand} /\ out' = out
         \/ gone' = gone /\ out' = out \cup {hand}
  BY DEF ProcessLate, IndicateHand, Done, LateFreed
<1>2. /\ Budget' /\ Ahead' /\ hand \in got \ Direct /\ hand \in Frames /\ used' = used
      /\ Spared' = Spared /\ ctl.linked
  BY <1>1, HandDone
<1>3. Tracking
  BY <1>1, CheckFirst DEF Tracking
<1>4. PICK p \in FirstPos..(LastPos + 1) : At(p)
  BY <1>1, <1>3 DEF RInv, Order, Placed
<1>5. hand < p
  BY <1>1, <1>3, <1>4, CheckNext
<1>6. hand \in Int /\ p \in Int /\ Window \in Nat
  BY <1>2, <1>4, FramesInt, SizesHold
<1>7. ASSUME NEW r \in Int, p =< r + Window, Near(r) PROVE Near(r)'
  <2>1. PICK x \in Spared : \A m \in got \ Direct : m >= r + Window => m \in {hand, x}
    BY <1>7 DEF Near
  <2>2. ~(hand >= r + Window)
    BY <1>5, <1>6, <1>7
  <2>3. \A m \in got' \ Direct : m >= r + Window => m \in {hand', x}
    BY <1>1, <2>1, <2>2
  <2>4. QED
    BY <1>2, <2>1, <2>3 DEF Near
<1>8. Waiting' = Waiting /\ Settled \subseteq Settled' /\ (Tracking' <=> Tracking)
  BY <1>1 DEF Waiting, Settled, Tracking
<1>9. \A n \in Waiting : p =< n + Window /\ n \in Int
  BY <1>4, Known0 DEF RInv, At
<1>10. \A n \in Waiting' : Near(n)'
  BY <1>1, <1>7, <1>8, <1>9 DEF RInv, Order, Placed
<1>11. At(p)'
  <2>1. Near(p)'
    BY <1>4, <1>6, <1>7 DEF At
  <2>2. QED
    BY <1>1, <1>4, <1>8, <2>1 DEF At
<1>12. Placed'
  BY <1>10, <1>11 DEF Placed
<1>13. Phases' /\ Buffered'
  BY <1>1, <1>2 DEF RInv, Order, Phases, Buffered, Waiting
<1>14. Below(hand) \subseteq Settled'
  <2>1. Below(hand) \subseteq Below(p)
    BY <1>5, <1>6, SizesHold DEF Below
  <2>2. QED
    BY <1>4, <1>8, <2>1 DEF At
<1>15. InOrder'
  BY <1>1, <1>8, <1>14 DEF RInv, Order, InOrder
<1>16. NothingLost'
  BY <1>1, <1>2, <1>8 DEF RInv, Order, NothingLost
<1>17. QED
  BY <1>2, <1>12, <1>13, <1>15, <1>16 DEF Order

\* What a frame that is not late is checked to, in either case
LEMMA CheckedIs ==
    ASSUME RInv, rx = "found", ctl.enable, ~Check.late
    PROVE  \E lo, p \in Nat : Checked(lo, p)
<1>1. CASE ctl.ind = FirstSn
  BY <1>1, CheckFirst
<1>2. CASE ctl.ind # FirstSn
  <2>1. Tracking
    BY <1>2 DEF Tracking
  <2>2. PICK p0 \in FirstPos..(LastPos + 1) : At(p0)
    BY <2>1 DEF RInv, Order, Placed
  <2>3. QED
    BY <2>1, <2>2, CheckNext
<1>3. QED
  BY <1>1, <1>2

\* The frame in hand is near to all that waits.
LEMMA CheckedClose ==
    ASSUME RInv, rx = "found", NEW lo \in Nat, NEW p \in Nat, Checked(lo, p)
    PROVE  Close(ToSet(buf), hand)
<1>1. \A n \in Waiting \cup {hand} : n \in lo..(lo + Half - 2)
  BY DEF Checked
<1>2. QED
  BY <1>1, SizesHold DEF Close, Waiting

\* A copy of a waiting frame leaves the buffer as it is.
LEMMA CopyOrder == ASSUME RInv, ProcessCopy PROVE Order'
<1>1. /\ rx = "found" /\ rx' = "idle" /\ hand' = NoFrame /\ UNCHANGED <<net, buf, de, got, out, gone>>
      /\ ctl.enable /\ ~Check.late /\ Known(buf, hand)
      /\ ctl' = [ctl EXCEPT !.ind = Check.ind] /\ passed' = passed \cup PassedBy(hand)
  BY DEF ProcessCopy, Done
<1>2. /\ Budget' /\ Ahead' /\ hand \in got \ Direct /\ hand \in Frames /\ used' = used
      /\ Spared' = Spared /\ ctl.linked
  BY <1>1, HandDone
<1>3. PICK lo, p \in Nat : Checked(lo, p)
  BY <1>1, CheckedIs
<1>4. hand \in Waiting
  <2>1. Close(ToSet(buf), hand)
    BY <1>1, <1>3, CheckedClose
  <2>2. buf \in Seq(Frames) /\ Sorted(buf)
    BY Known0 DEF RInv, Order, Buffered
  <2>3. QED
    BY <1>1, <1>2, <2>1, <2>2, KnownIs DEF Waiting
<1>5. /\ p \in FirstPos..(hand + 1) /\ Check.ind = Sn(p) /\ \A n \in Waiting : n < p + Window
      /\ \E x \in Spared : \A n \in got \ Direct : n >= p + Window => n = x
      /\ Below(p) \subseteq Settled \cup PassedBy(hand) \cup {hand}
      /\ de = "idle" => At(p)
  BY <1>3, <1>4 DEF Checked
<1>6. ctl'.ind = Sn(p) /\ ctl'.enable /\ ctl'.linked /\ ctl'.ind # FirstSn
  BY <1>1, <1>2, <1>5, CtlIs, SnIs, Known0 DEF RInv
<1>7. Waiting' = Waiting /\ Settled \subseteq Settled'
  BY <1>1 DEF Waiting, Settled
<1>8. \A m, n \in Waiting : m < n + Window
  BY DEF RInv, Order, Buffered
<1>9. hand \in Nat /\ \A n \in Waiting : n \in Nat /\ hand < n + Window
  BY <1>2, <1>4, <1>8, Known0 DEF RInv
<1>10. ASSUME NEW n \in Waiting PROVE Near(n)'
  <2>1. PICK x \in Spared : \A m \in got \ Direct : m >= n + Window => m \in {hand, x}
    BY <1>1, <1>10 DEF RInv, Order, Placed, Near
  <2>2. \A m \in got' \ Direct : m >= n + Window => m \in {hand', x}
    BY <1>1, <1>9, <2>1, WindowHalf
  <2>3. QED
    BY <1>2, <2>1, <2>2 DEF Near
<1>11. Near(p)'
  BY <1>1, <1>2, <1>5 DEF Near
<1>12. Below(p) \subseteq Settled'
  <2>1. CASE de = "idle"
    BY <1>5, <1>7, <2>1 DEF At
  <2>2. CASE de # "idle"
    <3>1. hand \in Settled' /\ PassedBy(hand) \subseteq Settled'
      BY <1>1, <1>4, <1>7, <2>2 DEF Settled
    <3>2. QED
      BY <1>5, <1>7, <3>1
  <2>3. QED
    BY <2>1, <2>2
<1>13. \A n \in Waiting' : n < p + Window /\ p =< n + Window /\ (de' = "idle" => p < n)
  <2>1. ASSUME NEW n \in Waiting PROVE p =< n + Window
    BY <1>5, <1>9, WindowHalf
  <2>2. de = "idle" => \A n \in Waiting : p < n
    BY <1>5 DEF At
  <2>3. QED
    BY <1>1, <1>5, <1>7, <2>1, <2>2
<1>14. \E n \in got' : p =< n + 1
  BY <1>1, <1>2, <1>5, <1>9
<1>15. At(p)'
  BY <1>6, <1>11, <1>12, <1>13, <1>14 DEF At
<1>16. p \in FirstPos..(LastPos + 1)
  BY <1>2, <1>5, SizesHold DEF Frames
<1>17. Placed'
  BY <1>7, <1>10, <1>15, <1>16 DEF Placed
<1>18. Phases' /\ Buffered'
  BY <1>1, <1>6 DEF RInv, Order, Phases, Buffered, Waiting
<1>19. InOrder'
  BY <1>1, <1>7 DEF RInv, Order, InOrder
<1>20. NothingLost'
  BY <1>1, <1>2, <1>4, <1>7 DEF RInv, Order, NothingLost
<1>21. QED
  BY <1>2, <1>17, <1>18, <1>19, <1>20 DEF Order

\* The frame in hand enters the buffer and the buffer is scanned from p on.
LEMMA FrameScanned ==
    ASSUME RInv, ProcessFrame, NEW lo \in Nat, NEW p \in Nat, Checked(lo, p)
    PROVE  \E p2 \in lo..(lo + Half - 1) :
              /\ Gap(Enqueue(buf, hand), p, p2) /\ ctl'.ind = Sn(p2)
              /\ Sorted(buf') /\ ctl'.enable = ctl.enable /\ ctl'.linked = ctl.linked
              /\ Waiting' = {n \in Waiting \cup {hand} : n > p2}
              /\ out' = out \cup {n \in Waiting \cup {hand} : n < p2}
              /\ p2 \notin Waiting \cup {hand}
              /\ \A n \in p..(p2 - 1) : n \in Waiting \cup {hand}
              /\ p2 >= p /\ (timer' <=> buf' # <<>>)
<1> DEFINE q == Enqueue(buf, hand)
           r == Process(Check.ind, q)
<1>1. /\ ctl' = [ctl EXCEPT !.ind = r.ind] /\ timer' = r.more /\ Indicate(q, Due(r.ind, q))
      /\ rx = "found" /\ ~Known(buf, hand)
  BY DEF ProcessFrame
<1>2. hand \in Frames /\ buf \in Seq(Frames) /\ Sorted(buf) /\ Fields
  BY <1>1, Known0 DEF RInv, Order, Ahead, Buffered
<1>3. Close(ToSet(buf), hand)
  BY <1>1, CheckedClose
<1>4. hand \notin ToSet(buf)
  BY <1>1, <1>2, <1>3, KnownIs
<1>5. q \in Seq(Frames) /\ ToSet(q) = Waiting \cup {hand} /\ Sorted(q)
  BY <1>2, <1>3, <1>4, EnqueueAdds, EnqueueSorted DEF Waiting
<1>6. /\ p \in lo..(lo + Half - 1) /\ Check.ind = Sn(p)
      /\ \A n \in Waiting \cup {hand} : n \in lo..(lo + Half - 2)
  BY DEF Checked
<1> HIDE DEF q
<1>7. r = Process(Sn(p), q)
  BY <1>6
<1> HIDE DEF r
<1>8. \A n \in ToSet(q) : n \in lo..(lo + Half - 2)
  BY <1>5, <1>6
<1>9. PICK p2 \in lo..(lo + Half - 1) :
              /\ Gap(q, p, p2) /\ ctl'.ind = Sn(p2)
              /\ buf' \in Seq(Frames) /\ Sorted(buf')
              /\ ToSet(buf') = {n \in ToSet(q) : n > p2}
              /\ out' = out \cup {n \in ToSet(q) : n < p2}
              /\ r.more \in BOOLEAN /\ (r.more <=> buf' # <<>>)
  <2>1. lo \in Int /\ ctl' = [ctl EXCEPT !.ind = r.ind] /\ Indicate(q, Due(r.ind, q))
    BY <1>1
  <2> HIDE DEF Checked
  <2>2. QED
    BY <2>1, <1>2, <1>5, <1>6, <1>7, <1>8, Rescan
<1>10. ctl'.enable = ctl.enable /\ ctl'.linked = ctl.linked
  BY <1>1, <1>2, CtlIs
<1>11. Waiting' = ToSet(buf')
  BY DEF Waiting
<1>12. p2 >= p /\ p2 \notin Waiting \cup {hand} /\ \A n \in p..(p2 - 1) : n \in Waiting \cup {hand}
  BY <1>5, <1>9 DEF Gap
<1>13. timer' <=> buf' # <<>>
  BY <1>1, <1>9
<1>14. QED
  BY <1>5, <1>9, <1>10, <1>11, <1>12, <1>13 DEF q

\* What ProcessFrame leaves behind: the frames above the first gap
LEMMA FrameOrder == ASSUME RInv, ProcessFrame PROVE Order' /\ (buf' # <<>> => timer')
<1>1. /\ rx = "found" /\ rx' = "idle" /\ hand' = NoFrame /\ UNCHANGED <<net, de, got, gone>>
      /\ ctl.enable /\ ~Check.late /\ passed' = passed \cup PassedBy(hand)
  BY DEF ProcessFrame
<1>2. /\ Budget' /\ Ahead' /\ hand \in got \ Direct /\ hand \in Frames /\ used' = used
      /\ Spared' = Spared /\ ctl.linked
  BY <1>1, HandDone
<1>3. PICK lo, p \in Nat : Checked(lo, p)
  BY <1>1, CheckedIs
<1>4. PICK p2 \in lo..(lo + Half - 1) :
              /\ ctl'.ind = Sn(p2)
              /\ Sorted(buf') /\ ctl'.enable = ctl.enable /\ ctl'.linked = ctl.linked
              /\ Waiting' = {n \in Waiting \cup {hand} : n > p2}
              /\ out' = out \cup {n \in Waiting \cup {hand} : n < p2}
              /\ p2 \notin Waiting \cup {hand}
              /\ \A n \in p..(p2 - 1) : n \in Waiting \cup {hand}
              /\ p2 >= p /\ (timer' <=> buf' # <<>>)
  BY <1>3, FrameScanned
<1>5. /\ p \in FirstPos..(hand + 1) /\ \A n \in Waiting \cup {hand} : n < p + Window
      /\ \E x \in Spared : \A n \in got \ Direct : n >= p + Window => n = x
      /\ Below(p) \subseteq Settled \cup PassedBy(hand) \cup {hand}
  BY <1>3 DEF Checked
<1>6. /\ Waiting \subseteq got \ Direct /\ \A m, n \in Waiting : m < n + Window
  BY DEF RInv, Order, Buffered
<1>7. /\ hand \in Nat /\ got \subseteq Nat /\ Waiting \subseteq Nat /\ p2 \in Nat /\ FirstPos \in Nat
      /\ LastPos \in Nat /\ got \subseteq Frames /\ hand =< LastPos
      /\ Window \in Nat \ {0}
  <2>1. Half \in Nat
    BY SizesHold
  <2>2. hand =< LastPos
    BY <1>2 DEF Frames
  <2>3. p2 \in Nat
    BY <2>1
  <2>4. QED
    BY <1>2, <1>6, <2>2, <2>3, Known0, SizesHold DEF RInv
<1>8. ctl'.enable /\ ctl'.linked /\ ctl'.ind # FirstSn
  BY <1>1, <1>2, <1>4, <1>7, SnIs
<1>9. Buffered'
  <2>1. Waiting' \subseteq got' \ Direct
    BY <1>1, <1>2, <1>4, <1>6
  <2>2. ASSUME NEW m \in Waiting', NEW n \in Waiting' PROVE m < n + Window
    BY <1>4, <1>5, <1>7, <2>2
  <2>3. QED
    BY <1>4, <2>1, <2>2 DEF Buffered
<1>10. PICK x \in Spared : \A n \in got \ Direct : n >= p + Window => n = x
  BY <1>5
<1>11. ASSUME NEW r \in Nat, r >= p PROVE Near(r)'
  <2>1. \A n \in got' \ Direct : n >= r + Window => n \in {hand', x}
    BY <1>1, <1>7, <1>10, <1>11
  <2>2. QED
    BY <1>2, <2>1 DEF Near
<1>12. \A n \in Settled : n \in Settled'
  <2>1. \A n \in Waiting : n \in Waiting' \/ n \in out'
    BY <1>4, <1>7
  <2>2. out \subseteq out' /\ passed \subseteq passed' /\ gone \subseteq gone'
    BY <1>1, <1>4
  <2>3. QED
    BY <1>1, <2>1, <2>2 DEF Settled
<1>13. Below(p2) \subseteq Settled'
  <2>1. ASSUME NEW n \in Below(p2) PROVE n \in Settled'
    <3>1. n \in Int /\ n < p2 /\ n >= FirstPos
      BY <1>7 DEF Below
    <3>2. CASE n \in Waiting \cup {hand}
      BY <1>4, <3>1, <3>2 DEF Settled
    <3>3. CASE n \in Below(p) /\ n \notin Waiting \cup {hand}
      <4>1. n \in Settled \/ n \in passed'
        BY <1>1, <1>5, <3>3
      <4>2. QED
        BY <1>12, <4>1 DEF Settled
    <3>4. CASE n \notin Below(p)
      <4>1. n \in p..(p2 - 1)
        BY <1>7, <3>1, <3>4 DEF Below
      <4>2. QED
        BY <1>4, <3>2, <4>1
    <3>5. QED
      BY <3>2, <3>3, <3>4
  <2>2. QED
    BY <2>1
<1>14. At(p2)'
  <2>1. Near(p2)'
    BY <1>4, <1>7, <1>11
  <2>2. \E n \in got' : p2 =< n + 1
    <3>1. CASE p2 = p
      BY <1>1, <1>2, <1>5, <1>7, <3>1
    <3>2. CASE p2 # p
      <4>1. p2 - 1 \in p..(p2 - 1)
        BY <1>4, <1>7, <3>2
      <4>2. p2 - 1 \in got'
        BY <1>1, <1>2, <1>4, <1>6, <4>1
      <4>3. QED
        BY <1>7, <4>2
    <3>3. QED
      BY <3>1, <3>2
  <2>3. ASSUME NEW n \in Waiting'
        PROVE  n < p2 + Window /\ p2 =< n + Window /\ (de' = "idle" => p2 < n)
    <3>1. n \in Waiting \cup {hand} /\ n > p2 /\ n \in Nat
      BY <1>4, <1>7
    <3>2. n < p + Window
      BY <1>5, <3>1
    <3>3. p \in Nat /\ p2 \in Nat /\ p2 >= p /\ Window \in Nat
      BY <1>4, <1>7
    <3>4. QED
      BY <3>1, <3>2, <3>3
  <2>4. QED
    BY <1>4, <1>13, <2>1, <2>2, <2>3 DEF At
<1>15. p2 \in FirstPos..(LastPos + 1)
  <2>1. PICK n \in got' : p2 =< n + 1
    BY <1>14 DEF At
  <2>2. n =< LastPos /\ n \in Nat
    BY <1>1, <1>7, <2>1 DEF Frames
  <2>3. QED
    BY <1>4, <1>5, <1>7, <2>1, <2>2
<1>16. Placed'
  <2>1. ASSUME NEW n \in Waiting' PROVE n \in Nat /\ n >= p
    <3>1. n \in Nat /\ n > p2
      BY <1>4, <1>7
    <3>2. QED
      BY <1>4, <1>7, <3>1
  <2>2. QED
    BY <1>11, <1>14, <1>15, <2>1 DEF Placed
<1>17. Phases'
  BY <1>1, <1>8 DEF Phases
<1>18. InOrder'
  <2>1. ASSUME NEW m \in out' \ Direct PROVE Below(m) \subseteq Settled'
    <3>1. CASE m \in out
      BY <1>12, <2>1, <3>1 DEF RInv, Order, InOrder
    <3>2. CASE m \in Waiting \cup {hand} /\ m < p2
      <4>1. Below(m) \subseteq Below(p2)
        BY <1>7, <3>2 DEF Below
      <4>2. QED
        BY <1>13, <4>1
    <3>3. QED
      BY <1>4, <2>1, <3>1, <3>2
  <2>2. QED
    BY <2>1 DEF InOrder
<1>19. NothingLost'
  <2>1. \A n \in Waiting \cup {hand} : n \in Waiting' \/ n \in out'
    BY <1>4, <1>7
  <2>2. got' \subseteq out' \cup Waiting' \cup gone' \cup {hand'}
    BY <1>1, <1>4, <2>1 DEF RInv, Order, NothingLost
  <2>3. QED
    BY <1>1, <1>2, <2>2 DEF RInv, Order, NothingLost
<1>20. QED
  BY <1>2, <1>4, <1>9, <1>16, <1>17, <1>18, <1>19 DEF Order

\* The flush gives all that waits to the stack.
LEMMA FlushOrder == ASSUME RInv, FlushBuffer PROVE Order' /\ buf' = <<>>
<1>1. /\ rx = "flush" /\ rx' = "stop_timer" /\ UNCHANGED <<net, hand, de, got, gone>>
      /\ Indicate(buf, Len(buf)) /\ ctl' = [ctl EXCEPT !.enable = FALSE]
      /\ passed' = passed \cup (IF buf = <<>> THEN {} ELSE Below(buf[Len(buf)]))
  BY DEF FlushBuffer
<1>2. buf \in Seq(Frames) /\ out \in SUBSET Frames /\ Len(buf) \in Nat /\ Sorted(buf) /\ Fields
  BY Known0, LenProperties DEF RInv, Order, Buffered
<1>3. /\ buf' \in Seq(Frames) /\ Len(buf') = 0 /\ out \cup ToSet(buf) = out' \cup ToSet(buf')
  BY <1>1, <1>2, IndicateSplits
<1>4. buf' = <<>> /\ ToSet(buf') = {}
  <2>1. buf' = <<>>
    BY <1>3
  <2>2. QED
    BY <1>3, <2>1, EmptyIs
<1>5. Waiting' = {} /\ out' = out \cup Waiting
  BY <1>3, <1>4 DEF Waiting
<1>6. ctl'.enable = FALSE /\ ctl'.linked = ctl.linked
  <2>1. DOMAIN ctl = {"linked", "enable", "ind"}
    BY <1>2 DEF Fields, Fresh
  <2>2. QED
    BY <1>1, <2>1
<1>7. air' = air /\ used' = used
  BY <1>1 DEF net
<1>8. Budget' /\ Ahead'
  BY <1>1, <1>7 DEF RInv, Order, Budget, Ahead
<1>9. Phases'
  BY <1>1, <1>4, <1>6 DEF RInv, Order, Phases
<1>10. Buffered'
  <2>1. Sorted(buf')
    BY <1>3 DEF Sorted
  <2>2. QED
    BY <1>5, <2>1 DEF Buffered
<1>11. Placed'
  BY <1>5, <1>6 DEF Placed, Tracking
<1>12. Settled \subseteq Settled'
  BY <1>1, <1>5 DEF Settled
<1>13. ASSUME NEW m \in Waiting PROVE Below(m) \subseteq Settled'
  <2>1. PICK i \in 1..Len(buf) : m = buf[i]
    BY <1>2, ToSetIs DEF Waiting
  <2>2. buf # <<>> /\ Len(buf) \in 1..Len(buf)
    BY <1>2
  <2>3. i < Len(buf) => buf[i] < buf[Len(buf)]
    BY <1>2, <2>2 DEF Sorted
  <2>4. m \in Int /\ buf[Len(buf)] \in Int /\ m =< buf[Len(buf)]
    <3>1. buf[i] \in Int /\ buf[Len(buf)] \in Int
      <4>1. buf[i] \in Frames /\ buf[Len(buf)] \in Frames
        BY <1>2, <2>2
      <4>2. QED
        BY <4>1, FramesInt
    <3>2. i < Len(buf) \/ i = Len(buf)
      BY <1>2
    <3>3. QED
      BY <2>1, <2>3, <3>1, <3>2
  <2>5. Below(m) \subseteq Below(buf[Len(buf)])
    BY <2>4, SizesHold DEF Below
  <2>6. QED
    BY <1>1, <2>2, <2>5 DEF Settled
<1>14. InOrder'
  <2>1. ASSUME NEW m \in out' \ Direct PROVE Below(m) \subseteq Settled'
    <3>1. CASE m \in out
      BY <1>12, <2>1, <3>1 DEF RInv, Order, InOrder
    <3>2. CASE m \in Waiting
      BY <1>13, <3>2
    <3>3. QED
      BY <1>5, <2>1, <3>1, <3>2
  <2>2. QED
    BY <2>1 DEF InOrder
<1>15. NothingLost'
  BY <1>1, <1>5, <1>7 DEF RInv, Order, NothingLost
<1>16. QED
  BY <1>4, <1>8, <1>9, <1>10, <1>11, <1>14, <1>15 DEF Order

-----------------------------------------------------------------------------
\* A forced scan of an empty buffer finds nothing.
LEMMA ProcessEmpty ==
    ASSUME NEW ind
    PROVE  Process(ind, <<>>) = [ind |-> ind, more |-> FALSE]
<1>1. Len(<<>>) = 0
  OBVIOUS
<1>2. PICK g : Scan(ind, <<>>, 0, g) /\ Process(ind, <<>>) = g[0]
  BY <1>1, ProcessScans
<1>3. g[0] = [ind |-> ind, more |-> FALSE]
  BY <1>2 DEF Scan
<1>4. QED
  BY <1>2, <1>3

\* What the worker does to an empty buffer
LEMMA WorkerEmpty ==
    ASSUME RInv, TimeoutWorker, buf = <<>>
    PROVE  /\ UNCHANGED <<net, buf, hand, hist, rx, de>>
           /\ ctl'.ind = ctl.ind /\ ctl'.enable = ctl.enable /\ ctl'.linked = ctl.linked
<1>1. Fields
  BY Known0 DEF RInv
<1>2. Forced = ctl.ind
  BY DEF Forced
<1> DEFINE r == Process(ctl.ind, <<>>)
<1>3. r = [ind |-> ctl.ind, more |-> FALSE]
  BY ProcessEmpty
<1> HIDE DEF r
<1>4. /\ ctl' = [ctl EXCEPT !.ind = r.ind] /\ Indicate(buf, Due(r.ind, buf))
      /\ passed' = passed \cup {}
      /\ UNCHANGED <<net, rx, hand, de, got, gone>>
  BY <1>2 DEF TimeoutWorker, r
<1>5. ctl'.ind = ctl.ind /\ ctl'.enable = ctl.enable /\ ctl'.linked = ctl.linked
  BY <1>1, <1>3, <1>4, CtlIs
<1>6. Len(buf) = 0 /\ buf \in Seq(Frames) /\ out \in SUBSET Frames
  BY Known0 DEF RInv
<1>7. Due(r.ind, buf) \in 0..Len(buf)
  BY <1>6, DueRange
<1>8. /\ buf' \in Seq(Frames) /\ Len(buf') = 0 - Due(r.ind, buf)
      /\ out \cup ToSet(buf) = out' \cup ToSet(buf')
  BY <1>4, <1>6, <1>7, IndicateSplits
<1>9. buf' = <<>>
  BY <1>6, <1>7, <1>8
<1>10. ToSet(buf) = {} /\ ToSet(buf') = {}
  BY <1>6, <1>8, <1>9, EmptyIs
<1>11. out' = out
  BY <1>8, <1>10
<1>12. QED
  BY <1>4, <1>5, <1>9, <1>11 DEF hist

\* What it does to one that holds frames: the scan starts at the first.
LEMMA WorkerScanned ==
    ASSUME RInv, TimeoutWorker, buf # <<>>
    PROVE  \E first \in Waiting, p2 \in Nat :
              /\ \A n \in Waiting : first =< n
              /\ p2 > first /\ ctl'.ind = Sn(p2)
              /\ Sorted(buf') /\ ctl'.enable = ctl.enable /\ ctl'.linked = ctl.linked
              /\ Waiting' = {n \in Waiting : n > p2}
              /\ out' = out \cup {n \in Waiting : n < p2}
              /\ p2 \notin Waiting
              /\ \A n \in first..(p2 - 1) : n \in Waiting
              /\ passed' = passed \cup Below(first)
              /\ (timer' <=> timer \/ buf' # <<>>)
<1> DEFINE first == Head(buf)
           r == Process(Forced, buf)
<1>1. /\ buf \in Seq(Frames) /\ Len(buf) \in Nat /\ 1 \in 1..Len(buf) /\ first = buf[1]
      /\ Sorted(buf) /\ Fields /\ Waiting \subseteq Nat
  <2>1. buf \in Seq(Frames) /\ Len(buf) \in Nat /\ Sorted(buf) /\ Fields /\ Waiting \subseteq Nat
    BY Known0, LenProperties DEF RInv, Order, Buffered
  <2>2. QED
    BY <2>1
<1>2. first \in Waiting /\ first \in Nat
  BY <1>1, ToSetIs DEF Waiting
<1>3. ASSUME NEW n \in Waiting PROVE first =< n
  <2>1. PICK i \in 1..Len(buf) : n = buf[i]
    BY <1>1, ToSetIs DEF Waiting
  <2>2. i > 1 => buf[1] < buf[i]
    BY <1>1 DEF Sorted
  <2>3. QED
    BY <1>1, <1>2, <2>1, <2>2
<1>4. Forced = Sn(first)
  BY DEF Forced
<1> HIDE DEF first
<1>5. r = Process(Sn(first), buf)
  BY <1>4
<1>6. /\ ctl' = [ctl EXCEPT !.ind = r.ind] /\ Indicate(buf, Due(r.ind, buf))
      /\ passed' = passed \cup Below(first) /\ timer' = Rearmed(r.more)
  BY DEF TimeoutWorker, first
<1> HIDE DEF r
<1>7. \A n \in ToSet(buf) : n \in first..(first + Half - 2)
  <2>1. \A n \in Waiting : n < first + Window
    BY <1>2 DEF RInv, Order, Buffered
  <2>2. QED
    BY <1>1, <1>2, <1>3, <2>1, WindowHalf DEF Waiting
<1>8. first \in Int /\ first \in first..(first + Half - 1)
  BY <1>2, WindowHalf
<1>9. PICK p2 \in first..(first + Half - 1) :
              /\ Gap(buf, first, p2) /\ ctl'.ind = Sn(p2)
              /\ buf' \in Seq(Frames) /\ Sorted(buf')
              /\ ToSet(buf') = {n \in ToSet(buf) : n > p2}
              /\ out' = out \cup {n \in ToSet(buf) : n < p2}
              /\ r.more \in BOOLEAN /\ (r.more <=> buf' # <<>>)
  BY <1>1, <1>5, <1>6, <1>7, <1>8, Rescan
<1>10. ctl'.enable = ctl.enable /\ ctl'.linked = ctl.linked
  BY <1>1, <1>6, CtlIs
<1>11. Waiting' = ToSet(buf') /\ Waiting = ToSet(buf)
  BY DEF Waiting
<1>12. /\ p2 \in Nat /\ p2 > first /\ p2 \notin Waiting
       /\ \A n \in first..(p2 - 1) : n \in Waiting
  BY <1>2, <1>9, <1>11, SizesHold DEF Gap
<1>13. timer' <=> timer \/ buf' # <<>>
  BY <1>6, <1>9 DEF Rearmed
<1>14. QED
  BY <1>2, <1>3, <1>6, <1>9, <1>10, <1>11, <1>12, <1>13

\* What the worker leaves behind: the frames above the second gap
LEMMA WorkerOrder == ASSUME RInv, TimeoutWorker PROVE Order' /\ (buf' # <<>> => timer')
<1>1. CASE buf = <<>>
  BY <1>1, WorkerEmpty, QuietOrder
<1>2. CASE buf # <<>>
  <2>1. UNCHANGED <<air, used, rx, hand, de, got, gone>>
    BY DEF TimeoutWorker, net
  <2>2. PICK first \in Waiting, p2 \in Nat :
              /\ \A n \in Waiting : first =< n
              /\ p2 > first /\ ctl'.ind = Sn(p2)
              /\ Sorted(buf') /\ ctl'.enable = ctl.enable /\ ctl'.linked = ctl.linked
              /\ Waiting' = {n \in Waiting : n > p2}
              /\ out' = out \cup {n \in Waiting : n < p2}
              /\ p2 \notin Waiting
              /\ \A n \in first..(p2 - 1) : n \in Waiting
              /\ passed' = passed \cup Below(first)
              /\ (timer' <=> timer \/ buf' # <<>>)
    BY <1>2, WorkerScanned
  <2>3. rx # "undefined"
    BY DEF RInv, IInv, Steps, TimeoutWorker
  <2>4. /\ Waiting \subseteq got \ Direct /\ \A m, n \in Waiting : m < n + Window
        /\ Waiting \subseteq Frames /\ Frames \subseteq Nat /\ Waiting \subseteq Nat /\ got \subseteq Frames
        /\ FirstPos \in Nat /\ LastPos \in Nat /\ Window \in Nat \ {0}
    BY Known0, SizesHold DEF RInv, Order, Buffered
  <2>5. Budget' /\ Ahead'
    BY <2>1 DEF RInv, Order, Budget, Ahead
  <2>6. ctl'.ind # FirstSn
    BY <2>2, SnIs
  <2>7. Phases'
    BY <1>2, <2>1, <2>2, <2>6 DEF RInv, Order, Phases
  <2>8. Buffered'
    BY <2>1, <2>2, <2>4 DEF Buffered
  <2>9. Spared' = Spared
    BY <2>1, <2>2 DEF Spared
  <2>10. ASSUME NEW r, Near(r) PROVE Near(r)'
    BY <2>1, <2>9, <2>10 DEF Near
  <2>11. Near(p2)
    <3>1. Near(first)
      BY <2>3 DEF RInv, Order, Placed
    <3>2. QED
      BY <2>2, <2>4, <3>1, NearMono DEF RInv
  <2>12. \A n \in Settled : n \in Settled'
    <3>1. \A n \in Waiting : n \in Waiting' \/ n \in out'
      BY <2>2, <2>4
    <3>2. QED
      BY <2>1, <2>2, <3>1 DEF Settled
  <2>13. Below(p2) \subseteq Settled'
    <3>1. ASSUME NEW n \in Below(p2) PROVE n \in Settled'
      <4>1. n \in Int /\ n < p2 /\ n >= FirstPos
        BY <2>4 DEF Below
      <4>2. CASE n < first
        <5>1. n \in Below(first)
          BY <2>4, <4>1, <4>2 DEF Below
        <5>2. QED
          BY <2>2, <5>1 DEF Settled
      <4>3. CASE n >= first
        <5>1. n \in first..(p2 - 1)
          BY <2>4, <4>1, <4>3
        <5>2. n \in out'
          BY <2>2, <4>1, <5>1
        <5>3. QED
          BY <5>2 DEF Settled
      <4>4. QED
        BY <2>4, <4>1, <4>2, <4>3
    <3>2. QED
      BY <3>1
  <2>14. At(p2)'
    <3>1. \E n \in got' : p2 =< n + 1
      <4>1. p2 - 1 \in first..(p2 - 1)
        BY <2>2, <2>4
      <4>2. p2 - 1 \in got'
        BY <2>1, <2>2, <2>4, <4>1
      <4>3. QED
        BY <4>2
    <3>2. \A n \in Waiting' : n < p2 + Window /\ p2 =< n + Window /\ (de' = "idle" => p2 < n)
      <4>1. ASSUME NEW n \in Waiting' PROVE n < p2 + Window /\ p2 =< n + Window /\ p2 < n
        <5>1. n \in Waiting /\ n > p2 /\ n \in Nat /\ first \in Nat
          BY <2>2, <2>4
        <5>2. n < first + Window
          BY <2>4, <5>1
        <5>3. QED
          BY <2>2, <2>4, <5>1, <5>2
      <4>2. QED
        BY <4>1
    <3>3. QED
      BY <2>2, <2>10, <2>11, <2>13, <3>1, <3>2 DEF At
  <2>15. p2 \in FirstPos..(LastPos + 1)
    <3>1. PICK n \in got' : p2 =< n + 1
      BY <2>14 DEF At
    <3>2. n =< LastPos /\ n \in Nat /\ first >= FirstPos /\ first \in Nat
      BY <2>1, <2>4, <3>1 DEF Frames
    <3>3. QED
      BY <2>2, <2>4, <3>1, <3>2
  <2>16. Placed'
    <3>1. \A n \in Waiting' : Near(n)
      BY <2>2, <2>3 DEF RInv, Order, Placed
    <3>2. QED
      BY <2>10, <2>14, <2>15, <3>1 DEF Placed
  <2>17. InOrder'
    <3>1. ASSUME NEW m \in out' \ Direct PROVE Below(m) \subseteq Settled'
      <4>1. CASE m \in out
        BY <2>12, <3>1, <4>1 DEF RInv, Order, InOrder
      <4>2. CASE m \in Waiting /\ m < p2
        <5>1. Below(m) \subseteq Below(p2)
          BY <2>4, <4>2 DEF Below
        <5>2. QED
          BY <2>13, <5>1
      <4>3. QED
        BY <2>2, <3>1, <4>1, <4>2
    <3>2. QED
      BY <3>1 DEF InOrder
  <2>18. NothingLost'
    <3>1. \A n \in Waiting : n \in Waiting' \/ n \in out'
      BY <2>2, <2>4
    <3>2. QED
      BY <2>1, <2>2, <3>1 DEF RInv, Order, NothingLost
  <2>19. QED
    BY <2>2, <2>5, <2>7, <2>8, <2>16, <2>17, <2>18 DEF Order
<1>3. QED
  BY <1>1, <1>2

\* The teardown disables the control ...
LEMMA DeinitStartOrder == ASSUME RInv, DeinitStart PROVE Order'
<1>1. /\ de = "idle" /\ de' # "idle" /\ ctl.linked /\ Use("deinit")
      /\ ctl' = [ctl EXCEPT !.enable = FALSE]
      /\ UNCHANGED <<air, buf, rx, hand, got, out, gone, passed>>
  BY DEF DeinitStart, hist
<1>2. "loss" \in Faults /\ "deinit" \in Faults /\ used \in [Faults -> Nat] /\ Fields
  BY Known0 DEF RInv, Faults
<1>3. /\ used'["loss"] >= used["loss"] /\ used'["deinit"] = used["deinit"] + 1
      /\ used["loss"] \in Nat /\ used["deinit"] \in Nat
      /\ used'["loss"] \in Nat /\ used'["deinit"] \in Nat
      /\ used'["loss"] + used'["copy"] + used'["flush"] + used'["deinit"] <= MaxFaults
  BY <1>1, <1>2, UseIs
<1>4. ctl'.enable = FALSE /\ ctl'.linked = ctl.linked
  <2>1. DOMAIN ctl = {"linked", "enable", "ind"}
    BY <1>2 DEF Fields, Fresh
  <2>2. QED
    BY <1>1, <2>1
<1>5. Budget'
  <2>1. Cardinality(Frames \ (air \cup got)) \in Nat
    BY FramesFinite
  <2>2. Cardinality(Frames \ (air \cup got)) <= used["loss"]
    BY DEF RInv, Order, Budget
  <2>3. Cardinality(Frames \ (air \cup got)) <= used'["loss"]
    BY <1>3, <2>1, <2>2
  <2>4. used'["deinit"] > 0
    BY <1>3
  <2>5. QED
    BY <1>1, <1>3, <2>3, <2>4 DEF Budget
<1>6. Ahead' /\ Phases' /\ Buffered'
  BY <1>1, <1>4 DEF RInv, Order, Ahead, Phases, Buffered, Waiting
<1>7. Spared = {NoFrame} /\ NoFrame \in Spared'
  BY <1>1 DEF Spared
<1>8. ASSUME NEW r, Near(r) PROVE Near(r)'
  BY <1>1, <1>7, <1>8 DEF Near
<1>9. Waiting' = Waiting /\ Settled \subseteq Settled' /\ ~Tracking'
  BY <1>1, <1>4 DEF Waiting, Settled, Tracking
<1>10. Placed'
  BY <1>1, <1>8, <1>9 DEF RInv, Order, Placed
<1>11. InOrder' /\ NothingLost'
  BY <1>1, <1>3, <1>9 DEF RInv, Order, InOrder, NothingLost
<1>12. QED
  BY <1>5, <1>6, <1>10, <1>11 DEF Order

\* ... frees what waits ...
LEMMA DeinitListOrder == ASSUME RInv, DeinitList PROVE Order'
<1>1. /\ de = "list" /\ de' = "free" /\ buf' = <<>> /\ gone' = gone \cup Waiting
      /\ UNCHANGED <<net, ctl, rx, hand, got, out, passed>>
  BY DEF DeinitList, Waiting
<1>2. air' = air /\ used' = used
  BY <1>1 DEF net
<1>3. Waiting' = {} /\ Len(buf') = 0
  <2>1. <<>> \in Seq(Frames) /\ Len(<<>>) = 0
    OBVIOUS
  <2>2. ToSet(<<>>) = {}
    BY <2>1, EmptyIs
  <2>3. Waiting' = ToSet(buf')
    BY DEF Waiting
  <2>4. QED
    BY <1>1, <2>1, <2>2, <2>3
<1>4. Sorted(buf')
  BY <1>3 DEF Sorted
<1>5. Budget' /\ Ahead' /\ Phases' /\ Buffered'
  BY <1>1, <1>2, <1>3, <1>4 DEF RInv, Order, Budget, Ahead, Phases, Buffered
<1>6. Settled' = Settled /\ (Tracking' <=> Tracking) /\ Spared' = Spared
  BY <1>1, <1>3 DEF Settled, Tracking, Spared
<1>7. ASSUME NEW r, Near(r) PROVE Near(r)'
  BY <1>1, <1>6, <1>7 DEF Near
<1>8. ASSUME NEW p, At(p) PROVE At(p)'
  BY <1>1, <1>3, <1>6, <1>7, <1>8 DEF At
<1>9. Placed'
  BY <1>1, <1>3, <1>6, <1>8 DEF RInv, Order, Placed
<1>10. InOrder'
  BY <1>1, <1>6 DEF RInv, Order, InOrder
<1>11. NothingLost'
  <2>1. used'["deinit"] > 0
    BY <1>1, <1>2 DEF RInv, Order, Budget
  <2>2. QED
    BY <1>1, <1>3, <2>1 DEF RInv, Order, NothingLost
<1>12. QED
  BY <1>5, <1>9, <1>10, <1>11 DEF Order

\* ... and the control, which nothing refers to ...
LEMMA DeinitFreeOrder == ASSUME RInv, DeinitFree PROVE Order' /\ buf' = <<>>
<1>1. /\ de = "free" /\ de' = "idle" /\ rx = "idle" /\ buf = <<>> /\ ctl' = Absent
      /\ UNCHANGED <<air, used, buf, rx, hand, got, out, gone, passed>>
  BY DEF DeinitFree, InUse, net, hist
<1>2. ~ctl'.enable /\ ~ctl'.linked
  BY <1>1 DEF Absent
<1>3. Waiting = {} /\ Waiting' = {}
  BY <1>1, EmptyIs, Known0 DEF RInv, Waiting
<1>4. Budget' /\ Ahead' /\ Phases' /\ Buffered'
  BY <1>1, <1>2, <1>3 DEF RInv, Order, Budget, Ahead, Phases, Buffered
<1>5. Settled' = Settled
  BY <1>1, <1>3 DEF Settled
<1>6. Placed'
  BY <1>2, <1>3 DEF Placed, Tracking
<1>7. InOrder' /\ NothingLost'
  BY <1>1, <1>3, <1>5 DEF RInv, Order, InOrder, NothingLost
<1>8. QED
  BY <1>1, <1>4, <1>6, <1>7 DEF Order

\* ... or something does.
LEMMA DanglingOrder == ASSUME RInv, DeinitDangling PROVE Order'
<1>1. /\ de = "free" /\ de' = "dangling" /\ rx' = "undefined"
      /\ UNCHANGED <<air, used, buf, hand, got, out, gone, passed>>
  BY DEF DeinitDangling, net, hist
<1>2. Waiting' = Waiting /\ Settled' = Settled
  BY <1>1 DEF Waiting, Settled
<1>3. Budget' /\ Ahead' /\ Phases' /\ Buffered' /\ Placed'
  BY <1>1, <1>2 DEF RInv, Order, Budget, Ahead, Phases, Buffered, Placed
<1>4. InOrder' /\ NothingLost'
  BY <1>1, <1>2 DEF RInv, Order, InOrder, NothingLost
<1>5. QED
  BY <1>3, <1>4 DEF Order

-----------------------------------------------------------------------------
LEMMA InitRInv == Init => RInv
<1> SUFFICES ASSUME Init PROVE RInv
  OBVIOUS
<1>1. IInv
  BY InitIInv
<1>2. /\ buf = <<>> /\ got = {} /\ out = {} /\ gone = {} /\ passed = {} /\ air = Frames
      /\ rx = "idle" /\ de = "idle" /\ hand = NoFrame /\ ~ctl.linked /\ ~ctl.enable
  BY DEF Init, Absent
<1>3. Waiting = {} /\ Len(buf) = 0
  BY <1>1, <1>2, EmptyIs, Known0 DEF Waiting
<1>4. Budget
  <2>1. /\ used["loss"] = 0 /\ used["copy"] = 0 /\ used["flush"] = 0 /\ used["deinit"] = 0
    BY DEF Init, Faults
  <2>2. Frames \ (air \cup got) = {}
    BY <1>2
  <2>3. Cardinality(Frames \ (air \cup got)) = 0
    BY <2>2, FS_EmptySet
  <2>4. QED
    BY <1>2, <2>1, <2>3, SizesHold DEF Budget
<1>5. Ahead /\ Phases /\ Buffered /\ Placed
  BY <1>2, <1>3 DEF Ahead, Phases, Buffered, Placed, Sorted, Tracking
<1>6. InOrder /\ NothingLost
  BY <1>2 DEF InOrder, NothingLost
<1>7. QED
  BY <1>1, <1>4, <1>5, <1>6 DEF RInv, Order

\* Every step keeps the order.
LEMMA RInductive == ASSUME RInv, [Next]_vars PROVE RInv'
<1>1. IInv'
  BY Inductive DEF RInv
<1>2. CASE GiveUp
  BY <1>1, <1>2, LossOrder DEF RInv
<1>3. CASE BusThread
  BY <1>1, <1>3, LossOrder, DirectOrder, ReceiveOrder, DisabledOrder, LateOrder, CopyOrder,
     FrameOrder, FlushLookupOrder, FlushOrder, ClockOrder DEF RInv, BusThread
<1>4. CASE Timeout
  BY <1>1, <1>4, ClockOrder, WorkerOrder DEF RInv, Timeout
<1>5. CASE BusDown
  BY <1>1, <1>5, ClockOrder DEF RInv
<1>6. CASE Teardown
  BY <1>1, <1>6, ClockOrder, DeinitStartOrder, DeinitListOrder, DeinitFreeOrder, DanglingOrder
     DEF RInv, Teardown
<1>7. CASE UNCHANGED vars
  BY <1>1, <1>7, QuietOrder DEF RInv, vars
<1>8. QED
  BY <1>2, <1>3, <1>4, <1>5, <1>6, <1>7 DEF Next

LEMMA RInvariance == Spec => []RInv
BY InitRInv, RInductive, PTL DEF Spec

\* A frame waits behind a gap only if something is going to give up on it: what
\* each step does to the buffer and to the clock.
LEMMA GapStep == ASSUME RInv, GapWatched, [Next]_vars PROVE GapWatched'
<1>1. CASE GiveUp \/ ReceiveNoDescriptor \/ FlushLookup
  BY <1>1 DEF GiveUp, ReceiveNoDescriptor, FlushLookup, GapWatched, clock
<1>2. ASSUME NEW n \in Frames, NEW acked \in BOOLEAN,
             ReceiveDirect(n, acked) \/ ReceiveNoControl(n, acked) \/ Receive(n, acked)
      PROVE  GapWatched'
  BY <1>2 DEF ReceiveDirect, ReceiveNoControl, Receive, GapWatched, clock
<1>3. CASE ProcessDisabled \/ ProcessLate \/ ProcessCopy
  BY <1>3 DEF ProcessDisabled, ProcessLate, ProcessCopy, IndicateHand, GapWatched, clock
<1>4. CASE ProcessFrame
  BY <1>4, FrameOrder DEF GapWatched
<1>5. CASE FlushBuffer
  BY <1>5, FlushOrder DEF GapWatched
<1>6. CASE FlushStopTimer \/ FlushCancelWork
  <2>1. buf = <<>>
    BY <1>6 DEF FlushStopTimer, FlushCancelWork, RInv, Order, Phases
  <2>2. QED
    BY <1>6, <2>1 DEF FlushStopTimer, FlushCancelWork, GapWatched
<1>7. CASE TimerExpires \/ TimeoutHandler \/ WorkStarts
  <2>1. CASE TimerExpires
    BY <2>1 DEF TimerExpires, GapWatched
  <2>2. CASE TimeoutHandler
    <3>1. ASSUME ~down PROVE work' = TRUE
      BY <2>2, <3>1, Zenon DEF TimeoutHandler
    <3>2. buf' = buf /\ de' = de /\ down' = down
      BY <2>2 DEF TimeoutHandler
    <3>3. QED
      BY <3>1, <3>2 DEF GapWatched
  <2>3. CASE WorkStarts
    BY <2>3 DEF WorkStarts, GapWatched
  <2>4. QED
    BY <1>7, <2>1, <2>2, <2>3
<1>8. CASE TimeoutWorker
  BY <1>8, WorkerOrder DEF GapWatched
<1>9. CASE BusDown
  BY <1>9 DEF BusDown, GapWatched
<1>10. CASE DeinitStart \/ DeinitStopTimer \/ DeinitCancelWork \/ DeinitList \/ DeinitDangling
  BY <1>10 DEF DeinitStart, DeinitStopTimer, DeinitCancelWork, DeinitList, DeinitDangling,
               GapWatched
<1>11. CASE DeinitFree
  BY <1>11, DeinitFreeOrder DEF GapWatched
<1>12. CASE UNCHANGED vars
  BY <1>12 DEF vars, clock, GapWatched
<1>13. QED
  BY <1>1, <1>2, <1>3, <1>4, <1>5, <1>6, <1>7, <1>8, <1>9, <1>10, <1>11, <1>12
     DEF Next, BusThread, Timeout, Teardown

\* ind_sn over one step, while the control stays enabled and is not torn down
LEMMA DistanceIs ==
    ASSUME NEW a \in Int, NEW b \in Int, b >= a, b - a < Half
    PROVE  (Sn(b) - Sn(a)) % SeqSpace < SeqSpace \div 2
<1>1. (Sn(b) - Sn(a)) % SeqSpace = (b - a) % SeqSpace
  BY SnDiff
<1>2. (b - a) % SeqSpace = b - a
  BY SizesHold, ModSmall
<1>3. QED
  BY <1>1, <1>2 DEF Half

Forward == (ctl'.ind - ctl.ind) % SeqSpace < SeqSpace \div 2

LEMMA NeverBackStep ==
    ASSUME RInv, [Next]_vars, ctl' # ctl,
           de = "idle", ctl.enable, ctl'.enable, FirstSn \notin {ctl.ind, ctl'.ind}
    PROVE  Forward
<1>1. Tracking /\ rx # "undefined"
  BY DEF Tracking, RInv, IInv, Steps
<1>2. PICK p0 \in FirstPos..(LastPos + 1) : At(p0)
  BY <1>1 DEF RInv, Order, Placed
<1>3. p0 \in Nat /\ ctl.ind = Sn(p0)
  BY <1>2, SizesHold DEF At
<1>4. \/ ProcessCopy \/ ProcessFrame \/ TimeoutWorker
  <2>1. Fields /\ DOMAIN ctl = {"linked", "enable", "ind"}
    BY Known0 DEF RInv, Fields, Fresh
  <2>2. ~UNCHANGED vars
    BY DEF vars
  <2>3. ~(GiveUp \/ ReceiveNoDescriptor \/ ProcessDisabled \/ ProcessLate \/ FlushLookup
          \/ FlushStopTimer \/ FlushCancelWork)
    BY DEF GiveUp, ReceiveNoDescriptor, ProcessDisabled, ProcessLate, FlushLookup,
           FlushStopTimer, FlushCancelWork
  <2>4. ~(TimerExpires \/ TimeoutHandler \/ WorkStarts \/ BusDown)
    BY DEF TimerExpires, TimeoutHandler, WorkStarts, BusDown
  <2>5. \A n \in Frames, acked \in BOOLEAN :
          ~(ReceiveDirect(n, acked) \/ ReceiveNoControl(n, acked) \/ Receive(n, acked))
    BY DEF ReceiveDirect, ReceiveNoControl, Receive
  <2>6. ~FlushBuffer
    BY <2>1 DEF FlushBuffer
  <2>7. ~Teardown
    <3>1. ~DeinitStart
      BY <2>1 DEF DeinitStart
    <3>2. QED
      BY <3>1 DEF Teardown, DeinitStopTimer, DeinitCancelWork, DeinitList, DeinitFree,
                  DeinitDangling
  <2>8. QED
    BY <2>2, <2>3, <2>4, <2>5, <2>6, <2>7 DEF Next, BusThread, Timeout
<1>5. CASE ProcessCopy
  <2>1. /\ rx = "found" /\ ~Check.late /\ Known(buf, hand)
        /\ ctl' = [ctl EXCEPT !.ind = Check.ind]
    BY <1>5 DEF ProcessCopy
  <2>2. PICK lo, p \in Nat : Checked(lo, p)
    BY <2>1, CheckedIs
  <2>3. hand \in Waiting
    <3>1. Close(ToSet(buf), hand)
      BY <2>1, <2>2, CheckedClose
    <3>2. buf \in Seq(Frames) /\ Sorted(buf) /\ hand \in Frames
      BY <2>1, Known0 DEF RInv, Order, Buffered, Ahead
    <3>3. QED
      BY <2>1, <3>1, <3>2, KnownIs DEF Waiting
  <2>4. ctl.ind = Sn(p) /\ Check.ind = Sn(p)
    BY <2>2, <2>3 DEF Checked, At
  <2>5. ctl'.ind = Sn(p)
    BY <2>1, <2>4, CtlIs, Known0 DEF RInv
  <2>6. QED
    BY <2>4, <2>5, DistanceIs, WindowHalf DEF Forward
<1>6. CASE ProcessFrame
  <2>1. rx = "found" /\ ~Check.late
    BY <1>6 DEF ProcessFrame
  <2>2. PICK lo, p \in Nat : Checked(lo, p)
    BY <2>1, CheckedIs
  <2>3. PICK p2 \in lo..(lo + Half - 1) : ctl'.ind = Sn(p2)
    BY <1>6, <2>2, FrameScanned
  <2>4. ctl.ind = Sn(lo)
    BY <1>1, <2>2 DEF Checked
  <2>5. p2 \in Int /\ p2 >= lo /\ p2 - lo < Half
    BY WindowHalf
  <2>6. QED
    BY <2>3, <2>4, <2>5, DistanceIs DEF Forward
<1>7. CASE TimeoutWorker
  <2>1. CASE buf = <<>>
    <3>1. ctl'.ind = ctl.ind
      BY <1>7, <2>1, WorkerEmpty
    <3>2. QED
      BY <1>3, <3>1, DistanceIs, WindowHalf DEF Forward
  <2>2. CASE buf # <<>>
    <3>1. PICK first \in Waiting, p2 \in Nat :
              /\ p2 > first /\ ctl'.ind = Sn(p2)
              /\ \A n \in first..(p2 - 1) : n \in Waiting
      BY <1>7, <2>2, WorkerScanned
    <3>2. first \in Nat
      BY Known0 DEF RInv
    <3>3. p2 - 1 \in Waiting
      BY <3>1, <3>2
    <3>4. p0 < first /\ p2 - 1 < p0 + Window
      BY <1>2, <3>3 DEF At
    <3>5. p2 >= p0 /\ p2 - p0 < Half
      BY <1>3, <3>1, <3>2, <3>4, WindowHalf
    <3>6. QED
      BY <1>3, <3>1, <3>5, DistanceIs DEF Forward
  <2>3. QED
    BY <2>1, <2>2
<1>8. QED
  BY <1>4, <1>5, <1>6, <1>7

-----------------------------------------------------------------------------
\* reord_process_unit, reord_flush_tid and reord_timeout_worker hand frames to the
\* stack in stream order: when a frame goes up, each earlier position went up
\* before, was given up by the receiver, was freed, or (only while
\* reord_deinit_sta runs) still waits.  From RInv, of which it is a part.
THEOREM InOrderHolds == Spec => []InOrder
<1>1. RInv => InOrder
  BY DEF RInv, Order
<1>2. QED
  BY <1>1, RInvariance, PTL

\* Every frame that got a descriptor in rwnx_rxdataind_aicwf is indicated, waits
\* in reord_list, is in hand or was freed, and what is freed is a late RTP frame
\* unless a reord_deinit_sta has run.
THEOREM NothingLostHolds == Spec => []NothingLost
<1>1. RInv => NothingLost
  BY DEF RInv, Order
<1>2. QED
  BY <1>1, RInvariance, PTL

\* Whenever reord_list_lock is free the buffer reord_rxframe_enqueue keeps is in
\* stream order, without copies, and inside the window above ind_sn: from the
\* position At puts ind_sn at and the distances there.
THEOREM BufferOrderedHolds == Spec => []BufferOrdered
<1>1. ASSUME RInv PROVE BufferOrdered
  <2>1. \A i, j \in 1..Len(buf) : i < j => buf[i] < buf[j]
    BY <1>1 DEF RInv, Order, Buffered, Sorted
  <2>2. ASSUME de = "idle", NEW n \in Waiting
        PROVE  (Sn(n) - ctl.ind) % SeqSpace \in 1..(Window - 1)
    <3>1. buf # <<>>
      BY <1>1, <2>2, EmptyIs, Known0 DEF RInv, Waiting
    <3>2. Tracking /\ rx # "undefined"
      BY <1>1, <2>2, <3>1 DEF RInv, Order, Phases, Tracking, IInv, Steps
    <3>3. PICK p \in FirstPos..(LastPos + 1) : At(p)
      BY <1>1, <3>2 DEF RInv, Order, Placed
    <3>4. p < n /\ n < p + Window /\ ctl.ind = Sn(p) /\ p \in Int /\ n \in Int
      BY <1>1, <2>2, <3>3, Known0, SizesHold DEF RInv, At
    <3>5. (Sn(n) - Sn(p)) % SeqSpace = (n - p) % SeqSpace
      BY <3>4, SnDiff
    <3>6. (n - p) % SeqSpace = n - p
      BY <3>4, ModSmall, WindowHalf, SizesHold
    <3>7. QED
      BY <3>4, <3>5, <3>6, WindowHalf
  <2>3. QED
    BY <2>1, <2>2 DEF BufferOrdered
<1>2. QED
  BY <1>1, RInvariance, PTL

\* reord_process_unit and reord_timeout_worker start the timer when a frame has to
\* wait, and nothing stops it while one does: the timer, its handler or the work
\* is on its way.
THEOREM GapWatchedHolds == Spec => []GapWatched
<1>1. Init => GapWatched
  BY DEF Init, GapWatched
<1>2. RInv /\ GapWatched /\ [Next]_vars => GapWatched'
  BY GapStep
<1>3. QED
  BY <1>1, <1>2, RInvariance, PTL DEF Spec

\* No step of reord_process_unit or reord_timeout_worker moves ind_sn of an
\* enabled control back, the wrap of the sequence numbers included.
THEOREM NeverBackHolds == Spec => NeverBack
<1>1. RInv /\ [Next]_vars =>
        [de = "idle" /\ ctl.enable /\ ctl'.enable /\ FirstSn \notin {ctl.ind, ctl'.ind}
           => (ctl'.ind - ctl.ind) % SeqSpace < SeqSpace \div 2]_ctl
  BY NeverBackStep DEF Forward
<1>2. QED
  BY <1>1, RInvariance, PTL DEF Spec, NeverBack
=============================================================================
