-------------------------- MODULE RxReorderProofs --------------------------
(***************************************************************************)
(* Proofs about the receive reorder window for every range of sequence     *)
(* numbers, every window of less than half of it and every pool that is    *)
(* not smaller than the window (in the code 4096, 64 and 64).              *)
(*                                                                         *)
(* Off measures how far a frame lies ahead of a sequence number.  The      *)
(* lemmas say what the operators of rx.c do in terms of Off, where all     *)
(* comparisons are those of ordinary numbers; Fits relates the wrapped     *)
(* numbers to the true ones.                                               *)
(***************************************************************************)
EXTENDS RxReorder, SequenceTheorems, WellFoundedInduction, NaturalsInduction, TLAPS

(* A multiple of M that is not zero is at least M away from zero. *)
LEMMA ProductBound ==
    ASSUME NEW M \in Nat \ {0}, NEW k \in Int
    PROVE  /\ k >= 1 => M * k >= M
           /\ k <= -1 => M * k <= -M
<1>1. ASSUME k >= 1 PROVE M * k >= M
  <2>1. M * k = M * (k - 1) + M
    OBVIOUS
  <2>2. M * (k - 1) >= 0
    BY <1>1
  <2>3. QED
    BY <2>1, <2>2
<1>2. ASSUME k <= -1 PROVE M * k <= -M
  <2>1. M * k = -(M * ((-k) - 1)) - M
    OBVIOUS
  <2>2. M * ((-k) - 1) >= 0
    BY <1>2
  <2>3. QED
    BY <2>1, <2>2
<1>3. QED
  BY <1>1, <1>2

(* The remainder is the only number below M at a multiple of M from a. *)
LEMMA ModUnique ==
    ASSUME NEW M \in Nat \ {0}, NEW q \in Int, NEW r \in 0 .. M - 1
    PROVE  (M * q + r) % M = r
<1> DEFINE a == M * q + r
           d == a \div M
           m == a % M
<1>1. a \in Int /\ d \in Int /\ m \in 0 .. M - 1
  OBVIOUS
<1>2. a = M * d + m
  OBVIOUS
<1>3. M * (q - d) = m - r
  BY <1>1, <1>2
<1> HIDE DEF d, m
<1>4. ~(q - d >= 1) /\ ~(q - d <= -1)
  BY <1>1, <1>3, ProductBound
<1>5. q = d
  BY <1>1, <1>4
<1>6. QED
  BY <1>1, <1>2, <1>5 DEF m

(* Adding less than M wraps at most once. *)
LEMMA ModAdd ==
    ASSUME NEW M \in Nat \ {0}, NEW a \in Nat, NEW b \in Nat, b < M
    PROVE  (a + b) % M = IF (a % M) + b < M THEN (a % M) + b ELSE (a % M) + b - M
<1>1. PICK q \in Int, r \in 0 .. M - 1 : a = M * q + r
  <2>1. a = M * (a \div M) + (a % M) /\ (a \div M) \in Int /\ (a % M) \in 0 .. M - 1
    OBVIOUS
  <2>2. QED
    BY <2>1
<1>2. a % M = r
  BY <1>1, ModUnique
<1>3. CASE r + b < M
  <2>1. a + b = M * q + (r + b) /\ r + b \in 0 .. M - 1
    BY <1>1, <1>3
  <2>2. (a + b) % M = r + b
    BY <2>1, ModUnique
  <2>3. QED
    BY <1>2, <1>3, <2>2
<1>4. CASE ~(r + b < M)
  <2>1. a + b = M * (q + 1) + (r + b - M) /\ r + b - M \in 0 .. M - 1
    BY <1>1, <1>4
  <2>2. q + 1 \in Int
    OBVIOUS
  <2>3. (M * (q + 1) + (r + b - M)) % M = r + b - M
    BY <2>1, <2>2, ModUnique, Zenon
  <2>4. (a + b) % M = r + b - M
    BY <2>1, <2>3, Zenon
  <2>5. QED
    BY <1>2, <1>4, <2>4
<1>5. QED
  BY <1>3, <1>4

-----------------------------------------------------------------------------
(* Sequence numbers *)

(* The window is less than half the range of sequence numbers. *)
LEMMA Sizes ==
    /\ SnMod \in Nat \ {0} /\ Half \in Nat /\ SnMod = 2 * Half
    /\ WSize \in Nat \ {0} /\ WSize < Half
BY WindowAssumption DEF Half

(* What the driver sees of a frame number is a sequence number. *)
LEMMA SnOfType ==
    ASSUME NEW n \in Nat
    PROVE  SnOf(n) \in SeqNum
BY Sizes DEF SnOf, SeqNum

(* The next sequence number. *)
LEMMA IncValue ==
    ASSUME NEW a \in SeqNum
    PROVE  /\ Inc(a) = IF a + 1 < SnMod THEN a + 1 ELSE a + 1 - SnMod
           /\ Inc(a) \in SeqNum
<1>1. a \in Nat /\ a < SnMod /\ 1 \in Nat /\ 1 < SnMod
  BY Sizes DEF SeqNum
<1>2. a % SnMod = a
  BY <1>1, Sizes
<1>3. (a + 1) % SnMod = IF (a % SnMod) + 1 < SnMod THEN (a % SnMod) + 1
                        ELSE (a % SnMod) + 1 - SnMod
  BY <1>1, Sizes, ModAdd, Zenon
<1>4. QED
  BY <1>1, <1>2, <1>3, Sizes DEF Inc, SeqNum

(* Distances add up: Diff is the distance forward from b to a. *)
LEMMA DiffFacts ==
    ASSUME NEW a \in SeqNum, NEW b \in SeqNum, NEW c \in SeqNum
    PROVE  /\ Diff(a, b) \in SeqNum
           /\ Diff(a, b) = 0 <=> a = b
           /\ Diff(a, c) >= Diff(b, c) => Diff(a, b) = Diff(a, c) - Diff(b, c)
           /\ Diff(a, c) < Diff(b, c) => Diff(a, b) = Diff(a, c) - Diff(b, c) + SnMod
BY Sizes DEF Diff, SeqNum

(* One number further is one more ahead. *)
LEMMA IncDiff ==
    ASSUME NEW a \in SeqNum, NEW b \in SeqNum, Diff(a, b) < SnMod - 1
    PROVE  Diff(Inc(a), b) = Diff(a, b) + 1
BY Sizes, IncValue DEF Diff, SeqNum

(* SN_LESS works on differences: within one range of numbers they are the    *)
(* true ones.                                                                *)
LEMMA SnAhead ==
    ASSUME NEW T \in Nat, NEW n \in Nat
    PROVE  /\ n >= T /\ n - T < SnMod => Diff(SnOf(n), SnOf(T)) = n - T
           /\ n < T /\ T - n < SnMod => Diff(SnOf(n), SnOf(T)) = SnMod - (T - n)
<1>1. ASSUME n >= T, n - T < SnMod PROVE Diff(SnOf(n), SnOf(T)) = n - T
  <2>1. n - T \in Nat /\ n = T + (n - T)
    BY <1>1
  <2>2. (T + (n - T)) % SnMod = IF (T % SnMod) + (n - T) < SnMod THEN (T % SnMod) + (n - T)
                        ELSE (T % SnMod) + (n - T) - SnMod
    BY <1>1, <2>1, Sizes, ModAdd, ZenonT(40)
  <2>3. SnOf(n) = IF SnOf(T) + (n - T) < SnMod THEN SnOf(T) + (n - T)
                        ELSE SnOf(T) + (n - T) - SnMod
    BY <2>1, <2>2, Zenon DEF SnOf
  <2>4. QED
    BY <1>1, <2>1, <2>3, SnOfType, Sizes DEF Diff, SeqNum
<1>2. ASSUME n < T, T - n < SnMod PROVE Diff(SnOf(n), SnOf(T)) = SnMod - (T - n)
  <2>1. T - n \in Nat /\ T = n + (T - n)
    BY <1>2
  <2>2. (n + (T - n)) % SnMod = IF (n % SnMod) + (T - n) < SnMod THEN (n % SnMod) + (T - n)
                        ELSE (n % SnMod) + (T - n) - SnMod
    BY <1>2, <2>1, Sizes, ModAdd, ZenonT(40)
  <2>3. SnOf(T) = IF SnOf(n) + (T - n) < SnMod THEN SnOf(n) + (T - n)
                        ELSE SnOf(n) + (T - n) - SnMod
    BY <2>1, <2>2, Zenon DEF SnOf
  <2>4. QED
    BY <1>2, <2>1, <2>3, SnOfType, Sizes DEF Diff, SeqNum
<1>3. QED
  BY <1>1, <1>2

(* The frame that lies as far ahead of T as e of the number of T has e. *)
LEMMA SnForward ==
    ASSUME NEW T \in Nat, NEW e \in SeqNum
    PROVE  /\ T + Diff(e, SnOf(T)) \in Nat
           /\ SnOf(T + Diff(e, SnOf(T))) = e
<1>1. SnOf(T) \in SeqNum /\ Diff(e, SnOf(T)) \in SeqNum
  BY SnOfType, DiffFacts
<1>2. Diff(e, SnOf(T)) \in Nat /\ Diff(e, SnOf(T)) < SnMod
  BY <1>1, Sizes DEF SeqNum
<1>3. (T + Diff(e, SnOf(T))) % SnMod =
        IF (T % SnMod) + Diff(e, SnOf(T)) < SnMod THEN (T % SnMod) + Diff(e, SnOf(T))
        ELSE (T % SnMod) + Diff(e, SnOf(T)) - SnMod
  BY <1>2, Sizes, ModAdd, Zenon
<1>4. SnOf(T + Diff(e, SnOf(T))) =
        IF SnOf(T) + Diff(e, SnOf(T)) < SnMod THEN SnOf(T) + Diff(e, SnOf(T))
        ELSE SnOf(T) + Diff(e, SnOf(T)) - SnMod
  BY <1>3, Zenon DEF SnOf
<1>5. QED
  BY <1>1, <1>2, <1>4, Sizes DEF SeqNum, Diff

(* What rx_do_chk_expect_seq decides, by the distance of the frame. *)
LEMMA ChkValue ==
    ASSUME NEW i \in SeqNum, NEW s \in SeqNum
    PROVE  /\ Chk(i, s).keep <=> Diff(s, i) < Half
           /\ Chk(i, s).ind \in SeqNum
           /\ Diff(s, i) = 0 => Diff(Chk(i, s).ind, i) = 1
           /\ Diff(s, i) \in 1 .. WSize - 1 => Chk(i, s).ind = i
           /\ Diff(s, i) >= Half => Chk(i, s).ind = i
           /\ WSize <= Diff(s, i) /\ Diff(s, i) < Half =>
                Diff(Chk(i, s).ind, i) = Diff(s, i) - WSize + 1
<1> DEFINE wend == (i + WSize - 1) % SnMod
<1>1. wend = IF i + WSize - 1 < SnMod THEN i + WSize - 1 ELSE i + WSize - 1 - SnMod
  <2>1. i \in Nat /\ i < SnMod /\ WSize - 1 \in Nat /\ WSize - 1 < SnMod
    BY Sizes DEF SeqNum
  <2>2. i % SnMod = i
    BY <2>1, Sizes
  <2>3. (i + (WSize - 1)) % SnMod = IF (i % SnMod) + (WSize - 1) < SnMod THEN (i % SnMod) + (WSize - 1)
                        ELSE (i % SnMod) + (WSize - 1) - SnMod
    BY <2>1, Sizes, ModAdd, ZenonT(40)
  <2>4. i + (WSize - 1) = i + WSize - 1
    BY <2>1, Sizes
  <2>5. QED
    BY <2>1, <2>2, <2>3, <2>4, Sizes
<1> HIDE DEF wend
<1>2. CASE s = i
  <2>1. Chk(i, s) = [keep |-> TRUE, ind |-> Inc(i)]
    BY <1>2, Sizes DEF Chk, SnLess, Diff, SeqNum
  <2>2. Diff(s, i) = 0 /\ Diff(Inc(i), i) = 1
    BY <1>2, IncValue, Sizes DEF Diff, SeqNum
  <2>3. QED
    BY <2>1, <2>2, IncValue, Sizes
<1>3. CASE s # i /\ SnLess(s, i)
  <2>1. Chk(i, s) = [keep |-> FALSE, ind |-> i]
    BY <1>3, Zenon DEF Chk
  <2>2. Diff(s, i) >= Half
    BY <1>3 DEF SnLess
  <2>3. Diff(s, i) \in SeqNum
    BY DiffFacts
  <2>4. QED
    BY <2>1, <2>2, <2>3, Sizes DEF SeqNum
<1>4. CASE s # i /\ ~SnLess(s, i) /\ SnLess(wend, s)
  <2> DEFINE w == IF s >= WSize - 1 THEN s + 1 - WSize ELSE SnMod - (WSize - (s + 1))
  <2>1. Chk(i, s) = [keep |-> TRUE, ind |-> w]
    BY <1>4, Zenon DEF Chk, wend
  <2>2. w \in SeqNum /\ Diff(s, i) >= WSize /\ Diff(s, i) < Half /\ Diff(w, i) = Diff(s, i) - WSize + 1
    BY <1>1, <1>4, Sizes DEF SnLess, Diff, SeqNum
  <2> HIDE DEF w
  <2>3. Chk(i, s).keep /\ Chk(i, s).ind = w
    BY <2>1
  <2>4. Diff(s, i) \in SeqNum
    BY DiffFacts
  <2>5. QED
    BY <2>2, <2>3, <2>4, Sizes DEF SeqNum
<1>5. CASE s # i /\ ~SnLess(s, i) /\ ~SnLess(wend, s)
  <2>1. Chk(i, s) = [keep |-> TRUE, ind |-> i]
    BY <1>5, Zenon DEF Chk, wend
  <2>2. Diff(s, i) \in 1 .. WSize - 1 /\ Diff(s, i) < Half
    BY <1>1, <1>5, Sizes DEF SnLess, Diff, SeqNum
  <2>3. QED
    BY <2>1, <2>2, Sizes
<1>6. QED
  BY <1>2, <1>3, <1>4, <1>5

-----------------------------------------------------------------------------
(* Lists of held frames *)

(* A nonempty set of naturals has a least element: the inductions below are  *)
(* made with it.                                                             *)
LEMMA LeastNat ==
    ASSUME NEW T \in SUBSET Nat, T # {}
    PROVE  \E k \in T : \A i \in T : k <= i
<1>1. PICK k \in T : \A i \in T : ~(<<i, k>> \in OpToRel(<, Nat))
  BY WFMin, NatLessThanWellFounded, Zenon
<1>2. \A i \in T : ~(i < k)
  BY <1>1 DEF OpToRel
<1>3. QED
  BY <1>2

(* What inserting a frame in a list does, position by position. *)
LEMMA InsertAtProperties ==
    ASSUME NEW s \in Seq(FrameNo), NEW n \in 0 .. Len(s), NEW e \in FrameNo
    PROVE  /\ InsertAt(s, n + 1, e) \in Seq(FrameNo)
           /\ Len(InsertAt(s, n + 1, e)) = Len(s) + 1
           /\ \A i \in 1 .. n : InsertAt(s, n + 1, e)[i] = s[i]
           /\ InsertAt(s, n + 1, e)[n + 1] = e
           /\ \A i \in n + 2 .. Len(s) + 1 : InsertAt(s, n + 1, e)[i] = s[i - 1]
<1> HIDE DEF FrameNo
<1> DEFINE a == SubSeq(s, 1, n)
           b == SubSeq(s, n + 1, Len(s))
           c == a \o <<e>>
<1>1. /\ a \in Seq(FrameNo) /\ Len(a) = n
      /\ \A i \in 1 .. n : a[i] = s[i]
  BY SubSeqProperties
<1>2. /\ b \in Seq(FrameNo) /\ Len(b) = Len(s) - n
      /\ \A i \in 1 .. Len(s) - n : b[i] = s[n + i]
  BY SubSeqProperties
<1>3. /\ c \in Seq(FrameNo) /\ Len(c) = n + 1
      /\ \A i \in 1 .. n + 1 : c[i] = IF i <= n THEN s[i] ELSE e
  <2> HIDE DEF a
  <2>1. QED
    BY <1>1
<1>4. InsertAt(s, n + 1, e) = c \o b
  <2>1. (n + 1) - 1 = n
    OBVIOUS
  <2>2. QED
    BY <2>1, Zenon DEF InsertAt
<1> HIDE DEF a, b, c
<1>5. /\ c \o b \in Seq(FrameNo)
      /\ Len(c \o b) = Len(s) + 1
      /\ \A i \in 1 .. n + 1 : (c \o b)[i] = c[i]
      /\ \A i \in n + 2 .. Len(s) + 1 : (c \o b)[i] = b[i - (n + 1)]
  BY <1>2, <1>3
<1>6. \A i \in n + 2 .. Len(s) + 1 : b[i - (n + 1)] = s[i - 1]
  <2> TAKE i \in n + 2 .. Len(s) + 1
  <2>1. i - (n + 1) \in 1 .. Len(s) - n /\ n + (i - (n + 1)) = i - 1
    OBVIOUS
  <2>2. QED
    BY <1>2, <2>1, Zenon
<1>7. /\ \A i \in 1 .. n : (c \o b)[i] = s[i]
      /\ (c \o b)[n + 1] = e
      /\ \A i \in n + 2 .. Len(s) + 1 : (c \o b)[i] = s[i - 1]
  <2>1. /\ \A i \in 1 .. n : i \in 1 .. n + 1 /\ i <= n
        /\ n + 1 \in 1 .. n + 1 /\ ~(n + 1 <= n)
    OBVIOUS
  <2>2. QED
    BY <1>3, <1>5, <1>6, <2>1, Zenon
<1>8. QED
  BY <1>4, <1>5, <1>7, Zenon

\* How far frame n lies ahead of the sequence number b.
Off(n, b) == Diff(SnOf(n), b)

\* The frames of q are in the order of their distances from b, and none is
\* more than m ahead.
InOrder(q, b, m) ==
    /\ \A j \in 1 .. Len(q) : Off(q[j], b) <= m
    /\ \A j, k \in 1 .. Len(q) : j < k => Off(q[j], b) < Off(q[k], b)

(* The distance of a frame is below SnMod. *)
LEMMA OffType ==
    ASSUME NEW n \in FrameNo, NEW b \in SeqNum
    PROVE  /\ SnOf(n) \in SeqNum
           /\ Off(n, b) \in Nat /\ Off(n, b) < SnMod
<1>1. n \in Nat
  BY DEF FrameNo
<1>2. SnOf(n) \in SeqNum
  BY <1>1, SnOfType
<1>3. Off(n, b) \in SeqNum
  BY <1>2, DiffFacts DEF Off
<1>4. QED
  BY <1>2, <1>3, Sizes DEF SeqNum

(* Two frames less than half the numbers ahead compare as their distances. *)
LEMMA LessByOff ==
    ASSUME NEW a \in SeqNum, NEW s \in SeqNum, NEW b \in SeqNum,
           Diff(a, b) <= Half, Diff(s, b) < Half, Diff(a, b) - Diff(s, b) < Half
    PROVE  /\ SnLess(a, s) <=> Diff(a, b) < Diff(s, b)
           /\ a = s <=> Diff(a, b) = Diff(s, b)
<1>1. Diff(a, b) \in SeqNum /\ Diff(s, b) \in SeqNum /\ Diff(a, s) \in SeqNum
  BY DiffFacts
<1>2. Diff(a, s) = 0 <=> a = s
  BY DiffFacts
<1>3. CASE Diff(a, b) >= Diff(s, b)
  <2>1. Diff(a, s) = Diff(a, b) - Diff(s, b)
    BY <1>3, DiffFacts
  <2>2. QED
    BY <1>1, <1>2, <1>3, <2>1, Sizes DEF SnLess, SeqNum
<1>4. CASE Diff(a, b) < Diff(s, b)
  <2>1. Diff(a, s) = Diff(a, b) - Diff(s, b) + SnMod
    BY <1>4, DiffFacts
  <2>2. QED
    BY <1>1, <1>2, <1>4, <2>1, Sizes DEF SnLess, SeqNum
<1>5. QED
  BY <1>1, <1>3, <1>4, Sizes DEF SeqNum

(* The place rx_pending_reorder_enqueue finds: the frames up to it are not   *)
(* later than s, those behind it are.                                        *)
LEMMA PlaceProperties ==
    ASSUME NEW q \in Seq(FrameNo), NEW b \in SeqNum, NEW s \in SeqNum,
           InOrder(q, b, Half - 1), Diff(s, b) < Half
    PROVE  /\ Place(q, s) \in 0 .. Len(q)
           /\ \A j \in 1 .. Place(q, s) : Off(q[j], b) <= Diff(s, b)
           /\ \A j \in Place(q, s) + 1 .. Len(q) : Diff(s, b) < Off(q[j], b)
           /\ IsDup(q, s) <=> \E j \in 1 .. Len(q) : SnOf(q[j]) = s
<1> DEFINE p == Place(q, s)
           N == NotLater(q, s)
<1>1. \A j \in 1 .. Len(q) : q[j] \in FrameNo /\ SnOf(q[j]) \in SeqNum
                             /\ Off(q[j], b) \in Nat /\ Off(q[j], b) < Half
  <2> TAKE j \in 1 .. Len(q)
  <2>1. q[j] \in FrameNo
    BY ElementOfSeq, Zenon
  <2>2. SnOf(q[j]) \in SeqNum /\ Off(q[j], b) \in Nat
    BY <2>1, OffType, Zenon
  <2>3. Off(q[j], b) <= Half - 1
    BY Zenon DEF InOrder
  <2>4. QED
    BY <2>1, <2>2, <2>3, Sizes
<1>2. Diff(s, b) \in Nat
  BY DiffFacts, Sizes DEF SeqNum
<1>3. ASSUME NEW j \in 1 .. Len(q)
      PROVE  /\ SnLess(s, SnOf(q[j])) <=> Diff(s, b) < Off(q[j], b)
             /\ s = SnOf(q[j]) <=> Diff(s, b) = Off(q[j], b)
  BY <1>1, <1>2, LessByOff, Sizes DEF Off
<1>4. N = { j \in 1 .. Len(q) : Off(q[j], b) <= Diff(s, b) }
  BY <1>1, <1>2, <1>3 DEF NotLater
<1>5. CASE N = {}
  <2>1. p = 0
    BY <1>5 DEF Place
  <2>2. \A j \in 1 .. Len(q) : ~(Off(q[j], b) <= Diff(s, b))
    BY <1>4, <1>5
  <2>3. ~IsDup(q, s)
    BY <2>1 DEF IsDup
  <2>4. \A j \in 1 .. Len(q) : Diff(s, b) < Off(q[j], b)
    BY <2>2, <1>1, <1>2
  <2>5. \A j \in 1 .. Len(q) : SnOf(q[j]) # s
    BY <2>4, <1>1, <1>2, <1>3
  <2>6. QED
    BY <2>1, <2>3, <2>4, <2>5
<1>6. CASE N # {}
  <2>1. \E j \in N : \A k \in N : k <= j
    <3> DEFINE G == { g \in Nat : Len(q) - g \in N }
    <3>1. G \in SUBSET Nat /\ G # {}
      <4>1. PICK j \in N : TRUE
        BY <1>6
      <4>2. j \in 1 .. Len(q)
        BY <1>4
      <4>3. Len(q) - j \in Nat /\ Len(q) - (Len(q) - j) = j
        BY <4>2
      <4>4. QED
        BY <4>1, <4>3
    <3>2. PICK g \in G : \A h \in G : g <= h
      BY <3>1, LeastNat, Zenon
    <3>3. Len(q) - g \in N
      BY <3>2
    <3>4. ASSUME NEW k \in N PROVE k <= Len(q) - g
      <4>1. k \in 1 .. Len(q)
        BY <1>4
      <4>2. Len(q) - k \in Nat /\ Len(q) - (Len(q) - k) = k
        BY <4>1
      <4>3. Len(q) - k \in G
        BY <4>2
      <4>4. g <= Len(q) - k
        BY <3>2, <4>3
      <4>5. QED
        BY <4>1, <4>4
    <3>5. QED
      BY <3>3, <3>4
  <2>2. p \in N /\ \A k \in N : k <= p
    BY <2>1, <1>6, Zenon DEF Place
  <2> HIDE DEF p, N
  <2>3. p \in 1 .. Len(q) /\ Off(q[p], b) <= Diff(s, b)
    BY <2>2, <1>4
  <2>4. \A j \in 1 .. p : Off(q[j], b) <= Diff(s, b)
    BY <2>3, <1>1, <1>2 DEF InOrder
  <2>5. \A j \in p + 1 .. Len(q) : Diff(s, b) < Off(q[j], b)
    <3> TAKE j \in p + 1 .. Len(q)
    <3>1. j \notin N /\ j \in 1 .. Len(q)
      BY <2>2, <2>3
    <3>2. QED
      BY <3>1, <1>1, <1>2, <1>4
  <2>6. IsDup(q, s) <=> SnOf(q[p]) = s
    BY <2>3 DEF IsDup, p
  <2>7. ASSUME NEW j \in 1 .. Len(q), SnOf(q[j]) = s PROVE SnOf(q[p]) = s
    <3>1. Off(q[j], b) = Diff(s, b)
      BY <2>7, <1>3
    <3>2. j \in N
      BY <3>1, <1>1, <1>4
    <3>3. j <= p
      BY <2>2, <3>2
    <3>4. CASE j = p
      BY <3>4, <2>7
    <3>5. CASE j < p
      <4>1. Off(q[j], b) < Off(q[p], b)
        BY <3>5, <2>3 DEF InOrder
      <4>2. QED
        BY <4>1, <3>1, <2>3, <1>1, <1>2
    <3>6. QED
      BY <3>3, <3>4, <3>5, <2>3
  <2>8. QED
    BY <2>3, <2>4, <2>5, <2>6, <2>7 DEF p
<1>7. QED
  BY <1>5, <1>6

(* rx_pending_reorder_enqueue keeps the frames in order, whatever place the  *)
(* new one has among them.                                                   *)
LEMMA EnqueueProperties ==
    ASSUME NEW q \in Seq(FrameNo), NEW b \in SeqNum, NEW n \in FrameNo,
           NEW m \in 0 .. Half - 1,
           InOrder(q, b, m), Off(n, b) <= m, ~IsDup(q, SnOf(n))
    PROVE  /\ Enqueue(q, n) \in Seq(FrameNo)
           /\ Len(Enqueue(q, n)) = Len(q) + 1
           /\ InOrder(Enqueue(q, n), b, m)
           /\ \A j \in 1 .. Len(q) + 1 :
                Enqueue(q, n)[j] = n \/ \E k \in 1 .. Len(q) : Enqueue(q, n)[j] = q[k]
           /\ \E j \in 1 .. Len(q) + 1 : Enqueue(q, n)[j] = n
<1> DEFINE p == Place(q, SnOf(n))
           r == Enqueue(q, n)
<1>1. /\ SnOf(n) \in SeqNum /\ Off(n, b) \in Nat /\ Off(n, b) < Half
      /\ InOrder(q, b, Half - 1)
  <2>1. SnOf(n) \in SeqNum /\ Off(n, b) \in Nat
    BY OffType, Zenon
  <2>2. ASSUME NEW j \in 1 .. Len(q) PROVE Off(q[j], b) <= Half - 1
    <3>1. q[j] \in FrameNo
      BY ElementOfSeq, Zenon
    <3>2. Off(q[j], b) \in Nat
      BY <3>1, OffType, Zenon
    <3>3. Off(q[j], b) <= m
      BY Zenon DEF InOrder
    <3>4. QED
      BY <3>2, <3>3, Sizes
  <2>3. InOrder(q, b, Half - 1)
    BY <2>2, Zenon DEF InOrder
  <2>4. QED
    BY <2>1, <2>3, Sizes
<1>2. /\ p \in 0 .. Len(q)
      /\ \A j \in 1 .. p : Off(q[j], b) <= Off(n, b)
      /\ \A j \in p + 1 .. Len(q) : Off(n, b) < Off(q[j], b)
      /\ \A j \in 1 .. Len(q) : SnOf(q[j]) # SnOf(n)
  <2>1. Diff(SnOf(n), b) < Half
    BY <1>1 DEF Off
  <2>2. QED
    BY <1>1, <2>1, PlaceProperties, Zenon DEF Off
<1>3. /\ r \in Seq(FrameNo) /\ Len(r) = Len(q) + 1
      /\ \A j \in 1 .. p : r[j] = q[j]
      /\ r[p + 1] = n
      /\ \A j \in p + 2 .. Len(q) + 1 : r[j] = q[j - 1]
  BY <1>2, InsertAtProperties, ZenonT(40) DEF Enqueue
<1>4. \A j \in 1 .. Len(q) : Off(q[j], b) \in Nat /\ SnOf(q[j]) \in SeqNum
                             /\ Off(q[j], b) <= m
  <2> TAKE j \in 1 .. Len(q)
  <2>1. q[j] \in FrameNo
    BY ElementOfSeq, Zenon
  <2>2. QED
    BY <2>1, OffType, Zenon DEF InOrder
<1>5. \A j \in 1 .. p : Off(q[j], b) < Off(n, b)
  <2> TAKE j \in 1 .. p
  <2>1. j \in 1 .. Len(q)
    BY <1>2
  <2>2. Off(q[j], b) <= Off(n, b) /\ SnOf(q[j]) # SnOf(n) /\ Off(q[j], b) \in Nat
        /\ SnOf(q[j]) \in SeqNum /\ Off(q[j], b) <= m
    BY <1>2, <1>4, <2>1, Zenon
  <2>3. SnOf(n) = SnOf(q[j]) <=> Off(n, b) = Off(q[j], b)
    BY <1>1, <2>2, LessByOff, Sizes DEF Off
  <2>4. QED
    BY <1>1, <2>2, <2>3
<1> HIDE DEF p, r
<1>6. ASSUME NEW j \in 1 .. Len(r)
      PROVE  \/ j \in 1 .. p /\ r[j] = q[j]
             \/ j = p + 1 /\ r[j] = n
             \/ j \in p + 2 .. Len(r) /\ j - 1 \in 1 .. Len(q) /\ r[j] = q[j - 1]
  BY <1>2, <1>3
<1>7. ASSUME NEW j \in 1 .. Len(r) PROVE Off(r[j], b) <= m
  BY <1>2, <1>4, <1>6
<1>8. ASSUME NEW j \in 1 .. Len(r), NEW k \in 1 .. Len(r), j < k
      PROVE  Off(r[j], b) < Off(r[k], b)
  <2>1. CASE k \in 1 .. p
    <3>1. j \in 1 .. p /\ j \in 1 .. Len(q) /\ k \in 1 .. Len(q)
      BY <2>1, <1>2, <1>8
    <3>2. r[j] = q[j] /\ r[k] = q[k]
      BY <2>1, <3>1, <1>3
    <3>3. QED
      BY <3>1, <3>2, <1>8, Zenon DEF InOrder
  <2>2. CASE k = p + 1
    <3>1. j \in 1 .. p
      BY <2>2, <1>2, <1>8
    <3>2. r[j] = q[j] /\ r[k] = n
      BY <2>2, <3>1, <1>3
    <3>3. QED
      BY <3>1, <3>2, <1>5
  <2>3. CASE k \in p + 2 .. Len(r)
    <3>1. r[k] = q[k - 1] /\ k - 1 \in p + 1 .. Len(q) /\ k - 1 \in 1 .. Len(q)
      BY <2>3, <1>2, <1>3
    <3>2. Off(n, b) < Off(q[k - 1], b)
      BY <1>2, <3>1
    <3>3. CASE j \in 1 .. p
      <4>1. r[j] = q[j] /\ Off(q[j], b) < Off(n, b) /\ j \in 1 .. Len(q)
        BY <3>3, <1>2, <1>3, <1>5
      <4>2. QED
        BY <4>1, <3>1, <3>2, <1>1, <1>4
    <3>4. CASE j = p + 1
      BY <3>4, <3>1, <3>2, <1>3
    <3>5. CASE j \in p + 2 .. Len(r)
      <4>1. r[j] = q[j - 1] /\ j - 1 \in 1 .. Len(q) /\ j - 1 < k - 1
        BY <3>5, <1>2, <1>3, <1>8
      <4>2. QED
        BY <4>1, <3>1, Zenon DEF InOrder
    <3>6. QED
      BY <3>3, <3>4, <3>5, <1>6
  <2>4. QED
    BY <2>1, <2>2, <2>3, <1>6
<1>9. InOrder(r, b, m)
  BY <1>7, <1>8 DEF InOrder
<1>10. \A j \in 1 .. Len(q) + 1 : r[j] = n \/ \E k \in 1 .. Len(q) : r[j] = q[k]
  <2> TAKE j \in 1 .. Len(q) + 1
  <2>1. CASE j \in 1 .. p
    BY <2>1, <1>2, <1>3
  <2>2. CASE j = p + 1
    BY <2>2, <1>3
  <2>3. CASE j \in p + 2 .. Len(q) + 1
    BY <2>3, <1>2, <1>3, SMTT(40)
  <2>4. QED
    BY <2>1, <2>2, <2>3, <1>2
<1>11. p + 1 \in 1 .. Len(q) + 1
  BY <1>2
<1>12. QED
  BY <1>3, <1>9, <1>10, <1>11 DEF r

(* The numbers rx_reorder_upload goes through. *)
LEMMA ExpectedFcn ==
    ASSUME NEW q \in Seq(FrameNo), NEW i \in SeqNum
    PROVE  /\ Expected(q, i)[0] = i
           /\ \A k \in 1 .. Len(q) :
                Expected(q, i)[k] = IF Expected(q, i)[k - 1] = SnOf(q[k])
                                    THEN Inc(Expected(q, i)[k - 1])
                                    ELSE Expected(q, i)[k - 1]
<1> DEFINE Step(e, k) == IF e = SnOf(q[k]) THEN Inc(e) ELSE e
           Body(f, m) == [k \in 0 .. m |-> IF k = 0 THEN i ELSE Step(f[k - 1], k)]
           Bad == { m \in Nat : ~ \E f : f = Body(f, m) }
<1>1. Bad = {}
  <2>1. SUFFICES ASSUME Bad # {} PROVE FALSE
    OBVIOUS
  <2>2. PICK m \in Bad : \A h \in Bad : m <= h
    BY <2>1, LeastNat, Zenon
  <2>3. CASE m = 0
    <3> DEFINE f == [k \in 0 .. 0 |-> i]
    <3>1. f = Body(f, 0)
      BY DEF Step
    <3>2. QED
      BY <2>2, <2>3, <3>1
  <2>4. CASE m # 0
    <3>1. m - 1 \in Nat /\ m \in Nat /\ ~(m <= m - 1)
      BY <2>2, <2>4
    <3>2. m - 1 \notin Bad
      BY <2>2, <3>1
    <3>3. PICK f : f = Body(f, m - 1)
      BY <3>1, <3>2
    <3> DEFINE g == [k \in 0 .. m |-> IF k < m THEN f[k] ELSE Step(f[m - 1], m)]
    <3> HIDE DEF Step
    <3>4. \A k \in 0 .. m - 1 : f[k] = IF k = 0 THEN i ELSE Step(f[k - 1], k)
      <4>1. \A k \in 0 .. m - 1 : Body(f, m - 1)[k] = IF k = 0 THEN i ELSE Step(f[k - 1], k)
        BY Zenon
      <4>2. QED
        BY <3>3, <4>1, Zenon
    <3>5. ASSUME NEW k \in 0 .. m PROVE g[k] = IF k = 0 THEN i ELSE Step(g[k - 1], k)
      <4>1. CASE k = 0
        BY <4>1, <3>1, <3>4
      <4>2. CASE k # 0 /\ k < m
        <5>1. k \in 0 .. m - 1 /\ k - 1 \in 0 .. m /\ k - 1 < m
          BY <4>2, <3>1
        <5>2. g[k] = f[k] /\ g[k - 1] = f[k - 1]
          BY <4>2, <5>1
        <5>3. QED
          BY <3>4, <4>2, <5>1, <5>2, Zenon
      <4>3. CASE k = m
        <5>1. k - 1 \in 0 .. m /\ k - 1 < m /\ k # 0 /\ ~(k < m)
          BY <4>3, <3>1
        <5>2. g[k - 1] = f[k - 1]
          BY <5>1
        <5>3. g[k] = Step(f[m - 1], m)
          BY <4>3, <5>1
        <5>4. QED
          BY <4>3, <5>1, <5>2, <5>3, Zenon
      <4>4. QED
        BY <4>1, <4>2, <4>3, <3>1
    <3>6. g = Body(g, m)
      <4>1. g = [k \in 0 .. m |-> g[k]]
        OBVIOUS
      <4> HIDE DEF g
      <4>2. QED
        BY <4>1, <3>5
    <3>7. m \notin Bad
      BY <3>6
    <3>8. QED
      BY <2>2, <3>7
  <2>5. QED
    BY <2>3, <2>4
<1>2. \E f : f = Body(f, Len(q))
  <2>1. Len(q) \in Nat
    BY LenProperties
  <2>2. QED
    BY <1>1, <2>1
<1>3. Expected(q, i) = CHOOSE f : f = Body(f, Len(q))
  BY Zenon DEF Expected
<1>4. Expected(q, i) = Body(Expected(q, i), Len(q))
  BY <1>2, <1>3, Zenon
<1> DEFINE E == Expected(q, i)
<1> HIDE DEF E
<1>5. E = [k \in 0 .. Len(q) |-> IF k = 0 THEN i ELSE Step(E[k - 1], k)]
  BY <1>4, Zenon DEF E
<1> HIDE DEF Step
<1>6. Len(q) \in Nat
  BY LenProperties
<1>7. E[0] = i
  BY <1>5, <1>6
<1>8. \A k \in 1 .. Len(q) : E[k] = Step(E[k - 1], k)
  <2> TAKE k \in 1 .. Len(q)
  <2>1. k \in 0 .. Len(q) /\ k # 0
    BY <1>6
  <2>2. QED
    BY <1>5, <2>1, Zenon
<1>9. QED
  BY <1>7, <1>8, Zenon DEF E, Step

(* What rx_reorder_upload does to frames in order.  With x the distance of   *)
(* the number it expects in the end: x is where it began, or behind the last *)
(* frame that went up; every frame that went up is behind x, and every frame *)
(* that stays is ahead of it.                                                *)
LEMMA UploadProperties ==
    ASSUME NEW q \in Seq(FrameNo), NEW b \in SeqNum, NEW i \in SeqNum,
           InOrder(q, b, Half - 1), Diff(i, b) < Half
    PROVE  LET k == Ready(q, i)
               e == Expected(q, i)[k]
               x == Diff(e, b)
           IN  /\ k \in 0 .. Len(q)
               /\ e \in SeqNum /\ x \in Nat
               /\ x >= Diff(i, b)
               /\ x = Diff(i, b) \/ (k > 0 /\ x = Off(q[k], b) + 1)
               /\ k > 0 => Off(q[k], b) < x
               /\ \A j \in k + 1 .. Len(q) :
                    /\ x < Off(q[j], b)
                    /\ Off(q[j], e) = Off(q[j], b) - x
<1> DEFINE E == Expected(q, i)
           A(j) == Off(q[j], b)
           X(k) == Diff(E[k], b)
           More(k) == k < Len(q) /\ ~SnLess(E[k], SnOf(q[k + 1]))
           Stops(k) == ~More(k) /\ \A j \in 0 .. k - 1 : More(j)
<1>0. Len(q) \in Nat
  BY LenProperties
<1>1. \A j \in 1 .. Len(q) : SnOf(q[j]) \in SeqNum /\ A(j) \in Nat /\ A(j) <= Half - 1
  <2> TAKE j \in 1 .. Len(q)
  <2>1. q[j] \in FrameNo
    BY ElementOfSeq, Zenon
  <2>2. QED
    BY <2>1, OffType, Zenon DEF InOrder
<1>2. \A j, k \in 1 .. Len(q) : j < k => A(j) < A(k)
  BY Zenon DEF InOrder
<1>3. /\ E[0] = i
      /\ \A k \in 1 .. Len(q) : E[k] = IF E[k - 1] = SnOf(q[k]) THEN Inc(E[k - 1]) ELSE E[k - 1]
  BY ExpectedFcn, Zenon
<1>4. Diff(i, b) \in Nat
  BY DiffFacts, Sizes DEF SeqNum
<1>5. \E k \in 0 .. Len(q) : Stops(k)
  <2> DEFINE G == { k \in Nat : ~More(k) }
  <2>1. Len(q) \in G
    BY <1>0
  <2>2. PICK k \in G : \A h \in G : k <= h
    <3>1. G \in SUBSET Nat /\ G # {}
      BY <2>1
    <3>2. QED
      BY <3>1, LeastNat, Zenon
  <2>3. k \in 0 .. Len(q)
    BY <2>1, <2>2, <1>0
  <2> HIDE DEF More
  <2>4. ASSUME NEW j \in 0 .. k - 1 PROVE More(j)
    BY <2>2, <2>3
  <2>5. QED
    BY <2>2, <2>3, <2>4
<1> DEFINE k == Ready(q, i)
<1>6. k \in 0 .. Len(q) /\ Stops(k)
  <2>1. k = CHOOSE h \in 0 .. Len(q) : Stops(h)
    BY Zenon DEF Ready
  <2>2. QED
    BY <1>5, <2>1, Zenon
<1> HIDE DEF k, E, A
<1> DEFINE P(m) == /\ E[m] \in SeqNum /\ X(m) \in Nat /\ X(m) >= Diff(i, b)
                   /\ X(m) = Diff(i, b) \/ (m > 0 /\ X(m) = A(m) + 1)
                   /\ m > 0 => A(m) < X(m)
<1>7. P(0)
  BY <1>3, <1>4
<1>8. ASSUME NEW m \in 1 .. k, P(m - 1) PROVE P(m)
  <2>1. m \in 1 .. Len(q) /\ m - 1 \in 0 .. k - 1
    BY <1>0, <1>6
  <2>2. More(m - 1)
    BY <1>6, <2>1
  <2>3. ~SnLess(E[m - 1], SnOf(q[m]))
    <3>1. (m - 1) + 1 = m
      BY <2>1
    <3>2. QED
      BY <2>2, <3>1
  <2>4. E[m] = IF E[m - 1] = SnOf(q[m]) THEN Inc(E[m - 1]) ELSE E[m - 1]
    BY <1>3, <2>1
  <2>5. SnOf(q[m]) \in SeqNum /\ A(m) \in Nat /\ A(m) <= Half - 1 /\ A(m) = Diff(SnOf(q[m]), b)
    BY <1>1, <2>1, Zenon DEF A, Off
  <2>6. X(m - 1) <= A(m) \/ X(m - 1) = Diff(i, b)
    <3>1. CASE m - 1 > 0 /\ X(m - 1) = A(m - 1) + 1
      <4>1. m - 1 \in 1 .. Len(q) /\ m - 1 < m
        BY <2>1, <3>1
      <4>2. A(m - 1) < A(m) /\ A(m - 1) \in Nat
        BY <1>1, <1>2, <2>1, <4>1
      <4>3. QED
        BY <3>1, <4>2, <2>5
    <3>2. QED
      BY <1>8, <3>1
  <2>7. /\ Diff(E[m - 1], b) <= Half /\ Diff(SnOf(q[m]), b) < Half
        /\ Diff(E[m - 1], b) - Diff(SnOf(q[m]), b) < Half
    BY <2>5, <2>6, <1>8, <1>4, Sizes
  <2>8. /\ SnLess(E[m - 1], SnOf(q[m])) <=> X(m - 1) < A(m)
        /\ E[m - 1] = SnOf(q[m]) <=> X(m - 1) = A(m)
    BY <2>5, <2>7, <1>8, LessByOff
  <2>9. X(m - 1) >= A(m)
    BY <2>3, <2>5, <2>8, <1>8
  <2>10. CASE X(m - 1) = A(m)
    <3>1. E[m] = Inc(E[m - 1])
      BY <2>4, <2>8, <2>10
    <3>2. Diff(E[m - 1], b) < SnMod - 1
      BY <2>7, <1>8, Sizes
    <3>3. E[m] \in SeqNum /\ X(m) = X(m - 1) + 1
      BY <3>1, <3>2, <1>8, IncValue, IncDiff
    <3>4. QED
      BY <3>3, <2>5, <2>10, <1>8, <1>4
  <2>11. CASE X(m - 1) # A(m)
    <3>1. E[m] = E[m - 1]
      BY <2>4, <2>8, <2>11
    <3>2. X(m - 1) = Diff(i, b)
      BY <2>6, <2>9, <2>11, <2>5, <1>8
    <3>3. X(m) = X(m - 1)
      BY <3>1
    <3>4. QED
      BY <3>1, <3>2, <3>3, <2>5, <2>9, <2>11, <1>8, <1>4
  <2>12. QED
    BY <2>10, <2>11
<1>9. P(k)
  <2> HIDE DEF P
  <2> DEFINE Bad == { m \in Nat : m <= k /\ ~P(m) }
  <2>1. SUFFICES ASSUME Bad # {} PROVE FALSE
    BY <1>6
  <2>2. PICK m \in Bad : \A h \in Bad : m <= h
    <3>1. Bad \in SUBSET Nat
      OBVIOUS
    <3>2. QED
      BY <2>1, <3>1, LeastNat, Zenon
  <2>3. m # 0
    BY <2>2, <1>7
  <2>4. m \in 1 .. k /\ m - 1 \in Nat /\ m - 1 <= k /\ ~(m <= m - 1)
    BY <2>2, <2>3, <1>6
  <2>5. P(m - 1)
    BY <2>2, <2>4
  <2>6. QED
    BY <1>8, <2>2, <2>4, <2>5
<1>10. ASSUME NEW j \in k + 1 .. Len(q)
       PROVE  X(k) < A(j) /\ Diff(SnOf(q[j]), E[k]) = A(j) - X(k)
  <2>1. k + 1 \in 1 .. Len(q) /\ j \in 1 .. Len(q) /\ k < Len(q)
    BY <1>6, <1>0
  <2>2. SnLess(E[k], SnOf(q[k + 1]))
    BY <1>6, <2>1
  <2>3. /\ SnOf(q[k + 1]) \in SeqNum /\ A(k + 1) \in Nat /\ A(k + 1) <= Half - 1
        /\ A(k + 1) = Diff(SnOf(q[k + 1]), b)
    BY <1>1, <2>1, Zenon DEF A, Off
  <2>4. X(k) <= A(k + 1) \/ X(k) = Diff(i, b)
    <3>1. CASE k > 0 /\ X(k) = A(k) + 1
      <4>1. k \in 1 .. Len(q) /\ k < k + 1
        BY <1>6, <1>0, <3>1
      <4>2. A(k) < A(k + 1) /\ A(k) \in Nat
        BY <1>1, <1>2, <2>1, <4>1
      <4>3. QED
        BY <3>1, <4>2, <2>3
    <3>2. QED
      BY <1>9, <3>1
  <2>5. /\ Diff(E[k], b) <= Half /\ Diff(SnOf(q[k + 1]), b) < Half
        /\ Diff(E[k], b) - Diff(SnOf(q[k + 1]), b) < Half
    BY <2>3, <2>4, <1>9, <1>4, Sizes
  <2>6. X(k) < A(k + 1)
    BY <2>2, <2>3, <2>5, <1>9, LessByOff
  <2>7. A(k + 1) <= A(j) /\ A(j) \in Nat /\ SnOf(q[j]) \in SeqNum /\ A(j) = Diff(SnOf(q[j]), b)
    <3>1. A(j) \in Nat /\ SnOf(q[j]) \in SeqNum /\ A(j) = Diff(SnOf(q[j]), b)
      BY <1>1, <2>1, Zenon DEF A, Off
    <3>2. CASE j = k + 1
      BY <3>1, <3>2, <2>3
    <3>3. CASE k + 1 < j
      <4>1. A(k + 1) < A(j)
        BY <3>3, <1>2, <2>1
      <4>2. QED
        BY <4>1, <3>1, <2>3
    <3>4. QED
      BY <3>2, <3>3, <1>6
  <2>8. X(k) < A(j)
    BY <2>3, <2>6, <2>7, <1>9
  <2>9. Diff(SnOf(q[j]), E[k]) = Diff(SnOf(q[j]), b) - Diff(E[k], b)
    BY <2>7, <2>8, <1>9, DiffFacts
  <2>10. QED
    BY <2>7, <2>8, <2>9
<1>11. QED
  BY <1>6, <1>9, <1>10 DEF k, E, A, Off

(* Frames in order in a window of WSize fill at most WSize - 1 nodes. *)
LEMMA InOrderLength ==
    ASSUME NEW q \in Seq(FrameNo), NEW b \in SeqNum,
           InOrder(q, b, WSize - 1),
           \A j \in 1 .. Len(q) : Off(q[j], b) >= 1
    PROVE  Len(q) <= WSize - 1
<1>0. Len(q) \in Nat
  BY LenProperties
<1> DEFINE A(j) == Off(q[j], b)
           Bad == { m \in Nat : m \in 1 .. Len(q) /\ A(m) < m }
<1>1. \A j \in 1 .. Len(q) : A(j) \in Nat /\ A(j) <= WSize - 1 /\ A(j) >= 1
  <2> TAKE j \in 1 .. Len(q)
  <2>1. q[j] \in FrameNo
    BY ElementOfSeq, Zenon
  <2>2. QED
    BY <2>1, OffType, Zenon DEF InOrder
<1>2. \A j, k \in 1 .. Len(q) : j < k => A(j) < A(k)
  BY Zenon DEF InOrder
<1> HIDE DEF A
<1>3. Bad = {}
  <2>1. SUFFICES ASSUME Bad # {} PROVE FALSE
    OBVIOUS
  <2>2. PICK m \in Bad : \A h \in Bad : m <= h
    <3>1. Bad \in SUBSET Nat
      OBVIOUS
    <3>2. QED
      BY <2>1, <3>1, LeastNat, Zenon
  <2>3. m \in 1 .. Len(q) /\ A(m) < m
    BY <2>2
  <2>4. m > 1
    BY <2>3, <1>1
  <2>5. m - 1 \in 1 .. Len(q) /\ m - 1 \in Nat /\ m - 1 < m /\ ~(m <= m - 1)
    BY <2>3, <2>4, <1>0
  <2>6. A(m - 1) >= m - 1
    BY <2>2, <2>5, <1>1
  <2>7. A(m - 1) < A(m)
    BY <1>2, <2>3, <2>5
  <2>8. A(m) \in Nat /\ A(m - 1) \in Nat
    BY <1>1, <2>3, <2>5
  <2>9. QED
    BY <2>3, <2>5, <2>6, <2>7, <2>8
<1>4. CASE Len(q) = 0
  BY <1>4, Sizes
<1>5. CASE Len(q) # 0
  <2>1. Len(q) \in 1 .. Len(q)
    BY <1>0, <1>5
  <2>2. A(Len(q)) >= Len(q) /\ A(Len(q)) <= WSize - 1 /\ A(Len(q)) \in Nat
    BY <1>0, <1>1, <1>3, <2>1
  <2>3. QED
    BY <1>0, <2>2, Sizes
<1>6. QED
  BY <1>4, <1>5

-----------------------------------------------------------------------------
(* The inductive invariant *)

\* Nothing is ahead of the peer; a frame that was tested under the present
\* agreement is less than half the numbers behind it.
Bounds ==
    /\ last <= sent /\ seen <= sent /\ rx.no <= sent
    /\ \A j \in 1 .. Len(pend) : pend[j] <= sent
    /\ rx.at = "core" => rx.no >= 1
    /\ rx.at = "core" /\ rx.no >= first => sent - rx.no <= Half

\* What is known of the agreement while the window fits the frames.
Agreed ==
    /\ mlme # "idle" => attached
    /\ ~stale /\ enable => mlme = "maintain"
    /\ ~stale /\ ind # Unset /\ Unlocked => enable
    /\ ~stale /\ enable /\ ind = Unset => last < first
    /\ ~stale /\ rx.at = "core" /\ ind = Unset => last < rx.no

\* T is the true number of the frame that indicate_seq stands for.
Fits(T) ==
    /\ SnOf(T) = ind
    /\ last # 0 /\ last < T /\ T <= sent + 1
    /\ sent - last <= Half
    /\ T <= last + 1 \/ T + WSize <= seen + 1
    /\ \A j \in 1 .. Len(pend) : pend[j] - T = Ahead(pend[j])
    /\ rx.at = "core" => /\ T <= rx.no + WSize
                         /\ \A j \in 1 .. Len(pend) : pend[j] < rx.no + WSize

InStep ==
    ~stale /\ ind # Unset /\ Unlocked => \E T \in 1 .. MaxSent + 1 : Fits(T)

Inv == PoolSuffices /\ HeldInWindow /\ Bounds /\ Agreed /\ InStep

(* wf_rx_action_ba_ctl_init establishes the invariant. *)
LEMMA InitInv == Init => Inv
<1> SUFFICES ASSUME Init PROVE Inv
  OBVIOUS
<1>1. pend = << >> /\ Len(pend) = 0 /\ pend \in Seq(FrameNo) /\ up \in Seq(FrameNo)
  BY DEF Init
<1>2. PoolSuffices
  <2>1. /\ attached \in BOOLEAN /\ enable \in BOOLEAN /\ timer \in BOOLEAN
        /\ fired \in BOOLEAN /\ stale \in BOOLEAN
    BY Zenon DEF Init
  <2>2. /\ ind \in SeqNum \cup {Unset} /\ pool \in 0 .. NodeNum /\ lost \in 0 .. NodeNum
        /\ conns \in 0 .. MaxConn /\ bas \in 0 .. MaxBa
        /\ first \in Nat /\ sent \in 0 .. MaxSent
        /\ last \in 0 .. MaxSent /\ seen \in 0 .. MaxSent
        /\ pool + Len(pend) + lost = NodeNum
    BY <1>1, WindowAssumption DEF Init
  <2>3. /\ rx \in [at : {"idle", "core", "spin", "oops"}, no : 0 .. MaxSent]
        /\ mlme \in {"idle", "preconnect", "maintain"} /\ rx.at # "spin"
    BY WindowAssumption DEF Init, NoFrame
  <2>4. QED
    BY <1>1, <2>1, <2>2, <2>3, Zenon DEF PoolSuffices, TypeOK
<1>3. HeldInWindow /\ Bounds /\ Agreed /\ InStep
  BY <1>1, WindowAssumption DEF Init, HeldInWindow, Bounds, Agreed, InStep, NoFrame
<1>4. QED
  BY <1>2, <1>3 DEF Inv

\* The effect of rx_reorder_upload on frames q in order, seen from number b:
\* k of them go up and the expected number ends x ahead of b.
Uploaded(q, b, i, k, x) ==
    /\ ind' \in SeqNum /\ x = Diff(ind', b)
    /\ x >= Diff(i, b)
    /\ x = Diff(i, b) \/ (k > 0 /\ x = Off(q[k], b) + 1)
    /\ k > 0 => Off(q[k], b) < x
    /\ \A j \in k + 1 .. Len(q) : x < Off(q[j], b)
    /\ pend' \in Seq(FrameNo) /\ Len(pend') = Len(q) - k
    /\ \A j \in 1 .. Len(q) - k : /\ k + j \in 1 .. Len(q)
                                   /\ pend'[j] = q[k + j]
                                   /\ Off(pend'[j], ind') = Off(q[k + j], b) - x
    /\ up' \in Seq(FrameNo) /\ Len(up') = k
    /\ \A j \in 1 .. k : j \in 1 .. Len(q) /\ up'[j] = q[j]
    /\ last' = IF k = 0 THEN last ELSE q[k]

(* UploadProperties for the step that Upload is part of. *)
LEMMA UploadShape ==
    ASSUME NEW q \in Seq(FrameNo), NEW b \in SeqNum, NEW i \in SeqNum,
           NEW nodes \in Int,
           InOrder(q, b, Half - 1), Diff(i, b) < Half,
           Upload(q, i, nodes)
    PROVE  \E k \in 0 .. Len(q), x \in Nat : Uploaded(q, b, i, k, x) /\ pool' = nodes + k
<1> DEFINE k == Ready(q, i)
           e == Expected(q, i)[k]
           x == Diff(e, b)
<1>0. Len(q) \in Nat
  BY LenProperties
<1>1. /\ k \in 0 .. Len(q)
      /\ e \in SeqNum /\ x \in Nat
      /\ x >= Diff(i, b)
      /\ x = Diff(i, b) \/ (k > 0 /\ x = Off(q[k], b) + 1)
      /\ k > 0 => Off(q[k], b) < x
      /\ \A j \in k + 1 .. Len(q) : x < Off(q[j], b) /\ Off(q[j], e) = Off(q[j], b) - x
  BY UploadProperties, Zenon
<1>2. /\ up' = SubSeq(q, 1, k) /\ pend' = SubSeq(q, k + 1, Len(q))
      /\ ind' = e /\ pool' = nodes + k /\ last' = IF k = 0 THEN last ELSE q[k]
  BY Zenon DEF Upload
<1> HIDE DEF k, e, x
<1>3. /\ up' \in Seq(FrameNo) /\ Len(up') = k
      /\ \A j \in 1 .. k : up'[j] = q[j]
  <2>1. \A j \in 1 .. k : q[j] \in FrameNo
    BY <1>1, <1>0, ElementOfSeq
  <2>2. QED
    BY <1>0, <1>1, <1>2, <2>1, SubSeqProperties
<1>4. /\ pend' \in Seq(FrameNo) /\ Len(pend') = Len(q) - k
      /\ \A j \in 1 .. Len(q) - k : pend'[j] = q[k + j]
  BY <1>0, <1>1, <1>2, SubSeqProperties, SMTT(40)
<1>5. ASSUME NEW j \in 1 .. Len(q) - k
      PROVE  /\ k + j \in 1 .. Len(q)
             /\ Off(pend'[j], ind') = Off(q[k + j], b) - x
  <2>1. k + j \in k + 1 .. Len(q) /\ k + j \in 1 .. Len(q)
    BY <1>0, <1>1
  <2>2. Off(q[k + j], e) = Off(q[k + j], b) - x
    BY <1>1, <2>1, Zenon
  <2>3. QED
    BY <1>2, <1>4, <2>1, <2>2, Zenon
<1>6. \A j \in 1 .. k : j \in 1 .. Len(q)
  BY <1>0, <1>1
<1>7. x = Diff(ind', b)
  BY <1>2, Zenon DEF x
<1>8. Uploaded(q, b, i, k, x)
  BY <1>1, <1>2, <1>3, <1>4, <1>5, <1>6, <1>7, Zenon DEF Uploaded
<1>9. QED
  BY <1>1, <1>2, <1>8, Zenon

(* The frames that stay are within the window. *)
LEMMA UploadHeld ==
    ASSUME NEW q \in Seq(FrameNo), NEW b \in SeqNum, NEW i \in SeqNum,
           NEW k \in 0 .. Len(q), NEW x \in Nat,
           InOrder(q, b, Half - 1),
           \A j \in 1 .. Len(q) : Off(q[j], b) - Diff(i, b) <= WSize - 1,
           Uploaded(q, b, i, k, x)
    PROVE  HeldInWindow'
<1>0. Len(q) \in Nat /\ ind' \in SeqNum /\ ind' # Unset
  BY LenProperties, Sizes DEF Uploaded, SeqNum, Unset
<1>1. \A j \in 1 .. Len(q) : Off(q[j], b) \in Nat
  <2> TAKE j \in 1 .. Len(q)
  <2>1. q[j] \in FrameNo
    BY ElementOfSeq, Zenon
  <2>2. QED
    BY <2>1, OffType, Zenon
<1>2. Diff(i, b) \in Nat /\ x >= Diff(i, b)
  BY DiffFacts, Sizes DEF SeqNum, Uploaded
<1>3. ASSUME NEW j \in 1 .. Len(pend')
      PROVE  /\ k + j \in k + 1 .. Len(q) /\ k + j \in 1 .. Len(q)
             /\ Off(pend'[j], ind') = Off(q[k + j], b) - x
  BY <1>0 DEF Uploaded
<1>4. ASSUME NEW j \in 1 .. Len(pend') PROVE Off(pend'[j], ind') \in 1 .. WSize - 1
  <2>1. /\ k + j \in k + 1 .. Len(q) /\ k + j \in 1 .. Len(q)
        /\ Off(pend'[j], ind') = Off(q[k + j], b) - x
    BY <1>3
  <2>2. x < Off(q[k + j], b)
    BY <2>1, Zenon DEF Uploaded
  <2>3. Off(q[k + j], b) - Diff(i, b) <= WSize - 1 /\ Off(q[k + j], b) \in Nat
    BY <2>1, <1>1, Zenon
  <2>4. QED
    BY <2>1, <2>2, <2>3, <1>2, Sizes, SMTT(40)
<1>5. ASSUME NEW j \in 1 .. Len(pend'), NEW l \in 1 .. Len(pend'), j < l
      PROVE  Off(pend'[j], ind') < Off(pend'[l], ind')
  <2>1. /\ k + j \in 1 .. Len(q) /\ Off(pend'[j], ind') = Off(q[k + j], b) - x
        /\ k + l \in 1 .. Len(q) /\ Off(pend'[l], ind') = Off(q[k + l], b) - x
    BY <1>3
  <2>2. k + j < k + l
    BY <1>5, <1>0 DEF Uploaded
  <2>3. Off(q[k + j], b) < Off(q[k + l], b)
    BY <2>1, <2>2, Zenon DEF InOrder
  <2>4. QED
    BY <2>1, <2>3, <1>1
<1>6. QED
  BY <1>0, <1>4, <1>5, Zenon DEF HeldInWindow, Ahead, Off

(* In true numbers: with T the frame that b stands for, frames go up in the  *)
(* order they were sent and T moves forward by x.                            *)
LEMMA UploadTrue ==
    ASSUME NEW q \in Seq(FrameNo), NEW b \in SeqNum, NEW i \in SeqNum,
           NEW k \in 0 .. Len(q), NEW x \in Nat, NEW T \in Nat,
           InOrder(q, b, Half - 1), b = SnOf(T),
           \A j \in 1 .. Len(q) : q[j] - T = Off(q[j], b),
           Uploaded(q, b, i, k, x)
    PROVE  /\ SnOf(T + x) = ind'
           /\ \A j \in 1 .. Len(pend') : pend'[j] - (T + x) = Off(pend'[j], ind')
           /\ k > 0 => T <= q[k] /\ q[k] < T + x
           /\ x = Diff(i, b) \/ (k > 0 /\ T + x = q[k] + 1)
           /\ \A j \in 1 .. Len(up') : T <= up'[j]
           /\ \A j, l \in 1 .. Len(up') : j < l => up'[j] < up'[l]
<1>0. Len(q) \in Nat
  BY LenProperties
<1>1. \A j \in 1 .. Len(q) : q[j] \in Nat /\ Off(q[j], b) \in Nat /\ q[j] = T + Off(q[j], b)
  <2> TAKE j \in 1 .. Len(q)
  <2>1. q[j] \in FrameNo
    BY ElementOfSeq, Zenon
  <2>2. Off(q[j], b) \in Nat
    BY <2>1, OffType, Zenon
  <2>3. q[j] - T = Off(q[j], b) /\ q[j] \in Nat
    BY <2>1 DEF FrameNo
  <2>4. QED
    BY <2>2, <2>3
<1>2. SnOf(T + x) = ind'
  BY SnForward, Zenon DEF Uploaded
<1>3. ASSUME NEW j \in 1 .. Len(pend') PROVE pend'[j] - (T + x) = Off(pend'[j], ind')
  <2>1. /\ k + j \in 1 .. Len(q) /\ pend'[j] = q[k + j]
        /\ Off(pend'[j], ind') = Off(q[k + j], b) - x
    BY Zenon DEF Uploaded
  <2>2. q[k + j] \in Nat /\ Off(q[k + j], b) \in Nat /\ q[k + j] = T + Off(q[k + j], b)
    BY <1>1, <2>1, Zenon
  <2>3. QED
    BY <2>1, <2>2
<1>4. k > 0 => k \in 1 .. Len(q)
  BY <1>0
<1>5. /\ k > 0 => Off(q[k], b) < x
      /\ x = Diff(i, b) \/ (k > 0 /\ x = Off(q[k], b) + 1)
  BY Zenon DEF Uploaded
<1>6. ASSUME NEW j \in 1 .. Len(up') PROVE j \in 1 .. Len(q) /\ up'[j] = q[j]
  BY Zenon DEF Uploaded
<1>7. ASSUME NEW j \in 1 .. Len(up'), NEW l \in 1 .. Len(up'), j < l PROVE up'[j] < up'[l]
  <2>1. j \in 1 .. Len(q) /\ up'[j] = q[j] /\ l \in 1 .. Len(q) /\ up'[l] = q[l]
    BY <1>6
  <2>2. Off(q[j], b) < Off(q[l], b)
    BY <1>7, <2>1, Zenon DEF InOrder
  <2>3. QED
    BY <1>1, <2>1, <2>2
<1>8. ASSUME NEW j \in 1 .. Len(up') PROVE T <= up'[j]
  BY <1>1, <1>6
<1>9. k > 0 => T <= q[k] /\ q[k] < T + x
  BY <1>1, <1>4, <1>5
<1>10. x = Diff(i, b) \/ (k > 0 /\ T + x = q[k] + 1)
  BY <1>1, <1>4, <1>5
<1>11. QED
  BY <1>2, <1>3, <1>7, <1>8, <1>9, <1>10, Zenon

-----------------------------------------------------------------------------
(* The actions that leave the window alone or empty it: one lemma each, one  *)
(* step for each part of the invariant.                                      *)

(* The peer sends a frame. *)
LEMMA SendInv ==
    ASSUME Inv, Send
    PROVE  Inv'
<1>1. PoolSuffices'
  <2>1. /\ attached' \in BOOLEAN /\ enable' \in BOOLEAN /\ timer' \in BOOLEAN
        /\ fired' \in BOOLEAN /\ stale' \in BOOLEAN
    BY Zenon DEF Inv, PoolSuffices, TypeOK, Send, vars, window, timing, agreement,
       peer, past
  <2>2. /\ ind' \in SeqNum \cup {Unset} /\ pend' \in Seq(FrameNo) /\ up' \in Seq(FrameNo)
        /\ mlme' \in {"idle", "preconnect", "maintain"}
        /\ rx' \in [at : {"idle", "core", "spin", "oops"}, no : 0 .. MaxSent]
        /\ rx'.at = "spin" => rx.at = "spin"
    BY DEF Inv, PoolSuffices, TypeOK, FrameNo, MayArrive, Send, vars, window,
       timing, agreement, peer, past
  <2>3. /\ pool' \in 0 .. NodeNum /\ lost' \in 0 .. NodeNum
        /\ conns' \in 0 .. MaxConn /\ bas' \in 0 .. MaxBa
        /\ first' \in Nat /\ sent' \in 0 .. MaxSent
        /\ last' \in 0 .. MaxSent /\ seen' \in 0 .. MaxSent
        /\ pool' + Len(pend') + lost' = NodeNum
        /\ lost' >= lost
    BY WindowAssumption DEF Inv, PoolSuffices, TypeOK, FrameNo, MayArrive, Send,
       vars, window, timing, agreement, peer, past
  <2>4. QED
    BY <2>1, <2>2, <2>3 DEF Inv, PoolSuffices, TypeOK
<1>2. HeldInWindow'
  BY DEF Inv, HeldInWindow, Ahead, Unlocked, Send, vars, window, timing, agreement,
     peer, past
<1>3. Bounds'
  BY WindowAssumption, Sizes DEF Inv, Bounds, PoolSuffices, TypeOK, FrameNo,
     MayArrive, Send, vars, window, timing, agreement, peer, past
<1>4. Agreed'
  BY DEF Inv, Agreed, Bounds, PoolSuffices, TypeOK, FrameNo, MayArrive, Unlocked,
     Send, vars, window, timing, agreement, peer, past
<1>5. InStep'
  <2>1. SUFFICES ASSUME ~stale', ind' # Unset, Unlocked'
                 PROVE  \E T \in 1 .. MaxSent + 1 : Fits(T)'
    BY DEF InStep
  <2>2. ~stale /\ ind # Unset /\ Unlocked /\ ind' = ind /\ pend' = pend
    BY <2>1 DEF Unlocked, Send, vars, window, timing, agreement, peer, past
  <2>3. PICK T \in 1 .. MaxSent + 1 : Fits(T)
    BY <2>2, Zenon DEF Inv, InStep
  <2>4. (\A j \in 1 .. Len(pend) : pend[j] - T = Ahead(pend[j]))'
    BY <2>2, <2>3, Zenon DEF Fits, Ahead
  <2>5. Fits(T)'
    BY <2>2, <2>3, <2>4, Sizes DEF Inv, Bounds, Agreed, Unlocked, PoolSuffices,
       TypeOK, Fits, FrameNo, MayArrive, Send, vars, window, timing, agreement,
       peer, past
  <2>6. QED
    BY <2>5
<1>6. QED
  BY <1>1, <1>2, <1>3, <1>4, <1>5 DEF Inv

(* rx_data_reorder_process passes a frame by. *)
LEMMA RxBypassInv ==
    ASSUME Inv, NEW n \in FrameNo, RxBypass(n)
    PROVE  Inv'
<1>1. PoolSuffices'
  <2>1. /\ attached' \in BOOLEAN /\ enable' \in BOOLEAN /\ timer' \in BOOLEAN
        /\ fired' \in BOOLEAN /\ stale' \in BOOLEAN
    BY Zenon DEF Inv, PoolSuffices, TypeOK, RxBypass, vars, window, timing,
       agreement, peer, past
  <2>2. /\ ind' \in SeqNum \cup {Unset} /\ pend' \in Seq(FrameNo) /\ up' \in Seq(FrameNo)
        /\ mlme' \in {"idle", "preconnect", "maintain"}
        /\ rx' \in [at : {"idle", "core", "spin", "oops"}, no : 0 .. MaxSent]
        /\ rx'.at = "spin" => rx.at = "spin"
    BY DEF Inv, PoolSuffices, TypeOK, FrameNo, MayArrive, RxBypass, vars, window,
       timing, agreement, peer, past
  <2>3. /\ pool' \in 0 .. NodeNum /\ lost' \in 0 .. NodeNum
        /\ conns' \in 0 .. MaxConn /\ bas' \in 0 .. MaxBa
        /\ first' \in Nat /\ sent' \in 0 .. MaxSent
        /\ last' \in 0 .. MaxSent /\ seen' \in 0 .. MaxSent
        /\ pool' + Len(pend') + lost' = NodeNum
        /\ lost' >= lost
    BY WindowAssumption DEF Inv, PoolSuffices, TypeOK, FrameNo, MayArrive,
       RxBypass, vars, window, timing, agreement, peer, past
  <2>4. QED
    BY <2>1, <2>2, <2>3 DEF Inv, PoolSuffices, TypeOK
<1>2. HeldInWindow'
  BY DEF Inv, HeldInWindow, Ahead, Unlocked, RxBypass, vars, window, timing,
     agreement, peer, past
<1>3. Bounds'
  BY WindowAssumption, Sizes DEF Inv, Bounds, PoolSuffices, TypeOK, FrameNo,
     MayArrive, RxBypass, vars, window, timing, agreement, peer, past
<1>4. Agreed'
  BY DEF Inv, Agreed, Bounds, PoolSuffices, TypeOK, FrameNo, MayArrive, Unlocked,
     RxBypass, vars, window, timing, agreement, peer, past
<1>5. InStep'
  <2>1. SUFFICES ASSUME ~stale', ind' # Unset, Unlocked'
                 PROVE  \E T \in 1 .. MaxSent + 1 : Fits(T)'
    BY DEF InStep
  <2>2. ~stale /\ ind # Unset /\ Unlocked /\ ind' = ind /\ pend' = pend
    BY <2>1 DEF Unlocked, RxBypass, vars, window, timing, agreement, peer, past
  <2>3. PICK T \in 1 .. MaxSent + 1 : Fits(T)
    BY <2>2, Zenon DEF Inv, InStep
  <2>4. (\A j \in 1 .. Len(pend) : pend[j] - T = Ahead(pend[j]))'
    BY <2>2, <2>3, Zenon DEF Fits, Ahead
  <2>5. Fits(T)'
    BY <2>2, <2>3, <2>4, Sizes DEF Inv, Bounds, Agreed, Unlocked, PoolSuffices,
       TypeOK, Fits, FrameNo, MayArrive, RxBypass, vars, window, timing,
       agreement, peer, past
  <2>6. QED
    BY <2>5
<1>6. QED
  BY <1>1, <1>2, <1>3, <1>4, <1>5 DEF Inv

(* rx_data_reorder_process has tested that the window is to be used. *)
LEMMA RxTestInv ==
    ASSUME Inv, NEW n \in FrameNo, RxTest(n)
    PROVE  Inv'
<1>1. PoolSuffices'
  <2>1. /\ attached' \in BOOLEAN /\ enable' \in BOOLEAN /\ timer' \in BOOLEAN
        /\ fired' \in BOOLEAN /\ stale' \in BOOLEAN
    BY Zenon DEF Inv, PoolSuffices, TypeOK, RxTest, vars, window, timing,
       agreement, peer, past
  <2>2. /\ ind' \in SeqNum \cup {Unset} /\ pend' \in Seq(FrameNo) /\ up' \in Seq(FrameNo)
        /\ mlme' \in {"idle", "preconnect", "maintain"}
        /\ rx' \in [at : {"idle", "core", "spin", "oops"}, no : 0 .. MaxSent]
        /\ rx'.at = "spin" => rx.at = "spin"
    BY DEF Inv, PoolSuffices, TypeOK, FrameNo, MayArrive, RxTest, vars, window,
       timing, agreement, peer, past
  <2>3. /\ pool' \in 0 .. NodeNum /\ lost' \in 0 .. NodeNum
        /\ conns' \in 0 .. MaxConn /\ bas' \in 0 .. MaxBa
        /\ first' \in Nat /\ sent' \in 0 .. MaxSent
        /\ last' \in 0 .. MaxSent /\ seen' \in 0 .. MaxSent
        /\ pool' + Len(pend') + lost' = NodeNum
        /\ lost' >= lost
    BY WindowAssumption DEF Inv, PoolSuffices, TypeOK, FrameNo, MayArrive, RxTest,
       vars, window, timing, agreement, peer, past
  <2>4. QED
    BY <2>1, <2>2, <2>3 DEF Inv, PoolSuffices, TypeOK
<1>2. HeldInWindow'
  BY DEF Inv, HeldInWindow, Ahead, Unlocked, RxTest, vars, window, timing,
     agreement, peer, past
<1>3. Bounds'
  BY WindowAssumption, Sizes DEF Inv, Bounds, PoolSuffices, TypeOK, FrameNo,
     MayArrive, RxTest, vars, window, timing, agreement, peer, past
<1>4. Agreed'
  BY DEF Inv, Agreed, Bounds, PoolSuffices, TypeOK, FrameNo, MayArrive, Unlocked,
     RxTest, vars, window, timing, agreement, peer, past
<1>5. InStep'
  <2>1. SUFFICES ASSUME ~stale', ind' # Unset, Unlocked'
                 PROVE  \E T \in 1 .. MaxSent + 1 : Fits(T)'
    BY DEF InStep
  <2>2. ~stale /\ ind # Unset /\ Unlocked /\ ind' = ind /\ pend' = pend
    BY <2>1 DEF Unlocked, RxTest, vars, window, timing, agreement, peer, past
  <2>3. PICK T \in 1 .. MaxSent + 1 : Fits(T)
    BY <2>2, Zenon DEF Inv, InStep
  <2>4. (\A j \in 1 .. Len(pend) : pend[j] - T = Ahead(pend[j]))'
    BY <2>2, <2>3, Zenon DEF Fits, Ahead
  <2>5. n > sent - WSize /\ rx' = [at |-> "core", no |-> n] /\ n \in Nat /\ sent \in Nat /\ T \in Nat
    BY WindowAssumption DEF Inv, PoolSuffices, TypeOK, FrameNo, MayArrive, RxTest
  <2>6. sent < n + WSize
    BY <2>5, Sizes
  <2>7. T <= n + WSize
    BY <2>3, <2>5, <2>6, Sizes DEF Fits
  <2>8. \A j \in 1 .. Len(pend) : pend[j] < n + WSize
    <3> TAKE j \in 1 .. Len(pend)
    <3>1. pend[j] \in FrameNo /\ pend[j] <= sent
      BY Zenon, ElementOfSeq DEF Inv, PoolSuffices, TypeOK, Bounds
    <3>2. QED
      BY <2>5, <2>6, <3>1, Sizes DEF FrameNo
  <2>9. /\ sent' = sent /\ last' = last /\ seen' = seen
        /\ (rx.no)' = n
    BY <2>5 DEF RxTest, peer, past
  <2>10. (rx.at = "core" => T <= rx.no + WSize /\ \A j \in 1 .. Len(pend) : pend[j] < rx.no + WSize)'
    BY <2>2, <2>7, <2>8, <2>9, Zenon
  <2>11. Fits(T)'
    BY <2>2, <2>3, <2>4, <2>9, <2>10, Zenon DEF Fits
  <2>12. QED
    BY <2>11
<1>6. QED
  BY <1>1, <1>2, <1>3, <1>4, <1>5 DEF Inv

(* The window was detached meanwhile. *)
LEMMA CoreNullInv ==
    ASSUME Inv, CoreNull
    PROVE  Inv'
<1>1. PoolSuffices'
  <2>1. /\ attached' \in BOOLEAN /\ enable' \in BOOLEAN /\ timer' \in BOOLEAN
        /\ fired' \in BOOLEAN /\ stale' \in BOOLEAN
    BY Zenon DEF Inv, PoolSuffices, TypeOK, CoreNull, vars, window, timing,
       agreement, peer, past
  <2>2. /\ ind' \in SeqNum \cup {Unset} /\ pend' \in Seq(FrameNo) /\ up' \in Seq(FrameNo)
        /\ mlme' \in {"idle", "preconnect", "maintain"}
        /\ rx' \in [at : {"idle", "core", "spin", "oops"}, no : 0 .. MaxSent]
        /\ rx'.at = "spin" => rx.at = "spin"
    BY SMTT(40) DEF Inv, PoolSuffices, TypeOK, FrameNo, MayArrive, CoreNull, vars, window,
       timing, agreement, peer, past
  <2>3. /\ pool' \in 0 .. NodeNum /\ lost' \in 0 .. NodeNum
        /\ conns' \in 0 .. MaxConn /\ bas' \in 0 .. MaxBa
        /\ first' \in Nat /\ sent' \in 0 .. MaxSent
        /\ last' \in 0 .. MaxSent /\ seen' \in 0 .. MaxSent
        /\ pool' + Len(pend') + lost' = NodeNum
        /\ lost' >= lost
    BY WindowAssumption DEF Inv, PoolSuffices, TypeOK, FrameNo, MayArrive,
       CoreNull, vars, window, timing, agreement, peer, past
  <2>4. QED
    BY <2>1, <2>2, <2>3 DEF Inv, PoolSuffices, TypeOK
<1>2. HeldInWindow'
  BY DEF Inv, HeldInWindow, Ahead, Unlocked, CoreNull, vars, window, timing,
     agreement, peer, past
<1>3. Bounds'
  BY WindowAssumption, Sizes DEF Inv, Bounds, PoolSuffices, TypeOK, FrameNo,
     MayArrive, CoreNull, vars, window, timing, agreement, peer, past
<1>4. Agreed'
  BY DEF Inv, Agreed, Bounds, PoolSuffices, TypeOK, FrameNo, MayArrive, Unlocked,
     CoreNull, vars, window, timing, agreement, peer, past
<1>5. InStep'
  <2>1. SUFFICES ASSUME ~stale', ind' # Unset, Unlocked'
                 PROVE  \E T \in 1 .. MaxSent + 1 : Fits(T)'
    BY DEF InStep
  <2>2. ~stale /\ ind # Unset /\ Unlocked /\ ind' = ind /\ pend' = pend
    BY <2>1 DEF Unlocked, CoreNull, vars, window, timing, agreement, peer, past
  <2>3. PICK T \in 1 .. MaxSent + 1 : Fits(T)
    BY <2>2, Zenon DEF Inv, InStep
  <2>4. (\A j \in 1 .. Len(pend) : pend[j] - T = Ahead(pend[j]))'
    BY <2>2, <2>3, Zenon DEF Fits, Ahead
  <2>5. Fits(T)'
    BY <2>2, <2>3, <2>4, Sizes DEF Inv, Bounds, Agreed, Unlocked, PoolSuffices,
       TypeOK, Fits, FrameNo, MayArrive, CoreNull, vars, window, timing,
       agreement, peer, past
  <2>6. QED
    BY <2>5
<1>6. QED
  BY <1>1, <1>2, <1>3, <1>4, <1>5 DEF Inv

(* The timer expires. *)
LEMMA ExpireInv ==
    ASSUME Inv, Expire
    PROVE  Inv'
<1>1. PoolSuffices'
  <2>1. /\ attached' \in BOOLEAN /\ enable' \in BOOLEAN /\ timer' \in BOOLEAN
        /\ fired' \in BOOLEAN /\ stale' \in BOOLEAN
    BY Zenon DEF Inv, PoolSuffices, TypeOK, Expire, vars, window, timing,
       agreement, peer, past
  <2>2. /\ ind' \in SeqNum \cup {Unset} /\ pend' \in Seq(FrameNo) /\ up' \in Seq(FrameNo)
        /\ mlme' \in {"idle", "preconnect", "maintain"}
        /\ rx' \in [at : {"idle", "core", "spin", "oops"}, no : 0 .. MaxSent]
        /\ rx'.at = "spin" => rx.at = "spin"
    BY DEF Inv, PoolSuffices, TypeOK, FrameNo, MayArrive, Expire, vars, window,
       timing, agreement, peer, past
  <2>3. /\ pool' \in 0 .. NodeNum /\ lost' \in 0 .. NodeNum
        /\ conns' \in 0 .. MaxConn /\ bas' \in 0 .. MaxBa
        /\ first' \in Nat /\ sent' \in 0 .. MaxSent
        /\ last' \in 0 .. MaxSent /\ seen' \in 0 .. MaxSent
        /\ pool' + Len(pend') + lost' = NodeNum
        /\ lost' >= lost
    BY WindowAssumption DEF Inv, PoolSuffices, TypeOK, FrameNo, MayArrive, Expire,
       vars, window, timing, agreement, peer, past
  <2>4. QED
    BY <2>1, <2>2, <2>3 DEF Inv, PoolSuffices, TypeOK
<1>2. HeldInWindow'
  BY DEF Inv, HeldInWindow, Ahead, Unlocked, Expire, vars, window, timing,
     agreement, peer, past
<1>3. Bounds'
  BY WindowAssumption, Sizes DEF Inv, Bounds, PoolSuffices, TypeOK, FrameNo,
     MayArrive, Expire, vars, window, timing, agreement, peer, past
<1>4. Agreed'
  BY DEF Inv, Agreed, Bounds, PoolSuffices, TypeOK, FrameNo, MayArrive, Unlocked,
     Expire, vars, window, timing, agreement, peer, past
<1>5. InStep'
  <2>1. SUFFICES ASSUME ~stale', ind' # Unset, Unlocked'
                 PROVE  \E T \in 1 .. MaxSent + 1 : Fits(T)'
    BY DEF InStep
  <2>2. ~stale /\ ind # Unset /\ Unlocked /\ ind' = ind /\ pend' = pend
    BY <2>1 DEF Unlocked, Expire, vars, window, timing, agreement, peer, past
  <2>3. PICK T \in 1 .. MaxSent + 1 : Fits(T)
    BY <2>2, Zenon DEF Inv, InStep
  <2>4. (\A j \in 1 .. Len(pend) : pend[j] - T = Ahead(pend[j]))'
    BY <2>2, <2>3, Zenon DEF Fits, Ahead
  <2>5. Fits(T)'
    BY <2>2, <2>3, <2>4, Sizes DEF Inv, Bounds, Agreed, Unlocked, PoolSuffices,
       TypeOK, Fits, FrameNo, MayArrive, Expire, vars, window, timing, agreement,
       peer, past
  <2>6. QED
    BY <2>5
<1>6. QED
  BY <1>1, <1>2, <1>3, <1>4, <1>5 DEF Inv

(* core_conn_preconnect attaches the window of the last connection. *)
LEMMA AttachInv ==
    ASSUME Inv, Attach
    PROVE  Inv'
<1>1. PoolSuffices'
  <2>1. /\ attached' \in BOOLEAN /\ enable' \in BOOLEAN /\ timer' \in BOOLEAN
        /\ fired' \in BOOLEAN /\ stale' \in BOOLEAN
    BY Zenon DEF Inv, PoolSuffices, TypeOK, Attach, vars, window, timing,
       agreement, peer, past
  <2>2. /\ ind' \in SeqNum \cup {Unset} /\ pend' \in Seq(FrameNo) /\ up' \in Seq(FrameNo)
        /\ mlme' \in {"idle", "preconnect", "maintain"}
        /\ rx' \in [at : {"idle", "core", "spin", "oops"}, no : 0 .. MaxSent]
        /\ rx'.at = "spin" => rx.at = "spin"
    BY DEF Inv, PoolSuffices, TypeOK, FrameNo, MayArrive, Attach, vars, window,
       timing, agreement, peer, past
  <2>3. /\ pool' \in 0 .. NodeNum /\ lost' \in 0 .. NodeNum
        /\ conns' \in 0 .. MaxConn /\ bas' \in 0 .. MaxBa
        /\ first' \in Nat /\ sent' \in 0 .. MaxSent
        /\ last' \in 0 .. MaxSent /\ seen' \in 0 .. MaxSent
        /\ pool' + Len(pend') + lost' = NodeNum
        /\ lost' >= lost
    BY WindowAssumption DEF Inv, PoolSuffices, TypeOK, FrameNo, MayArrive, Attach,
       vars, window, timing, agreement, peer, past
  <2>4. QED
    BY <2>1, <2>2, <2>3 DEF Inv, PoolSuffices, TypeOK
<1>2. HeldInWindow'
  BY DEF Inv, HeldInWindow, Ahead, Unlocked, Attach, vars, window, timing,
     agreement, peer, past
<1>3. Bounds'
  BY WindowAssumption, Sizes, SMTT(40) DEF Inv, Bounds, PoolSuffices, TypeOK, FrameNo,
     MayArrive, Attach, vars, window, timing, agreement, peer, past
<1>4. Agreed'
  BY DEF Inv, Agreed, Bounds, PoolSuffices, TypeOK, FrameNo, MayArrive, Unlocked,
     Attach, vars, window, timing, agreement, peer, past
<1>5. InStep'
  BY Zenon DEF InStep, Attach
<1>6. QED
  BY <1>1, <1>2, <1>3, <1>4, <1>5 DEF Inv

(* wf_rx_ba_reinit empties it. *)
LEMMA ReinitInv ==
    ASSUME Inv, Reinit
    PROVE  Inv'
<1>1. PoolSuffices'
  <2>1. /\ attached' \in BOOLEAN /\ enable' \in BOOLEAN /\ timer' \in BOOLEAN
        /\ fired' \in BOOLEAN /\ stale' \in BOOLEAN
    BY Zenon DEF Inv, PoolSuffices, TypeOK, Reinit, vars, window, timing,
       agreement, peer, past
  <2>2. /\ ind' \in SeqNum \cup {Unset} /\ pend' \in Seq(FrameNo) /\ up' \in Seq(FrameNo)
        /\ mlme' \in {"idle", "preconnect", "maintain"}
        /\ rx' \in [at : {"idle", "core", "spin", "oops"}, no : 0 .. MaxSent]
        /\ rx'.at = "spin" => rx.at = "spin"
    BY DEF Inv, PoolSuffices, TypeOK, FrameNo, MayArrive, Reinit, vars, window,
       timing, agreement, peer, past
  <2>3. /\ pool' \in 0 .. NodeNum /\ lost' \in 0 .. NodeNum
        /\ conns' \in 0 .. MaxConn /\ bas' \in 0 .. MaxBa
        /\ first' \in Nat /\ sent' \in 0 .. MaxSent
        /\ last' \in 0 .. MaxSent /\ seen' \in 0 .. MaxSent
        /\ pool' + Len(pend') + lost' = NodeNum
        /\ lost' >= lost
    BY WindowAssumption DEF Inv, PoolSuffices, TypeOK, FrameNo, MayArrive, Reinit,
       vars, window, timing, agreement, peer, past
  <2>4. QED
    BY <2>1, <2>2, <2>3 DEF Inv, PoolSuffices, TypeOK
<1>2. HeldInWindow'
  BY DEF Inv, HeldInWindow, Ahead, Unlocked, Reinit, vars, window, timing,
     agreement, peer, past
<1>3. Bounds'
  BY WindowAssumption, Sizes DEF Inv, Bounds, PoolSuffices, TypeOK, FrameNo,
     MayArrive, Reinit, vars, window, timing, agreement, peer, past
<1>4. Agreed'
  BY DEF Inv, Agreed, Bounds, PoolSuffices, TypeOK, FrameNo, MayArrive, Unlocked,
     Reinit, vars, window, timing, agreement, peer, past
<1>5. InStep'
  BY Zenon DEF InStep, Reinit
<1>6. QED
  BY <1>1, <1>2, <1>3, <1>4, <1>5 DEF Inv

(* A block ack request is answered. *)
LEMMA AddBaInv ==
    ASSUME Inv, AddBa
    PROVE  Inv'
<1>1. PoolSuffices'
  <2>1. /\ attached' \in BOOLEAN /\ enable' \in BOOLEAN /\ timer' \in BOOLEAN
        /\ fired' \in BOOLEAN /\ stale' \in BOOLEAN
    BY Zenon DEF Inv, PoolSuffices, TypeOK, AddBa, vars, window, timing,
       agreement, peer, past
  <2>2. /\ ind' \in SeqNum \cup {Unset} /\ pend' \in Seq(FrameNo) /\ up' \in Seq(FrameNo)
        /\ mlme' \in {"idle", "preconnect", "maintain"}
        /\ rx' \in [at : {"idle", "core", "spin", "oops"}, no : 0 .. MaxSent]
        /\ rx'.at = "spin" => rx.at = "spin"
    BY DEF Inv, PoolSuffices, TypeOK, FrameNo, MayArrive, AddBa, vars, window,
       timing, agreement, peer, past
  <2>3. /\ pool' \in 0 .. NodeNum /\ lost' \in 0 .. NodeNum
        /\ conns' \in 0 .. MaxConn /\ bas' \in 0 .. MaxBa
        /\ first' \in Nat /\ sent' \in 0 .. MaxSent
        /\ last' \in 0 .. MaxSent /\ seen' \in 0 .. MaxSent
        /\ pool' + Len(pend') + lost' = NodeNum
        /\ lost' >= lost
    BY WindowAssumption DEF Inv, PoolSuffices, TypeOK, FrameNo, MayArrive, AddBa,
       vars, window, timing, agreement, peer, past
  <2>4. QED
    BY <2>1, <2>2, <2>3 DEF Inv, PoolSuffices, TypeOK
<1>2. HeldInWindow'
  BY DEF Inv, HeldInWindow, Ahead, Unlocked, AddBa, vars, window, timing, agreement,
     peer, past
<1>3. Bounds'
  BY WindowAssumption, Sizes DEF Inv, Bounds, PoolSuffices, TypeOK, FrameNo,
     MayArrive, AddBa, vars, window, timing, agreement, peer, past
<1>4. Agreed'
  BY DEF Inv, Agreed, Bounds, PoolSuffices, TypeOK, FrameNo, MayArrive, Unlocked,
     AddBa, vars, window, timing, agreement, peer, past
<1>5. InStep'
  <2>1. SUFFICES ASSUME ~stale', ind' # Unset, Unlocked'
                 PROVE  \E T \in 1 .. MaxSent + 1 : Fits(T)'
    BY DEF InStep
  <2>2. ~stale /\ ind # Unset /\ Unlocked /\ ind' = ind /\ pend' = pend
    BY <2>1 DEF Unlocked, AddBa, vars, window, timing, agreement, peer, past
  <2>3. PICK T \in 1 .. MaxSent + 1 : Fits(T)
    BY <2>2, Zenon DEF Inv, InStep
  <2>4. (\A j \in 1 .. Len(pend) : pend[j] - T = Ahead(pend[j]))'
    BY <2>2, <2>3, Zenon DEF Fits, Ahead
  <2>5. Fits(T)'
    BY <2>2, <2>3, <2>4, Sizes DEF Inv, Bounds, Agreed, Unlocked, PoolSuffices,
       TypeOK, Fits, FrameNo, MayArrive, AddBa, vars, window, timing, agreement,
       peer, past
  <2>6. QED
    BY <2>5
<1>6. QED
  BY <1>1, <1>2, <1>3, <1>4, <1>5 DEF Inv

(* The answer to a block ack request cannot be sent. *)
LEMMA AddBaFailInv ==
    ASSUME Inv, AddBaFail
    PROVE  Inv'
<1>1. PoolSuffices'
  <2>1. /\ attached' \in BOOLEAN /\ enable' \in BOOLEAN /\ timer' \in BOOLEAN
        /\ fired' \in BOOLEAN /\ stale' \in BOOLEAN
    BY Zenon DEF Inv, PoolSuffices, TypeOK, AddBaFail, vars, window, timing,
       agreement, peer, past
  <2>2. /\ ind' \in SeqNum \cup {Unset} /\ pend' \in Seq(FrameNo) /\ up' \in Seq(FrameNo)
        /\ mlme' \in {"idle", "preconnect", "maintain"}
        /\ rx' \in [at : {"idle", "core", "spin", "oops"}, no : 0 .. MaxSent]
        /\ rx'.at = "spin" => rx.at = "spin"
    BY DEF Inv, PoolSuffices, TypeOK, FrameNo, MayArrive, AddBaFail, vars, window,
       timing, agreement, peer, past
  <2>3. /\ pool' \in 0 .. NodeNum /\ lost' \in 0 .. NodeNum
        /\ conns' \in 0 .. MaxConn /\ bas' \in 0 .. MaxBa
        /\ first' \in Nat /\ sent' \in 0 .. MaxSent
        /\ last' \in 0 .. MaxSent /\ seen' \in 0 .. MaxSent
        /\ pool' + Len(pend') + lost' = NodeNum
        /\ lost' >= lost
    BY WindowAssumption DEF Inv, PoolSuffices, TypeOK, FrameNo, MayArrive,
       AddBaFail, vars, window, timing, agreement, peer, past
  <2>4. QED
    BY <2>1, <2>2, <2>3 DEF Inv, PoolSuffices, TypeOK
<1>2. HeldInWindow'
  BY DEF Inv, HeldInWindow, Ahead, Unlocked, AddBaFail, vars, window, timing,
     agreement, peer, past
<1>3. Bounds'
  BY WindowAssumption, Sizes DEF Inv, Bounds, PoolSuffices, TypeOK, FrameNo,
     MayArrive, AddBaFail, vars, window, timing, agreement, peer, past
<1>4. Agreed'
  BY DEF Inv, Agreed, Bounds, PoolSuffices, TypeOK, FrameNo, MayArrive, Unlocked,
     AddBaFail, vars, window, timing, agreement, peer, past
<1>5. InStep'
  <2>1. SUFFICES ASSUME ~stale', ind' # Unset, Unlocked'
                 PROVE  \E T \in 1 .. MaxSent + 1 : Fits(T)'
    BY DEF InStep
  <2>2. ~stale /\ ind # Unset /\ Unlocked /\ ind' = ind /\ pend' = pend
    BY <2>1 DEF Unlocked, AddBaFail, vars, window, timing, agreement, peer, past
  <2>3. PICK T \in 1 .. MaxSent + 1 : Fits(T)
    BY <2>2, Zenon DEF Inv, InStep
  <2>4. (\A j \in 1 .. Len(pend) : pend[j] - T = Ahead(pend[j]))'
    BY <2>2, <2>3, Zenon DEF Fits, Ahead
  <2>5. Fits(T)'
    BY <2>2, <2>3, <2>4, Sizes DEF Inv, Bounds, Agreed, Unlocked, PoolSuffices,
       TypeOK, Fits, FrameNo, MayArrive, AddBaFail, vars, window, timing,
       agreement, peer, past
  <2>6. QED
    BY <2>5
<1>6. QED
  BY <1>1, <1>2, <1>3, <1>4, <1>5 DEF Inv

(* core_conn_maintain_deauth_thrd detaches the window. *)
LEMMA DetachInv ==
    ASSUME Inv, Detach
    PROVE  Inv'
<1>1. PoolSuffices'
  <2>1. /\ attached' \in BOOLEAN /\ enable' \in BOOLEAN /\ timer' \in BOOLEAN
        /\ fired' \in BOOLEAN /\ stale' \in BOOLEAN
    BY Zenon DEF Inv, PoolSuffices, TypeOK, Detach, vars, window, timing,
       agreement, peer, past
  <2>2. /\ ind' \in SeqNum \cup {Unset} /\ pend' \in Seq(FrameNo) /\ up' \in Seq(FrameNo)
        /\ mlme' \in {"idle", "preconnect", "maintain"}
        /\ rx' \in [at : {"idle", "core", "spin", "oops"}, no : 0 .. MaxSent]
        /\ rx'.at = "spin" => rx.at = "spin"
    BY DEF Inv, PoolSuffices, TypeOK, FrameNo, MayArrive, Detach, vars, window,
       timing, agreement, peer, past
  <2>3. /\ pool' \in 0 .. NodeNum /\ lost' \in 0 .. NodeNum
        /\ conns' \in 0 .. MaxConn /\ bas' \in 0 .. MaxBa
        /\ first' \in Nat /\ sent' \in 0 .. MaxSent
        /\ last' \in 0 .. MaxSent /\ seen' \in 0 .. MaxSent
        /\ pool' + Len(pend') + lost' = NodeNum
        /\ lost' >= lost
    BY WindowAssumption DEF Inv, PoolSuffices, TypeOK, FrameNo, MayArrive, Detach,
       vars, window, timing, agreement, peer, past
  <2>4. QED
    BY <2>1, <2>2, <2>3 DEF Inv, PoolSuffices, TypeOK
<1>2. HeldInWindow'
  BY DEF Inv, HeldInWindow, Ahead, Unlocked, Detach, vars, window, timing,
     agreement, peer, past
<1>3. Bounds'
  BY WindowAssumption, Sizes DEF Inv, Bounds, PoolSuffices, TypeOK, FrameNo,
     MayArrive, Detach, vars, window, timing, agreement, peer, past
<1>4. Agreed'
  BY DEF Inv, Agreed, Bounds, PoolSuffices, TypeOK, FrameNo, MayArrive, Unlocked,
     Detach, vars, window, timing, agreement, peer, past
<1>5. InStep'
  BY Zenon DEF InStep, Detach
<1>6. QED
  BY <1>1, <1>2, <1>3, <1>4, <1>5 DEF Inv

(* core_conn_preconnect fails, with the window attached. *)
LEMMA PreconnectFailInv ==
    ASSUME Inv, PreconnectFail
    PROVE  Inv'
<1>1. PoolSuffices'
  <2>1. /\ attached' \in BOOLEAN /\ enable' \in BOOLEAN /\ timer' \in BOOLEAN
        /\ fired' \in BOOLEAN /\ stale' \in BOOLEAN
    BY Zenon DEF Inv, PoolSuffices, TypeOK, PreconnectFail, vars, window, timing,
       agreement, peer, past
  <2>2. /\ ind' \in SeqNum \cup {Unset} /\ pend' \in Seq(FrameNo) /\ up' \in Seq(FrameNo)
        /\ mlme' \in {"idle", "preconnect", "maintain"}
        /\ rx' \in [at : {"idle", "core", "spin", "oops"}, no : 0 .. MaxSent]
        /\ rx'.at = "spin" => rx.at = "spin"
    BY DEF Inv, PoolSuffices, TypeOK, FrameNo, MayArrive, PreconnectFail, vars, window,
       timing, agreement, peer, past
  <2>3. /\ pool' \in 0 .. NodeNum /\ lost' \in 0 .. NodeNum
        /\ conns' \in 0 .. MaxConn /\ bas' \in 0 .. MaxBa
        /\ first' \in Nat /\ sent' \in 0 .. MaxSent
        /\ last' \in 0 .. MaxSent /\ seen' \in 0 .. MaxSent
        /\ pool' + Len(pend') + lost' = NodeNum
        /\ lost' >= lost
    BY WindowAssumption DEF Inv, PoolSuffices, TypeOK, FrameNo, MayArrive, PreconnectFail,
       vars, window, timing, agreement, peer, past
  <2>4. QED
    BY <2>1, <2>2, <2>3 DEF Inv, PoolSuffices, TypeOK
<1>2. HeldInWindow'
  BY DEF Inv, HeldInWindow, Ahead, Unlocked, PreconnectFail, vars, window, timing,
     agreement, peer, past
<1>3. Bounds'
  BY WindowAssumption, Sizes DEF Inv, Bounds, PoolSuffices, TypeOK, FrameNo,
     MayArrive, PreconnectFail, vars, window, timing, agreement, peer, past
<1>4. Agreed'
  BY DEF Inv, Agreed, Bounds, PoolSuffices, TypeOK, FrameNo, MayArrive, Unlocked,
     PreconnectFail, vars, window, timing, agreement, peer, past
<1>5. InStep'
  <2>1. SUFFICES ASSUME ~stale', ind' # Unset, Unlocked'
                 PROVE  \E T \in 1 .. MaxSent + 1 : Fits(T)'
    BY DEF InStep
  <2>2. ~stale /\ ind # Unset /\ Unlocked /\ ind' = ind /\ pend' = pend
    BY <2>1 DEF Unlocked, PreconnectFail, vars, window, timing, agreement, peer, past
  <2>3. PICK T \in 1 .. MaxSent + 1 : Fits(T)
    BY <2>2, Zenon DEF Inv, InStep
  <2>4. (\A j \in 1 .. Len(pend) : pend[j] - T = Ahead(pend[j]))'
    BY <2>2, <2>3, Zenon DEF Fits, Ahead
  <2>5. Fits(T)'
    BY <2>2, <2>3, <2>4, Sizes DEF Inv, Bounds, Agreed, Unlocked, PoolSuffices,
       TypeOK, Fits, FrameNo, MayArrive, PreconnectFail, vars, window, timing,
       agreement, peer, past
  <2>6. QED
    BY <2>5
<1>6. QED
  BY <1>1, <1>2, <1>3, <1>4, <1>5 DEF Inv

-----------------------------------------------------------------------------
(* The steps of the receive thread in the window.  Seen from the number it   *)
(* compares with, the held frames are in order within the window.            *)
LEMMA CoreFacts ==
    ASSUME Inv, rx.at = "core"
    PROVE  LET i == CoreInd(rx.no)
           IN  /\ rx.no \in FrameNo /\ SnOf(rx.no) \in SeqNum /\ i \in SeqNum
               /\ pend \in Seq(FrameNo) /\ Len(pend) \in Nat
               /\ Off(rx.no, i) \in Nat
               /\ InOrder(pend, i, WSize - 1) /\ InOrder(pend, i, Half - 1)
               /\ \A j \in 1 .. Len(pend) : Off(pend[j], i) \in 1 .. WSize - 1
               /\ ind = Unset => pend = << >> /\ Off(rx.no, i) = 0
<1> DEFINE i == CoreInd(rx.no)
<1>1. rx.no \in FrameNo /\ pend \in Seq(FrameNo) /\ Unlocked
  BY DEF Inv, PoolSuffices, TypeOK, Bounds, FrameNo, Unlocked
<1>2. Len(pend) \in Nat
  BY <1>1, LenProperties
<1>3. SnOf(rx.no) \in SeqNum
  BY <1>1, SnOfType DEF FrameNo
<1>4. i \in SeqNum
  BY <1>3 DEF CoreInd, Inv, PoolSuffices, TypeOK
<1>5. Off(rx.no, i) \in Nat
  BY <1>1, <1>4, OffType, Zenon
<1>6. ind = Unset => pend = << >> /\ Off(rx.no, i) = 0
  BY <1>1, <1>3, DiffFacts DEF Inv, HeldInWindow, CoreInd, Off
<1>7. \A j \in 1 .. Len(pend) : Off(pend[j], i) \in 1 .. WSize - 1
  <2>1. CASE ind = Unset
    BY <1>6, <2>1
  <2>2. CASE ind # Unset
    BY <1>1, <2>2, Zenon DEF Inv, HeldInWindow, CoreInd, Off, Ahead
  <2>3. QED
    BY <2>1, <2>2
<1>8. \A j, k \in 1 .. Len(pend) : j < k => Off(pend[j], i) < Off(pend[k], i)
  BY <1>1, <1>6 DEF Inv, HeldInWindow, CoreInd, Off, Ahead
<1> HIDE DEF i
<1>9. InOrder(pend, i, WSize - 1) /\ InOrder(pend, i, Half - 1)
  BY <1>7, <1>8, Sizes DEF InOrder
<1>10. QED
  BY <1>1, <1>2, <1>3, <1>4, <1>5, <1>6, <1>7, <1>9, Zenon DEF i

(* A frame that is dropped does not move the window. *)
LEMMA CoreDropFacts ==
    ASSUME Inv, CoreDrop
    PROVE  /\ ind # Unset /\ ind' = ind
           /\ \/ Off(rx.no, ind) >= Half
              \/ \E j \in 1 .. Len(pend) : SnOf(pend[j]) = SnOf(rx.no)
<1> DEFINE i == CoreInd(rx.no)
           s == SnOf(rx.no)
<1>1. /\ rx.no \in FrameNo /\ s \in SeqNum /\ i \in SeqNum
      /\ pend \in Seq(FrameNo) /\ Len(pend) \in Nat
      /\ Off(rx.no, i) \in Nat
      /\ InOrder(pend, i, Half - 1)
      /\ \A j \in 1 .. Len(pend) : Off(pend[j], i) \in 1 .. WSize - 1
      /\ ind = Unset => pend = << >> /\ Off(rx.no, i) = 0
  BY CoreFacts, Zenon DEF CoreDrop
<1>2. /\ ~Chk(i, s).keep \/ IsDup(pend, s)
      /\ ind' = Chk(i, s).ind
  BY Zenon DEF CoreDrop
<1>3. /\ Chk(i, s).keep <=> Diff(s, i) < Half
      /\ Diff(s, i) \in 1 .. WSize - 1 => Chk(i, s).ind = i
      /\ Diff(s, i) >= Half => Chk(i, s).ind = i
  BY <1>1, ChkValue
<1>4. ind # Unset => i = ind
  BY DEF CoreInd
<1>5. Off(rx.no, i) = Diff(s, i)
  BY DEF Off
<1>6. CASE Diff(s, i) >= Half
  <2>1. ind # Unset
    BY <1>1, <1>5, <1>6, Sizes
  <2>2. QED
    BY <2>1, <1>2, <1>3, <1>4, <1>5, <1>6
<1>7. CASE Diff(s, i) < Half
  <2>1. IsDup(pend, s)
    BY <1>2, <1>3, <1>7
  <2>2. PICK j \in 1 .. Len(pend) : SnOf(pend[j]) = s
    BY <1>1, <1>7, <2>1, PlaceProperties, Zenon
  <2>3. Diff(s, i) \in 1 .. WSize - 1
    BY <1>1, <2>2 DEF Off
  <2>4. ind # Unset
    BY <1>1, <2>2
  <2>5. QED
    BY <1>2, <1>3, <1>4, <2>2, <2>3, <2>4
<1>8. QED
  BY <1>1, <1>5, <1>6, <1>7, Sizes

(* wf_rx_data_reorder_core drops a frame. *)
LEMMA CoreDropInv ==
    ASSUME Inv, CoreDrop
    PROVE  Inv'
<1>0. ind # Unset /\ ind' = ind
  BY CoreDropFacts
<1>1. /\ rx' = NoFrame /\ pend' = pend /\ pool' = pool /\ lost' = lost /\ up' = << >>
      /\ last' = last /\ seen' = seen /\ sent' = sent /\ first' = first
      /\ UNCHANGED << timer, fired, attached, enable, mlme, conns, bas >>
      /\ stale' = (stale \/ ~enable \/ rx.no < first)
  BY DEF CoreDrop, timing, agreement, peer
<1>2. PoolSuffices'
  <2>1. /\ attached' \in BOOLEAN /\ enable' \in BOOLEAN /\ timer' \in BOOLEAN
        /\ fired' \in BOOLEAN /\ stale' \in BOOLEAN
    BY <1>1, Zenon DEF Inv, PoolSuffices, TypeOK
  <2>2. rx' \in [at : {"idle", "core", "spin", "oops"}, no : 0 .. MaxSent] /\ rx'.at # "spin"
    BY <1>1, WindowAssumption DEF NoFrame
  <2>3. up' \in Seq(FrameNo)
    BY <1>1
  <2>4. QED
    BY <1>0, <1>1, <2>1, <2>2, <2>3, Zenon DEF Inv, PoolSuffices, TypeOK
<1>3. Unlocked
  BY DEF CoreDrop, Unlocked
<1>4. HeldInWindow'
  BY <1>0, <1>1, <1>3 DEF Inv, HeldInWindow, Ahead
<1>5. Bounds'
  BY <1>1 DEF Inv, Bounds, PoolSuffices, TypeOK, NoFrame
<1>6. ~stale' => ~stale /\ enable
  BY <1>1
<1>7. Agreed'
  BY <1>0, <1>1, <1>6 DEF Inv, Agreed, NoFrame
<1>8. InStep'
  <2>1. SUFFICES ASSUME ~stale' PROVE \E T \in 1 .. MaxSent + 1 : Fits(T)'
    BY DEF InStep
  <2>2. PICK T \in 1 .. MaxSent + 1 : Fits(T)
    BY <1>0, <1>3, <1>6, <2>1, Zenon DEF Inv, InStep
  <2>3. (\A j \in 1 .. Len(pend) : pend[j] - T = Ahead(pend[j]))'
    BY <1>0, <1>1, <2>2, Zenon DEF Fits, Ahead
  <2>4. Fits(T)'
    BY <1>0, <1>1, <2>2, <2>3 DEF Fits, NoFrame
  <2>5. QED
    BY <2>4
<1>9. QED
  BY <1>2, <1>4, <1>5, <1>7, <1>8 DEF Inv

(* The pool can only be empty if nodes were lost: in the window there is     *)
(* room for fewer frames than there are nodes.                               *)
LEMMA CoreSpinInv ==
    ASSUME Inv, CoreSpin
    PROVE  Inv'
<1> DEFINE i == CoreInd(rx.no)
           s == SnOf(rx.no)
<1>1. /\ rx.no \in FrameNo /\ s \in SeqNum /\ i \in SeqNum
      /\ pend \in Seq(FrameNo) /\ Len(pend) \in Nat
      /\ InOrder(pend, i, WSize - 1)
      /\ \A j \in 1 .. Len(pend) : Off(pend[j], i) \in 1 .. WSize - 1
  BY CoreFacts, Zenon DEF CoreSpin
<1>2. Len(pend) <= WSize - 1
  <2>1. \A j \in 1 .. Len(pend) : Off(pend[j], i) >= 1
    BY <1>1
  <2>2. QED
    BY <1>1, <2>1, InOrderLength, Zenon
<1>3. lost > 0
  <2>1. pool = 0
    BY Zenon DEF CoreSpin
  <2>2. pool + Len(pend) + lost = NodeNum /\ lost \in Nat
    BY DEF Inv, PoolSuffices, TypeOK
  <2>3. QED
    BY <1>1, <1>2, <2>1, <2>2, WindowAssumption
<1>4. ind' \in SeqNum /\ ind' # Unset
  <2>1. ind' = Chk(i, s).ind
    BY Zenon DEF CoreSpin
  <2>2. QED
    BY <1>1, <2>1, ChkValue, Sizes DEF SeqNum, Unset
<1>5. /\ rx' = [rx EXCEPT !.at = "spin"] /\ up' = << >>
      /\ UNCHANGED << pend, pool, lost, timer, fired, attached, enable, mlme, conns, bas,
                      first, sent, last, seen, stale >>
  BY DEF CoreSpin, timing, agreement, peer, past
<1>6. rx'.at = "spin" /\ rx'.no = rx.no
      /\ rx' \in [at : {"idle", "core", "spin", "oops"}, no : 0 .. MaxSent]
  BY <1>5 DEF Inv, PoolSuffices, TypeOK
<1>7. PoolSuffices'
  <2>1. up' \in Seq(FrameNo)
    BY <1>5
  <2>2. QED
    BY <1>3, <1>4, <1>5, <1>6, <2>1, Zenon DEF Inv, PoolSuffices, TypeOK
<1>8. HeldInWindow' /\ InStep'
  BY <1>6 DEF HeldInWindow, InStep, Unlocked
<1>9. Bounds'
  BY <1>5, <1>6 DEF Inv, Bounds
<1>10. Agreed'
  BY <1>4, <1>5, <1>6 DEF Inv, Agreed, Unlocked
<1>11. QED
  BY <1>7, <1>8, <1>9, <1>10 DEF Inv

(* The true number behind the one the receive thread compares with, and the  *)
(* true place of its frame.                                                  *)
LEMMA CoreTrue ==
    ASSUME Inv, rx.at = "core", ~stale, Off(rx.no, CoreInd(rx.no)) < Half
    PROVE  \E T \in Nat :
            /\ SnOf(T) = CoreInd(rx.no)
            /\ rx.no - T = Off(rx.no, CoreInd(rx.no))
            /\ \A j \in 1 .. Len(pend) : pend[j] - T = Off(pend[j], CoreInd(rx.no))
            /\ last < T
            /\ IF ind = Unset THEN T = rx.no ELSE Fits(T)
<1>1. /\ rx.no \in FrameNo
      /\ ind = Unset => pend = << >> /\ Off(rx.no, CoreInd(rx.no)) = 0
  BY CoreFacts, Zenon
<1>2. CASE ind = Unset
  <2>1. rx.no \in Nat /\ rx.no - rx.no = 0 /\ last < rx.no
    BY <1>1, <1>2 DEF FrameNo, Inv, Agreed
  <2>2. SnOf(rx.no) = CoreInd(rx.no)
    BY <1>2 DEF CoreInd
  <2>3. \A j \in 1 .. Len(pend) : FALSE
    BY <1>1, <1>2
  <2>4. QED
    BY <1>1, <1>2, <2>1, <2>2, <2>3, Zenon
<1>3. CASE ind # Unset
  <2>1. PICK T \in 1 .. MaxSent + 1 : Fits(T)
    BY <1>3, Zenon DEF Inv, InStep, Unlocked
  <2>2. T \in Nat /\ rx.no \in Nat /\ CoreInd(rx.no) = ind
    BY <1>1, <1>3, WindowAssumption DEF FrameNo, CoreInd
  <2>3. /\ SnOf(T) = ind /\ last < T /\ sent - last <= Half /\ T <= rx.no + WSize
        /\ \A j \in 1 .. Len(pend) : pend[j] - T = Off(pend[j], ind)
    BY <2>1, Zenon DEF Fits, Ahead, Off
  <2>4. sent \in Nat /\ last \in Nat /\ rx.no <= sent
    BY DEF Inv, PoolSuffices, TypeOK, Bounds
  <2>5. Off(rx.no, ind) = Diff(SnOf(rx.no), SnOf(T))
    BY <2>3 DEF Off
  <2>6. rx.no >= T
    <3>1. SUFFICES ASSUME rx.no < T PROVE FALSE
      BY <2>2
    <3>2. T - rx.no < SnMod /\ T - rx.no <= WSize
      BY <3>1, <2>2, <2>3, Sizes
    <3>3. Off(rx.no, ind) = SnMod - (T - rx.no)
      BY <3>1, <3>2, <2>2, <2>5, SnAhead
    <3>4. QED
      BY <3>2, <3>3, <2>2, Sizes
  <2>7. rx.no - T < SnMod
    BY <2>2, <2>3, <2>4, Sizes
  <2>8. Off(rx.no, ind) = rx.no - T
    BY <2>2, <2>5, <2>6, <2>7, SnAhead
  <2>9. QED
    BY <1>3, <2>1, <2>2, <2>3, <2>8, Zenon
<1>4. QED
  BY <1>2, <1>3

(* A frame that is kept: the list it makes with the held frames, and the     *)
(* upload that follows.                                                      *)
Kept(q, g) ==
    LET i == CoreInd(rx.no)
    IN  /\ Off(rx.no, i) < Half
        /\ Len(q) = Len(pend) + 1
        /\ InOrder(q, i, Half - 1)
        /\ \A j \in 1 .. Len(q) : q[j] = rx.no \/ \E k \in 1 .. Len(pend) : q[j] = pend[k]
        /\ \E j \in 1 .. Len(q) : q[j] = rx.no
        /\ \/ Off(rx.no, i) = 0 /\ Diff(g, i) = 1
           \/ Off(rx.no, i) \in 1 .. WSize - 1 /\ Diff(g, i) = 0
           \/ WSize <= Off(rx.no, i) /\ Diff(g, i) = Off(rx.no, i) - WSize + 1
        /\ Diff(g, i) < Half
        /\ \A j \in 1 .. Len(q) : Off(q[j], i) - Diff(g, i) <= WSize - 1

(* CoreKeep is such a step. *)
LEMMA CoreKeepFacts ==
    ASSUME Inv, CoreKeep
    PROVE  \E q \in Seq(FrameNo), g \in SeqNum : Kept(q, g) /\ Upload(q, g, pool - 1)
<1> DEFINE n == rx.no
           i == CoreInd(n)
           s == SnOf(n)
           q == Enqueue(pend, n)
           g == Chk(i, s).ind
<1>1. /\ n \in FrameNo /\ s \in SeqNum /\ i \in SeqNum
      /\ pend \in Seq(FrameNo) /\ Len(pend) \in Nat
      /\ Off(n, i) \in Nat
      /\ InOrder(pend, i, Half - 1)
      /\ \A j \in 1 .. Len(pend) : Off(pend[j], i) \in 1 .. WSize - 1
  BY CoreFacts, Zenon DEF CoreKeep
<1>2. /\ Chk(i, s).keep /\ ~IsDup(pend, s)
      /\ Upload(q, g, pool - 1)
  BY Zenon DEF CoreKeep
<1>3. /\ Chk(i, s).keep <=> Off(n, i) < Half
      /\ g \in SeqNum
      /\ Off(n, i) = 0 => Diff(g, i) = 1
      /\ Off(n, i) \in 1 .. WSize - 1 => g = i
      /\ WSize <= Off(n, i) /\ Off(n, i) < Half => Diff(g, i) = Off(n, i) - WSize + 1
  BY <1>1, ChkValue DEF Off
<1>4. Off(n, i) < Half
  BY <1>2, <1>3
<1> HIDE DEF q
<1>5. /\ q \in Seq(FrameNo)
      /\ Len(q) = Len(pend) + 1
      /\ InOrder(q, i, Half - 1)
      /\ \A j \in 1 .. Len(pend) + 1 : q[j] = n \/ \E k \in 1 .. Len(pend) : q[j] = pend[k]
      /\ \E j \in 1 .. Len(pend) + 1 : q[j] = n
  <2>1. Half - 1 \in 0 .. Half - 1 /\ Off(n, i) <= Half - 1
    BY <1>1, <1>4, Sizes
  <2>2. QED
    BY <1>1, <1>2, <2>1, EnqueueProperties, Zenon DEF q
<1>6. \/ Off(n, i) = 0 /\ Diff(g, i) = 1
      \/ Off(n, i) \in 1 .. WSize - 1 /\ Diff(g, i) = 0
      \/ WSize <= Off(n, i) /\ Diff(g, i) = Off(n, i) - WSize + 1
  <2>1. Diff(i, i) = 0
    BY <1>1, DiffFacts
  <2>2. \/ Off(n, i) = 0 \/ Off(n, i) \in 1 .. WSize - 1 \/ WSize <= Off(n, i)
    BY <1>1, Sizes
  <2>3. QED
    BY <1>3, <1>4, <2>1, <2>2, Zenon
<1> HIDE DEF g, i, s
<1>7. Diff(g, i) < Half
  BY <1>1, <1>4, <1>6, Sizes
<1>8. \A j \in 1 .. Len(q) : Off(q[j], i) - Diff(g, i) <= WSize - 1
  <2> TAKE j \in 1 .. Len(q)
  <2>1. CASE q[j] = n
    BY <2>1, <1>1, <1>6, Sizes
  <2>2. ASSUME NEW k \in 1 .. Len(pend), q[j] = pend[k]
        PROVE  Off(q[j], i) - Diff(g, i) <= WSize - 1
    <3>1. Off(pend[k], i) \in 1 .. WSize - 1
      BY <1>1
    <3>2. QED
      BY <3>1, <2>2, <1>1, <1>6, Sizes
  <2>3. QED
    BY <1>5, <2>1, <2>2
<1>9. Kept(q, g)
  BY <1>4, <1>5, <1>6, <1>7, <1>8, Zenon DEF Kept, i
<1>10. QED
  BY <1>2, <1>3, <1>5, <1>9, Zenon DEF g, i, s, q

(* wf_rx_data_reorder_core keeps a frame and uploads what has become due.   *)
(* The true number moves with indicate_seq; which of the three cases of      *)
(* rx_do_chk_expect_seq it was decides why it is not too far.                *)
LEMMA CoreKeepInv ==
    ASSUME Inv, CoreKeep
    PROVE  Inv'
<1>1. PICK q \in Seq(FrameNo), g \in SeqNum : Kept(q, g) /\ Upload(q, g, pool - 1)
  BY CoreKeepFacts, Zenon
<1>2. PICK n \in FrameNo : n = rx.no
  BY CoreFacts DEF CoreKeep
<1>3. PICK i \in SeqNum : i = CoreInd(n)
  BY <1>2, CoreFacts, Zenon DEF CoreKeep
<1>4. /\ Off(n, i) < Half
      /\ Len(q) = Len(pend) + 1
      /\ InOrder(q, i, Half - 1)
      /\ \A j \in 1 .. Len(q) : q[j] = n \/ \E k \in 1 .. Len(pend) : q[j] = pend[k]
      /\ \E j \in 1 .. Len(q) : q[j] = n
      /\ \/ Off(n, i) = 0 /\ Diff(g, i) = 1
         \/ Off(n, i) \in 1 .. WSize - 1 /\ Diff(g, i) = 0
         \/ WSize <= Off(n, i) /\ Diff(g, i) = Off(n, i) - WSize + 1
      /\ Diff(g, i) < Half
      /\ \A j \in 1 .. Len(q) : Off(q[j], i) - Diff(g, i) <= WSize - 1
  BY <1>1, <1>2, <1>3, Zenon DEF Kept
<1>5. pool \in Int /\ pool - 1 \in Int
  BY DEF Inv, PoolSuffices, TypeOK
<1>6. PICK k \in 0 .. Len(q), x \in Nat : Uploaded(q, i, g, k, x) /\ pool' = (pool - 1) + k
  BY <1>1, <1>4, <1>5, UploadShape, Zenon
<1>7. /\ rx.at = "core" /\ rx' = NoFrame
      /\ seen' = (IF n > seen THEN n ELSE seen)
      /\ timer' = (timer \/ pend' # << >>)
      /\ stale' = (stale \/ ~enable \/ n < first)
      /\ UNCHANGED << lost, fired, attached, enable, mlme, conns, bas, first, sent >>
      /\ attached /\ pool > 0
  BY <1>2 DEF CoreKeep, agreement, peer
<1>8. /\ sent \in Nat /\ sent <= MaxSent /\ seen \in Nat /\ seen <= sent /\ last \in Nat /\ last <= sent
      /\ n \in Nat /\ n >= 1 /\ n <= sent /\ first \in Nat
      /\ Len(q) \in Nat /\ Len(pend) \in Nat /\ k \in Nat
  <2>1. Len(q) \in Nat /\ Len(pend) \in Nat
    BY LenProperties, Zenon DEF Inv, PoolSuffices, TypeOK
  <2>2. QED
    BY <1>2, <2>1 DEF Inv, PoolSuffices, TypeOK, Bounds, FrameNo
<1>9. \A j \in 1 .. Len(q) : q[j] \in Nat /\ q[j] >= 1 /\ q[j] <= sent
  <2> TAKE j \in 1 .. Len(q)
  <2>1. q[j] \in FrameNo
    BY ElementOfSeq, Zenon
  <2>2. q[j] <= sent
    BY <1>4, <1>8 DEF Inv, Bounds
  <2>3. QED
    BY <2>1, <2>2 DEF FrameNo
<1>10. k > 0 => k \in 1 .. Len(q)
  BY <1>8
<1>11. /\ last' = (IF k = 0 THEN last ELSE q[k])
       /\ last' \in Nat /\ last' <= sent
  <2>1. last' = (IF k = 0 THEN last ELSE q[k])
    BY <1>6, Zenon DEF Uploaded
  <2>2. QED
    BY <2>1, <1>8, <1>9, <1>10
<1>12. /\ ind' \in SeqNum /\ ind' # Unset
       /\ pend' \in Seq(FrameNo) /\ Len(pend') = Len(q) - k
       /\ up' \in Seq(FrameNo)
       /\ \A j \in 1 .. Len(pend') : k + j \in 1 .. Len(q) /\ pend'[j] = q[k + j]
  <2>1. ind' \in SeqNum /\ pend' \in Seq(FrameNo) /\ Len(pend') = Len(q) - k /\ up' \in Seq(FrameNo)
        /\ \A j \in 1 .. Len(pend') : k + j \in 1 .. Len(q) /\ pend'[j] = q[k + j]
    BY <1>6, Zenon DEF Uploaded
  <2>2. QED
    BY <2>1, Sizes DEF SeqNum, Unset
<1>13. PoolSuffices'
  <2>1. /\ attached' \in BOOLEAN /\ enable' \in BOOLEAN /\ timer' \in BOOLEAN
        /\ fired' \in BOOLEAN /\ stale' \in BOOLEAN
    BY <1>7, Zenon DEF Inv, PoolSuffices, TypeOK
  <2>2. rx' \in [at : {"idle", "core", "spin", "oops"}, no : 0 .. MaxSent] /\ rx'.at # "spin"
    BY <1>7, WindowAssumption DEF NoFrame
  <2>3. pool' + Len(pend') + lost' = NodeNum /\ pool' \in 0 .. NodeNum /\ lost' \in 0 .. NodeNum
    <3>1. /\ pool \in 0 .. NodeNum /\ lost \in 0 .. NodeNum
          /\ pool + Len(pend) + lost = NodeNum
      BY Zenon DEF Inv, PoolSuffices, TypeOK
    <3>2. /\ pool' = (pool - 1) + k /\ lost' = lost /\ pool > 0
          /\ Len(pend') = Len(q) - k /\ Len(q) = Len(pend) + 1
      BY <1>4, <1>6, <1>7, <1>12, Zenon
    <3>3. QED
      BY <3>1, <3>2, <1>8
  <2>4. seen' \in 0 .. MaxSent /\ last' \in 0 .. MaxSent
    BY <1>7, <1>8, <1>11, WindowAssumption
  <2>5. QED
    BY <1>7, <1>12, <2>1, <2>2, <2>3, <2>4, Zenon DEF Inv, PoolSuffices, TypeOK
<1>14. HeldInWindow'
  BY <1>4, <1>6, UploadHeld, Zenon
<1>15. Bounds'
  BY <1>7, <1>8, <1>9, <1>11, <1>12 DEF Bounds, NoFrame
<1>16. ~stale' => ~stale /\ enable /\ n >= first
  <2>1. ~stale' => ~stale /\ enable /\ ~(n < first)
    BY <1>7, Zenon
  <2>2. QED
    BY <2>1, <1>8
<1>17. Agreed'
  BY <1>7, <1>12, <1>16 DEF Inv, Agreed, NoFrame
<1>18. ASSUME ~stale' PROVE \E T \in 1 .. MaxSent + 1 : Fits(T)'
  <2>1. PICK T \in Nat :
            /\ SnOf(T) = i
            /\ n - T = Off(n, i)
            /\ \A j \in 1 .. Len(pend) : pend[j] - T = Off(pend[j], i)
            /\ last < T
            /\ IF ind = Unset THEN T = n ELSE Fits(T)
    BY <1>2, <1>3, <1>4, <1>7, <1>16, <1>18, CoreTrue, Zenon
  <2>2. \A j \in 1 .. Len(q) : q[j] - T = Off(q[j], i)
    BY <1>4, <2>1, Zenon
  <2>3. /\ SnOf(T + x) = ind'
        /\ \A j \in 1 .. Len(pend') : pend'[j] - (T + x) = Off(pend'[j], ind')
        /\ k > 0 => T <= q[k] /\ q[k] < T + x
        /\ x = Diff(g, i) \/ (k > 0 /\ T + x = q[k] + 1)
    <3>1. i = SnOf(T)
      BY <2>1
    <3>2. QED
      <4>1. InOrder(q, i, Half - 1) /\ Uploaded(q, i, g, k, x)
        BY <1>4, <1>6
      <4>2. QED
        BY <2>2, <3>1, <4>1, UploadTrue
  <2>4. x >= Diff(g, i) /\ Off(n, i) \in Nat
    BY <1>6, OffType, Zenon DEF Uploaded
  <2>5. /\ sent' = sent /\ rx'.at = "idle" /\ seen' >= seen /\ seen' >= n /\ seen' \in Nat
    BY <1>7, <1>8 DEF NoFrame
  <2>6. Off(n, i) = 0 => k > 0
    <3>1. SUFFICES ASSUME Off(n, i) = 0, ~(k > 0) PROVE FALSE
      BY <1>8
    <3>2. PICK j \in 1 .. Len(q) : q[j] = n
      BY <1>4
    <3>3. j \in k + 1 .. Len(q)
      BY <3>1, <1>8
    <3>4. x < Off(q[j], i)
      BY <1>6, <3>3, Zenon DEF Uploaded
    <3>5. QED
      BY <3>1, <3>2, <3>4
  <2>7. CASE ind = Unset
    <3>1. T = n /\ Off(n, i) = 0 /\ k > 0
      BY <2>1, <2>6, <2>7, <1>8
    <3>2. sent - n <= Half
      BY <1>2, <1>7, <1>16, <1>18 DEF Inv, Bounds
    <3>3. last' # 0 /\ last' < T + x /\ sent - last' <= Half /\ last' >= n
      BY <3>1, <3>2, <2>3, <1>8, <1>9, <1>10, <1>11, Sizes
    <3>4. Diff(g, i) = 1
      BY <1>4, <3>1, Sizes
    <3>5. T + x <= last' + 1 /\ T + x <= sent + 1
      BY <3>1, <3>3, <3>4, <2>3, <1>8, <1>9, <1>10, <1>11
    <3>6. T + x \in 1 .. MaxSent + 1
      BY <3>1, <3>5, <1>8, WindowAssumption
    <3>7. Fits(T + x)'
      BY <3>3, <3>5, <2>3, <2>5, Zenon DEF Fits, Ahead, Off
    <3>8. QED
      BY <3>6, <3>7, Zenon
  <2>8. CASE ind # Unset
    <3>1. /\ last # 0 /\ last < T /\ T <= sent + 1 /\ sent - last <= Half
          /\ T <= last + 1 \/ T + WSize <= seen + 1
      BY <2>1, <2>8, Zenon DEF Fits
    <3>2. last' # 0 /\ last' < T + x /\ sent - last' <= Half
      BY <3>1, <2>3, <1>8, <1>9, <1>10, <1>11, Sizes
    <3>3. T + x <= sent + 1
      <4>1. CASE k > 0 /\ T + x = q[k] + 1
        BY <4>1, <1>8, <1>9, <1>10
      <4>2. CASE x = Diff(g, i)
        <5>1. \/ Off(n, i) = 0 /\ Diff(g, i) = 1
              \/ Off(n, i) \in 1 .. WSize - 1 /\ Diff(g, i) = 0
              \/ WSize <= Off(n, i) /\ Diff(g, i) = Off(n, i) - WSize + 1
          BY <1>4, Zenon
        <5>2. n - T = Off(n, i)
          BY <2>1
        <5>3. QED
          BY <4>2, <5>1, <5>2, <3>1, <2>4, <1>8, Sizes, SMTT(40)
      <4>3. QED
        BY <2>3, <4>1, <4>2
    <3>4. T + x <= last' + 1 \/ (T + x) + WSize <= seen' + 1
      <4>1. CASE k > 0 /\ T + x = q[k] + 1
        BY <4>1, <1>8, <1>9, <1>10, <1>11
      <4>2. CASE x = Diff(g, i) /\ Off(n, i) = 0 /\ Diff(g, i) = 1
        BY <4>2, <2>3, <2>6, <1>8, <1>9, <1>10, <1>11
      <4>3. CASE x = Diff(g, i) /\ Off(n, i) \in 1 .. WSize - 1 /\ Diff(g, i) = 0
        <5>1. x = 0
          BY <4>3
        <5>2. k = 0
          BY <5>1, <2>3, <1>8, <1>9, <1>10
        <5>3. last' = last /\ T + x = T
          BY <5>1, <5>2, <1>11
        <5>4. CASE T <= last + 1
          BY <5>3, <5>4
        <5>5. CASE T + WSize <= seen + 1
          <6>1. seen' >= seen /\ seen' \in Nat /\ seen \in Nat /\ WSize \in Nat
            BY <2>5, <1>8, Sizes
          <6>2. PICK a \in Nat, b \in Nat, c \in Nat : a = T + WSize /\ b = seen /\ c = seen'
            BY <6>1
          <6>3. a <= b + 1 /\ c >= b
            BY <5>5, <6>1, <6>2, Zenon
          <6>4. a <= c + 1
            BY <6>3
          <6>5. QED
            BY <5>3, <6>2, <6>4
        <5>6. QED
          BY <3>1, <5>4, <5>5, Zenon
      <4>4. CASE x = Diff(g, i) /\ WSize <= Off(n, i) /\ Diff(g, i) = Off(n, i) - WSize + 1
        <5>1. n - T = Off(n, i) /\ x = Off(n, i) - WSize + 1
          BY <4>4, <2>1
        <5>2. (T + x) + WSize = n + 1
          BY <5>1, <2>4, <1>8, Sizes, SMTT(40)
        <5>3. QED
          BY <5>2, <2>5, <1>8
      <4>5. QED
        BY <4>1, <4>2, <4>3, <4>4, <1>4, <2>3, Zenon
    <3>5. T + x \in 1 .. MaxSent + 1
      BY <3>2, <3>3, <1>8, <1>11, WindowAssumption
    <3>6. Fits(T + x)'
      BY <3>2, <3>3, <3>4, <2>3, <2>5, Zenon DEF Fits, Ahead, Off
    <3>7. QED
      BY <3>5, <3>6, Zenon
  <2>9. QED
    BY <2>7, <2>8
<1>19. InStep'
  BY <1>18 DEF InStep
<1>20. QED
  BY <1>13, <1>14, <1>15, <1>17, <1>19 DEF Inv

(* The timeout gives up the missing frames before the first held one and     *)
(* uploads from there: at least that frame goes up.                          *)
LEMMA TimeoutFacts ==
    ASSUME Inv, Timeout, pend # << >>
    PROVE  /\ ind \in SeqNum /\ Unlocked
           /\ pend \in Seq(FrameNo) /\ Len(pend) \in Nat
           /\ SnOf(pend[1]) \in SeqNum
           /\ Off(pend[1], ind) = Diff(SnOf(pend[1]), ind)
           /\ InOrder(pend, ind, Half - 1)
           /\ Diff(SnOf(pend[1]), ind) < Half
           /\ \A j \in 1 .. Len(pend) : Off(pend[j], ind) - Diff(SnOf(pend[1]), ind) <= WSize - 1
           /\ \E k \in 1 .. Len(pend), x \in Nat :
                /\ Uploaded(pend, ind, SnOf(pend[1]), k, x)
                /\ pool' = pool + k
                /\ x = Off(pend[k], ind) + 1
<1> DEFINE i == SnOf(pend[1])
<1>1. /\ Unlocked /\ ind # Unset /\ ind \in SeqNum /\ pend \in Seq(FrameNo) /\ pool \in Int
  <2>1. Unlocked /\ ind # Unset /\ pend \in Seq(FrameNo)
    BY Zenon DEF Timeout, Inv, HeldInWindow, PoolSuffices, TypeOK
  <2>2. ind \in SeqNum
    BY <2>1, Zenon DEF Inv, PoolSuffices, TypeOK
  <2>3. pool \in Int
    BY DEF Inv, PoolSuffices, TypeOK
  <2>4. QED
    BY <2>1, <2>2, <2>3
<1>2. Len(pend) \in Nat /\ 1 \in 1 .. Len(pend)
  BY <1>1, LenProperties, EmptySeq
<1>3. pend[1] \in FrameNo
  BY <1>1, <1>2, ElementOfSeq, Zenon
<1>4. i \in SeqNum /\ Off(pend[1], ind) = Diff(i, ind)
  BY <1>1, <1>3, OffType DEF Off
<1>5. /\ \A j \in 1 .. Len(pend) : Off(pend[j], ind) \in 1 .. WSize - 1
      /\ \A j, k \in 1 .. Len(pend) : j < k => Off(pend[j], ind) < Off(pend[k], ind)
  BY <1>1, Zenon DEF Inv, HeldInWindow, Ahead, Off
<1>6. InOrder(pend, ind, Half - 1)
  BY <1>5, Sizes DEF InOrder
<1>7. Diff(i, ind) \in 1 .. WSize - 1
  BY <1>2, <1>4, <1>5
<1>8. Diff(i, ind) < Half
  BY <1>7, Sizes
<1>9. \A j \in 1 .. Len(pend) : Off(pend[j], ind) - Diff(i, ind) <= WSize - 1
  BY <1>5, <1>7, Sizes
<1>10. Upload(pend, i, pool)
  BY Zenon DEF Timeout
<1> HIDE DEF i
<1>11. PICK k \in 0 .. Len(pend), x \in Nat : Uploaded(pend, ind, i, k, x) /\ pool' = pool + k
  BY <1>1, <1>4, <1>6, <1>8, <1>10, UploadShape, Zenon
<1>12. /\ x >= Diff(i, ind)
       /\ x = Diff(i, ind) \/ (k > 0 /\ x = Off(pend[k], ind) + 1)
       /\ k > 0 => Off(pend[k], ind) < x
       /\ \A j \in k + 1 .. Len(pend) : x < Off(pend[j], ind)
  BY <1>11, Zenon DEF Uploaded
<1>13. k > 0
  <2>1. SUFFICES ASSUME k = 0 PROVE FALSE
    BY <1>2
  <2>2. x < Off(pend[1], ind)
    BY <1>2, <1>12, <2>1
  <2>3. QED
    BY <1>4, <1>7, <1>12, <2>2
<1>14. k \in 1 .. Len(pend)
  BY <1>2, <1>13
<1>15. Off(pend[1], ind) <= Off(pend[k], ind) /\ Off(pend[k], ind) \in Nat
  <2>1. Off(pend[k], ind) \in 1 .. WSize - 1 /\ Off(pend[1], ind) \in 1 .. WSize - 1
    BY <1>2, <1>5, <1>14
  <2>2. CASE k = 1
    BY <2>1, <2>2
  <2>3. CASE 1 < k
    <3>1. Off(pend[1], ind) < Off(pend[k], ind)
      BY <1>2, <1>5, <1>14, <2>3
    <3>2. QED
      BY <2>1, <3>1
  <2>4. QED
    BY <1>14, <2>2, <2>3
<1>16. x = Off(pend[k], ind) + 1
  BY <1>4, <1>7, <1>12, <1>13, <1>15
<1>17. QED
  BY <1>1, <1>2, <1>4, <1>6, <1>8, <1>9, <1>11, <1>14, <1>16, Zenon DEF i

(* rx_reorder_timeout_handle keeps the invariant, also while the receive     *)
(* thread is about to enter the window with a frame.                         *)
LEMMA TimeoutInv ==
    ASSUME Inv, Timeout
    PROVE  Inv'
<1>1. CASE pend = << >>
  <2>0. UNCHANGED << ind, pend, pool, lost, timer, last, attached, enable, mlme, conns, bas,
                    first, sent, seen, stale, rx >> /\ fired' = FALSE /\ up' = << >>
    BY <1>1 DEF Timeout, window, agreement, peer
  <2>1. PoolSuffices'
    <3>1. fired' \in BOOLEAN
      BY <2>0, Zenon
    <3>2. up' \in Seq(FrameNo)
      BY <2>0
    <3>3. QED
      BY <2>0, <3>1, <3>2, Zenon DEF Inv, PoolSuffices, TypeOK
  <2>2. HeldInWindow' /\ Bounds' /\ Agreed'
    BY <2>0 DEF Inv, HeldInWindow, Bounds, Agreed, Unlocked, Ahead
  <2>3. InStep'
    BY <2>0, Zenon DEF Inv, InStep, Fits, Unlocked, Ahead
  <2>4. QED
    BY <2>1, <2>2, <2>3 DEF Inv
<1>2. CASE pend # << >>
  <2>1. PICK q \in Seq(FrameNo), b \in SeqNum, i \in SeqNum : q = pend /\ b = ind /\ i = SnOf(pend[1])
    BY <1>2, TimeoutFacts, Zenon
  <2>2. /\ Len(q) \in Nat /\ Unlocked
        /\ InOrder(q, b, Half - 1) /\ Diff(i, b) < Half
        /\ \A j \in 1 .. Len(q) : Off(q[j], b) - Diff(i, b) <= WSize - 1
    BY <1>2, <2>1, TimeoutFacts, Zenon
  <2>3. PICK k \in 1 .. Len(q), x \in Nat :
            Uploaded(q, b, i, k, x) /\ pool' = pool + k /\ x = Off(q[k], b) + 1
    BY <1>2, <2>1, TimeoutFacts, Zenon
  <2>4. /\ fired' = FALSE /\ timer' = (timer \/ pend' # << >>)
        /\ UNCHANGED << lost, attached, enable, mlme, conns, bas, first, sent, seen, stale, rx >>
    BY <1>2 DEF Timeout, agreement, peer
  <2>5. k \in Nat /\ k > 0 /\ k \in 0 .. Len(q)
    BY <2>2, <2>3
  <2>6. \A j \in 1 .. Len(q) : q[j] \in Nat /\ q[j] >= 1 /\ q[j] <= sent
    <3> TAKE j \in 1 .. Len(q)
    <3>1. q[j] \in FrameNo
      BY ElementOfSeq, Zenon
    <3>2. q[j] <= sent
      BY <2>1 DEF Inv, Bounds
    <3>3. QED
      BY <3>1, <3>2 DEF FrameNo
  <2>7. /\ ind' \in SeqNum /\ ind' # Unset
        /\ pend' \in Seq(FrameNo) /\ Len(pend') = Len(q) - k
        /\ up' \in Seq(FrameNo)
        /\ \A j \in 1 .. Len(pend') : k + j \in 1 .. Len(q) /\ pend'[j] = q[k + j]
        /\ last' = q[k]
    <3>1. ind' \in SeqNum /\ pend' \in Seq(FrameNo) /\ Len(pend') = Len(q) - k /\ up' \in Seq(FrameNo)
          /\ \A j \in 1 .. Len(pend') : k + j \in 1 .. Len(q) /\ pend'[j] = q[k + j]
      BY <2>3, Zenon DEF Uploaded
    <3>2. ind' # Unset
      BY <3>1, Sizes DEF SeqNum, Unset
    <3>3. k # 0
      BY <2>5
    <3>4. last' = IF k = 0 THEN last ELSE q[k]
      BY <2>3, Zenon DEF Uploaded
    <3>5. last' = q[k]
      BY <3>3, <3>4
    <3>6. QED
      BY <3>1, <3>2, <3>5, Zenon
  <2>8. /\ sent \in Nat /\ sent <= MaxSent /\ last \in Nat /\ seen \in Nat
        /\ last' \in Nat /\ last' >= 1 /\ last' <= sent
    BY <2>3, <2>6, <2>7 DEF Inv, PoolSuffices, TypeOK
  <2>9. PoolSuffices'
    <3>1. timer' \in BOOLEAN /\ fired' \in BOOLEAN
      BY <2>4, Zenon DEF Inv, PoolSuffices, TypeOK
    <3>2. /\ pool \in 0 .. NodeNum /\ lost \in 0 .. NodeNum
          /\ pool + Len(q) + lost = NodeNum
      BY <2>1, Zenon DEF Inv, PoolSuffices, TypeOK
    <3>3. pool' \in 0 .. NodeNum /\ pool' + Len(pend') + lost' = NodeNum
      BY <2>2, <2>3, <2>4, <2>5, <2>7, <3>2
    <3>4. last' \in 0 .. MaxSent
      BY <2>8, WindowAssumption
    <3>5. QED
      BY <2>4, <2>7, <3>1, <3>3, <3>4, Zenon DEF Inv, PoolSuffices, TypeOK
  <2>10. HeldInWindow'
    BY <2>2, <2>3, <2>5, UploadHeld, Zenon
  <2>11. Bounds'
    BY <2>4, <2>6, <2>7, <2>8 DEF Inv, Bounds
  <2>12. ind # Unset
    BY <2>1, Sizes DEF SeqNum, Unset
  <2>13. Agreed'
    BY <2>2, <2>4, <2>7, <2>12 DEF Inv, Agreed, Unlocked
  <2>14. ASSUME ~stale' PROVE \E T \in 1 .. MaxSent + 1 : Fits(T)'
    <3>1. PICK T \in 1 .. MaxSent + 1 : Fits(T)
      BY <2>2, <2>4, <2>12, <2>14, Zenon DEF Inv, InStep
    <3>2. T \in Nat
      BY <3>1, WindowAssumption
    <3>3. /\ b = SnOf(T) /\ \A j \in 1 .. Len(q) : q[j] - T = Off(q[j], b)
          /\ last < T /\ sent - last <= Half
      BY <2>1, <3>1 DEF Fits, Ahead, Off
    <3>4. /\ SnOf(T + x) = ind'
          /\ \A j \in 1 .. Len(pend') : pend'[j] - (T + x) = Off(pend'[j], ind')
          /\ k > 0 => T <= q[k] /\ q[k] < T + x
      <4>1. Uploaded(q, b, i, k, x) /\ InOrder(q, b, Half - 1)
        BY <2>2, <2>3
      <4>2. QED
        BY <2>5, <3>2, <3>3, <4>1, UploadTrue
    <3>5. T + x = q[k] + 1
      <4>1. q[k] - T = Off(q[k], b) /\ q[k] \in Nat
        BY <2>3, <2>6, <3>3
      <4>2. QED
        BY <2>3, <3>2, <4>1
    <3>6. last' # 0 /\ last' < T + x /\ T + x <= last' + 1 /\ T + x <= sent + 1 /\ sent - last' <= Half
      BY <2>5, <2>7, <2>8, <3>2, <3>3, <3>4, <3>5, Sizes
    <3>7. (rx.at = "core" => /\ T + x <= rx.no + WSize
                             /\ \A j \in 1 .. Len(pend) : pend[j] < rx.no + WSize)'
      <4>1. SUFFICES ASSUME rx.at = "core"
                     PROVE  /\ T + x <= rx.no + WSize
                            /\ \A j \in 1 .. Len(pend') : pend'[j] < rx.no + WSize
        BY <2>4
      <4>2. \A j \in 1 .. Len(q) : q[j] < rx.no + WSize
        BY <2>1, <3>1, <4>1, Zenon DEF Fits
      <4>3. rx.no \in Nat
        BY DEF Inv, PoolSuffices, TypeOK
      <4>4. T + x <= rx.no + WSize
        BY <2>3, <2>6, <3>5, <4>2, <4>3, Sizes
      <4>5. QED
        BY <2>7, <4>2, <4>4, Zenon
    <3>8. Fits(T + x)'
      BY <2>4, <3>4, <3>6, <3>7, Zenon DEF Fits, Ahead, Off
    <3>9. T + x \in 1 .. MaxSent + 1
      BY <2>8, <3>2, <3>6, WindowAssumption
    <3>10. QED
      BY <3>8, <3>9, Zenon
  <2>15. InStep'
    BY <2>14 DEF InStep
  <2>16. QED
    BY <2>9, <2>10, <2>11, <2>13, <2>15 DEF Inv
<1>3. QED
  BY <1>1, <1>2

-----------------------------------------------------------------------------
(* Every step keeps the invariant. *)
LEMMA NextInv == Inv /\ [Next]_vars => Inv'
<1> SUFFICES ASSUME Inv, [Next]_vars PROVE Inv'
  OBVIOUS
<1>1. CASE UNCHANGED vars
  <2>1. UNCHANGED << ind, pend, pool, lost, timer, fired, attached, enable, mlme, conns, bas,
                     first, sent, last, seen, stale, rx, up >>
    BY <1>1 DEF vars, window, timing, agreement, peer, past
  <2>2. PoolSuffices' /\ HeldInWindow' /\ Bounds' /\ Agreed'
    BY <2>1, ZenonT(40) DEF Inv, PoolSuffices, TypeOK, HeldInWindow, Bounds, Agreed,
       Unlocked, Ahead
  <2>3. InStep'
    BY <2>1, Zenon DEF Inv, InStep, Fits, Unlocked, Ahead
  <2>4. QED
    BY <2>2, <2>3 DEF Inv
<1>2. ASSUME NEW n \in FrameNo, RxBypass(n) \/ RxTest(n) PROVE Inv'
  BY <1>2, RxBypassInv, RxTestInv
<1>3. QED
  BY <1>1, <1>2, SendInv, CoreNullInv, CoreDropInv, CoreSpinInv, CoreKeepInv, ExpireInv,
     TimeoutInv, AttachInv, ReinitInv, AddBaInv, AddBaFailInv, DetachInv,
     PreconnectFailInv DEF Next

(* The invariant holds in every reachable state. *)
LEMMA InvAlways == Spec => []Inv
BY InitInv, NextInv, PTL DEF Spec

(* However frames are lost, delayed and repeated, and whenever the timer     *)
(* fires or a connection begins: while the lock of the window is free, the   *)
(* frames wf_rx_data_reorder_core holds back lie in the window, sorted and   *)
(* without duplicates.                                                       *)
THEOREM RxHeldInWindow == Spec => []HeldInWindow
<1>1. Inv => HeldInWindow
  BY DEF Inv
<1>2. QED
  BY <1>1, InvAlways, PTL

(* A pool of as many nodes as the window has numbers suffices: every node is *)
(* accounted for, and rx_pending_reorder_get_node_from_free_queue finds none *)
(* only if wf_rx_ba_reinit lost nodes before or some were never allocated.   *)
THEOREM RxPoolSuffices == Spec => []PoolSuffices
<1>1. Inv => PoolSuffices
  BY DEF Inv
<1>2. QED
  BY <1>1, InvAlways, PTL

(* The frames one upload gives to the network stack are later than all that  *)
(* went before and in the order in which the peer sent them, unless some     *)
(* frame bypassed the window.                                                *)
THEOREM RxDeliveredInOrder == Spec => DeliveredInOrder
<1> DEFINE D == ~stale /\ up' # << >> =>
                    /\ up'[1] > last
                    /\ \A j, k \in 1 .. Len(up') : j < k => up'[j] < up'[k]
<1>1. ASSUME Inv, [Next]_vars PROVE [D]_vars
  <2> SUFFICES ASSUME Next, ~stale, up' # << >>
               PROVE  /\ up'[1] > last
                      /\ \A j, k \in 1 .. Len(up') : j < k => up'[j] < up'[k]
    BY <1>1
  <2>1. ASSUME NEW n \in FrameNo, RxBypass(n)
        PROVE  /\ up'[1] > last
               /\ \A j, k \in 1 .. Len(up') : j < k => up'[j] < up'[k]
    <3>1. up' = << n >> /\ n > last
      BY <2>1 DEF RxBypass
    <3>2. QED
      BY <3>1
  <2>2. CASE CoreKeep
    <3>1. PICK q \in Seq(FrameNo), g \in SeqNum : Kept(q, g) /\ Upload(q, g, pool - 1)
      BY <1>1, <2>2, CoreKeepFacts, Zenon
    <3>2. rx.at = "core"
      BY <2>2 DEF CoreKeep
    <3>3. PICK n \in FrameNo, i \in SeqNum : n = rx.no /\ i = CoreInd(rx.no)
      BY <1>1, <3>2, CoreFacts, Zenon
    <3>4. /\ Off(n, i) < Half /\ Diff(g, i) < Half
          /\ InOrder(q, i, Half - 1)
          /\ \A j \in 1 .. Len(q) : q[j] = n \/ \E k \in 1 .. Len(pend) : q[j] = pend[k]
      BY <3>1, <3>3, Zenon DEF Kept
    <3>5. PICK k \in 0 .. Len(q), x \in Nat : Uploaded(q, i, g, k, x)
      <4>1. pool - 1 \in Int
        BY <1>1 DEF Inv, PoolSuffices, TypeOK
      <4>2. QED
        BY <3>1, <3>4, <4>1, UploadShape, Zenon
    <3>6. PICK T \in Nat :
              /\ SnOf(T) = i
              /\ n - T = Off(n, i)
              /\ \A j \in 1 .. Len(pend) : pend[j] - T = Off(pend[j], i)
              /\ last < T
      BY <1>1, <3>2, <3>3, <3>4, CoreTrue, Zenon
    <3>7. i = SnOf(T) /\ \A j \in 1 .. Len(q) : q[j] - T = Off(q[j], i)
      BY <3>4, <3>6, Zenon
    <3>8. /\ \A j \in 1 .. Len(up') : T <= up'[j]
          /\ \A j, l \in 1 .. Len(up') : j < l => up'[j] < up'[l]
      <4>1. InOrder(q, i, Half - 1)
        BY <3>4
      <4>2. QED
        BY <3>5, <3>7, <4>1, UploadTrue
    <3>9. up' \in Seq(FrameNo)
      BY <3>5, Zenon DEF Uploaded
    <3>10. 1 \in 1 .. Len(up') /\ up'[1] \in FrameNo
      BY <3>9, EmptySeq, LenProperties
    <3>11. last \in Nat /\ up'[1] \in Nat
      BY <1>1, <3>10, SMTT(40) DEF Inv, PoolSuffices, TypeOK, FrameNo
    <3>12. QED
      BY <3>6, <3>8, <3>10, <3>11
  <2>3. CASE Timeout
    <3>1. pend # << >>
      BY <2>3 DEF Timeout
    <3>2. PICK q \in Seq(FrameNo), b \in SeqNum, i \in SeqNum : q = pend /\ b = ind /\ i = SnOf(pend[1])
      BY <1>1, <2>3, <3>1, TimeoutFacts, Zenon
    <3>3. /\ Len(q) \in Nat /\ Unlocked /\ InOrder(q, b, Half - 1)
      BY <1>1, <2>3, <3>1, <3>2, TimeoutFacts, Zenon
    <3>4. PICK k \in 1 .. Len(q), x \in Nat : Uploaded(q, b, i, k, x)
      BY <1>1, <2>3, <3>1, <3>2, TimeoutFacts, Zenon
    <3>5. k \in 0 .. Len(q)
      BY <3>3
    <3>6. ind # Unset
      BY <3>2, Sizes DEF SeqNum, Unset
    <3>7. PICK T \in 1 .. MaxSent + 1 : Fits(T)
      BY <1>1, <3>3, <3>6, Zenon DEF Inv, InStep
    <3>8. T \in Nat
      BY <3>7, WindowAssumption
    <3>9. /\ b = SnOf(T) /\ \A j \in 1 .. Len(q) : q[j] - T = Off(q[j], b)
          /\ last < T
      BY <3>2, <3>7 DEF Fits, Ahead, Off
    <3>10. /\ \A j \in 1 .. Len(up') : T <= up'[j]
           /\ \A j, l \in 1 .. Len(up') : j < l => up'[j] < up'[l]
      <4>1. InOrder(q, b, Half - 1)
        BY <3>3
      <4>2. QED
        BY <3>4, <3>5, <3>8, <3>9, <4>1, UploadTrue
    <3>11. up' \in Seq(FrameNo)
      BY <3>4, Zenon DEF Uploaded
    <3>12. 1 \in 1 .. Len(up') /\ up'[1] \in FrameNo
      BY <3>11, EmptySeq, LenProperties
    <3>13. last \in Nat /\ up'[1] \in Nat
      BY <1>1, <3>12, SMTT(40) DEF Inv, PoolSuffices, TypeOK, FrameNo
    <3>14. QED
      BY <3>8, <3>9, <3>10, <3>12, <3>13
  <2>4. CASE \/ Send \/ CoreNull \/ CoreDrop \/ CoreSpin \/ Expire
             \/ Attach \/ PreconnectFail \/ Reinit \/ AddBa \/ AddBaFail \/ Detach
    BY <2>4 DEF Send, CoreNull, CoreDrop, CoreSpin, Expire, Attach, PreconnectFail, Reinit, AddBa,
       AddBaFail, Detach
  <2>5. ASSUME NEW n \in FrameNo, RxTest(n) PROVE FALSE
    BY <2>5 DEF RxTest
  <2>6. QED
    BY <2>1, <2>2, <2>3, <2>4, <2>5 DEF Next
<1>2. QED
  BY <1>1, InvAlways, PTL DEF Spec, DeliveredInOrder

(* wf_rx_data_reorder_core gives up a frame only if it is held already, if a *)
(* frame that is not earlier has gone up, or if the window had to move past  *)
(* it.                                                                       *)
THEOREM RxDropIsJustified == Spec => DropIsJustified
<1> DEFINE D == ~stale' /\ rx.at = "core" /\ rx'.at = "idle"
                    /\ ~Contains(pend', rx.no) /\ ~Contains(up', rx.no) =>
                    rx.no <= last \/ rx.no + WSize <= seen
<1>1. ASSUME Inv, [Next]_vars PROVE [D]_vars
  <2> SUFFICES ASSUME Next, ~stale', rx.at = "core", rx'.at = "idle",
                      ~Contains(pend', rx.no), ~Contains(up', rx.no)
               PROVE  rx.no <= last \/ rx.no + WSize <= seen
    BY <1>1
  <2>1. CASE CoreDrop
    <3>1. ~stale /\ pend' = pend
      BY <2>1 DEF CoreDrop
    <3>2. /\ ind # Unset
          /\ \/ Off(rx.no, ind) >= Half
             \/ \E j \in 1 .. Len(pend) : SnOf(pend[j]) = SnOf(rx.no)
      BY <1>1, <2>1, CoreDropFacts, Zenon
    <3>3. CoreInd(rx.no) = ind
      BY <3>2 DEF CoreInd
    <3>4. /\ rx.no \in FrameNo /\ ind \in SeqNum
          /\ \A j \in 1 .. Len(pend) : Off(pend[j], ind) \in 1 .. WSize - 1
      BY <1>1, <3>3, CoreFacts, Zenon
    <3>5. rx.no \in Nat /\ last \in Nat /\ seen \in Nat /\ sent \in Nat /\ rx.no <= sent
      BY <1>1, <3>4 DEF FrameNo, Inv, PoolSuffices, TypeOK, Bounds
    <3>6. Off(rx.no, ind) >= Half
      <4>1. SUFFICES ASSUME ~(Off(rx.no, ind) >= Half) PROVE FALSE
        OBVIOUS
      <4>2. PICK j \in 1 .. Len(pend) : SnOf(pend[j]) = SnOf(rx.no)
        BY <3>2, <4>1
      <4>3. Off(pend[j], ind) = Off(rx.no, ind)
        BY <4>2 DEF Off
      <4>4. Off(rx.no, ind) < Half
        BY <3>4, <4>2, <4>3, Sizes
      <4>5. PICK T \in Nat :
              /\ rx.no - T = Off(rx.no, ind)
              /\ \A l \in 1 .. Len(pend) : pend[l] - T = Off(pend[l], ind)
        BY <1>1, <3>1, <3>3, <4>4, CoreTrue, Zenon
      <4>6. pend[j] \in Nat
        <5>1. pend[j] \in FrameNo
          BY <1>1, <4>2, ElementOfSeq, Zenon DEF Inv, PoolSuffices, TypeOK
        <5>2. QED
          BY <5>1 DEF FrameNo
      <4>7. pend[j] = rx.no
        BY <3>5, <4>3, <4>5, <4>6
      <4>8. QED
        BY <3>1, <4>7 DEF Contains
    <3>7. PICK T \in 1 .. MaxSent + 1 : Fits(T)
      BY <1>1, <3>1, <3>2, Zenon DEF Inv, InStep, Unlocked
    <3>8. /\ T \in Nat /\ SnOf(T) = ind /\ last < T /\ sent - last <= Half
          /\ T <= last + 1 \/ T + WSize <= seen + 1
      BY <3>7, WindowAssumption DEF Fits
    <3>9. rx.no < T
      <4>1. SUFFICES ASSUME rx.no >= T PROVE FALSE
        BY <3>5, <3>8
      <4>2. rx.no - T < Half /\ rx.no - T < SnMod
        BY <3>5, <3>8, <4>1, Sizes
      <4>3. Off(rx.no, ind) = rx.no - T
        BY <3>5, <3>8, <4>1, <4>2, SnAhead DEF Off
      <4>4. QED
        BY <3>5, <3>6, <3>8, <4>2, <4>3, Sizes
    <3>10. CASE T <= last + 1
      BY <3>5, <3>8, <3>9, <3>10
    <3>11. CASE T + WSize <= seen + 1
      BY <3>5, <3>8, <3>9, <3>11, Sizes
    <3>12. QED
      BY <3>8, <3>10, <3>11, Zenon
  <2>2. CASE CoreKeep
    <3>1. PICK q \in Seq(FrameNo), g \in SeqNum : Kept(q, g) /\ Upload(q, g, pool - 1)
      BY <1>1, <2>2, CoreKeepFacts, Zenon
    <3>2. PICK n \in FrameNo, i \in SeqNum : n = rx.no /\ i = CoreInd(rx.no)
      BY <1>1, CoreFacts, Zenon
    <3>3. /\ Diff(g, i) < Half /\ InOrder(q, i, Half - 1)
          /\ \E j \in 1 .. Len(q) : q[j] = n
      BY <3>1, <3>2, Zenon DEF Kept
    <3>4. PICK k \in 0 .. Len(q), x \in Nat : Uploaded(q, i, g, k, x)
      <4>1. pool - 1 \in Int
        BY <1>1 DEF Inv, PoolSuffices, TypeOK
      <4>2. QED
        BY <3>1, <3>3, <4>1, UploadShape, Zenon
    <3>5. PICK j \in 1 .. Len(q) : q[j] = n
      BY <3>3
    <3>6. Len(q) \in Nat
      BY LenProperties
    <3>7. /\ Len(pend') = Len(q) - k /\ Len(up') = k
          /\ \A l \in 1 .. Len(q) - k : pend'[l] = q[k + l]
          /\ \A l \in 1 .. k : up'[l] = q[l]
      BY <3>4, Zenon DEF Uploaded
    <3>8. CASE j <= k
      <4>1. j \in 1 .. Len(up') /\ up'[j] = n
        BY <3>5, <3>6, <3>7, <3>8
      <4>2. QED
        BY <3>2, <4>1 DEF Contains
    <3>9. CASE j > k
      <4>1. j - k \in 1 .. Len(pend') /\ k + (j - k) = j
        BY <3>5, <3>6, <3>7, <3>9
      <4>2. pend'[j - k] = n
        BY <3>5, <3>7, <4>1
      <4>3. QED
        BY <3>2, <4>1, <4>2 DEF Contains
    <3>10. QED
      BY <3>6, <3>8, <3>9
  <2>3. CASE CoreNull \/ CoreSpin
    BY <1>1, <2>3 DEF CoreNull, CoreSpin, Inv, PoolSuffices, TypeOK
  <2>4. CASE \/ Send \/ Expire \/ Timeout \/ Attach \/ PreconnectFail
             \/ Reinit \/ AddBa \/ AddBaFail \/ Detach
    BY <2>4 DEF Send, Expire, Timeout, Attach, PreconnectFail, Reinit, AddBa, AddBaFail,
       Detach
  <2>5. ASSUME NEW n \in FrameNo, RxBypass(n) \/ RxTest(n) PROVE FALSE
    BY <2>5 DEF RxBypass, RxTest
  <2>6. QED
    BY <2>1, <2>2, <2>3, <2>4, <2>5 DEF Next
<1>2. QED
  BY <1>1, InvAlways, PTL DEF Spec, DropIsJustified
=============================================================================
