---------------------------- MODULE WfMsgLemmas ----------------------------
(***************************************************************************)
(* What the operations of the message queue do to a list of messages, for  *)
(* every pool and every assignment of tags.  The proofs about the queue    *)
(* itself (UtilityProofs) and about the components that own one rest on    *)
(* these lemmas.                                                           *)
(***************************************************************************)
EXTENDS WfMsg, SequenceTheorems, WellFoundedInduction, NaturalsInduction, TLAPS

(* What inserting a message in a list does, position by position: _msg_push  *)
(* links it between two neighbours and moves nobody else.                    *)
LEMMA InsertAtProperties ==
    ASSUME NEW s \in Seq(Msg), NEW n \in 0 .. Len(s), NEW e \in Msg
    PROVE  /\ InsertAt(s, n + 1, e) \in Seq(Msg)
           /\ Len(InsertAt(s, n + 1, e)) = Len(s) + 1
           /\ \A i \in 1 .. n : InsertAt(s, n + 1, e)[i] = s[i]
           /\ InsertAt(s, n + 1, e)[n + 1] = e
           /\ \A i \in n + 2 .. Len(s) + 1 : InsertAt(s, n + 1, e)[i] = s[i - 1]
<1> DEFINE a == SubSeq(s, 1, n)
           b == SubSeq(s, n + 1, Len(s))
           c == a \o <<e>>
<1>1. /\ a \in Seq(Msg) /\ Len(a) = n
      /\ \A i \in 1 .. n : a[i] = s[i]
  BY SubSeqProperties
<1>2. /\ b \in Seq(Msg) /\ Len(b) = Len(s) - n
      /\ \A i \in 1 .. Len(s) - n : b[i] = s[n + i]
  BY SubSeqProperties
<1>3. /\ c \in Seq(Msg) /\ Len(c) = n + 1
      /\ \A i \in 1 .. n + 1 : c[i] = IF i <= n THEN s[i] ELSE e
  <2> HIDE DEF a
  <2>1. QED
    BY <1>1
<1>4. InsertAt(s, n + 1, e) = c \o b
  <2>1. (n + 1) - 1 = n
    OBVIOUS
  <2>2. QED
    BY <2>1, Zenon DEF InsertAt
<1> HIDE DEF a, b, c
<1>5. /\ c \o b \in Seq(Msg)
      /\ Len(c \o b) = Len(s) + 1
      /\ \A i \in 1 .. n + 1 : (c \o b)[i] = c[i]
      /\ \A i \in n + 2 .. Len(s) + 1 : (c \o b)[i] = b[i - (n + 1)]
  BY <1>2, <1>3
<1>6. \A i \in n + 2 .. Len(s) + 1 : b[i - (n + 1)] = s[i - 1]
  <2> TAKE i \in n + 2 .. Len(s) + 1
  <2>1. i - (n + 1) \in 1 .. Len(s) - n /\ n + (i - (n + 1)) = i - 1
    OBVIOUS
  <2>2. b[i - (n + 1)] = s[n + (i - (n + 1))]
    BY <1>2, <2>1, Zenon
  <2>3. QED
    BY <2>1, <2>2, Zenon
<1>7. /\ \A i \in 1 .. n : (c \o b)[i] = s[i]
      /\ (c \o b)[n + 1] = e
      /\ \A i \in n + 2 .. Len(s) + 1 : (c \o b)[i] = s[i - 1]
  <2>1. /\ \A i \in 1 .. n : i \in 1 .. n + 1 /\ i <= n
        /\ n + 1 \in 1 .. n + 1 /\ ~(n + 1 <= n)
    OBVIOUS
  <2>2. QED
    BY <1>3, <1>5, <1>6, <2>1, Zenon
<1>8. QED
  BY <1>4, <1>5, <1>7, Zenon

(* What removing a position from a list does, position by position: the      *)
(* unlinking of _msg_pop.                                                    *)
LEMMA RemoveAtProperties ==
    ASSUME NEW s \in Seq(Msg), NEW n \in 1 .. Len(s)
    PROVE  /\ RemoveAt(s, n) \in Seq(Msg)
           /\ Len(RemoveAt(s, n)) = Len(s) - 1
           /\ \A i \in 1 .. Len(s) - 1 :
                RemoveAt(s, n)[i] = IF i < n THEN s[i] ELSE s[i + 1]
<1> DEFINE a == SubSeq(s, 1, n - 1)
           b == SubSeq(s, n + 1, Len(s))
<1>1. /\ a \in Seq(Msg) /\ Len(a) = n - 1
      /\ \A i \in 1 .. n - 1 : a[i] = s[i]
  BY SubSeqProperties
<1>2. /\ b \in Seq(Msg) /\ Len(b) = Len(s) - n
      /\ \A i \in 1 .. Len(s) - n : b[i] = s[n + i]
  BY SubSeqProperties
<1>4. RemoveAt(s, n) = a \o b
  BY DEF RemoveAt
<1> HIDE DEF a, b
<1>5. /\ a \o b \in Seq(Msg)
      /\ Len(a \o b) = Len(s) - 1
      /\ \A i \in 1 .. Len(s) - 1 : (a \o b)[i] = IF i < n THEN s[i] ELSE s[i + 1]
  <2>1. /\ a \o b \in Seq(Msg)
        /\ Len(a \o b) = Len(s) - 1
        /\ \A i \in 1 .. n - 1 : (a \o b)[i] = a[i]
        /\ \A i \in n .. Len(s) - 1 : (a \o b)[i] = b[i - (n - 1)]
    <3>1. /\ a \o b \in Seq(Msg)
          /\ Len(a \o b) = Len(a) + Len(b)
          /\ \A i \in 1 .. Len(a) + Len(b) :
                (a \o b)[i] = IF i <= Len(a) THEN a[i] ELSE b[i - Len(a)]
      BY <1>1, <1>2, ConcatProperties
    <3>2. Len(a) + Len(b) = Len(s) - 1
      BY <1>1, <1>2
    <3>3. \A i \in 1 .. Len(s) - 1 :
                (a \o b)[i] = IF i <= n - 1 THEN a[i] ELSE b[i - (n - 1)]
      BY <1>1, <3>1, <3>2, Zenon
    <3>4. ASSUME NEW i \in 1 .. n - 1 PROVE (a \o b)[i] = a[i]
      <4>1. i \in 1 .. Len(s) - 1 /\ i <= n - 1
        OBVIOUS
      <4>2. QED
        BY <3>3, <4>1, Zenon
    <3>5. ASSUME NEW i \in n .. Len(s) - 1 PROVE (a \o b)[i] = b[i - (n - 1)]
      <4>1. i \in 1 .. Len(s) - 1 /\ ~(i <= n - 1)
        OBVIOUS
      <4>2. QED
        BY <3>3, <4>1, Zenon
    <3>6. QED
      BY <3>1, <3>2, <3>4, <3>5, Zenon
  <2>2. ASSUME NEW i \in n .. Len(s) - 1 PROVE b[i - (n - 1)] = s[i + 1]
    <3>1. i - (n - 1) \in 1 .. Len(s) - n /\ n + (i - (n - 1)) = i + 1
      OBVIOUS
    <3>2. QED
      BY <1>2, <3>1, Zenon
  <2>3. ASSUME NEW i \in 1 .. Len(s) - 1
        PROVE  (a \o b)[i] = IF i < n THEN s[i] ELSE s[i + 1]
    <3>1. CASE i < n
      <4>1. i \in 1 .. n - 1
        BY <3>1
      <4>2. QED
        BY <1>1, <2>1, <3>1, <4>1, Zenon
    <3>2. CASE ~(i < n)
      <4>1. i \in n .. Len(s) - 1
        BY <3>2
      <4>2. QED
        BY <2>1, <2>2, <3>2, <4>1, Zenon
    <3>3. QED
      BY <3>1, <3>2
  <2>4. QED
    BY <2>1, <2>3, Zenon
<1>6. QED
  BY <1>4, <1>5, Zenon

-----------------------------------------------------------------------------
(* A nonempty set of naturals has a least element. *)
LEMMA LeastNat ==
    ASSUME NEW T \in SUBSET Nat, T # {}
    PROVE  \E k \in T : \A i \in T : k <= i
<1>1. PICK k \in T : \A i \in T : ~(<<i, k>> \in OpToRel(<, Nat))
  BY WFMin, NatLessThanWellFounded, Zenon
<1>2. \A i \in T : ~(i < k)
  BY <1>1 DEF OpToRel
<1>3. QED
  BY <1>2

(* wf_msg_push finds a position, and it is the one behind the last pending   *)
(* message that is not less urgent.                                          *)
LEMMA PushPosProperties ==
    ASSUME NEW s \in Seq(Msg), NEW m \in Msg, \A x \in Msg : Key(x) \in Int
    PROVE  /\ PushPos(s, m) \in 0 .. Len(s)
           /\ PushPos(s, m) > 0 => Key(s[PushPos(s, m)]) <= Key(m)
           /\ \A i \in PushPos(s, m) + 1 .. Len(s) : Key(m) < Key(s[i])
<1> DEFINE P(n) == /\ n > 0 => Key(s[n]) <= Key(m)
                   /\ \A i \in n + 1 .. Len(s) : Key(m) < Key(s[i])
           T == { k \in 0 .. Len(s) : \A i \in k + 1 .. Len(s) : Key(m) < Key(s[i]) }
<1>1. PICK k \in T : \A i \in T : k <= i
  <2>1. T \in SUBSET Nat /\ Len(s) \in T
    OBVIOUS
  <2>2. QED
    BY <2>1, LeastNat, Zenon
<1>2. k > 0 => Key(s[k]) <= Key(m)
  <2> SUFFICES ASSUME k > 0, ~(Key(s[k]) <= Key(m)) PROVE FALSE
    OBVIOUS
  <2>1. k \in 1 .. Len(s) /\ s[k] \in Msg
    OBVIOUS
  <2>2. Key(m) < Key(s[k])
    BY <2>1
  <2>3. k - 1 \in T
    BY <2>1, <2>2
  <2>4. k <= k - 1
    BY <1>1, <2>3, Zenon
  <2>5. QED
    BY <2>1, <2>4
<1>3. k \in 0 .. Len(s) /\ P(k)
  BY <1>2
<1>4. PushPos(s, m) \in 0 .. Len(s) /\ P(PushPos(s, m))
  <2> HIDE DEF P
  <2>1. PushPos(s, m) = CHOOSE n \in 0 .. Len(s) : P(n)
    BY Zenon DEF PushPos, P
  <2>2. QED
    BY <1>3, <2>1, Zenon
<1>5. QED
  BY <1>4

(* wf_msg_push_head finds a position, and it is in front of the first        *)
(* pending message of the same or a later domain.                            *)
LEMMA PushHeadPosProperties ==
    ASSUME NEW s \in Seq(Msg), NEW m \in Msg, \A x \in Msg : Dom(x) \in Int
    PROVE  /\ PushHeadPos(s, m) \in 0 .. Len(s)
           /\ PushHeadPos(s, m) < Len(s) => Dom(m) <= Dom(s[PushHeadPos(s, m) + 1])
           /\ \A i \in 1 .. PushHeadPos(s, m) : Dom(s[i]) < Dom(m)
<1> DEFINE P(n) == /\ n < Len(s) => Dom(m) <= Dom(s[n + 1])
                   /\ \A i \in 1 .. n : Dom(s[i]) < Dom(m)
           T == { k \in 0 .. Len(s) : k < Len(s) => Dom(m) <= Dom(s[k + 1]) }
<1>1. PICK k \in T : \A i \in T : k <= i
  <2>1. T \in SUBSET Nat /\ Len(s) \in T
    OBVIOUS
  <2>2. QED
    BY <2>1, LeastNat, Zenon
<1>2. ASSUME NEW i \in 1 .. k PROVE Dom(s[i]) < Dom(m)
  <2>1. i \in 1 .. Len(s) /\ s[i] \in Msg /\ i - 1 \in 0 .. Len(s) /\ (i - 1) + 1 = i
    OBVIOUS
  <2>2. CASE i - 1 \in T
    <3>1. k <= i - 1
      BY <1>1, <2>2, Zenon
    <3>2. QED
      BY <3>1, <2>1
  <2>3. CASE i - 1 \notin T
    <3>1. ~(Dom(m) <= Dom(s[i]))
      BY <2>1, <2>3
    <3>2. QED
      BY <3>1, <2>1
  <2>4. QED
    BY <2>2, <2>3
<1>3. k \in 0 .. Len(s) /\ P(k)
  BY <1>2
<1>4. PushHeadPos(s, m) \in 0 .. Len(s) /\ P(PushHeadPos(s, m))
  <2> HIDE DEF P
  <2>1. PushHeadPos(s, m) = CHOOSE n \in 0 .. Len(s) : P(n)
    BY Zenon DEF PushHeadPos, P
  <2>2. QED
    BY <1>3, <2>1, Zenon
<1>5. QED
  BY <1>4

(* Position i of a list from which position p was removed was position       *)
(* Skip(p, i) before.                                                        *)
Skip(p, i) == IF i < p THEN i ELSE i + 1

(* _msg_pop in a list where a message is linked once: that message goes,     *)
(* every other one stays linked, in the same order.                          *)
LEMMA UnlinkProperties ==
    ASSUME NEW s \in Seq(Msg), LinkedOnce(s), NEW m \in Msg
    PROVE  /\ Unlink(s, m) \in Seq(Msg)
           /\ LinkedOnce(Unlink(s, m))
           /\ \A x \in Msg : Contains(Unlink(s, m), x) <=> Contains(s, x) /\ x # m
           /\ \E p \in 1 .. Len(s) + 1 : \A i \in 1 .. Len(Unlink(s, m)) :
                 /\ Skip(p, i) \in 1 .. Len(s)
                 /\ Unlink(s, m)[i] = s[Skip(p, i)]
<1>1. CASE ~Contains(s, m)
  <2>1. Unlink(s, m) = s
    BY <1>1 DEF Unlink
  <2>2. /\ Len(s) + 1 \in 1 .. Len(s) + 1
        /\ \A i \in 1 .. Len(s) : Skip(Len(s) + 1, i) = i
    BY DEF Skip
  <2>3. \E p \in 1 .. Len(s) + 1 : \A i \in 1 .. Len(s) :
            Skip(p, i) \in 1 .. Len(s) /\ s[i] = s[Skip(p, i)]
    <3> WITNESS Len(s) + 1 \in 1 .. Len(s) + 1
    <3>1. QED
      BY <2>2, Zenon
  <2>4. \A x \in Msg : Contains(s, x) <=> Contains(s, x) /\ x # m
    BY <1>1, Zenon
  <2>5. QED
    BY <2>1, <2>3, <2>4, Zenon
<1>2. CASE Contains(s, m)
  <2> DEFINE p == PosOf(s, m)
             r == RemoveAt(s, p)
  <2>1. p \in 1 .. Len(s) /\ s[p] = m
    BY <1>2 DEF PosOf, Contains
  <2>2. Unlink(s, m) = r
    BY <1>2 DEF Unlink
  <2> HIDE DEF p
  <2>3. /\ r \in Seq(Msg)
        /\ Len(r) = Len(s) - 1
        /\ \A i \in 1 .. Len(s) - 1 : r[i] = IF i < p THEN s[i] ELSE s[i + 1]
    BY <2>1, RemoveAtProperties
  <2> HIDE DEF r
  <2>4. LinkedOnce(r)
    BY <2>1, <2>3, SMTT(40) DEF LinkedOnce
  <2>5. ASSUME NEW x \in Msg PROVE Contains(r, x) <=> Contains(s, x) /\ x # m
    <3>1. ASSUME NEW i \in 1 .. Len(r), r[i] = x PROVE Contains(s, x) /\ x # m
      BY <2>1, <2>3, <3>1 DEF Contains, LinkedOnce
    <3>2. ASSUME NEW i \in 1 .. Len(s), s[i] = x, x # m PROVE Contains(r, x)
      <4>1. CASE i < p
        BY <4>1, <3>2, <2>1, <2>3 DEF Contains
      <4>2. CASE i > p
        <5>1. i - 1 \in 1 .. Len(r) /\ r[i - 1] = x
          BY <4>2, <3>2, <2>1, <2>3
        <5>2. QED
          BY <5>1, Zenon DEF Contains
      <4>3. QED
        BY <4>1, <4>2, <3>2, <2>1
    <3>3. QED
      BY <3>1, <3>2 DEF Contains
  <2>6. /\ p \in 1 .. Len(s) + 1
        /\ \A i \in 1 .. Len(r) : Skip(p, i) \in 1 .. Len(s) /\ r[i] = s[Skip(p, i)]
    BY <2>1, <2>3 DEF Skip
  <2>7. \E q \in 1 .. Len(s) + 1 : \A i \in 1 .. Len(r) :
            Skip(q, i) \in 1 .. Len(s) /\ r[i] = s[Skip(q, i)]
    BY <2>6, Zenon
  <2>8. QED
    BY <2>2, <2>3, <2>4, <2>5, <2>7, Zenon
<1>3. QED
  BY <1>1, <1>2

-----------------------------------------------------------------------------
(* The sequence s is sorted by the numbers f gives to its elements, but for  *)
(* those of H, which may stand too early.                                    *)
Sorted(s, f, H) ==
    \A i, j \in 1 .. Len(s) : i < j /\ s[i] \notin H => f[s[i]] <= f[s[j]]

KeyFn == [m \in Msg |-> Key(m)]
DomFn == [m \in Msg |-> Dom(m)]

(* The numbers that pending messages are sorted by are integers.             *)
LEMMA KeyDomTypes ==
    /\ KeyFn \in [Msg -> Int]
    /\ DomFn \in [Msg -> Int]
    /\ \A x \in Msg : Key(x) \in Int /\ Dom(x) \in Int
<1>1. ASSUME NEW x \in Msg PROVE Key(x) \in Int /\ Dom(x) \in Int
  <2>1. Tag[x].dom \in 0 .. 15 /\ Tag[x].pri \in 0 .. 31
    BY TagAssumption DEF Tags
  <2>2. QED
    BY <2>1 DEF Key, Dom, TagKey
<1>2. QED
  BY <1>1 DEF KeyFn, DomFn

(* A message that is not less urgent is not of an earlier domain. *)
LEMMA KeyOrdersDom ==
    ASSUME NEW x \in Msg, NEW y \in Msg, Key(x) <= Key(y)
    PROVE  Dom(x) <= Dom(y)
<1>1. /\ Tag[x].dom \in 0 .. 15 /\ Tag[x].pri \in 0 .. 31
      /\ Tag[y].dom \in 0 .. 15 /\ Tag[y].pri \in 0 .. 31
  BY TagAssumption DEF Tags
<1>2. Tag[x].dom * 32 + Tag[x].pri <= Tag[y].dom * 32 + Tag[y].pri
  BY DEF Key, TagKey
<1>3. ASSUME NEW d \in 0 .. 15, NEW e \in 0 .. 15, NEW p \in 0 .. 31, NEW q \in 0 .. 31,
             d * 32 + p <= e * 32 + q
      PROVE  d <= e
  BY <1>3
<1>4. QED
  BY <1>1, <1>2, <1>3, Zenon DEF Dom

(* A list stays sorted, by whatever number and but for the messages of H,    *)
(* when a message leaves it.                                                 *)
LEMMA UnlinkSorted ==
    ASSUME NEW f \in [Msg -> Int], NEW s \in Seq(Msg), LinkedOnce(s), NEW m \in Msg,
           NEW H, Sorted(s, f, H)
    PROVE  Sorted(Unlink(s, m), f, H)
<1> DEFINE r == Unlink(s, m)
<1>1. r \in Seq(Msg)
  BY UnlinkProperties, Zenon
<1>2. PICK p \in 1 .. Len(s) + 1 : \A i \in 1 .. Len(r) :
            Skip(p, i) \in 1 .. Len(s) /\ r[i] = s[Skip(p, i)]
  BY UnlinkProperties, Zenon
<1> HIDE DEF r
<1>3. ASSUME NEW i \in 1 .. Len(r), NEW j \in 1 .. Len(r), i < j, r[i] \notin H
      PROVE  f[r[i]] <= f[r[j]]
  <2>1. Skip(p, i) < Skip(p, j)
    BY <1>1, <1>3 DEF Skip
  <2>2. f[s[Skip(p, i)]] <= f[s[Skip(p, j)]]
    BY <1>2, <1>3, <2>1, Zenon DEF Sorted
  <2>3. QED
    BY <1>2, <2>2, Zenon
<1>4. QED
  BY <1>3, Zenon DEF Sorted, r

(* Linking a message that is not in the list. *)
LEMMA InsertLinks ==
    ASSUME NEW s \in Seq(Msg), LinkedOnce(s), NEW m \in Msg, ~Contains(s, m),
           NEW n \in 0 .. Len(s)
    PROVE  /\ InsertAt(s, n + 1, m) \in Seq(Msg)
           /\ LinkedOnce(InsertAt(s, n + 1, m))
           /\ \A x \in Msg : Contains(InsertAt(s, n + 1, m), x) <=> Contains(s, x) \/ x = m
<1> DEFINE r == InsertAt(s, n + 1, m)
           src(i) == IF i <= n THEN i ELSE i - 1
<1>1. /\ r \in Seq(Msg)
      /\ Len(r) = Len(s) + 1
      /\ \A i \in 1 .. n : r[i] = s[i]
      /\ r[n + 1] = m
      /\ \A i \in n + 2 .. Len(s) + 1 : r[i] = s[i - 1]
  BY InsertAtProperties, Zenon
<1> HIDE DEF r
<1>2. /\ n + 1 \in 1 .. Len(r)
      /\ \A i \in 1 .. Len(r) : i # n + 1 => src(i) \in 1 .. Len(s) /\ r[i] = s[src(i)]
      /\ \A i, j \in 1 .. Len(r) : i < j /\ i # n + 1 /\ j # n + 1 => src(i) < src(j)
  <2>1. /\ n + 1 \in 1 .. Len(r)
        /\ \A i, j \in 1 .. Len(r) : i < j /\ i # n + 1 /\ j # n + 1 => src(i) < src(j)
    BY <1>1
  <2>2. ASSUME NEW i \in 1 .. Len(r), i # n + 1
        PROVE  src(i) \in 1 .. Len(s) /\ r[i] = s[src(i)]
    <3>1. CASE i <= n
      BY <1>1, <3>1
    <3>2. CASE i > n
      <4>1. i \in n + 2 .. Len(s) + 1 /\ src(i) = i - 1 /\ i - 1 \in 1 .. Len(s)
        BY <1>1, <2>2, <3>2
      <4>2. QED
        BY <1>1, <4>1, Zenon
    <3>3. QED
      BY <3>1, <3>2
  <2>3. QED
    BY <2>1, <2>2
<1>3. \A i \in 1 .. Len(s) : s[i] # m
  BY Zenon DEF Contains
<1>4. LinkedOnce(r)
  <2> SUFFICES ASSUME NEW i \in 1 .. Len(r), NEW j \in 1 .. Len(r), r[i] = r[j], i < j
               PROVE  FALSE
    BY <1>1 DEF LinkedOnce
  <2>1. CASE i = n + 1
    BY <1>1, <1>2, <1>3, <2>1
  <2>2. CASE j = n + 1
    BY <1>1, <1>2, <1>3, <2>2
  <2>3. CASE i # n + 1 /\ j # n + 1
    <3>1. src(i) \in 1 .. Len(s) /\ src(j) \in 1 .. Len(s) /\ s[src(i)] = s[src(j)] /\ src(i) < src(j)
      BY <1>2, <2>3, Zenon
    <3> HIDE DEF src
    <3>2. src(i) = src(j)
      BY <3>1, Zenon DEF LinkedOnce
    <3>3. QED
      BY <3>1, <3>2
  <2>4. QED
    BY <2>1, <2>2, <2>3
<1>5. ASSUME NEW x \in Msg PROVE Contains(r, x) <=> Contains(s, x) \/ x = m
  <2>1. ASSUME NEW i \in 1 .. Len(r), r[i] = x PROVE Contains(s, x) \/ x = m
    <3> HIDE DEF src
    <3>1. QED
      BY <1>1, <1>2, <2>1, Zenon DEF Contains
  <2>2. ASSUME NEW i \in 1 .. Len(s), s[i] = x PROVE Contains(r, x)
    <3>1. CASE i <= n
      <4>1. i \in 1 .. Len(r) /\ r[i] = x
        BY <1>1, <2>2, <3>1
      <4>2. QED
        BY <4>1, Zenon DEF Contains
    <3>2. CASE i > n
      <4>1. i + 1 \in 1 .. Len(r) /\ r[i + 1] = x
        BY <1>1, <2>2, <3>2
      <4>2. QED
        BY <4>1, Zenon DEF Contains
    <3>3. QED
      BY <3>1, <3>2
  <2>3. Contains(r, m)
    BY <1>1, <1>2, Zenon DEF Contains
  <2>4. QED
    BY <2>1, <2>2, <2>3 DEF Contains
<1>6. QED
  BY <1>1, <1>4, <1>5, Zenon DEF r

(* A list stays sorted when a message is linked behind everything not        *)
(* greater and in front of everything not smaller.                           *)
LEMMA InsertSorted ==
    ASSUME NEW s \in Seq(Msg), NEW m \in Msg, NEW n \in 0 .. Len(s),
           NEW f \in [Msg -> Int], NEW H, Sorted(s, f, H),
           \A i \in 1 .. n : s[i] \notin H => f[s[i]] <= f[m],
           \A i \in n + 1 .. Len(s) : m \notin H => f[m] <= f[s[i]]
    PROVE  Sorted(InsertAt(s, n + 1, m), f, H)
<1> DEFINE r == InsertAt(s, n + 1, m)
           src(i) == IF i <= n THEN i ELSE i - 1
<1>1. /\ r \in Seq(Msg)
      /\ Len(r) = Len(s) + 1
      /\ \A i \in 1 .. n : r[i] = s[i]
      /\ r[n + 1] = m
      /\ \A i \in n + 2 .. Len(s) + 1 : r[i] = s[i - 1]
  BY InsertAtProperties, Zenon
<1> HIDE DEF r
<1>2. /\ \A i \in 1 .. Len(r) : i # n + 1 => src(i) \in 1 .. Len(s) /\ r[i] = s[src(i)]
      /\ \A i, j \in 1 .. Len(r) : i < j /\ i # n + 1 /\ j # n + 1 => src(i) < src(j)
  <2>1. ASSUME NEW i \in 1 .. Len(r), i # n + 1
        PROVE  src(i) \in 1 .. Len(s) /\ r[i] = s[src(i)]
    <3>1. CASE i <= n
      BY <1>1, <3>1, SMTT(40)
    <3>2. CASE i > n
      <4>1. i \in n + 2 .. Len(s) + 1 /\ i - 1 \in 1 .. Len(s) /\ src(i) = i - 1
        BY <1>1, <2>1, <3>2
      <4>2. r[i] = s[i - 1]
        BY <1>1, <4>1, Zenon
      <4>3. QED
        BY <4>1, <4>2, Zenon
    <3>3. QED
      BY <3>1, <3>2
  <2>2. ASSUME NEW i \in 1 .. Len(r), NEW j \in 1 .. Len(r), i < j, i # n + 1, j # n + 1
        PROVE  src(i) < src(j)
    <3>1. i \in Int /\ j \in Int /\ n \in Int
      OBVIOUS
    <3>2. QED
      BY <2>2, <3>1
  <2>3. QED
    BY <2>1, <2>2, Zenon
<1>3. ASSUME NEW i \in 1 .. Len(r), NEW j \in 1 .. Len(r), i < j, r[i] \notin H
      PROVE  f[r[i]] <= f[r[j]]
  <2>1. CASE i = n + 1
    <3>1. src(j) \in n + 1 .. Len(s) /\ r[j] = s[src(j)] /\ r[i] = m
      BY <1>1, <1>2, <1>3, <2>1
    <3>2. QED
      BY <1>3, <3>1, Zenon
  <2>2. CASE j = n + 1
    <3>1. src(i) \in 1 .. n /\ r[i] = s[src(i)] /\ r[j] = m
      BY <1>1, <1>2, <1>3, <2>2
    <3>2. QED
      BY <1>3, <3>1, Zenon
  <2>3. CASE i # n + 1 /\ j # n + 1
    <3>1. /\ src(i) \in 1 .. Len(s) /\ src(j) \in 1 .. Len(s) /\ src(i) < src(j)
          /\ r[i] = s[src(i)] /\ r[j] = s[src(j)]
      BY <1>2, <1>3, <2>3, Zenon
    <3> HIDE DEF src
    <3>2. QED
      BY <1>3, <3>1, Zenon DEF Sorted
  <2>4. QED
    BY <2>1, <2>2, <2>3
<1>4. QED
  BY <1>3, Zenon DEF Sorted, r

(* wf_msg_push of a message in nobody's list: it is linked once, the others  *)
(* stay linked, and the list stays sorted by key and by domain.              *)
LEMMA PushProperties ==
    ASSUME NEW s \in Seq(Msg), LinkedOnce(s), NEW m \in Msg, ~Contains(s, m), NEW H
    PROVE  /\ Push(s, m) \in Seq(Msg)
           /\ LinkedOnce(Push(s, m))
           /\ \A x \in Msg : Contains(Push(s, m), x) <=> Contains(s, x) \/ x = m
           /\ Sorted(s, KeyFn, H) => Sorted(Push(s, m), KeyFn, H \ {m})
           /\ Sorted(s, DomFn, {}) => Sorted(Push(s, m), DomFn, {})
<1> DEFINE n == PushPos(s, m)
<1>1. /\ n \in 0 .. Len(s)
      /\ n > 0 => Key(s[n]) <= Key(m)
      /\ \A i \in n + 1 .. Len(s) : Key(m) < Key(s[i])
  BY PushPosProperties, KeyDomTypes
<1>2. Push(s, m) = InsertAt(s, n + 1, m)
  BY DEF Push
<1> HIDE DEF n
<1>3. \A i \in 1 .. Len(s) : s[i] \in Msg /\ KeyFn[s[i]] = Key(s[i]) /\ DomFn[s[i]] = Dom(s[i])
  BY DEF KeyFn, DomFn
<1>4. KeyFn[m] = Key(m) /\ DomFn[m] = Dom(m)
  BY DEF KeyFn, DomFn
<1>5. ASSUME Sorted(s, KeyFn, H) PROVE Sorted(Push(s, m), KeyFn, H \ {m})
  <2> DEFINE G == H \ {m}
  <2>0. Sorted(s, KeyFn, G)
    BY <1>5, Zenon DEF Sorted, Contains
  <2> HIDE DEF G
  <2>1. ASSUME NEW i \in 1 .. n, s[i] \notin G PROVE KeyFn[s[i]] <= KeyFn[m]
    <3>1. n \in 1 .. Len(s) /\ i \in 1 .. Len(s) /\ (i < n \/ i = n) /\ Key(s[n]) <= Key(m)
      BY <1>1
    <3>2. KeyFn[s[i]] \in Int /\ KeyFn[s[n]] \in Int /\ KeyFn[m] \in Int
      BY <1>3, <3>1, KeyDomTypes
    <3>3. KeyFn[s[i]] <= KeyFn[s[n]]
      BY <2>0, <2>1, <3>1, <3>2 DEF Sorted
    <3>4. KeyFn[s[n]] <= KeyFn[m]
      BY <1>3, <1>4, <3>1, Zenon
    <3>5. QED
      BY <3>2, <3>3, <3>4
  <2>2. \A i \in n + 1 .. Len(s) : KeyFn[m] <= KeyFn[s[i]]
    BY <1>1, <1>3, <1>4, KeyDomTypes, SMTT(40)
  <2>3. QED
    BY <1>1, <1>2, <2>0, <2>1, <2>2, KeyDomTypes, InsertSorted, Zenon DEF G
<1>6. ASSUME Sorted(s, DomFn, {}) PROVE Sorted(Push(s, m), DomFn, {})
  <2>1. ASSUME NEW i \in 1 .. n PROVE DomFn[s[i]] <= DomFn[m]
    <3>1. n \in 1 .. Len(s) /\ i \in 1 .. Len(s) /\ (i < n \/ i = n) /\ Key(s[n]) <= Key(m)
      BY <1>1
    <3>2. DomFn[s[i]] \in Int /\ DomFn[s[n]] \in Int /\ DomFn[m] \in Int
      BY <1>3, <3>1, KeyDomTypes
    <3>3. DomFn[s[i]] <= DomFn[s[n]]
      BY <1>6, <3>1, <3>2 DEF Sorted
    <3>4. DomFn[s[n]] <= DomFn[m]
      BY <1>3, <1>4, <3>1, KeyOrdersDom, Zenon
    <3>5. QED
      BY <3>2, <3>3, <3>4
  <2>2. ASSUME NEW i \in n + 1 .. Len(s) PROVE DomFn[m] <= DomFn[s[i]]
    <3>1. i \in 1 .. Len(s) /\ Key(m) < Key(s[i])
      BY <1>1
    <3>2. Key(m) \in Int /\ Key(s[i]) \in Int
      BY <1>3, <3>1, KeyDomTypes, Zenon
    <3>3. Key(m) <= Key(s[i])
      BY <3>1, <3>2
    <3>4. QED
      BY <1>3, <1>4, <3>1, <3>3, KeyOrdersDom, Zenon
  <2>3. QED
    BY <1>1, <1>2, <1>6, <2>1, <2>2, KeyDomTypes, InsertSorted, Zenon
<1>7. /\ Push(s, m) \in Seq(Msg)
      /\ LinkedOnce(Push(s, m))
      /\ \A x \in Msg : Contains(Push(s, m), x) <=> Contains(s, x) \/ x = m
  <2>1. /\ InsertAt(s, n + 1, m) \in Seq(Msg)
        /\ LinkedOnce(InsertAt(s, n + 1, m))
        /\ \A x \in Msg : Contains(InsertAt(s, n + 1, m), x) <=> Contains(s, x) \/ x = m
    BY <1>1, InsertLinks
  <2>2. QED
    BY <1>2, <2>1
<1>8. QED
  BY <1>5, <1>6, <1>7, Zenon

(* wf_msg_push_head of a message in nobody's list: it is linked once, the    *)
(* others stay linked, and the list stays sorted by domain.                  *)
LEMMA PushHeadProperties ==
    ASSUME NEW s \in Seq(Msg), LinkedOnce(s), NEW m \in Msg, ~Contains(s, m), NEW H
    PROVE  /\ PushHead(s, m) \in Seq(Msg)
           /\ LinkedOnce(PushHead(s, m))
           /\ \A x \in Msg : Contains(PushHead(s, m), x) <=> Contains(s, x) \/ x = m
           /\ Sorted(s, DomFn, {}) => Sorted(PushHead(s, m), DomFn, {})
           /\ Sorted(s, KeyFn, H) => Sorted(PushHead(s, m), KeyFn, H \cup {m})
<1> DEFINE n == PushHeadPos(s, m)
<1>1. /\ n \in 0 .. Len(s)
      /\ n < Len(s) => Dom(m) <= Dom(s[n + 1])
      /\ \A i \in 1 .. n : Dom(s[i]) < Dom(m)
  BY PushHeadPosProperties, KeyDomTypes
<1>2. PushHead(s, m) = InsertAt(s, n + 1, m)
  BY DEF PushHead
<1> HIDE DEF n
<1>3. \A i \in 1 .. Len(s) : s[i] \in Msg /\ DomFn[s[i]] = Dom(s[i])
  BY DEF DomFn
<1>4. DomFn[m] = Dom(m)
  BY DEF DomFn
<1>5. ASSUME Sorted(s, DomFn, {}) PROVE Sorted(PushHead(s, m), DomFn, {})
  <2>1. ASSUME NEW i \in 1 .. n PROVE DomFn[s[i]] <= DomFn[m]
    <3>1. i \in 1 .. Len(s) /\ Dom(s[i]) < Dom(m)
      BY <1>1
    <3>2. Dom(s[i]) <= Dom(m)
      <4>1. Dom(s[i]) \in Int /\ Dom(m) \in Int
        BY <1>3, <3>1, KeyDomTypes, Zenon
      <4>2. QED
        BY <3>1, <4>1
    <3>3. QED
      BY <1>3, <1>4, <3>1, <3>2, Zenon
  <2>2. ASSUME NEW i \in n + 1 .. Len(s) PROVE DomFn[m] <= DomFn[s[i]]
    <3>1. /\ n + 1 \in 1 .. Len(s) /\ i \in 1 .. Len(s) /\ (n + 1 < i \/ n + 1 = i)
          /\ Dom(m) <= Dom(s[n + 1])
      BY <1>1
    <3>2. DomFn[s[i]] \in Int /\ DomFn[s[n + 1]] \in Int /\ DomFn[m] \in Int
      BY <1>3, <3>1, KeyDomTypes
    <3>3. DomFn[s[n + 1]] <= DomFn[s[i]]
      BY <1>5, <3>1, <3>2 DEF Sorted
    <3>4. DomFn[m] <= DomFn[s[n + 1]]
      BY <1>3, <1>4, <3>1, Zenon
    <3>5. QED
      BY <3>2, <3>3, <3>4
  <2>3. QED
    BY <1>1, <1>2, <1>5, <2>1, <2>2, KeyDomTypes, InsertSorted, Zenon
<1>6. /\ PushHead(s, m) \in Seq(Msg)
      /\ LinkedOnce(PushHead(s, m))
      /\ \A x \in Msg : Contains(PushHead(s, m), x) <=> Contains(s, x) \/ x = m
  <2>1. /\ InsertAt(s, n + 1, m) \in Seq(Msg)
        /\ LinkedOnce(InsertAt(s, n + 1, m))
        /\ \A x \in Msg : Contains(InsertAt(s, n + 1, m), x) <=> Contains(s, x) \/ x = m
    BY <1>1, InsertLinks
  <2>2. QED
    BY <1>2, <2>1
<1>7. ASSUME Sorted(s, KeyFn, H) PROVE Sorted(PushHead(s, m), KeyFn, H \cup {m})
  <2> DEFINE G == H \cup {m}
  <2>1. Sorted(s, KeyFn, G) /\ m \in G
    BY <1>7, Zenon DEF Sorted
  <2> HIDE DEF G
  <2>2. ASSUME NEW i \in 1 .. n PROVE KeyFn[s[i]] <= KeyFn[m]
    <3>1. i \in 1 .. Len(s) /\ Dom(s[i]) < Dom(m)
      BY <1>1
    <3>2. s[i] \in Msg /\ KeyFn[s[i]] = Key(s[i]) /\ KeyFn[m] = Key(m)
      BY <3>1 DEF KeyFn
    <3>3. Key(s[i]) \in Int /\ Key(m) \in Int /\ Dom(s[i]) \in Int /\ Dom(m) \in Int
      BY <3>2, KeyDomTypes, Zenon
    <3>4. Key(m) <= Key(s[i]) => Dom(m) <= Dom(s[i])
      BY <3>2, KeyOrdersDom, Zenon
    <3>5. QED
      BY <3>1, <3>2, <3>3, <3>4
  <2>3. QED
    BY <1>1, <1>2, <2>1, <2>2, KeyDomTypes, InsertSorted, Zenon DEF G
<1>8. QED
  BY <1>5, <1>6, <1>7, Zenon

(* wf_msg_del: afterwards the free list holds the message, once, and what it *)
(* held before.                                                              *)
LEMMA DelProperties ==
    ASSUME NEW s \in Seq(Msg), LinkedOnce(s), NEW m \in Msg
    PROVE  /\ Del(s, m) \in Seq(Msg)
           /\ LinkedOnce(Del(s, m))
           /\ \A x \in Msg : Contains(Del(s, m), x) <=> Contains(s, x) \/ x = m
<1> DEFINE t == Unlink(s, m)
           r == Append(t, m)
<1>1. /\ t \in Seq(Msg)
      /\ LinkedOnce(t)
      /\ \A x \in Msg : Contains(t, x) <=> Contains(s, x) /\ x # m
  BY UnlinkProperties, Zenon
<1>2. Del(s, m) = r
  BY DEF Del
<1> HIDE DEF t
<1>3. /\ r \in Seq(Msg)
      /\ Len(r) = Len(t) + 1
      /\ \A i \in 1 .. Len(t) : r[i] = t[i]
      /\ r[Len(t) + 1] = m
  BY <1>1
<1> HIDE DEF r
<1>4. \A i \in 1 .. Len(t) : t[i] # m
  BY <1>1 DEF Contains
<1>5. LinkedOnce(r)
  <2> SUFFICES ASSUME NEW i \in 1 .. Len(r), NEW j \in 1 .. Len(r), r[i] = r[j], i < j
               PROVE  FALSE
    BY <1>3 DEF LinkedOnce
  <2>1. i \in 1 .. Len(t) /\ r[i] = t[i]
    BY <1>1, <1>3
  <2>2. CASE j = Len(t) + 1
    BY <1>3, <1>4, <2>1, <2>2, Zenon
  <2>3. CASE j # Len(t) + 1
    <3>1. j \in 1 .. Len(t) /\ r[j] = t[j]
      BY <1>1, <1>3, <2>3
    <3>2. i = j
      BY <1>1, <2>1, <3>1, Zenon DEF LinkedOnce
    <3>3. QED
      BY <3>2
  <2>4. QED
    BY <2>2, <2>3
<1>6. ASSUME NEW x \in Msg PROVE Contains(r, x) <=> Contains(t, x) \/ x = m
  <2>1. ASSUME NEW i \in 1 .. Len(r), r[i] = x, x # m PROVE Contains(t, x)
    <3>1. i \in 1 .. Len(t) /\ t[i] = x
      BY <1>1, <1>3, <2>1
    <3>2. QED
      BY <3>1, Zenon DEF Contains
  <2>2. ASSUME NEW i \in 1 .. Len(t), t[i] = x PROVE Contains(r, x)
    <3>1. i \in 1 .. Len(r) /\ r[i] = x
      BY <1>1, <1>3, <2>2
    <3>2. QED
      BY <3>1, Zenon DEF Contains
  <2>3. Contains(r, m)
    <3>1. Len(t) + 1 \in 1 .. Len(r)
      BY <1>1, <1>3
    <3>2. QED
      BY <1>3, <3>1, Zenon DEF Contains
  <2>4. QED
    BY <2>1, <2>2, <2>3, Zenon DEF Contains
<1>7. QED
  BY <1>1, <1>2, <1>3, <1>5, <1>6

-----------------------------------------------------------------------------
(* What the receiver gets is a pending message, what a sender gets a free    *)
(* one.                                                                      *)
LEMMA EndOfProperties ==
    ASSUME NEW s \in Seq(Msg), s # << >>, NEW btail \in BOOLEAN
    PROVE  EndOf(s, btail) \in Msg /\ Contains(s, EndOf(s, btail))
<1>1. 1 \in 1 .. Len(s) /\ Len(s) \in 1 .. Len(s)
  OBVIOUS
<1>2. s[1] \in Msg /\ s[Len(s)] \in Msg
  BY <1>1
<1>3. QED
  BY <1>1, <1>2, Zenon DEF EndOf, Contains

\* The message of domain d at k is the first one, or the last one, of the domain.
EndsDom(s, d, btail, k) ==
    /\ EndOfDom(s, d, btail) = s[k] /\ Dom(s[k]) = d
    /\ ~btail => \A j \in 1 .. k - 1 : Dom(s[j]) # d
    /\ btail => \A j \in k + 1 .. Len(s) : Dom(s[j]) # d

(* msg_get_dom finds a pending message of the domain if there is one.        *)
LEMMA EndOfDomPlace ==
    ASSUME NEW s \in Seq(Msg), NEW d, HasDom(s, d), NEW btail \in BOOLEAN
    PROVE  \E k \in 1 .. Len(s) : EndsDom(s, d, btail, k)
<1> DEFINE at == { i \in 1 .. Len(s) : Dom(s[i]) = d }
           P(i) == \A j \in at : IF btail THEN j <= i ELSE i <= j
           back == { Len(s) - i : i \in at }
<1>1. at # {} /\ at \in SUBSET Nat
  BY DEF HasDom
<1>2. \E i \in at : P(i)
  <2>1. CASE btail = FALSE
    BY <1>1, <2>1, LeastNat, Zenon
  <2>2. CASE btail = TRUE
    <3>1. back # {} /\ back \in SUBSET Nat
      BY <1>1
    <3>2. PICK k \in back : \A i \in back : k <= i
      BY <3>1, LeastNat, Zenon
    <3>3. PICK i \in at : k = Len(s) - i
      OBVIOUS
    <3>4. ASSUME NEW j \in at PROVE j <= i
      <4>1. Len(s) - j \in back
        OBVIOUS
      <4>2. Len(s) - i <= Len(s) - j
        BY <3>2, <3>3, <4>1, Zenon
      <4>3. i \in Int /\ j \in Int /\ Len(s) \in Int
        OBVIOUS
      <4> HIDE DEF at, back
      <4>4. QED
        BY <4>2, <4>3
    <3>5. QED
      BY <2>2, <3>4, Zenon
  <2>3. QED
    BY <2>1, <2>2, Zenon
<1>3. EndOfDom(s, d, btail) = s[CHOOSE i \in at : P(i)]
  BY Zenon DEF EndOfDom
<1>4. PICK k \in at : EndOfDom(s, d, btail) = s[k] /\ P(k)
  <2> HIDE DEF P
  <2> QED
    BY <1>2, <1>3, Zenon
<1>5. k \in 1 .. Len(s) /\ Dom(s[k]) = d
  OBVIOUS
<1>6. ASSUME ~btail, NEW j \in 1 .. k - 1 PROVE Dom(s[j]) # d
  <2>1. j \in 1 .. Len(s) /\ ~(k <= j)
    BY <1>5, <1>6
  <2>2. QED
    BY <1>4, <1>6, <2>1, Zenon
<1>7. ASSUME btail, NEW j \in k + 1 .. Len(s) PROVE Dom(s[j]) # d
  <2>1. j \in 1 .. Len(s) /\ ~(j <= k)
    BY <1>5, <1>7
  <2>2. QED
    BY <1>4, <1>7, <2>1, Zenon
<1>8. QED
  BY <1>4, <1>5, <1>6, <1>7, Zenon DEF EndsDom

(* The message found is one of the list.                                     *)
LEMMA EndOfDomProperties ==
    ASSUME NEW s \in Seq(Msg), NEW d, HasDom(s, d), NEW btail \in BOOLEAN
    PROVE  EndOfDom(s, d, btail) \in Msg /\ Contains(s, EndOfDom(s, d, btail))
<1>1. PICK k \in 1 .. Len(s) : EndsDom(s, d, btail, k)
  BY EndOfDomPlace, Zenon
<1>2. s[k] \in Msg
  OBVIOUS
<1>3. QED
  BY <1>1, <1>2, Zenon DEF Contains, EndsDom

(* wf_msg_new finds a free message with the tag if there is one.             *)
LEMMA FirstFreeProperties ==
    ASSUME NEW s \in Seq(Msg), NEW tag, HasFree(s, tag)
    PROVE  /\ FirstFree(s, tag) \in Msg /\ Tag[FirstFree(s, tag)] = tag
           /\ Contains(s, FirstFree(s, tag))
<1> DEFINE T == { i \in 1 .. Len(s) : Tag[s[i]] = tag }
           Q(m, i) == /\ s[i] = m
                      /\ Tag[m] = tag
                      /\ \A j \in 1 .. i - 1 : Tag[s[j]] # tag
           P(m) == \E i \in 1 .. Len(s) : Q(m, i)
<1>1. T # {} /\ T \in SUBSET Nat
  BY DEF HasFree
<1>2. PICK k \in T : \A i \in T : k <= i
  BY <1>1, LeastNat, Zenon
<1>3. ASSUME NEW j \in 1 .. k - 1 PROVE Tag[s[j]] # tag
  <2>1. j \in 1 .. Len(s) /\ ~(k <= j)
    OBVIOUS
  <2>2. j \notin T
    BY <1>2, <2>1, Zenon
  <2>3. QED
    BY <2>1, <2>2
<1>4. s[k] \in Msg /\ k \in 1 .. Len(s) /\ Tag[s[k]] = tag
  OBVIOUS
<1>5. P(s[k])
  BY <1>3, <1>4, Zenon
<1>6. FirstFree(s, tag) = CHOOSE m \in Msg : P(m)
  BY Zenon DEF FirstFree
<1>7. FirstFree(s, tag) \in Msg /\ P(FirstFree(s, tag))
  <2> HIDE DEF P
  <2>1. QED
    BY <1>4, <1>5, <1>6, Zenon
<1>8. QED
  BY <1>7, Zenon DEF Contains

-----------------------------------------------------------------------------
(* The same for the queues that are never pushed at the head, whose pending  *)
(* messages are always sorted by urgency.                                    *)
KeySorted(s) == \A i, j \in 1 .. Len(s) : i < j => Key(s[i]) <= Key(s[j])

(* The two ways to say that a list is sorted by urgency.                     *)
LEMMA KeySortedIsSorted ==
    ASSUME NEW s \in Seq(Msg)
    PROVE  KeySorted(s) <=> Sorted(s, KeyFn, {})
<1>1. \A i \in 1 .. Len(s) : s[i] \in Msg /\ KeyFn[s[i]] = Key(s[i])
  BY DEF KeyFn
<1>2. QED
  BY <1>1, Zenon DEF KeySorted, Sorted

(* wf_msg_pop and wf_msg_del take a message out of a list.                   *)
LEMMA TakeProperties ==
    ASSUME NEW s \in Seq(Msg), LinkedOnce(s), NEW m \in Msg
    PROVE  /\ Unlink(s, m) \in Seq(Msg)
           /\ LinkedOnce(Unlink(s, m))
           /\ \A x \in Msg : Contains(Unlink(s, m), x) <=> Contains(s, x) /\ x # m
           /\ KeySorted(s) => KeySorted(Unlink(s, m))
<1>1. KeyFn \in [Msg -> Int]
  BY KeyDomTypes
<1>2. QED
  BY <1>1, UnlinkProperties, UnlinkSorted, KeySortedIsSorted, Zenon

(* wf_msg_push keeps the pending messages sorted.                            *)
LEMMA PutProperties ==
    ASSUME NEW s \in Seq(Msg), LinkedOnce(s), NEW m \in Msg, ~Contains(s, m)
    PROVE  /\ Push(s, m) \in Seq(Msg)
           /\ LinkedOnce(Push(s, m))
           /\ \A x \in Msg : Contains(Push(s, m), x) <=> Contains(s, x) \/ x = m
           /\ KeySorted(s) => KeySorted(Push(s, m))
<1>1. {} \ {m} = {}
  OBVIOUS
<1>2. /\ Push(s, m) \in Seq(Msg)
      /\ LinkedOnce(Push(s, m))
      /\ \A x \in Msg : Contains(Push(s, m), x) <=> Contains(s, x) \/ x = m
      /\ Sorted(s, KeyFn, {}) => Sorted(Push(s, m), KeyFn, {} \ {m})
  BY PushProperties, Zenon
<1>3. QED
  BY <1>1, <1>2, KeySortedIsSorted, Zenon

(* The head of a sorted list: nothing in the list is more urgent.            *)
LEMMA HeadProperties ==
    ASSUME NEW s \in Seq(Msg), s # << >>
    PROVE  /\ EndOf(s, FALSE) \in Msg /\ Contains(s, EndOf(s, FALSE))
           /\ KeySorted(s) => \A x \in Msg : Contains(s, x) => Key(EndOf(s, FALSE)) <= Key(x)
<1>1. EndOf(s, FALSE) \in Msg /\ Contains(s, EndOf(s, FALSE)) /\ EndOf(s, FALSE) = s[1]
  BY EndOfProperties DEF EndOf
<1>2. ASSUME KeySorted(s), NEW x \in Msg, Contains(s, x) PROVE Key(s[1]) <= Key(x)
  <2>1. PICK i \in 1 .. Len(s) : s[i] = x
    BY <1>2, Zenon DEF Contains
  <2>2. CASE i = 1
    BY <1>1, <2>1, <2>2, KeyDomTypes
  <2>3. CASE i > 1
    <3>1. 1 \in 1 .. Len(s) /\ 1 < i
      BY <2>3
    <3>2. QED
      BY <1>2, <2>1, <3>1, Zenon DEF KeySorted
  <2>4. QED
    BY <2>2, <2>3
<1>3. QED
  BY <1>1, <1>2, Zenon

-----------------------------------------------------------------------------
(* The same of lists in which only some of the messages are known to be      *)
(* linked once.                                                              *)
OnceIn(s, N) == \A i, j \in 1 .. Len(s) : s[i] = s[j] /\ s[i] \in N => i = j

(* A message leaves a list; another link to it may stay.                     *)
LEMMA UnlinkOnce ==
    ASSUME NEW s \in Seq(Msg), NEW m \in Msg, NEW N, OnceIn(s, N)
    PROVE  /\ Unlink(s, m) \in Seq(Msg)
           /\ OnceIn(Unlink(s, m), N)
           /\ \A x \in Msg : x # m => (Contains(Unlink(s, m), x) <=> Contains(s, x))
           /\ m \in N => ~Contains(Unlink(s, m), m)
<1>1. CASE ~Contains(s, m)
  <2>1. Unlink(s, m) = s
    BY <1>1 DEF Unlink
  <2>2. QED
    BY <1>1, <2>1
<1>2. CASE Contains(s, m)
  <2> DEFINE p == PosOf(s, m)
             r == Unlink(s, m)
  <2>1. p \in 1 .. Len(s) /\ s[p] = m
    <3>1. \E i \in 1 .. Len(s) : s[i] = m
      BY <1>2, Zenon DEF Contains
    <3>2. QED
      BY <3>1, Zenon DEF PosOf
  <2>2. r = RemoveAt(s, p)
    BY <1>2 DEF Unlink
  <2> HIDE DEF p, r
  <2>3. /\ r \in Seq(Msg) /\ Len(r) = Len(s) - 1
        /\ \A i \in 1 .. Len(s) - 1 : r[i] = IF i < p THEN s[i] ELSE s[i + 1]
    BY <2>1, <2>2, RemoveAtProperties, Zenon
  <2>4. \A i \in 1 .. Len(r) : /\ Skip(p, i) \in 1 .. Len(s) /\ Skip(p, i) # p
                               /\ r[i] = s[Skip(p, i)]
    BY <2>1, <2>3 DEF Skip
  <2>5. OnceIn(r, N)
    <3> SUFFICES ASSUME NEW i \in 1 .. Len(r), NEW j \in 1 .. Len(r), r[i] = r[j], r[i] \in N
                 PROVE  i = j
      BY DEF OnceIn
    <3>1. Skip(p, i) = Skip(p, j)
      BY <2>4 DEF OnceIn
    <3>2. QED
      BY <2>1, <2>3, <3>1 DEF Skip
  <2>6. ASSUME NEW x \in Msg, x # m PROVE Contains(r, x) <=> Contains(s, x)
    <3>1. ASSUME Contains(r, x) PROVE Contains(s, x)
      BY <2>4, <3>1, Zenon DEF Contains
    <3>2. ASSUME Contains(s, x) PROVE Contains(r, x)
      <4>1. PICK j \in 1 .. Len(s) : s[j] = x
        BY <3>2, Zenon DEF Contains
      <4>2. j # p
        BY <2>1, <2>6, <4>1
      <4>3. PICK i \in 1 .. Len(r) : r[i] = s[j]
        <5>1. CASE j < p
          BY <2>1, <2>3, <5>1
        <5>2. CASE j > p
          <6>1. j - 1 \in 1 .. Len(r) /\ r[j - 1] = s[(j - 1) + 1] /\ (j - 1) + 1 = j
            BY <2>1, <2>3, <5>2
          <6>2. QED
            BY <6>1
        <5>3. QED
          BY <2>1, <4>2, <5>1, <5>2
      <4>4. QED
        BY <4>1, <4>3, Zenon DEF Contains
    <3>3. QED
      BY <3>1, <3>2
  <2>7. ASSUME m \in N, Contains(r, m) PROVE FALSE
    <3>1. PICK i \in 1 .. Len(r) : r[i] = m
      BY <2>7, Zenon DEF Contains
    <3>2. QED
      BY <2>1, <2>4, <2>7, <3>1 DEF OnceIn
  <2>8. QED
    BY <2>3, <2>5, <2>6, <2>7 DEF r
<1>3. QED
  BY <1>1, <1>2

(* wf_msg_push of a message that is not yet pending, or need not be once.    *)
LEMMA PushOnce ==
    ASSUME NEW s \in Seq(Msg), NEW m \in Msg, NEW N, OnceIn(s, N), Contains(s, m) => m \notin N
    PROVE  /\ Push(s, m) \in Seq(Msg)
           /\ OnceIn(Push(s, m), N)
           /\ \A x \in Msg : Contains(Push(s, m), x) <=> Contains(s, x) \/ x = m
<1> DEFINE n == PushPos(s, m)
           r == Push(s, m)
<1>1. n \in 0 .. Len(s)
  BY PushPosProperties, KeyDomTypes
<1>2. r = InsertAt(s, n + 1, m)
  BY DEF Push
<1> HIDE DEF n, r
<1>3. /\ r \in Seq(Msg) /\ Len(r) = Len(s) + 1
      /\ \A i \in 1 .. n : r[i] = s[i]
      /\ r[n + 1] = m
      /\ \A i \in n + 2 .. Len(s) + 1 : r[i] = s[i - 1]
  BY <1>1, <1>2, InsertAtProperties, ZenonT(40)
<1>4. ASSUME NEW i \in 1 .. Len(r), i # n + 1
      PROVE  /\ (IF i <= n THEN i ELSE i - 1) \in 1 .. Len(s)
             /\ r[i] = s[IF i <= n THEN i ELSE i - 1]
  <2>1. CASE i <= n
    BY <1>1, <1>3, <2>1
  <2>2. CASE ~(i <= n)
    <3>1. i \in n + 2 .. Len(s) + 1 /\ i - 1 \in 1 .. Len(s)
      BY <1>1, <1>3, <1>4, <2>2
    <3>2. r[i] = s[i - 1]
      BY <1>3, <3>1, Zenon
    <3>3. QED
      BY <2>2, <3>1, <3>2
  <2>3. QED
    BY <2>1, <2>2
<1>5. ASSUME NEW i \in 1 .. Len(r), i # n + 1 PROVE Contains(s, r[i])
  BY <1>4, <1>5, Zenon DEF Contains
<1>6. OnceIn(r, N)
  <2> SUFFICES ASSUME NEW i \in 1 .. Len(r), NEW j \in 1 .. Len(r), r[i] = r[j], r[i] \in N,
                      i # j
               PROVE  FALSE
    BY DEF OnceIn
  <2>1. i # n + 1 /\ j # n + 1
    <3>1. ASSUME i = n + 1 PROVE FALSE
      <4>1. j # n + 1 /\ r[j] = m /\ m \in N
        BY <1>3, <3>1
      <4>2. QED
        BY <1>5, <4>1
    <3>2. ASSUME j = n + 1 PROVE FALSE
      <4>1. i # n + 1 /\ r[i] = m /\ m \in N
        BY <1>3, <3>2
      <4>2. QED
        BY <1>5, <4>1
    <3>3. QED
      BY <3>1, <3>2
  <2>2. (IF i <= n THEN i ELSE i - 1) = (IF j <= n THEN j ELSE j - 1)
    BY <1>4, <2>1 DEF OnceIn
  <2>3. QED
    BY <1>1, <2>1, <2>2
<1>7. ASSUME NEW x \in Msg PROVE Contains(r, x) <=> Contains(s, x) \/ x = m
  <2>1. ASSUME Contains(r, x), x # m PROVE Contains(s, x)
    <3>1. PICK i \in 1 .. Len(r) : r[i] = x
      BY <2>1, Zenon DEF Contains
    <3>2. i # n + 1
      BY <1>3, <2>1, <3>1
    <3>3. QED
      BY <1>5, <3>1, <3>2
  <2>2. ASSUME Contains(s, x) PROVE Contains(r, x)
    <3>1. PICK j \in 1 .. Len(s) : s[j] = x
      BY <2>2, Zenon DEF Contains
    <3>2. \E i \in 1 .. Len(r) : r[i] = s[j]
      <4>1. CASE j <= n
        BY <1>1, <1>3, <4>1
      <4>2. CASE j > n
        <5>1. j + 1 \in 1 .. Len(r) /\ r[j + 1] = s[(j + 1) - 1] /\ (j + 1) - 1 = j
          BY <1>1, <1>3, <4>2
        <5>2. QED
          BY <5>1
      <4>3. QED
        BY <1>1, <4>1, <4>2
    <3>3. QED
      BY <3>1, <3>2, Zenon DEF Contains
  <2>3. Contains(r, m)
    <3>1. n + 1 \in 1 .. Len(r)
      BY <1>1, <1>3
    <3>2. QED
      BY <1>3, <3>1, Zenon DEF Contains
  <2>4. QED
    BY <2>1, <2>2, <2>3
<1>8. QED
  BY <1>3, <1>6, <1>7 DEF r

(* wf_msg_alloc adds messages that are in the list only once to the list.    *)
LEMMA ConcatLinked ==
    ASSUME NEW s \in Seq(Msg), NEW t \in Seq(Msg), LinkedOnce(s), LinkedOnce(t),
           \A i \in 1 .. Len(s), j \in 1 .. Len(t) : s[i] # t[j]
    PROVE  /\ s \o t \in Seq(Msg)
           /\ LinkedOnce(s \o t)
           /\ \A x \in Msg : Contains(s \o t, x) <=> Contains(s, x) \/ Contains(t, x)
<1> DEFINE r == s \o t
<1>1. /\ r \in Seq(Msg) /\ Len(r) = Len(s) + Len(t)
      /\ \A i \in 1 .. Len(r) : r[i] = IF i <= Len(s) THEN s[i] ELSE t[i - Len(s)]
  BY ConcatProperties
<1> HIDE DEF r
<1>2. LinkedOnce(r)
  <2> SUFFICES ASSUME NEW i \in 1 .. Len(r), NEW j \in 1 .. Len(r), r[i] = r[j]
               PROVE  i = j
    BY DEF LinkedOnce
  <2>1. CASE i <= Len(s) /\ j <= Len(s)
    BY <1>1, <2>1 DEF LinkedOnce
  <2>2. CASE i > Len(s) /\ j > Len(s)
    <3>1. i - Len(s) \in 1 .. Len(t) /\ j - Len(s) \in 1 .. Len(t)
          /\ t[i - Len(s)] = t[j - Len(s)]
      <4>1. i - Len(s) \in 1 .. Len(t) /\ j - Len(s) \in 1 .. Len(t)
        BY <1>1, <2>2
      <4>2. ~(i <= Len(s)) /\ ~(j <= Len(s))
        BY <1>1, <2>2
      <4>3. r[i] = t[i - Len(s)] /\ r[j] = t[j - Len(s)]
        BY <1>1, <4>2, Zenon
      <4>4. QED
        BY <4>1, <4>3
    <3>2. i - Len(s) = j - Len(s)
      BY <3>1 DEF LinkedOnce
    <3>3. QED
      BY <3>2
  <2>3. CASE i <= Len(s) /\ j > Len(s)
    <3>1. i \in 1 .. Len(s) /\ j - Len(s) \in 1 .. Len(t) /\ s[i] = t[j - Len(s)]
      BY <1>1, <2>3
    <3>2. QED
      BY <3>1
  <2>4. CASE i > Len(s) /\ j <= Len(s)
    <3>1. j \in 1 .. Len(s) /\ i - Len(s) \in 1 .. Len(t) /\ s[j] = t[i - Len(s)]
      BY <1>1, <2>4
    <3>2. QED
      BY <3>1
  <2>5. QED
    BY <2>1, <2>2, <2>3, <2>4
<1>3. ASSUME NEW x \in Msg PROVE Contains(r, x) <=> Contains(s, x) \/ Contains(t, x)
  <2>1. ASSUME Contains(r, x) PROVE Contains(s, x) \/ Contains(t, x)
    <3>1. PICK i \in 1 .. Len(r) : r[i] = x
      BY <2>1, Zenon DEF Contains
    <3>2. CASE i <= Len(s)
      <4>1. i \in 1 .. Len(s) /\ s[i] = x
        BY <1>1, <3>1, <3>2
      <4>2. QED
        BY <4>1, Zenon DEF Contains
    <3>3. CASE i > Len(s)
      <4>1. i - Len(s) \in 1 .. Len(t) /\ t[i - Len(s)] = x
        BY <1>1, <3>1, <3>3
      <4>2. QED
        BY <4>1, Zenon DEF Contains
    <3>4. QED
      BY <3>2, <3>3
  <2>2. ASSUME Contains(s, x) PROVE Contains(r, x)
    <3>1. PICK i \in 1 .. Len(s) : s[i] = x
      BY <2>2, Zenon DEF Contains
    <3>2. i \in 1 .. Len(r) /\ r[i] = x
      BY <1>1, <3>1
    <3>3. QED
      BY <3>2, Zenon DEF Contains
  <2>3. ASSUME Contains(t, x) PROVE Contains(r, x)
    <3>1. PICK i \in 1 .. Len(t) : t[i] = x
      BY <2>3, Zenon DEF Contains
    <3>2. Len(s) + i \in 1 .. Len(r) /\ r[Len(s) + i] = t[i]
      <4>1. /\ Len(s) + i \in 1 .. Len(r) /\ ~(Len(s) + i <= Len(s))
            /\ (Len(s) + i) - Len(s) = i
        BY <1>1
      <4>2. r[Len(s) + i] = t[(Len(s) + i) - Len(s)]
        BY <1>1, <4>1, Zenon
      <4>3. QED
        BY <4>1, <4>2
    <3>3. QED
      BY <3>1, <3>2, Zenon DEF Contains
  <2>4. QED
    BY <2>1, <2>2, <2>3
<1>4. QED
  BY <1>1, <1>2, <1>3 DEF r

-----------------------------------------------------------------------------
(* The messages that are in both lists are in the same order in both.        *)
SameOrder(s, r) ==
    \A i, j \in 1 .. Len(s), a, b \in 1 .. Len(r) :
        i < j /\ r[a] = s[i] /\ r[b] = s[j] => a < b

(* Linking a message that is not in the list overtakes nobody.               *)
LEMMA InsertKeepsOrder ==
    ASSUME NEW s \in Seq(Msg), LinkedOnce(s), NEW n \in 0 .. Len(s),
           NEW e \in Msg, ~Contains(s, e)
    PROVE  SameOrder(s, InsertAt(s, n + 1, e))
<1> DEFINE r == InsertAt(s, n + 1, e)
<1>1. /\ Len(r) = Len(s) + 1
      /\ \A i \in 1 .. n : r[i] = s[i]
      /\ r[n + 1] = e
      /\ \A i \in n + 2 .. Len(s) + 1 : r[i] = s[i - 1]
  BY InsertAtProperties, ZenonT(40)
<1> HIDE DEF r
<1>2. ASSUME NEW i \in 1 .. Len(s), NEW a \in 1 .. Len(r), r[a] = s[i]
      PROVE  a = IF i <= n THEN i ELSE i + 1
  <2>1. a # n + 1
    BY <1>1, <1>2, Zenon DEF Contains
  <2>2. CASE a <= n
    <3>1. s[a] = s[i] /\ a \in 1 .. Len(s)
      BY <1>1, <1>2, <2>2
    <3>2. a = i
      BY <3>1, Zenon DEF LinkedOnce
    <3>3. QED
      BY <2>2, <3>2
  <2>3. CASE a \in n + 2 .. Len(s) + 1
    <3>1. s[a - 1] = s[i] /\ a - 1 \in 1 .. Len(s)
      BY <1>1, <1>2, <2>3
    <3>2. a - 1 = i
      BY <3>1, Zenon DEF LinkedOnce
    <3>3. QED
      BY <2>3, <3>2
  <2>4. QED
    BY <1>1, <2>1, <2>2, <2>3
<1>3. SameOrder(s, r)
  <2> SUFFICES ASSUME NEW i \in 1 .. Len(s), NEW j \in 1 .. Len(s),
                      NEW a \in 1 .. Len(r), NEW b \in 1 .. Len(r),
                      i < j, r[a] = s[i], r[b] = s[j]
               PROVE  a < b
    BY DEF SameOrder
  <2>1. a = IF i <= n THEN i ELSE i + 1
    BY <1>2, Zenon
  <2>2. b = IF j <= n THEN j ELSE j + 1
    BY <1>2, Zenon
  <2>3. QED
    BY <2>1, <2>2
<1>4. QED
  BY <1>3 DEF r

(* wf_msg_push and wf_msg_push_head overtake nobody.                         *)
LEMMA PushKeepsOrder ==
    ASSUME NEW s \in Seq(Msg), LinkedOnce(s), NEW m \in Msg, ~Contains(s, m)
    PROVE  SameOrder(s, Push(s, m)) /\ SameOrder(s, PushHead(s, m))
<1>1. PushPos(s, m) \in 0 .. Len(s)
  BY PushPosProperties, KeyDomTypes, Zenon
<1>2. PushHeadPos(s, m) \in 0 .. Len(s)
  BY PushHeadPosProperties, KeyDomTypes, Zenon
<1>3. QED
  BY <1>1, <1>2, InsertKeepsOrder, Zenon DEF Push, PushHead

(* _msg_pop closes the gap and moves nobody past another.                    *)
LEMMA UnlinkKeepsOrder ==
    ASSUME NEW s \in Seq(Msg), LinkedOnce(s), NEW m \in Msg
    PROVE  SameOrder(s, Unlink(s, m))
<1> DEFINE r == Unlink(s, m)
<1>1. r \in Seq(Msg)
  BY UnlinkProperties, Zenon
<1>2. PICK p \in 1 .. Len(s) + 1 : \A a \in 1 .. Len(r) :
            Skip(p, a) \in 1 .. Len(s) /\ r[a] = s[Skip(p, a)]
  BY UnlinkProperties, Zenon
<1> HIDE DEF r
<1>3. SUFFICES ASSUME NEW i \in 1 .. Len(s), NEW j \in 1 .. Len(s),
                      NEW a \in 1 .. Len(r), NEW b \in 1 .. Len(r),
                      i < j, r[a] = s[i], r[b] = s[j]
               PROVE  a < b
  BY DEF SameOrder, r
<1>4. Skip(p, a) = i /\ Skip(p, b) = j
  BY <1>2, <1>3, ZenonT(40) DEF LinkedOnce
<1>5. a \in Nat /\ b \in Nat
  BY <1>1
<1>6. QED
  BY <1>3, <1>4, <1>5 DEF Skip

-----------------------------------------------------------------------------
(* Every list is the empty one or a shorter one with an element appended: a  *)
(* set that holds the first and is closed under the second holds all.        *)
LEMMA ListInduction ==
    ASSUME NEW S, NEW P, << >> \in P,
           \A s \in Seq(S), e \in S : s \in P => Append(s, e) \in P
    PROVE  \A s \in Seq(S) : s \in P
<1> DEFINE Bad == { n \in Nat : \E s \in Seq(S) : Len(s) = n /\ s \notin P }
<1>1. SUFFICES ASSUME Bad # {} PROVE FALSE
  <2>1. ASSUME NEW s \in Seq(S) PROVE Len(s) \in Nat
    BY <2>1
  <2>2. QED
    BY <2>1, <1>1
<1>2. PICK n \in Bad : \A h \in Bad : n <= h
  BY <1>1, LeastNat, Zenon
<1>3. PICK s \in Seq(S) : Len(s) = n /\ s \notin P
  BY <1>2
<1>4. s # << >> /\ n \in Nat /\ n # 0
  BY <1>3, EmptySeq
<1> DEFINE f == SubSeq(s, 1, n - 1)
<1>5. s[n] \in S /\ f \in Seq(S) /\ Len(f) = n - 1
  BY <1>3, <1>4
<1>6. s = Append(f, s[n])
  BY <1>3, <1>4
<1> HIDE DEF f
<1>7. n - 1 \in Nat /\ ~(n <= n - 1)
  BY <1>4
<1>8. f \in P
  BY <1>2, <1>5, <1>7
<1>9. QED
  BY <1>3, <1>5, <1>6, <1>8, Zenon

(* Selected is the function it is written as.                                *)
LEMMA SelectedFcn ==
    ASSUME NEW S, NEW s \in Seq(S), NEW T
    PROVE  /\ Selected(s, T)[0] = << >>
           /\ \A k \in 1 .. Len(s) :
                /\ s[k] \in T => Selected(s, T)[k] = Append(Selected(s, T)[k - 1], s[k])
                /\ s[k] \notin T => Selected(s, T)[k] = Selected(s, T)[k - 1]
<1> DEFINE Step(e, k) == IF s[k] \in T THEN Append(e, s[k]) ELSE e
           Body(f, m) == [k \in 0 .. m |-> IF k = 0 THEN << >> ELSE Step(f[k - 1], k)]
           Bad == { m \in Nat : ~ \E f : f = Body(f, m) }
<1>1. Bad = {}
  <2>1. SUFFICES ASSUME Bad # {} PROVE FALSE
    OBVIOUS
  <2>2. PICK m \in Bad : \A h \in Bad : m <= h
    BY <2>1, LeastNat, Zenon
  <2>3. CASE m = 0
    <3> DEFINE f == [k \in 0 .. 0 |-> << >>]
    <3>1. f = Body(f, 0)
      BY DEF Step
    <3>2. QED
      BY <2>2, <2>3, <3>1
  <2>4. CASE m # 0
    <3>1. m - 1 \in Nat /\ m \in Nat /\ ~(m <= m - 1)
      BY <2>2, <2>4
    <3>2. m - 1 \notin Bad
      BY <2>2, <3>1
    <3>3. PICK f : f = Body(f, m - 1)
      BY <3>1, <3>2
    <3> DEFINE g == [k \in 0 .. m |-> IF k < m THEN f[k] ELSE Step(f[m - 1], m)]
    <3> HIDE DEF Step
    <3>4. \A k \in 0 .. m - 1 : f[k] = IF k = 0 THEN << >> ELSE Step(f[k - 1], k)
      <4>1. \A k \in 0 .. m - 1 :
                Body(f, m - 1)[k] = IF k = 0 THEN << >> ELSE Step(f[k - 1], k)
        BY Zenon
      <4>2. QED
        BY <3>3, <4>1, Zenon
    <3>5. ASSUME NEW k \in 0 .. m PROVE g[k] = IF k = 0 THEN << >> ELSE Step(g[k - 1], k)
      <4>1. CASE k = 0
        BY <4>1, <3>1, <3>4
      <4>2. CASE k # 0 /\ k < m
        <5>1. k \in 0 .. m - 1 /\ k - 1 \in 0 .. m /\ k - 1 < m
          BY <4>2, <3>1
        <5>2. g[k] = f[k] /\ g[k - 1] = f[k - 1]
          BY <4>2, <5>1
        <5>3. QED
          BY <3>4, <4>2, <5>1, <5>2, Zenon
      <4>3. CASE k = m
        <5>1. k - 1 \in 0 .. m /\ k - 1 < m /\ k # 0 /\ ~(k < m)
          BY <4>3, <3>1
        <5>2. g[k - 1] = f[k - 1]
          BY <5>1
        <5>3. g[k] = Step(f[m - 1], m)
          BY <4>3, <5>1
        <5>4. QED
          BY <4>3, <5>1, <5>2, <5>3, Zenon
      <4>4. QED
        BY <4>1, <4>2, <4>3, <3>1
    <3>6. g = Body(g, m)
      <4>1. g = [k \in 0 .. m |-> g[k]]
        OBVIOUS
      <4> HIDE DEF g
      <4>2. QED
        BY <4>1, <3>5
    <3>7. m \notin Bad
      BY <3>6
    <3>8. QED
      BY <2>2, <3>7
  <2>5. QED
    BY <2>3, <2>4
<1>2. \E f : f = Body(f, Len(s))
  <2>1. Len(s) \in Nat
    BY LenProperties
  <2>2. QED
    BY <1>1, <2>1
<1>3. Selected(s, T) = CHOOSE f : f = Body(f, Len(s))
  BY Zenon DEF Selected
<1>4. Selected(s, T) = Body(Selected(s, T), Len(s))
  BY <1>2, <1>3, Zenon
<1> DEFINE F == Selected(s, T)
<1> HIDE DEF F
<1>5. F = Body(F, Len(s))
  BY <1>4 DEF F
<1>6. \A k \in 0 .. Len(s) : F[k] = IF k = 0 THEN << >> ELSE Step(F[k - 1], k)
  <2>1. \A k \in 0 .. Len(s) :
            Body(F, Len(s))[k] = IF k = 0 THEN << >> ELSE Step(F[k - 1], k)
    BY Zenon
  <2>2. QED
    BY <1>5, <2>1, Zenon
<1>7. 0 \in 0 .. Len(s) /\ \A k \in 1 .. Len(s) : k \in 0 .. Len(s) /\ k # 0
  BY LenProperties
<1>8. QED
  BY <1>6, <1>7, Zenon DEF F

(* Selecting from an empty list and from a list with one element more.       *)
LEMMA SelectAppend ==
    ASSUME NEW S, NEW T
    PROVE  /\ Select(<< >>, T) = << >>
           /\ \A s \in Seq(S), e \in S :
                /\ e \in T => Select(Append(s, e), T) = Append(Select(s, T), e)
                /\ e \notin T => Select(Append(s, e), T) = Select(s, T)
<1>1. Select(<< >>, T) = << >>
  <2>1. << >> \in Seq(S) /\ Len(<< >>) = 0
    BY EmptySeq
  <2>2. Selected(<< >>, T)[0] = << >>
    BY <2>1, SelectedFcn, Zenon
  <2>3. QED
    BY <2>1, <2>2, Zenon DEF Select
<1>2. SUFFICES ASSUME NEW s \in Seq(S), NEW e \in S
               PROVE  /\ e \in T => Select(Append(s, e), T) = Append(Select(s, T), e)
                      /\ e \notin T => Select(Append(s, e), T) = Select(s, T)
  BY <1>1
<1> DEFINE r == Append(s, e)
           F == Selected(s, T)
           G == Selected(r, T)
           Bad == { k \in Nat : k <= Len(s) /\ F[k] # G[k] }
<1>3. /\ r \in Seq(S) /\ Len(r) = Len(s) + 1 /\ Len(s) \in Nat
      /\ \A i \in 1 .. Len(s) : r[i] = s[i]
      /\ r[Len(s) + 1] = e
  OBVIOUS
<1>4. /\ F[0] = << >>
      /\ \A k \in 1 .. Len(s) : /\ s[k] \in T => F[k] = Append(F[k - 1], s[k])
                                /\ s[k] \notin T => F[k] = F[k - 1]
  BY SelectedFcn, Zenon
<1> HIDE DEF r, F
<1>11. r \in Seq(S)
  BY <1>3
<1>5. /\ G[0] = << >>
      /\ \A k \in 1 .. Len(r) : /\ r[k] \in T => G[k] = Append(G[k - 1], r[k])
                                /\ r[k] \notin T => G[k] = G[k - 1]
  BY <1>11, SelectedFcn, ZenonT(60)
<1> HIDE DEF G
<1>6. Bad = {}
  <2>1. SUFFICES ASSUME Bad # {} PROVE FALSE
    OBVIOUS
  <2>2. PICK m \in Bad : \A h \in Bad : m <= h
    BY <2>1, LeastNat, Zenon
  <2>3. m # 0
    BY <2>2, <1>4, <1>5
  <2>4. m - 1 \in Nat /\ m - 1 <= Len(s) /\ ~(m <= m - 1)
        /\ m \in 1 .. Len(s) /\ m \in 1 .. Len(r)
    BY <2>2, <2>3, <1>3
  <2>5. F[m - 1] = G[m - 1]
    BY <2>2, <2>4
  <2>6. F[m] = G[m]
    BY <2>4, <2>5, <1>3, <1>4, <1>5, Zenon
  <2>7. QED
    BY <2>2, <2>6
<1>7. F[Len(s)] = G[Len(s)]
  BY <1>3, <1>6
<1>8. Len(r) \in 1 .. Len(r) /\ Len(r) - 1 = Len(s) /\ r[Len(r)] = e
  BY <1>3
<1>9. /\ e \in T => G[Len(r)] = Append(F[Len(s)], e)
      /\ e \notin T => G[Len(r)] = F[Len(s)]
  BY <1>5, <1>7, <1>8, Zenon
<1>10. QED
  BY <1>9, Zenon DEF Select, F, G, r

(* What is selected: the elements of the set, as often as they were there.   *)
LEMMA SelectProperties ==
    ASSUME NEW S, NEW T, NEW s \in Seq(S)
    PROVE  /\ Select(s, T) \in Seq(S)
           /\ \A x : Contains(Select(s, T), x) <=> Contains(s, x) /\ x \in T
           /\ IsInjective(s) => IsInjective(Select(s, T))
<1> DEFINE Good(u) == /\ Select(u, T) \in Seq(S)
                      /\ \A x : Contains(Select(u, T), x) <=> Contains(u, x) /\ x \in T
                      /\ IsInjective(u) => IsInjective(Select(u, T))
           P == { u \in Seq(S) : Good(u) }
<1>1. << >> \in P
  <2>1. << >> \in Seq(S) /\ Select(<< >>, T) = << >>
    BY EmptySeq, SelectAppend, Zenon
  <2>2. \A x : ~Contains(<< >>, x)
    BY DEF Contains
  <2>3. QED
    BY <2>1, <2>2, Zenon
<1>2. ASSUME NEW u \in Seq(S), NEW e \in S, u \in P
      PROVE  Append(u, e) \in P
  <2> DEFINE r == Append(u, e)
             w == Select(u, T)
             z == Select(r, T)
  <2>1. /\ w \in Seq(S)
        /\ \A x : Contains(w, x) <=> Contains(u, x) /\ x \in T
        /\ IsInjective(u) => IsInjective(w)
    BY <1>2, Zenon
  <2>2. /\ e \in T => z = Append(w, e)
        /\ e \notin T => z = w
    BY SelectAppend, Zenon
  <2> HIDE DEF w, z
  <2>3. ASSUME NEW v \in Seq(S)
        PROVE  /\ Append(v, e) \in Seq(S)
               /\ \A x : Contains(Append(v, e), x) <=> Contains(v, x) \/ x = e
               /\ IsInjective(Append(v, e)) <=> IsInjective(v) /\ ~Contains(v, e)
    <3> DEFINE a == Append(v, e)
    <3>1. /\ a \in Seq(S) /\ Len(a) = Len(v) + 1 /\ Len(v) \in Nat
          /\ \A i \in 1 .. Len(v) : a[i] = v[i]
          /\ a[Len(v) + 1] = e
          /\ DOMAIN a = 1 .. Len(v) + 1 /\ DOMAIN v = 1 .. Len(v)
      OBVIOUS
    <3> HIDE DEF a
    <3>2. /\ \A i \in 1 .. Len(v) : i \in 1 .. Len(a)
          /\ Len(v) + 1 \in 1 .. Len(a)
          /\ \A i \in 1 .. Len(a) : i \in 1 .. Len(v) \/ i = Len(v) + 1
          /\ \A i \in 1 .. Len(v) : i # Len(v) + 1
      BY <3>1
    <3>3. \A x : Contains(a, x) <=> Contains(v, x) \/ x = e
      BY <3>1, <3>2, Zenon DEF Contains
    <3>4. IsInjective(a) <=> IsInjective(v) /\ ~Contains(v, e)
      BY <3>1, <3>2, Zenon DEF Contains, IsInjective
    <3>5. QED
      BY <3>1, <3>3, <3>4 DEF a
  <2>4. z \in Seq(S)
    BY <2>1, <2>2, <2>3, Zenon
  <2>5. \A x : Contains(z, x) <=> Contains(r, x) /\ x \in T
    BY <2>1, <2>2, <2>3, ZenonT(60)
  <2>6. IsInjective(r) => IsInjective(z)
    BY <2>1, <2>2, <2>3, Zenon
  <2>7. QED
    BY <2>3, <2>4, <2>5, <2>6, Zenon DEF z
<1> HIDE DEF P
<1>3. s \in P
  BY <1>1, <1>2, ListInduction, Zenon
<1>4. QED
  BY <1>3, Zenon DEF P

(* Selecting from two lists one behind the other.                            *)
LEMMA SelectConcat ==
    ASSUME NEW S, NEW T, NEW a \in Seq(S), NEW b \in Seq(S)
    PROVE  Select(a \o b, T) = Select(a, T) \o Select(b, T)
<1> DEFINE Good(u) == Select(a \o u, T) = Select(a, T) \o Select(u, T)
           P == { u \in Seq(S) : Good(u) }
<1>0. \A u \in Seq(S) : Select(u, T) \in Seq(S)
  BY SelectProperties, Zenon
<1>1. << >> \in P
  <2>1. << >> \in Seq(S) /\ Select(<< >>, T) = << >>
    BY EmptySeq, SelectAppend, Zenon
  <2>2. a \o << >> = a /\ Select(a, T) \o << >> = Select(a, T)
    BY <1>0, ConcatEmptySeq, Zenon
  <2>3. QED
    BY <2>1, <2>2, Zenon
<1>2. ASSUME NEW u \in Seq(S), NEW e \in S, u \in P
      PROVE  Append(u, e) \in P
  <2>1. ASSUME NEW v \in Seq(S), NEW w \in Seq(S)
        PROVE  v \o Append(w, e) = Append(v \o w, e) /\ v \o w \in Seq(S)
    OBVIOUS
  <2>2. Append(u, e) \in Seq(S) /\ a \o u \in Seq(S)
    OBVIOUS
  <2>3. /\ e \in T => Select(Append(a \o u, e), T) = Append(Select(a \o u, T), e)
        /\ e \notin T => Select(Append(a \o u, e), T) = Select(a \o u, T)
    BY <2>2, SelectAppend, Zenon
  <2>4. /\ e \in T => Select(Append(u, e), T) = Append(Select(u, T), e)
        /\ e \notin T => Select(Append(u, e), T) = Select(u, T)
    BY SelectAppend, Zenon
  <2>5. Select(a \o u, T) = Select(a, T) \o Select(u, T)
    BY <1>2
  <2>6. a \o Append(u, e) = Append(a \o u, e)
    BY <2>1, Zenon
  <2>7. Select(a, T) \o Append(Select(u, T), e) = Append(Select(a, T) \o Select(u, T), e)
    BY <1>0, <2>1, Zenon
  <2>8. Good(Append(u, e))
    BY <2>3, <2>4, <2>5, <2>6, <2>7, Zenon
  <2>9. QED
    BY <2>2, <2>8
<1> HIDE DEF P
<1>3. b \in P
  BY <1>1, <1>2, ListInduction, Zenon
<1>4. QED
  BY <1>3, Zenon DEF P

(* Selecting from one element.                                               *)
LEMMA SelectOne ==
    ASSUME NEW S, NEW T, NEW e \in S
    PROVE  /\ e \in T => Select(<< e >>, T) = << e >>
           /\ e \notin T => Select(<< e >>, T) = << >>
<1>1. << >> \in Seq(S) /\ Append(<< >>, e) = << e >>
  OBVIOUS
<1>2. Select(<< >>, T) = << >>
  BY SelectAppend, Zenon
<1>3. \A s \in Seq(S) : /\ e \in T => Select(Append(s, e), T) = Append(Select(s, T), e)
                        /\ e \notin T => Select(Append(s, e), T) = Select(s, T)
  BY SelectAppend, Zenon
<1>4. /\ e \in T => Select(Append(<< >>, e), T) = Append(Select(<< >>, T), e)
      /\ e \notin T => Select(Append(<< >>, e), T) = Select(<< >>, T)
  BY <1>1, <1>3
<1>5. QED
  BY <1>1, <1>2, <1>4, Zenon

(* Selecting from a list without any.                                        *)
LEMMA SelectNone ==
    ASSUME NEW S, NEW T, NEW s \in Seq(S), \A i \in 1 .. Len(s) : s[i] \notin T
    PROVE  Select(s, T) = << >>
<1>1. Select(s, T) \in Seq(S)
  BY SelectProperties, Zenon
<1>2. \A x : Contains(Select(s, T), x) <=> Contains(s, x) /\ x \in T
  BY SelectProperties, Zenon
<1>3. \A x : ~Contains(Select(s, T), x)
  BY <1>2, Zenon DEF Contains
<1> DEFINE r == Select(s, T)
<1> HIDE DEF r
<1>4. r \in Seq(S) /\ \A i \in 1 .. Len(r) : FALSE
  BY <1>1, <1>3, Zenon DEF Contains, r
<1>5. r = << >>
  BY <1>4
<1>6. QED
  BY <1>5 DEF r

(* Selecting from a list of nothing else.                                    *)
LEMMA SelectAll ==
    ASSUME NEW S, NEW T, NEW s \in Seq(S), \A i \in 1 .. Len(s) : s[i] \in T
    PROVE  Select(s, T) = s
<1> DEFINE P == { u \in Seq(S) : (\A i \in 1 .. Len(u) : u[i] \in T) => Select(u, T) = u }
<1>1. << >> \in P
  BY EmptySeq, SelectAppend, Zenon
<1>2. ASSUME NEW u \in Seq(S), NEW e \in S, u \in P
      PROVE  Append(u, e) \in P
  <2> DEFINE r == Append(u, e)
  <2>1. /\ r \in Seq(S) /\ Len(r) = Len(u) + 1 /\ Len(u) \in Nat
        /\ r[Len(u) + 1] = e /\ \A i \in 1 .. Len(u) : r[i] = u[i]
    OBVIOUS
  <2>2. e \in T => Select(r, T) = Append(Select(u, T), e)
    <3>1. \A v \in Seq(S), f \in S : f \in T => Select(Append(v, f), T) = Append(Select(v, T), f)
      BY SelectAppend, ZenonT(60)
    <3>2. QED
      BY <3>1, ZenonT(60)
  <2> HIDE DEF r
  <2>3. ASSUME \A i \in 1 .. Len(r) : r[i] \in T PROVE Select(r, T) = r
    <3>1. Len(u) + 1 \in 1 .. Len(r) /\ \A i \in 1 .. Len(u) : i \in 1 .. Len(r)
      BY <2>1
    <3>2. e \in T /\ \A i \in 1 .. Len(u) : u[i] \in T
      BY <2>1, <2>3, <3>1, Zenon
    <3>3. Select(u, T) = u
      BY <1>2, <3>2, Zenon
    <3>4. QED
      BY <2>2, <3>2, <3>3, Zenon DEF r
  <2>4. r \in P
    BY <2>1, <2>3, Zenon
  <2>5. QED
    BY <2>4 DEF r
<1> HIDE DEF P
<1>3. s \in P
  BY <1>1, <1>2, ListInduction, Zenon
<1>4. QED
  BY <1>3, Zenon DEF P

-----------------------------------------------------------------------------
(* What _msg_push does to the messages of one kind: a message behind which   *)
(* nobody of the kind stands joins their end.                                *)
LEMMA InsertSelect ==
    ASSUME NEW s \in Seq(Msg), NEW n \in 0 .. Len(s), NEW m \in Msg, NEW T
    PROVE  /\ m \notin T => Select(InsertAt(s, n + 1, m), T) = Select(s, T)
           /\ m \in T /\ (\A i \in n + 1 .. Len(s) : s[i] \notin T) =>
                Select(InsertAt(s, n + 1, m), T) = Append(Select(s, T), m)
<1> DEFINE a == SubSeq(s, 1, n)
           b == SubSeq(s, n + 1, Len(s))
<1>1. /\ a \in Seq(Msg) /\ b \in Seq(Msg) /\ << m >> \in Seq(Msg)
      /\ a \o << m >> \in Seq(Msg)
      /\ \A i \in 1 .. Len(b) : n + i \in n + 1 .. Len(s) /\ b[i] = s[n + i]
  BY SMTT(60)
<1>2. s = a \o b
  <2>1. 1 \in 1 .. Len(s) + 1 /\ n \in 1 - 1 .. Len(s) /\ Len(s) \in n .. Len(s)
    OBVIOUS
  <2>2. a \o b = SubSeq(s, 1, Len(s))
    BY <2>1, ConcatAdjacentSubSeq, Zenon
  <2>3. QED
    BY <2>2, SubSeqFull, Zenon
<1>3. InsertAt(s, n + 1, m) = (a \o << m >>) \o b
  <2>1. (n + 1) - 1 = n
    OBVIOUS
  <2>2. QED
    BY <2>1, Zenon DEF InsertAt
<1> HIDE DEF a, b
<1>4. Select(s, T) = Select(a, T) \o Select(b, T)
  BY <1>1, <1>2, SelectConcat, Zenon
<1>5. /\ Select((a \o << m >>) \o b, T) = Select(a \o << m >>, T) \o Select(b, T)
      /\ Select(a \o << m >>, T) = Select(a, T) \o Select(<< m >>, T)
  BY <1>1, SelectConcat, ZenonT(60)
<1>6. Select(a, T) \in Seq(Msg) /\ Select(b, T) \in Seq(Msg)
  BY <1>1, SelectProperties, Zenon
<1>7. /\ m \in T => Select(<< m >>, T) = << m >>
      /\ m \notin T => Select(<< m >>, T) = << >>
  BY SelectOne, Zenon
<1>8. ASSUME m \notin T PROVE Select(InsertAt(s, n + 1, m), T) = Select(s, T)
  BY <1>3, <1>4, <1>5, <1>6, <1>7, <1>8, ConcatEmptySeq, Zenon
<1>9. ASSUME m \in T, \A i \in n + 1 .. Len(s) : s[i] \notin T
      PROVE  Select(InsertAt(s, n + 1, m), T) = Append(Select(s, T), m)
  <2>1. \A i \in 1 .. Len(b) : b[i] \notin T
    BY <1>1, <1>9
  <2>2. Select(b, T) = << >>
    BY <1>1, <2>1, SelectNone, Zenon
  <2>3. Select(a, T) \o << m >> = Append(Select(a, T), m)
    BY <1>6
  <2>4. Select(a, T) \o << m >> \in Seq(Msg)
    BY <1>6
  <2>5. QED
    BY <1>3, <1>4, <1>5, <1>6, <1>7, <1>9, <2>2, <2>3, <2>4, ConcatEmptySeq, Zenon
<1>10. QED
  BY <1>8, <1>9

\* The messages of T in s are x, s[p] and y, and without s[p] they are x and y.
Around(s, p, T, x, y) ==
    /\ Select(s, T) = (x \o << s[p] >>) \o y
    /\ Select(Unlink(s, s[p]), T) = x \o y
    /\ \A e : Contains(x, e) \/ Contains(y, e) => e # s[p]
    /\ (\A i \in 1 .. p - 1 : s[i] \notin T) => x = << >>
    /\ (\A i \in p + 1 .. Len(s) : s[i] \notin T) => y = << >>

(* What _msg_pop does to the messages of one kind: the message leaves its    *)
(* place among them, which is the first or the last one if nobody of the     *)
(* kind stands before or behind it.                                          *)
LEMMA UnlinkSelect ==
    ASSUME NEW s \in Seq(Msg), LinkedOnce(s), NEW p \in 1 .. Len(s), NEW T
    PROVE  /\ s[p] \notin T => Select(Unlink(s, s[p]), T) = Select(s, T)
           /\ s[p] \in T => \E x, y \in Seq(Msg) : Around(s, p, T, x, y)
<1> DEFINE m == s[p]
           a == SubSeq(s, 1, p - 1)
           b == SubSeq(s, p + 1, Len(s))
<1>1. /\ a \in Seq(Msg) /\ b \in Seq(Msg) /\ m \in Msg /\ << m >> \in Seq(Msg)
      /\ a \o << m >> \in Seq(Msg)
      /\ \A i \in 1 .. Len(a) : i \in 1 .. p - 1 /\ i \in 1 .. Len(s) /\ i # p /\ a[i] = s[i]
      /\ \A i \in 1 .. Len(b) :
            p + i \in p + 1 .. Len(s) /\ p + i \in 1 .. Len(s) /\ p + i # p /\ b[i] = s[p + i]
  OBVIOUS
<1>2. s = (a \o << m >>) \o b
  <2>1. /\ 1 \in 1 .. Len(s) + 1 /\ p \in 1 - 1 .. Len(s) /\ Len(s) \in p .. Len(s)
        /\ 1 \in 1 .. Len(s) /\ p \in 1 .. Len(s)
    OBVIOUS
  <2>2. SubSeq(s, 1, p) \o b = SubSeq(s, 1, Len(s))
    BY <2>1, ConcatAdjacentSubSeq, Zenon
  <2>3. SubSeq(s, 1, p) = a \o << m >>
    BY <2>1, SubSeqRecursiveSecond, Zenon
  <2>4. QED
    BY <2>2, <2>3, SubSeqFull, Zenon
<1>3. PosOf(s, m) = p /\ Contains(s, m)
  BY Zenon DEF PosOf, Contains, LinkedOnce
<1>4. Unlink(s, m) = a \o b
  BY <1>3 DEF Unlink, RemoveAt
<1>5. \A e : Contains(a, e) \/ Contains(b, e) => e # m
  BY <1>1, ZenonT(60) DEF Contains, LinkedOnce
<1> HIDE DEF a, b, m
<1>6. /\ Select((a \o << m >>) \o b, T) = Select(a \o << m >>, T) \o Select(b, T)
      /\ Select(a \o << m >>, T) = Select(a, T) \o Select(<< m >>, T)
      /\ Select(a \o b, T) = Select(a, T) \o Select(b, T)
  BY <1>1, SelectConcat, ZenonT(60)
<1>7. Select(a, T) \in Seq(Msg) /\ Select(b, T) \in Seq(Msg)
  BY <1>1, SelectProperties, Zenon
<1>8. /\ m \in T => Select(<< m >>, T) = << m >>
      /\ m \notin T => Select(<< m >>, T) = << >>
  BY <1>1, SelectOne, Zenon
<1>9. ASSUME m \notin T PROVE Select(Unlink(s, m), T) = Select(s, T)
  BY <1>2, <1>4, <1>6, <1>7, <1>8, <1>9, ConcatEmptySeq, Zenon
<1>10. ASSUME m \in T
       PROVE  /\ Select(s, T) = (Select(a, T) \o << m >>) \o Select(b, T)
              /\ Select(Unlink(s, m), T) = Select(a, T) \o Select(b, T)
  BY <1>2, <1>4, <1>6, <1>8, <1>10, Zenon
<1>11. \A e : Contains(Select(a, T), e) \/ Contains(Select(b, T), e) => e # m
  BY <1>1, <1>5, SelectProperties, Zenon
<1>12. /\ (\A i \in 1 .. p - 1 : s[i] \notin T) => Select(a, T) = << >>
       /\ (\A i \in p + 1 .. Len(s) : s[i] \notin T) => Select(b, T) = << >>
  <2>1. ASSUME \A i \in 1 .. p - 1 : s[i] \notin T PROVE Select(a, T) = << >>
    <3>1. \A i \in 1 .. Len(a) : a[i] \notin T
      BY <1>1, <2>1, Zenon
    <3>2. QED
      BY <1>1, <3>1, SelectNone, Zenon
  <2>2. ASSUME \A i \in p + 1 .. Len(s) : s[i] \notin T PROVE Select(b, T) = << >>
    <3>1. \A i \in 1 .. Len(b) : b[i] \notin T
      BY <1>1, <2>2, Zenon
    <3>2. QED
      BY <1>1, <3>1, SelectNone, Zenon
  <2>3. QED
    BY <2>1, <2>2
<1>13. QED
  BY <1>7, <1>9, <1>10, <1>11, <1>12, Zenon DEF m, Around
=============================================================================
