---------------------------- MODULE ApStaProofs ----------------------------
(***************************************************************************)
(* Proofs about the stations of an access point, for any number of         *)
(* stations, table entries and messages, any security setting and any      *)
(* bounds: the framework knows exactly the established stations, and no    *)
(* message and no entry is lost or used twice.                             *)
(*                                                                         *)
(* What the operations on lists do comes first, then the inductive         *)
(* invariant Inv, then one lemma for each action.                          *)
(***************************************************************************)
EXTENDS ApSta, SequenceTheorems, FiniteSetTheorems, TLAPS

\* The lemmas about lists; the messages here have no urgency.
NoTag == [m \in Msg |-> [dom |-> 0, pri |-> 0, id |-> 0]]
L == INSTANCE WfMsgLemmas WITH Tag <- NoTag

-----------------------------------------------------------------------------
(* Lists *)

(* The empty list.                                                           *)
LEMMA EmptyList ==
    ASSUME NEW S
    PROVE  /\ << >> \in Seq(S) /\ IsInjective(<< >>)
           /\ \A x : ~Contains(<< >>, x)
BY DEF Contains, IsInjective

(* A list with one element more at its end.                                  *)
LEMMA AppendList ==
    ASSUME NEW S, NEW s \in Seq(S), NEW e \in S
    PROVE  /\ Append(s, e) \in Seq(S) /\ Append(s, e) # << >>
           /\ \A x : Contains(Append(s, e), x) <=> Contains(s, x) \/ x = e
           /\ IsInjective(Append(s, e)) <=> IsInjective(s) /\ ~Contains(s, e)
<1> DEFINE a == Append(s, e)
<1>1. /\ a \in Seq(S) /\ Len(a) = Len(s) + 1 /\ Len(s) \in Nat /\ a # << >>
      /\ \A i \in 1 .. Len(s) : a[i] = s[i]
      /\ a[Len(s) + 1] = e
      /\ DOMAIN a = 1 .. Len(s) + 1 /\ DOMAIN s = 1 .. Len(s)
  OBVIOUS
<1> HIDE DEF a
<1>2. /\ \A i \in 1 .. Len(s) : i \in 1 .. Len(a)
      /\ Len(s) + 1 \in 1 .. Len(a)
      /\ \A i \in 1 .. Len(a) : i \in 1 .. Len(s) \/ i = Len(s) + 1
      /\ \A i \in 1 .. Len(s) : i # Len(s) + 1
  BY <1>1
<1>3. \A x : Contains(a, x) <=> Contains(s, x) \/ x = e
  BY <1>1, <1>2, Zenon DEF Contains
<1>4. IsInjective(a) <=> IsInjective(s) /\ ~Contains(s, e)
  BY <1>1, <1>2, Zenon DEF Contains, IsInjective
<1>5. QED
  BY <1>1, <1>3, <1>4 DEF a

(* Two lists one behind the other.                                           *)
LEMMA ConcatList ==
    ASSUME NEW S, NEW s \in Seq(S), NEW t \in Seq(S)
    PROVE  /\ s \o t \in Seq(S)
           /\ \A x : Contains(s \o t, x) <=> Contains(s, x) \/ Contains(t, x)
           /\ IsInjective(s \o t) <=>
                IsInjective(s) /\ IsInjective(t) /\ \A x : Contains(s, x) => ~Contains(t, x)
<1> DEFINE a == s \o t
<1>1. /\ a \in Seq(S) /\ Len(a) = Len(s) + Len(t) /\ Len(s) \in Nat /\ Len(t) \in Nat
      /\ \A i \in 1 .. Len(s) : a[i] = s[i]
      /\ \A i \in 1 .. Len(t) : a[Len(s) + i] = t[i]
      /\ DOMAIN a = 1 .. Len(a) /\ DOMAIN s = 1 .. Len(s) /\ DOMAIN t = 1 .. Len(t)
  OBVIOUS
<1> HIDE DEF a
<1>2. /\ \A i \in 1 .. Len(s) : i \in 1 .. Len(a)
      /\ \A i \in 1 .. Len(t) : Len(s) + i \in 1 .. Len(a)
      /\ \A i \in 1 .. Len(a) : i \in 1 .. Len(s) \/ \E j \in 1 .. Len(t) : i = Len(s) + j
      /\ \A i \in 1 .. Len(s), j \in 1 .. Len(t) : i # Len(s) + j
      /\ \A i, j \in 1 .. Len(t) : Len(s) + i = Len(s) + j => i = j
  <2>1. ASSUME NEW i \in 1 .. Len(a), i \notin 1 .. Len(s)
        PROVE  \E j \in 1 .. Len(t) : i = Len(s) + j
    <3>1. i - Len(s) \in 1 .. Len(t) /\ i = Len(s) + (i - Len(s))
      BY <1>1, <2>1
    <3>2. QED
      BY <3>1
  <2>2. QED
    BY <1>1, <2>1
<1>3. ASSUME NEW x PROVE Contains(a, x) <=> Contains(s, x) \/ Contains(t, x)
  <2>1. ASSUME Contains(s, x) PROVE Contains(a, x)
    BY <1>1, <1>2, <2>1, Zenon DEF Contains
  <2>2. ASSUME Contains(t, x) PROVE Contains(a, x)
    <3>1. PICK i \in 1 .. Len(t) : t[i] = x
      BY <2>2 DEF Contains
    <3>2. Len(s) + i \in 1 .. Len(a) /\ a[Len(s) + i] = x
      BY <1>1, <1>2, <3>1, Zenon
    <3>3. QED
      BY <3>2, Zenon DEF Contains
  <2>3. ASSUME Contains(a, x) PROVE Contains(s, x) \/ Contains(t, x)
    <3>1. PICK i \in 1 .. Len(a) : a[i] = x
      BY <2>3 DEF Contains
    <3>2. CASE i \in 1 .. Len(s)
      BY <1>1, <3>1, <3>2, Zenon DEF Contains
    <3>3. CASE i \notin 1 .. Len(s)
      <4>1. PICK j \in 1 .. Len(t) : i = Len(s) + j
        BY <1>2, <3>3, Zenon
      <4>2. t[j] = x
        BY <1>1, <3>1, <4>1, Zenon
      <4>3. QED
        BY <4>2, Zenon DEF Contains
    <3>4. QED
      BY <3>2, <3>3
  <2>4. QED
    BY <2>1, <2>2, <2>3
<1>4. ASSUME IsInjective(a)
      PROVE  IsInjective(s) /\ IsInjective(t) /\ \A x : Contains(s, x) => ~Contains(t, x)
  <2>1. IsInjective(s)
    BY <1>1, <1>2, <1>4, Zenon DEF IsInjective
  <2>2. IsInjective(t)
    BY <1>1, <1>2, <1>4, Zenon DEF IsInjective
  <2>3. \A x : Contains(s, x) => ~Contains(t, x)
    BY <1>1, <1>2, <1>4, Zenon DEF IsInjective, Contains
  <2>4. QED
    BY <2>1, <2>2, <2>3
<1>5. ASSUME IsInjective(s), IsInjective(t), \A x : Contains(s, x) => ~Contains(t, x)
      PROVE  IsInjective(a)
  <2>1. SUFFICES ASSUME NEW i \in 1 .. Len(a), NEW j \in 1 .. Len(a), a[i] = a[j]
                 PROVE  i = j
    BY <1>1, Zenon DEF IsInjective
  <2>2. CASE i \in 1 .. Len(s) /\ j \in 1 .. Len(s)
    BY <1>1, <1>5, <2>1, <2>2, Zenon DEF IsInjective
  <2>7. ASSUME NEW k \in 1 .. Len(a), k \notin 1 .. Len(s)
        PROVE  \E l \in 1 .. Len(t) : k = Len(s) + l /\ a[k] = t[l]
    <3>1. PICK l \in 1 .. Len(t) : k = Len(s) + l
      BY <1>2, <2>7, Zenon
    <3>2. a[k] = t[l]
      BY <1>1, <3>1, Zenon
    <3>3. QED
      BY <3>1, <3>2, Zenon
  <2>3. CASE i \in 1 .. Len(s) /\ j \notin 1 .. Len(s)
    <3>1. PICK l \in 1 .. Len(t) : a[j] = t[l]
      BY <2>3, <2>7, Zenon
    <3>2. Contains(s, a[i]) /\ Contains(t, a[i])
      BY <1>1, <2>1, <2>3, <3>1, Zenon DEF Contains
    <3>3. QED
      BY <1>5, <3>2, Zenon
  <2>4. CASE i \notin 1 .. Len(s) /\ j \in 1 .. Len(s)
    <3>1. PICK l \in 1 .. Len(t) : a[i] = t[l]
      BY <2>4, <2>7, Zenon
    <3>2. Contains(s, a[i]) /\ Contains(t, a[i])
      BY <1>1, <2>1, <2>4, <3>1, Zenon DEF Contains
    <3>3. QED
      BY <1>5, <3>2, Zenon
  <2>5. CASE i \notin 1 .. Len(s) /\ j \notin 1 .. Len(s)
    <3>1. PICK l \in 1 .. Len(t) : i = Len(s) + l /\ a[i] = t[l]
      BY <2>5, <2>7, Zenon
    <3>2. PICK k \in 1 .. Len(t) : j = Len(s) + k /\ a[j] = t[k]
      BY <2>5, <2>7, Zenon
    <3>3. l = k
      BY <1>1, <1>5, <2>1, <3>1, <3>2, Zenon DEF IsInjective
    <3>4. QED
      BY <3>1, <3>2, <3>3
  <2>6. QED
    BY <2>2, <2>3, <2>4, <2>5
<1>6. QED
  BY <1>1, <1>3, <1>4, <1>5, Zenon DEF a

(* A list of one element.                                                    *)
LEMMA OneList ==
    ASSUME NEW S, NEW e \in S
    PROVE  /\ << e >> \in Seq(S) /\ IsInjective(<< e >>)
           /\ \A x : Contains(<< e >>, x) <=> x = e
BY DEF Contains, IsInjective

(* A list without its head.                                                  *)
LEMMA TailList ==
    ASSUME NEW S, NEW s \in Seq(S), s # << >>
    PROVE  /\ Head(s) \in S /\ Tail(s) \in Seq(S) /\ Contains(s, Head(s))
           /\ \A x : Contains(s, x) <=> x = Head(s) \/ Contains(Tail(s), x)
           /\ IsInjective(s) <=> IsInjective(Tail(s)) /\ ~Contains(Tail(s), Head(s))
<1> DEFINE h == Head(s)
           t == Tail(s)
<1>1. h \in S /\ t \in Seq(S) /\ << h >> \o t = s
  OBVIOUS
<1> HIDE DEF h, t
<1>2. /\ << h >> \in Seq(S) /\ IsInjective(<< h >>)
      /\ \A x : Contains(<< h >>, x) <=> x = h
  BY <1>1, OneList, Zenon
<1>3. \A x : Contains(<< h >> \o t, x) <=> Contains(<< h >>, x) \/ Contains(t, x)
  BY <1>1, <1>2, ConcatList, Zenon
<1>4. IsInjective(<< h >> \o t) <=>
        IsInjective(<< h >>) /\ IsInjective(t) /\ \A x : Contains(<< h >>, x) => ~Contains(t, x)
  BY <1>1, <1>2, ConcatList, Zenon
<1>5. QED
  BY <1>1, <1>2, <1>3, <1>4, Zenon DEF h, t

(* A list the other way round.                                               *)
LEMMA ReverseList ==
    ASSUME NEW S, NEW s \in Seq(S)
    PROVE  /\ Reverse(s) \in Seq(S)
           /\ \A x : Contains(Reverse(s), x) <=> Contains(s, x)
           /\ IsInjective(s) => IsInjective(Reverse(s))
<1> DEFINE r == Reverse(s)
<1>1. /\ Len(s) \in Nat /\ DOMAIN s = 1 .. Len(s) /\ r \in Seq(S) /\ Len(r) = Len(s)
      /\ \A i \in 1 .. Len(s) : r[i] = s[(Len(s) - i) + 1]
      /\ DOMAIN r = 1 .. Len(s)
  BY DEF Reverse
<1> HIDE DEF r
<1>2. /\ \A i \in 1 .. Len(s) : (Len(s) - i) + 1 \in 1 .. Len(s)
      /\ \A i \in 1 .. Len(s) : \E j \in 1 .. Len(s) : i = (Len(s) - j) + 1
      /\ \A i, j \in 1 .. Len(s) : (Len(s) - i) + 1 = (Len(s) - j) + 1 => i = j
  <2>1. ASSUME NEW i \in 1 .. Len(s) PROVE \E j \in 1 .. Len(s) : i = (Len(s) - j) + 1
    <3>1. (Len(s) - i) + 1 \in 1 .. Len(s) /\ i = (Len(s) - ((Len(s) - i) + 1)) + 1
      BY <1>1
    <3>2. QED
      BY <3>1
  <2>2. QED
    BY <1>1, <2>1
<1>3. ASSUME NEW x PROVE Contains(r, x) <=> Contains(s, x)
  <2>1. ASSUME Contains(r, x) PROVE Contains(s, x)
    <3>1. PICK i \in 1 .. Len(s) : r[i] = x
      BY <1>1, <2>1, Zenon DEF Contains
    <3>2. (Len(s) - i) + 1 \in 1 .. Len(s) /\ s[(Len(s) - i) + 1] = x
      BY <1>1, <1>2, <3>1, Zenon
    <3>3. QED
      BY <3>2, Zenon DEF Contains
  <2>2. ASSUME Contains(s, x) PROVE Contains(r, x)
    <3>1. PICK i \in 1 .. Len(s) : s[i] = x
      BY <2>2, Zenon DEF Contains
    <3>2. PICK j \in 1 .. Len(s) : i = (Len(s) - j) + 1
      BY <1>2, Zenon
    <3>3. r[j] = x /\ j \in 1 .. Len(r)
      BY <1>1, <3>1, <3>2, Zenon
    <3>4. QED
      BY <3>3, Zenon DEF Contains
  <2>3. QED
    BY <2>1, <2>2
<1>4. ASSUME IsInjective(s) PROVE IsInjective(r)
  <2>1. SUFFICES ASSUME NEW i \in 1 .. Len(s), NEW j \in 1 .. Len(s), r[i] = r[j]
                 PROVE  i = j
    BY <1>1, Zenon DEF IsInjective
  <2>2. s[(Len(s) - i) + 1] = s[(Len(s) - j) + 1]
    BY <1>1, <2>1, Zenon
  <2>3. (Len(s) - i) + 1 = (Len(s) - j) + 1
    <3>1. (Len(s) - i) + 1 \in DOMAIN s /\ (Len(s) - j) + 1 \in DOMAIN s
      BY <1>1, <1>2, Zenon
    <3>2. \A k, l \in DOMAIN s : s[k] = s[l] => k = l
      BY <1>4, Zenon DEF IsInjective
    <3>3. QED
      BY <2>2, <3>1, <3>2, Zenon
  <2>4. QED
    BY <1>2, <2>3, Zenon
<1>5. QED
  BY <1>1, <1>3, <1>4 DEF r

(* The elements of a list that are in a set.                                 *)
LEMMA SelectList ==
    ASSUME NEW S, NEW T, NEW s \in Seq(S)
    PROVE  /\ Select(s, T) \in Seq(S)
           /\ \A x : Contains(Select(s, T), x) <=> Contains(s, x) /\ x \in T
           /\ IsInjective(s) => IsInjective(Select(s, T))
<1>1. NoTag \in [Msg -> L!Tags]
  BY DEF NoTag, L!Tags
<1>2. L!Select(s, T) = Select(s, T)
  BY Zenon DEF Select, Selected, L!Select, L!Selected
<1>3. /\ L!Select(s, T) \in Seq(S)
      /\ \A x : L!Contains(L!Select(s, T), x) <=> L!Contains(s, x) /\ x \in T
      /\ L!IsInjective(s) => L!IsInjective(L!Select(s, T))
  BY <1>1, L!SelectProperties, Zenon
<1>4. ASSUME NEW a
      PROVE  /\ L!IsInjective(a) <=> IsInjective(a)
             /\ \A x : L!Contains(a, x) <=> Contains(a, x)
  BY Zenon DEF L!IsInjective, IsInjective, L!Contains, Contains
<1>5. QED
  BY <1>2, <1>3, <1>4, Zenon

(* The elements of a finite set in some order.                               *)
LEMMA SetToList ==
    ASSUME NEW S, IsFiniteSet(S)
    PROVE  /\ SetToSeq(S) \in Seq(S) /\ IsInjective(SetToSeq(S))
           /\ \A x : Contains(SetToSeq(S), x) <=> x \in S
<1> DEFINE n == Cardinality(S)
           D == 1 .. n
<1>1. n \in Nat /\ ExistsBijection(D, S)
  BY FS_CardinalityType
<1>2. PICK f \in [D -> S] : IsInjective(f)
  BY <1>1, Zenon DEF ExistsBijection, Bijection, Injection
<1>3. SetToSeq(S) \in [D -> S] /\ IsInjective(SetToSeq(S))
  BY <1>2, Zenon DEF SetToSeq
<1> DEFINE s == SetToSeq(S)
<1> HIDE DEF s
<1>4. s \in [D -> S] /\ IsInjective(s)
  BY <1>3 DEF s
<1>5. s \in Seq(S) /\ Len(s) = n
  BY <1>1, <1>4
<1>6. IsFiniteSet(D) /\ Cardinality(D) = n
  BY <1>1, FS_Interval
<1>7. s \in Surjection(D, S)
  <2>1. s \in Injection(D, S)
    BY <1>4, Zenon DEF Injection
  <2>2. QED
    BY <1>6, <2>1, FS_Injection, Zenon
<1>8. \A x \in S : \E i \in D : s[i] = x
  BY <1>7, Zenon DEF Surjection
<1>9. \A i \in D : s[i] \in S
  BY <1>4
<1>10. \A x : Contains(s, x) <=> x \in S
  BY <1>5, <1>8, <1>9, Zenon DEF Contains
<1>11. QED
  BY <1>4, <1>5, <1>10 DEF s

(* A list that holds every element of a finite set once is as long as the    *)
(* set is large.                                                             *)
LEMMA ListLength ==
    ASSUME NEW S, NEW s \in Seq(S), IsInjective(s), \A x \in S : Contains(s, x)
    PROVE  Len(s) = Cardinality(S)
<1> DEFINE D == 1 .. Len(s)
<1>1. s \in [D -> S] /\ Len(s) \in Nat
  OBVIOUS
<1>2. s \in Bijection(D, S)
  <2>1. s \in Injection(D, S)
    BY <1>1, Zenon DEF Injection
  <2>2. s \in Surjection(D, S)
    BY <1>1, Zenon DEF Surjection, Contains
  <2>3. QED
    BY <2>1, <2>2, Zenon DEF Bijection
<1>3. IsFiniteSet(D) /\ Cardinality(D) = Len(s)
  <2>1. PICK n \in Nat : n = Len(s)
    BY <1>1
  <2>2. IsFiniteSet(1 .. n) /\ Cardinality(1 .. n) = n
    BY FS_Interval
  <2>3. QED
    BY <2>1, <2>2
<1>4. ExistsBijection(D, S)
  BY <1>2, Zenon DEF ExistsBijection
<1>5. QED
  BY <1>3, <1>4, FS_Bijection, Zenon

-----------------------------------------------------------------------------
(* The inductive invariant *)

Body == [sta : Sta \cup {None}, kind : DOMAIN Kind \cup {None}]

(* The types, of the records too. *)
ApRec == [at : {"off", "poll", "assoc", "report", "remove", "stop"}, node : Node \cup {None},
          msg : Msg \cup {None}]
RxRec == [at : {"idle", "found", "added", "oops", "torn"}, node : Node \cup {None}, body : Body]
FwRec == [at : {"idle", "found", "oops"}, node : Node \cup {None}, tag : Tag \cup {None}]

Types ==
    /\ TypeOK
    /\ ap \in ApRec /\ rx \in RxRec /\ fw \in FwRec
    /\ body \in [Msg -> Body]
    /\ stray \in SUBSET Msg

(* Every entry is linked or free; a station has one entry at most; an entry  *)
(* that is being set up belongs to the receive thread.                       *)
Entries ==
    /\ IsInjective(list) /\ IsInjective(spare)
    /\ \A n \in Node : Linked(n) <=> ~Contains(spare, n)
    /\ \A n \in Node : ~Linked(n) \/ n \in raw => pc[n] = "auth" /\ st[n] = "auth"
    /\ \A n \in Node : Linked(n) => who[n] \in Sta
    /\ \A n, k \in Node : Linked(n) /\ Linked(k) /\ who[n] = who[k] => n = k
    /\ \A n \in raw : rx.at = "added" /\ n = rx.node

(* What the receive thread and the other ones found out still holds when     *)
(* they go on, as far as they rely on it.                                    *)
Finders ==
    /\ rx.at \in {"found", "added"} => rx.body.sta \in Sta /\ rx.body.kind \in DOMAIN Kind
    /\ rx.at = "added" =>
           /\ rx.node \in Node /\ rx.node \in raw
           /\ Linked(rx.node) /\ who[rx.node] = rx.body.sta
    /\ rx.at = "found" /\ rx.node = None =>
           \A n \in Node : Linked(n) => who[n] # rx.body.sta
    /\ rx.at = "found" /\ rx.node # None /\ Linked(rx.node) => who[rx.node] = rx.body.sta
    /\ fw.at = "found" => fw.node \in Node /\ fw.tag \in {"deauth", "ba"}

(* Where the protothread of an entry waits says how far the station got, but *)
(* for the entry that is being associated or removed.                        *)
Settled(n) ==
    /\ pc[n] \in {"auth", "open", "chal", "seq4"} => st[n] = "auth"
    /\ pc[n] \in {"maint", "dis"} => st[n] = "unblock"

Control ==
    /\ ap.at \in {"assoc", "report", "remove"} =>
           ap.node \in Node /\ Linked(ap.node) /\ ap.node \notin raw
    /\ ap.at = "assoc" => HasMsg(ap.node)
    /\ \A n \in Node :
           \/ Settled(n)
           \/ ap.at \in {"assoc", "report", "remove"} /\ ap.node = n
    /\ ap.at \in {"assoc", "report"} => ~Established(st[ap.node])
    /\ ap.at = "off" => \A n \in Node : st[n] = "auth"

(* The request is read again for the report: it is still the one of the      *)
(* station unless the receive thread took its memory.                        *)
Request ==
    /\ \A n \in Node, m \in Msg :
           Served(n) /\ Contains(q[n], m) /\ TagOf[m] = "assoc" => body[m].sta = who[n]
    /\ ap.at = "report" =>
           /\ ap.msg \in Msg /\ TagOf[ap.msg] = "assoc" /\ body[ap.msg].sta \in Sta
           /\ Contains(pool["assoc"], ap.msg) => body[ap.msg].sta = who[ap.node]

(* What the framework was told. *)
Told ==
    Running =>
        \A s \in Sta :
            /\ told[s] # None <=> \E n \in Node : Served(n) /\ who[n] = s /\ Established(st[n])
            /\ told[s] # None /\ s \notin reused => told[s] = s
            /\ told[s] # None => status = "established"

(* A message is in the pool of its tag or in one queue, once, or is stray. *)
Stores ==
    /\ \A t \in Tag : IsInjective(pool[t])
    /\ \A n \in Node : Served(n) => IsInjective(q[n])
    /\ \A t \in Tag, m \in Msg : Contains(pool[t], m) => TagOf[m] = t

OneHome(m) ==
    /\ \A t \in Tag, n \in Node : Contains(pool[t], m) /\ Served(n) => ~Contains(q[n], m)
    /\ \A n, k \in Node :
           Served(n) /\ Served(k) /\ Contains(q[n], m) /\ Contains(q[k], m) => n = k
    /\ m \in stray <=> /\ \A t \in Tag : ~Contains(pool[t], m)
                       /\ \A n \in Node : Served(n) => ~Contains(q[n], m)

Messages ==
    /\ Stores
    /\ Running => \A m \in Msg : OneHome(m)
    /\ ~Running => \A t \in Tag : pool[t] = << >>

Inv == Types /\ Entries /\ Finders /\ Control /\ Request /\ Told /\ Messages

(* What the assumptions on the constants give.                               *)
LEMMA ApFacts ==
    /\ TagOf \in [Msg -> Tag] /\ IsFiniteSet(Node) /\ IsFiniteSet(Msg)
    /\ None \notin Sta /\ None \notin Node /\ None \notin Msg
    /\ \A k \in DOMAIN Kind : Kind[k] \in Tag
    /\ \A k \in Kinds : k \in DOMAIN Kind
    /\ \A t \in Loads : t \in {"deauth", "ba"} /\ t \in Tag
    /\ NoBody \in Body
BY ApAssumption DEF Kind, Tag, NoBody, Body

(* The pools of a start hold every message, once and under its tag.          *)
LEMMA AllFreePools ==
    /\ AllFree \in [Tag -> Seq(Msg)]
    /\ \A t \in Tag : IsInjective(AllFree[t])
    /\ \A t \in Tag, m \in Msg : Contains(AllFree[t], m) <=> TagOf[m] = t
<1>1. ASSUME NEW t \in Tag
      PROVE  /\ AllFree[t] \in Seq(Msg) /\ IsInjective(AllFree[t])
             /\ \A m \in Msg : Contains(AllFree[t], m) <=> TagOf[m] = t
  <2> DEFINE F == { m \in Msg : TagOf[m] = t }
  <2>1. IsFiniteSet(F)
    BY ApFacts, FS_Subset
  <2>2. AllFree[t] = SetToSeq(F)
    BY DEF AllFree
  <2> HIDE DEF F
  <2>3. /\ SetToSeq(F) \in Seq(F) /\ IsInjective(SetToSeq(F))
        /\ \A x : Contains(SetToSeq(F), x) <=> x \in F
    BY <2>1, SetToList, Zenon
  <2>4. SetToSeq(F) \in Seq(Msg)
    BY <2>3 DEF F
  <2>5. QED
    BY <2>2, <2>3, <2>4, Zenon DEF F
<1>2. AllFree \in [Tag -> Seq(Msg)]
  <2>1. AllFree = [t \in Tag |-> AllFree[t]]
    BY DEF AllFree
  <2>2. QED
    BY <1>1, <2>1
<1>3. QED
  BY <1>1, <1>2, Zenon

(* The invariant holds before the first start.                               *)
LEMMA InitInv == Init => Inv
<1> SUFFICES ASSUME Init PROVE Inv
  OBVIOUS
<1>1. /\ SetToSeq(Node) \in Seq(Node) /\ IsInjective(SetToSeq(Node))
      /\ \A x : Contains(SetToSeq(Node), x) <=> x \in Node
  BY ApFacts, SetToList, Zenon
<1>2. \A S : << >> \in Seq(S) /\ IsInjective(<< >>) /\ \A x : ~Contains(<< >>, x)
  BY EmptyList, Zenon
<1>3. \A n : ~Linked(n)
  BY <1>2 DEF Init, Linked
<1>4. Types
  <2>1. TypeOK
    <3>1. list \in Seq(Node) /\ spare \in Seq(Node) /\ raw \subseteq Node
      BY <1>1 DEF Init
    <3>2. q \in [Node -> Seq(Msg)] /\ pool \in [Tag -> Seq(Msg)]
      BY DEF Init
    <3>3. pkt \in [Node -> BOOLEAN]
      BY Zenon DEF Init
    <3>4. /\ who \in [Node -> Sta \cup {None}]
          /\ pc \in [Node -> {"auth", "open", "chal", "seq4", "maint", "dis"}]
          /\ st \in [Node -> {"auth", "assoc", "unblock", "dauth"}]
          /\ idle \in [Node -> 0 .. IdleMax]
      BY ApAssumption DEF Init
    <3>5. /\ ap.at \in {"off", "poll", "assoc", "report", "remove", "stop"}
          /\ rx.at \in {"idle", "found", "added", "oops", "torn"}
          /\ fw.at \in {"idle", "found", "oops"}
          /\ status \in {"uninit", "standby", "established"}
          /\ told \in [Sta -> Sta \cup {None}]
      BY DEF Init, ApAt, RxIdle, FwIdle
    <3>6. QED
      BY <3>1, <3>2, <3>3, <3>4, <3>5, Zenon DEF TypeOK
  <2>2. /\ ap \in ApRec
        /\ rx \in RxRec
        /\ fw \in FwRec
        /\ body \in [Msg -> Body]
        /\ stray \in SUBSET Msg
    BY ApFacts DEF Init, ApAt, RxIdle, FwIdle, ApRec, RxRec, FwRec
  <2>3. QED
    BY <2>1, <2>2, Zenon DEF Types
<1>5. Entries
  <2>1. IsInjective(list) /\ IsInjective(spare)
    BY <1>1, <1>2 DEF Init
  <2>2. \A n \in Node : Linked(n) <=> ~Contains(spare, n)
    BY <1>1, <1>3 DEF Init
  <2>3. \A n \in Node : pc[n] = "auth" /\ st[n] = "auth"
    BY DEF Init
  <2>4. raw = {}
    BY DEF Init
  <2>5. QED
    BY <1>3, <2>1, <2>2, <2>3, <2>4 DEF Entries
<1>6. Finders
  BY DEF Finders, Init, RxIdle, FwIdle
<1>7. Control
  BY DEF Control, Settled, Init, ApAt
<1>8. Request
  BY <1>3 DEF Request, Init, ApAt, Served
<1>9. Told
  BY DEF Told, Init, Running, ApAt
<1>10. Messages
  BY <1>2, <1>3 DEF Messages, Stores, Init, ApAt, Served, Running
<1>11. QED
  BY <1>4, <1>5, <1>6, <1>7, <1>8, <1>9, <1>10 DEF Inv

-----------------------------------------------------------------------------
(* What a step leaves alone *)

(* The entry of a station, if it has one.                                    *)
LEMMA EntryOfFacts ==
    ASSUME NEW s
    PROVE  \/ EntryOf(s) = None /\ \A n \in Node : Linked(n) => who[n] # s
           \/ EntryOf(s) \in Node /\ Linked(EntryOf(s)) /\ who[EntryOf(s)] = s
BY Zenon DEF EntryOf

(* A step that does not touch the table, the messages and the AP thread.     *)
LEMMA SameStore ==
    ASSUME Inv, UNCHANGED << table, store, ap >>
    PROVE  Control' /\ Request' /\ Messages'
<1>1. UNCHANGED << list, who, raw, pc, st, q, pool, body, stray, ap >>
  BY DEF table, store
<1>2. Control'
  BY <1>1 DEF Inv, Control, Linked, HasMsg, Settled, Established
<1>3. Request'
  BY <1>1 DEF Inv, Request, Linked, Served
<1>4. Messages'
  BY <1>1 DEF Inv, Messages, Stores, OneHome, Linked, Served, Running
<1>5. QED
  BY <1>2, <1>3, <1>4

(* A step that does not touch what the framework was told about.             *)
LEMMA SameTold ==
    ASSUME Inv, UNCHANGED << list, who, st, told, reused, status, ap >>
    PROVE  Told'
BY DEF Inv, Told, Linked, Established, Served, Running

(* A step that does not touch the table and the receive thread.              *)
LEMMA SameEntries ==
    ASSUME Inv, UNCHANGED << table, rx >>
    PROVE  Entries'
BY DEF Inv, Entries, Linked, table

(* A step that does not touch who is linked or set up, the receive thread    *)
(* and the framework.                                                        *)
LEMMA SameFinders ==
    ASSUME Inv, UNCHANGED << list, who, raw, rx, fw >>
    PROVE  Finders'
BY DEF Inv, Finders, Linked

-----------------------------------------------------------------------------
(* The receive thread and the framework look an entry up *)

(* RxFind preserves the invariant.                                           *)
LEMMA RxFindInv ==
    ASSUME Inv, NEW s \in Sta, NEW k \in Kinds, RxFind(s, k)
    PROVE  Inv'
<1>1. PICK n \in Node \cup {None} : n = EntryOf(s)
  BY EntryOfFacts, Zenon
<1>2. \/ n = None /\ \A i \in Node : Linked(i) => who[i] # s
      \/ n \in Node /\ Linked(n) /\ who[n] = s
  BY <1>1, EntryOfFacts, Zenon
<1>3. /\ UNCHANGED << table, store, sec, status, ap, fw, told, starts, unfed, reused, idle,
                       broken >>
      /\ rx' = [at |-> "found", node |-> n, body |-> [sta |-> s, kind |-> k]]
      /\ rx.at = "idle"
      /\ n # None => pkt' = [pkt EXCEPT ![n] = TRUE]
      /\ n = None => pkt' = pkt
  BY <1>1 DEF RxFind, watch
<1>4. Types'
  <2>1. pkt' \in [Node -> BOOLEAN]
    <3>1. pkt \in [Node -> BOOLEAN]
      BY DEF Inv, Types, TypeOK, ApRec, RxRec, FwRec
    <3>2. QED
      BY <1>3, <3>1, Zenon
  <2>2. rx' \in RxRec
    BY <1>3, ApFacts DEF Body, RxRec
  <2>3. QED
    BY <1>3, <2>1, <2>2 DEF Inv, Types, TypeOK, ApRec, RxRec, FwRec, table, store
<1>5. Entries'
  BY <1>3 DEF Inv, Entries, Linked, table
<1>6. Finders'
  BY <1>2, <1>3, ApFacts DEF Inv, Finders, Linked, table
<1>7. Control' /\ Request' /\ Messages'
  BY <1>3, SameStore
<1>8. Told'
  BY <1>3, SameTold DEF table
<1>9. QED
  BY <1>4, <1>5, <1>6, <1>7, <1>8 DEF Inv

(* RxData preserves the invariant.                                           *)
LEMMA RxDataInv ==
    ASSUME Inv, NEW s \in Sta, RxData(s)
    PROVE  Inv'
<1>1. /\ UNCHANGED << table, store, sec, status, ap, rx, fw, told, starts, unfed, reused, idle,
                      broken >>
      /\ pkt' = [pkt EXCEPT ![EntryOf(s)] = TRUE]
  BY DEF RxData
<1>2. Types'
  <2>1. pkt' \in [Node -> BOOLEAN]
    <3>1. pkt \in [Node -> BOOLEAN]
      BY DEF Inv, Types, TypeOK, ApRec, RxRec, FwRec
    <3>2. QED
      BY <1>1, <3>1, Zenon
  <2>2. QED
    BY <1>1, <2>1 DEF Inv, Types, TypeOK, ApRec, RxRec, FwRec, table, store
<1>3. Entries' /\ Finders'
  BY <1>1, SameEntries, SameFinders DEF table
<1>4. Control' /\ Request' /\ Messages'
  BY <1>1, SameStore
<1>5. Told'
  BY <1>1, SameTold DEF table
<1>6. QED
  BY <1>2, <1>3, <1>4, <1>5 DEF Inv

(* FwFind preserves the invariant.                                           *)
LEMMA FwFindInv ==
    ASSUME Inv, NEW s \in Sta, NEW t \in Loads, FwFind(s, t)
    PROVE  Inv'
<1>1. PICK n \in Node : n = EntryOf(s)
  BY EntryOfFacts, Zenon DEF FwFind
<1>2. /\ UNCHANGED << table, watch, store, sec, status, ap, rx, told, starts, unfed, reused >>
      /\ fw' = [at |-> "found", node |-> n, tag |-> t]
  BY <1>1 DEF FwFind
<1>3. Types'
  BY <1>2, ApFacts, SMTT(60)
     DEF Inv, Types, TypeOK, ApRec, RxRec, FwRec, table, watch, store
<1>4. Entries'
  BY <1>2, SameEntries
<1>5. Finders'
  BY <1>2, ApFacts DEF Inv, Finders, Linked, table
<1>6. Control' /\ Request' /\ Messages'
  BY <1>2, SameStore
<1>7. Told'
  BY <1>2, SameTold DEF table
<1>8. QED
  BY <1>3, <1>4, <1>5, <1>6, <1>7 DEF Inv

(* The receive thread loses its way.                                         *)
LEMMA RxGone ==
    ASSUME Inv, NEW a \in {"oops", "torn"}, rx.at \in {"idle", "found"},
           rx' = [rx EXCEPT !.at = a],
           UNCHANGED << table, watch, store, sec, status, ap, fw, told, bounds, unfed, reused >>
    PROVE  Inv'
<1>1. rx' \in RxRec /\ rx'.at = a
  BY DEF Inv, Types, RxRec
<1>2. Types'
  BY <1>1 DEF Inv, Types, TypeOK, table, watch, store
<1>3. Entries'
  BY DEF Inv, Entries, Linked, table
<1>4. Finders'
  BY <1>1 DEF Inv, Finders
<1>5. Control' /\ Request' /\ Messages'
  BY SameStore
<1>6. Told'
  BY SameTold DEF table
<1>7. QED
  BY <1>2, <1>3, <1>4, <1>5, <1>6 DEF Inv

(* RxLost and RxTorn preserve the invariant.                                 *)
LEMMA RxLostInv ==
    ASSUME Inv, RxLost \/ RxTorn
    PROVE  Inv'
<1>1. CASE RxLost
  BY <1>1, RxGone DEF RxLost
<1>2. CASE RxTorn
  BY <1>2, RxGone DEF RxTorn
<1>3. QED
  BY <1>1, <1>2

(* FwLost preserves the invariant.                                           *)
LEMMA FwLostInv ==
    ASSUME Inv, FwLost
    PROVE  Inv'
<1>1. /\ UNCHANGED << table, watch, store, sec, status, ap, rx, told, bounds, unfed, reused >>
      /\ fw' = [fw EXCEPT !.at = "oops"]
  BY DEF FwLost
<1>2. fw' \in FwRec /\ fw'.at = "oops"
  BY <1>1 DEF Inv, Types, FwRec
<1>3. Types'
  BY <1>1, <1>2 DEF Inv, Types, TypeOK, table, watch, store
<1>4. Entries'
  BY <1>1, SameEntries
<1>5. Finders'
  BY <1>1, <1>2 DEF Inv, Finders, Linked, table
<1>6. Control' /\ Request' /\ Messages'
  BY <1>1, SameStore
<1>7. Told'
  BY <1>1, SameTold DEF table
<1>8. QED
  BY <1>3, <1>4, <1>5, <1>6, <1>7 DEF Inv

(* RxUpdate preserves the invariant: the entry is no longer being set up.    *)
LEMMA RxUpdateInv ==
    ASSUME Inv, RxUpdate
    PROVE  Inv'
<1>1. /\ UNCHANGED << list, spare, who, pc, st, watch, store, sec, status, ap, fw, told, bounds,
                      unfed, reused >>
      /\ rx.at = "added" /\ raw' = raw \ {rx.node}
      /\ rx' = [rx EXCEPT !.at = "found"]
  BY DEF RxUpdate
<1>2. /\ rx'.at = "found" /\ rx'.node = rx.node /\ rx'.body = rx.body
      /\ rx' \in RxRec
  BY <1>1 DEF Inv, Types, ApRec, RxRec, FwRec
<1>3. Types'
  BY <1>1, <1>2 DEF Inv, Types, TypeOK, ApRec, RxRec, FwRec, watch, store
<1>4. Entries'
  BY <1>1, <1>2 DEF Inv, Entries, Linked
<1>5. Finders'
  BY <1>1, <1>2, ApFacts DEF Inv, Finders, Linked
<1>6. Control'
  BY <1>1 DEF Inv, Control, Linked, HasMsg, Settled, Established, store
<1>7. Request'
  BY <1>1 DEF Inv, Request, Linked, Served, store
<1>8. Messages'
  BY <1>1 DEF Inv, Messages, Stores, OneHome, Linked, Served, Running, store
<1>9. Told'
  BY <1>1, SameTold
<1>10. QED
  BY <1>3, <1>4, <1>5, <1>6, <1>7, <1>8, <1>9 DEF Inv

(* MaintTick preserves the invariant.                                        *)
LEMMA MaintTickInv ==
    ASSUME Inv, NEW n \in Node, MaintTick(n)
    PROVE  Inv'
<1>1. /\ UNCHANGED << table, store, sec, status, ap, rx, fw, told, bounds, unfed, reused >>
      /\ pkt' = [pkt EXCEPT ![n] = FALSE]
  BY DEF MaintTick
<1>2. Types'
  <2>1. pkt' \in [Node -> BOOLEAN]
    <3>1. pkt \in [Node -> BOOLEAN]
      BY DEF Inv, Types, TypeOK, ApRec, RxRec, FwRec
    <3>2. QED
      BY <1>1, <3>1, Zenon
  <2>2. idle' \in [Node -> 0 .. IdleMax]
    <3>1. idle \in [Node -> 0 .. IdleMax] /\ IdleMax \in Nat
      BY ApAssumption DEF Inv, Types, TypeOK, ApRec, RxRec, FwRec
    <3>2. CASE pkt[n]
      BY <3>1, <3>2 DEF MaintTick
    <3>3. CASE ~pkt[n]
      <4>1. idle' = [idle EXCEPT ![n] = @ + 1] /\ idle[n] < IdleMax
        BY <3>3, Zenon DEF MaintTick
      <4>2. QED
        BY <3>1, <4>1
    <3>4. QED
      BY <3>2, <3>3
  <2>3. QED
    BY <1>1, <2>1, <2>2, SMTT(60) DEF Inv, Types, TypeOK, ApRec, RxRec, FwRec, table, store
<1>3. Entries' /\ Finders'
  BY <1>1, SameEntries, SameFinders DEF table
<1>4. Control' /\ Request' /\ Messages'
  BY <1>1, SameStore
<1>5. Told'
  BY <1>1, SameTold DEF table
<1>6. QED
  BY <1>2, <1>3, <1>4, <1>5 DEF Inv

-----------------------------------------------------------------------------
(* Messages are loaded and freed *)

(* A message that is loaded leaves its pool for the queue of the entry; when *)
(* the entry was removed it is stray.                                        *)
LEMMA LoadMsg ==
    ASSUME Inv, NEW n \in Node, NEW tag \in Tag, NEW b \in Body, pool[tag] # << >>,
           Load(n, tag, b), UNCHANGED << table, ap >>,
           tag = "assoc" => b.sta \in Sta /\ (Linked(n) => b.sta = who[n])
    PROVE  /\ pool' \in [Tag -> Seq(Msg)] /\ q' \in [Node -> Seq(Msg)]
           /\ body' \in [Msg -> Body] /\ stray' \in SUBSET Msg
           /\ Control' /\ Request' /\ Messages'
<1> DEFINE m == Head(pool[tag])
<1>1. /\ pool \in [Tag -> Seq(Msg)] /\ q \in [Node -> Seq(Msg)] /\ body \in [Msg -> Body]
      /\ stray \subseteq Msg
  BY DEF Inv, Types, TypeOK, ApRec, RxRec, FwRec
<1>2. PICK h \in Msg : h = m
  BY <1>1, TailList
<1>3. /\ pool' = [pool EXCEPT ![tag] = Tail(@)]
      /\ q' = [q EXCEPT ![n] = Append(@, h)]
      /\ body' = [body EXCEPT ![h] = b]
      /\ Served(n) => stray' = stray
      /\ ~Served(n) => stray' = stray \cup {h}
  BY <1>2 DEF Load
<1>4. /\ Tail(pool[tag]) \in Seq(Msg)
      /\ \A x : Contains(pool[tag], x) <=> x = h \/ Contains(Tail(pool[tag]), x)
      /\ IsInjective(pool[tag]) <=> IsInjective(Tail(pool[tag])) /\ ~Contains(Tail(pool[tag]), h)
  <2>1. pool[tag] \in Seq(Msg)
    BY <1>1
  <2>2. QED
    BY <1>2, <2>1, TailList, Zenon
<1>5. /\ Append(q[n], h) \in Seq(Msg) /\ Append(q[n], h) # << >>
      /\ \A x : Contains(Append(q[n], h), x) <=> Contains(q[n], x) \/ x = h
      /\ IsInjective(Append(q[n], h)) <=> IsInjective(q[n]) /\ ~Contains(q[n], h)
  <2>1. q[n] \in Seq(Msg)
    BY <1>1
  <2>2. QED
    BY <2>1, AppendList
<1>6. /\ pool' \in [Tag -> Seq(Msg)] /\ q' \in [Node -> Seq(Msg)]
      /\ body' \in [Msg -> Body] /\ stray' \in SUBSET Msg
  BY <1>1, <1>3, <1>4, <1>5
<1>7. /\ pool'[tag] = Tail(pool[tag]) /\ \A t \in Tag : t # tag => pool'[t] = pool[t]
      /\ q'[n] = Append(q[n], h) /\ \A k \in Node : k # n => q'[k] = q[k]
      /\ body'[h] = b /\ \A x \in Msg : x # h => body'[x] = body[x]
  BY <1>1, <1>3
<1>8. /\ \A k : Linked(k)' <=> Linked(k)
      /\ \A k : Served(k)' <=> Served(k)
      /\ \A k : Served(k) => Linked(k)
  BY DEF table, Linked, Served
<1>9. UNCHANGED << who, raw, pc, st, ap >>
  BY DEF table
<1>10. Running /\ Running' /\ TagOf[h] = tag /\ IsInjective(pool[tag]) /\ OneHome(h)
  <2>1. TagOf[h] = tag /\ IsInjective(pool[tag]) /\ Running
    BY <1>4 DEF Inv, Messages, Stores
  <2>2. Running'
    BY <2>1 DEF Running
  <2>3. QED
    BY <2>1, <2>2 DEF Inv, Messages
<1>11. \A k \in Node : Served(k) => ~Contains(q[k], h)
  BY <1>4, <1>10, Zenon DEF OneHome
<1>12. \A t \in Tag, x \in Msg :
         Contains(pool'[t], x) <=> Contains(pool[t], x) /\ x # h
  <2>1. TAKE t \in Tag, x \in Msg
  <2>2. CASE t = tag
    BY <1>4, <1>7, <1>10, <2>2, Zenon
  <2>3. CASE t # tag
    <3>1. pool'[t] = pool[t]
      BY <1>7, <2>3, Zenon
    <3>2. ~Contains(pool[t], h)
      BY <1>10, <2>3 DEF Inv, Messages, Stores
    <3>3. QED
      BY <3>1, <3>2, Zenon
  <2>4. QED
    BY <2>2, <2>3, Zenon
<1>13. \A k \in Node : \A x : Contains(q'[k], x) <=> Contains(q[k], x) \/ (k = n /\ x = h)
  BY <1>5, <1>7, Zenon
<1>14. \A k \in Node : HasMsg(k) => HasMsg(k)'
  <2>1. TAKE k \in Node
  <2>2. q'[k] = q[k] \/ q'[k] # << >>
    BY <1>5, <1>7, Zenon
  <2>3. QED
    BY <2>2, Zenon DEF HasMsg
<1>15. Control'
  BY <1>8, <1>9, <1>14 DEF Inv, Control, Settled, Established
<1>16. Request'
  <2>1. ASSUME NEW k \in Node, NEW x \in Msg, Served(k), Contains(q'[k], x), TagOf[x] = "assoc"
        PROVE  body'[x].sta = who[k]
    <3>1. CASE x = h
      <4>1. k = n
        BY <1>11, <1>13, <2>1, <3>1, Zenon
      <4>2. tag = "assoc"
        BY <1>10, <2>1, <3>1
      <4>3. QED
        BY <1>7, <1>8, <2>1, <3>1, <4>1, <4>2
    <3>2. CASE x # h
      <4>1. Contains(q[k], x) /\ body'[x] = body[x]
        BY <1>7, <1>13, <2>1, <3>2, Zenon
      <4>2. QED
        BY <2>1, <4>1 DEF Inv, Request
    <3>3. QED
      BY <3>1, <3>2
  <2>2. ASSUME ap.at = "report"
        PROVE  /\ ap.msg \in Msg /\ TagOf[ap.msg] = "assoc" /\ body'[ap.msg].sta \in Sta
               /\ Contains(pool'["assoc"], ap.msg) => body'[ap.msg].sta = who[ap.node]
    <3>1. /\ ap.msg \in Msg /\ TagOf[ap.msg] = "assoc" /\ body[ap.msg].sta \in Sta
          /\ Contains(pool["assoc"], ap.msg) => body[ap.msg].sta = who[ap.node]
      BY <2>2 DEF Inv, Request
    <3>2. CASE ap.msg = h
      <4>1. tag = "assoc"
        BY <1>10, <3>1, <3>2
      <4>2. ~Contains(pool'["assoc"], ap.msg)
        BY <1>12, <3>1, <3>2, Zenon DEF Tag
      <4>3. QED
        BY <1>7, <3>1, <3>2, <4>1, <4>2
    <3>3. CASE ap.msg # h
      <4>1. body'[ap.msg] = body[ap.msg]
        BY <1>7, <3>1, <3>3
      <4>2. Contains(pool'["assoc"], ap.msg) => Contains(pool["assoc"], ap.msg)
        BY <1>12, <3>1, Zenon DEF Tag
      <4>3. QED
        BY <3>1, <4>1, <4>2
    <3>4. QED
      BY <3>2, <3>3
  <2>3. QED
    BY <1>8, <1>9, <2>1, <2>2 DEF Request
<1>17. Stores'
  <2>1. \A t \in Tag : IsInjective(pool'[t])
    <3>1. \A t \in Tag : IsInjective(pool[t])
      BY DEF Inv, Messages, Stores
    <3>2. QED
      BY <1>4, <1>7, <3>1, Zenon
  <2>2. \A k \in Node : Served(k) => IsInjective(q'[k])
    <3>1. \A k \in Node : Served(k) => IsInjective(q[k])
      BY DEF Inv, Messages, Stores
    <3>2. QED
      BY <1>5, <1>7, <1>11, <3>1, Zenon
  <2>3. \A t \in Tag, x \in Msg : Contains(pool'[t], x) => TagOf[x] = t
    BY <1>12 DEF Inv, Messages, Stores
  <2>4. QED
    BY <1>8, <2>1, <2>2, <2>3, Zenon DEF Stores
<1>18. ASSUME NEW x \in Msg PROVE OneHome(x)'
  <2>1. OneHome(x)
    BY <1>10 DEF Inv, Messages
  <2>2. \A t \in Tag, k \in Node : Contains(pool'[t], x) /\ Served(k) => ~Contains(q'[k], x)
    BY <1>12, <1>13, <2>1, Zenon DEF OneHome
  <2>3. \A k, l \in Node :
          Served(k) /\ Served(l) /\ Contains(q'[k], x) /\ Contains(q'[l], x) => k = l
    BY <1>11, <1>13, <2>1, ZenonT(60) DEF OneHome
  <2>4. x \in stray' <=> /\ \A t \in Tag : ~Contains(pool'[t], x)
                         /\ \A k \in Node : Served(k) => ~Contains(q'[k], x)
    <3>1. CASE x = h
      <4>1. \A t \in Tag : ~Contains(pool'[t], x)
        BY <1>12, <3>1, Zenon
      <4>2. CASE Served(n)
        <5>1. Contains(q'[n], x) /\ x \notin stray /\ stray' = stray
          BY <1>3, <1>4, <1>10, <1>13, <3>1, <4>2, Zenon DEF OneHome
        <5>2. QED
          BY <4>2, <5>1, Zenon
      <4>3. CASE ~Served(n)
        <5>1. x \in stray'
          BY <1>3, <3>1, <4>3
        <5>2. \A k \in Node : Served(k) => ~Contains(q'[k], x)
          BY <1>11, <1>13, <3>1, <4>3, Zenon
        <5>3. QED
          BY <4>1, <5>1, <5>2, Zenon
      <4>4. QED
        BY <4>2, <4>3
    <3>2. CASE x # h
      <4>1. x \in stray' <=> x \in stray
        BY <1>3, <3>2
      <4>2. /\ \A t \in Tag : Contains(pool'[t], x) <=> Contains(pool[t], x)
            /\ \A k \in Node : Contains(q'[k], x) <=> Contains(q[k], x)
        BY <1>12, <1>13, <3>2, Zenon
      <4>3. QED
        BY <2>1, <4>1, <4>2, Zenon DEF OneHome
    <3>3. QED
      BY <3>1, <3>2
  <2>5. QED
    BY <1>8, <2>2, <2>3, <2>4, Zenon DEF OneHome
<1>19. Messages'
  BY <1>9, <1>10, <1>17, <1>18 DEF Messages
<1>20. QED
  BY <1>6, <1>15, <1>16, <1>19

(* RxLoad preserves the invariant.                                           *)
LEMMA RxLoadInv ==
    ASSUME Inv, RxLoad
    PROVE  Inv'
<1>1. /\ UNCHANGED << table, watch, sec, status, ap, fw, told, bounds, reused >>
      /\ rx.at = "found" /\ rx.node # None
      /\ rx' = [at |-> "idle", node |-> None, body |-> NoBody]
  BY DEF RxLoad, RxIdle
<1>2. /\ rx.node \in Node /\ rx.body \in Body
      /\ rx.body.sta \in Sta /\ rx.body.kind \in DOMAIN Kind
      /\ Linked(rx.node) => who[rx.node] = rx.body.sta
  BY <1>1 DEF Inv, Types, RxRec, Finders
<1>3. PICK n \in Node, b \in Body, tag \in Tag :
          n = rx.node /\ b = rx.body /\ tag = Kind[rx.body.kind]
  BY <1>2, ApFacts
<1>4. /\ pool' \in [Tag -> Seq(Msg)] /\ q' \in [Node -> Seq(Msg)]
      /\ body' \in [Msg -> Body] /\ stray' \in SUBSET Msg
      /\ Control' /\ Request' /\ Messages'
  <2>1. CASE pool[tag] = << >>
    <3>1. UNCHANGED store
      BY <1>3, <2>1 DEF RxLoad
    <3>2. Control' /\ Request' /\ Messages'
      BY <1>1, <3>1, SameStore
    <3>3. QED
      BY <3>1, <3>2 DEF Inv, Types, TypeOK, ApRec, RxRec, FwRec, store
  <2>2. CASE pool[tag] # << >>
    <3>1. Load(n, tag, b)
      BY <1>3, <2>2 DEF RxLoad
    <3>2. b.sta \in Sta /\ (Linked(n) => b.sta = who[n])
      BY <1>2, <1>3
    <3>3. UNCHANGED << table, ap >>
      BY <1>1
    <3>4. QED
      BY <2>2, <3>1, <3>2, <3>3, LoadMsg, Zenon
  <2>3. QED
    BY <2>1, <2>2
<1>5. Types'
  <2>1. rx' \in RxRec
    BY <1>1, ApFacts DEF RxRec
  <2>2. QED
    BY <1>1, <1>4, <2>1, SMTT(60)
       DEF Inv, Types, TypeOK, ApRec, RxRec, FwRec, table, watch
<1>6. Entries'
  BY <1>1 DEF Inv, Entries, Linked, table
<1>7. Finders'
  BY <1>1 DEF Inv, Finders, Linked, table
<1>8. Told'
  BY <1>1, SameTold DEF table
<1>9. QED
  BY <1>4, <1>5, <1>6, <1>7, <1>8 DEF Inv

(* FwLoad preserves the invariant.                                           *)
LEMMA FwLoadInv ==
    ASSUME Inv, FwLoad
    PROVE  Inv'
<1>1. /\ UNCHANGED << table, watch, sec, status, ap, rx, told, bounds, unfed, reused >>
      /\ fw.at = "found"
      /\ fw' = FwIdle \/ fw' = [fw EXCEPT !.at = "oops"]
      /\ UNCHANGED store \/ (pool[fw.tag] # << >> /\ Load(fw.node, fw.tag, NoBody))
  BY DEF FwLoad
<1>2. PICK n \in Node : n = fw.node
  BY <1>1 DEF Inv, Finders
<1>3. /\ pool' \in [Tag -> Seq(Msg)] /\ q' \in [Node -> Seq(Msg)]
      /\ body' \in [Msg -> Body] /\ stray' \in SUBSET Msg
      /\ Control' /\ Request' /\ Messages'
  <2>1. CASE UNCHANGED store
    <3>1. Control' /\ Request' /\ Messages'
      BY <1>1, <2>1, SameStore
    <3>2. QED
      BY <2>1, <3>1 DEF Inv, Types, TypeOK, ApRec, RxRec, FwRec, store
  <2>2. CASE pool[fw.tag] # << >> /\ Load(fw.node, fw.tag, NoBody)
    <3>1. PICK tag \in Tag : tag = fw.tag /\ tag \in {"deauth", "ba"}
      BY <1>1 DEF Inv, Finders, Tag
    <3>2. pool[tag] # << >> /\ Load(n, tag, NoBody)
      BY <1>2, <2>2, <3>1
    <3>3. NoBody \in Body
      BY ApFacts
    <3>4. tag # "assoc"
      BY <3>1
    <3>5. UNCHANGED << table, ap >>
      BY <1>1
    <3>6. QED
      BY <3>2, <3>3, <3>4, <3>5, LoadMsg, Zenon
  <2>3. QED
    BY <1>1, <2>1, <2>2
<1>4. Types'
  <2>1. fw' \in FwRec
    BY <1>1 DEF FwIdle, Inv, Types, FwRec
  <2>2. fw'.at \in {"idle", "found", "oops"}
    BY <2>1 DEF FwRec
  <2>3. ap' \in ApRec /\ rx' \in RxRec
    BY <1>1 DEF Inv, Types
  <2>4. TypeOK'
    BY <1>1, <1>3, <2>2 DEF Inv, Types, TypeOK, table, watch
  <2>5. QED
    BY <1>3, <2>1, <2>3, <2>4 DEF Types
<1>5. Entries'
  BY <1>1, SameEntries
<1>6. Finders'
  <2>1. fw'.at # "found"
    BY <1>1 DEF FwIdle, Inv, Types, FwRec
  <2>2. QED
    BY <1>1, <2>1 DEF Inv, Finders, Linked, table
<1>7. Told'
  BY <1>1, SameTold DEF table
<1>8. QED
  BY <1>3, <1>4, <1>5, <1>6, <1>7 DEF Inv

(* The first message of an entry goes back to the pool of its tag.           *)
LEMMA FreedMsg ==
    ASSUME Inv, NEW n \in Node, Served(n), HasMsg(n), ap.at \in {"poll", "assoc"},
           ap'.at \in {"poll", "report"},
           NEW h, h = HeadMsg(n), UNCHANGED << list, stray >>,
           q' = [q EXCEPT ![n] = Tail(@)],
           pool' = [pool EXCEPT ![TagOf[h]] = << h >> \o @]
    PROVE  /\ h \in Msg /\ Contains(q[n], h)
           /\ pool' \in [Tag -> Seq(Msg)] /\ q' \in [Node -> Seq(Msg)]
           /\ \A k \in Node : \A x : Contains(q'[k], x) => Contains(q[k], x)
           /\ \A k \in Node : k # n => q'[k] = q[k]
           /\ \A k \in Node : Served(k) => ~Contains(q'[k], h)
           /\ \A t \in Tag, x \in Msg :
                Contains(pool'[t], x) <=> Contains(pool[t], x) \/ (x = h /\ t = TagOf[x])
           /\ Messages'
<1>1. /\ pool \in [Tag -> Seq(Msg)] /\ q \in [Node -> Seq(Msg)] /\ stray \subseteq Msg
  BY DEF Inv, Types, TypeOK, ApRec, RxRec, FwRec
<1>2. /\ h \in Msg /\ Tail(q[n]) \in Seq(Msg) /\ Contains(q[n], h)
      /\ \A x : Contains(q[n], x) <=> x = h \/ Contains(Tail(q[n]), x)
      /\ IsInjective(q[n]) <=> IsInjective(Tail(q[n])) /\ ~Contains(Tail(q[n]), h)
  <2>1. q[n] \in Seq(Msg) /\ q[n] # << >>
    BY <1>1 DEF HasMsg
  <2>2. QED
    BY <2>1, TailList, Zenon DEF HeadMsg
<1>3. PICK tag \in Tag : tag = TagOf[h]
  BY <1>2, ApFacts
<1>4. OneHome(h)
  BY <1>2 DEF Inv, Messages, Running
<1>5. \A t \in Tag : ~Contains(pool[t], h)
  BY <1>2, <1>4, Zenon DEF OneHome
<1>6. /\ << h >> \o pool[tag] \in Seq(Msg)
      /\ \A x : Contains(<< h >> \o pool[tag], x) <=> x = h \/ Contains(pool[tag], x)
      /\ IsInjective(pool[tag]) => IsInjective(<< h >> \o pool[tag])
  <2>1. pool[tag] \in Seq(Msg)
    BY <1>1
  <2>2. /\ << h >> \in Seq(Msg) /\ IsInjective(<< h >>)
        /\ \A x : Contains(<< h >>, x) <=> x = h
    BY <1>2, OneList, Zenon
  <2>3. /\ << h >> \o pool[tag] \in Seq(Msg)
        /\ \A x : Contains(<< h >> \o pool[tag], x)
                     <=> Contains(<< h >>, x) \/ Contains(pool[tag], x)
        /\ IsInjective(<< h >> \o pool[tag]) <=>
             /\ IsInjective(<< h >>) /\ IsInjective(pool[tag])
             /\ \A x : Contains(<< h >>, x) => ~Contains(pool[tag], x)
    BY <2>1, <2>2, ConcatList, Zenon
  <2>4. QED
    BY <1>5, <2>2, <2>3, Zenon
<1>7. pool' \in [Tag -> Seq(Msg)] /\ q' \in [Node -> Seq(Msg)]
  BY <1>1, <1>2, <1>3, <1>6
<1>8. /\ pool'[tag] = << h >> \o pool[tag] /\ \A t \in Tag : t # tag => pool'[t] = pool[t]
      /\ q'[n] = Tail(q[n]) /\ \A k \in Node : k # n => q'[k] = q[k]
  BY <1>1, <1>3
<1>9. (\A k : Served(k)' <=> Served(k)) /\ Running /\ Running'
  BY DEF Served, Linked, Running
<1>10. \A t \in Tag, x \in Msg :
         Contains(pool'[t], x) <=> Contains(pool[t], x) \/ (x = h /\ t = TagOf[x])
  <2>1. TAKE t \in Tag, x \in Msg
  <2>2. CASE t = tag
    <3>1. Contains(pool'[t], x) <=> x = h \/ Contains(pool[t], x)
      BY <1>6, <1>8, <2>2, ZenonT(60)
    <3>2. x = h => t = TagOf[x]
      BY <1>3, <2>2
    <3>3. QED
      BY <3>1, <3>2, Zenon
  <2>3. CASE t # tag
    <3>1. pool'[t] = pool[t]
      BY <1>8, <2>3, Zenon
    <3>2. ~(x = h /\ t = TagOf[x])
      BY <1>3, <2>3, Zenon
    <3>3. QED
      BY <3>1, <3>2, Zenon
  <2>4. QED
    BY <2>2, <2>3
<1>11. /\ IsInjective(q[n]) /\ \A k \in Node : Served(k) => IsInjective(q[k])
       /\ \A t \in Tag : IsInjective(pool[t])
       /\ \A t \in Tag, x \in Msg : Contains(pool[t], x) => TagOf[x] = t
  BY DEF Inv, Messages, Stores
<1>12. \A k \in Node : \A x : Served(k) => (Contains(q'[k], x) <=> Contains(q[k], x) /\ x # h)
  <2>1. SUFFICES ASSUME NEW k \in Node, NEW x, Served(k)
                 PROVE  Contains(q'[k], x) <=> Contains(q[k], x) /\ x # h
    BY Zenon
  <2>2. CASE k = n
    BY <1>2, <1>8, <1>11, <2>2, ZenonT(60)
  <2>3. CASE k # n
    <3>1. ~Contains(q[k], h)
      BY <1>2, <1>4, <2>1, <2>3, Zenon DEF OneHome
    <3>2. QED
      BY <1>8, <2>3, <3>1, Zenon
  <2>4. QED
    BY <2>2, <2>3
<1>13. \A k \in Node : \A x : Contains(q'[k], x) => Contains(q[k], x)
  BY <1>2, <1>8, Zenon
<1>14. Stores'
  <2>1. \A t \in Tag : IsInjective(pool'[t])
    BY <1>6, <1>8, <1>11, Zenon
  <2>2. \A k \in Node : Served(k) => IsInjective(q'[k])
    BY <1>2, <1>8, <1>11, Zenon
  <2>3. \A t \in Tag, x \in Msg : Contains(pool'[t], x) => TagOf[x] = t
    BY <1>10, <1>11, Zenon
  <2>4. QED
    BY <1>9, <2>1, <2>2, <2>3, Zenon DEF Stores
<1>15. ASSUME NEW x \in Msg PROVE OneHome(x)'
  <2>1. OneHome(x)
    BY <1>9 DEF Inv, Messages
  <2>2. \A t \in Tag, k \in Node : Contains(pool'[t], x) /\ Served(k) => ~Contains(q'[k], x)
    BY <1>10, <1>12, <2>1, Zenon DEF OneHome
  <2>3. \A k, l \in Node :
          Served(k) /\ Served(l) /\ Contains(q'[k], x) /\ Contains(q'[l], x) => k = l
    BY <1>12, <2>1, Zenon DEF OneHome
  <2>4. x \in stray <=> /\ \A t \in Tag : ~Contains(pool'[t], x)
                        /\ \A k \in Node : Served(k) => ~Contains(q'[k], x)
    <3>1. CASE x = h
      <4>1. Contains(pool'[tag], x)
        BY <1>3, <1>10, <3>1, Zenon
      <4>2. x \notin stray
        BY <1>2, <1>4, <3>1, Zenon DEF OneHome
      <4>3. QED
        BY <4>1, <4>2, Zenon
    <3>2. CASE x # h
      <4>1. /\ \A t \in Tag : Contains(pool'[t], x) <=> Contains(pool[t], x)
            /\ \A k \in Node : Served(k) => (Contains(q'[k], x) <=> Contains(q[k], x))
        BY <1>10, <1>12, <3>2, Zenon
      <4>2. QED
        BY <2>1, <4>1, Zenon DEF OneHome
    <3>3. QED
      BY <3>1, <3>2
  <2>5. stray' = stray
    OBVIOUS
  <2>6. QED
    BY <1>9, <2>2, <2>3, <2>4, <2>5, Zenon DEF OneHome
<1>16. Messages'
  BY <1>9, <1>14, <1>15 DEF Messages
<1>17. QED
  BY <1>2, <1>7, <1>8, <1>10, <1>12, <1>13, <1>16, ZenonT(60)

(* The AP thread answers the first message of an entry and frees it; the     *)
(* protothread may go on to wait elsewhere.                                  *)
LEMMA FreeHeadInv ==
    ASSUME Inv, NEW n \in Node, Linked(n), n \notin raw, HasMsg(n), ap.at = "poll",
           FreeHead(n), Stays, UNCHANGED ap,
           pc' \in [Node -> {"auth", "open", "chal", "seq4", "maint", "dis"}],
           st' \in [Node -> {"auth", "assoc", "unblock", "dauth"}],
           \A k \in Node : k # n => pc'[k] = pc[k] /\ st'[k] = st[k],
           Settled(n)', Established(st'[n]) <=> Established(st[n])
    PROVE  Inv'
<1>1. UNCHANGED << list, spare, who, raw, watch, stray, sec, status, rx, fw, told, bounds,
                   unfed, reused, ap >>
  BY DEF Stays
<1>2. PICK h : h = HeadMsg(n)
  OBVIOUS
<1>3. /\ q' = [q EXCEPT ![n] = Tail(@)]
      /\ pool' = [pool EXCEPT ![TagOf[h]] = << h >> \o @]
      /\ body' = [body EXCEPT ![h] = NoBody]
  BY <1>2 DEF FreeHead, HeadTag
<1>4. /\ h \in Msg /\ Contains(q[n], h)
      /\ pool' \in [Tag -> Seq(Msg)] /\ q' \in [Node -> Seq(Msg)]
      /\ \A k \in Node : \A x : Contains(q'[k], x) => Contains(q[k], x)
      /\ \A k \in Node : Served(k) => ~Contains(q'[k], h)
      /\ Messages'
  <2>1. /\ ap.at \in {"poll", "assoc"} /\ ap'.at \in {"poll", "report"}
        /\ UNCHANGED << list, stray >> /\ Served(n)
    BY <1>1 DEF Served
  <2>2. QED
    BY <1>2, <1>3, <2>1, FreedMsg, ZenonT(60)
<1>5. Types'
  <2>1. body' \in [Msg -> Body]
    BY <1>3, ApFacts DEF Inv, Types, ApRec, RxRec, FwRec
  <2>2. QED
    BY <1>1, <1>4, <2>1, SMTT(60)
       DEF Inv, Types, TypeOK, ApRec, RxRec, FwRec, watch
<1>6. /\ \A k : Linked(k)' <=> Linked(k)
      /\ \A k : Served(k)' <=> Served(k)
      /\ Running' <=> Running
  BY <1>1 DEF Linked, Served, Running
<1>7. Entries'
  BY <1>1, <1>6 DEF Inv, Entries
<1>8. Finders'
  BY <1>1, SameFinders
<1>9. Control'
  <2>1. \A k \in Node : Settled(k)'
    <3>1. \A k \in Node : Settled(k)
      BY DEF Inv, Control
    <3>2. QED
      BY <3>1 DEF Settled
  <2>2. ap'.at = "poll"
    BY <1>1
  <2>3. QED
    BY <2>1, <2>2 DEF Control
<1>10. Request'
  <2>1. ASSUME NEW k \in Node, NEW x \in Msg, Served(k), Contains(q'[k], x), TagOf[x] = "assoc"
        PROVE  body'[x].sta = who[k]
    <3>1. x # h /\ Contains(q[k], x)
      BY <1>4, <2>1, Zenon
    <3>2. body'[x] = body[x]
      BY <1>3, <3>1 DEF Inv, Types, ApRec, RxRec, FwRec
    <3>3. QED
      BY <2>1, <3>1, <3>2 DEF Inv, Request
  <2>2. QED
    BY <1>1, <1>6, <2>1 DEF Request
<1>11. Told'
  <2>1. \A k \in Node : Established(st'[k]) <=> Established(st[k])
    OBVIOUS
  <2>2. QED
    BY <1>1, <1>6, <2>1 DEF Inv, Told
<1>12. QED
  BY <1>4, <1>5, <1>7, <1>8, <1>9, <1>10, <1>11 DEF Inv

(* Where the entry that the AP thread polls stands.                          *)
LEMMA PollsFacts ==
    ASSUME Inv, NEW n \in Node, NEW p, Polls(n, p)
    PROVE  /\ ap.at = "poll" /\ Linked(n) /\ n \notin raw /\ pc[n] = p
           /\ p \in {"auth", "open", "chal", "seq4"} => st[n] = "auth"
           /\ p \in {"maint", "dis"} => st[n] = "unblock"
BY DEF Polls, Inv, Control, Settled

(* AuthAgain preserves the invariant.                                        *)
LEMMA AuthAgainInv ==
    ASSUME Inv, NEW n \in Node, AuthAgain(n)
    PROVE  Inv'
<1>1. /\ Linked(n) /\ n \notin raw /\ HasMsg(n) /\ ap.at = "poll" /\ FreeHead(n) /\ Stays
      /\ UNCHANGED << ap, pc, st >>
  BY DEF AuthAgain, Polls
<1>2. Settled(n)'
  BY <1>1 DEF Inv, Control, Settled
<1>3. /\ pc' \in [Node -> {"auth", "open", "chal", "seq4", "maint", "dis"}]
      /\ st' \in [Node -> {"auth", "assoc", "unblock", "dauth"}]
  BY <1>1 DEF Inv, Types, TypeOK, ApRec, RxRec, FwRec
<1>4. QED
  BY <1>1, <1>2, <1>3, FreeHeadInv

(* MaintOther preserves the invariant.                                       *)
LEMMA MaintOtherInv ==
    ASSUME Inv, NEW n \in Node, MaintOther(n)
    PROVE  Inv'
<1>1. /\ Linked(n) /\ n \notin raw /\ HasMsg(n) /\ ap.at = "poll" /\ FreeHead(n) /\ Stays
      /\ UNCHANGED << ap, pc, st >>
  BY DEF MaintOther, Polls
<1>2. Settled(n)'
  BY <1>1 DEF Inv, Control, Settled
<1>3. /\ pc' \in [Node -> {"auth", "open", "chal", "seq4", "maint", "dis"}]
      /\ st' \in [Node -> {"auth", "assoc", "unblock", "dauth"}]
  BY <1>1 DEF Inv, Types, TypeOK, ApRec, RxRec, FwRec
<1>4. QED
  BY <1>1, <1>2, <1>3, FreeHeadInv

(* MaintDisassoc preserves the invariant.                                    *)
LEMMA MaintDisassocInv ==
    ASSUME Inv, NEW n \in Node, MaintDisassoc(n)
    PROVE  Inv'
<1>1. /\ Linked(n) /\ n \notin raw /\ HasMsg(n) /\ ap.at = "poll" /\ FreeHead(n) /\ Stays
      /\ UNCHANGED << ap, st >> /\ pc' = [pc EXCEPT ![n] = "dis"] /\ Polls(n, "maint")
  BY DEF MaintDisassoc, Polls
<1>2. st[n] = "unblock"
  BY <1>1, PollsFacts
<1>3. /\ pc' \in [Node -> {"auth", "open", "chal", "seq4", "maint", "dis"}]
      /\ st' \in [Node -> {"auth", "assoc", "unblock", "dauth"}]
      /\ \A k \in Node : k # n => pc'[k] = pc[k] /\ st'[k] = st[k]
      /\ pc'[n] = "dis" /\ st'[n] = st[n]
  BY <1>1 DEF Inv, Types, TypeOK, ApRec, RxRec, FwRec
<1>4. Settled(n)'
  BY <1>2, <1>3 DEF Settled
<1>5. QED
  BY <1>1, <1>3, <1>4, FreeHeadInv

-----------------------------------------------------------------------------
(* Entries are removed *)

(* The entry that is removed is free afterwards, the others are not touched. *)
LEMMA RemovedFacts ==
    ASSUME Inv, NEW n \in Node, Linked(n), WdnRemove(n)
    PROVE  /\ list' \in Seq(Node) /\ spare' \in Seq(Node)
           /\ IsInjective(list') /\ IsInjective(spare')
           /\ \A k \in Node : Linked(k)' <=> Linked(k) /\ k # n
           /\ \A k \in Node : Linked(k)' <=> ~Contains(spare', k)
           /\ who' \in [Node -> Sta \cup {None}]
           /\ pc' \in [Node -> {"auth", "open", "chal", "seq4", "maint", "dis"}]
           /\ st' \in [Node -> {"auth", "assoc", "unblock", "dauth"}]
           /\ pkt' \in [Node -> BOOLEAN] /\ idle' \in [Node -> 0 .. IdleMax]
           /\ \A k \in Node : k # n => who'[k] = who[k] /\ pc'[k] = pc[k] /\ st'[k] = st[k]
           /\ pc'[n] = "auth" /\ st'[n] = "auth"
<1>1. /\ list \in Seq(Node) /\ spare \in Seq(Node) /\ IsInjective(list) /\ IsInjective(spare)
      /\ \A k \in Node : Linked(k) <=> ~Contains(spare, k)
  BY DEF Inv, Types, TypeOK, Entries
<1>2. list' = Select(list, Node \ {n}) /\ spare' = Append(spare, n)
  BY DEF WdnRemove
<1>3. /\ list' \in Seq(Node) /\ IsInjective(list')
      /\ \A k : Contains(list', k) <=> Contains(list, k) /\ k \in Node \ {n}
  BY <1>1, <1>2, SelectList, Zenon
<1>4. /\ Append(spare, n) \in Seq(Node)
      /\ \A k : Contains(Append(spare, n), k) <=> Contains(spare, k) \/ k = n
      /\ IsInjective(Append(spare, n)) <=> IsInjective(spare) /\ ~Contains(spare, n)
  BY <1>1, AppendList
<1>5. \A k \in Node : Linked(k)' <=> Linked(k) /\ k # n
  BY <1>3 DEF Linked
<1>6. spare' \in Seq(Node) /\ IsInjective(spare')
  BY <1>1, <1>2, <1>4, Zenon
<1>7. \A k \in Node : Contains(spare', k) <=> Contains(spare, k) \/ k = n
  BY <1>2, <1>4, Zenon
<1>8. \A k \in Node : Linked(k)' <=> ~Contains(spare', k)
  BY <1>1, <1>5, <1>7, Zenon
<1>9. /\ who' = [who EXCEPT ![n] = None]
      /\ pc' = [pc EXCEPT ![n] = "auth"] /\ st' = [st EXCEPT ![n] = "auth"]
      /\ pkt' = [pkt EXCEPT ![n] = FALSE] /\ idle' = [idle EXCEPT ![n] = 0]
  BY DEF WdnRemove
<1>10. /\ who' \in [Node -> Sta \cup {None}]
       /\ pc' \in [Node -> {"auth", "open", "chal", "seq4", "maint", "dis"}]
       /\ st' \in [Node -> {"auth", "assoc", "unblock", "dauth"}]
       /\ idle' \in [Node -> 0 .. IdleMax]
       /\ \A k \in Node : k # n => who'[k] = who[k] /\ pc'[k] = pc[k] /\ st'[k] = st[k]
       /\ pc'[n] = "auth" /\ st'[n] = "auth"
  BY <1>9, ApAssumption DEF Inv, Types, TypeOK
<1>11. pkt' \in [Node -> BOOLEAN]
  <2>1. pkt \in [Node -> BOOLEAN]
    BY DEF Inv, Types, TypeOK
  <2>2. QED
    BY <1>9, <2>1, Zenon
<1>12. QED
  BY <1>3, <1>5, <1>6, <1>8, <1>10, <1>11

(* What the other threads rely on survives the removal of an entry that is   *)
(* set up.                                                                   *)
LEMMA RemovedEntries ==
    ASSUME Inv, NEW n \in Node, Linked(n), n \notin raw, WdnRemove(n),
           UNCHANGED << raw, rx, fw >>
    PROVE  Entries' /\ Finders'
<1>1. /\ list' \in Seq(Node) /\ spare' \in Seq(Node)
      /\ IsInjective(list') /\ IsInjective(spare')
      /\ \A k \in Node : Linked(k)' <=> Linked(k) /\ k # n
      /\ \A k \in Node : Linked(k)' <=> ~Contains(spare', k)
      /\ \A k \in Node : k # n => who'[k] = who[k] /\ pc'[k] = pc[k] /\ st'[k] = st[k]
      /\ pc'[n] = "auth" /\ st'[n] = "auth"
  BY RemovedFacts, Zenon
<1>2. raw \subseteq Node /\ rx.node \in Node \cup {None}
  BY DEF Inv, Types, TypeOK, ApRec, RxRec, FwRec
<1>3. Entries'
  <2>1. \A k \in Node : ~Linked(k)' \/ k \in raw => pc'[k] = "auth" /\ st'[k] = "auth"
    <3>1. \A k \in Node : ~Linked(k) \/ k \in raw => pc[k] = "auth" /\ st[k] = "auth"
      BY DEF Inv, Entries
    <3>2. QED
      BY <1>1, <3>1
  <2>2. \A k \in Node : Linked(k)' => who'[k] \in Sta
    BY <1>1 DEF Inv, Entries
  <2>3. \A i, k \in Node : Linked(i)' /\ Linked(k)' /\ who'[i] = who'[k] => i = k
    <3>1. \A i, k \in Node : Linked(i) /\ Linked(k) /\ who[i] = who[k] => i = k
      BY DEF Inv, Entries
    <3>2. QED
      BY <1>1, <3>1
  <2>4. \A k \in raw' : rx'.at = "added" /\ k = rx'.node
    BY DEF Inv, Entries
  <2>5. QED
    BY <1>1, <2>1, <2>2, <2>3, <2>4, Zenon DEF Entries
<1>4. Finders'
  <2>1. rx.at \in {"found", "added"} => rx.body.sta \in Sta /\ rx.body.kind \in DOMAIN Kind
    BY DEF Inv, Finders
  <2>2. rx.at = "added" =>
           /\ rx.node \in Node /\ rx.node \in raw
           /\ Linked(rx.node)' /\ who'[rx.node] = rx.body.sta
    <3>1. rx.at = "added" =>
             /\ rx.node \in Node /\ rx.node \in raw
             /\ Linked(rx.node) /\ who[rx.node] = rx.body.sta
      BY DEF Inv, Finders
    <3>2. QED
      BY <1>1, <3>1
  <2>3. rx.at = "found" /\ rx.node = None =>
           \A k \in Node : Linked(k)' => who'[k] # rx.body.sta
    BY <1>1 DEF Inv, Finders
  <2>4. rx.at = "found" /\ rx.node # None /\ Linked(rx.node)' => who'[rx.node] = rx.body.sta
    <3>1. rx.at = "found" /\ rx.node # None /\ Linked(rx.node) => who[rx.node] = rx.body.sta
      BY DEF Inv, Finders
    <3>2. QED
      BY <1>1, <1>2, <3>1
  <2>5. fw.at = "found" => fw.node \in Node /\ fw.tag \in {"deauth", "ba"}
    BY DEF Inv, Finders
  <2>6. QED
    BY <2>1, <2>2, <2>3, <2>4, <2>5 DEF Finders, Linked
<1>5. QED
  BY <1>3, <1>4

(* The messages of an entry go back to the pools of their tags.              *)
LEMMA ClearedQueue ==
    ASSUME Inv, NEW n \in Node, Served(n), Running, QueClearup(n)
    PROVE  /\ pool' \in [Tag -> Seq(Msg)] /\ q' \in [Node -> Seq(Msg)]
           /\ body' \in [Msg -> Body]
           /\ \A k \in Node : k # n => q'[k] = q[k]
           /\ \A x \in Msg : ~Contains(q[n], x) => body'[x] = body[x]
           /\ \A t \in Tag : IsInjective(pool'[t])
           /\ \A t \in Tag, x \in Msg :
                Contains(pool'[t], x) <=>
                    Contains(pool[t], x) \/ (Contains(q[n], x) /\ TagOf[x] = t)
<1>1. /\ pool \in [Tag -> Seq(Msg)] /\ q \in [Node -> Seq(Msg)] /\ body \in [Msg -> Body]
  BY DEF Inv, Types, TypeOK, ApRec, RxRec, FwRec
<1>2. /\ q' = [q EXCEPT ![n] = << >>]
      /\ body' = [m \in Msg |-> IF Contains(q[n], m) THEN NoBody ELSE body[m]]
      /\ pool' = [t \in Tag |->
                    Reverse(Select(q[n], { m \in Msg : TagOf[m] = t })) \o pool[t]]
  BY DEF QueClearup
<1>3. /\ q' \in [Node -> Seq(Msg)] /\ \A k \in Node : k # n => q'[k] = q[k]
  BY <1>1, <1>2
<1>4. /\ body' \in [Msg -> Body]
      /\ \A x \in Msg : ~Contains(q[n], x) => body'[x] = body[x]
  BY <1>1, <1>2, ApFacts
<1>5. ASSUME NEW t \in Tag
      PROVE  /\ pool'[t] \in Seq(Msg) /\ IsInjective(pool'[t])
             /\ \A x \in Msg :
                  Contains(pool'[t], x) <=>
                      Contains(pool[t], x) \/ (Contains(q[n], x) /\ TagOf[x] = t)
  <2> DEFINE T == { m \in Msg : TagOf[m] = t }
  <2>1. PICK a : a = Select(q[n], T)
    OBVIOUS
  <2>2. pool'[t] = Reverse(a) \o pool[t]
    BY <1>2, <2>1
  <2> HIDE DEF T
  <2>3. q[n] \in Seq(Msg) /\ pool[t] \in Seq(Msg) /\ IsInjective(q[n]) /\ IsInjective(pool[t])
    BY <1>1 DEF Inv, Messages, Stores
  <2>4. /\ a \in Seq(Msg) /\ IsInjective(a)
        /\ \A x : Contains(a, x) <=> Contains(q[n], x) /\ x \in T
    BY <2>1, <2>3, SelectList, Zenon
  <2>5. /\ Reverse(a) \in Seq(Msg) /\ IsInjective(Reverse(a))
        /\ \A x : Contains(Reverse(a), x) <=> Contains(a, x)
    BY <2>4, ReverseList, Zenon
  <2>6. PICK r : r = Reverse(a)
    OBVIOUS
  <2>7. /\ r \in Seq(Msg) /\ IsInjective(r)
        /\ \A x : Contains(r, x) <=> Contains(q[n], x) /\ x \in T
    BY <2>4, <2>5, <2>6, Zenon
  <2>8. /\ r \o pool[t] \in Seq(Msg)
        /\ \A x : Contains(r \o pool[t], x) <=> Contains(r, x) \/ Contains(pool[t], x)
        /\ IsInjective(r \o pool[t]) <=>
             /\ IsInjective(r) /\ IsInjective(pool[t])
             /\ \A x : Contains(r, x) => ~Contains(pool[t], x)
    BY <2>3, <2>7, ConcatList, Zenon
  <2>9. ASSUME NEW x, Contains(r, x) PROVE ~Contains(pool[t], x)
    <3>1. x \in Msg /\ Contains(q[n], x)
      BY <2>7, <2>9 DEF T
    <3>2. OneHome(x)
      BY <3>1 DEF Inv, Messages
    <3>3. QED
      BY <3>1, <3>2, Zenon DEF OneHome
  <2>10. \A x \in Msg : x \in T <=> TagOf[x] = t
    BY DEF T
  <2>11. QED
    BY <2>2, <2>3, <2>6, <2>7, <2>8, <2>9, <2>10, Zenon
<1>6. pool' \in [Tag -> Seq(Msg)]
  <2>1. pool' = [t \in Tag |-> pool'[t]]
    BY <1>2
  <2>2. QED
    BY <1>5, <2>1
<1>7. QED
  BY <1>3, <1>4, <1>5, <1>6, Zenon

(* A station is dropped: the framework is told if it knew it and the         *)
(* messages are freed; the entry is still linked.                            *)
LEMMA ClearupInv ==
    ASSUME Inv, NEW n \in Node, NEW s, Linked(n), n \notin raw, Clearup(n, s),
           Established(s) <=> Established(st[n]),
           ap.at = "poll" \/ (ap.at = "assoc" /\ ap.node = n)
    PROVE  Inv'
<1>1. /\ UNCHANGED << table, watch, stray, sec, status, rx, fw, bounds, unfed, reused >>
      /\ ap' = [at |-> "remove", node |-> n, msg |-> None]
      /\ QueClearup(n)
      /\ Established(s) => told' = [told EXCEPT ![who[n]] = None]
      /\ ~Established(s) => told' = told
  BY DEF Clearup
<1>2. /\ ap'.at = "remove" /\ ap'.node = n /\ Running /\ Running'
      /\ UNCHANGED << list, spare, who, raw, pc, st, pkt, idle >>
  BY <1>1 DEF Running, table, watch
<1>3. /\ \A k : Linked(k)' <=> Linked(k)
      /\ \A k : Served(k) <=> Linked(k)
      /\ \A k : Served(k)' <=> Served(k) /\ k # n
  BY <1>2 DEF Linked, Served
<1>4. Served(n)
  BY <1>3
<1>5. Entries' /\ Finders'
  BY <1>1, SameEntries, SameFinders DEF table
<1>6. /\ pool' \in [Tag -> Seq(Msg)] /\ q' \in [Node -> Seq(Msg)]
      /\ body' \in [Msg -> Body]
      /\ \A k \in Node : k # n => q'[k] = q[k]
      /\ \A x \in Msg : ~Contains(q[n], x) => body'[x] = body[x]
      /\ \A t \in Tag : IsInjective(pool'[t])
      /\ \A t \in Tag, x \in Msg :
           Contains(pool'[t], x) <=>
               Contains(pool[t], x) \/ (Contains(q[n], x) /\ TagOf[x] = t)
  BY <1>1, <1>2, <1>4, ClearedQueue, Zenon
<1>7. who[n] \in Sta
  BY DEF Inv, Entries
<1>8. Types'
  <2>1. told' \in [Sta -> Sta \cup {None}]
    BY <1>1, <1>7 DEF Inv, Types, TypeOK, ApRec, RxRec, FwRec
  <2>2. ap' \in ApRec
    BY <1>1 DEF ApRec
  <2>3. TypeOK'
    BY <1>1, <1>2, <1>6, <2>1 DEF Inv, Types, TypeOK, ApRec, RxRec, FwRec
  <2>4. QED
    BY <1>1, <1>6, <2>2, <2>3 DEF Inv, Types, ApRec, RxRec, FwRec
<1>9. Control'
  <2>1. \A k \in Node : k # n => Settled(k)
    BY DEF Inv, Control
  <2>2. \A k \in Node : k # n => Settled(k)'
    BY <1>2, <2>1 DEF Settled
  <2>3. QED
    BY <1>2, <1>3, <2>2 DEF Control, Linked
<1>10. Request'
  <2>1. ASSUME NEW k \in Node, NEW x \in Msg, Served(k)', Contains(q'[k], x), TagOf[x] = "assoc"
        PROVE  body'[x].sta = who'[k]
    <3>1. Served(k) /\ k # n /\ Contains(q[k], x) /\ who'[k] = who[k]
      BY <1>2, <1>3, <1>6, <2>1, Zenon
    <3>2. OneHome(x)
      BY <1>2 DEF Inv, Messages
    <3>3. ~Contains(q[n], x)
      BY <1>4, <3>1, <3>2, Zenon DEF OneHome
    <3>4. body'[x] = body[x]
      BY <1>6, <3>3, Zenon
    <3>5. QED
      BY <2>1, <3>1, <3>4 DEF Inv, Request
  <2>2. QED
    BY <1>2, <2>1 DEF Request
<1>11. Told'
  <2>1. ASSUME NEW u \in Sta
        PROVE  /\ told'[u] # None <=>
                    \E k \in Node : Served(k)' /\ who'[k] = u /\ Established(st'[k])
               /\ told'[u] # None => told'[u] = told[u]
    <3>1. /\ told[u] # None <=> \E k \in Node : Served(k) /\ who[k] = u /\ Established(st[k])
          /\ told \in [Sta -> Sta \cup {None}]
      BY <1>2 DEF Inv, Types, TypeOK, Told
    <3>3. \A k \in Node : /\ Served(k)' /\ who'[k] = u /\ Established(st'[k])
                          <=> k # n /\ Served(k) /\ who[k] = u /\ Established(st[k])
      BY <1>2, <1>3
    <3>4. CASE u = who[n] /\ Established(s)
      <4>1. told'[u] = None
        BY <1>1, <3>1, <3>4
      <4>2. \A k \in Node : Served(k) /\ who[k] = u => k = n
        BY <1>3, <3>4 DEF Inv, Entries
      <4>3. QED
        BY <3>3, <4>1, <4>2
    <3>5. CASE ~(u = who[n] /\ Established(s))
      <4>1. told'[u] = told[u]
        BY <1>1, <3>1, <3>5
      <4>2. ~(who[n] = u /\ Established(st[n]))
        BY <3>5
      <4>3. QED
        BY <3>1, <3>3, <4>1, <4>2
    <3>6. QED
      BY <3>4, <3>5
  <2>2. QED
    BY <1>1, <1>2, <2>1 DEF Inv, Told
<1>12. Stores'
  <2>1. \A k \in Node : Served(k)' => IsInjective(q'[k])
    BY <1>2, <1>3, <1>6 DEF Inv, Messages, Stores
  <2>2. \A t \in Tag, x \in Msg : Contains(pool'[t], x) => TagOf[x] = t
    BY <1>6 DEF Inv, Messages, Stores
  <2>3. QED
    BY <1>6, <2>1, <2>2 DEF Stores
<1>13. ASSUME NEW x \in Msg PROVE OneHome(x)'
  <2>1. OneHome(x) /\ TagOf[x] \in Tag
    BY <1>2, ApFacts DEF Inv, Messages
  <2>2. \A k \in Node : Served(k)' /\ Contains(q'[k], x) <=>
                            Served(k) /\ k # n /\ Contains(q[k], x)
    BY <1>2, <1>3, <1>6, Zenon
  <2>3. \A t \in Tag, k \in Node : Contains(pool'[t], x) /\ Served(k)' => ~Contains(q'[k], x)
    BY <1>4, <1>6, <2>1, <2>2, Zenon DEF OneHome
  <2>4. \A k, l \in Node :
          Served(k)' /\ Served(l)' /\ Contains(q'[k], x) /\ Contains(q'[l], x) => k = l
    BY <2>1, <2>2, Zenon DEF OneHome
  <2>5. x \in stray <=> /\ \A t \in Tag : ~Contains(pool'[t], x)
                        /\ \A k \in Node : Served(k)' => ~Contains(q'[k], x)
    <3>1. CASE Contains(q[n], x)
      <4>1. x \notin stray
        BY <1>4, <2>1, <3>1, Zenon DEF OneHome
      <4>2. Contains(pool'[TagOf[x]], x)
        BY <1>6, <2>1, <3>1, Zenon
      <4>3. QED
        BY <2>1, <4>1, <4>2, Zenon
    <3>2. CASE ~Contains(q[n], x)
      <4>1. \A t \in Tag : Contains(pool'[t], x) <=> Contains(pool[t], x)
        BY <1>6, <3>2, Zenon
      <4>2. \A k \in Node : (Served(k)' => ~Contains(q'[k], x)) <=>
                            (Served(k) => ~Contains(q[k], x))
        BY <2>2, <3>2, Zenon
      <4>3. QED
        BY <2>1, <4>1, <4>2, Zenon DEF OneHome
    <3>3. QED
      BY <3>1, <3>2
  <2>6. stray' = stray
    BY <1>1
  <2>7. QED
    BY <2>3, <2>4, <2>5, <2>6, Zenon DEF OneHome
<1>14. Messages'
  BY <1>2, <1>12, <1>13 DEF Messages
<1>15. QED
  BY <1>5, <1>8, <1>9, <1>10, <1>11, <1>14 DEF Inv

(* ClearupEnd preserves the invariant: the entry was given up before.        *)
LEMMA ClearupEndInv ==
    ASSUME Inv, ClearupEnd
    PROVE  Inv'
<1>1. /\ UNCHANGED << raw, store, sec, status, rx, fw, told, bounds, reused >>
      /\ ap.at = "remove" /\ ap' = [at |-> "poll", node |-> None, msg |-> None]
      /\ WdnRemove(ap.node)
  BY DEF ClearupEnd, ApAt
<1>2. PICK n \in Node : n = ap.node
  BY <1>1 DEF Inv, Control
<1>3. Linked(n) /\ n \notin raw /\ WdnRemove(n)
  BY <1>1, <1>2 DEF Inv, Control
<1>4. /\ list' \in Seq(Node) /\ spare' \in Seq(Node)
      /\ \A k \in Node : Linked(k)' <=> Linked(k) /\ k # n
      /\ who' \in [Node -> Sta \cup {None}]
      /\ pc' \in [Node -> {"auth", "open", "chal", "seq4", "maint", "dis"}]
      /\ st' \in [Node -> {"auth", "assoc", "unblock", "dauth"}]
      /\ pkt' \in [Node -> BOOLEAN] /\ idle' \in [Node -> 0 .. IdleMax]
      /\ \A k \in Node : k # n => who'[k] = who[k] /\ pc'[k] = pc[k] /\ st'[k] = st[k]
      /\ pc'[n] = "auth" /\ st'[n] = "auth"
  BY <1>3, RemovedFacts, Zenon
<1>5. /\ ap'.at = "poll" /\ Running /\ Running' /\ UNCHANGED << q, pool, body, stray >>
  BY <1>1 DEF Running, store
<1>6. \A k \in Node : (Served(k)' <=> Served(k)) /\ (Served(k) => k # n)
  BY <1>1, <1>2, <1>4, <1>5 DEF Served
<1>7. Entries' /\ Finders'
  <2>1. UNCHANGED << raw, rx, fw >>
    BY <1>1
  <2>2. QED
    BY <1>3, <2>1, RemovedEntries, Zenon
<1>8. Types'
  <2>1. ap' \in ApRec
    BY <1>1 DEF ApRec
  <2>2. TypeOK'
    BY <1>1, <1>4, <1>5 DEF Inv, Types, TypeOK
  <2>3. QED
    BY <1>1, <1>5, <2>1, <2>2 DEF Inv, Types
<1>9. Control'
  <2>1. \A k \in Node : k # n => Settled(k)
    BY <1>1, <1>2 DEF Inv, Control
  <2>2. \A k \in Node : Settled(k)'
    BY <1>4, <2>1 DEF Settled
  <2>3. QED
    BY <1>5, <2>2 DEF Control
<1>10. Request'
  <2>1. \A k \in Node, m \in Msg :
            Served(k) /\ Contains(q[k], m) /\ TagOf[m] = "assoc" => body[m].sta = who[k]
    BY DEF Inv, Request
  <2>2. \A k \in Node, m \in Msg :
            Served(k)' /\ Contains(q[k], m) /\ TagOf[m] = "assoc" => body[m].sta = who'[k]
    BY <1>4, <1>6, <2>1
  <2>3. QED
    BY <1>5, <2>2 DEF Request
<1>11. Told'
  <2>1. \A k \in Node, u \in Sta :
            Served(k)' /\ who'[k] = u /\ Established(st'[k]) <=>
                Served(k) /\ who[k] = u /\ Established(st[k])
    BY <1>4, <1>6
  <2>2. QED
    BY <1>1, <1>5, <2>1 DEF Inv, Told
<1>12. Messages'
  BY <1>5, <1>6 DEF Inv, Messages, Stores, OneHome
<1>13. QED
  BY <1>7, <1>8, <1>9, <1>10, <1>11, <1>12 DEF Inv

-----------------------------------------------------------------------------
(* The AP thread *)

(* AuthTimeout preserves the invariant.                                      *)
LEMMA AuthTimeoutInv ==
    ASSUME Inv, NEW n \in Node, AuthTimeout(n)
    PROVE  Inv'
<1>1. Linked(n) /\ n \notin raw /\ ap.at = "poll" /\ Clearup(n, st[n])
  BY DEF AuthTimeout, Polls
<1>2. QED
  BY <1>1, ClearupInv, Zenon

(* MaintIdle preserves the invariant.                                        *)
LEMMA MaintIdleInv ==
    ASSUME Inv, NEW n \in Node, MaintIdle(n)
    PROVE  Inv'
<1>1. Linked(n) /\ n \notin raw /\ ap.at = "poll" /\ Clearup(n, st[n])
  BY DEF MaintIdle, Polls
<1>2. QED
  BY <1>1, ClearupInv, Zenon

(* DisEnd preserves the invariant.                                           *)
LEMMA DisEndInv ==
    ASSUME Inv, NEW n \in Node, DisEnd(n)
    PROVE  Inv'
<1>1. Linked(n) /\ n \notin raw /\ ap.at = "poll" /\ Clearup(n, st[n])
  BY DEF DisEnd, Polls
<1>2. QED
  BY <1>1, ClearupInv, Zenon

(* MaintEnd preserves the invariant: the station was established, whichever  *)
(* frame ends the connection.                                                *)
LEMMA MaintEndInv ==
    ASSUME Inv, NEW n \in Node, MaintEnd(n)
    PROVE  Inv'
<1>1. PICK s : s = IF HeadTag(n) = "deauth" THEN "dauth" ELSE st[n]
  OBVIOUS
<1>2. /\ Linked(n) /\ n \notin raw /\ ap.at = "poll" /\ Polls(n, "maint")
      /\ Clearup(n, s)
  BY <1>1 DEF MaintEnd, Polls
<1>3. st[n] = "unblock"
  BY <1>2, PollsFacts
<1>4. Established(s) /\ Established(st[n])
  BY <1>1, <1>3 DEF Established
<1>5. QED
  BY <1>2, <1>4, ClearupInv, Zenon

(* AuthFirst preserves the invariant.                                        *)
LEMMA AuthFirstInv ==
    ASSUME Inv, NEW n \in Node, AuthFirst(n)
    PROVE  Inv'
<1>1. Linked(n) /\ n \notin raw /\ ap.at = "poll" /\ Polls(n, "auth") /\ HasMsg(n)
  BY DEF AuthFirst, Polls
<1>2. CASE Clearup(n, st[n])
  BY <1>1, <1>2, ClearupInv, Zenon
<1>3. ASSUME NEW p \in {"open", "chal"}, FreeHead(n), Stays, UNCHANGED ap,
             pc' = [pc EXCEPT ![n] = p], st' = [st EXCEPT ![n] = "auth"]
      PROVE  Inv'
  <2>1. st[n] = "auth"
    BY <1>1, PollsFacts
  <2>2. /\ pc' \in [Node -> {"auth", "open", "chal", "seq4", "maint", "dis"}]
        /\ st' \in [Node -> {"auth", "assoc", "unblock", "dauth"}]
        /\ \A k \in Node : k # n => pc'[k] = pc[k] /\ st'[k] = st[k]
        /\ pc'[n] = p /\ st'[n] = "auth"
    BY <1>3 DEF Inv, Types, TypeOK, ApRec, RxRec, FwRec
  <2>3. Settled(n)'
    BY <2>2 DEF Settled
  <2>4. Established(st'[n]) <=> Established(st[n])
    BY <2>1, <2>2
  <2>5. QED
    BY <1>1, <1>3, <2>2, <2>3, <2>4, FreeHeadInv, Zenon
<1>4. QED
  <2>1. \/ Clearup(n, st[n])
        \/ \E p \in {"open", "chal"} :
              /\ FreeHead(n) /\ Stays /\ UNCHANGED ap
              /\ pc' = [pc EXCEPT ![n] = p] /\ st' = [st EXCEPT ![n] = "auth"]
    BY DEF AuthFirst
  <2>2. QED
    BY <1>2, <1>3, <2>1, Zenon

(* AuthChallenge preserves the invariant.                                    *)
LEMMA AuthChallengeInv ==
    ASSUME Inv, NEW n \in Node, AuthChallenge(n)
    PROVE  Inv'
<1>1. Linked(n) /\ n \notin raw /\ ap.at = "poll" /\ Polls(n, "chal")
  BY DEF AuthChallenge, Polls
<1>2. CASE Clearup(n, st[n])
  BY <1>1, <1>2, ClearupInv, Zenon
<1>3. CASE pc' = [pc EXCEPT ![n] = "seq4"] /\ Stays /\ UNCHANGED << ap, st, q, pool, body >>
  <2>1. UNCHANGED << list, spare, who, raw, watch, stray, sec, status, rx, fw, told, bounds,
                     unfed, reused, ap, st, q, pool, body >>
    BY <1>3 DEF Stays
  <2>2. st[n] = "auth"
    BY <1>1, PollsFacts
  <2>3. /\ pc' \in [Node -> {"auth", "open", "chal", "seq4", "maint", "dis"}]
        /\ pc'[n] = "seq4" /\ \A k \in Node : k # n => pc'[k] = pc[k]
    BY <1>3 DEF Inv, Types, TypeOK, ApRec, RxRec, FwRec
  <2>4. Types'
    BY <2>1, <2>3 DEF Inv, Types, TypeOK, ApRec, RxRec, FwRec, watch
  <2>5. Entries'
    BY <1>1, <2>1, <2>3 DEF Inv, Entries, Linked
  <2>6. Finders'
    BY <2>1, SameFinders
  <2>7. Control'
    <3>1. \A k \in Node : Settled(k)
      BY <1>1 DEF Inv, Control
    <3>2. \A k \in Node : Settled(k)'
      BY <2>1, <2>2, <2>3, <3>1 DEF Settled
    <3>3. QED
      BY <1>1, <2>1, <3>2 DEF Control
  <2>8. Request'
    BY <2>1 DEF Inv, Request, Linked, Served
  <2>9. Messages'
    BY <2>1 DEF Inv, Messages, Stores, OneHome, Linked, Served, Running
  <2>10. Told'
    BY <2>1, SameTold
  <2>11. QED
    BY <2>4, <2>5, <2>6, <2>7, <2>8, <2>9, <2>10 DEF Inv
<1>4. QED
  BY <1>2, <1>3 DEF AuthChallenge

(* AuthDone preserves the invariant: the message that ends the               *)
(* authentication is left for the association.                               *)
LEMMA AuthDoneInv ==
    ASSUME Inv, NEW n \in Node, AuthDone(n)
    PROVE  Inv'
<1>1. /\ Linked(n) /\ n \notin raw /\ ap.at = "poll" /\ HasMsg(n)
      /\ pc[n] \in {"open", "seq4"}
      /\ ap' = [ap EXCEPT !.at = "assoc", !.node = n]
      /\ Stays /\ UNCHANGED << pc, st, q, pool, body >>
  BY DEF AuthDone, Polls
<1>2. UNCHANGED << list, spare, who, raw, watch, stray, sec, status, rx, fw, told, bounds,
                   unfed, reused, pc, st, q, pool, body >>
  BY <1>1 DEF Stays
<1>3. /\ ap'.at = "assoc" /\ ap'.node = n
      /\ ap' \in ApRec /\ Running /\ Running'
      /\ \A k : (Served(k)' <=> Served(k)) /\ (Linked(k)' <=> Linked(k))
  BY <1>1, <1>2 DEF Inv, Types, Served, Linked, Running, ApRec, RxRec, FwRec
<1>4. Types'
  BY <1>2, <1>3 DEF Inv, Types, TypeOK, ApRec, RxRec, FwRec, watch
<1>5. Entries'
  BY <1>2, SameEntries DEF table
<1>6. Finders'
  BY <1>2, SameFinders
<1>7. Control'
  <2>1. \A k \in Node : Settled(k)
    BY <1>1 DEF Inv, Control
  <2>2. \A k \in Node : Settled(k)'
    BY <1>2, <2>1 DEF Settled
  <2>3. Linked(n)' /\ n \notin raw' /\ HasMsg(n)' /\ ~Established(st'[n])
    BY <1>1, <1>2, <2>1 DEF Linked, HasMsg, Established, Settled
  <2>4. QED
    BY <1>3, <2>2, <2>3 DEF Control, Linked, HasMsg
<1>8. Request'
  BY <1>2, <1>3 DEF Inv, Request
<1>9. Messages'
  BY <1>1, <1>2, <1>3 DEF Inv, Messages, Stores, OneHome
<1>10. Told'
  BY <1>2, <1>3 DEF Inv, Told
<1>11. QED
  BY <1>4, <1>5, <1>6, <1>7, <1>8, <1>9, <1>10 DEF Inv

(* DisReassoc preserves the invariant: the framework is told at once that    *)
(* the connection ended.                                                     *)
LEMMA DisReassocInv ==
    ASSUME Inv, NEW n \in Node, DisReassoc(n)
    PROVE  Inv'
<1>1. /\ Linked(n) /\ n \notin raw /\ ap.at = "poll" /\ HasMsg(n) /\ pc[n] = "dis"
      /\ ap' = [ap EXCEPT !.at = "assoc", !.node = n]
      /\ st' = [st EXCEPT ![n] = "assoc"]
      /\ told' = [told EXCEPT ![who[n]] = None]
      /\ UNCHANGED << list, spare, who, raw, pc, watch, store, sec, status, rx, fw, bounds,
                      unfed, reused >>
  BY DEF DisReassoc, Polls
<1>2. UNCHANGED << q, pool, body, stray >>
  BY <1>1 DEF store
<1>3. /\ ap'.at = "assoc" /\ ap'.node = n
      /\ ap' \in ApRec /\ Running /\ Running'
      /\ \A k : (Served(k)' <=> Served(k)) /\ (Served(k) <=> Linked(k))
  BY <1>1 DEF Inv, Types, Served, Linked, Running, ApRec, RxRec, FwRec
<1>4. /\ st' \in [Node -> {"auth", "assoc", "unblock", "dauth"}]
      /\ st'[n] = "assoc" /\ \A k \in Node : k # n => st'[k] = st[k]
  BY <1>1 DEF Inv, Types, TypeOK, ApRec, RxRec, FwRec
<1>5. PICK s \in Sta : s = who[n]
  BY <1>1 DEF Inv, Entries
<1>6. /\ told' \in [Sta -> Sta \cup {None}]
      /\ told'[s] = None /\ \A u \in Sta : u # s => told'[u] = told[u]
  BY <1>1, <1>5 DEF Inv, Types, TypeOK, ApRec, RxRec, FwRec
<1>7. Types'
  BY <1>1, <1>2, <1>3, <1>4, <1>6 DEF Inv, Types, TypeOK, ApRec, RxRec, FwRec, watch
<1>8. Entries'
  BY <1>1, <1>4 DEF Inv, Entries, Linked
<1>9. Finders'
  BY <1>1, SameFinders
<1>10. Control'
  <2>1. \A k \in Node : Settled(k)
    BY <1>1 DEF Inv, Control
  <2>2. \A k \in Node : k # n => Settled(k)'
    BY <1>1, <1>4, <2>1 DEF Settled
  <2>3. Linked(n)' /\ n \notin raw' /\ HasMsg(n)' /\ ~Established(st'[n])
    BY <1>1, <1>2, <1>4 DEF Linked, HasMsg, Established
  <2>4. QED
    BY <1>3, <2>2, <2>3 DEF Control, Linked, HasMsg
<1>11. Request'
  BY <1>1, <1>2, <1>3 DEF Inv, Request
<1>12. Messages'
  BY <1>1, <1>2, <1>3 DEF Inv, Messages, Stores, OneHome
<1>13. Told'
  <2>1. ~Established(st'[n]) /\ \A k : Served(k)' <=> Served(k)
    BY <1>3, <1>4 DEF Established
  <2>2. ASSUME NEW u \in Sta
        PROVE  told'[u] # None <=>
                   \E k \in Node : Served(k)' /\ who'[k] = u /\ Established(st'[k])
    <3>1. told[u] # None <=> \E k \in Node : Served(k) /\ who[k] = u /\ Established(st[k])
      BY <1>3 DEF Inv, Told
    <3>2. \A k \in Node : Served(k) /\ who[k] = s => k = n
      BY <1>1, <1>3, <1>5 DEF Inv, Entries
    <3>3. who' = who
      BY <1>1
    <3>4. CASE u = s
      BY <1>6, <2>1, <3>2, <3>3, <3>4
    <3>5. CASE u # s
      BY <1>4, <1>5, <1>6, <2>1, <3>1, <3>3, <3>5
    <3>6. QED
      BY <3>4, <3>5
  <2>3. QED
    BY <1>1, <1>3, <1>6, <2>2 DEF Inv, Told
<1>14. QED
  BY <1>7, <1>8, <1>9, <1>10, <1>11, <1>12, <1>13 DEF Inv

(* AssocRefuse preserves the invariant: no station that is being associated  *)
(* is established.                                                           *)
LEMMA AssocRefuseInv ==
    ASSUME Inv, AssocRefuse
    PROVE  Inv'
<1>1. ap.at = "assoc"
  BY DEF AssocRefuse
<1>2. PICK n \in Node : n = ap.node
  BY <1>1 DEF Inv, Control
<1>3. PICK s : s = IF HeadTag(ap.node) = "assoc" THEN "assoc" ELSE st[ap.node]
  OBVIOUS
<1>4. Clearup(n, s)
  BY <1>2, <1>3 DEF AssocRefuse
<1>5. Linked(n) /\ n \notin raw /\ ~Established(st[n])
  BY <1>1, <1>2 DEF Inv, Control
<1>6. ~Established(s)
  BY <1>2, <1>3, <1>5 DEF Established
<1>7. QED
  BY <1>1, <1>2, <1>4, <1>5, <1>6, ClearupInv, Zenon

(* AssocAccept preserves the invariant: the request is in its pool again     *)
(* while the AP thread still needs it.                                       *)
LEMMA AssocAcceptInv ==
    ASSUME Inv, AssocAccept
    PROVE  Inv'
<1>1. ap.at = "assoc"
  BY DEF AssocAccept
<1>2. PICK n \in Node : n = ap.node
  BY <1>1 DEF Inv, Control
<1>3. PICK h : h = HeadMsg(n)
  OBVIOUS
<1>4. /\ TagOf[h] = "assoc"
      /\ st' = [st EXCEPT ![n] = "assoc"]
      /\ q' = [q EXCEPT ![n] = Tail(@)]
      /\ pool' = [pool EXCEPT ![TagOf[h]] = << h >> \o @]
      /\ ap' = [at |-> "report", node |-> n, msg |-> h]
      /\ Stays /\ UNCHANGED << pc, body >>
  BY <1>2, <1>3 DEF AssocAccept, HeadTag
<1>5. UNCHANGED << list, spare, who, raw, watch, stray, sec, status, rx, fw, told, bounds,
                   unfed, reused, pc, body >>
  BY <1>4 DEF Stays
<1>6. Linked(n) /\ n \notin raw /\ HasMsg(n) /\ ~Established(st[n])
  BY <1>1, <1>2 DEF Inv, Control, HasMsg
<1>7. /\ h \in Msg /\ Contains(q[n], h)
      /\ pool' \in [Tag -> Seq(Msg)] /\ q' \in [Node -> Seq(Msg)]
      /\ \A k \in Node : \A x : Contains(q'[k], x) => Contains(q[k], x)
      /\ Messages'
  <2>1. /\ ap.at \in {"poll", "assoc"} /\ ap'.at \in {"poll", "report"}
        /\ UNCHANGED << list, stray >> /\ Served(n)
    BY <1>1, <1>4, <1>5, <1>6 DEF Served
  <2>2. /\ q' = [q EXCEPT ![n] = Tail(@)]
        /\ pool' = [pool EXCEPT ![TagOf[h]] = << h >> \o @]
    BY <1>4
  <2>3. QED
    BY <1>3, <1>6, <2>1, <2>2, FreedMsg, Zenon
<1>8. /\ st' \in [Node -> {"auth", "assoc", "unblock", "dauth"}]
      /\ st'[n] = "assoc" /\ \A k \in Node : k # n => st'[k] = st[k]
  BY <1>4 DEF Inv, Types, TypeOK, ApRec, RxRec, FwRec
<1>9. Types'
  <2>1. ap' \in ApRec
    BY <1>4, <1>7 DEF ApRec
  <2>2. QED
    BY <1>4, <1>5, <1>7, <1>8, <2>1, SMTT(60) DEF Inv, Types, TypeOK, ApRec, RxRec, FwRec, watch
<1>10. /\ \A k : Linked(k)' <=> Linked(k)
       /\ \A k : (Served(k)' <=> Served(k)) /\ (Served(k) <=> Linked(k))
       /\ Running /\ Running'
  BY <1>1, <1>4, <1>5 DEF Linked, Served, Running
<1>11. Entries'
  BY <1>5, <1>6, <1>8, <1>10 DEF Inv, Entries
<1>12. Finders'
  BY <1>5, SameFinders
<1>13. ap'.at = "report" /\ ap'.node = n /\ ap'.msg = h
  BY <1>4
<1>14. Control'
  <2>1. \A k \in Node : k # n => Settled(k)
    BY <1>2 DEF Inv, Control
  <2>2. \A k \in Node : k # n => Settled(k)'
    BY <1>5, <1>8, <2>1 DEF Settled
  <2>3. Linked(n)' /\ n \notin raw' /\ ~Established(st'[n])
    BY <1>5, <1>6, <1>8, <1>10 DEF Established
  <2>4. QED
    BY <1>13, <2>2, <2>3 DEF Control, Linked
<1>15. Request'
  <2>1. \A k \in Node, x \in Msg :
           Served(k) /\ Contains(q[k], x) /\ TagOf[x] = "assoc" => body[x].sta = who[k]
    BY DEF Inv, Request
  <2>2. body[h].sta = who[n] /\ who[n] \in Sta
    BY <1>4, <1>6, <1>7, <1>10, <2>1 DEF Inv, Entries
  <2>3. \A k \in Node, x \in Msg :
           Served(k)' /\ Contains(q'[k], x) /\ TagOf[x] = "assoc" => body[x].sta = who[k]
    BY <1>7, <1>10, <2>1
  <2>4. QED
    BY <1>4, <1>5, <1>7, <1>13, <2>2, <2>3 DEF Request
<1>16. Told'
  <2>1. \A k \in Node : Established(st'[k]) <=> Established(st[k])
    BY <1>6, <1>8 DEF Established
  <2>2. QED
    BY <1>5, <1>10, <2>1 DEF Inv, Told
<1>17. QED
  BY <1>7, <1>9, <1>11, <1>12, <1>14, <1>15, <1>16 DEF Inv

(* Report preserves the invariant: what the framework is told is the request *)
(* of the station if its memory is still in the pool, and is remembered as   *)
(* overwritten otherwise.                                                    *)
LEMMA ReportInv ==
    ASSUME Inv, Report
    PROVE  Inv'
<1>1. ap.at = "report"
  BY DEF Report
<1>2. PICK n \in Node, m \in Msg : n = ap.node /\ m = ap.msg
  BY <1>1 DEF Inv, Control, Request
<1>3. Linked(n) /\ n \notin raw /\ ~Established(st[n])
  BY <1>1, <1>2 DEF Inv, Control
<1>4. PICK s \in Sta : s = who[n]
  BY <1>3 DEF Inv, Entries
<1>5. /\ told' = [told EXCEPT ![s] = body[m].sta]
      /\ Contains(pool["assoc"], m) =>
           reused' = reused \ {s} /\ body' = [body EXCEPT ![m] = NoBody]
      /\ ~Contains(pool["assoc"], m) => reused' = reused \cup {s} /\ body' = body
      /\ st' = [st EXCEPT ![n] = "unblock"]
      /\ pc' = [pc EXCEPT ![n] = "maint"]
      /\ status' = "established"
      /\ pkt' = [pkt EXCEPT ![n] = FALSE] /\ idle' = [idle EXCEPT ![n] = 0]
      /\ ap' = [at |-> "poll", node |-> None, msg |-> None]
      /\ UNCHANGED << list, spare, who, raw, q, pool, stray, sec, rx, fw, bounds, unfed >>
  BY <1>2, <1>4 DEF Report, ApAt
<1>6. /\ TagOf[m] = "assoc" /\ body[m].sta \in Sta
      /\ Contains(pool["assoc"], m) => body[m].sta = s
  BY <1>1, <1>2, <1>4 DEF Inv, Request
<1>7. /\ st' \in [Node -> {"auth", "assoc", "unblock", "dauth"}]
      /\ pc' \in [Node -> {"auth", "open", "chal", "seq4", "maint", "dis"}]
      /\ st'[n] = "unblock" /\ pc'[n] = "maint"
      /\ \A k \in Node : k # n => st'[k] = st[k] /\ pc'[k] = pc[k]
  BY <1>5 DEF Inv, Types, TypeOK, ApRec, RxRec, FwRec
<1>8. /\ told' \in [Sta -> Sta \cup {None}]
      /\ told'[s] = body[m].sta /\ \A u \in Sta : u # s => told'[u] = told[u]
  BY <1>5, <1>6 DEF Inv, Types, TypeOK, ApRec, RxRec, FwRec
<1>9. /\ body' \in [Msg -> Body] /\ \A x \in Msg : x # m => body'[x] = body[x]
      /\ ~Contains(pool["assoc"], m) => body' = body
  BY <1>5, ApFacts DEF Inv, Types, ApRec, RxRec, FwRec
<1>10. Types'
  <2>1. pkt' \in [Node -> BOOLEAN]
    <3>1. pkt \in [Node -> BOOLEAN]
      BY DEF Inv, Types, TypeOK, ApRec, RxRec, FwRec
    <3>2. QED
      BY <1>5, <3>1, Zenon
  <2>2. idle' \in [Node -> 0 .. IdleMax]
    BY <1>5, ApAssumption DEF Inv, Types, TypeOK, ApRec, RxRec, FwRec
  <2>3. ap' \in ApRec
    BY <1>5 DEF ApRec
  <2>4. QED
    BY <1>5, <1>7, <1>8, <1>9, <2>1, <2>2, <2>3 DEF Inv, Types, TypeOK, ApRec, RxRec, FwRec
<1>11. /\ \A k : Linked(k)' <=> Linked(k)
       /\ \A k : (Served(k)' <=> Served(k)) /\ (Served(k) <=> Linked(k))
       /\ Running /\ Running'
  BY <1>1, <1>5 DEF Linked, Served, Running
<1>12. Entries'
  BY <1>3, <1>5, <1>7, <1>11 DEF Inv, Entries
<1>13. Finders'
  BY <1>5, SameFinders
<1>14. Control'
  <2>1. \A k \in Node : k # n => Settled(k)
    BY <1>2 DEF Inv, Control
  <2>2. \A k \in Node : Settled(k)'
    BY <1>7, <2>1 DEF Settled
  <2>3. ap'.at = "poll"
    BY <1>5
  <2>4. QED
    BY <2>2, <2>3 DEF Control
<1>15. Request'
  <2>1. ASSUME NEW k \in Node, NEW x \in Msg, Served(k), Contains(q[k], x), TagOf[x] = "assoc"
        PROVE  body'[x].sta = who[k]
    <3>1. body[x].sta = who[k]
      BY <2>1 DEF Inv, Request
    <3>2. CASE Contains(pool["assoc"], m)
      <4>1. OneHome(m)
        BY <1>11 DEF Inv, Messages
      <4>2. ~Contains(q[k], m)
        BY <2>1, <3>2, <4>1, Zenon DEF OneHome, Tag
      <4>3. QED
        BY <1>9, <2>1, <3>1, <4>2
    <3>3. CASE ~Contains(pool["assoc"], m)
      BY <1>9, <3>1, <3>3
    <3>4. QED
      BY <3>2, <3>3
  <2>2. ap'.at = "poll"
    BY <1>5
  <2>3. QED
    BY <1>5, <1>11, <2>1, <2>2 DEF Request
<1>16. Messages'
  BY <1>5, <1>11 DEF Inv, Messages, Stores, OneHome
<1>17. Told'
  <2>1. Established(st'[n]) /\ who' = who /\ status' = "established"
    BY <1>5, <1>7 DEF Established
  <2>2. ASSUME NEW u \in Sta
        PROVE  /\ told'[u] # None <=>
                    \E k \in Node : Served(k)' /\ who'[k] = u /\ Established(st'[k])
               /\ told'[u] # None /\ u \notin reused' => told'[u] = u
    <3>1. CASE u = s
      <4>1. told'[u] # None
        BY <1>6, <1>8, <3>1, ApFacts
      <4>2. Served(n)' /\ who'[n] = u
        BY <1>3, <1>4, <1>11, <2>1, <3>1
      <4>3. u \notin reused' => told'[u] = u
        BY <1>5, <1>6, <1>8, <3>1
      <4>4. QED
        BY <2>1, <4>1, <4>2, <4>3
    <3>2. CASE u # s
      <4>1. /\ told[u] # None <=> \E k \in Node : Served(k) /\ who[k] = u /\ Established(st[k])
            /\ told[u] # None /\ u \notin reused => told[u] = u
        BY <1>11 DEF Inv, Told
      <4>2. told'[u] = told[u] /\ (u \in reused' <=> u \in reused)
        BY <1>5, <1>8, <3>2
      <4>3. QED
        BY <1>4, <1>7, <1>11, <2>1, <3>2, <4>1, <4>2
    <3>3. QED
      BY <3>1, <3>2
  <2>3. QED
    BY <2>1, <2>2 DEF Told
<1>18. QED
  BY <1>10, <1>12, <1>13, <1>14, <1>15, <1>16, <1>17 DEF Inv

-----------------------------------------------------------------------------
(* An entry is added, the access point starts and stops *)

(* RxAdd preserves the invariant: the station has no other entry.            *)
LEMMA RxAddInv ==
    ASSUME Inv, RxAdd
    PROVE  Inv'
<1>1. /\ UNCHANGED << watch, pool, body, stray, sec, status, ap, fw, told, bounds, unfed, reused >>
      /\ rx.at = "found" /\ rx.node = None
  BY DEF RxAdd
<1>2. CASE spare = << >>
  <2>1. UNCHANGED << table, q >> /\ rx' = [at |-> "idle", node |-> None, body |-> NoBody]
    BY <1>2 DEF RxAdd, RxIdle
  <2>2. UNCHANGED << table, store, ap >>
    BY <1>1, <2>1 DEF store
  <2>3. Types'
    <3>1. rx' \in RxRec
      BY <2>1, ApFacts DEF RxRec
    <3>2. QED
      BY <1>1, <2>1, <3>1 DEF Inv, Types, TypeOK, ApRec, RxRec, FwRec, table, watch
  <2>4. Entries'
    BY <1>1, <2>1 DEF Inv, Entries, Linked, table
  <2>5. Finders'
    BY <1>1, <2>1 DEF Inv, Finders, Linked, table
  <2>6. Control' /\ Request' /\ Messages'
    BY <2>2, SameStore
  <2>7. Told'
    BY <1>1, <2>1, SameTold DEF table
  <2>8. QED
    BY <2>3, <2>4, <2>5, <2>6, <2>7 DEF Inv
<1>3. CASE spare # << >>
  <2>1. spare \in Seq(Node) /\ list \in Seq(Node) /\ IsInjective(list) /\ IsInjective(spare)
    BY DEF Inv, Types, TypeOK, ApRec, RxRec, FwRec, Entries
  <2>2. PICK n \in Node : n = Head(spare)
    BY <1>3, <2>1, TailList
  <2>3. /\ spare' = Tail(spare) /\ list' = Append(list, n)
        /\ who' = [who EXCEPT ![n] = rx.body.sta]
        /\ raw' = raw \cup {n}
        /\ q' = [q EXCEPT ![n] = << >>]
        /\ UNCHANGED << pc, st >>
        /\ rx' = [rx EXCEPT !.at = "added", !.node = n]
    BY <1>3, <2>2 DEF RxAdd
  <2>4. /\ Tail(spare) \in Seq(Node) /\ Contains(spare, n)
        /\ \A x : Contains(spare, x) <=> x = n \/ Contains(Tail(spare), x)
        /\ IsInjective(spare) <=> IsInjective(Tail(spare)) /\ ~Contains(Tail(spare), n)
    BY <1>3, <2>1, <2>2, TailList, Zenon
  <2>5. ~Linked(n) /\ pc[n] = "auth" /\ st[n] = "auth"
    BY <2>4 DEF Inv, Entries
  <2>6. /\ Append(list, n) \in Seq(Node)
        /\ \A x : Contains(Append(list, n), x) <=> Contains(list, x) \/ x = n
        /\ IsInjective(Append(list, n)) <=> IsInjective(list) /\ ~Contains(list, n)
    BY <2>1, AppendList
  <2>7. /\ \A k : Linked(k)' <=> Linked(k) \/ k = n
        /\ \A k : Served(k)' <=> Served(k) \/ k = n
        /\ ~Served(n) /\ (Running' <=> Running)
    <3>1. \A k : Linked(k)' <=> Linked(k) \/ k = n
      BY <2>3, <2>6 DEF Linked
    <3>2. ~(ap.at = "remove" /\ ap.node = n)
      BY <2>5 DEF Inv, Control
    <3>3. QED
      BY <1>1, <2>5, <3>1, <3>2 DEF Served, Running
  <2>8. \A k \in Node : Contains(spare', k) <=> Contains(spare, k) /\ k # n
    BY <2>1, <2>3, <2>4, Zenon
  <2>9. /\ rx'.at = "added" /\ rx'.node = n /\ rx'.body = rx.body
        /\ rx' \in RxRec
    BY <2>3 DEF Inv, Types, ApRec, RxRec, FwRec
  <2>10. PICK s \in Sta : s = rx.body.sta
    BY <1>1 DEF Inv, Finders
  <2>11. /\ who' \in [Node -> Sta \cup {None}]
         /\ who'[n] = s /\ \A k \in Node : k # n => who'[k] = who[k]
    BY <2>3, <2>10 DEF Inv, Types, TypeOK, ApRec, RxRec, FwRec
  <2>12. /\ q' \in [Node -> Seq(Msg)]
         /\ q'[n] = << >> /\ \A k \in Node : k # n => q'[k] = q[k]
    BY <2>3 DEF Inv, Types, TypeOK, ApRec, RxRec, FwRec
  <2>13. \A k \in Node : Linked(k) => who[k] # s
    BY <1>1, <2>10 DEF Inv, Finders
  <2>14. raw' = {n}
    BY <1>1, <2>3 DEF Inv, Entries
  <2>15. Types'
    BY <1>1, <2>3, <2>4, <2>6, <2>9, <2>11, <2>12, <2>14, SMTT(60)
       DEF Inv, Types, TypeOK, ApRec, RxRec, FwRec, watch
  <2>16. Entries'
    <3>1. IsInjective(list') /\ IsInjective(spare')
      BY <2>1, <2>3, <2>4, <2>5, <2>6, Zenon DEF Linked
    <3>2. \A k \in Node : Linked(k)' <=> ~Contains(spare', k)
      BY <2>7, <2>8 DEF Inv, Entries
    <3>3. \A k \in Node : ~Linked(k)' \/ k \in raw' => pc'[k] = "auth" /\ st'[k] = "auth"
      BY <2>3, <2>5, <2>7, <2>14 DEF Inv, Entries
    <3>4. \A k \in Node : Linked(k)' => who'[k] \in Sta
      BY <2>7, <2>11 DEF Inv, Entries
    <3>5. \A i, k \in Node : Linked(i)' /\ Linked(k)' /\ who'[i] = who'[k] => i = k
      <4>1. \A i, k \in Node : Linked(i) /\ Linked(k) /\ who[i] = who[k] => i = k
        BY DEF Inv, Entries
      <4>2. QED
        BY <2>7, <2>11, <2>13, <4>1
    <3>6. \A k \in raw' : rx'.at = "added" /\ k = rx'.node
      BY <2>9, <2>14
    <3>7. QED
      BY <3>1, <3>2, <3>3, <3>4, <3>5, <3>6, Zenon DEF Entries
  <2>17. Finders'
    <3>1. rx'.body.sta \in Sta /\ rx'.body.kind \in DOMAIN Kind /\ rx'.body.sta = s
      BY <1>1, <2>9, <2>10 DEF Inv, Finders
    <3>2. rx'.node \in Node /\ rx'.node \in raw' /\ Linked(n)' /\ who'[rx'.node] = rx'.body.sta
      BY <2>7, <2>9, <2>11, <2>14, <3>1
    <3>3. fw'.at = "found" => fw'.node \in Node /\ fw'.tag \in {"deauth", "ba"}
      BY <1>1 DEF Inv, Finders
    <3>4. QED
      BY <2>9, <3>1, <3>2, <3>3 DEF Finders, Linked
  <2>18. ap.at \in {"assoc", "report", "remove"} =>
             ap.node \in Node /\ Linked(ap.node) /\ ap.node # n
    BY <2>5 DEF Inv, Control
  <2>19. Control'
    <3>1. ap.at = "assoc" => HasMsg(ap.node)'
      BY <1>1, <2>12, <2>18 DEF Inv, Control, HasMsg
    <3>2. ap.at \in {"assoc", "report", "remove"} => Linked(ap.node)' /\ ap.node \notin raw'
      BY <1>1, <2>7, <2>14, <2>18 DEF Linked
    <3>3. \A k \in Node : Settled(k)' <=> Settled(k)
      BY <2>3 DEF Settled
    <3>4. QED
      BY <1>1, <2>3, <2>18, <3>1, <3>2, <3>3 DEF Inv, Control, Established
  <2>20. \A k \in Node, x \in Msg :
            Served(k)' /\ Contains(q'[k], x) <=> Served(k) /\ Contains(q[k], x)
    <3>1. \A x : ~Contains(<< >>, x)
      BY EmptyList, Zenon
    <3>2. QED
      BY <2>7, <2>12, <3>1, Zenon
  <2>21. Request'
    <3>1. \A k \in Node, x \in Msg :
             Served(k)' /\ Contains(q'[k], x) /\ TagOf[x] = "assoc" => body[x].sta = who'[k]
      BY <2>7, <2>11, <2>20 DEF Inv, Request
    <3>2. ap.at = "report" => who'[ap.node] = who[ap.node]
      BY <2>11, <2>18
    <3>3. QED
      BY <1>1, <3>1, <3>2 DEF Inv, Request
  <2>22. Messages'
    <3>1. Stores'
      <4>1. \A k \in Node : Served(k)' => IsInjective(q'[k])
        <5>1. IsInjective(<< >>)
          BY EmptyList, Zenon
        <5>2. \A k \in Node : Served(k) => IsInjective(q[k])
          BY DEF Inv, Messages, Stores
        <5>3. QED
          BY <2>7, <2>12, <5>1, <5>2, Zenon
      <4>2. QED
        BY <1>1, <4>1 DEF Inv, Messages, Stores
    <3>2. ASSUME NEW x \in Msg, OneHome(x) PROVE OneHome(x)'
      <4>1. UNCHANGED << pool, stray >>
        BY <1>1
      <4>2. \A k \in Node : Served(k)' /\ Contains(q'[k], x) <=> Served(k) /\ Contains(q[k], x)
        BY <2>20, Zenon
      <4>3. QED
        BY <3>2, <4>1, <4>2 DEF OneHome
    <3>3. QED
      BY <1>1, <2>7, <3>1, <3>2 DEF Inv, Messages
  <2>23. Told'
    <3>1. ~Established(st'[n])
      BY <2>3, <2>5 DEF Established
    <3>2. \A k \in Node, u \in Sta :
             Served(k)' /\ who'[k] = u /\ Established(st'[k]) <=>
                 Served(k) /\ who[k] = u /\ Established(st[k])
      BY <2>3, <2>7, <2>11, <3>1
    <3>3. QED
      BY <1>1, <2>7, <3>2 DEF Inv, Told
  <2>24. QED
    BY <2>15, <2>16, <2>17, <2>19, <2>21, <2>22, <2>23 DEF Inv
<1>4. QED
  BY <1>2, <1>3

(* ApStart preserves the invariant: all messages are free again.             *)
LEMMA ApStartInv ==
    ASSUME Inv, ApStart
    PROVE  Inv'
<1>1. /\ UNCHANGED << table, watch, sec, rx, fw, inputs, unfed >>
      /\ ap.at = "off" /\ ap' = [at |-> "poll", node |-> None, msg |-> None]
      /\ pool' = AllFree /\ body' = [m \in Msg |-> NoBody]
      /\ q' = [n \in Node |-> << >>]
      /\ stray' = {} /\ status' = "standby"
      /\ told' = [s \in Sta |-> None]
  BY DEF ApStart, ApAt
<1>2. /\ AllFree \in [Tag -> Seq(Msg)]
      /\ \A t \in Tag : IsInjective(AllFree[t])
      /\ \A t \in Tag, m \in Msg : Contains(AllFree[t], m) <=> TagOf[m] = t
  BY AllFreePools, Zenon
<1>3. \A n \in Node : q'[n] = << >> /\ IsInjective(q'[n]) /\ \A x : ~Contains(q'[n], x)
  <2>1. IsInjective(<< >>) /\ \A x : ~Contains(<< >>, x)
    BY EmptyList, Zenon
  <2>2. \A n \in Node : q'[n] = << >>
    BY <1>1
  <2>3. QED
    BY <2>1, <2>2, Zenon
<1>4. \A n \in Node : st[n] = "auth" /\ Settled(n)
  BY <1>1 DEF Inv, Control
<1>5. Types'
  <2>1. body' \in [Msg -> Body]
    BY <1>1, ApFacts
  <2>2. q' \in [Node -> Seq(Msg)]
    BY <1>1
  <2>3. ap' \in ApRec /\ told' \in [Sta -> Sta \cup {None}]
    BY <1>1 DEF ApRec
  <2>4. QED
    BY <1>1, <1>2, <2>1, <2>2, <2>3 DEF Inv, Types, TypeOK, ApRec, RxRec, FwRec, table, watch
<1>6. Entries' /\ Finders'
  BY <1>1, SameEntries, SameFinders DEF table
<1>7. Control'
  BY <1>1, <1>4 DEF Control, Settled, table
<1>8. Request'
  BY <1>1, <1>3 DEF Request
<1>9. Told'
  <2>1. \A s \in Sta : told'[s] = None
    BY <1>1
  <2>2. \A n \in Node : ~Established(st'[n])
    BY <1>1, <1>4 DEF Established, table
  <2>3. QED
    BY <1>1, <2>1, <2>2 DEF Told
<1>10. Messages'
  <2>1. Stores'
    BY <1>1, <1>2, <1>3 DEF Stores
  <2>2. ASSUME NEW m \in Msg PROVE OneHome(m)'
    <3>1. TagOf[m] \in Tag /\ Contains(pool'[TagOf[m]], m) /\ m \notin stray'
      BY <1>1, <1>2, ApFacts
    <3>2. QED
      BY <1>3, <3>1, Zenon DEF OneHome
  <2>3. Running'
    BY <1>1 DEF Running
  <2>4. QED
    BY <2>1, <2>2, <2>3 DEF Messages
<1>11. QED
  BY <1>5, <1>6, <1>7, <1>8, <1>9, <1>10 DEF Inv

(* ApStop preserves the invariant: no pool has a message, and nothing is     *)
(* promised of the queues.                                                   *)
LEMMA ApStopInv ==
    ASSUME Inv, ApStop
    PROVE  Inv'
<1>1. /\ UNCHANGED << table, watch, q, body, stray, sec, status, rx, fw, told, bounds, unfed,
                      reused >>
      /\ ap.at = "poll" /\ ap' = [at |-> "stop", node |-> None, msg |-> None]
      /\ pool' = [t \in Tag |-> << >>]
  BY DEF ApStop, ApAt
<1>2. ap'.at = "stop" /\ ~Running' /\ UNCHANGED << list, who, raw, pc, st >>
  BY <1>1 DEF Running, table
<1>3. \A k : Served(k)' <=> Served(k)
  BY <1>1, <1>2 DEF Served, Linked
<1>4. Types'
  <2>1. ap' \in ApRec /\ pool' \in [Tag -> Seq(Msg)]
    BY <1>1 DEF ApRec
  <2>2. QED
    BY <1>1, <1>2, <2>1 DEF Inv, Types, TypeOK, table, watch
<1>5. Entries' /\ Finders'
  BY <1>1, SameEntries, SameFinders DEF table
<1>6. Control'
  BY <1>1, <1>2 DEF Inv, Control, Settled
<1>7. Request'
  BY <1>1, <1>2, <1>3 DEF Inv, Request
<1>8. Told'
  BY <1>2 DEF Told
<1>9. Messages'
  <2>1. IsInjective(<< >>) /\ \A x : ~Contains(<< >>, x)
    BY EmptyList, Zenon
  <2>2. \A t \in Tag : pool'[t] = << >>
    BY <1>1
  <2>3. Stores'
    BY <1>1, <1>3, <2>1, <2>2 DEF Inv, Messages, Stores
  <2>4. QED
    BY <1>2, <2>2, <2>3 DEF Messages
<1>10. QED
  BY <1>4, <1>5, <1>6, <1>7, <1>8, <1>9 DEF Inv

(* StopEntry preserves the invariant.                                        *)
LEMMA StopEntryInv ==
    ASSUME Inv, NEW n \in Node, StopEntry(n)
    PROVE  Inv'
<1>1. /\ UNCHANGED << raw, pool, body, stray, sec, status, ap, rx, fw, told, bounds, reused >>
      /\ ap.at = "stop" /\ Linked(n) /\ n \notin raw /\ WdnRemove(n)
      /\ q' = [q EXCEPT ![n] = << >>]
  BY DEF StopEntry
<1>2. /\ list' \in Seq(Node) /\ spare' \in Seq(Node)
      /\ \A k \in Node : Linked(k)' <=> Linked(k) /\ k # n
      /\ who' \in [Node -> Sta \cup {None}]
      /\ pc' \in [Node -> {"auth", "open", "chal", "seq4", "maint", "dis"}]
      /\ st' \in [Node -> {"auth", "assoc", "unblock", "dauth"}]
      /\ pkt' \in [Node -> BOOLEAN] /\ idle' \in [Node -> 0 .. IdleMax]
      /\ \A k \in Node : k # n => who'[k] = who[k] /\ pc'[k] = pc[k] /\ st'[k] = st[k]
      /\ pc'[n] = "auth" /\ st'[n] = "auth"
  BY <1>1, RemovedFacts, Zenon
<1>3. q' \in [Node -> Seq(Msg)] /\ \A k \in Node : k # n => q'[k] = q[k]
  BY <1>1 DEF Inv, Types, TypeOK
<1>4. ap'.at = "stop" /\ ~Running /\ ~Running'
  BY <1>1 DEF Running
<1>5. \A k \in Node : Served(k)' <=> Served(k) /\ k # n
  BY <1>1, <1>2, <1>4 DEF Served
<1>6. Entries' /\ Finders'
  <2>1. UNCHANGED << raw, rx, fw >>
    BY <1>1
  <2>2. QED
    BY <1>1, <2>1, RemovedEntries, Zenon
<1>7. Types'
  <2>1. TypeOK'
    BY <1>1, <1>2, <1>3 DEF Inv, Types, TypeOK
  <2>2. QED
    BY <1>1, <2>1 DEF Inv, Types
<1>8. Control'
  <2>1. \A k \in Node : Settled(k)
    BY <1>1 DEF Inv, Control
  <2>2. \A k \in Node : Settled(k)'
    BY <1>2, <2>1 DEF Settled
  <2>3. QED
    BY <1>4, <2>2 DEF Control
<1>9. Request'
  <2>1. \A k \in Node, m \in Msg :
            Served(k) /\ Contains(q[k], m) /\ TagOf[m] = "assoc" => body[m].sta = who[k]
    BY DEF Inv, Request
  <2>2. \A k \in Node, m \in Msg :
            Served(k)' /\ Contains(q'[k], m) /\ TagOf[m] = "assoc" => body[m].sta = who'[k]
    BY <1>2, <1>3, <1>5, <2>1
  <2>3. QED
    BY <1>1, <1>4, <2>2 DEF Request
<1>10. Told'
  BY <1>4 DEF Told
<1>11. Messages'
  <2>1. \A k \in Node : Served(k)' => IsInjective(q'[k])
    BY <1>3, <1>5 DEF Inv, Messages, Stores
  <2>2. QED
    BY <1>1, <1>4, <2>1 DEF Inv, Messages, Stores
<1>12. QED
  BY <1>6, <1>7, <1>8, <1>9, <1>10, <1>11 DEF Inv

(* StopDone preserves the invariant: only an entry that is being set up is   *)
(* left.                                                                     *)
LEMMA StopDoneInv ==
    ASSUME Inv, StopDone
    PROVE  Inv'
<1>1. /\ UNCHANGED << table, watch, store, sec, rx, fw, told, bounds, unfed, reused >>
      /\ ap.at = "stop" /\ ap' = [at |-> "off", node |-> None, msg |-> None]
      /\ status' = "uninit" /\ \A n \in Node : Linked(n) => n \in raw
  BY DEF StopDone, ApAt
<1>2. /\ ap'.at = "off" /\ ~Running /\ ~Running'
      /\ UNCHANGED << list, who, raw, pc, st, q, pool, body, stray >>
  BY <1>1 DEF Running, table, store
<1>3. \A k : Served(k)' <=> Served(k)
  BY <1>1, <1>2 DEF Served, Linked
<1>4. Types'
  <2>1. ap' \in ApRec
    BY <1>1 DEF ApRec
  <2>2. QED
    BY <1>1, <1>2, <2>1 DEF Inv, Types, TypeOK, table, watch
<1>5. Entries' /\ Finders'
  BY <1>1, SameEntries, SameFinders DEF table
<1>6. Control'
  <2>1. \A k \in Node : pc[k] = "auth" /\ st[k] = "auth"
    BY <1>1 DEF Inv, Entries
  <2>2. QED
    BY <1>2, <2>1 DEF Control, Settled
<1>7. Request'
  BY <1>2, <1>3 DEF Inv, Request
<1>8. Told'
  BY <1>2 DEF Told
<1>9. Messages'
  BY <1>2, <1>3 DEF Inv, Messages, Stores
<1>10. QED
  BY <1>4, <1>5, <1>6, <1>7, <1>8, <1>9 DEF Inv

-----------------------------------------------------------------------------
(* The theorems *)

(* Every step preserves the invariant.                                       *)
LEMMA NextInv == Inv /\ [Next]_vars => Inv'
<1> SUFFICES ASSUME Inv, [Next]_vars PROVE Inv'
  OBVIOUS
<1>1. ASSUME NEW s \in Sta, NEW k \in Kinds, RxFind(s, k) PROVE Inv'
  BY <1>1, RxFindInv
<1>2. ASSUME NEW s \in Sta, RxData(s) \/ \E t \in Loads : FwFind(s, t) PROVE Inv'
  BY <1>2, RxDataInv, FwFindInv
<1>3. CASE RxStep \/ RxLost
  BY <1>3, RxAddInv, RxUpdateInv, RxLoadInv, RxLostInv DEF RxStep
<1>4. CASE FwLoad \/ FwLost \/ ApStart \/ ApStop \/ StopDone
  BY <1>4, FwLoadInv, FwLostInv, ApStartInv, ApStopInv, StopDoneInv
<1>5. ASSUME NEW n \in Node, StopEntry(n) \/ ApEntry(n) PROVE Inv'
  <2>1. CASE StopEntry(n)
    BY <2>1, StopEntryInv
  <2>2. CASE AuthFirst(n) \/ AuthAgain(n) \/ AuthChallenge(n) \/ AuthTimeout(n) \/ AuthDone(n)
    BY <2>2, AuthFirstInv, AuthAgainInv, AuthChallengeInv, AuthTimeoutInv, AuthDoneInv
  <2>3. CASE \/ MaintTick(n) \/ MaintIdle(n) \/ MaintEnd(n) \/ MaintDisassoc(n) \/ MaintOther(n)
             \/ DisReassoc(n) \/ DisEnd(n)
    BY <2>3, MaintTickInv, MaintIdleInv, MaintEndInv, MaintDisassocInv, MaintOtherInv,
       DisReassocInv, DisEndInv
  <2>4. QED
    BY <1>5, <2>1, <2>2, <2>3 DEF ApEntry
<1>6. CASE ApAssoc
  BY <1>6, AssocRefuseInv, AssocAcceptInv, ReportInv, ClearupEndInv DEF ApAssoc
<1>7. CASE UNCHANGED vars
  <2>1. UNCHANGED << table, watch, store, status, ap, rx, fw, told, reused >>
    BY <1>7 DEF vars
  <2>2. Types'
    BY <2>1 DEF Inv, Types, TypeOK, ApRec, RxRec, FwRec, table, watch, store
  <2>3. Entries' /\ Finders'
    BY <2>1, SameEntries, SameFinders DEF table
  <2>4. Control' /\ Request' /\ Messages' /\ Told'
    BY <2>1, SameStore, SameTold DEF table
  <2>5. QED
    BY <2>2, <2>3, <2>4 DEF Inv
<1>8. QED
  BY <1>1, <1>2, <1>3, <1>4, <1>5, <1>6, <1>7 DEF Next

(* The invariant always holds.                                               *)
LEMMA InvAlways == Spec => []Inv
BY InitInv, NextInv, PTL DEF Spec

(* When the AP thread polls, the framework knows exactly the stations that   *)
(* are established, each from its own request unless that was overwritten.   *)
THEOREM ApFrameworkAgrees == Spec => []FrameworkAgrees
<1>1. Inv => FrameworkAgrees
  <2> SUFFICES ASSUME Inv, ap.at = "poll", NEW s \in Sta
               PROVE  /\ told[s] # None <=> EntryOf(s) # None /\ Established(st[EntryOf(s)])
                      /\ told[s] # None /\ s \notin reused => told[s] = s
                      /\ told[s] # None => status = "established"
    BY DEF FrameworkAgrees
  <2>1. Running /\ \A k : Served(k) <=> Linked(k)
    BY DEF Running, Served
  <2>2. PICK n : n = EntryOf(s)
    OBVIOUS
  <2>3. \/ n = None /\ \A k \in Node : Linked(k) => who[k] # s
        \/ n \in Node /\ Linked(n) /\ who[n] = s
    BY <2>2, EntryOfFacts, Zenon
  <2>4. /\ told[s] # None <=> \E k \in Node : Linked(k) /\ who[k] = s /\ Established(st[k])
        /\ told[s] # None /\ s \notin reused => told[s] = s
        /\ told[s] # None => status = "established"
    BY <2>1 DEF Inv, Told
  <2>5. \A k \in Node : n \in Node /\ Linked(k) /\ who[k] = s => k = n
    BY <2>3, ApFacts DEF Inv, Entries
  <2>6. (\E k \in Node : Linked(k) /\ who[k] = s /\ Established(st[k])) <=>
            n # None /\ Established(st[n])
    BY <2>3, <2>5, ApFacts, Zenon
  <2>7. QED
    BY <2>2, <2>4, <2>6, Zenon
<1>2. QED
  BY <1>1, InvAlways, PTL

(* The places of a message: one, or none if it is stray.                     *)
LEMMA PlacesOfMsg ==
    ASSUME Inv, Running, NEW m \in Msg
    PROVE  Cardinality(Places(m)) = IF m \in stray THEN 0 ELSE 1
<1>1. OneHome(m) /\ TagOf[m] \in Tag /\ \A t \in Tag : Contains(pool[t], m) => TagOf[m] = t
  BY ApFacts DEF Inv, Messages, Stores
<1>2. \A x : x \in Places(m) <=>
               \/ \E t \in Tag : Contains(pool[t], m) /\ x = << "pool", t >>
               \/ \E n \in Node : Served(n) /\ Contains(q[n], m) /\ x = << "queue", n >>
  BY DEF Places
<1>3. CASE m \in stray
  <2>1. Places(m) = {}
    BY <1>1, <1>2, <1>3, Zenon DEF OneHome
  <2>2. QED
    BY <1>3, <2>1, FS_EmptySet
<1>4. CASE m \notin stray
  <2>1. ASSUME NEW x, Places(m) = {x} PROVE Cardinality(Places(m)) = 1
    BY <2>1, FS_Singleton
  <2>2. CASE Contains(pool[TagOf[m]], m)
    <3>1. \A n \in Node : Served(n) => ~Contains(q[n], m)
      BY <1>1, <2>2, Zenon DEF OneHome
    <3>2. \A x : x \in Places(m) <=> x = << "pool", TagOf[m] >>
      BY <1>1, <1>2, <2>2, <3>1, Zenon
    <3>3. Places(m) = { << "pool", TagOf[m] >> }
      BY <3>2, Zenon
    <3>4. QED
      BY <1>4, <2>1, <3>3
  <2>3. CASE ~Contains(pool[TagOf[m]], m)
    <3>1. \A t \in Tag : ~Contains(pool[t], m)
      BY <1>1, <2>3, Zenon
    <3>2. PICK n \in Node : Served(n) /\ Contains(q[n], m)
      BY <1>1, <1>4, <3>1, Zenon DEF OneHome
    <3>3. \A k \in Node : Served(k) /\ Contains(q[k], m) => k = n
      BY <1>1, <3>2, Zenon DEF OneHome
    <3>4. \A x : x \in Places(m) <=> x = << "queue", n >>
      BY <1>2, <3>1, <3>2, <3>3, Zenon
    <3>5. Places(m) = { << "queue", n >> }
      BY <3>4, Zenon
    <3>6. QED
      BY <1>4, <2>1, <3>5
  <2>4. QED
    BY <2>2, <2>3
<1>5. QED
  BY <1>3, <1>4

(* No message and no entry is lost or used twice: while the access point     *)
(* runs a message is free or in one queue, or was loaded into a removed      *)
(* entry, and every entry is linked or free.                                 *)
THEOREM ApMessagesAccounted == Spec => []MessagesAccounted
<1>1. Inv => MessagesAccounted
  <2> SUFFICES ASSUME Inv PROVE MessagesAccounted
    OBVIOUS
  <2>1. TypeOK
    BY DEF Inv, Types, ApRec, RxRec, FwRec
  <2>2. Running =>
            \A m \in Msg : Cardinality(Places(m)) = IF m \in stray THEN 0 ELSE 1
    BY PlacesOfMsg
  <2>3. /\ list \in Seq(Node) /\ spare \in Seq(Node) /\ IsInjective(list) /\ IsInjective(spare)
        /\ \A n \in Node : Linked(n) <=> ~Contains(spare, n)
    BY DEF Inv, Types, TypeOK, ApRec, RxRec, FwRec, Entries
  <2>4. PICK a : a = list \o spare
    OBVIOUS
  <2>5. /\ a \in Seq(Node)
        /\ \A x : Contains(a, x) <=> Contains(list, x) \/ Contains(spare, x)
        /\ IsInjective(a) <=>
             /\ IsInjective(list) /\ IsInjective(spare)
             /\ \A x : Contains(list, x) => ~Contains(spare, x)
    BY <2>3, <2>4, ConcatList, Zenon
  <2>6. \A x : Contains(list, x) => x \in Node
    BY <2>3 DEF Contains
  <2>7. IsInjective(a) /\ \A n \in Node : Contains(a, n)
    BY <2>3, <2>5, <2>6, Zenon DEF Linked
  <2>8. Len(a) = Cardinality(Node)
    BY <2>5, <2>7, ListLength, Zenon
  <2>9. Len(a) = Len(list) + Len(spare)
    BY <2>3, <2>4
  <2>10. QED
    BY <2>1, <2>2, <2>4, <2>7, <2>8, <2>9 DEF MessagesAccounted
<1>2. QED
  BY <1>1, InvAlways, PTL

=============================================================================
