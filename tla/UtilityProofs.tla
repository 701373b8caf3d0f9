--------------------------- MODULE UtilityProofs ---------------------------
(***************************************************************************)
(* Proofs about the two utilities that every other component rests on      *)
(* (nic/utility): the message queue, for every pool of messages, every     *)
(* assignment of tags and any number of senders, and the software timer,   *)
(* for every sequence of its operations.                                   *)
(*                                                                         *)
(* One lemma for each action of the queue says that it keeps the inductive *)
(* invariant Inv; what the operators of WfMsg do to a list is in           *)
(* WfMsgLemmas.                                                            *)
(***************************************************************************)
EXTENDS WfMsgQue, WfMsgLemmas

VARIABLES now, start, expire, interval, begin, due

Timer == INSTANCE WfTimer

PendSorted ==
    /\ Sorted(pend, DomFn, {})
    /\ Sorted(pend, KeyFn, headed)

(* The inductive invariant. *)
Inv == TypeOK /\ OneOwner /\ SeenStaysPending /\ PendSorted

(* wf_msg_init establishes the inductive invariant.                          *)
LEMMA InitInv == Init => Inv
<1> SUFFICES ASSUME Init PROVE Inv
  OBVIOUS
<1>1. Len(<< >>) = 0 /\ << >> \in Seq(Msg)
  OBVIOUS
<1>2. TypeOK
  BY <1>1 DEF Init, TypeOK, Phase
<1>3. OneOwner
  BY <1>1 DEF Init, OneOwner, OnePlace, LinkedOnce, Contains
<1>4. SeenStaysPending /\ PendSorted
  BY <1>1 DEF Init, SeenStaysPending, PendSorted, Sorted
<1>5. QED
  BY <1>2, <1>3, <1>4 DEF Inv

(* wf_msg_alloc *)
LEMMA AllocInv == ASSUME Inv, NEW m \in Msg, Alloc(m) PROVE Inv'
<1>1. /\ free' \in Seq(Msg)
      /\ LinkedOnce(free')
      /\ \A x \in Msg : Contains(free', x) <=> Contains(free, x) \/ x = m
  BY DelProperties, Zenon DEF Inv, TypeOK, OneOwner, Alloc
<1>2. /\ pend' = pend /\ held' = held /\ seen' = seen /\ headed' = headed
      /\ raw' = raw \ {m} /\ m \in raw
  BY DEF Alloc
<1>3. TypeOK'
  BY <1>1, <1>2 DEF Inv, TypeOK, Alloc, Phase
<1>4. OneOwner'
  BY <1>1, <1>2 DEF Inv, TypeOK, OneOwner, OnePlace
<1>5. SeenStaysPending' /\ PendSorted'
  BY <1>2 DEF Inv, SeenStaysPending, PendSorted
<1>6. QED
  BY <1>3, <1>4, <1>5 DEF Inv

(* wf_msg_new *)
LEMMA NewInv == ASSUME Inv, NEW t \in Sender, NEW tag, New(t, tag) PROVE Inv'
<1> DEFINE m == FirstFree(free, tag)
<1>1. m \in Msg /\ Contains(free, m)
  BY FirstFreeProperties DEF Inv, TypeOK, New
<1>2. free' = Unlink(free, m) /\ held' = [held EXCEPT ![t] = @ \cup {m}]
  BY DEF New
<1> HIDE DEF m
<1>3. /\ free' \in Seq(Msg)
      /\ LinkedOnce(free')
      /\ \A x \in Msg : Contains(free', x) <=> Contains(free, x) /\ x # m
  BY <1>1, <1>2, UnlinkProperties, Zenon DEF Inv, TypeOK, OneOwner
<1>4. /\ pend' = pend /\ seen' = seen /\ headed' = headed /\ raw' = raw
      /\ phase' = phase /\ t \in Thread
  BY DEF New, Thread
<1>5. TypeOK'
  BY <1>1, <1>2, <1>3, <1>4 DEF Inv, TypeOK
<1>6. OneOwner'
  BY <1>1, <1>2, <1>3, <1>4 DEF Inv, TypeOK, OneOwner, OnePlace
<1>7. SeenStaysPending' /\ PendSorted'
  BY <1>4 DEF Inv, SeenStaysPending, PendSorted
<1>8. QED
  BY <1>5, <1>6, <1>7 DEF Inv

(* What links a held message into the pending list keeps everything but the  *)
(* order.                                                                    *)
LEMMA PushOwnership ==
    ASSUME TypeOK, OneOwner, SeenStaysPending, NEW t \in Thread, NEW m \in held[t],
           held' = [held EXCEPT ![t] = @ \ {m}],
           pend' \in Seq(Msg), LinkedOnce(pend'),
           \A x \in Msg : Contains(pend', x) <=> Contains(pend, x) \/ x = m,
           headed' \in SUBSET Msg,
           UNCHANGED << free, seen, raw, phase >>
    PROVE  TypeOK' /\ OneOwner' /\ SeenStaysPending'
<1>1. m \in Msg
  BY DEF TypeOK
<1>2. TypeOK'
  BY DEF TypeOK
<1>3. OneOwner'
  BY <1>1 DEF TypeOK, OneOwner, OnePlace
<1>4. SeenStaysPending'
  BY DEF TypeOK, SeenStaysPending
<1>5. QED
  BY <1>2, <1>3, <1>4

(* wf_msg_push *)
LEMMA PushInv == ASSUME Inv, NEW t \in Sender, NEW m \in Msg, PushMsg(t, m) PROVE Inv'
<1>1. t \in Thread /\ m \in held[t] /\ ~Contains(pend, m)
  BY DEF PushMsg, Inv, OneOwner, OnePlace, Thread
<1>2. /\ pend' \in Seq(Msg)
      /\ LinkedOnce(pend')
      /\ \A x \in Msg : Contains(pend', x) <=> Contains(pend, x) \/ x = m
      /\ Sorted(pend, KeyFn, headed) => Sorted(pend', KeyFn, headed \ {m})
      /\ Sorted(pend, DomFn, {}) => Sorted(pend', DomFn, {})
  BY <1>1, PushProperties DEF PushMsg, Inv, TypeOK, OneOwner
<1>3. headed' = headed \ {m} /\ headed' \in SUBSET Msg
  BY DEF PushMsg, Inv, TypeOK
<1>4. TypeOK' /\ OneOwner' /\ SeenStaysPending'
  BY <1>1, <1>2, <1>3, PushOwnership DEF PushMsg, Inv
<1>5. PendSorted'
  BY <1>2, <1>3, Zenon DEF Inv, PendSorted
<1>6. QED
  BY <1>4, <1>5 DEF Inv

(* wf_msg_push_head *)
LEMMA PushHeadInv == ASSUME Inv, NEW t \in Sender, NEW m \in Msg, PushHeadMsg(t, m) PROVE Inv'
<1>1. t \in Thread /\ m \in held[t] /\ ~Contains(pend, m)
  BY DEF PushHeadMsg, Inv, OneOwner, OnePlace, Thread
<1>2. /\ pend' \in Seq(Msg)
      /\ LinkedOnce(pend')
      /\ \A x \in Msg : Contains(pend', x) <=> Contains(pend, x) \/ x = m
      /\ Sorted(pend, DomFn, {}) => Sorted(pend', DomFn, {})
      /\ Sorted(pend, KeyFn, headed) => Sorted(pend', KeyFn, headed \cup {m})
  BY <1>1, PushHeadProperties DEF PushHeadMsg, Inv, TypeOK, OneOwner
<1>3. headed' = headed \cup {m} /\ headed' \in SUBSET Msg
  BY DEF PushHeadMsg, Inv, TypeOK
<1>4. TypeOK' /\ OneOwner' /\ SeenStaysPending'
  BY <1>1, <1>2, <1>3, PushOwnership DEF PushHeadMsg, Inv
<1>5. PendSorted'
  BY <1>2, <1>3, Zenon DEF Inv, PendSorted
<1>6. QED
  BY <1>4, <1>5 DEF Inv

(* Popping any pending message: msg_get and msg_get_dom with bpop. *)
LEMMA PopInv ==
    ASSUME Inv, NEW m \in Msg, Contains(pend, m),
           pend' = Unlink(pend, m),
           held' = [held EXCEPT ![Receiver] = @ \cup {m}],
           seen' = seen \ {m},
           UNCHANGED << free, headed, raw, phase >>
    PROVE  Inv'
<1>1. /\ pend' \in Seq(Msg)
      /\ LinkedOnce(pend')
      /\ \A x \in Msg : Contains(pend', x) <=> Contains(pend, x) /\ x # m
  BY UnlinkProperties, Zenon DEF Inv, TypeOK, OneOwner
<1>2. Receiver \in Thread
  BY DEF Thread
<1>3. TypeOK'
  BY <1>1, <1>2 DEF Inv, TypeOK
<1>4. OneOwner'
  BY <1>1, <1>2 DEF Inv, TypeOK, OneOwner, OnePlace
<1>5. SeenStaysPending'
  BY <1>1 DEF Inv, TypeOK, SeenStaysPending
<1>6. PendSorted'
  BY UnlinkSorted, KeyDomTypes DEF Inv, TypeOK, OneOwner, PendSorted
<1>7. QED
  BY <1>3, <1>4, <1>5, <1>6 DEF Inv

(* wf_msg_del of a held message *)
LEMMA DelHeldInv == ASSUME Inv, NEW t \in Thread, NEW m \in Msg, DelHeld(t, m) PROVE Inv'
<1>1. /\ free' \in Seq(Msg)
      /\ LinkedOnce(free')
      /\ \A x \in Msg : Contains(free', x) <=> Contains(free, x) \/ x = m
  BY DelProperties, Zenon DEF Inv, TypeOK, OneOwner, DelHeld
<1>2. /\ m \in held[t] /\ held' = [held EXCEPT ![t] = @ \ {m}]
      /\ pend' = pend /\ seen' = seen /\ headed' = headed
      /\ raw' = raw /\ phase' = phase
  BY DEF DelHeld
<1>3. TypeOK'
  BY <1>1, <1>2 DEF Inv, TypeOK
<1>4. OneOwner'
  BY <1>1, <1>2 DEF Inv, TypeOK, OneOwner, OnePlace
<1>5. SeenStaysPending' /\ PendSorted'
  BY <1>2 DEF Inv, SeenStaysPending, PendSorted
<1>6. QED
  BY <1>3, <1>4, <1>5 DEF Inv

(* wf_msg_del of a message the receiver looked at *)
LEMMA DelSeenInv == ASSUME Inv, NEW m \in Msg, DelSeen(m) PROVE Inv'
<1>1. /\ free' \in Seq(Msg)
      /\ LinkedOnce(free')
      /\ \A x \in Msg : Contains(free', x) <=> Contains(free, x) \/ x = m
  BY DelProperties, Zenon DEF Inv, TypeOK, OneOwner, DelSeen
<1>2. /\ pend' \in Seq(Msg)
      /\ LinkedOnce(pend')
      /\ \A x \in Msg : Contains(pend', x) <=> Contains(pend, x) /\ x # m
  BY UnlinkProperties, Zenon DEF Inv, TypeOK, OneOwner, DelSeen
<1>3. /\ Contains(pend, m) /\ seen' = seen \ {m}
      /\ held' = held /\ headed' = headed /\ raw' = raw /\ phase' = phase
  BY DEF DelSeen, Inv, SeenStaysPending
<1>4. TypeOK'
  BY <1>1, <1>2, <1>3 DEF Inv, TypeOK
<1>5. OneOwner'
  BY <1>1, <1>2, <1>3 DEF Inv, TypeOK, OneOwner, OnePlace
<1>6. SeenStaysPending'
  BY <1>2, <1>3 DEF Inv, TypeOK, SeenStaysPending
<1>7. PendSorted'
  BY UnlinkSorted, KeyDomTypes DEF Inv, TypeOK, OneOwner, PendSorted, DelSeen
<1>8. QED
  BY <1>4, <1>5, <1>6, <1>7 DEF Inv

(* wf_msg_free *)
LEMMA FreeAllInv == ASSUME Inv, FreeAll PROVE Inv'
<1>1. Len(<< >>) = 0 /\ << >> \in Seq(Msg)
  OBVIOUS
<1>2. ASSUME NEW s \in Seq(Msg)
      PROVE  ToSet(s) \in SUBSET Msg /\ \A x \in Msg : Contains(s, x) <=> x \in ToSet(s)
  BY DEF ToSet, Contains
<1>3. \A x \in Msg : ~Contains(<< >>, x)
  BY <1>1 DEF Contains
<1>4. TypeOK'
  BY <1>1, <1>2 DEF Inv, TypeOK, FreeAll, Phase
<1>5. OneOwner'
  <2>1. LinkedOnce(pend') /\ LinkedOnce(free')
    BY <1>1 DEF FreeAll, LinkedOnce
  <2>2. ASSUME NEW m \in Msg PROVE OnePlace(m)'
    BY <1>2, <1>3 DEF Inv, TypeOK, FreeAll, OneOwner, OnePlace
  <2>3. QED
    BY <2>1, <2>2 DEF OneOwner
<1>6. SeenStaysPending' /\ PendSorted'
  BY <1>1 DEF FreeAll, SeenStaysPending, PendSorted, Sorted
<1>7. QED
  BY <1>4, <1>5, <1>6 DEF Inv

(* Every step keeps the inductive invariant. *)
LEMMA NextInv == Inv /\ [Next]_vars => Inv'
<1> SUFFICES ASSUME Inv, [Next]_vars PROVE Inv'
  OBVIOUS
<1>1. ASSUME NEW m \in Msg, Alloc(m) PROVE Inv'
  BY <1>1, AllocInv
<1>2. ASSUME NEW m \in Msg, DelSeen(m) PROVE Inv'
  BY <1>2, DelSeenInv
<1>3. ASSUME NEW t \in Sender, NEW m \in Msg, New(t, Tag[m]) PROVE Inv'
  BY <1>3, NewInv
<1>4. ASSUME NEW t \in Sender, NEW m \in Msg, PushMsg(t, m) PROVE Inv'
  BY <1>4, PushInv
<1>5. ASSUME NEW t \in Sender, NEW m \in Msg, PushHeadMsg(t, m) PROVE Inv'
  BY <1>5, PushHeadInv
<1>6. ASSUME NEW t \in Thread, NEW m \in Msg, DelHeld(t, m) PROVE Inv'
  BY <1>6, DelHeldInv
<1>7. ASSUME NEW btail \in BOOLEAN, PopMsg(btail) PROVE Inv'
  <2>1. EndOf(pend, btail) \in Msg /\ Contains(pend, EndOf(pend, btail))
    BY <1>7, EndOfProperties DEF PopMsg, Inv, TypeOK
  <2>2. QED
    BY <1>7, <2>1, PopInv DEF PopMsg
<1>8. ASSUME NEW btail \in BOOLEAN, GetMsg(btail) PROVE Inv'
  <2>1. EndOf(pend, btail) \in Msg /\ Contains(pend, EndOf(pend, btail))
    BY <1>8, EndOfProperties DEF GetMsg, Inv, TypeOK
  <2>2. /\ pend' = pend /\ free' = free /\ held' = held
        /\ headed' = headed /\ raw' = raw /\ phase' = phase
        /\ seen' = {EndOf(pend, btail)}
    BY <1>8 DEF GetMsg
  <2>3. TypeOK' /\ SeenStaysPending'
    BY <2>1, <2>2 DEF Inv, TypeOK, SeenStaysPending
  <2>4. OneOwner' /\ PendSorted'
    BY <2>2 DEF Inv, OneOwner, OnePlace, PendSorted
  <2>5. QED
    BY <2>3, <2>4 DEF Inv
<1>9. ASSUME NEW m \in Msg, NEW btail \in BOOLEAN, PopDom(Dom(m), btail) PROVE Inv'
  <2>1. /\ EndOfDom(pend, Dom(m), btail) \in Msg
        /\ Contains(pend, EndOfDom(pend, Dom(m), btail))
    BY <1>9, EndOfDomProperties DEF PopDom, Inv, TypeOK
  <2>2. QED
    BY <1>9, <2>1, PopInv DEF PopDom
<1>10. ASSUME FreeAll PROVE Inv'
  BY <1>10, FreeAllInv
<1>11. ASSUME UNCHANGED vars PROVE Inv'
  BY <1>11 DEF vars, Inv, TypeOK, OneOwner, OnePlace, SeenStaysPending, PendSorted
<1>12. QED
  BY <1>1, <1>2, <1>3, <1>4, <1>5, <1>6, <1>7, <1>8, <1>9, <1>10, <1>11 DEF Next

(* The inductive invariant holds in every reachable state. *)
LEMMA InvAlways == Spec => []Inv
BY InitInv, NextInv, PTL DEF Spec

(* The type invariant of the message queue, for any pool and any threads. *)
THEOREM TypeCorrect == Spec => []TypeOK
<1>1. Inv => TypeOK
  BY DEF Inv
<1>2. QED
  BY <1>1, InvAlways, PTL

(* No sequence of new, push, pop, get, del and free by any number of senders *)
(* and the receiver loses a message, links it twice or gives it to two       *)
(* threads.                                                                  *)
THEOREM MessagesHaveOneOwner == Spec => []Ownership
<1>1. Inv => Ownership
  BY DEF Inv, Ownership
<1>2. QED
  BY <1>1, InvAlways, PTL

(* A message the receiver looked at with wf_msg_get is still pending when it *)
(* deletes it.                                                               *)
THEOREM SeenMessagesWait == Spec => []SeenStaysPending
<1>1. Inv => SeenStaysPending
  BY DEF Inv
<1>2. QED
  BY <1>1, InvAlways, PTL

(* Whatever is pushed with wf_msg_push and wf_msg_push_head and popped in    *)
(* between, only a message pushed to the head stands before a more urgent    *)
(* one, and never before one of a more urgent domain.                        *)
THEOREM PendingMostUrgentFirst == Spec => []MostUrgentFirst
<1>1. Inv => MostUrgentFirst
  <2> SUFFICES ASSUME Inv, NEW i \in 1 .. Len(pend), NEW j \in 1 .. Len(pend), i < j
               PROVE  /\ Dom(pend[i]) <= Dom(pend[j])
                      /\ pend[i] \notin headed => Key(pend[i]) <= Key(pend[j])
    BY DEF MostUrgentFirst
  <2>1. pend[i] \in Msg /\ pend[j] \in Msg
    BY DEF Inv, TypeOK
  <2>2. DomFn[pend[i]] <= DomFn[pend[j]]
    BY Zenon DEF Inv, PendSorted, Sorted
  <2>3. pend[i] \notin headed => KeyFn[pend[i]] <= KeyFn[pend[j]]
    BY Zenon DEF Inv, PendSorted, Sorted
  <2>4. QED
    BY <2>1, <2>2, <2>3 DEF DomFn, KeyFn
<1>2. QED
  BY <1>1, InvAlways, PTL

-----------------------------------------------------------------------------
(* The order of two lists, said with the positions of their messages.        *)
LEMMA SameOrderKeepsOrder ==
    ASSUME pend \in Seq(Msg), pend' \in Seq(Msg), SameOrder(pend, pend')
    PROVE  KeepsOrder
<1> SUFFICES ASSUME NEW i \in 1 .. Len(pend), NEW j \in 1 .. Len(pend), i < j,
                    Contains(pend', pend[i]), Contains(pend', pend[j])
             PROVE  PosOf(pend', pend[i]) < PosOf(pend', pend[j])
  BY DEF KeepsOrder
<1>1. ASSUME NEW x, Contains(pend', x)
      PROVE  PosOf(pend', x) \in 1 .. Len(pend') /\ pend'[PosOf(pend', x)] = x
  BY <1>1, Zenon DEF PosOf, Contains
<1>2. QED
  BY <1>1, Zenon DEF SameOrder

(* A step that leaves the pending list alone changes no order.               *)
LEMMA UnchangedKeepsOrder ==
    ASSUME Inv, pend' = pend
    PROVE  KeepsOrder
<1>1. pend \in Seq(Msg) /\ LinkedOnce(pend)
  BY DEF Inv, TypeOK, OneOwner
<1>2. SameOrder(pend, pend')
  <2>1. ASSUME NEW i \in 1 .. Len(pend), NEW j \in 1 .. Len(pend),
               NEW a \in 1 .. Len(pend), NEW b \in 1 .. Len(pend),
               i < j, pend[a] = pend[i], pend[b] = pend[j]
        PROVE  a < b
    <3>1. a = i /\ b = j
      BY <1>1, <2>1, Zenon DEF LinkedOnce
    <3>2. QED
      BY <2>1, <3>1
  <2>2. QED
    BY <2>1, Zenon DEF SameOrder
<1>3. QED
  BY <1>1, <1>2, SameOrderKeepsOrder

(* Unlinking any message changes no order of the others.                     *)
LEMMA PopKeepsOrder ==
    ASSUME Inv, NEW m \in Msg, pend' = Unlink(pend, m)
    PROVE  KeepsOrder
<1>1. pend \in Seq(Msg) /\ LinkedOnce(pend)
  BY DEF Inv, TypeOK, OneOwner
<1>2. pend' \in Seq(Msg) /\ SameOrder(pend, pend')
  BY <1>1, UnlinkProperties, UnlinkKeepsOrder, Zenon
<1>3. QED
  BY <1>1, <1>2, SameOrderKeepsOrder

(* Two messages that stay pending never change their order, whatever is      *)
(* pushed, pushed to the head, popped from either end or from the middle and *)
(* deleted: the place wf_msg_push and wf_msg_push_head look for is between   *)
(* two neighbours, and no operation moves anybody else.                      *)
THEOREM PendingKeepsOrder == Spec => OrderIsStable
<1>1. ASSUME Inv, Next PROVE KeepsOrder
  <2>1. ASSUME NEW m \in Msg, Alloc(m) PROVE KeepsOrder
    BY <1>1, <2>1, UnchangedKeepsOrder DEF Alloc
  <2>2. ASSUME NEW m \in Msg, DelSeen(m) PROVE KeepsOrder
    BY <1>1, <2>2, PopKeepsOrder DEF DelSeen
  <2>3. ASSUME NEW t \in Sender, NEW m \in Msg, New(t, Tag[m]) PROVE KeepsOrder
    BY <1>1, <2>3, UnchangedKeepsOrder DEF New
  <2>4. ASSUME NEW t \in Sender, NEW m \in Msg, PushMsg(t, m) PROVE KeepsOrder
    <3>1. ~Contains(pend, m) /\ pend \in Seq(Msg) /\ LinkedOnce(pend)
      BY <1>1, <2>4 DEF PushMsg, Inv, TypeOK, OneOwner, OnePlace, Thread
    <3>2. pend' \in Seq(Msg)
      BY <1>1, <2>4, PushInv DEF Inv, TypeOK
    <3>3. SameOrder(pend, pend')
      BY <2>4, <3>1, PushKeepsOrder, Zenon DEF PushMsg
    <3>4. QED
      BY <3>1, <3>2, <3>3, SameOrderKeepsOrder
  <2>5. ASSUME NEW t \in Sender, NEW m \in Msg, PushHeadMsg(t, m) PROVE KeepsOrder
    <3>1. ~Contains(pend, m) /\ pend \in Seq(Msg) /\ LinkedOnce(pend)
      BY <1>1, <2>5 DEF PushHeadMsg, Inv, TypeOK, OneOwner, OnePlace, Thread
    <3>2. pend' \in Seq(Msg)
      BY <1>1, <2>5, PushHeadInv DEF Inv, TypeOK
    <3>3. SameOrder(pend, pend')
      BY <2>5, <3>1, PushKeepsOrder, Zenon DEF PushHeadMsg
    <3>4. QED
      BY <3>1, <3>2, <3>3, SameOrderKeepsOrder
  <2>6. ASSUME NEW t \in Thread, NEW m \in Msg, DelHeld(t, m) PROVE KeepsOrder
    BY <1>1, <2>6, UnchangedKeepsOrder DEF DelHeld
  <2>7. ASSUME NEW btail \in BOOLEAN, PopMsg(btail) PROVE KeepsOrder
    <3>1. EndOf(pend, btail) \in Msg
      BY <1>1, <2>7, EndOfProperties DEF PopMsg, Inv, TypeOK
    <3>2. QED
      BY <1>1, <2>7, <3>1, PopKeepsOrder DEF PopMsg
  <2>8. ASSUME NEW btail \in BOOLEAN, GetMsg(btail) PROVE KeepsOrder
    BY <1>1, <2>8, UnchangedKeepsOrder DEF GetMsg
  <2>9. ASSUME NEW m \in Msg, NEW btail \in BOOLEAN, PopDom(Dom(m), btail)
        PROVE  KeepsOrder
    <3>1. EndOfDom(pend, Dom(m), btail) \in Msg
      BY <1>1, <2>9, EndOfDomProperties DEF PopDom, Inv, TypeOK
    <3>2. QED
      BY <1>1, <2>9, <3>1, PopKeepsOrder DEF PopDom
  <2>10. ASSUME FreeAll PROVE KeepsOrder
    <3>1. pend' = << >> /\ Len(<< >>) = 0
      BY <2>10 DEF FreeAll
    <3>2. \A x : ~Contains(pend', x)
      BY <3>1 DEF Contains
    <3>3. QED
      BY <3>2, Zenon DEF KeepsOrder
  <2>11. QED
    BY <1>1, <2>1, <2>2, <2>3, <2>4, <2>5, <2>6, <2>7, <2>8, <2>9, <2>10, Zenon DEF Next
<1>2. Inv /\ [Next]_vars => [KeepsOrder]_vars
  BY <1>1
<1>3. QED
  BY <1>2, InvAlways, PTL DEF Spec, OrderIsStable

-----------------------------------------------------------------------------
(* The queue implements one first-in first-out line per class (MsgPrio).     *)

\* The messages of class c, and the line of each class in a pending list
OfClass(c) == { m \in Msg : Key(m) = c }
Lines(s) == [c \in Class |-> Select(s, OfClass(c))]

(* The state of MsgPrio that a state of the queue stands for.                *)
LEMMA PrioVars ==
    /\ Prio!vars = << Lines(pend), held[Receiver] >>
    /\ (Prio!vars)' = << Lines(pend'), held'[Receiver] >>
BY DEF Prio!vars, Lines, OfClass

(* A step that changes neither the pending list nor what the receiver holds  *)
(* leaves the lines alone.                                                   *)
LEMMA PrioStutters ==
    ASSUME pend' = pend, held'[Receiver] = held[Receiver]
    PROVE  UNCHANGED Prio!vars
BY PrioVars

(* What a line holds.                                                        *)
LEMMA LineOf ==
    ASSUME NEW s \in Seq(Msg), NEW c \in Class
    PROVE  /\ Lines(s)[c] = Select(s, OfClass(c))
           /\ Lines(s)[c] \in Seq(Msg)
           /\ \A x : Contains(Lines(s)[c], x) <=> Contains(s, x) /\ x \in Msg /\ Key(x) = c
<1>1. Lines(s)[c] = Select(s, OfClass(c))
  BY Zenon DEF Lines
<1>2. Select(s, OfClass(c)) \in Seq(Msg)
  BY SelectProperties, Zenon
<1>3. \A x : Contains(Select(s, OfClass(c)), x) <=> Contains(s, x) /\ x \in OfClass(c)
  BY SelectProperties, Zenon
<1>4. \A x : x \in OfClass(c) <=> x \in Msg /\ Key(x) = c
  BY Zenon DEF OfClass
<1>5. QED
  BY <1>1, <1>2, <1>3, <1>4, Zenon

(* Every pending message waits in some line.                                 *)
LEMMA WaitingIsPending ==
    ASSUME pend \in Seq(Msg), NEW m \in Msg
    PROVE  m \in Prio!Waiting <=> Contains(pend, m)
<1>1. ASSUME NEW c \in Class
      PROVE  m \in Prio!ToSet(Lines(pend)[c]) <=> Contains(pend, m) /\ Key(m) = c
  <2>1. DOMAIN Lines(pend)[c] = 1 .. Len(Lines(pend)[c])
    BY LineOf, LenProperties, Zenon
  <2>2. m \in Prio!ToSet(Lines(pend)[c]) <=> Contains(Lines(pend)[c], m)
    BY <2>1, Zenon DEF Prio!ToSet, Contains
  <2>3. QED
    BY <2>2, LineOf, Zenon
<1>2. m \in Prio!Waiting <=> \E c \in Class : m \in Prio!ToSet(Lines(pend)[c])
  BY Zenon DEF Prio!Waiting, Lines, OfClass
<1>3. Key(m) \in Class
  BY Zenon DEF Class
<1>4. QED
  BY <1>1, <1>2, <1>3, Zenon

(* wf_msg_push puts a message at the end of the line of its class.           *)
LEMMA PushArrives ==
    ASSUME Inv, NEW t \in Sender, NEW m \in Msg, PushMsg(t, m)
    PROVE  Prio!Arrive(m)
<1>1. /\ pend \in Seq(Msg) /\ held \in [Thread -> SUBSET Msg] /\ m \in held[t]
      /\ t \in Thread /\ Receiver \in Thread /\ t # Receiver
  BY ThreadAssumption DEF Inv, TypeOK, PushMsg, Thread
<1>2. ~Contains(pend, m) /\ m \notin held[Receiver]
  BY <1>1 DEF Inv, OneOwner, OnePlace
<1>3. held'[Receiver] = held[Receiver]
  BY <1>1 DEF PushMsg
<1> DEFINE n == PushPos(pend, m)
<1>4. /\ n \in 0 .. Len(pend)
      /\ \A i \in n + 1 .. Len(pend) : Key(m) < Key(pend[i])
  BY <1>1, PushPosProperties, KeyDomTypes, Zenon
<1>5. pend' = InsertAt(pend, n + 1, m)
  BY DEF PushMsg, Push
<1> HIDE DEF n
<1>6. ASSUME NEW c \in Class
      PROVE  Lines(pend')[c] = IF c = Key(m) THEN Append(Lines(pend)[c], m)
                               ELSE Lines(pend)[c]
  <2>1. CASE c = Key(m)
    <3>1. m \in OfClass(c)
      BY <2>1, Zenon DEF OfClass
    <3>2. \A i \in n + 1 .. Len(pend) : pend[i] \notin OfClass(c)
      BY <1>1, <1>4, <2>1, KeyDomTypes DEF OfClass
    <3>3. Select(InsertAt(pend, n + 1, m), OfClass(c)) = Append(Select(pend, OfClass(c)), m)
      BY <1>1, <1>4, <3>1, <3>2, InsertSelect, Zenon
    <3>4. QED
      BY <1>5, <2>1, <3>3, Zenon DEF Lines
  <2>2. CASE c # Key(m)
    <3>1. m \notin OfClass(c)
      BY <2>2, Zenon DEF OfClass
    <3>2. Select(InsertAt(pend, n + 1, m), OfClass(c)) = Select(pend, OfClass(c))
      BY <1>1, <1>4, <3>1, InsertSelect, Zenon
    <3>3. QED
      BY <1>5, <2>2, <3>2, Zenon DEF Lines
  <2>3. QED
    BY <2>1, <2>2
<1>7. Lines(pend') = [Lines(pend) EXCEPT ![Key(m)] = Append(@, m)]
  <2>1. /\ Lines(pend') = [c \in Class |-> Lines(pend')[c]]
        /\ Lines(pend) = [c \in Class |-> Lines(pend)[c]]
    BY Zenon DEF Lines
  <2>2. QED
    BY <1>6, <2>1
<1>8. m \notin Prio!Waiting
  BY <1>1, <1>2, WaitingIsPending, Zenon
<1>9. [x \in Msg |-> Key(x)][m] = Key(m)
  OBVIOUS
<1>10. QED
  BY <1>2, <1>3, <1>7, <1>8, <1>9, Zenon DEF Prio!Arrive, Lines, OfClass

(* Taking out one message leaves the lines of the other classes alone.       *)
LEMMA OtherLines ==
    ASSUME NEW s \in Seq(Msg), LinkedOnce(s), NEW p \in 1 .. Len(s),
           NEW c \in Class, c # Key(s[p])
    PROVE  Lines(Unlink(s, s[p]))[c] = Lines(s)[c]
<1>1. s[p] \notin OfClass(c)
  BY Zenon DEF OfClass
<1>2. Select(Unlink(s, s[p]), OfClass(c)) = Select(s, OfClass(c))
  BY <1>1, UnlinkSelect, Zenon
<1>3. QED
  BY <1>2, Zenon DEF Lines

\* The line of the class of s[p] is x, s[p] and y, and without s[p] it is x and y.
InOwnLine(s, p, x, y) ==
    /\ Lines(s)[Key(s[p])] = (x \o << s[p] >>) \o y
    /\ Lines(Unlink(s, s[p]))[Key(s[p])] = x \o y
    /\ \A e : Contains(x, e) \/ Contains(y, e) => e # s[p]
    /\ (\A i \in 1 .. p - 1 : Key(s[i]) # Key(s[p])) => x = << >>
    /\ (\A i \in p + 1 .. Len(s) : Key(s[i]) # Key(s[p])) => y = << >>

(* What it does to the line of its own class.                                *)
LEMMA OwnLine ==
    ASSUME NEW s \in Seq(Msg), LinkedOnce(s), NEW p \in 1 .. Len(s)
    PROVE  \E x, y \in Seq(Msg) : InOwnLine(s, p, x, y)
<1> DEFINE k == Key(s[p])
           T == OfClass(k)
<1>1. s[p] \in Msg
  OBVIOUS
<1>2. k \in Class /\ s[p] \in T
  BY <1>1, Zenon DEF Class, OfClass
<1>3. \A e : Key(e) # k => e \notin T
  BY Zenon DEF OfClass
<1>4. Lines(s)[k] = Select(s, T) /\ Lines(Unlink(s, s[p]))[k] = Select(Unlink(s, s[p]), T)
  BY <1>2, Zenon DEF Lines
<1> HIDE DEF T
<1>5. PICK x, y \in Seq(Msg) : Around(s, p, T, x, y)
  BY <1>2, UnlinkSelect, Zenon
<1>6. /\ Lines(s)[k] = (x \o << s[p] >>) \o y
      /\ Lines(Unlink(s, s[p]))[k] = x \o y
      /\ \A e : Contains(x, e) \/ Contains(y, e) => e # s[p]
  BY <1>4, <1>5, Zenon DEF Around
<1>7. (\A i \in 1 .. p - 1 : Key(s[i]) # k) => x = << >>
  BY <1>3, <1>5, Zenon DEF Around
<1>8. (\A i \in p + 1 .. Len(s) : Key(s[i]) # k) => y = << >>
  BY <1>3, <1>5, Zenon DEF Around
<1>9. QED
  BY <1>6, <1>7, <1>8, Zenon DEF InOwnLine

(* All lines after taking out one message.                                   *)
LEMMA LineShorter ==
    ASSUME NEW s \in Seq(Msg), LinkedOnce(s), NEW p \in 1 .. Len(s)
    PROVE  Lines(Unlink(s, s[p])) =
                [Lines(s) EXCEPT ![Key(s[p])] = Lines(Unlink(s, s[p]))[Key(s[p])]]
<1>1. \A c \in Class : c # Key(s[p]) => Lines(Unlink(s, s[p]))[c] = Lines(s)[c]
  BY OtherLines, Zenon
<1>2. /\ Lines(Unlink(s, s[p])) = [c \in Class |-> Lines(Unlink(s, s[p]))[c]]
      /\ Lines(s) = [c \in Class |-> Lines(s)[c]]
  BY Zenon DEF Lines
<1>3. QED
  BY <1>1, <1>2

(* The classes that have messages are those of the pending messages.         *)
LEMMA BusyIsPending ==
    ASSUME pend \in Seq(Msg), NEW D \in SUBSET Class, NEW c
    PROVE  c \in Prio!Busy(D) <=> c \in D /\ \E x \in Msg : Contains(pend, x) /\ Key(x) = c
<1>1. ASSUME c \in D
      PROVE  Lines(pend)[c] # << >> <=> \E x \in Msg : Contains(pend, x) /\ Key(x) = c
  <2> DEFINE l == Lines(pend)[c]
  <2>1. /\ l \in Seq(Msg)
        /\ \A x : Contains(l, x) <=> Contains(pend, x) /\ x \in Msg /\ Key(x) = c
    BY <1>1, LineOf, Zenon
  <2> HIDE DEF l
  <2>2. l # << >> <=> \E x \in Msg : Contains(l, x)
    BY <2>1 DEF Contains
  <2>3. QED
    BY <2>1, <2>2, Zenon DEF l
<1>2. c \in Prio!Busy(D) <=> c \in D /\ Lines(pend)[c] # << >>
  BY Zenon DEF Prio!Busy, Lines, OfClass
<1>3. QED
  BY <1>1, <1>2, Zenon

(* Popping the first pending message of the most urgent class of D.          *)
LEMMA PopTakesFirst ==
    ASSUME pend \in Seq(Msg), LinkedOnce(pend), NEW p \in 1 .. Len(pend), NEW m, m = pend[p],
           NEW D \in SUBSET Class, Key(m) \in D,
           \A x \in Msg : Contains(pend, x) /\ Key(x) \in D => Key(m) <= Key(x),
           \A i \in 1 .. p - 1 : Key(pend[i]) # Key(m),
           pend' = Unlink(pend, m), held'[Receiver] = held[Receiver] \cup {m}
    PROVE  Prio!TakeFirst(D)
<1> DEFINE k == Key(m)
<1>1. m \in Msg /\ Contains(pend, m) /\ k \in Class
  <2>1. m \in Msg
    OBVIOUS
  <2>2. QED
    BY <2>1, Zenon DEF Contains, Class
<1>2. k \in Prio!Busy(D)
  BY <1>1, BusyIsPending, Zenon
<1>3. ASSUME NEW d \in Prio!Busy(D) PROVE k <= d
  <2>1. PICK x \in Msg : Contains(pend, x) /\ Key(x) = d /\ d \in D
    BY <1>3, BusyIsPending, Zenon
  <2>2. QED
    BY <2>1, Zenon
<1>4. PICK y \in Seq(Msg) : /\ Lines(pend)[k] = (<< >> \o << m >>) \o y
                            /\ Lines(Unlink(pend, m))[k] = << >> \o y
  <2>1. PICK x, y \in Seq(Msg) : InOwnLine(pend, p, x, y)
    BY OwnLine, Zenon
  <2>2. x = << >>
    BY <2>1, Zenon DEF InOwnLine
  <2>3. QED
    BY <2>1, <2>2, Zenon DEF InOwnLine
<1>5. << >> \o y = y /\ Head((<< >> \o << m >>) \o y) = m /\ Tail((<< >> \o << m >>) \o y) = y
  BY <1>1
<1>6. /\ Lines(Unlink(pend, m))[k] = y /\ Head(Lines(pend)[k]) = m /\ Tail(Lines(pend)[k]) = y
  BY <1>4, <1>5, Zenon
<1>7. Lines(pend') = [Lines(pend) EXCEPT ![k] = y]
  <2>1. Lines(Unlink(pend, pend[p]))[Key(pend[p])] = y
    BY <1>6, Zenon
  <2>2. Lines(Unlink(pend, pend[p])) =
            [Lines(pend) EXCEPT ![Key(pend[p])] = Lines(Unlink(pend, pend[p]))[Key(pend[p])]]
    BY LineShorter, Zenon
  <2>3. QED
    BY <2>1, <2>2, Zenon
<1>8. Lines(pend') = [Lines(pend) EXCEPT ![k] = Tail(@)]
  BY <1>6, <1>7
<1> HIDE DEF k
<1>9. QED
  BY <1>2, <1>3, <1>6, <1>8, Zenon DEF Prio!TakeFirst, Lines, OfClass

(* Popping the last pending message of the least urgent class of D.          *)
LEMMA PopTakesLast ==
    ASSUME pend \in Seq(Msg), LinkedOnce(pend), NEW p \in 1 .. Len(pend), NEW m, m = pend[p],
           NEW D \in SUBSET Class, Key(m) \in D,
           \A x \in Msg : Contains(pend, x) /\ Key(x) \in D => Key(x) <= Key(m),
           \A i \in p + 1 .. Len(pend) : Key(pend[i]) # Key(m),
           pend' = Unlink(pend, m), held'[Receiver] = held[Receiver] \cup {m}
    PROVE  Prio!TakeLast(D)
<1> DEFINE k == Key(m)
<1>1. m \in Msg /\ Contains(pend, m) /\ k \in Class
  <2>1. m \in Msg
    OBVIOUS
  <2>2. QED
    BY <2>1, Zenon DEF Contains, Class
<1>2. k \in Prio!Busy(D)
  BY <1>1, BusyIsPending, Zenon
<1>3. ASSUME NEW d \in Prio!Busy(D) PROVE d <= k
  <2>1. PICK x \in Msg : Contains(pend, x) /\ Key(x) = d /\ d \in D
    BY <1>3, BusyIsPending, Zenon
  <2>2. QED
    BY <2>1, Zenon
<1>4. PICK y \in Seq(Msg) : /\ Lines(pend)[k] = (y \o << m >>) \o << >>
                            /\ Lines(Unlink(pend, m))[k] = y \o << >>
  <2>1. PICK x, y \in Seq(Msg) : InOwnLine(pend, p, x, y)
    BY OwnLine, Zenon
  <2>2. y = << >>
    BY <2>1, Zenon DEF InOwnLine
  <2>3. QED
    BY <2>1, <2>2, Zenon DEF InOwnLine
<1> DEFINE l == y \o << m >>
<1>5. /\ y \o << >> = y /\ l \o << >> = l /\ l \in Seq(Msg) /\ Len(l) = Len(y) + 1
      /\ l[Len(l)] = m /\ SubSeq(l, 1, Len(l) - 1) = y
  BY <1>1
<1>6. /\ Lines(Unlink(pend, m))[k] = y
      /\ Prio!Last(Lines(pend)[k]) = m /\ Prio!Front(Lines(pend)[k]) = y
  BY <1>4, <1>5, Zenon DEF Prio!Last, Prio!Front
<1>7. Lines(pend') = [Lines(pend) EXCEPT ![k] = y]
  <2>1. Lines(Unlink(pend, pend[p]))[Key(pend[p])] = y
    BY <1>6, Zenon
  <2>2. Lines(Unlink(pend, pend[p])) =
            [Lines(pend) EXCEPT ![Key(pend[p])] = Lines(Unlink(pend, pend[p]))[Key(pend[p])]]
    BY LineShorter, Zenon
  <2>3. QED
    BY <2>1, <2>2, Zenon
<1>8. Lines(pend') = [Lines(pend) EXCEPT ![k] = Prio!Front(@)]
  BY <1>6, <1>7
<1> HIDE DEF k
<1>9. QED
  BY <1>2, <1>3, <1>6, <1>8, Zenon DEF Prio!TakeLast, Lines, OfClass

(* As long as no message put to the head of its domain waits, the urgency of *)
(* the pending messages never grows along the list.                          *)
LEMMA InLineSorted ==
    ASSUME Inv, InLine, NEW i \in 1 .. Len(pend), NEW j \in 1 .. Len(pend), i <= j
    PROVE  pend[i] \in Msg /\ pend[j] \in Msg /\ Key(pend[i]) <= Key(pend[j])
<1>1. pend[i] \in Msg /\ pend[j] \in Msg
  BY DEF Inv, TypeOK
<1>2. Key(pend[i]) \in Int /\ KeyFn[pend[i]] = Key(pend[i]) /\ KeyFn[pend[j]] = Key(pend[j])
  BY <1>1, KeyDomTypes DEF KeyFn
<1>3. CASE i = j
  BY <1>1, <1>2, <1>3
<1>4. CASE i < j
  <2>1. pend[i] \notin headed
    BY Zenon DEF InLine, Contains
  <2>2. KeyFn[pend[i]] <= KeyFn[pend[j]]
    BY <1>4, <2>1, Zenon DEF Inv, PendSorted, Sorted
  <2>3. QED
    BY <1>1, <1>2, <2>2, Zenon
<1>5. QED
  BY <1>3, <1>4

(* What wf_msg_pop and wf_msg_pop_tail take.                                 *)
LEMMA PopMsgTakes ==
    ASSUME Inv, InLine, NEW btail \in BOOLEAN, PopMsg(btail)
    PROVE  Prio!TakeFirst(Class) \/ Prio!TakeLast(Class)
<1>1. pend \in Seq(Msg) /\ LinkedOnce(pend) /\ pend # << >> /\ Receiver \in Thread
  BY DEF Inv, TypeOK, OneOwner, PopMsg, Thread
<1>2. 1 \in 1 .. Len(pend) /\ Len(pend) \in 1 .. Len(pend)
  BY <1>1
<1>3. PICK m \in Msg : m = EndOf(pend, btail)
  BY <1>1, EndOfProperties, Zenon
<1>4. pend' = Unlink(pend, m) /\ held'[Receiver] = held[Receiver] \cup {m}
  BY <1>1, <1>3 DEF PopMsg, Inv, TypeOK
<1>5. Key(m) \in Class /\ Class \in SUBSET Class
  BY Zenon DEF Class
<1>6. CASE ~btail
  <2>1. m = pend[1]
    BY <1>3, <1>6 DEF EndOf
  <2>2. \A j \in 1 .. Len(pend) : Key(m) <= Key(pend[j])
    <3>1. \A j \in 1 .. Len(pend) : 1 <= j
      OBVIOUS
    <3>2. QED
      BY <1>2, <2>1, <3>1, InLineSorted, Zenon
  <2>3. \A x \in Msg : Contains(pend, x) /\ Key(x) \in Class => Key(m) <= Key(x)
    BY <2>2, Zenon DEF Contains
  <2>4. \A i \in 1 .. 1 - 1 : Key(pend[i]) # Key(m)
    OBVIOUS
  <2>5. Prio!TakeFirst(Class)
    BY <1>1, <1>2, <1>4, <1>5, <2>1, <2>3, <2>4, PopTakesFirst, Zenon
  <2>6. QED
    BY <2>5
<1>7. CASE btail
  <2>1. m = pend[Len(pend)]
    BY <1>3, <1>7 DEF EndOf
  <2>2. \A j \in 1 .. Len(pend) : Key(pend[j]) <= Key(m)
    <3>1. \A j \in 1 .. Len(pend) : j <= Len(pend)
      OBVIOUS
    <3>2. QED
      BY <1>2, <2>1, <3>1, InLineSorted, Zenon
  <2>3. \A x \in Msg : Contains(pend, x) /\ Key(x) \in Class => Key(x) <= Key(m)
    BY <2>2, Zenon DEF Contains
  <2>4. \A i \in Len(pend) + 1 .. Len(pend) : Key(pend[i]) # Key(m)
    BY <1>1
  <2>5. Prio!TakeLast(Class)
    BY <1>1, <1>2, <1>4, <1>5, <2>1, <2>3, <2>4, PopTakesLast, Zenon
  <2>6. QED
    BY <2>5
<1>8. QED
  BY <1>6, <1>7

(* What wf_msg_pop_dom and wf_msg_pop_dom_tail take.                         *)
LEMMA PopDomTakes ==
    ASSUME Inv, InLine, NEW g \in Msg, NEW btail \in BOOLEAN, PopDom(Dom(g), btail),
           NEW D, D = { Key(n) : n \in { n \in Msg : Dom(n) = Dom(g) } }
    PROVE  Prio!TakeFirst(D) \/ Prio!TakeLast(D)
<1>1. pend \in Seq(Msg) /\ LinkedOnce(pend) /\ HasDom(pend, Dom(g)) /\ Receiver \in Thread
  BY DEF Inv, TypeOK, OneOwner, PopDom, Thread
<1>13. PICK p \in 1 .. Len(pend) : EndsDom(pend, Dom(g), btail, p)
  BY <1>1, EndOfDomPlace, Zenon
<1>2. /\ EndOfDom(pend, Dom(g), btail) = pend[p] /\ Dom(pend[p]) = Dom(g)
      /\ ~btail => \A j \in 1 .. p - 1 : Dom(pend[j]) # Dom(g)
      /\ btail => \A j \in p + 1 .. Len(pend) : Dom(pend[j]) # Dom(g)
  BY <1>13, Zenon DEF EndsDom
<1>3. pend[p] \in Msg
  BY <1>1
<1>4. PICK m \in Msg : m = pend[p]
  BY <1>3
<1>5. pend' = Unlink(pend, m) /\ held'[Receiver] = held[Receiver] \cup {m}
  BY <1>1, <1>2, <1>4 DEF PopDom, Inv, TypeOK
<1>6. D \in SUBSET Class /\ Key(m) \in D
  <2>1. Dom(m) = Dom(g)
    BY <1>2, <1>4, Zenon
  <2>2. QED
    BY <2>1, Zenon DEF Class
<1>7. ASSUME NEW x \in Msg, NEW y \in Msg, Key(x) = Key(y) PROVE Dom(x) = Dom(y)
  <2>1. Key(x) <= Key(y) /\ Key(y) <= Key(x) /\ Dom(x) \in Int /\ Dom(y) \in Int
    BY <1>7, KeyDomTypes
  <2>2. Dom(x) <= Dom(y) /\ Dom(y) <= Dom(x)
    BY <2>1, KeyOrdersDom, Zenon
  <2>3. QED
    BY <2>1, <2>2
<1>8. ASSUME NEW x \in Msg, Contains(pend, x), Key(x) \in D
      PROVE  \E j \in 1 .. Len(pend) : pend[j] = x /\ Dom(pend[j]) = Dom(g)
  <2>1. PICK n \in Msg : Dom(n) = Dom(g) /\ Key(n) = Key(x)
    BY <1>8
  <2>2. Dom(x) = Dom(g)
    BY <1>7, <2>1, Zenon
  <2>3. QED
    BY <1>8, <2>2, Zenon DEF Contains
<1>9. \A j \in 1 .. Len(pend) : pend[j] \in Msg
  BY <1>1
<1>10. CASE ~btail
  <2>1. ASSUME NEW x \in Msg, Contains(pend, x), Key(x) \in D PROVE Key(m) <= Key(x)
    <3>1. PICK j \in 1 .. Len(pend) : pend[j] = x /\ Dom(pend[j]) = Dom(g)
      BY <1>8, <2>1, Zenon
    <3>2. j \notin 1 .. p - 1
      BY <1>2, <1>10, <3>1, Zenon
    <3>3. p <= j
      BY <3>2
    <3>4. QED
      BY <1>4, <3>1, <3>3, InLineSorted, Zenon
  <2>2. ASSUME NEW i \in 1 .. p - 1 PROVE Key(pend[i]) # Key(m)
    <3>1. i \in 1 .. Len(pend)
      OBVIOUS
    <3>2. QED
      BY <1>2, <1>4, <1>7, <1>9, <1>10, <3>1, Zenon
  <2>3. Prio!TakeFirst(D)
    BY <1>1, <1>4, <1>5, <1>6, <2>1, <2>2, PopTakesFirst, Zenon
  <2>4. QED
    BY <2>3
<1>11. CASE btail
  <2>1. ASSUME NEW x \in Msg, Contains(pend, x), Key(x) \in D PROVE Key(x) <= Key(m)
    <3>1. PICK j \in 1 .. Len(pend) : pend[j] = x /\ Dom(pend[j]) = Dom(g)
      BY <1>8, <2>1, Zenon
    <3>2. j \notin p + 1 .. Len(pend)
      BY <1>2, <1>11, <3>1, Zenon
    <3>3. j <= p
      BY <3>2
    <3>4. QED
      BY <1>4, <3>1, <3>3, InLineSorted, Zenon
  <2>2. ASSUME NEW i \in p + 1 .. Len(pend) PROVE Key(pend[i]) # Key(m)
    <3>1. i \in 1 .. Len(pend)
      OBVIOUS
    <3>2. QED
      BY <1>2, <1>4, <1>7, <1>9, <1>11, <3>1, Zenon
  <2>3. Prio!TakeLast(D)
    BY <1>1, <1>4, <1>5, <1>6, <2>1, <2>2, PopTakesLast, Zenon
  <2>4. QED
    BY <2>3
<1>12. QED
  BY <1>10, <1>11

(* The operator of MsgPrio is the one of the queue.                          *)
LEMMA SameSelect == ASSUME NEW s, NEW T PROVE Prio!Select(s, T) = Select(s, T)
BY Zenon DEF Prio!Select, Prio!Selected, Select, Selected

(* wf_msg_del of a message the receiver looked at withdraws it.              *)
LEMMA DelSeenWithdraws ==
    ASSUME Inv, NEW m \in Msg, DelSeen(m)
    PROVE  Prio!Withdraw(m)
<1>1. /\ pend \in Seq(Msg) /\ LinkedOnce(pend) /\ Contains(pend, m)
      /\ pend' = Unlink(pend, m) /\ held' = held
  BY DEF Inv, TypeOK, OneOwner, SeenStaysPending, DelSeen
<1>2. PICK p \in 1 .. Len(pend) : pend[p] = m
  BY <1>1 DEF Contains
<1>3. m \in Prio!Waiting
  BY <1>1, WaitingIsPending, Zenon
<1>4. ASSUME NEW c \in Class PROVE Lines(pend')[c] = Select(Lines(pend)[c], Msg \ {m})
  <2>1. CASE c # Key(m)
    <3>1. Lines(pend')[c] = Lines(pend)[c]
      BY <1>1, <1>2, <2>1, OtherLines, Zenon
    <3>2. Lines(pend)[c] \in Seq(Msg) /\ ~Contains(Lines(pend)[c], m)
      BY <1>1, <2>1, LineOf, Zenon
    <3> DEFINE l == Lines(pend)[c]
    <3> HIDE DEF l
    <3>3. l \in Seq(Msg) /\ ~Contains(l, m)
      BY <3>2 DEF l
    <3>4. \A i \in 1 .. Len(l) : l[i] \in Msg \ {m}
      BY <3>3 DEF Contains
    <3>5. Select(l, Msg \ {m}) = l
      BY <3>3, <3>4, SelectAll, Zenon
    <3>6. QED
      BY <3>1, <3>5 DEF l
  <2>2. CASE c = Key(m)
    <3>1. PICK x, y \in Seq(Msg) : InOwnLine(pend, p, x, y)
      BY <1>1, OwnLine, Zenon
    <3>2. /\ Lines(pend)[c] = (x \o << m >>) \o y
          /\ Lines(pend')[c] = x \o y
          /\ ~Contains(x, m) /\ ~Contains(y, m)
      BY <1>1, <1>2, <2>2, <3>1, Zenon DEF InOwnLine
    <3> DEFINE T == Msg \ {m}
    <3>3. /\ \A i \in 1 .. Len(x) : x[i] \in T
          /\ \A i \in 1 .. Len(y) : y[i] \in T
          /\ m \notin T
      BY <3>2 DEF Contains
    <3> HIDE DEF T
    <3>4. Select(x, T) = x /\ Select(y, T) = y
      BY <3>3, SelectAll, Zenon
    <3>5. Select(<< m >>, T) = << >>
      BY <3>3, SelectOne, Zenon
    <3>6. << m >> \in Seq(Msg) /\ x \o << m >> \in Seq(Msg) /\ x \o << >> = x
      OBVIOUS
    <3>7. /\ Select((x \o << m >>) \o y, T) = Select(x \o << m >>, T) \o Select(y, T)
          /\ Select(x \o << m >>, T) = Select(x, T) \o Select(<< m >>, T)
      BY <3>6, SelectConcat, Zenon
    <3>8. Select((x \o << m >>) \o y, T) = x \o y
      BY <3>4, <3>5, <3>6, <3>7, Zenon
    <3>9. QED
      BY <3>2, <3>8 DEF T
  <2>3. QED
    BY <2>1, <2>2
<1>5. Lines(pend') = [c \in Class |-> Prio!Select(Lines(pend)[c], Msg \ {m})]
  <2>1. Lines(pend') = [c \in Class |-> Lines(pend')[c]]
    BY Zenon DEF Lines
  <2>2. \A c \in Class : Lines(pend')[c] = Prio!Select(Lines(pend)[c], Msg \ {m})
    BY <1>4, SameSelect, Zenon
  <2>3. QED
    BY <2>1, <2>2, Zenon
<1>6. held'[Receiver] = held[Receiver]
  BY <1>1
<1>7. QED
  BY <1>3, <1>5, <1>6, Zenon DEF Prio!Withdraw, Lines, OfClass

(* wf_msg_free empties the lines.                                            *)
LEMMA FreeAllCloses ==
    ASSUME Inv, FreeAll
    PROVE  Prio!Close
<1>1. pend' = << >> /\ held'[Receiver] = held[Receiver]
  BY DEF FreeAll
<1>2. \A T : Select(<< >>, T) = << >>
  BY SelectAppend, Zenon
<1>3. Lines(pend') = [c \in Class |-> << >>]
  BY <1>1, <1>2, Zenon DEF Lines
<1>4. QED
  BY <1>1, <1>3, Zenon DEF Prio!Close, Lines, OfClass

(* wf_msg_del by the receiver gives back what it was given; by a sender it   *)
(* concerns nobody.                                                          *)
LEMMA DelHeldReleases ==
    ASSUME Inv, NEW t \in Thread, NEW m \in Msg, DelHeld(t, m)
    PROVE  Prio!Release(m) \/ UNCHANGED Prio!vars
<1>1. /\ held \in [Thread -> SUBSET Msg] /\ m \in held[t] /\ Receiver \in Thread
      /\ held' = [held EXCEPT ![t] = @ \ {m}] /\ pend' = pend
  BY DEF Inv, TypeOK, DelHeld, Thread
<1>2. CASE t = Receiver
  <2>1. m \in held[Receiver] /\ held'[Receiver] = held[Receiver] \ {m}
    BY <1>1, <1>2
  <2>2. QED
    BY <1>1, <2>1, Zenon DEF Prio!Release
<1>3. CASE t # Receiver
  <2>1. held'[Receiver] = held[Receiver]
    BY <1>1, <1>3
  <2>2. QED
    BY <1>1, <2>1, PrioStutters
<1>4. QED
  BY <1>2, <1>3

(* As long as no message that wf_msg_push_head put to the front of its       *)
(* domain is waiting, the queue implements the lines of MsgPrio: for every   *)
(* pool, every assignment of tags and any number of senders the receiver is  *)
(* given the oldest message of the most urgent class, or from the tail the   *)
(* youngest of the least urgent, of all classes or of one domain.            *)
THEOREM QueueImplementsPrio == Spec => ImplementsPrio
<1>1. Init => Prio!Init
  <2>1. SUFFICES ASSUME Init PROVE Prio!Init
    OBVIOUS
  <2>2. pend = << >> /\ held[Receiver] = {}
    BY <2>1 DEF Init, Thread
  <2>3. \A T : Select(<< >>, T) = << >>
    BY SelectAppend, Zenon
  <2>4. QED
    BY <2>2, <2>3, Zenon DEF Prio!Init
<1>2. ASSUME Inv, Next, InLine, InLine'
      PROVE  Prio!Next \/ UNCHANGED Prio!vars
  <2> USE <1>2
  <2>1. ASSUME NEW m \in Msg, Alloc(m) PROVE UNCHANGED Prio!vars
    BY <2>1, PrioStutters DEF Alloc
  <2>2. ASSUME NEW m \in Msg, DelSeen(m) PROVE Prio!Next
    BY <2>2, DelSeenWithdraws, Zenon DEF Prio!Next
  <2>3. ASSUME NEW t \in Sender, NEW m \in Msg, New(t, Tag[m]) PROVE UNCHANGED Prio!vars
    <3>1. t # Receiver /\ pend' = pend /\ held \in [Thread -> SUBSET Msg]
      BY <2>3, ThreadAssumption DEF New, Inv, TypeOK
    <3>2. held'[Receiver] = held[Receiver]
      BY <2>3, <3>1 DEF New, Thread
    <3>3. QED
      BY <3>1, <3>2, PrioStutters
  <2>4. ASSUME NEW t \in Sender, NEW m \in Msg, PushMsg(t, m) PROVE Prio!Next
    BY <2>4, PushArrives, Zenon DEF Prio!Next
  <2>5. ASSUME NEW t \in Sender, NEW m \in Msg, PushHeadMsg(t, m) PROVE FALSE
    <3>1. m \in headed' /\ pend \in Seq(Msg) /\ LinkedOnce(pend) /\ pend' = PushHead(pend, m)
      BY <2>5 DEF PushHeadMsg, Inv, TypeOK, OneOwner
    <3>2. ~Contains(pend, m)
      BY <2>5 DEF PushHeadMsg, Inv, OneOwner, OnePlace, Thread
    <3>3. Contains(pend', m)
      BY <3>1, <3>2, PushHeadProperties, Zenon
    <3>4. QED
      BY <3>1, <3>3, Zenon DEF InLine
  <2>6. ASSUME NEW t \in Thread, NEW m \in Msg, DelHeld(t, m)
        PROVE  Prio!Next \/ UNCHANGED Prio!vars
    BY <2>6, DelHeldReleases, Zenon DEF Prio!Next
  <2>7. ASSUME NEW btail \in BOOLEAN, PopMsg(btail) PROVE Prio!Next
    BY <2>7, PopMsgTakes, Zenon DEF Prio!Next
  <2>8. ASSUME NEW btail \in BOOLEAN, GetMsg(btail) PROVE UNCHANGED Prio!vars
    BY <2>8, PrioStutters DEF GetMsg
  <2>9. ASSUME NEW m \in Msg, NEW btail \in BOOLEAN, PopDom(Dom(m), btail) PROVE Prio!Next
    <3> DEFINE D == { Key(n) : n \in { n \in Msg : Dom(n) = Dom(m) } }
    <3>1. Prio!TakeFirst(D) \/ Prio!TakeLast(D)
      BY <2>9, PopDomTakes, Zenon
    <3> HIDE DEF D
    <3>2. D \in { { Key(n) : n \in { n \in Msg : Dom(n) = Dom(h) } } : h \in Msg }
      BY Zenon DEF D
    <3>3. QED
      BY <3>1, <3>2, Zenon DEF Prio!Next
  <2>10. ASSUME FreeAll PROVE Prio!Next
    BY <2>10, FreeAllCloses, Zenon DEF Prio!Next
  <2>11. QED
    BY <2>1, <2>2, <2>3, <2>4, <2>5, <2>6, <2>7, <2>8, <2>9, <2>10, Zenon DEF Next
<1>3. ASSUME UNCHANGED vars PROVE UNCHANGED Prio!vars
  BY <1>3, PrioStutters DEF vars
<1>4. Inv /\ [Next]_vars => [InLine /\ InLine' => Prio!Next]_(Prio!vars)
  BY <1>2, <1>3
<1>5. QED
  BY <1>1, <1>4, InvAlways, PTL DEF Spec, ImplementsPrio

-----------------------------------------------------------------------------
(* The timer *)

(* The range of a remainder.                                                 *)
LEMMA ModRange ==
    ASSUME NEW x \in Int, NEW m \in Nat \ {0}
    PROVE  x % m \in 0 .. m - 1
BY SMT

(* The range of a 32-bit word is twice its half.                             *)
LEMMA Words == Timer!Word \in Nat \ {0} /\ Timer!Half \in Nat /\ Timer!Word = Timer!Half + Timer!Half
BY SMT DEF Timer!Word, Timer!Half

(* A wrapped number is a 32-bit word.                                        *)
LEMMA WrapRange ==
    ASSUME NEW x \in Int
    PROVE  Timer!U32(x) \in 0 .. Timer!Word - 1 /\ Timer!U32(x) \in Nat
<1>1. Timer!U32(x) \in 0 .. Timer!Word - 1
  BY SMT, ModRange, Words DEF Timer!U32
<1> QED
  BY SMT, <1>1, Words

(* Adding to a wrapped number and subtracting from or by one can be wrapped  *)
(* once at the end.                                                          *)
LEMMA WrapFacts ==
    ASSUME NEW x \in Int, NEW y \in Int
    PROVE  /\ Timer!U32(Timer!U32(x) + y) = Timer!U32(x + y)
           /\ Timer!U32(Timer!U32(x) - y) = Timer!U32(x - y)
           /\ Timer!U32(y - Timer!U32(x)) = Timer!U32(y - x)
<1>1. Timer!U32(Timer!U32(x) + y) = Timer!U32(x + y)
  BY SMT DEF Timer!U32, Timer!Word
<1>2. Timer!U32(Timer!U32(x) - y) = Timer!U32(x - y)
  BY SMT DEF Timer!U32, Timer!Word
<1>3. Timer!U32(y - Timer!U32(x)) = Timer!U32(y - x)
  BY SMT DEF Timer!U32, Timer!Word
<1> QED
  BY SMT, <1>1, <1>2, <1>3

(* Numbers in the range of an unsigned or a signed word stand for            *)
(* themselves.                                                               *)
LEMMA SmallFacts ==
    ASSUME NEW x \in Int
    PROVE  /\ 0 <= x /\ x < Timer!Word => Timer!U32(x) = x
           /\ -Timer!Half <= x /\ x < Timer!Half => Timer!S32(Timer!U32(x)) = x
<1>1. ASSUME 0 <= x, x < Timer!Word PROVE Timer!U32(x) = x
  BY SMT, <1>1 DEF Timer!U32, Timer!Word
<1>2. ASSUME -Timer!Half <= x, x < 0 PROVE Timer!U32(x) = x + Timer!Word
  BY SMT, <1>2 DEF Timer!U32, Timer!Word, Timer!Half
<1> QED
  BY SMT, <1>1, <1>2, Words DEF Timer!S32

(* The words of the timer stand for the instants after every operation.      *)
THEOREM WordsStandForInstants == Timer!Spec => []Timer!Inv
<1>1. Timer!Init => Timer!Inv
  <2>1. Timer!U32(0) = 0 /\ 0 \in 0 .. Timer!Word - 1
    BY SMT, SmallFacts, Words
  <2> QED
    BY SMT, <2>1 DEF Timer!Init, Timer!Inv, Timer!TypeOK, Timer!Stands
<1>2. Timer!Inv /\ [Timer!Next]_(Timer!vars) => Timer!Inv'
  <2> SUFFICES ASSUME Timer!Inv, [Timer!Next]_(Timer!vars) PROVE Timer!Inv'
    BY SMT
  <2> USE DEF Timer!Inv, Timer!TypeOK, Timer!Stands
  <2>1. CASE \E d \in Nat : Timer!Tick(d)
    BY SMT, <2>1 DEF Timer!Tick
  <2>2. CASE \E i \in 0 .. Timer!Word - 1 : Timer!Set(i)
    <3>1. PICK i \in 0 .. Timer!Word - 1 : Timer!Set(i)
      BY SMT, <2>2
    <3>2. i \in Nat /\ now \in Int
      BY SMT, Words
    <3>3. Timer!U32(Timer!U32(now) + i) = Timer!U32(now + i)
      BY SMT, <3>2, WrapFacts
    <3>4. Timer!U32(now) \in 0 .. Timer!Word - 1
      BY SMT, <3>2, WrapRange
    <3>5. now + i \in Nat /\ Timer!U32(now + i) \in 0 .. Timer!Word - 1
      BY SMT, <3>2, WrapRange
    <3> QED
      BY SMT, <3>1, <3>2, <3>3, <3>4, <3>5 DEF Timer!Set
  <2>3. CASE \E i \in 0 .. Timer!Word - 1 : Timer!Modify(i)
    <3>1. PICK i \in 0 .. Timer!Word - 1 : Timer!Modify(i)
      BY SMT, <2>3
    <3>2. i \in Nat /\ begin \in Int
      BY SMT, Words
    <3>3. Timer!U32(Timer!U32(begin) + i) = Timer!U32(begin + i) /\ Timer!U32(begin + i) \in 0 .. Timer!Word - 1
      BY SMT, <3>2, WrapFacts, WrapRange
    <3> QED
      BY SMT, <3>1, <3>2, <3>3 DEF Timer!Modify
  <2>4. CASE Timer!Reset
    <3>1. interval \in Nat /\ due \in Int
      BY SMT, Words
    <3>2. Timer!U32(Timer!U32(due) + interval) = Timer!U32(due + interval)
          /\ Timer!U32(due + interval) \in 0 .. Timer!Word - 1
      BY SMT, <3>1, WrapFacts, WrapRange
    <3> QED
      BY SMT, <2>4, <3>1, <3>2 DEF Timer!Reset
  <2>5. CASE Timer!Restart
    <3>1. interval \in Nat /\ now \in Int
      BY SMT, Words
    <3>2. Timer!U32(Timer!U32(now) + interval) = Timer!U32(now + interval)
      BY SMT, <3>1, WrapFacts
    <3>3. Timer!U32(now) \in 0 .. Timer!Word - 1
      BY SMT, <3>1, WrapRange
    <3>4. now + interval \in Nat /\ Timer!U32(now + interval) \in 0 .. Timer!Word - 1
      BY SMT, <3>1, WrapRange
    <3> QED
      BY SMT, <2>5, <3>1, <3>2, <3>3, <3>4 DEF Timer!Restart
  <2>6. CASE UNCHANGED Timer!vars
    BY SMT, <2>6 DEF Timer!vars
  <2> QED
    BY SMT, <2>1, <2>2, <2>3, <2>4, <2>5, <2>6 DEF Timer!Next
<1> QED
  BY <1>1, <1>2, PTL DEF Timer!Spec

(* A timer expires when it is due, and not before.                           *)
THEOREM TimersExpireWhenDue == Timer!Spec => [](Timer!ExpiresWhenDue /\ Timer!ElapsedIsTrue)
<1>1. Timer!Inv => Timer!ExpiresWhenDue
  <2> SUFFICES ASSUME Timer!Inv, Timer!LooksInTime
               PROVE  Timer!Remaining = due - now /\ (Timer!Expired <=> now > due)
    BY SMT DEF Timer!ExpiresWhenDue
  <2>1. now \in Int /\ due \in Int /\ due - now \in Int
    BY SMT DEF Timer!Inv, Timer!TypeOK
  <2>2. Timer!U32(expire - now) = Timer!U32(due - now)
    BY SMT, <2>1, WrapFacts DEF Timer!Inv, Timer!Stands
  <2>3. -Timer!Half <= due - now /\ due - now < Timer!Half
    BY SMT, <2>1 DEF Timer!LooksInTime, Timer!Half
  <2>4. Timer!Remaining = due - now
    BY SMT, <2>1, <2>2, <2>3, SmallFacts DEF Timer!Remaining
  <2> QED
    BY SMT, <2>1, <2>4 DEF Timer!Expired
<1>2. Timer!Inv => Timer!ElapsedIsTrue
  <2> SUFFICES ASSUME Timer!Inv, 0 <= now - begin, now - begin < Timer!Word
               PROVE  Timer!Elapsed = now - begin
    BY SMT DEF Timer!ElapsedIsTrue
  <2>1. now \in Int /\ begin \in Int /\ now - begin \in Int /\ Timer!U32(begin) \in Int
    BY SMT, WrapRange DEF Timer!Inv, Timer!TypeOK
  <2>2. Timer!U32(Timer!U32(now) - Timer!U32(begin)) = Timer!U32(now - Timer!U32(begin))
    BY SMT, <2>1, WrapFacts
  <2>3. Timer!U32(now - Timer!U32(begin)) = Timer!U32(now - begin)
    BY SMT, <2>1, WrapFacts
  <2> QED
    BY SMT, <2>1, <2>2, <2>3, SmallFacts DEF Timer!Elapsed, Timer!Inv, Timer!Stands
<1> QED
  BY <1>1, <1>2, WordsStandForInstants, PTL
=============================================================================
