----------------------------- MODULE WfMsgQue ------------------------------
(***************************************************************************)
(* One message queue of the driver between the threads that use it.  The   *)
(* scan, authentication, association and MLME components each own one: the *)
(* MLME thread receives from it, and the callers of the driver's interface *)
(* and the receive path send to it.                                        *)
(***************************************************************************)
EXTENDS WfMsg

CONSTANTS
    Sender,         \* the threads that take free messages and push them
    Receiver        \* the thread that pops, examines and deletes

ASSUME ThreadAssumption == Receiver \notin Sender

Thread == Sender \cup {Receiver}

VARIABLES
    pend,       \* the pending list
    free,       \* the free list
    held,       \* held[t]: the messages thread t has a pointer to and may use
    seen,       \* the pending message the receiver looked at (wf_msg_get)
    headed,     \* the messages that were last pushed by wf_msg_push_head
    raw,        \* the messages whose memory is not allocated
    phase       \* "alloc" -> "run" -> "freed"

vars == << pend, free, held, seen, headed, raw, phase >>

Phase == {"alloc", "run", "freed"}

TypeOK ==
    /\ pend \in Seq(Msg)
    /\ free \in Seq(Msg)
    /\ held \in [Thread -> SUBSET Msg]
    /\ seen \in SUBSET Msg
    /\ headed \in SUBSET Msg
    /\ raw \in SUBSET Msg
    /\ phase \in Phase

-----------------------------------------------------------------------------
Init ==
    /\ pend = << >>
    /\ free = << >>
    /\ held = [t \in Thread |-> {}]
    /\ seen = {}
    /\ headed = {}
    /\ raw = Msg
    /\ phase = "alloc"

(* wf_msg_alloc, once for each message of the pool. *)
Alloc(m) ==
    /\ phase = "alloc"
    /\ m \in raw
    /\ raw' = raw \ {m}
    /\ free' = Del(free, m)
    /\ phase' = IF raw' = {} THEN "run" ELSE "alloc"
    /\ UNCHANGED << pend, held, seen, headed >>

\* Fault: a pending message with the tag is taken when none is free.
NewStealing(t, tag) ==
    /\ phase = "run"
    /\ \/ /\ HasFree(free, tag)
          /\ LET m == FirstFree(free, tag)
             IN  /\ free' = Unlink(free, m)
                 /\ held' = [held EXCEPT ![t] = @ \cup {m}]
          /\ UNCHANGED pend
       \/ /\ ~HasFree(free, tag) /\ HasFree(pend, tag)
          /\ LET m == FirstFree(pend, tag)
             IN  /\ pend' = Unlink(pend, m)
                 /\ held' = [held EXCEPT ![t] = @ \cup {m}]
          /\ UNCHANGED free
    /\ UNCHANGED << seen, headed, raw, phase >>

(* wf_msg_new; it fails when no free message has the tag. *)
New(t, tag) ==
    /\ phase = "run"
    /\ HasFree(free, tag)
    /\ LET m == FirstFree(free, tag)
       IN  /\ free' = Unlink(free, m)
           /\ held' = [held EXCEPT ![t] = @ \cup {m}]
    /\ UNCHANGED << pend, seen, headed, raw, phase >>

(* wf_msg_push *)
PushMsg(t, m) ==
    /\ phase = "run"
    /\ m \in held[t]
    /\ pend' = Push(pend, m)
    /\ held' = [held EXCEPT ![t] = @ \ {m}]
    /\ headed' = headed \ {m}
    /\ UNCHANGED << free, seen, raw, phase >>

(* wf_msg_push_head *)
PushHeadMsg(t, m) ==
    /\ phase = "run"
    /\ m \in held[t]
    /\ pend' = PushHead(pend, m)
    /\ held' = [held EXCEPT ![t] = @ \ {m}]
    /\ headed' = headed \cup {m}
    /\ UNCHANGED << free, seen, raw, phase >>

(* msg_get with bpop: wf_msg_pop and wf_msg_pop_tail *)
PopMsg(btail) ==
    /\ phase = "run"
    /\ pend # << >>
    /\ LET m == EndOf(pend, btail)
       IN  /\ pend' = Unlink(pend, m)
           /\ held' = [held EXCEPT ![Receiver] = @ \cup {m}]
           /\ seen' = seen \ {m}
    /\ UNCHANGED << free, headed, raw, phase >>

(* msg_get_dom with bpop: wf_msg_pop_dom and wf_msg_pop_dom_tail *)
PopDom(dom, btail) ==
    /\ phase = "run"
    /\ HasDom(pend, dom)
    /\ LET m == EndOfDom(pend, dom, btail)
       IN  /\ pend' = Unlink(pend, m)
           /\ held' = [held EXCEPT ![Receiver] = @ \cup {m}]
           /\ seen' = seen \ {m}
    /\ UNCHANGED << free, headed, raw, phase >>

\* Fault: the message is looked at by popping it and pushing it back.
GetMsgByPop(btail) ==
    /\ phase = "run"
    /\ pend # << >>
    /\ LET m == EndOf(pend, btail)
       IN  /\ pend' = Push(Unlink(pend, m), m)
           /\ seen' = {m}
    /\ UNCHANGED << free, held, headed, raw, phase >>

(* msg_get without bpop: the message stays where it is *)
GetMsg(btail) ==
    /\ phase = "run"
    /\ pend # << >>
    /\ seen' = {EndOf(pend, btail)}
    /\ UNCHANGED << pend, free, held, headed, raw, phase >>

(* wf_msg_del of a message the thread holds *)
DelHeld(t, m) ==
    /\ phase = "run"
    /\ m \in held[t]
    /\ free' = Del(free, m)
    /\ held' = [held EXCEPT ![t] = @ \ {m}]
    /\ UNCHANGED << pend, seen, headed, raw, phase >>

\* Fault: the message is not taken out of the pending list.
DelSeenLinked(m) ==
    /\ phase = "run"
    /\ m \in seen
    /\ free' = Del(free, m)
    /\ seen' = seen \ {m}
    /\ UNCHANGED << pend, held, headed, raw, phase >>

(* wf_msg_del of a message the receiver only looked at: it is still pending, *)
(* perhaps no longer where it was seen.                                      *)
DelSeen(m) ==
    /\ phase = "run"
    /\ m \in seen
    /\ pend' = Unlink(pend, m)
    /\ free' = Del(free, m)
    /\ seen' = seen \ {m}
    /\ UNCHANGED << held, headed, raw, phase >>

(* wf_msg_free: what is linked is released, what a thread holds is not. *)
FreeAll ==
    /\ phase = "run"
    /\ raw' = raw \cup ToSet(pend) \cup ToSet(free)
    /\ pend' = << >>
    /\ free' = << >>
    /\ seen' = {}
    /\ phase' = "freed"
    /\ UNCHANGED << held, headed >>

Next ==
    \/ \E m \in Msg : Alloc(m) \/ DelSeen(m)
    \/ \E t \in Sender, m \in Msg :
            New(t, Tag[m]) \/ PushMsg(t, m) \/ PushHeadMsg(t, m)
    \/ \E t \in Thread, m \in Msg : DelHeld(t, m)
    \/ \E btail \in BOOLEAN : PopMsg(btail) \/ GetMsg(btail)
    \/ \E m \in Msg, btail \in BOOLEAN : PopDom(Dom(m), btail)
    \/ FreeAll

Spec == Init /\ [][Next]_vars

-----------------------------------------------------------------------------
OnePlace(m) ==
    /\ Contains(pend, m) => ~Contains(free, m)
    /\ Contains(pend, m) \/ Contains(free, m) => \A t \in Thread : m \notin held[t]
    /\ \A t, u \in Thread : m \in held[t] /\ m \in held[u] => t = u
    /\ m \in raw => /\ ~Contains(pend, m) /\ ~Contains(free, m)
                    /\ \A t \in Thread : m \notin held[t]
    /\ \/ Contains(pend, m) \/ Contains(free, m) \/ m \in raw
       \/ \E t \in Thread : m \in held[t]

OneOwner ==
    /\ LinkedOnce(pend)
    /\ LinkedOnce(free)
    /\ \A m \in Msg : OnePlace(m)

(* Nothing is lost and nothing is in two places: at every moment a message   *)
(* is linked exactly once in exactly one of the two lists, or is in the      *)
(* hands of exactly one thread, or its memory is not allocated (pque and the *)
(* two list heads agree through any sequence of new, push, pop and del); and *)
(* only messages are ever in a list or in a thread's hands, never a head.    *)
Ownership == TypeOK /\ OneOwner

(* What the receiver looked at without popping is still pending when it      *)
(* deletes it: only the receiver takes messages out of the pending list.     *)
SeenStaysPending == \A m \in seen : Contains(pend, m)

(* Only a message that wf_msg_push_head put to the front of its domain may   *)
(* stand before a more urgent one, and nothing ever stands before a message  *)
(* of a more urgent domain: wf_msg_push finds the right place from the tail  *)
(* in a list that wf_msg_push_head has put out of order, whatever was pushed *)
(* and popped in between.                                                    *)
MostUrgentFirst ==
    \A i, j \in 1 .. Len(pend) : i < j =>
        /\ Dom(pend[i]) <= Dom(pend[j])
        /\ pend[i] \notin headed => Key(pend[i]) <= Key(pend[j])

(* Two messages that stay pending never change their order: a push or a pop  *)
(* overtakes nobody that was already in the list.                            *)
KeepsOrder ==
    \A i, j \in 1 .. Len(pend) :
        (i < j /\ Contains(pend', pend[i]) /\ Contains(pend', pend[j]))
            => PosOf(pend', pend[i]) < PosOf(pend', pend[j])

OrderIsStable == [][KeepsOrder]_vars

-----------------------------------------------------------------------------
(* As long as no message put to the front by wf_msg_push_head is waiting,    *)
(* the queue implements one first-in first-out line per class (module        *)
(* MsgPrio).                                                                 *)
Class == { Key(m) : m \in Msg }

Prio == INSTANCE MsgPrio WITH
    ClassOf <- [m \in Msg |-> Key(m)],
    Domain <- { { Key(n) : n \in { n \in Msg : Dom(n) = Dom(m) } } : m \in Msg },
    line <- [c \in Class |-> Select(pend, { m \in Msg : Key(m) = c })],
    got <- held[Receiver]

InLine == \A m \in headed : ~Contains(pend, m)

ImplementsPrio == Prio!Init /\ [][InLine /\ InLine' => Prio!Next]_(Prio!vars)
=============================================================================
