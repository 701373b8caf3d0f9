------------------------------- MODULE WfMsg -------------------------------
(***************************************************************************)
(* The operations of the driver's message queue (nic/utility/wf_msg.c).    *)
(*                                                                         *)
(* A queue owns a fixed pool of messages.  Every message has a tag that    *)
(* never changes (domain, priority and identifier packed in 16 bits) and   *)
(* is at each moment linked in the list "pend", linked in the list "free", *)
(* or in nobody's list (pque = NULL: some thread has it in its hands).     *)
(* Each operation runs under the queue's lock, so it is one function of    *)
(* the two lists; the doubly linked lists of wf_que.c are sequences.       *)
(***************************************************************************)
EXTENDS Integers, SequencesExt, Lists

CONSTANTS
    Msg,    \* the messages of the pool
    Tag     \* Tag[m] is the tag wf_msg_alloc gave to message m

\* The three fields of the 16-bit tag.
Tags == [dom : 0 .. 15, pri : 0 .. 31, id : 0 .. 127]

ASSUME TagAssumption == Tag \in [Msg -> Tags]

TagSet(dom, pri, id) == [dom |-> dom % 16, pri |-> pri % 32, id |-> id % 128]

\* Tags are compared with their identifier bits all set, that is, by the number
\* the domain and the priority fields make together.
TagKey(tag) == tag.dom * 32 + tag.pri

Dom(m) == Tag[m].dom
Key(m) == TagKey(Tag[m])

-----------------------------------------------------------------------------
(* _msg_pop: a message leaves the list it is linked in, if any. *)

PosOf(s, m) == CHOOSE i \in 1 .. Len(s) : s[i] = m

Unlink(s, m) == IF Contains(s, m) THEN RemoveAt(s, PosOf(s, m)) ELSE s

(* wf_msg_new: the first free message with the tag; there may be none. *)

HasFree(free, tag) == \E i \in 1 .. Len(free) : Tag[free[i]] = tag

FirstFree(free, tag) ==
    CHOOSE m \in Msg : \E i \in 1 .. Len(free) :
        /\ free[i] = m
        /\ Tag[m] = tag
        /\ \A j \in 1 .. i - 1 : Tag[free[j]] # tag

(* wf_msg_push: behind the last pending message that is not less urgent. *)

\* Fault: in front of the pending messages of the same urgency.
PushPosInFront(pend, m) ==
    CHOOSE n \in 0 .. Len(pend) :
        /\ n > 0 => Key(pend[n]) < Key(m)
        /\ \A i \in n + 1 .. Len(pend) : Key(m) <= Key(pend[i])

PushPos(pend, m) ==
    CHOOSE n \in 0 .. Len(pend) :
        /\ n > 0 => Key(pend[n]) <= Key(m)
        /\ \A i \in n + 1 .. Len(pend) : Key(m) < Key(pend[i])

\* Fault: at the tail, whatever the urgency.
PushAtTail(pend, m) == Append(pend, m)

Push(pend, m) == InsertAt(pend, PushPos(pend, m) + 1, m)

(* wf_msg_push_head: in front of the first one of the same domain or later. *)

PushHeadPos(pend, m) ==
    CHOOSE n \in 0 .. Len(pend) :
        /\ n < Len(pend) => Dom(m) <= Dom(pend[n + 1])
        /\ \A i \in 1 .. n : Dom(pend[i]) < Dom(m)

\* Fault: at the head, whatever the domain.
PushHeadOfAll(pend, m) == InsertAt(pend, 1, m)

PushHead(pend, m) == InsertAt(pend, PushHeadPos(pend, m) + 1, m)

(* msg_get and msg_get_dom: the head or the tail of the pending messages, or *)
(* the first or the last pending message of one domain.                      *)

EndOf(pend, btail) == IF btail THEN pend[Len(pend)] ELSE pend[1]

HasDom(pend, dom) == \E i \in 1 .. Len(pend) : Dom(pend[i]) = dom

EndOfDom(pend, dom, btail) ==
    LET at == { i \in 1 .. Len(pend) : Dom(pend[i]) = dom }
    IN  pend[CHOOSE i \in at : \A j \in at : IF btail THEN j <= i ELSE i <= j]

(* wf_msg_del: to the tail of the free list, from wherever the message is. *)

Del(free, m) == Append(Unlink(free, m), m)

\* No message is linked twice in the list.
LinkedOnce(s) == \A i, j \in 1 .. Len(s) : s[i] = s[j] => i = j
=============================================================================
