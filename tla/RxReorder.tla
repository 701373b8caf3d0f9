----------------------------- MODULE RxReorder -----------------------------
(***************************************************************************)
(* The receive reorder window of one traffic class (nic/rx.c, struct       *)
(* recv_ba_ctrl_st) of a station with a block ack agreement.               *)
(*                                                                         *)
(* The receive thread passes every data frame either straight to the       *)
(* network stack or, while the agreement is enabled, through the window    *)
(* (wf_rx_data_reorder_core).  A timer gives up waiting for a missing      *)
(* frame (rx_reorder_timeout_handle).  The MLME thread attaches the window *)
(* to a connection, reinitialises it, answers block ack requests and       *)
(* detaches it.  Each handler runs under pending_get_de_queue_lock.        *)
(*                                                                         *)
(* A frame is identified by its number in the order the peer sent it; the  *)
(* driver only sees that number modulo SnMod.                             *)
(***************************************************************************)
EXTENDS Integers, Sequences, SequencesExt

CONSTANTS
    SnMod,         \* the range of sequence numbers (4096)
    WSize,          \* wsize_b (64)
    NodeNum,        \* BA_REORDER_QUEUE_NUM, the nodes of the pool (64)
    Missing,        \* how many of them may not be allocated
    Start,          \* the number of the frame before the first one
    Skip,           \* by how much the numbers of a next peer may be ahead
    MaxSent,        \* bound: the last frame sent
    MaxConn,        \* bound: the number of connections
    MaxBa           \* bound: the number of block ack requests answered

ASSUME WindowAssumption ==
    /\ SnMod \in Nat \ {0} /\ SnMod % 2 = 0
    /\ WSize \in Nat \ {0} /\ 2 * WSize < SnMod
    /\ NodeNum \in Nat /\ NodeNum >= WSize /\ Missing \subseteq 0 .. NodeNum
    /\ MaxSent \in Nat /\ Start \in 0 .. MaxSent /\ Skip \subseteq Nat
    /\ MaxConn \in Nat /\ MaxBa \in Nat

Half == SnMod \div 2
Unset == -1             \* 0xffff in indicate_seq
SeqNum == 0 .. SnMod - 1
FrameNo == 1 .. MaxSent
SnOf(n) == n % SnMod
NoFrame == [at |-> "idle", no |-> 0]

VARIABLES
    attached,       \* is ba_ctl of the wdn set
    enable,         \* the agreement is in force
    ind,            \* indicate_seq: the sequence number expected next
    pend,           \* pending_reorder_queue: the frames held back
    pool,           \* the number of nodes in free_order_queue
    lost,           \* the nodes not allocated, or freed with the frame they hold
    timer,          \* is reordering_ctrl_timer running
    fired,          \* has the callback of the timer begun
    rx,             \* the receive thread: where it is and its frame
    mlme,           \* where the MLME thread is in a connection
    conns, bas      \* the connections made and the requests answered

\* The peer, and what the properties need to know of the past
VARIABLES
    first, sent,    \* the first frame of the agreement and the last one sent
    up,             \* the frames given to the network stack by the last step
    last,           \* the latest frame given to it on this connection (0: none)
    seen,           \* the latest frame that entered the window
    stale           \* the window may not fit the frames: see Attach, AddBaFail

window == << ind, pend, pool, lost >>
timing == << timer, fired >>
agreement == << attached, enable, mlme, conns, bas >>
peer == << first, sent >>
past == << last, seen, stale >>
vars == << window, timing, agreement, peer, past, rx, up >>

TypeOK ==
    /\ attached \in BOOLEAN /\ enable \in BOOLEAN
    /\ ind \in SeqNum \cup {Unset}
    /\ pend \in Seq(FrameNo)
    /\ pool \in 0 .. NodeNum /\ lost \in 0 .. NodeNum
    /\ timer \in BOOLEAN /\ fired \in BOOLEAN
    /\ rx \in [at : {"idle", "core", "spin", "oops"}, no : 0 .. MaxSent]
    /\ mlme \in {"idle", "preconnect", "maintain"}
    /\ conns \in 0 .. MaxConn /\ bas \in 0 .. MaxBa
    /\ first \in Nat /\ sent \in 0 .. MaxSent
    /\ up \in Seq(FrameNo) /\ last \in 0 .. MaxSent /\ seen \in 0 .. MaxSent
    /\ stale \in BOOLEAN

(* wf_rx_action_ba_ctl_init; without memory the pool is smaller. *)
Init ==
    /\ attached = FALSE /\ enable = FALSE
    /\ ind = Unset /\ pend = << >>
    /\ lost \in Missing /\ pool = NodeNum - lost
    /\ timer = FALSE /\ fired = FALSE
    /\ rx = NoFrame
    /\ mlme = "idle" /\ conns = 0 /\ bas = 0
    /\ first = Start + 1 /\ sent = Start
    /\ up = << >> /\ last = 0 /\ seen = 0 /\ stale = FALSE

-----------------------------------------------------------------------------
(* Sequence numbers *)

\* The low twelve bits of a - b
Diff(a, b) == IF a >= b THEN a - b ELSE a - b + SnMod

(* SN_LESS: bit 0x800 of the difference *)
SnLess(a, b) == Diff(a, b) >= Half

Inc(a) == (a + 1) % SnMod

-----------------------------------------------------------------------------
(* Window operations *)

\* Fault: the window moves one too little.
ChkShort(i, s) ==
    LET wend == (i + WSize - 1) % SnMod
    IN  CASE s = i -> [keep |-> TRUE, ind |-> Inc(i)]
          [] SnLess(s, i) -> [keep |-> FALSE, ind |-> i]
          [] s # i /\ ~SnLess(s, i) /\ SnLess(wend, s) ->
                [keep |-> TRUE,
                 ind |-> IF s >= WSize - 1 THEN s + 1 - WSize ELSE SnMod - (WSize - s)]
          [] OTHER -> [keep |-> TRUE, ind |-> i]

(* rx_do_chk_expect_seq on sequence number s when i is expected: whether the *)
(* frame is kept, and what is expected then.  A frame beyond the end of the  *)
(* window moves the window so that the frame is its last.                    *)
Chk(i, s) ==
    LET wend == (i + WSize - 1) % SnMod
    IN  CASE s = i -> [keep |-> TRUE, ind |-> Inc(i)]
          [] SnLess(s, i) -> [keep |-> FALSE, ind |-> i]
          [] s # i /\ ~SnLess(s, i) /\ SnLess(wend, s) ->
                [keep |-> TRUE,
                 ind |-> IF s >= WSize - 1 THEN s + 1 - WSize ELSE SnMod - (WSize - (s + 1))]
          [] OTHER -> [keep |-> TRUE, ind |-> i]

\* rx_pending_reorder_enqueue looks from the tail for a frame that is not
\* later: the new one goes behind it, or is a duplicate of it.
NotLater(q, s) == { j \in 1 .. Len(q) : ~SnLess(s, SnOf(q[j])) }
Place(q, s) == IF NotLater(q, s) = {} THEN 0
               ELSE CHOOSE j \in NotLater(q, s) : \A k \in NotLater(q, s) : k <= j

\* Fault: a frame behind another held one is taken for a duplicate.
IsDupAny(q, s) == Place(q, s) # 0

IsDup(q, s) == Place(q, s) # 0 /\ SnOf(q[Place(q, s)]) = s

\* Fault: a frame is queued behind all others.
EnqueueTail(q, n) == Append(q, n)

Enqueue(q, n) == InsertAt(q, Place(q, SnOf(n)) + 1, n)

\* rx_reorder_upload: the head goes up unless it is later than expected; the
\* expected number after k frames have gone up
Expected(q, i) ==
    LET E[k \in 0 .. Len(q)] ==
            IF k = 0 THEN i
            ELSE IF E[k - 1] = SnOf(q[k]) THEN Inc(E[k - 1]) ELSE E[k - 1]
    IN  E

Ready(q, i) ==
    LET E == Expected(q, i)
        More(k) == k < Len(q) /\ ~SnLess(E[k], SnOf(q[k + 1]))
    IN  CHOOSE k \in 0 .. Len(q) : ~More(k) /\ \A j \in 0 .. k - 1 : More(j)

\* Fault: the nodes of frames that went up are not put back.
UploadKeepsNodes(q, i, nodes) ==
    LET k == Ready(q, i)
    IN  /\ up' = SubSeq(q, 1, k)
        /\ pend' = SubSeq(q, k + 1, Len(q))
        /\ ind' = Expected(q, i)[k]
        /\ pool' = nodes
        /\ last' = IF k = 0 THEN last ELSE q[k]

\* The whole of rx_reorder_upload with the nodes it puts back
Upload(q, i, nodes) ==
    LET k == Ready(q, i)
    IN  /\ up' = SubSeq(q, 1, k)
        /\ pend' = SubSeq(q, k + 1, Len(q))
        /\ ind' = Expected(q, i)[k]
        /\ pool' = nodes + k
        /\ last' = IF k = 0 THEN last ELSE q[k]

Unlocked == rx.at # "spin"

-----------------------------------------------------------------------------
(* The peer sends frames in order; any of them may get lost.  Without an     *)
(* agreement it sends one at a time; with one, any frame of the last WSize   *)
(* may arrive next, and may arrive again.  The peer never runs half of the   *)
(* sequence numbers ahead of the frame delivered last or now received.       *)

Send ==
    /\ sent < MaxSent
    /\ conns > 0
    /\ last # 0 /\ ~stale => sent - last < Half
    /\ rx.at = "core" => sent - rx.no < Half
    /\ sent' = sent + 1
    /\ up' = << >>
    /\ UNCHANGED << window, timing, agreement, first, past, rx >>

MayArrive == { n \in FrameNo :
    n >= first /\ n <= sent /\ IF enable THEN n > sent - WSize ELSE n = sent }

(* rx_data_reorder_process: frames go straight up without an agreement. *)
RxBypass(n) ==
    /\ rx.at = "idle" /\ n \in MayArrive
    /\ ~attached \/ ~enable
    /\ n > last \/ stale
    /\ up' = << n >>
    /\ last' = n
    /\ UNCHANGED << window, timing, agreement, peer, seen, stale, rx >>

RxTest(n) ==
    /\ rx.at = "idle" /\ n \in MayArrive
    /\ attached /\ enable
    /\ rx' = [at |-> "core", no |-> n]
    /\ up' = << >>
    /\ UNCHANGED << window, timing, agreement, peer, past >>

(* wf_rx_data_reorder_core.  The MLME thread may have detached or            *)
(* reinitialised the window since the test.                                  *)
CoreInd(n) == IF ind = Unset THEN SnOf(n) ELSE ind

CoreNull ==
    /\ rx.at = "core" /\ ~attached
    /\ rx' = [rx EXCEPT !.at = "oops"]
    /\ up' = << >>
    /\ UNCHANGED << window, timing, agreement, peer, past >>

CoreDrop ==
    /\ rx.at = "core" /\ attached
    /\ LET n == rx.no
           c == Chk(CoreInd(n), SnOf(n))
       IN  /\ ~c.keep \/ IsDup(pend, SnOf(n))
           /\ ind' = c.ind
    /\ rx' = NoFrame
    /\ stale' = (stale \/ ~enable \/ rx.no < first)
    /\ up' = << >>
    /\ UNCHANGED << pend, pool, lost, timing, agreement, peer, last, seen >>

\* There is no free node: the thread waits for one with the lock held.
CoreSpin ==
    /\ rx.at = "core" /\ attached
    /\ LET n == rx.no
           c == Chk(CoreInd(n), SnOf(n))
       IN  /\ c.keep /\ ~IsDup(pend, SnOf(n))
           /\ pool = 0
           /\ ind' = c.ind
    /\ rx' = [rx EXCEPT !.at = "spin"]
    /\ up' = << >>
    /\ UNCHANGED << pend, pool, lost, timing, agreement, peer, past >>

CoreKeep ==
    /\ rx.at = "core" /\ attached
    /\ LET n == rx.no
           c == Chk(CoreInd(n), SnOf(n))
       IN  /\ c.keep /\ ~IsDup(pend, SnOf(n))
           /\ pool > 0
           /\ Upload(Enqueue(pend, n), c.ind, pool - 1)
           /\ seen' = IF n > seen THEN n ELSE seen
    /\ timer' = (timer \/ pend' # << >>)
    /\ rx' = NoFrame
    /\ stale' = (stale \/ ~enable \/ rx.no < first)
    /\ UNCHANGED << lost, fired, agreement, peer >>

-----------------------------------------------------------------------------
(* rx_reorder_timeout_handle: the timer expires, and its callback waits for  *)
(* the lock; frames may arrive and set the timer again meanwhile.            *)

Expire ==
    /\ timer /\ ~fired
    /\ timer' = FALSE /\ fired' = TRUE
    /\ up' = << >>
    /\ UNCHANGED << window, agreement, peer, past, rx >>

\* Fault: the timer is not set again for the frames that are left.
TimeoutOnce ==
    /\ fired /\ Unlocked
    /\ fired' = FALSE
    /\ IF pend = << >>
       THEN up' = << >> /\ UNCHANGED << window, timer, last >>
       ELSE /\ Upload(pend, SnOf(pend[1]), pool)
            /\ UNCHANGED << timer, lost >>
    /\ UNCHANGED << agreement, peer, seen, stale, rx >>

Timeout ==
    /\ fired /\ Unlocked
    /\ fired' = FALSE
    /\ IF pend = << >>
       THEN up' = << >> /\ UNCHANGED << window, timer, last >>
       ELSE /\ Upload(pend, SnOf(pend[1]), pool)
            /\ timer' = (timer \/ pend' # << >>)
            /\ UNCHANGED lost
    /\ UNCHANGED << agreement, peer, seen, stale, rx >>

-----------------------------------------------------------------------------
(* The MLME thread *)

\* core_conn_preconnect on a new connection: the window is attached as the
\* last connection left it.
Attach ==
    /\ mlme = "idle" /\ conns < MaxConn
    /\ attached' = TRUE
    /\ mlme' = "preconnect" /\ conns' = conns + 1
    /\ \E d \in Skip : sent + d <= MaxSent /\ sent' = sent + d
    /\ first' = sent' + 1
    /\ stale' = TRUE
    /\ up' = << >>
    /\ UNCHANGED << window, timing, enable, bas, last, seen, rx >>

\* The rate table cannot be set: the connection ends, and its entry, which is
\* removed as it is, still points to the window.
PreconnectFail ==
    /\ mlme = "preconnect"
    /\ mlme' = "idle"
    /\ up' = << >>
    /\ UNCHANGED << window, timing, attached, enable, conns, bas, peer, past, rx >>

\* wf_rx_ba_reinit: the nodes of held frames are freed, not put back into the
\* pool, and the frames are not freed.
Reinit ==
    /\ mlme = "preconnect" /\ Unlocked
    /\ mlme' = "maintain"
    /\ enable' = FALSE
    /\ ind' = Unset /\ pend' = << >> /\ lost' = lost + Len(pend)
    /\ last' = 0 /\ seen' = 0 /\ stale' = FALSE
    /\ up' = << >>
    /\ UNCHANGED << pool, timing, attached, conns, bas, peer, rx >>

\* core_conn_maintain_ba_rsp_thrd: the response is sent, or cannot be sent.
AddBa ==
    /\ mlme = "maintain" /\ bas < MaxBa
    /\ bas' = bas + 1
    /\ enable' = TRUE
    /\ first' = sent + 1
    /\ up' = << >>
    /\ UNCHANGED << window, timing, attached, mlme, conns, sent, past, rx >>

AddBaFail ==
    /\ mlme = "maintain" /\ bas < MaxBa
    /\ bas' = bas + 1
    /\ enable' = FALSE
    /\ stale' = (stale \/ ind # Unset)
    /\ up' = << >>
    /\ UNCHANGED << window, timing, attached, mlme, conns, peer, last, seen, rx >>

\* core_conn_maintain_deauth_thrd
Detach ==
    /\ mlme = "maintain"
    /\ attached' = FALSE
    /\ mlme' = "idle"
    /\ stale' = TRUE
    /\ up' = << >>
    /\ UNCHANGED << window, timing, enable, conns, bas, peer, last, seen, rx >>

-----------------------------------------------------------------------------
Next ==
    \/ Send
    \/ \E n \in FrameNo : RxBypass(n) \/ RxTest(n)
    \/ CoreNull \/ CoreDrop \/ CoreSpin \/ CoreKeep
    \/ Expire \/ Timeout
    \/ Attach \/ PreconnectFail \/ Reinit \/ AddBa \/ AddBaFail \/ Detach

Spec == Init /\ [][Next]_vars

\* The timer of the operating system expires and its callback runs.
Fairness == WF_vars(Expire) /\ WF_vars(Timeout)

FairSpec == Spec /\ Fairness

-----------------------------------------------------------------------------
(* Whenever the lock is free, the frames held back are those the window has  *)
(* room for: each lies ahead of the expected number and before the end of    *)
(* the window, and they are sorted without duplicates, also across the wrap  *)
(* of the sequence numbers, after a timeout and after the window moved.      *)
Ahead(n) == Diff(SnOf(n), ind)

HeldInWindow ==
    Unlocked =>
    /\ pend # << >> => ind # Unset
    /\ \A j \in 1 .. Len(pend) : Ahead(pend[j]) \in 1 .. WSize - 1
    /\ \A j, k \in 1 .. Len(pend) : j < k => Ahead(pend[j]) < Ahead(pend[k])

(* The pool is just large enough: every node is free, holds a frame, was     *)
(* lost when a connection began with frames held or was never allocated, and *)
(* the receive thread waits for a node with the lock held only if nodes are  *)
(* missing so.  All variables have their types.                              *)
PoolSuffices ==
    /\ TypeOK
    /\ pool + Len(pend) + lost = NodeNum
    /\ rx.at = "spin" => lost > 0

(* As long as no frame bypassed the window, frames reach the network stack   *)
(* in the order in which the peer sent them and none of them twice.          *)
DeliveredInOrder ==
    [][ ~stale /\ up' # << >> =>
            /\ up'[1] > last
            /\ \A j, k \in 1 .. Len(up') : j < k => up'[j] < up'[k] ]_vars

(* A frame is given up only for a reason: it is already held or a frame that *)
(* is not earlier has gone up already, or a frame so much later came that    *)
(* the window had to move past it.                                           *)
DropIsJustified ==
    [][ ~stale' /\ rx.at = "core" /\ rx'.at = "idle"
            /\ ~Contains(pend', rx.no) /\ ~Contains(up', rx.no) =>
            rx.no <= last \/ rx.no + WSize <= seen ]_vars

(* A frame that is held back does not stay: the missing frames come, the     *)
(* window moves, or the timer gives them up, until none is held any more.    *)
HeldFramesLeave == (pend # << >>) ~> (pend = << >> \/ rx.at \in {"spin", "oops"})
=============================================================================
