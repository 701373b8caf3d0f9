------------------------------ MODULE AssocSta ------------------------------
(***************************************************************************)
(* Association of a station (nic/assoc.c): the protothread                 *)
(* wf_assoc_sta_thrd, wf_assoc_start, wf_assoc_stop and the receive thread *)
(* (wf_assoc_frame_parse).  Unlike authentication, an association may be   *)
(* stopped by other threads than the MLME thread, at any moment.           *)
(***************************************************************************)
EXTENDS Integers, Sequences

CONSTANTS
    Stopper,        \* the threads that call wf_assoc_stop
    ResendTimes,    \* ASSOC_REQ_RESEND_TIMES (3)
    SendMayFail,    \* may sending the request fail
    MaxSessions,    \* bound: the number of associations started
    MaxOther        \* bound: how often the other interface takes the hardware

ASSUME AssocAssumption ==
    /\ ResendTimes \in Nat \ {0}
    /\ MaxSessions \in Nat /\ MaxOther \in Nat
    /\ SendMayFail \in BOOLEAN

None == "none"

(* assoc_msg_init *)
AssocMsg == {"rsp1", "rsp2", "abort", "start"}
Rsp == {"rsp1", "rsp2"}
\* Fault: START is the most urgent message.
AssocPriStartFirst(m) == CASE m = "start" -> 0 [] m = "abort" -> 1 [] OTHER -> 2

AssocPri(m) == CASE m = "abort" -> 1 [] m = "start" -> 2 [] OTHER -> 0
AssocTag == [m \in AssocMsg |-> [dom |-> 0, pri |-> AssocPri(m), id |-> 0]]

\* The queue, with what is proved about its operations
Q == INSTANCE WfMsgLemmas WITH Msg <- AssocMsg, Tag <- AssocTag

\* The answers of the access point; which one it sent shows when it arrives.
Frame == {"accept", "refuse"}

VARIABLES
    pend, free,     \* the message queue
    val,            \* the frame stored in each answer message
    fresh,          \* the messages pushed since this session started
    accepted,       \* was a success of the access point pushed since then
    pc,             \* where wf_assoc_sta_thrd resumes ("idle": not running)
    brun, retryCnt, \* fields of assoc_info_t
    curNet,         \* the session that stored the AID and IEs of cur_network
    result,         \* what the caller reads in *prsn
    session,        \* the number of associations started
    inAssoc,        \* is the MLME state MLME_STATE_ASSOC
    hwLock, taken,  \* owner of mlme_hw_access_lock; times the other had it
    air,            \* how many answers are on their way
    stop,           \* where each stopper is in wf_assoc_stop
    rx              \* where the receive thread is in wf_assoc_frame_parse

queue == << pend, free, val, fresh, accepted >>
work == << brun, retryCnt >>
outcome == << curNet, result >>
mlme == << session, inAssoc >>
lock == << hwLock, taken >>
others == << air, stop, rx >>
vars == << queue, pc, work, outcome, mlme, lock, others >>

MaxAir == MaxSessions * ResendTimes     \* the tries of all sessions

RxIdle == [at |-> "idle", frame |-> None, msg |-> None]

TypeOK ==
    /\ pend \in Seq(AssocMsg) /\ free \in Seq(AssocMsg)
    /\ val \in [Rsp -> Frame \cup {None}]
    /\ fresh \subseteq AssocMsg /\ accepted \in BOOLEAN
    /\ pc \in {"idle", "lock", "getmsg", "send", "wait"}
    /\ brun \in BOOLEAN /\ retryCnt \in 0 .. ResendTimes
    /\ curNet \in 0 .. MaxSessions /\ result \in {None, "done", "abort", "fail"}
    /\ session \in 0 .. MaxSessions /\ inAssoc \in BOOLEAN
    /\ hwLock \in {None, "assoc", "other"} /\ taken \in 0 .. MaxOther
    /\ air \in 0 .. MaxAir
    /\ stop \in [Stopper -> {"idle", "new", "push"}]
    /\ rx \in [at : {"idle", "new", "push"}, frame : Frame \cup {None},
               msg : Rsp \cup {None}]

(* wf_assoc_init *)
Init ==
    /\ pend = << >> /\ free = << "rsp1", "rsp2", "abort", "start" >>
    /\ val = [m \in Rsp |-> None] /\ fresh = {} /\ accepted = FALSE
    /\ pc = "idle" /\ brun = FALSE /\ retryCnt = 0
    /\ curNet = 0 /\ result = None
    /\ session = 0 /\ inAssoc = FALSE
    /\ hwLock = None /\ taken = 0
    /\ air = 0 /\ stop = [s \in Stopper |-> "idle"] /\ rx = RxIdle

-----------------------------------------------------------------------------
\* mlme_set_state(ASSOC), then wf_assoc_start
Start ==
    /\ pc = "idle" /\ ~inAssoc
    /\ session < MaxSessions
    /\ Q!HasFree(free, AssocTag["start"])
    /\ session' = session + 1
    /\ inAssoc' = TRUE
    /\ free' = Q!Unlink(free, "start")
    /\ pend' = Q!Push(pend, "start")
    /\ fresh' = {"start"} /\ accepted' = FALSE
    /\ pc' = "lock"
    /\ UNCHANGED << val, work, outcome, lock, others >>

LeaveAssoc ==
    /\ pc = "idle" /\ inAssoc
    /\ inAssoc' = FALSE
    /\ UNCHANGED << queue, pc, work, outcome, session, lock, others >>

-----------------------------------------------------------------------------
(* wf_assoc_sta_thrd *)

\* Fault: the hardware lock is not released.
EndLocked(why) ==
    /\ brun' = FALSE
    /\ hwLock' = hwLock
    /\ result' = why
    /\ pc' = "idle"

End(why) ==
    /\ brun' = FALSE
    /\ hwLock' = None
    /\ result' = why
    /\ pc' = "idle"

TakeHwLock ==
    /\ pc = "lock"
    /\ hwLock = None
    /\ hwLock' = "assoc"
    /\ pc' = "getmsg"
    /\ UNCHANGED << queue, work, outcome, mlme, taken, others >>

\* Messages older than START are thrown away.
GetMsg ==
    /\ pc = "getmsg"
    /\ IF pend = << >>
       THEN End("fail") /\ UNCHANGED << pend, free, retryCnt >>
       ELSE LET m == Q!EndOf(pend, FALSE)
            IN  /\ pend' = Q!Unlink(pend, m)
                /\ free' = Q!Del(free, m)
                /\ IF m = "start"
                   THEN brun' = TRUE /\ retryCnt' = 0 /\ pc' = "send"
                   ELSE UNCHANGED << brun, retryCnt, pc >>
                /\ UNCHANGED << hwLock, result >>
    /\ UNCHANGED << val, fresh, accepted, curNet, mlme, taken, others >>

\* associate_xmit_frame: the access point's answer may come at any time from
\* now on, or never.
Send ==
    /\ pc = "send" /\ retryCnt < ResendTimes
    /\ air' = air + 1
    /\ pc' = "wait"
    /\ UNCHANGED << queue, work, outcome, mlme, lock, stop, rx >>

\* Fault: the end of the tries stores no result.
GiveUpSilent ==
    /\ pc = "send"
    /\ SendMayFail \/ retryCnt = ResendTimes
    /\ brun' = FALSE /\ hwLock' = None /\ pc' = "idle"
    /\ UNCHANGED << queue, retryCnt, outcome, mlme, taken, others >>

\* Sending fails (-2), or the tries are exhausted (-3).
GiveUp ==
    /\ pc = "send"
    /\ SendMayFail \/ retryCnt = ResendTimes
    /\ End("fail")
    /\ UNCHANGED << queue, retryCnt, curNet, mlme, taken, others >>

\* Fault: after a timeout the wait begins again and nothing is sent.
TimeoutWaitsOn ==
    /\ pc = "wait"
    /\ pend = << >>
    /\ UNCHANGED vars

Timeout ==
    /\ pc = "wait"
    /\ pend = << >>
    /\ retryCnt' = retryCnt + 1
    /\ pc' = "send"
    /\ UNCHANGED << queue, brun, outcome, mlme, lock, others >>

\* An ABORT ends the association; a success stores the AID and the IEs and
\* ends it; a refusal costs one try.
WaitMsg ==
    /\ pc = "wait"
    /\ pend # << >>
    /\ LET m == Q!EndOf(pend, FALSE)
       IN  /\ pend' = Q!Unlink(pend, m)
           /\ free' = Q!Del(free, m)
           /\ \/ /\ m = "abort"
                 /\ End("abort")
                 /\ UNCHANGED << retryCnt, curNet >>
              \/ /\ m \in Rsp /\ val[m] = "accept"
                 /\ curNet' = session
                 /\ End("done")
                 /\ UNCHANGED retryCnt
              \/ /\ m \in Rsp /\ val[m] = "refuse"
                 /\ retryCnt' = retryCnt + 1
                 /\ pc' = "send"
                 /\ UNCHANGED << brun, hwLock, outcome >>
    /\ UNCHANGED << val, fresh, accepted, mlme, taken, others >>

AssocThrd == TakeHwLock \/ GetMsg \/ Send \/ GiveUp \/ Timeout \/ WaitMsg

-----------------------------------------------------------------------------
(* wf_assoc_stop: test brun, get the ABORT message, push it. *)

StopTest(s) ==
    /\ stop[s] = "idle" /\ brun
    /\ stop' = [stop EXCEPT ![s] = "new"]
    /\ UNCHANGED << queue, pc, work, outcome, mlme, lock, air, rx >>

StopNew(s) ==
    /\ stop[s] = "new"
    /\ IF Q!HasFree(free, AssocTag["abort"])
       THEN free' = Q!Unlink(free, "abort") /\ stop' = [stop EXCEPT ![s] = "push"]
       ELSE UNCHANGED free /\ stop' = [stop EXCEPT ![s] = "idle"]
    /\ UNCHANGED << pend, val, fresh, accepted, pc, work, outcome, mlme, lock, air, rx >>

StopPush(s) ==
    /\ stop[s] = "push"
    /\ pend' = Q!Push(pend, "abort")
    /\ fresh' = fresh \cup {"abort"}
    /\ stop' = [stop EXCEPT ![s] = "idle"]
    /\ UNCHANGED << free, val, accepted, pc, work, outcome, mlme, lock, air, rx >>

(* wf_assoc_frame_parse: test the MLME state, get a message, push it. *)

RxTest ==
    /\ rx.at = "idle" /\ inAssoc
    /\ air > 0 /\ air' = air - 1
    /\ \E f \in Frame : rx' = [at |-> "new", frame |-> f, msg |-> None]
    /\ UNCHANGED << queue, pc, work, outcome, mlme, lock, stop >>

RxNew ==
    /\ rx.at = "new"
    /\ IF Q!HasFree(free, AssocTag["rsp1"])
       THEN LET m == Q!FirstFree(free, AssocTag["rsp1"])
            IN  /\ free' = Q!Unlink(free, m)
                /\ rx' = [rx EXCEPT !.at = "push", !.msg = m]
       ELSE UNCHANGED free /\ rx' = RxIdle
    /\ UNCHANGED << pend, val, fresh, accepted, pc, work, outcome, mlme, lock, air, stop >>

\* Fault: an answer that comes too late is dropped, but not its message.
RxPushLost ==
    /\ rx.at = "push"
    /\ val' = [val EXCEPT ![rx.msg] = rx.frame]
    /\ fresh' = fresh \cup {rx.msg}
    /\ accepted' = (accepted \/ rx.frame = "accept")
    /\ pend' = IF brun THEN Q!Push(pend, rx.msg) ELSE pend
    /\ rx' = RxIdle
    /\ UNCHANGED << free, pc, work, outcome, mlme, lock, air, stop >>

\* Fault: a message that was used before keeps the frame it held.
RxPushKeepsFrame ==
    /\ rx.at = "push"
    /\ val' = [val EXCEPT ![rx.msg] = IF @ = None THEN rx.frame ELSE @]
    /\ fresh' = fresh \cup {rx.msg}
    /\ accepted' = (accepted \/ rx.frame = "accept")
    /\ pend' = Q!Push(pend, rx.msg)
    /\ rx' = RxIdle
    /\ UNCHANGED << free, pc, work, outcome, mlme, lock, air, stop >>

RxPush ==
    /\ rx.at = "push"
    /\ val' = [val EXCEPT ![rx.msg] = rx.frame]
    /\ fresh' = fresh \cup {rx.msg}
    /\ accepted' = (accepted \/ rx.frame = "accept")
    /\ pend' = Q!Push(pend, rx.msg)
    /\ rx' = RxIdle
    /\ UNCHANGED << free, pc, work, outcome, mlme, lock, air, stop >>

(* The other interface *)

OtherLock ==
    /\ hwLock = None /\ hwLock' = "other"
    /\ taken < MaxOther /\ taken' = taken + 1
    /\ UNCHANGED << queue, pc, work, outcome, mlme, others >>

OtherUnlock ==
    /\ hwLock = "other" /\ hwLock' = None
    /\ UNCHANGED << queue, pc, work, outcome, mlme, taken, others >>

Next ==
    \/ Start \/ LeaveAssoc
    \/ AssocThrd
    \/ \E s \in Stopper : StopTest(s) \/ StopNew(s) \/ StopPush(s)
    \/ RxTest \/ RxNew \/ RxPush
    \/ OtherLock \/ OtherUnlock

Spec == Init /\ [][Next]_vars

\* The MLME thread schedules the protothread again and again, and the other
\* interface releases the hardware lock.  Nothing is assumed of the network.
Fairness == WF_vars(AssocThrd) /\ WF_vars(OtherUnlock)

FairSpec == Spec /\ Fairness

-----------------------------------------------------------------------------
(* Whatever ends an association, the hardware lock is released, brun is off  *)
(* and the START message is free again for the next one.                     *)
CleanEnd ==
    pc = "idle" => /\ ~brun
                   /\ hwLock # "assoc"
                   /\ Q!Contains(free, "start")

(* No message is lost or in two places, although the protothread, the        *)
(* receive thread and the stopping threads take and return them at any time; *)
(* and all variables have their types.                                       *)
MessagesAccounted ==
    /\ TypeOK
    /\ \A m \in AssocMsg :
        1 = (IF Q!Contains(pend, m) THEN 1 ELSE 0)
          + (IF Q!Contains(free, m) THEN 1 ELSE 0)
          + (IF rx.msg = m THEN 1 ELSE 0)
          + (IF m = "abort" /\ \E s \in Stopper : stop[s] = "push" THEN 1 ELSE 0)

(* A message queued before the association ran (a late answer, a late ABORT) *)
(* is never looked at by it: START has the lowest priority, so everything    *)
(* queued before is thrown away first.                                       *)
FreshMessages ==
    brun => Q!ToSet(pend) \subseteq fresh

(* An association is reported as done only if the receive thread queued a    *)
(* success of the access point after this association was started: neither a *)
(* refusal nor an answer that an earlier association left in the queue or in *)
(* a reused message does it.  The AID and the IEs in cur_network are stored  *)
(* by the association that reports done, and by no other: one that failed or *)
(* was aborted leaves those of the network before.                           *)
DoneMeansAccepted ==
    pc = "idle" /\ session > 0 =>
        /\ result = "done" => accepted
        /\ result = "done" <=> curNet = session

(* An association that was started ends, whatever the network does.          *)
AssocEnds == (pc # "idle") ~> (pc = "idle")

-----------------------------------------------------------------------------
(* An association is a procedure (module Procedure): whatever the answers    *)
(* and however it ends, it works only with the hardware lock, never takes it *)
(* from the other interface, and returns once, with an outcome, in the step  *)
(* that releases it.                                                         *)
Phase == CASE pc = "idle" -> "idle" [] pc = "lock" -> "waiting" [] OTHER -> "working"

P == INSTANCE Procedure WITH
    Me <- "assoc", phase <- Phase, hardware <- hwLock,
    told <- IF pc = "idle" THEN result ELSE None

ImplementsProcedure == P!Spec
=============================================================================
