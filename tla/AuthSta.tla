------------------------------ MODULE AuthSta -------------------------------
(***************************************************************************)
(* Authentication of a station (nic/auth.c): the protothread               *)
(* wf_auth_sta_thrd, the functions that start and stop it, and the receive *)
(* thread that hands it the answers of the access point (auth_sta_recv).   *)
(*                                                                         *)
(* The MLME thread starts the protothread, schedules it, and may stop it   *)
(* between two of its steps.  Frames may be lost, delayed and reordered.   *)
(* Time is not counted: a wait may end by its timeout at any moment.       *)
(***************************************************************************)
EXTENDS Integers, Sequences

CONSTANTS
    ResendTimes,    \* AUTH_REQ_RESEND_TIMES (3)
    Aps,            \* the access points to consider
    SendMayFail,    \* may sending a frame, or looking up the wdn, fail
    MaxSessions,    \* bound: the number of authentications started
    MaxOther        \* bound: how often the other interface takes the hardware

Algo == {"open", "shared"}
Status == {"ok", "noalg", "deny"}

\* What an access point answers to seq 1 for each algorithm, whether it sends a
\* challenge text, and whether it accepts seq 3.
ApType == [ans : [Algo -> Status], chal : BOOLEAN, key : BOOLEAN]

ASSUME AuthAssumption ==
    /\ ResendTimes \in Nat \ {0}
    /\ MaxSessions \in Nat /\ MaxOther \in Nat
    /\ SendMayFail \in BOOLEAN
    /\ Aps \subseteq ApType

None == "none"

(* auth_msg_init: two answers, one ABORT and one START message *)
AuthMsg == {"rsp1", "rsp2", "abort", "start"}
\* Fault: START is the most urgent message.
AuthPriStartFirst(m) == CASE m = "start" -> 0 [] m = "abort" -> 1 [] OTHER -> 2

AuthPri(m) == CASE m = "abort" -> 1 [] m = "start" -> 2 [] OTHER -> 0
AuthTag == [m \in AuthMsg |-> [dom |-> 0, pri |-> AuthPri(m), id |-> 0]]

\* The queue, with what is proved about its operations
Q == INSTANCE WfMsgLemmas WITH Msg <- AuthMsg, Tag <- AuthTag

\* The frames of the station: seq 1 for either algorithm, seq 3 for shared key.
Req == {<< 1, "open" >>, << 1, "shared" >>, << 3, "shared" >>}

\* The frames of the access point
Frame == [seq : {2, 4}, status : Status, algo : Algo, chal : BOOLEAN]
NoFrame == [seq |-> 0, status |-> "deny", algo |-> "open", chal |-> FALSE]

VARIABLES
    pend, free,     \* the message queue
    val,            \* the frame stored in each answer message
    fresh,          \* the messages pushed since this session started, and unread
    pc,             \* where wf_auth_sta_thrd resumes ("idle": not running)
    brun, retryCnt, \* fields of auth_info_t
    authSeq, authAlgo,  \* fields of the wdn: auth_seq (1 or 3), auth_algo
    result,         \* what the caller reads in *prsn
    last,           \* the frame that ended the authentication
    session,        \* the number of authentications started
    inAuth,         \* is the MLME state MLME_STATE_AUTH
    stopped,        \* has the MLME thread stopped this authentication
    hwLock, taken,  \* owner of mlme_hw_access_lock; times the other had it
    ap,             \* the access point
    air,            \* air[r]: how many of its answers to r are on their way
    rx              \* where the receive thread is in auth_sta_recv

queue == << pend, free, val, fresh >>
work == << brun, retryCnt, authSeq, authAlgo >>
outcome == << result, last >>
mlme == << session, inAuth, stopped >>
lock == << hwLock, taken >>
net == << ap, air >>
vars == << queue, pc, work, outcome, mlme, lock, net, rx >>

MaxAir == MaxSessions * ResendTimes     \* the tries of all sessions

RxIdle == [at |-> "idle", frame |-> NoFrame, msg |-> None]
Rsp == {"rsp1", "rsp2"}
Result == {"done", "abort", "fail"}

TypeOK ==
    /\ pend \in Seq(AuthMsg) /\ free \in Seq(AuthMsg)
    /\ val \in [Rsp -> Frame \cup {NoFrame}]
    /\ fresh \subseteq AuthMsg
    /\ pc \in {"idle", "lock", "getmsg", "send", "wait"}
    /\ brun \in BOOLEAN /\ retryCnt \in 0 .. ResendTimes + 1
    /\ authSeq \in {1, 3} /\ authAlgo \in Algo
    /\ result \in Result \cup {None} /\ last \in Frame \cup {NoFrame}
    /\ session \in 0 .. MaxSessions /\ inAuth \in BOOLEAN /\ stopped \in BOOLEAN
    /\ hwLock \in {None, "auth", "other"} /\ taken \in 0 .. MaxOther
    /\ ap \in Aps /\ air \in [Req -> 0 .. MaxAir]
    /\ rx \in [at : {"idle", "new", "push"}, frame : Frame \cup {NoFrame},
               msg : Rsp \cup {None}]

(* wf_auth_init *)
Init ==
    /\ pend = << >> /\ free = << "rsp1", "rsp2", "abort", "start" >>
    /\ val = [m \in Rsp |-> NoFrame] /\ fresh = {}
    /\ pc = "idle" /\ brun = FALSE /\ retryCnt = 0
    /\ authSeq = 1 /\ authAlgo = "open"
    /\ result = None /\ last = NoFrame
    /\ session = 0 /\ inAuth = FALSE /\ stopped = FALSE
    /\ hwLock = None /\ taken = 0
    /\ ap \in Aps /\ air = [r \in Req |-> 0] /\ rx = RxIdle

-----------------------------------------------------------------------------
(* The MLME thread around the protothread: core_conn_auth_thrd *)

\* mlme_set_state(AUTH), then wf_auth_sta_start
Start ==
    /\ pc = "idle" /\ ~inAuth
    /\ session < MaxSessions
    /\ Q!HasFree(free, AuthTag["start"])
    /\ session' = session + 1
    /\ inAuth' = TRUE /\ stopped' = FALSE
    /\ free' = Q!Unlink(free, "start")
    /\ pend' = Q!Push(pend, "start")
    /\ fresh' = {"start"}
    /\ result' = None /\ last' = NoFrame
    /\ pc' = "lock"
    /\ UNCHANGED << val, work, lock, net, rx >>

\* A CONN_ABORT or DEAUTH message reaches the MLME thread: wf_auth_sta_stop,
\* which does nothing before the authentication runs.
Stop ==
    /\ pc # "idle" /\ ~stopped
    /\ stopped' = TRUE
    /\ IF brun /\ Q!HasFree(free, AuthTag["abort"])
       THEN /\ free' = Q!Unlink(free, "abort")
            /\ pend' = Q!Push(pend, "abort")
            /\ fresh' = fresh \cup {"abort"}
       ELSE UNCHANGED << pend, free, fresh >>
    /\ UNCHANGED << val, pc, work, outcome, session, inAuth, lock, net, rx >>

\* The MLME moves on to another state once the authentication has returned.
LeaveAuth ==
    /\ pc = "idle" /\ inAuth
    /\ inAuth' = FALSE
    /\ UNCHANGED << queue, pc, work, outcome, session, stopped, lock, net, rx >>

-----------------------------------------------------------------------------
(* wf_auth_sta_thrd *)

\* Fault: the hardware lock is not released.
EndLocked(why) ==
    /\ brun' = FALSE
    /\ hwLock' = hwLock
    /\ result' = why
    /\ pc' = "idle"

\* Label "exit": brun, the hardware lock and the result.
End(why) ==
    /\ brun' = FALSE
    /\ hwLock' = None
    /\ result' = why
    /\ pc' = "idle"

\* Fault: the lock is taken without a test whether it is free.
TakeHwLockUntested ==
    /\ pc = "lock"
    /\ hwLock' = "auth"
    /\ pc' = "getmsg"
    /\ UNCHANGED << queue, work, outcome, mlme, taken, net, rx >>

TakeHwLock ==
    /\ pc = "lock"
    /\ hwLock = None
    /\ hwLock' = "auth"
    /\ pc' = "getmsg"
    /\ UNCHANGED << queue, work, outcome, mlme, taken, net, rx >>

\* wf_msg_pop; what is stored in a message that was used does not matter any
\* more.
Take(m) ==
    /\ pend' = Q!Unlink(pend, m)
    /\ val' = [n \in Rsp |-> IF n = m THEN NoFrame ELSE val[n]]
    /\ fresh' = fresh \ {m}

\* Messages older than START are thrown away; then seq 1 with open system.
\* The wdn of the access point may be missing.
GetMsg ==
    /\ pc = "getmsg"
    /\ IF pend = << >>
       THEN End("fail") /\ UNCHANGED << queue, retryCnt, authSeq, authAlgo, last >>
       ELSE LET m == Q!EndOf(pend, FALSE)
            IN  /\ Take(m)
                /\ free' = Q!Del(free, m)
                /\ IF m = "start"
                   THEN \/ /\ brun' = TRUE
                           /\ retryCnt' = 0 /\ authSeq' = 1 /\ authAlgo' = "open"
                           /\ pc' = "send"
                           /\ UNCHANGED << hwLock, outcome >>
                        \/ /\ SendMayFail
                           /\ End("fail")
                           /\ UNCHANGED << retryCnt, authSeq, authAlgo, last >>
                   ELSE UNCHANGED << pc, work, outcome, hwLock >>
    /\ UNCHANGED << mlme, taken, net, rx >>

\* What the access point answers to a request.
Answer(r) ==
    [seq |-> r[1] + 1,
     status |-> IF r[1] = 1 THEN ap.ans[r[2]] ELSE IF ap.key THEN "ok" ELSE "deny",
     algo |-> r[2],
     chal |-> r = << 1, "shared" >> /\ ap.chal]

\* auth_send: the answer may arrive at any time from now on, or never.
Send ==
    /\ pc = "send" /\ retryCnt < ResendTimes
    /\ air' = [air EXCEPT ![<< authSeq, authAlgo >>] = @ + 1]
    /\ pc' = "wait"
    /\ UNCHANGED << queue, work, outcome, mlme, lock, ap, rx >>

SendFail ==
    /\ SendMayFail
    /\ pc = "send" /\ retryCnt < ResendTimes
    /\ End("fail")
    /\ UNCHANGED << queue, retryCnt, authSeq, authAlgo, last, mlme, taken, net, rx >>

\* After the last try the result is a failure (-4, -7).  A rejected seq 3 sets
\* retry_cnt to the limit and the loop adds one more: "reason" is then not
\* assigned, and the caller reads whatever the stack held.
GiveUpResults == IF retryCnt = ResendTimes THEN {"fail"} ELSE Result

GiveUp ==
    /\ pc = "send" /\ retryCnt >= ResendTimes
    /\ \E why \in GiveUpResults : End(why)
    /\ UNCHANGED << queue, retryCnt, authSeq, authAlgo, last, mlme, taken, net, rx >>

\* Fault: after a timeout the wait begins again and nothing is sent.
TimeoutWaitsOn ==
    /\ pc = "wait"
    /\ pend = << >>
    /\ UNCHANGED vars

Timeout ==
    /\ pc = "wait"
    /\ pend = << >>
    /\ retryCnt' = retryCnt + 1
    /\ pc' = "send"
    /\ UNCHANGED << queue, brun, authSeq, authAlgo, outcome, mlme, lock, net, rx >>

\* Fault: the ABORT message is not given back.
WaitAbortNoDel ==
    /\ pc = "wait"
    /\ pend # << >>
    /\ Q!EndOf(pend, FALSE) = "abort"
    /\ Take("abort")
    /\ End("abort")
    /\ UNCHANGED << free, retryCnt, authSeq, authAlgo, last, mlme, taken, net, rx >>

WaitAbort ==
    /\ pc = "wait"
    /\ pend # << >>
    /\ Q!EndOf(pend, FALSE) = "abort"
    /\ Take("abort")
    /\ free' = Q!Del(free, "abort")
    /\ End("abort")
    /\ UNCHANGED << retryCnt, authSeq, authAlgo, last, mlme, taken, net, rx >>

\* An answer to seq 1 that is neither a success nor the end: resend.  An
\* unsupported algorithm is exchanged for the other one.
Toggle(f) ==
    authAlgo' = IF f.seq = 2 /\ f.status = "noalg"
                THEN (IF authAlgo = "shared" THEN "open" ELSE "shared")
                ELSE authAlgo

Resend2(f) ==
    /\ Toggle(f)
    /\ retryCnt' = retryCnt + 1
    /\ pc' = "send"
    /\ UNCHANGED << brun, authSeq, outcome, hwLock >>

\* Success for shared key: take the challenge and go on with seq 3.
Challenge ==
    /\ authSeq' = 3 /\ retryCnt' = 0
    /\ pc' = "send"
    /\ UNCHANGED << brun, authAlgo, outcome, hwLock >>

Accept(f) ==
    /\ End("done") /\ last' = f
    /\ UNCHANGED << retryCnt, authSeq, authAlgo >>

\* The message of an answer without a challenge is not deleted.
Deleted(f) ==
    ~ (authSeq = 1 /\ f.seq = 2 /\ f.status = "ok" /\ authAlgo = "shared" /\ ~f.chal)

\* Fault: success without a look at the algorithm.
WaitSeq2AnyAlgo(f) ==
    IF f.seq # 2 \/ f.status # "ok" THEN Resend2(f) ELSE Accept(f)

\* The answer to seq 1
WaitSeq2(f) ==
    IF f.seq # 2 \/ f.status # "ok" THEN Resend2(f)
    ELSE IF authAlgo = "open" THEN Accept(f)
    ELSE IF f.chal THEN Challenge
    ELSE End("fail") /\ UNCHANGED << retryCnt, authSeq, authAlgo, last >>

\* The answer to seq 3: a rejection stops the process by setting retry_cnt to
\* the limit, to which the loop adds one.
RetryAfterSeq4(f) ==
    IF f.seq = 4 THEN ResendTimes + 1 ELSE retryCnt + 1

WaitSeq4(f) ==
    IF f.seq = 4 /\ f.status = "ok" THEN Accept(f)
    ELSE /\ retryCnt' = RetryAfterSeq4(f)
         /\ pc' = "send"
         /\ last' = f
         /\ UNCHANGED << brun, authSeq, authAlgo, result, hwLock >>

WaitRsp ==
    /\ pc = "wait"
    /\ pend # << >>
    /\ LET m == Q!EndOf(pend, FALSE)
       IN  /\ m \in Rsp
           /\ Take(m)
           /\ free' = IF Deleted(val[m]) THEN Q!Del(free, m) ELSE free
           /\ IF authSeq = 1 THEN WaitSeq2(val[m]) ELSE WaitSeq4(val[m])
    /\ UNCHANGED << mlme, taken, net, rx >>

AuthThrd ==
    \/ TakeHwLock \/ GetMsg
    \/ Send \/ SendFail \/ GiveUp
    \/ Timeout \/ WaitAbort \/ WaitRsp

-----------------------------------------------------------------------------
(* auth_sta_recv: test the MLME state, get a message, push it. *)

RxTest ==
    /\ rx.at = "idle" /\ inAuth
    /\ \E r \in Req :
        /\ air[r] > 0 /\ air' = [air EXCEPT ![r] = @ - 1]
        /\ rx' = [at |-> "new", frame |-> Answer(r), msg |-> None]
    /\ UNCHANGED << queue, pc, work, outcome, mlme, lock, ap >>

RxNew ==
    /\ rx.at = "new"
    /\ IF Q!HasFree(free, AuthTag["rsp1"])
       THEN LET m == Q!FirstFree(free, AuthTag["rsp1"])
            IN  /\ free' = Q!Unlink(free, m)
                /\ rx' = [rx EXCEPT !.at = "push", !.msg = m]
       ELSE UNCHANGED free /\ rx' = RxIdle
    /\ UNCHANGED << pend, val, fresh, pc, work, outcome, mlme, lock, net >>

RxPush ==
    /\ rx.at = "push"
    /\ val' = [val EXCEPT ![rx.msg] = rx.frame]
    /\ fresh' = fresh \cup {rx.msg}
    /\ pend' = Q!Push(pend, rx.msg)
    /\ rx' = RxIdle
    /\ UNCHANGED << free, pc, work, outcome, mlme, lock, net >>

(* The other interface *)

OtherLock ==
    /\ hwLock = None /\ hwLock' = "other"
    /\ taken < MaxOther /\ taken' = taken + 1
    /\ UNCHANGED << queue, pc, work, outcome, mlme, net, rx >>

OtherUnlock ==
    /\ hwLock = "other" /\ hwLock' = None
    /\ UNCHANGED << queue, pc, work, outcome, mlme, taken, net, rx >>

Next ==
    \/ Start \/ Stop \/ LeaveAuth
    \/ AuthThrd
    \/ RxTest \/ RxNew \/ RxPush
    \/ OtherLock \/ OtherUnlock

Spec == Init /\ [][Next]_vars

\* The MLME thread schedules the protothread again and again, and the other
\* interface releases the hardware lock.  Nothing is assumed of the network.
Fairness == WF_vars(AuthThrd) /\ WF_vars(OtherUnlock)

FairSpec == Spec /\ Fairness

-----------------------------------------------------------------------------
(* Whatever ends an authentication, the hardware lock is released, brun is   *)
(* off and the START message is free again for the next one.                 *)
CleanEnd ==
    pc = "idle" => /\ ~brun
                   /\ hwLock # "auth"
                   /\ Q!Contains(free, "start")

Places(m) ==
    (IF Q!Contains(pend, m) THEN 1 ELSE 0)
  + (IF Q!Contains(free, m) THEN 1 ELSE 0)
  + (IF rx.msg = m THEN 1 ELSE 0)

(* No message is lost or in two places, as long as the access point puts a   *)
(* challenge text in its answer for shared key; and all variables have their *)
(* types, the counters of the tries included.                                *)
MessagesAccounted ==
    /\ TypeOK
    /\ \A m \in AuthMsg : Places(m) <= 1 /\ (ap.chal => Places(m) = 1)

(* A message left over from an earlier authentication (a late answer, a late *)
(* ABORT) is never looked at by the next one: START has the lowest priority, *)
(* so everything queued before it is thrown away first.                      *)
FreshMessages ==
    brun => Q!ToSet(pend) \subseteq fresh

(* Is this frame the access point's consent, rather than a challenge or a    *)
(* refusal?                                                                  *)
Consent(f) ==
    f.status = "ok" /\ (f.seq = 4 \/ f.algo = "open")

(* In its first authentication, with the three tries of the code, a station  *)
(* takes itself for authenticated only after a frame in which the access     *)
(* point accepted it: resends, delayed answers and the exchange of the       *)
(* algorithm do not make it take a challenge for a consent.  (In the second  *)
(* one late refusals of the first may switch the algorithm back to open      *)
(* while a challenge is on its way, which then counts as a success; an       *)
(* access point that rejects seq 3 is the subject of RejectedIsNotDone.)     *)
DoneMeansAccepted ==
    (result = "done" /\ ap.key /\ session = 1) => Consent(last)

(* An authentication that was started ends, whatever the network does.       *)
AuthEnds == (pc # "idle") ~> (pc = "idle")

(* The access point's rejection of seq 3 stops the process without success.  *)
RejectedIsNotDone ==
    (result = "done" /\ last # NoFrame) => last.status # "deny"

-----------------------------------------------------------------------------
(* An authentication is a procedure (module Procedure): whatever the answers *)
(* and however it ends, it works only with the hardware lock, never takes it *)
(* from the other interface, and returns once, with an outcome, in the step  *)
(* that releases it.                                                         *)
Phase == CASE pc = "idle" -> "idle" [] pc = "lock" -> "waiting" [] OTHER -> "working"

P == INSTANCE Procedure WITH
    Me <- "auth", phase <- Phase, hardware <- hwLock,
    told <- IF pc = "idle" THEN result ELSE None

ImplementsProcedure == P!Spec
=============================================================================
