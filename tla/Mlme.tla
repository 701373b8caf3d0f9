-------------------------------- MODULE Mlme --------------------------------
(***************************************************************************)
(* The MLME of a station (nic/mlme.c): the thread mlme_core with its       *)
(* protothread mlme_core_thrd, and the functions other threads call to     *)
(* scan, connect, disconnect and take the interface down.                  *)
(*                                                                         *)
(* The protothreads below it (scan, authentication, association: modules   *)
(* Scan, AuthSta and AssocSta) appear here only by the fact that they end  *)
(* by themselves with some result; being stopped makes them end sooner.    *)
(* The requests of block ack, power save, P2P and ad hoc mode are left     *)
(* out.  The framework always asks for indications (indicate_en).          *)
(***************************************************************************)
EXTENDS Integers, Sequences

CONSTANTS
    Pool,           \* Pool[k]: how many messages of kind k mlme_msg_init makes
    Caller,         \* the threads that call into the MLME
    Ops,            \* Ops[c]: what caller c may call
    TryTimes,       \* try_cnt of the search for the network (3)
    MaxCalls        \* bound: the number of calls

Kind == {"scan_abort", "scan_rsp", "conn_abort", "deauth", "deassoc",
         "scan", "conn", "keepalive"}
Op == (Kind \ {"keepalive"}) \cup {"disable", "enable"}

ASSUME MlmeAssumption ==
    /\ Pool \in [Kind -> Nat]
    /\ Ops \in [Caller -> SUBSET Op]
    /\ TryTimes \in Nat \ {0} /\ MaxCalls \in Nat

None == << "none", 0 >>

Msg == UNION { {k} \X (1 .. Pool[k]) : k \in Kind }

\* The tags of mlme.h
Ident == [k \in Kind |->
    CASE k = "scan_abort" -> << 0, 0 >> [] k = "scan_rsp" -> << 0, 1 >>
      [] k = "conn_abort" -> << 0, 4 >> [] k = "deauth" -> << 0, 5 >>
      [] k = "deassoc" -> << 0, 6 >> [] k = "scan" -> << 1, 0 >>
      [] k = "conn" -> << 1, 1 >> [] k = "keepalive" -> << 2, 2 >>]
TagOf(k) == [dom |-> 0, pri |-> Ident[k][1], id |-> Ident[k][2]]

MlmeTag == [m \in Msg |-> TagOf(m[1])]

\* The queue, with what is proved about its operations
Q == INSTANCE WfMsgLemmas WITH Tag <- MlmeTag

VARIABLES
    pend, free,     \* the message queue
    pc,             \* where the MLME thread is
    cur,            \* the message mlme_core_thrd popped and not yet stored
    pconn, pscan,   \* pconn_msg and pscan_msg
    tryCnt,         \* try_cnt
    state,          \* the state other threads read
    connect,        \* the flag other threads read
    wdn,            \* is there a pwdn_info
    ka,             \* was a keepalive probe requested
    fw,             \* what the framework was told: "conn" or "disc"
    owed,           \* scan requests accepted and not yet reported as done
    babort, finished, isUp,     \* babort_thrd, abort_thrd_finished, is_up
    call,           \* where each caller is, and the message it holds
    calls           \* the number of calls made

queue == << pend, free >>
thrd == << cur, pconn, pscan, tryCnt, ka >>
public == << state, connect, wdn, fw, owed >>
flags == << babort, finished, isUp >>
vars == << queue, pc, thrd, public, flags, call, calls >>

(* mlme_msg_init *)
Alloc(k) == [j \in 1 .. Pool[k] |-> << k, j >>]
AllocMsgs ==
    Alloc("scan_abort") \o Alloc("conn_abort") \o Alloc("deauth") \o Alloc("deassoc")
        \o Alloc("scan") \o Alloc("scan_rsp") \o Alloc("conn") \o Alloc("keepalive")

(* wf_mlme_init; the interface is already up *)
Init ==
    /\ pend = << >> /\ free = AllocMsgs
    /\ pc = "out" /\ cur = None /\ pconn = None /\ pscan = None
    /\ tryCnt = 0 /\ ka = FALSE
    /\ state = "idle" /\ connect = FALSE /\ wdn = FALSE
    /\ fw = "disc" /\ owed = {}
    /\ babort = FALSE /\ finished = FALSE /\ isUp = TRUE
    /\ call = [c \in Caller |-> [at |-> "idle", msg |-> None, then |-> "idle"]]
    /\ calls = 0

Connecting == {"connscan", "found", "searchstop", "auth", "assoc", "stop", "preconn",
               "connected"}
Searching == {"connscan", "found", "searchstop"}
Maintaining == {"maint", "mscan", "mscanstop", "mscanend", "mprobe", "mprobestop", "deauth"}
PC == {"out", "reset", "idle", "popped", "scan", "scanstop", "scanend", "break",
       "unset", "clear", "tx"} \cup Connecting \cup Maintaining
At == {"idle", "push", "cs_abort", "cs_peek", "cs_del", "cs_new",
       "ab_conn", "ab_scan", "ab_flag", "ab_wait", "ab_down"}

TypeOK ==
    /\ pend \in Seq(Msg) /\ free \in Seq(Msg)
    /\ pc \in PC
    /\ cur \in Msg \cup {None} /\ pconn \in Msg \cup {None} /\ pscan \in Msg \cup {None}
    /\ tryCnt \in 0 .. TryTimes /\ ka \in BOOLEAN
    /\ state \in {"idle", "scan", "conn_scan", "auth", "assoc", "deauth"}
    /\ connect \in BOOLEAN /\ wdn \in BOOLEAN /\ fw \in {"conn", "disc"}
    /\ owed \subseteq Msg
    /\ babort \in BOOLEAN /\ finished \in BOOLEAN /\ isUp \in BOOLEAN
    /\ call \in [Caller -> [at : At, msg : Msg \cup {None}, then : At]]
    /\ calls \in 0 .. MaxCalls

-----------------------------------------------------------------------------
(* Queue operations; wf_msg_del takes the message out of whichever list *)
(* it is in.                                                            *)

Head1 == Q!EndOf(pend, FALSE)
HeadIs(kinds) == pend # << >> /\ Head1[1] \in kinds

Del(m) == pend' = Q!Unlink(pend, m) /\ free' = Q!Del(free, m)

\* What ends an established connection.
Disconnects == {"conn_abort", "deauth", "deassoc"}

-----------------------------------------------------------------------------
(* mlme_core and the top of mlme_core_thrd *)

\* mlme_can_run; the abort flag is reset in a step of its own.
CanRun ==
    /\ pc = "out" /\ isUp
    /\ pc' = "reset"
    /\ UNCHANGED << queue, thrd, public, flags, call, calls >>

Reset ==
    /\ pc = "reset"
    /\ babort' = FALSE
    /\ pc' = "idle"
    /\ UNCHANGED << queue, thrd, public, finished, isUp, call, calls >>

\* Fault: the flag is looked at only when there is a message.
ThreadAbortOnMsg ==
    /\ pc = "idle" /\ babort
    /\ pend # << >>
    /\ finished' = TRUE
    /\ pc' = "out"
    /\ UNCHANGED << queue, thrd, public, babort, isUp, call, calls >>

ThreadAbort ==
    /\ pc = "idle" /\ babort
    /\ finished' = TRUE
    /\ pc' = "out"
    /\ UNCHANGED << queue, thrd, public, babort, isUp, call, calls >>

Pop ==
    /\ pc = "idle" /\ ~babort
    /\ pend # << >>
    /\ cur' = Head1
    /\ pend' = Q!Unlink(pend, Head1)
    /\ pc' = "popped"
    /\ UNCHANGED << free, pconn, pscan, tryCnt, ka, public, flags, call, calls >>

\* A scan or a connection begins (wf_scan_start fails if the interface is
\* down); any other message is dropped.
DispatchScan ==
    /\ pc = "popped" /\ cur[1] = "scan"
    /\ state' = "scan"
    /\ pscan' = cur /\ cur' = None
    /\ pc' = IF isUp THEN "scan" ELSE "scanend"
    /\ UNCHANGED << queue, pconn, tryCnt, ka, connect, wdn, fw, owed, flags, call, calls >>

DispatchConn ==
    /\ pc = "popped" /\ cur[1] = "conn"
    /\ state' = "conn_scan"
    /\ pconn' = cur /\ cur' = None
    /\ tryCnt' = TryTimes
    /\ pc' = IF isUp THEN "connscan" ELSE "break"
    /\ UNCHANGED << queue, pscan, ka, connect, wdn, fw, owed, flags, call, calls >>

DispatchOther ==
    /\ pc = "popped" /\ cur[1] \notin {"scan", "conn"}
    /\ Del(cur)
    /\ cur' = None
    /\ pc' = "idle"
    /\ UNCHANGED << pconn, pscan, tryCnt, ka, public, flags, call, calls >>

-----------------------------------------------------------------------------
(* core_scan_thrd and core_conn_maintain_scan_thrd: only the head of the      *)
(* queue is looked at while the scan runs, and the result is reported if the  *)
(* interface is up.                                                           *)

ScanStop ==
    /\ pc \in {"scan", "mscan"} /\ HeadIs({"scan_abort"})
    /\ Del(Head1)
    /\ pc' = IF pc = "scan" THEN "scanstop" ELSE "mscanstop"
    /\ UNCHANGED << thrd, public, flags, call, calls >>

\* Fault: a scan that was stopped is not reported.
ScanEndSilent ==
    /\ pc \in {"scan", "scanstop", "mscan", "mscanstop"}
    /\ owed' = IF isUp /\ pc \in {"scan", "mscan"} THEN owed \ {pscan} ELSE owed
    /\ pc' = IF pc \in {"scan", "scanstop"} THEN "scanend" ELSE "mscanend"
    /\ UNCHANGED << queue, thrd, state, connect, wdn, fw, flags, call, calls >>

ScanEnd ==
    /\ pc \in {"scan", "scanstop", "mscan", "mscanstop"}
    /\ owed' = IF isUp THEN owed \ {pscan} ELSE owed
    /\ pc' = IF pc \in {"scan", "scanstop"} THEN "scanend" ELSE "mscanend"
    /\ UNCHANGED << queue, thrd, state, connect, wdn, fw, flags, call, calls >>

\* The request is deleted, and the thread is ready for the next message.
ScanDel ==
    /\ pc \in {"scanend", "mscanend"}
    /\ Del(pscan)
    /\ pscan' = None
    /\ state' = "idle"
    /\ pc' = IF pc = "scanend" THEN "idle" ELSE "maint"
    /\ UNCHANGED << cur, pconn, tryCnt, ka, connect, wdn, fw, owed, flags, call, calls >>

-----------------------------------------------------------------------------
(* core_conn_scan_thrd: search for the network.  The scan below it ends only  *)
(* when the receive thread has pushed the response it is handling, since      *)
(* wf_scan_filter holds req_lock meanwhile (module Scan).                     *)

RspPushed == \A c \in Caller : ~(call[c].at = "push" /\ call[c].msg[1] = "scan_rsp")

SearchMsg ==
    /\ pc = "connscan" /\ pend # << >>
    /\ Del(Head1)
    /\ pc' \in CASE Head1[1] \in {"conn_abort", "scan_abort"} -> {"searchstop"}
                 [] Head1[1] = "scan_rsp" -> {"found", "searchstop"}
                 [] OTHER -> {"connscan"}
    /\ UNCHANGED << thrd, public, flags, call, calls >>

\* The scan ends without the network: try again, at most TryTimes.
SearchAgain ==
    /\ pc = "connscan" /\ RspPushed
    /\ tryCnt > 1 /\ isUp
    /\ tryCnt' = tryCnt - 1
    /\ UNCHANGED << queue, pc, cur, pconn, pscan, ka, public, flags, call, calls >>

SearchFail ==
    /\ pc \in {"connscan", "searchstop"} /\ RspPushed
    /\ pc' = "break"
    /\ UNCHANGED << queue, thrd, public, flags, call, calls >>

\* The scan has stopped: build_wdn, then mlme_set_state(AUTH).
BuildWdn ==
    /\ pc = "found" /\ RspPushed
    /\ wdn' = TRUE
    /\ state' = "auth"
    /\ pc' = "auth"
    /\ UNCHANGED << queue, thrd, connect, fw, owed, flags, call, calls >>

BuildWdnFail ==
    /\ pc = "found" /\ RspPushed
    /\ wdn' \in BOOLEAN
    /\ pc' = "break"
    /\ UNCHANGED << queue, thrd, state, connect, fw, owed, flags, call, calls >>

(* core_conn_auth_thrd and core_conn_assoc_thrd *)

\* Fault: the dropped message is not deleted.
AuthMsgNoDel ==
    /\ pc \in {"auth", "assoc"} /\ pend # << >>
    /\ pend' = Q!Unlink(pend, Head1)
    /\ pc' = IF Head1[1] \in {"conn_abort", "deauth"} THEN "stop" ELSE pc
    /\ UNCHANGED << free, thrd, public, flags, call, calls >>

\* Fault: a CONN_ABORT is one of the unsuited messages.
AuthMsgDropsAbort ==
    /\ pc \in {"auth", "assoc"} /\ pend # << >>
    /\ Del(Head1)
    /\ pc' = IF Head1[1] = "deauth" THEN "stop" ELSE pc
    /\ UNCHANGED << thrd, public, flags, call, calls >>

\* DEASSOC is not looked for; every message not meant here is lost.
AuthMsg ==
    /\ pc \in {"auth", "assoc"} /\ pend # << >>
    /\ Del(Head1)
    /\ pc' = IF Head1[1] \in {"conn_abort", "deauth"} THEN "stop" ELSE pc
    /\ UNCHANGED << thrd, public, flags, call, calls >>

AuthDone ==
    /\ pc = "auth"
    /\ state' = "assoc"
    /\ pc' = "assoc"
    /\ UNCHANGED << queue, thrd, connect, wdn, fw, owed, flags, call, calls >>

\* Fault: the connect flag is set before the framework knows.
AssocDoneEarly ==
    /\ pc = "assoc"
    /\ connect' = TRUE
    /\ pc' = "preconn"
    /\ UNCHANGED << queue, thrd, state, wdn, fw, owed, flags, call, calls >>

AssocDone ==
    /\ pc = "assoc"
    /\ pc' = "preconn"
    /\ UNCHANGED << queue, thrd, public, flags, call, calls >>

\* Failed, or stopped and ended; core_conn_preconnect may fail too.
ConnFail ==
    /\ pc \in {"auth", "assoc", "stop", "preconn"}
    /\ pc' = "break"
    /\ UNCHANGED << queue, thrd, public, flags, call, calls >>

(* core_conn_preconnect tells the framework, then the flag is set. *)

Preconnect ==
    /\ pc = "preconn"
    /\ fw' = "conn"
    /\ pc' = "connected"
    /\ UNCHANGED << queue, thrd, state, connect, wdn, owed, flags, call, calls >>

Connected ==
    /\ pc = "connected"
    /\ connect' = TRUE
    /\ ka' = FALSE
    /\ state' = "idle"
    /\ pc' = "maint"
    /\ UNCHANGED << queue, cur, pconn, pscan, tryCnt, wdn, fw, owed, flags, call, calls >>

-----------------------------------------------------------------------------
(* core_conn_maintain_msg_thrd *)

MaintScan ==
    /\ pc = "maint" /\ HeadIs({"scan"})
    /\ pscan' = Head1
    /\ pend' = Q!Unlink(pend, Head1)
    /\ state' = "scan"
    /\ pc' = IF isUp THEN "mscan" ELSE "mscanend"
    /\ UNCHANGED << free, cur, pconn, tryCnt, ka, connect, wdn, fw, owed, flags, call, calls >>

MaintProbe ==
    /\ pc = "maint" /\ HeadIs({"keepalive"})
    /\ Del(Head1)
    /\ state' = "scan"
    /\ pc' = "mprobe"
    /\ UNCHANGED << thrd, connect, wdn, fw, owed, flags, call, calls >>

\* Fault: a DEASSOC is one of the unsuited messages.
MaintDeauthOnly ==
    /\ pc = "maint" /\ HeadIs(Disconnects)
    /\ Del(Head1)
    /\ IF Head1[1] = "deassoc"
       THEN UNCHANGED << state, pc >>
       ELSE state' = "deauth" /\ pc' = "deauth"
    /\ UNCHANGED << thrd, connect, wdn, fw, owed, flags, call, calls >>

MaintDeauth ==
    /\ pc = "maint" /\ HeadIs(Disconnects)
    /\ Del(Head1)
    /\ state' = "deauth"
    /\ pc' = "deauth"
    /\ UNCHANGED << thrd, connect, wdn, fw, owed, flags, call, calls >>

MaintDrop ==
    /\ pc = "maint" /\ HeadIs({"scan_abort", "scan_rsp", "conn"})
    /\ Del(Head1)
    /\ UNCHANGED << pc, thrd, public, flags, call, calls >>

\* A request to disconnect at the head stops a scan or a probe and stays queued.
MaintStop ==
    /\ pc \in {"mscan", "mprobe"} /\ HeadIs(Disconnects)
    /\ pc' = IF pc = "mscan" THEN "mscanstop" ELSE "mprobestop"
    /\ UNCHANGED << queue, thrd, public, flags, call, calls >>

\* core_conn_maintain_probe_thrd
ProbeStop ==
    /\ pc = "mprobe" /\ HeadIs({"scan_abort", "scan_rsp"})
    /\ Del(Head1)
    /\ pc' = "mprobestop"
    /\ UNCHANGED << thrd, public, flags, call, calls >>

ProbeEnd ==
    /\ pc \in {"mprobe", "mprobestop"}
    /\ state' = "idle"
    /\ pc' = "maint"
    /\ UNCHANGED << queue, thrd, connect, wdn, fw, owed, flags, call, calls >>

\* core_conn_maintain_keepalive_thrd: after a silent period a probe is asked
\* for, after a second one the connection is given up.
Keepalive ==
    /\ pc \in Maintaining /\ ~ka
    /\ Q!HasFree(free, TagOf("keepalive"))
    /\ LET m == Q!FirstFree(free, TagOf("keepalive"))
       IN  free' = Q!Unlink(free, m) /\ pend' = Q!Push(pend, m)
    /\ ka' = TRUE
    /\ UNCHANGED << pc, cur, pconn, pscan, tryCnt, public, flags, call, calls >>

KeepaliveLost ==
    /\ pc \in Maintaining /\ ka
    /\ IF isUp /\ Q!HasFree(free, TagOf("deauth"))
       THEN LET m == Q!FirstFree(free, TagOf("deauth"))
            IN  free' = Q!Unlink(free, m) /\ pend' = Q!Push(pend, m)
       ELSE UNCHANGED queue
    /\ ka' = FALSE
    /\ UNCHANGED << pc, cur, pconn, pscan, tryCnt, public, flags, call, calls >>

KeepaliveHeard ==
    /\ pc \in Maintaining /\ ka
    /\ ka' = FALSE
    /\ UNCHANGED << queue, pc, cur, pconn, pscan, tryCnt, public, flags, call, calls >>

-----------------------------------------------------------------------------
(* The end of a connection *)

\* core_conn_maintain_deauth_thrd
Deauth ==
    /\ pc = "deauth"
    /\ pc' = "break"
    /\ UNCHANGED << queue, thrd, public, flags, call, calls >>

\* Label conn_break: the framework is told, then the flag is reset.
Break ==
    /\ pc = "break"
    /\ fw' = "disc"
    /\ pc' = "unset"
    /\ UNCHANGED << queue, thrd, state, connect, wdn, owed, flags, call, calls >>

\* Fault: the connect flag is not reset.
UnsetMissing ==
    /\ pc = "unset"
    /\ pc' = "clear"
    /\ UNCHANGED << queue, thrd, public, flags, call, calls >>

Unset ==
    /\ pc = "unset"
    /\ connect' = FALSE
    /\ pc' = "clear"
    /\ UNCHANGED << queue, thrd, state, wdn, fw, owed, flags, call, calls >>

\* Fault: the wdn is not removed.
ClearupKeepsWdn ==
    /\ pc = "clear"
    /\ pc' = "tx"
    /\ UNCHANGED << queue, thrd, public, flags, call, calls >>

\* mlme_conn_clearup: the wdn goes, then the transmit queue runs empty.
Clearup ==
    /\ pc = "clear"
    /\ wdn' = FALSE
    /\ pc' = "tx"
    /\ UNCHANGED << queue, thrd, state, connect, fw, owed, flags, call, calls >>

\* Fault: pconn_msg is not reset.
ConnDelKeepsPointer ==
    /\ pc = "tx"
    /\ Del(pconn)
    /\ state' = "idle"
    /\ pc' = "idle"
    /\ UNCHANGED << thrd, connect, wdn, fw, owed, flags, call, calls >>

ConnDel ==
    /\ pc = "tx"
    /\ Del(pconn)
    /\ pconn' = None
    /\ state' = "idle"
    /\ pc' = "idle"
    /\ UNCHANGED << cur, pscan, tryCnt, ka, connect, wdn, fw, owed, flags, call, calls >>

MlmeThrd ==
    \/ CanRun \/ Reset \/ ThreadAbort \/ Pop
    \/ DispatchScan \/ DispatchConn \/ DispatchOther
    \/ ScanStop \/ ScanEnd \/ ScanDel
    \/ SearchMsg \/ SearchAgain \/ SearchFail \/ BuildWdn \/ BuildWdnFail
    \/ AuthMsg \/ AuthDone \/ AssocDone \/ ConnFail \/ Preconnect \/ Connected
    \/ MaintScan \/ MaintProbe \/ MaintDeauth \/ MaintDrop \/ MaintStop
    \/ ProbeStop \/ ProbeEnd
    \/ Deauth \/ Break \/ Unset \/ Clearup \/ ConnDel

KeepaliveThrd == Keepalive \/ KeepaliveLost \/ KeepaliveHeard

-----------------------------------------------------------------------------
(* The callers.  A message is got (wf_msg_new) and pushed in two steps. *)

\* wf_msg_new: go on with the push, or at "next" if there is no message.
New(c, kind, next) ==
    IF Q!HasFree(free, TagOf(kind))
    THEN LET m == Q!FirstFree(free, TagOf(kind))
         IN  /\ free' = Q!Unlink(free, m)
             /\ call' = [call EXCEPT ![c] = [at |-> "push", msg |-> m, then |-> next]]
    ELSE /\ call' = [call EXCEPT ![c] = [at |-> next, msg |-> None, then |-> "idle"]]
         /\ UNCHANGED free

GoTo(c, at) == call' = [call EXCEPT ![c].at = at]

Begin(c, op) ==
    /\ call[c].at = "idle" /\ op \in Ops[c]
    /\ calls < MaxCalls /\ calls' = calls + 1

Push(c) ==
    /\ call[c].at = "push"
    /\ pend' = Q!Push(pend, call[c].msg)
    /\ owed' = IF call[c].msg[1] = "scan" THEN owed \cup {call[c].msg} ELSE owed
    /\ call' = [call EXCEPT ![c] = [at |-> @.then, msg |-> None, then |-> "idle"]]
    /\ UNCHANGED << free, pc, thrd, state, connect, wdn, fw, flags, calls >>

\* wf_mlme_scan_start, wf_mlme_scan_abort, wf_mlme_conn_abort, wf_mlme_deauth,
\* wf_mlme_deassoc and, for a probe response, wf_mlme_conn_scan_rsp
Allowed(op) ==
    CASE op \in {"scan", "deauth", "deassoc"} -> isUp
      [] op = "scan_abort" -> pscan # None
      [] op = "conn_abort" -> pconn # None
      [] op = "scan_rsp" -> isUp /\ state = "conn_scan" /\ pc \in Searching
      [] OTHER -> FALSE

Request(c, op) ==
    /\ Begin(c, op)
    /\ Allowed(op)
    /\ New(c, op, "idle")
    /\ UNCHANGED << pend, pc, thrd, public, flags >>

\* wf_mlme_conn_start: abort the current connection, delete a connect request
\* that waits at the head of the queue, and push the new one.
ConnStart(c) ==
    /\ Begin(c, "conn") /\ isUp
    /\ GoTo(c, "cs_abort")
    /\ UNCHANGED << queue, pc, thrd, public, flags >>

ConnStartAbort(c) ==
    /\ call[c].at = "cs_abort"
    /\ IF pconn # None
       THEN New(c, "conn_abort", "cs_peek")
       ELSE GoTo(c, "cs_peek") /\ UNCHANGED free
    /\ UNCHANGED << pend, pc, thrd, public, flags, calls >>

ConnStartPeek(c) ==
    /\ call[c].at = "cs_peek"
    /\ call' = IF HeadIs({"conn"})
               THEN [call EXCEPT ![c] = [at |-> "cs_del", msg |-> Head1, then |-> "idle"]]
               ELSE [call EXCEPT ![c].at = "cs_new"]
    /\ UNCHANGED << queue, pc, thrd, public, flags, calls >>

ConnStartDel(c) ==
    /\ call[c].at = "cs_del"
    /\ Del(call[c].msg)
    /\ call' = [call EXCEPT ![c] = [at |-> "cs_new", msg |-> None, then |-> "idle"]]
    /\ UNCHANGED << pc, thrd, public, flags, calls >>

ConnStartNew(c) ==
    /\ call[c].at = "cs_new"
    /\ New(c, "conn", "idle")
    /\ UNCHANGED << pend, pc, thrd, public, flags, calls >>

\* nic_disable: wf_mlme_abort, then the interface is down.
Disable(c) ==
    /\ Begin(c, "disable") /\ isUp
    /\ GoTo(c, "ab_conn")
    /\ UNCHANGED << queue, pc, thrd, public, flags >>

AbortConn(c) ==
    /\ call[c].at = "ab_conn"
    /\ IF pconn # None
       THEN New(c, "conn_abort", "ab_scan")
       ELSE GoTo(c, "ab_scan") /\ UNCHANGED free
    /\ UNCHANGED << pend, pc, thrd, public, flags, calls >>

AbortScan(c) ==
    /\ call[c].at = "ab_scan"
    /\ IF pscan # None
       THEN New(c, "scan_abort", "ab_flag")
       ELSE GoTo(c, "ab_flag") /\ UNCHANGED free
    /\ UNCHANGED << pend, pc, thrd, public, flags, calls >>

AbortFlag(c) ==
    /\ call[c].at = "ab_flag"
    /\ babort' = TRUE
    /\ GoTo(c, "ab_wait")
    /\ UNCHANGED << queue, pc, thrd, public, finished, isUp, calls >>

AbortWait(c) ==
    /\ call[c].at = "ab_wait" /\ finished
    /\ GoTo(c, "ab_down")
    /\ UNCHANGED << queue, pc, thrd, public, flags, calls >>

Down(c) ==
    /\ call[c].at = "ab_down"
    /\ isUp' = FALSE
    /\ GoTo(c, "idle")
    /\ UNCHANGED << queue, pc, thrd, public, babort, finished, calls >>

\* nic_enable
Enable(c) ==
    /\ Begin(c, "enable") /\ ~isUp
    /\ isUp' = TRUE
    /\ UNCHANGED << queue, pc, thrd, public, babort, finished, call >>

CallStep(c) ==
    \/ Push(c)
    \/ ConnStartAbort(c) \/ ConnStartPeek(c) \/ ConnStartDel(c) \/ ConnStartNew(c)
    \/ AbortConn(c) \/ AbortScan(c) \/ AbortFlag(c) \/ AbortWait(c) \/ Down(c)

Next ==
    \/ MlmeThrd \/ KeepaliveThrd
    \/ \E c \in Caller :
        \/ CallStep(c)
        \/ \E op \in Op : Request(c, op)
        \/ ConnStart(c) \/ Disable(c) \/ Enable(c)

Spec == Init /\ [][Next]_vars

\* The MLME thread runs, and a caller finishes the call it has begun.
Fairness ==
    /\ WF_vars(MlmeThrd)
    /\ \A c \in Caller : WF_vars(CallStep(c))

FairSpec == Spec /\ Fairness

-----------------------------------------------------------------------------
Holders(m) ==
    (IF Q!Contains(pend, m) THEN 1 ELSE 0) + (IF Q!Contains(free, m) THEN 1 ELSE 0)
  + (IF m \in {cur, pconn, pscan} THEN 1 ELSE 0)
  + (IF \E c \in Caller : call[c].msg = m /\ call[c].at = "push" THEN 1 ELSE 0)

(* Through every path of a connection or a scan, with calls at any moment,   *)
(* no message is lost, and none but a connect request is ever in two places  *)
(* (for connect requests see ConnRequestKept); and all variables have their  *)
(* types, the number of searches included.                                   *)
MessagesAccounted ==
    /\ TypeOK
    /\ \A m \in Msg : Holders(m) >= 1 /\ (m[1] # "conn" => Holders(m) = 1)

(* Whatever path led back to the top of the MLME thread, nothing of the      *)
(* connection or the scan is left: no wdn, no request, no connect flag, and  *)
(* the framework knows that there is no connection.                          *)
IdleIsClean ==
    pc \in {"idle", "out", "reset", "popped"} =>
        /\ ~connect /\ fw = "disc" /\ ~wdn
        /\ pconn = None /\ pscan = None
        /\ state = "idle"

(* While other threads read the connect flag as set, the connection has its  *)
(* wdn and its request, no connection is being built, and the framework was  *)
(* told of it (up to the moment it is told of the end).                      *)
ConnectFlagIsTrue ==
    connect => /\ wdn /\ pconn # None
               /\ pc \in {"break", "unset"} \cup Maintaining
               /\ pc # "unset" => fw = "conn"

(* A request to disconnect that waits in the queue of a connected station    *)
(* disconnects it, also when the station scans or probes and only looks at   *)
(* the head of the queue.                                                    *)
DisconnectHappens ==
    (connect /\ \E m \in Msg : m[1] \in Disconnects /\ Q!Contains(pend, m)) ~> ~connect

(* Once a connection is being authenticated or associated, an abort that is  *)
(* queued ends it: the station does not go on as connected for ever.         *)
AbortEndsAttempt ==
    (pc \in {"auth", "assoc"} /\ \E m \in Msg : m[1] = "conn_abort" /\ Q!Contains(pend, m))
        ~> (pc = "idle")

(* As long as the interface is up: once the MLME thread has taken up a scan, *)
(* in whatever state and however the scan ends (by itself, stopped, or given *)
(* up for a disconnection), its request is deleted only after the framework  *)
(* was told that it is done.                                                 *)
ScanIsReported == [][isUp /\ pscan # None /\ pscan' # pscan => pscan \notin owed]_vars

(* wf_mlme_abort waits for ever only if the MLME thread wiped out its flag   *)
(* (at its start) or became connected without having seen the abort.         *)
AbortHeard(c) ==
    (call[c].at = "ab_wait") ~> (call[c].at # "ab_wait" \/ ~babort \/ connect)
AbortIsHeard == \A c \in Caller : AbortHeard(c)

(* The connect request the MLME thread works on is its own: it is neither    *)
(* free for another caller nor waiting in the queue.                         *)
ConnRequestKept ==
    pconn # None => ~Q!Contains(free, pconn) /\ ~Q!Contains(pend, pconn)
=============================================================================
