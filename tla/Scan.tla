-------------------------------- MODULE Scan --------------------------------
(***************************************************************************)
(* The scan component (nic/scan.c) of one network interface.               *)
(*                                                                         *)
(* The MLME thread starts a scan and runs the protothread wf_scan_thrd;    *)
(* other threads may ask it to stop (wf_scan_stop) at any time, and the    *)
(* receive thread matches beacons and probe responses against the running  *)
(* request (wf_scan_filter).  The hardware lock is shared with the other   *)
(* interface of the same chip.  Time is not counted: a wait may end by its *)
(* timeout at any moment.                                                  *)
(***************************************************************************)
EXTENDS Integers, Sequences

CONSTANTS
    Stopper,        \* the threads that call wf_scan_stop
    MaxCh,          \* bound: the largest number of channels of a request
    ProbeTimes,     \* SCAN_PROBE_RESEND_TIMES
    PauseEvery,     \* channels between two pauses for the access point (5)
    BuddyAp,        \* whether the other interface is an established AP
    HwMayFail,      \* whether commands to the chip may fail
    MaxScans,       \* bound: the number of scans started
    MaxOther        \* bound: how often the other interface takes the hardware

ASSUME ScanAssumption ==
    /\ MaxCh \in Nat \ {0} /\ ProbeTimes \in Nat /\ PauseEvery \in Nat \ {0}
    /\ MaxScans \in Nat /\ MaxOther \in Nat
    /\ BuddyAp \in BOOLEAN /\ HwMayFail \in BOOLEAN

None == "none"
Home == 0           \* the channel in use before the first scan

(* scan_msg_init: one ABORT and one START message *)
ScanMsg == {"abort", "start"}
ScanTag ==
    [m \in ScanMsg |-> [dom |-> 0, pri |-> IF m = "abort" THEN 0 ELSE 1, id |-> 0]]

\* The queue, with what is proved about its operations
Q == INSTANCE WfMsgLemmas WITH Msg <- ScanMsg, Tag <- ScanTag

VARIABLES
    pend, free,     \* the message queue
    pc,             \* where wf_scan_thrd resumes ("idle": it is not running)
    brun, preq,     \* fields of wf_scan_info_t; preq is the message it lies in
    kind,           \* "passive", "active", or "bssid" (active, one bssid)
    chNum, chIdx, retryCnt,
    reason,         \* the C local of that name
    verdict,        \* what the scan decided, whatever becomes of "reason"
    left,           \* the settings a failed command of the scan left in the chip
    strayed,        \* has the command that sets the channel back ever failed
    result,         \* what the caller reads in *prsn
    scans,          \* the number of scans started
    taken,          \* how often the other interface took the hardware lock
    hwLock,         \* owner of mlme_hw_access_lock
    reqLock,        \* owner of the semaphore req_lock
    txOpen, txBusy, \* is the framework allowed to send; is a frame queued
    connected, ars, \* is the interface associated; is rate control running
    filter, media, chan,    \* the chip: bssid filter, media status, channel
    bak,            \* chnl_bak: the channel read from the chip by scan_setting
    stop,           \* where each stopper is in wf_scan_stop
    rx              \* where the receive thread is in wf_scan_filter

queue == << pend, free >>
work == << brun, preq, kind, chNum, chIdx, retryCnt, bak >>
chip == << filter, media, chan >>
tx == << txOpen, txBusy, connected, ars >>
verdicts == << reason, verdict, result >>
others == << stop, rx, taken >>
history == << scans, left, strayed >>
vars == << queue, work, chip, tx, verdicts, others, history, pc, hwLock, reqLock >>

PC == {"idle", "lock", "getmsg", "drain", "chan", "probe", "wait", "chanend",
       "pause", "resume", "done", "exit", "free"}
Reason == {"done", "abort", "fail"}

TypeOK ==
    /\ pend \in Seq(ScanMsg) /\ free \in Seq(ScanMsg)
    /\ pc \in PC
    /\ brun \in BOOLEAN /\ preq \in {None, "start"}
    /\ kind \in {"passive", "active", "bssid"}
    /\ chNum \in 0 .. MaxCh /\ chIdx \in 0 .. MaxCh /\ retryCnt \in 0 .. ProbeTimes
    /\ reason \in Reason /\ verdict \in Reason
    /\ left \subseteq {"media", "filter"} /\ strayed \in BOOLEAN
    /\ result \in Reason \cup {None, "nomsg"}
    /\ scans \in 0 .. MaxScans /\ taken \in 0 .. MaxOther
    /\ hwLock \in {None, "scan", "other"} /\ reqLock \in {None, "rx"}
    /\ txOpen \in BOOLEAN /\ txBusy \in BOOLEAN
    /\ connected \in BOOLEAN /\ ars \in BOOLEAN
    /\ filter \in BOOLEAN /\ media \in {"station", "null"} /\ {chan, bak} \subseteq 0 .. MaxCh
    /\ stop \in [Stopper -> {"idle", "new", "push"}]
    /\ rx \in {"idle", "try", "use", "oops"}

(* wf_scan_init *)
Init ==
    /\ pend = << >> /\ free = << "abort", "start" >>
    /\ pc = "idle" /\ brun = FALSE /\ preq = None
    /\ kind = "passive" /\ chNum = 0 /\ chIdx = 0 /\ retryCnt = 0
    /\ reason = "done" /\ verdict = "done" /\ result = None /\ left = {} /\ strayed = FALSE
    /\ scans = 0 /\ taken = 0
    /\ hwLock = None /\ reqLock = None
    /\ txOpen = TRUE /\ txBusy = FALSE
    /\ connected \in BOOLEAN /\ ars = connected
    /\ filter = TRUE /\ media = "station" /\ chan = Home /\ bak = Home
    /\ stop = [s \in Stopper |-> "idle"] /\ rx = "idle"

-----------------------------------------------------------------------------
(* wf_scan_thrd, one action for each stretch between two points where another *)
(* thread can make a difference.                                              *)

\* Leave by "goto exit" (failures) or "goto done".
Leave(label, why) == pc' = label /\ reason' = why /\ verdict' = why /\ UNCHANGED result

(* wf_scan_start, called by the MLME thread before it runs the protothread *)
Start ==
    /\ pc = "idle"
    /\ scans < MaxScans
    /\ Q!HasFree(free, ScanTag["start"])
    /\ free' = Q!Unlink(free, "start")
    /\ pend' = Q!Push(pend, "start")
    /\ kind' \in {"passive", "active", "bssid"}
    /\ chNum' \in 1 .. MaxCh
    /\ scans' = scans + 1
    /\ pc' = "lock"
    /\ UNCHANGED << brun, preq, chIdx, retryCnt, bak, chip, tx, verdicts, others, left, strayed,
                    hwLock, reqLock >>

\* Fault: the lock is taken without a test whether it is free.
TakeHwLockUntested ==
    /\ pc = "lock"
    /\ hwLock' = "scan"
    /\ pc' = "getmsg"
    /\ UNCHANGED << queue, work, chip, tx, verdicts, others, history, reqLock >>

TakeHwLock ==
    /\ pc = "lock"
    /\ hwLock = None
    /\ hwLock' = "scan"
    /\ pc' = "getmsg"
    /\ UNCHANGED << queue, work, chip, tx, verdicts, others, history, reqLock >>

\* The START message becomes the request; an older message is thrown away; with
\* no message at all the hardware is released again.
GetMsg ==
    /\ pc = "getmsg"
    /\ IF pend = << >>
       THEN /\ hwLock' = None /\ result' = "nomsg" /\ pc' = "idle"
            /\ UNCHANGED << queue, preq, ars, txOpen >>
       ELSE LET m == Q!EndOf(pend, FALSE)
            IN  /\ pend' = Q!Unlink(pend, m)
                /\ IF m = "start"
                   THEN /\ preq' = m
                        /\ ars' = FALSE
                        /\ txOpen' = FALSE
                        /\ pc' = "drain"
                        /\ UNCHANGED free
                   ELSE /\ free' = Q!Del(free, m)
                        /\ UNCHANGED << preq, ars, txOpen, pc >>
                /\ UNCHANGED << hwLock, result >>
    /\ UNCHANGED << brun, kind, chNum, chIdx, retryCnt, bak, chip, txBusy, connected, reason,
                    verdict, others, history, reqLock >>

\* While frames are queued: a stop request (which wins), or the timeout of 1 s.
DrainAbort ==
    /\ pc = "drain" /\ txBusy
    /\ pend # << >>
    /\ LET m == Q!EndOf(pend, FALSE)
       IN  pend' = Q!Unlink(pend, m) /\ free' = Q!Del(free, m)
    /\ Leave("exit", "fail")
    /\ UNCHANGED << work, chip, tx, others, history, hwLock, reqLock >>

DrainTimeout ==
    /\ pc = "drain" /\ txBusy
    /\ pend = << >>
    /\ Leave("exit", "fail")
    /\ UNCHANGED << queue, work, chip, tx, others, history, hwLock, reqLock >>

\* scan_setting and the start of the channel loop
Setting ==
    /\ pc = "drain" /\ ~txBusy
    /\ media' = IF kind = "passive" THEN "null" ELSE media
    /\ filter' = (kind = "bssid" /\ filter)
    /\ bak' = chan
    /\ brun' = TRUE
    /\ chIdx' = 0
    /\ pc' = "chan"
    /\ UNCHANGED << queue, preq, kind, chNum, retryCnt, chan, tx, verdicts, others, history,
                    hwLock, reqLock >>

\* The commands of scan_setting; the last one reads the channel to come back to.
SettingCommands ==
    CASE kind = "passive" -> {"media", "filter", "chan"}
      [] kind = "active"  -> {"filter", "chan"}
      [] kind = "bssid"   -> {"bssid", "chan"}

\* One of them fails: what was set before it stays set, for brun is not set yet
\* and nothing will be recovered.
SettingFail ==
    /\ pc = "drain" /\ ~txBusy
    /\ HwMayFail
    /\ \E failed \in SettingCommands :
        LET done == (IF kind = "passive" /\ failed # "media" THEN {"media"} ELSE {})
                        \cup (IF kind # "bssid" /\ failed = "chan" THEN {"filter"} ELSE {})
        IN  /\ media' = IF "media" \in done THEN "null" ELSE media
            /\ filter' = (filter /\ "filter" \notin done)
            /\ left' = left \cup done
    /\ Leave("exit", "fail")
    /\ UNCHANGED << queue, work, chan, tx, others, scans, strayed, hwLock, reqLock >>

SetChannel ==
    /\ pc = "chan" /\ chIdx < chNum
    /\ chan' = chIdx + 1
    /\ retryCnt' = 0
    /\ pc' = IF kind = "passive" THEN "wait" ELSE "probe"
    /\ UNCHANGED << queue, brun, preq, kind, chNum, chIdx, bak, filter, media, tx, verdicts,
                    others, history, hwLock, reqLock >>

\* Fault: the failure skips what the label "exit" undoes.
ChannelFailSkipsExit ==
    /\ HwMayFail
    /\ \/ pc = "chan" /\ chIdx < chNum
       \/ pc = "probe" /\ retryCnt < ProbeTimes
    /\ Leave("free", "fail")
    /\ UNCHANGED << queue, work, chip, tx, others, history, hwLock, reqLock >>

\* Setting the channel (-5) or sending the probe request (-6) fails.
ChannelFail ==
    /\ HwMayFail
    /\ \/ pc = "chan" /\ chIdx < chNum
       \/ pc = "probe" /\ retryCnt < ProbeTimes
    /\ Leave("exit", "fail")
    /\ UNCHANGED << queue, work, chip, tx, others, history, hwLock, reqLock >>

AllChannels ==
    /\ pc = "chan" /\ chIdx = chNum
    /\ Leave("done", "done")
    /\ UNCHANGED << queue, work, chip, tx, others, history, hwLock, reqLock >>

Probe ==
    /\ pc = "probe"
    /\ pc' = IF retryCnt < ProbeTimes THEN "wait" ELSE "chanend"
    /\ UNCHANGED << queue, work, chip, tx, verdicts, others, history, hwLock, reqLock >>

\* Fault: the message is not deleted.
WaitAbortNoDel ==
    /\ pc \in {"wait", "pause"}
    /\ pend # << >>
    /\ LET m == Q!EndOf(pend, FALSE)
       IN  /\ pend' = Q!Unlink(pend, m)
           /\ IF m = "abort"
              THEN Leave("done", "abort")
              ELSE UNCHANGED << pc, verdicts >>
    /\ UNCHANGED << free, work, chip, tx, others, history, hwLock, reqLock >>

\* The waits of a channel and of the pause for the access point
WaitAbort ==
    /\ pc \in {"wait", "pause"}
    /\ pend # << >>
    /\ LET m == Q!EndOf(pend, FALSE)
       IN  /\ pend' = Q!Unlink(pend, m)
           /\ free' = Q!Del(free, m)
           /\ IF m = "abort"
              THEN Leave("done", "abort")
              ELSE UNCHANGED << pc, verdicts >>
    /\ UNCHANGED << work, chip, tx, others, history, hwLock, reqLock >>

WaitTimeout ==
    /\ pc = "wait"
    /\ pend = << >>
    /\ IF kind = "passive"
       THEN pc' = "chanend" /\ UNCHANGED retryCnt
       ELSE pc' = "probe" /\ retryCnt' = retryCnt + 1
    /\ UNCHANGED << queue, brun, preq, kind, chNum, chIdx, bak, chip, tx, verdicts, others,
                    history, hwLock, reqLock >>

Pausing == BuddyAp /\ (chIdx + 1) % PauseEvery = 0

NextChannel ==
    /\ pc = "chanend" /\ ~Pausing
    /\ chIdx' = chIdx + 1
    /\ pc' = "chan"
    /\ UNCHANGED << queue, brun, preq, kind, chNum, retryCnt, bak, chip, tx, verdicts, others,
                    history, hwLock, reqLock >>

\* Back to the saved channel for the access point, with the filter on unless
\* that command fails, which is ignored; if the beacon cannot be resumed there
\* is no wait.
Pause ==
    /\ pc = "chanend" /\ Pausing
    /\ chan' = bak
    /\ filter' \in {TRUE} \cup (IF HwMayFail THEN {filter} ELSE {})
    /\ pc' \in {"pause"} \cup (IF HwMayFail THEN {"resume"} ELSE {})
    /\ UNCHANGED << queue, work, media, tx, verdicts, others, history, hwLock, reqLock >>

PauseTimeout ==
    /\ pc = "pause"
    /\ pend = << >>
    /\ pc' = "resume"
    /\ UNCHANGED << queue, work, chip, tx, verdicts, others, history, hwLock, reqLock >>

\* Fault: after the pause the same channel is scanned again.
ResumeSameChannel ==
    /\ pc = "resume"
    /\ filter' = FALSE
    /\ pc' = "chan"
    /\ UNCHANGED << queue, work, media, chan, tx, verdicts, others, history, hwLock, reqLock >>

Resume ==
    /\ pc = "resume"
    /\ filter' = FALSE
    /\ chIdx' = chIdx + 1
    /\ pc' = "chan"
    /\ UNCHANGED << queue, brun, preq, kind, chNum, retryCnt, bak, media, chan, tx, verdicts,
                    others, history, hwLock, reqLock >>

PauseFail ==
    /\ HwMayFail
    /\ \/ pc = "chanend" /\ Pausing
       \/ pc = "resume"
    /\ Leave("exit", "fail")
    /\ UNCHANGED << queue, work, chip, tx, others, history, hwLock, reqLock >>

\* wf_wlan_mgmt_scan_que_refresh reads the channels of the request.
Done ==
    /\ pc = "done"
    /\ pc' = "exit"
    /\ UNCHANGED << queue, work, chip, tx, verdicts, others, history, hwLock, reqLock >>

\* The commands of scan_setting_recover that fail, if it is called at all
RecoverFailures ==
    IF brun /\ HwMayFail THEN SUBSET {"media", "chan", "filter"} ELSE { {} }

\* Fault: the bssid filter is not switched on again.
RecoverKeepsFilterOff(failed) ==
    /\ media' = IF "media" \in failed THEN media ELSE "station"
    /\ chan' = IF "chan" \in failed THEN chan ELSE bak
    /\ UNCHANGED filter

\* The commands: the media status, the channel, and the bssid filter, which is
\* not even tried once the channel has failed.
RecoverSettings(failed) ==
    /\ media' = IF "media" \in failed THEN media ELSE "station"
    /\ chan' = IF "chan" \in failed THEN chan ELSE bak
    /\ filter' = (filter \/ failed \cap {"chan", "filter"} = {})

\* The settings that are not as they were before the scan
Changed ==
    (IF media = "null" THEN {"media"} ELSE {}) \cup (IF filter THEN {} ELSE {"filter"})

\* The label "exit": recover the settings, then brun, rate control and the
\* transmit path.
Exit ==
    /\ pc = "exit"
    /\ \E failed \in RecoverFailures :
        IF brun
        THEN /\ RecoverSettings(failed)
             /\ left' = Changed
                    \cap (failed \cup (IF "chan" \in failed THEN {"filter"} ELSE {}))
             /\ strayed' = (strayed \/ ("chan" \in failed /\ chan # bak))
        ELSE UNCHANGED << chip, left, strayed >>
    /\ brun' = FALSE
    /\ ars' = (ars \/ connected)
    /\ txOpen' = TRUE
    /\ pc' = "free"
    /\ UNCHANGED << queue, preq, kind, chNum, chIdx, retryCnt, bak, txBusy, connected,
                    verdicts, others, scans, hwLock, reqLock >>

\* Fault: the request is freed without req_lock.
FreeUnlocked ==
    /\ pc = "free"
    /\ free' = Q!Del(free, preq)
    /\ preq' = None
    /\ hwLock' = None
    /\ result' = reason
    /\ pc' = "idle"
    /\ UNCHANGED << pend, brun, kind, chNum, chIdx, retryCnt, bak, chip, tx, reason, verdict,
                    others, history, reqLock >>

\* The request is freed under req_lock, the hardware released, and the result
\* stored.
Free ==
    /\ pc = "free"
    /\ reqLock = None
    /\ free' = Q!Del(free, preq)
    /\ preq' = None
    /\ hwLock' = None
    /\ result' = reason
    /\ pc' = "idle"
    /\ UNCHANGED << pend, brun, kind, chNum, chIdx, retryCnt, bak, chip, tx, reason, verdict,
                    others, history, reqLock >>

\* The semaphore is taken: the protothread returns, and when it is scheduled
\* again its locals start from their initial values.
FreeBlocked ==
    /\ pc = "free"
    /\ reqLock # None
    /\ reason' = "done"
    /\ UNCHANGED << queue, work, chip, tx, verdict, result, others, pc, history, hwLock, reqLock >>

ScanThrd ==
    \/ TakeHwLock \/ GetMsg
    \/ DrainAbort \/ DrainTimeout \/ Setting \/ SettingFail
    \/ SetChannel \/ ChannelFail \/ AllChannels \/ Probe \/ WaitAbort \/ WaitTimeout
    \/ NextChannel \/ Pause \/ PauseTimeout \/ Resume \/ PauseFail
    \/ Done \/ Exit \/ Free \/ FreeBlocked

-----------------------------------------------------------------------------
(* wf_scan_stop: test brun, get the ABORT message, push it. *)

StopTest(s) ==
    /\ stop[s] = "idle" /\ brun
    /\ stop' = [stop EXCEPT ![s] = "new"]
    /\ UNCHANGED << queue, work, chip, tx, verdicts, rx, taken, pc, history, hwLock, reqLock >>

StopNew(s) ==
    /\ stop[s] = "new"
    /\ IF Q!HasFree(free, ScanTag["abort"])
       THEN free' = Q!Unlink(free, "abort") /\ stop' = [stop EXCEPT ![s] = "push"]
       ELSE UNCHANGED free /\ stop' = [stop EXCEPT ![s] = "idle"]
    /\ UNCHANGED << pend, work, chip, tx, verdicts, rx, taken, pc, history, hwLock, reqLock >>

StopPush(s) ==
    /\ stop[s] = "push"
    /\ pend' = Q!Push(pend, "abort")
    /\ stop' = [stop EXCEPT ![s] = "idle"]
    /\ UNCHANGED << free, work, chip, tx, verdicts, rx, taken, pc, history, hwLock, reqLock >>

(* wf_scan_filter: test brun, try req_lock, match the frame with the request. *)

RxTest ==
    /\ rx = "idle" /\ brun
    /\ rx' = "try"
    /\ UNCHANGED << queue, work, chip, tx, verdicts, stop, taken, pc, history, hwLock, reqLock >>

RxTry ==
    /\ rx = "try"
    /\ IF reqLock = None
       THEN reqLock' = "rx" /\ rx' = "use"
       ELSE UNCHANGED reqLock /\ rx' = "idle"
    /\ UNCHANGED << queue, work, chip, tx, verdicts, stop, taken, pc, history, hwLock >>

\* Reading through preq faults when there is no request any more.
RxUse ==
    /\ rx = "use"
    /\ IF preq # None
       THEN reqLock' = None /\ rx' = "idle"
       ELSE UNCHANGED reqLock /\ rx' = "oops"
    /\ UNCHANGED << queue, work, chip, tx, verdicts, stop, taken, pc, history, hwLock >>

(* The other interface and the transmit path *)

OtherLock ==
    /\ hwLock = None /\ hwLock' = "other"
    /\ taken < MaxOther /\ taken' = taken + 1
    /\ UNCHANGED << queue, work, chip, tx, verdicts, stop, rx, pc, history, reqLock >>

OtherUnlock ==
    /\ hwLock = "other" /\ hwLock' = None
    /\ UNCHANGED << queue, work, chip, tx, verdicts, others, pc, history, reqLock >>

TxQueue ==
    /\ txOpen /\ ~txBusy /\ txBusy' = TRUE
    /\ UNCHANGED << queue, work, chip, txOpen, connected, ars, verdicts, others, pc, history,
                    hwLock, reqLock >>

TxSent ==
    /\ txBusy /\ txBusy' = FALSE
    /\ UNCHANGED << queue, work, chip, txOpen, connected, ars, verdicts, others, pc, history,
                    hwLock, reqLock >>

Next ==
    \/ Start
    \/ ScanThrd
    \/ \E s \in Stopper : StopTest(s) \/ StopNew(s) \/ StopPush(s)
    \/ RxTest \/ RxTry \/ RxUse
    \/ OtherLock \/ OtherUnlock \/ TxQueue \/ TxSent

Spec == Init /\ [][Next]_vars

\* The MLME thread schedules the protothread again and again, the receive
\* thread finishes a frame, and the other interface releases the hardware lock.
Fairness ==
    /\ WF_vars(ScanThrd)
    /\ WF_vars(RxTry \/ RxUse)
    /\ WF_vars(OtherUnlock)

FairSpec == Spec /\ Fairness

-----------------------------------------------------------------------------
(* Whatever ends a scan (all channels done, a stop, a timeout, a failed      *)
(* command), once wf_scan_thrd has returned, the START message is free for   *)
(* the next scan, the hardware lock is released, the transmit path is open   *)
(* again and rate control runs if the interface is connected.                *)
CleanEnd ==
    pc = "idle" =>
        /\ preq = None /\ ~brun
        /\ Q!Contains(free, "start")
        /\ hwLock # "scan"
        /\ txOpen
        /\ ars = connected

(* The two messages are never lost nor used twice, with any number of        *)
(* threads stopping the scan at any moment; and all variables have their     *)
(* types, the channel index and the number of probe requests included.       *)
MessagesAccounted ==
    /\ TypeOK
    /\ \A m \in ScanMsg :
        1 = (IF Q!Contains(pend, m) THEN 1 ELSE 0)
          + (IF Q!Contains(free, m) THEN 1 ELSE 0)
          + (IF preq = m THEN 1 ELSE 0)
          + (IF m = "abort" /\ \E s \in Stopper : stop[s] = "push" THEN 1 ELSE 0)

(* Once a scan has given back the hardware lock nothing of it is left in the *)
(* chip: the bssid filter is on, the media status is station, the radio is   *)
(* on the home channel, however the scan ended.  A setting is excused only   *)
(* when the very command that should have set it back failed, or when        *)
(* scan_setting made it and failed later, so that nothing is set back: the   *)
(* filter or the media status until the next scan that recovers it, the      *)
(* channel for good, because the next scan takes the wrong one for home.     *)
ChipScansUnderLock ==
    hwLock # "scan" =>
        /\ filter \/ "filter" \in left
        /\ media = "station" \/ "media" \in left
        /\ chan = Home \/ strayed

(* While the receive thread holds req_lock the request it looks at is not    *)
(* freed under it.                                                           *)
RequestKeptUnderLock == [][reqLock = "rx" /\ preq # None => preq' = preq]_vars

(* A scan that was started ends, unless the receive thread faulted.          *)
ScanEnds == (pc # "idle") ~> (pc = "idle" \/ rx = "oops")

(* The result stored for the caller is what the scan decided: a stopped or   *)
(* failed scan is not reported as done.                                      *)
ResultIsVerdict == (pc = "idle" /\ result \in Reason) => result = verdict

-----------------------------------------------------------------------------
(* A scan is a procedure (module Procedure): however it is stopped, fails or *)
(* is held up by the receive thread, it uses the chip only between taking    *)
(* and releasing the hardware lock, never takes it from the other interface, *)
(* and returns once, with an outcome, in the step that releases it.          *)
Phase == CASE pc = "idle" -> "idle" [] pc = "lock" -> "waiting" [] OTHER -> "working"

P == INSTANCE Procedure WITH
    Me <- "scan", phase <- Phase, hardware <- hwLock,
    told <- IF pc = "idle" THEN result ELSE None

ImplementsProcedure == P!Spec
=============================================================================
