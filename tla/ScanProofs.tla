----------------------------- MODULE ScanProofs -----------------------------
(***************************************************************************)
(* Proofs about the scan component, for any number of stopping threads, of *)
(* channels, probes and scans.  The inductive invariant Inv relates the    *)
(* place of the two messages, the point where the protothread is, its      *)
(* counters, the locks and the settings of the chip.                       *)
(***************************************************************************)
EXTENDS Scan, TLAPS

-----------------------------------------------------------------------------
\* Each message is in one list, is the running request, or is in the hands of
\* one stopping thread.
Pushing == \E s \in Stopper : stop[s] = "push"

OnePlace(m) ==
    /\ Q!Contains(pend, m) => ~Q!Contains(free, m)
    /\ Q!Contains(pend, m) \/ Q!Contains(free, m) => preq # m
    /\ (Q!Contains(pend, m) \/ Q!Contains(free, m)) /\ m = "abort" => ~Pushing
    /\ \/ Q!Contains(pend, m) \/ Q!Contains(free, m) \/ preq = m
       \/ m = "abort" /\ Pushing

Places ==
    /\ Q!LinkedOnce(pend) /\ Q!LinkedOnce(free)
    /\ \A m \in ScanMsg : OnePlace(m)
    /\ \A s, t \in Stopper : stop[s] = "push" /\ stop[t] = "push" => s = t

\* The points of wf_scan_thrd before the request is taken, and in a channel
Before == {"idle", "lock", "getmsg"}
InChannel == {"probe", "wait", "chanend", "pause", "resume"}

Control ==
    /\ preq = "start" <=> pc \notin Before
    /\ hwLock = "scan" <=> pc \notin {"idle", "lock"}
    /\ pc \in {"lock", "getmsg"} => Q!Contains(pend, "start")
    /\ pc = "idle" => Q!Contains(free, "start")
    /\ brun => pc \in {"chan", "done", "exit"} \cup InChannel
    /\ pc \in {"chan", "done"} \cup InChannel => brun
    /\ ars => connected
    /\ pc \in Before \cup {"free"} => txOpen /\ (connected => ars)

Counters ==
    /\ pc = "chan" => chIdx <= chNum
    /\ pc \in InChannel => chIdx < chNum
    /\ pc = "wait" /\ kind # "passive" => retryCnt < ProbeTimes

\* What is set in the chip while no scan has taken it over, and the channel a
\* running scan goes back to
ChipHome ==
    /\ ~brun => /\ filter \/ "filter" \in left
                /\ media = "station" \/ "media" \in left
                /\ chan = Home \/ strayed
    /\ brun => strayed \/ bak = Home

Inv == TypeOK /\ Places /\ Control /\ Counters /\ ChipHome

-----------------------------------------------------------------------------
(* The two messages and their tags: the tag tells one from the other.        *)
LEMMA TagType == ScanTag \in [ScanMsg -> Q!Tags]
BY DEF ScanTag, ScanMsg, Q!Tags

(* The tag tells ABORT from START, and there are no other messages.          *)
LEMMA TagFacts ==
    /\ \A m \in ScanMsg : ScanTag[m] = ScanTag["abort"] => m = "abort"
    /\ \A m \in ScanMsg : ScanTag[m] = ScanTag["start"] => m = "start"
    /\ "abort" \in ScanMsg /\ "start" \in ScanMsg
    /\ \A m \in ScanMsg : m = "abort" \/ m = "start"
    /\ None \notin ScanMsg /\ "abort" # "start"
BY DEF ScanTag, ScanMsg, None

(* wf_scan_init establishes the inductive invariant.                         *)
LEMMA InitInv == Init => Inv
<1> SUFFICES ASSUME Init PROVE Inv
  OBVIOUS
<1> USE ScanAssumption DEF Init
<1>1. /\ pend \in Seq(ScanMsg) /\ Len(pend) = 0
      /\ free \in Seq(ScanMsg) /\ Len(free) = 2 /\ free[1] = "abort" /\ free[2] = "start"
  BY DEF ScanMsg
<1>2. ars = connected /\ ars \in BOOLEAN /\ connected \in BOOLEAN
  BY Zenon
<1>3. TypeOK
  <2>1. /\ stop \in [Stopper -> {"idle", "new", "push"}]
        /\ {chan, bak} \subseteq 0 .. MaxCh
        /\ scans \in 0 .. MaxScans /\ taken \in 0 .. MaxOther
        /\ chNum \in 0 .. MaxCh /\ chIdx \in 0 .. MaxCh /\ retryCnt \in 0 .. ProbeTimes
    BY DEF Home
  <2>2. QED
    BY <1>1, <1>2, <2>1 DEF TypeOK, PC, Reason
<1>4. Places
  <2>1. Q!LinkedOnce(pend) /\ Q!LinkedOnce(free)
    BY <1>1 DEF Q!LinkedOnce
  <2>2. \A m \in ScanMsg : ~Q!Contains(pend, m) /\ Q!Contains(free, m)
    BY <1>1 DEF Q!Contains, ScanMsg
  <2>3. ~Pushing
    BY DEF Pushing
  <2>4. \A m \in ScanMsg : preq # m
    BY TagFacts
  <2>5. QED
    BY <2>1, <2>2, <2>3, <2>4 DEF Places, OnePlace
<1>5. Control
  <2>1. Q!Contains(free, "start")
    BY <1>1 DEF Q!Contains
  <2>2. (ars => connected) /\ (connected => ars)
    <3>1. CASE connected = TRUE
      BY <3>1
    <3>2. CASE connected = FALSE
      BY <3>2
    <3>3. QED
      BY <1>2, <3>1, <3>2
  <2>3. QED
    BY <2>1, <2>2 DEF Control, Before, InChannel, None
<1>6. Counters /\ ChipHome
  BY DEF Counters, ChipHome, InChannel
<1>7. QED
  BY <1>3, <1>4, <1>5, <1>6 DEF Inv

-----------------------------------------------------------------------------
(* A step that moves no message leaves each one in its place.                *)
LEMMA SamePlaces ==
    ASSUME Places, UNCHANGED << pend, free, preq >>,
           \A s \in Stopper : stop'[s] = "push" <=> stop[s] = "push"
    PROVE  Places'
<1>1. Pushing' <=> Pushing
  BY DEF Pushing
<1>2. QED
  BY <1>1 DEF Places, OnePlace

(* A pending message is popped and given back.                               *)
LEMMA PopPlaces ==
    ASSUME TypeOK, Places, NEW m \in ScanMsg, Q!Contains(pend, m),
           pend' = Q!Unlink(pend, m), free' = Q!Del(free, m), UNCHANGED << preq, stop >>
    PROVE  /\ pend' \in Seq(ScanMsg) /\ free' \in Seq(ScanMsg) /\ Places'
           /\ \A x \in ScanMsg : Q!Contains(pend', x) <=> Q!Contains(pend, x) /\ x # m
           /\ \A x \in ScanMsg : Q!Contains(free', x) <=> Q!Contains(free, x) \/ x = m
<1>1. /\ pend \in Seq(ScanMsg) /\ free \in Seq(ScanMsg)
      /\ Q!LinkedOnce(pend) /\ Q!LinkedOnce(free)
  BY DEF TypeOK, Places
<1>2. /\ pend' \in Seq(ScanMsg) /\ Q!LinkedOnce(pend')
      /\ \A x \in ScanMsg : Q!Contains(pend', x) <=> Q!Contains(pend, x) /\ x # m
  BY <1>1, TagType, Q!UnlinkProperties, Zenon
<1>3. /\ free' \in Seq(ScanMsg) /\ Q!LinkedOnce(free')
      /\ \A x \in ScanMsg : Q!Contains(free', x) <=> Q!Contains(free, x) \/ x = m
  BY <1>1, TagType, Q!DelProperties, Zenon
<1>4. Places'
  <2>1. Pushing' <=> Pushing
    BY DEF Pushing
  <2>2. ASSUME NEW x \in ScanMsg PROVE OnePlace(x)'
    BY <1>2, <1>3, <2>1 DEF Places, OnePlace
  <2>3. QED
    BY <1>2, <1>3, <2>2 DEF Places
<1>5. QED
  BY <1>2, <1>3, <1>4

(* The head of the pending messages is one of them.                          *)
LEMMA HeadPending ==
    ASSUME TypeOK, pend # << >>
    PROVE  Q!EndOf(pend, FALSE) \in ScanMsg /\ Q!Contains(pend, Q!EndOf(pend, FALSE))
<1>1. pend \in Seq(ScanMsg)
  BY DEF TypeOK
<1>2. QED
  BY <1>1, TagType, Q!HeadProperties, Zenon

\* Membership in a list, where nothing of the queue has moved
LEMMA SameQueue ==
    ASSUME UNCHANGED queue
    PROVE  /\ UNCHANGED << pend, free >>
           /\ \A m \in ScanMsg : Q!Contains(pend', m) <=> Q!Contains(pend, m)
           /\ \A m \in ScanMsg : Q!Contains(free', m) <=> Q!Contains(free, m)
BY DEF queue

-----------------------------------------------------------------------------
(* wf_scan_start: START is taken from the free list and pushed.              *)
LEMMA StartInv == ASSUME Inv, Start PROVE Inv'
<1> USE TagFacts, ScanAssumption
<1>1. /\ TypeOK /\ Places /\ Control /\ ChipHome
      /\ pend \in Seq(ScanMsg) /\ free \in Seq(ScanMsg)
      /\ Q!LinkedOnce(pend) /\ Q!LinkedOnce(free)
      /\ pc = "idle" /\ Q!Contains(free, "start") /\ ~Q!Contains(pend, "start")
  BY DEF Inv, TypeOK, Places, OnePlace, Control, Start
<1>2. /\ free' \in Seq(ScanMsg) /\ Q!LinkedOnce(free')
      /\ \A x \in ScanMsg : Q!Contains(free', x) <=> Q!Contains(free, x) /\ x # "start"
  BY <1>1, TagType, Q!UnlinkProperties, Zenon DEF Start
<1>3. /\ pend' \in Seq(ScanMsg) /\ Q!LinkedOnce(pend')
      /\ \A x \in ScanMsg : Q!Contains(pend', x) <=> Q!Contains(pend, x) \/ x = "start"
  BY <1>1, TagType, Q!PutProperties, Zenon DEF Start
<1>4. /\ kind' \in {"passive", "active", "bssid"} /\ chNum' \in 1 .. MaxCh
      /\ scans < MaxScans /\ scans' = scans + 1 /\ pc' = "lock"
      /\ UNCHANGED << brun, preq, chIdx, retryCnt, bak, chip, tx, verdicts, others, left,
                      strayed, hwLock, reqLock >>
  BY DEF Start
<1>5. TypeOK'
  BY <1>1, <1>2, <1>3, <1>4 DEF TypeOK, PC, chip, tx, verdicts, others
<1>6. Places'
  <2>1. (Pushing' <=> Pushing) /\ UNCHANGED stop
    BY <1>4 DEF Pushing, others
  <2>2. ASSUME NEW x \in ScanMsg PROVE OnePlace(x)'
    BY <1>1, <1>2, <1>3, <1>4, <2>1 DEF Places, OnePlace, Control
  <2>3. QED
    BY <1>1, <1>2, <1>3, <2>1, <2>2 DEF Places
<1>7. Control'
  BY <1>1, <1>3, <1>4 DEF Control, Before, InChannel, tx
<1>8. Counters' /\ ChipHome'
  BY <1>1, <1>4 DEF Counters, ChipHome, InChannel, chip
<1>9. QED
  BY <1>5, <1>6, <1>7, <1>8 DEF Inv

-----------------------------------------------------------------------------
(* The steps of the protothread that move no message.  Each one is followed  *)
(* through the points of wf_scan_thrd, the counters and the chip.            *)

\* Such a step keeps the type of what it leaves alone.
Quiet == UNCHANGED << queue, preq, kind, chNum, others, scans, reqLock, connected, txBusy >>

(* A quiet step keeps both messages in their places.                         *)
LEMMA QuietPlaces ==
    ASSUME Inv, Quiet
    PROVE  /\ Places' /\ TypeOK /\ Control /\ Counters /\ ChipHome
           /\ Q!Contains(pend', "start") <=> Q!Contains(pend, "start")
           /\ Q!Contains(free', "start") <=> Q!Contains(free, "start")
<1>1. UNCHANGED << pend, free, preq, stop >>
  BY DEF Quiet, queue, others
<1>2. QED
  BY <1>1, SamePlaces DEF Inv

(* A quiet step keeps the types if what it sets has its type.                *)
LEMMA QuietTypes ==
    ASSUME Inv, Quiet,
           pc' \in PC, brun' \in BOOLEAN, chIdx' \in 0 .. MaxCh,
           retryCnt' \in 0 .. ProbeTimes, bak' \in 0 .. MaxCh,
           filter' \in BOOLEAN, media' \in {"station", "null"}, chan' \in 0 .. MaxCh,
           txOpen' \in BOOLEAN, ars' \in BOOLEAN,
           reason' \in Reason, verdict' \in Reason, UNCHANGED result,
           left' \subseteq {"media", "filter"}, strayed' \in BOOLEAN,
           hwLock' \in {None, "scan", "other"}
    PROVE  TypeOK'
BY DEF Inv, Quiet, TypeOK, queue, others

(* wf_scan_thrd takes the hardware lock.                                     *)
LEMMA TakeHwLockInv == ASSUME Inv, TakeHwLock PROVE Inv'
<1>1. /\ pc = "lock" /\ hwLock' = "scan" /\ pc' = "getmsg"
      /\ UNCHANGED << queue, work, chip, tx, verdicts, others, history, reqLock >>
  BY DEF TakeHwLock
<1>2. Quiet
  BY <1>1 DEF Quiet, work, tx, others, history
<1>3. TypeOK'
  BY <1>1, <1>2, QuietTypes DEF Inv, TypeOK, PC, work, chip, tx, verdicts, history
<1>4. Control'
  BY <1>1, <1>2, QuietPlaces DEF Control, Before, InChannel, work, tx
<1>5. Counters' /\ ChipHome'
  BY <1>1, <1>2, QuietPlaces DEF Counters, ChipHome, InChannel, work, chip, history
<1>6. QED
  BY <1>2, <1>3, <1>4, <1>5, QuietPlaces DEF Inv

\* The steps that only move on, or leave for one of the labels "done" and "exit"
Moves(label) ==
    /\ pc' = label
    /\ verdict' \in Reason /\ reason' \in Reason /\ UNCHANGED result
    /\ UNCHANGED << queue, work, chip, tx, others, history, hwLock, reqLock >>

(* A step that only moves on to another label keeps the invariant if the     *)
(* counters fit that label.                                                  *)
LEMMA MovesInv ==
    ASSUME Inv, NEW label \in PC \ (Before \cup {"free"}), Moves(label),
           pc \notin Before \cup {"free"},
           brun => label \in {"chan", "done", "exit"} \cup InChannel,
           label \in {"chan", "done"} \cup InChannel => brun,
           label = "chan" => chIdx <= chNum,
           label \in InChannel => chIdx < chNum,
           label = "wait" /\ kind # "passive" => retryCnt < ProbeTimes
    PROVE  Inv'
<1>1. Quiet
  BY DEF Quiet, Moves, work, tx, others, history
<1>2. TypeOK'
  BY <1>1, QuietTypes DEF Inv, TypeOK, Moves, work, chip, tx, history
<1>3. Control'
  <2>1. label \notin Before /\ label # "free" /\ label # "idle" /\ label # "lock" /\ label # "getmsg"
    BY DEF Before
  <2>2. /\ pc' = label /\ UNCHANGED << preq, brun, hwLock, txOpen, ars, connected >>
    BY DEF Moves, work, tx
  <2>3. QED
    BY <1>1, <2>1, <2>2, QuietPlaces DEF Control, Before
<1>4. Counters' /\ ChipHome'
  BY <1>1, QuietPlaces DEF Counters, ChipHome, Moves, work, chip, history
<1>5. QED
  BY <1>1, <1>2, <1>3, <1>4, QuietPlaces DEF Inv

(* The timeouts, the failed commands, the end of the channel loop, and the   *)
(* points that only lead to the next one.                                    *)
LEMMA LeavesInv ==
    ASSUME Inv, DrainTimeout \/ ChannelFail \/ AllChannels \/ PauseFail \/ Done
    PROVE  Inv'
<1>1. PICK label \in {"done", "exit"} :
         /\ Moves(label) /\ pc \notin Before \cup {"free"}
         /\ label = "done" => brun
  <2>1. TypeOK /\ (pc = "chan" => brun)
    BY DEF Inv, Control
  <2>2. QED
    BY <2>1 DEF DrainTimeout, ChannelFail, AllChannels, PauseFail, Done, Leave,
       Moves, Before,
                TypeOK, Reason, verdicts
<1>2. /\ label \in PC \ (Before \cup {"free"}) /\ label \notin InChannel
      /\ label \in {"done", "exit"}
  BY DEF PC, Before, InChannel
<1>3. QED
  BY <1>1, <1>2, MovesInv

(* A probe request is sent, or the channel is done.                          *)
LEMMA ProbeInv == ASSUME Inv, Probe PROVE Inv'
<1> DEFINE label == IF retryCnt < ProbeTimes THEN "wait" ELSE "chanend"
<1>1. pc = "probe" /\ Moves(label) /\ chIdx < chNum /\ brun
  BY DEF Probe, Moves, Inv, Control, TypeOK, Counters, InChannel, verdicts
<1>2. label \in PC \ (Before \cup {"free"}) /\ label \in InChannel /\ label # "chan"
      /\ (label = "wait" => retryCnt < ProbeTimes) /\ pc \notin Before \cup {"free"}
  BY <1>1 DEF PC, Before, InChannel
<1> HIDE DEF label
<1>3. QED
  BY <1>1, <1>2, MovesInv

(* The pause between channels is over.                                       *)
LEMMA PauseTimeoutInv == ASSUME Inv, PauseTimeout PROVE Inv'
<1>1. pc = "pause" /\ Moves("resume") /\ chIdx < chNum /\ brun
  BY DEF PauseTimeout, Moves, Inv, Control, TypeOK, Counters, InChannel, verdicts
<1>2. "resume" \in PC \ (Before \cup {"free"}) /\ "resume" \in InChannel
      /\ pc \notin Before \cup {"free"}
  BY <1>1 DEF PC, Before, InChannel
<1>3. QED
  BY <1>1, <1>2, MovesInv

(* scan_setting: the channel in use is read before anything changes it.      *)
LEMMA SettingInv == ASSUME Inv, Setting PROVE Inv'
<1>1. /\ pc = "drain" /\ bak' = chan /\ chIdx' = 0 /\ pc' = "chan"
      /\ UNCHANGED << queue, preq, kind, chNum, retryCnt, chan, tx, verdicts, others, history,
                      hwLock, reqLock >>
  BY DEF Setting
<1>2. brun' = TRUE
  BY DEF Setting
<1>3. filter' \in BOOLEAN
  BY Zenon DEF Setting
<1>4. Quiet
  BY <1>1 DEF Quiet, tx, history
<1>5. TypeOK'
  <2>1. chIdx' \in 0 .. MaxCh /\ media' \in {"station", "null"}
    BY <1>1, ScanAssumption DEF Setting, Inv, TypeOK
  <2>2. QED
    BY <1>1, <1>2, <1>3, <1>4, <2>1, QuietTypes DEF Inv, TypeOK, PC, tx, verdicts,
       history
<1>6. Control'
  BY <1>1, <1>2, <1>4, QuietPlaces DEF Control, Before, InChannel, tx
<1>7. Counters'
  BY <1>1, ScanAssumption DEF Counters, InChannel, Inv, TypeOK
<1>8. ChipHome'
  <2>1. ~brun
    BY <1>1 DEF Inv, Control, InChannel
  <2>2. strayed \/ chan = Home
    BY <2>1 DEF Inv, ChipHome
  <2>3. QED
    BY <1>1, <1>2, <2>2 DEF ChipHome, history
<1>9. QED
  BY <1>4, <1>5, <1>6, <1>7, <1>8, QuietPlaces DEF Inv

(* A command of scan_setting fails, and what was set before it is left.      *)
LEMMA SettingFailInv == ASSUME Inv, SettingFail PROVE Inv'
<1>1. /\ pc = "drain" /\ pc' = "exit" /\ reason' = "fail" /\ verdict' = "fail"
      /\ UNCHANGED << queue, work, chan, tx, result, others, scans, strayed, hwLock, reqLock >>
  BY DEF SettingFail, Leave
<1>2. PICK done \in SUBSET {"media", "filter"} :
            /\ media' = IF "media" \in done THEN "null" ELSE media
            /\ filter' = (filter /\ "filter" \notin done)
            /\ left' = left \cup done
  BY Zenon DEF SettingFail
<1>3. /\ filter' \in BOOLEAN /\ media' \in {"station", "null"}
      /\ left' \subseteq {"media", "filter"}
      /\ filter /\ "filter" \notin left' => filter'
      /\ media = "station" /\ "media" \notin left' => media' = "station"
      /\ left \subseteq left'
  <2>1. filter \in BOOLEAN /\ media \in {"station", "null"} /\ left \subseteq {"media", "filter"}
    BY DEF Inv, TypeOK
  <2>2. filter' \in BOOLEAN /\ (filter /\ "filter" \notin done => filter')
    BY <1>2, Zenon
  <2>3. QED
    BY <1>2, <2>1, <2>2
<1>4. Quiet
  BY <1>1 DEF Quiet, work, tx
<1>5. TypeOK'
  BY <1>1, <1>2, <1>3, <1>4, QuietTypes DEF Inv, TypeOK, PC, Reason, work, tx
<1>6. Control'
  BY <1>1, <1>4, QuietPlaces DEF Control, Before, InChannel, work, tx
<1>7. Counters' /\ ChipHome'
  <2>1. ~brun /\ UNCHANGED << brun, chan, strayed >>
    BY <1>1 DEF Inv, Control, InChannel, work
  <2>2. /\ filter \/ "filter" \in left
        /\ media = "station" \/ "media" \in left
        /\ chan = Home \/ strayed
    BY <2>1 DEF Inv, ChipHome
  <2>3. /\ filter' \/ "filter" \in left'
        /\ media' = "station" \/ "media" \in left'
        /\ chan' = Home \/ strayed'
    BY <1>3, <2>1, <2>2
  <2>4. QED
    BY <1>1, <2>1, <2>3 DEF Counters, ChipHome, InChannel
<1>8. QED
  BY <1>4, <1>5, <1>6, <1>7, QuietPlaces DEF Inv

(* The next channel of the request is set.                                   *)
LEMMA SetChannelInv == ASSUME Inv, SetChannel PROVE Inv'
<1>1. /\ pc = "chan" /\ chIdx < chNum /\ chan' = chIdx + 1 /\ retryCnt' = 0
      /\ pc' \in {"wait", "probe"} /\ (pc' = "wait" => kind = "passive")
      /\ UNCHANGED << queue, brun, preq, kind, chNum, chIdx, bak, filter, media, tx, verdicts,
                      others, history, hwLock, reqLock >>
  BY DEF SetChannel
<1>2. Quiet
  BY <1>1 DEF Quiet, tx, history
<1>3. TypeOK'
  <2>1. chan' \in 0 .. MaxCh /\ retryCnt' \in 0 .. ProbeTimes
    BY <1>1, ScanAssumption DEF Inv, TypeOK
  <2>2. QED
    BY <1>1, <1>2, <2>1, QuietTypes DEF Inv, TypeOK, PC, tx, verdicts, history
<1>4. Control'
  BY <1>1, <1>2, QuietPlaces DEF Control, Before, InChannel, tx
<1>5. Counters'
  BY <1>1 DEF Counters
<1>6. ChipHome'
  BY <1>1 DEF Inv, Control, ChipHome, history
<1>7. QED
  BY <1>2, <1>3, <1>4, <1>5, <1>6, QuietPlaces DEF Inv

(* The wait on a channel ends: another probe request, or the next channel.   *)
LEMMA WaitTimeoutInv == ASSUME Inv, WaitTimeout PROVE Inv'
<1>1. /\ pc = "wait"
      /\ \/ kind = "passive" /\ pc' = "chanend" /\ retryCnt' = retryCnt
         \/ kind # "passive" /\ pc' = "probe" /\ retryCnt' = retryCnt + 1
      /\ UNCHANGED << queue, brun, preq, kind, chNum, chIdx, bak, chip, tx, verdicts, others,
                      history, hwLock, reqLock >>
  BY DEF WaitTimeout
<1>2. Quiet
  BY <1>1 DEF Quiet, tx, history
<1>3. TypeOK'
  <2>1. retryCnt' \in 0 .. ProbeTimes /\ pc' \in PC
    BY <1>1, ScanAssumption DEF Inv, TypeOK, Counters, PC
  <2>2. QED
    BY <1>1, <1>2, <2>1, QuietTypes DEF Inv, TypeOK, chip, tx, verdicts, history
<1>4. Control'
  BY <1>1, <1>2, QuietPlaces DEF Control, Before, InChannel, tx
<1>5. Counters' /\ ChipHome'
  BY <1>1 DEF Inv, Counters, ChipHome, InChannel, chip, history
<1>6. QED
  BY <1>2, <1>3, <1>4, <1>5, QuietPlaces DEF Inv

(* From one channel to the next, with or without a pause in between.         *)
LEMMA NextChannelInv == ASSUME Inv, NextChannel \/ Resume PROVE Inv'
<1>1. /\ pc \in {"chanend", "resume"} /\ chIdx' = chIdx + 1 /\ pc' = "chan"
      /\ UNCHANGED << queue, brun, preq, kind, chNum, retryCnt, bak, media, chan, tx, verdicts,
                      others, history, hwLock, reqLock >>
  BY DEF NextChannel, Resume, chip
<1>2. filter' \in BOOLEAN
  <2>1. filter \in BOOLEAN
    BY DEF Inv, TypeOK
  <2>2. filter' = filter \/ filter' = FALSE
    BY DEF NextChannel, Resume, chip
  <2>3. QED
    BY <2>1, <2>2
<1>3. Quiet
  BY <1>1 DEF Quiet, tx, history
<1>4. chIdx < chNum /\ chIdx' <= chNum /\ chIdx' \in 0 .. MaxCh /\ brun
  BY <1>1, ScanAssumption DEF Inv, TypeOK, Control, Counters, InChannel
<1>5. TypeOK'
  BY <1>1, <1>2, <1>3, <1>4, QuietTypes DEF Inv, TypeOK, PC, tx, verdicts, history
<1>6. Control'
  BY <1>1, <1>3, <1>4, QuietPlaces DEF Control, Before, InChannel, tx
<1>7. Counters' /\ ChipHome'
  BY <1>1, <1>4 DEF Inv, Counters, ChipHome, InChannel, history
<1>8. QED
  BY <1>3, <1>5, <1>6, <1>7, QuietPlaces DEF Inv

(* Back to the saved channel for the access point.                           *)
LEMMA PauseInv == ASSUME Inv, Pause PROVE Inv'
<1>1. /\ pc = "chanend" /\ chan' = bak /\ pc' \in {"pause", "resume"}
      /\ UNCHANGED << queue, work, media, tx, verdicts, others, history, hwLock, reqLock >>
  BY DEF Pause
<1>2. filter' \in BOOLEAN
  <2>1. filter \in BOOLEAN
    BY DEF Inv, TypeOK
  <2>2. filter' = TRUE \/ filter' = filter
    BY Zenon DEF Pause
  <2>3. QED
    BY <2>1, <2>2
<1>3. Quiet
  BY <1>1 DEF Quiet, work, tx, history
<1>4. TypeOK'
  BY <1>1, <1>2, <1>3, QuietTypes DEF Inv, TypeOK, PC, work, tx, verdicts, history
<1>5. Control'
  BY <1>1, <1>3, QuietPlaces DEF Control, Before, InChannel, work, tx
<1>6. Counters' /\ ChipHome'
  BY <1>1 DEF Inv, Control, Counters, ChipHome, InChannel, work, history
<1>7. QED
  BY <1>3, <1>4, <1>5, <1>6, QuietPlaces DEF Inv

(* scan_setting_recover and the rest of the label "exit": what a command     *)
(* that fails leaves in the chip is what left and strayed record.            *)
LEMMA ExitInv == ASSUME Inv, Exit PROVE Inv'
<1>1. /\ pc = "exit" /\ pc' = "free"
      /\ UNCHANGED << queue, preq, kind, chNum, chIdx, retryCnt, bak, txBusy, connected,
                      verdicts, others, scans, hwLock, reqLock >>
  BY DEF Exit
<1>2. brun' = FALSE /\ txOpen' = TRUE
  BY DEF Exit
<1>3. ars' \in BOOLEAN /\ (ars' <=> ars \/ connected)
  BY Zenon DEF Exit
<1>4. PICK failed \in RecoverFailures :
            IF brun
            THEN /\ RecoverSettings(failed)
                 /\ left' = Changed
                        \cap (failed \cup (IF "chan" \in failed THEN {"filter"} ELSE {}))
                 /\ strayed' = (strayed \/ ("chan" \in failed /\ chan # bak))
            ELSE UNCHANGED << chip, left, strayed >>
  BY DEF Exit
<1>6. /\ filter \in BOOLEAN /\ media \in {"station", "null"} /\ brun \in BOOLEAN
      /\ chan \in 0 .. MaxCh /\ bak \in 0 .. MaxCh /\ strayed \in BOOLEAN
      /\ left \subseteq {"media", "filter"}
  BY DEF Inv, TypeOK
<1>7. /\ filter' \in BOOLEAN /\ media' \in {"station", "null"} /\ chan' \in 0 .. MaxCh
      /\ left' \subseteq {"media", "filter"} /\ strayed' \in BOOLEAN /\ ChipHome'
  <2>1. CASE brun = TRUE
    <3>1. /\ media' = IF "media" \in failed THEN media ELSE "station"
          /\ chan' = IF "chan" \in failed THEN chan ELSE bak
          /\ left' = Changed \cap (failed \cup (IF "chan" \in failed THEN {"filter"} ELSE {}))
      BY <1>4, <2>1 DEF RecoverSettings
    <3>2. filter' = (filter \/ failed \cap {"chan", "filter"} = {})
      BY <1>4, <2>1, Zenon DEF RecoverSettings
    <3>3. strayed' = (strayed \/ ("chan" \in failed /\ chan # bak))
      BY <1>4, <2>1, Zenon
    <3>4. /\ filter' \in BOOLEAN
          /\ filter' <=> filter \/ failed \cap {"chan", "filter"} = {}
      BY <3>2, Zenon
    <3>5. /\ strayed' \in BOOLEAN
          /\ strayed' <=> strayed \/ ("chan" \in failed /\ chan # bak)
      BY <3>3, Zenon
    <3>6. /\ media' \in {"station", "null"} /\ chan' \in 0 .. MaxCh
          /\ left' \subseteq {"media", "filter"}
      BY <1>6, <3>1 DEF Changed
    <3>7. filter' \/ "filter" \in left'
      <4>1. CASE filter' = TRUE
        BY <4>1
      <4>2. CASE filter' = FALSE
        <5>1. filter = FALSE /\ ("chan" \in failed \/ "filter" \in failed)
          BY <1>6, <3>4, <4>2
        <5>2. "filter" \in Changed
          BY <5>1 DEF Changed
        <5>3. QED
          BY <3>1, <5>1, <5>2
      <4>3. QED
        BY <3>4, <4>1, <4>2
    <3>8. media' = "station" \/ "media" \in left'
      <4>1. CASE media' # "station"
        <5>1. "media" \in failed /\ media = "null"
          BY <1>6, <3>1, <4>1
        <5>2. QED
          BY <3>1, <5>1 DEF Changed
      <4>2. QED
        BY <4>1
    <3>9. chan' = Home \/ strayed'
      <4>1. bak = Home \/ strayed
        BY <2>1 DEF Inv, ChipHome
      <4>2. QED
        BY <3>1, <3>5, <4>1
    <3>10. QED
      BY <1>2, <3>4, <3>5, <3>6, <3>7, <3>8, <3>9 DEF ChipHome
  <2>2. CASE brun = FALSE
    <3>1. UNCHANGED << filter, media, chan, left, strayed >>
      BY <1>4, <2>2 DEF chip
    <3>2. ChipHome'
      BY <1>2, <2>2, <3>1 DEF Inv, ChipHome
    <3>3. QED
      BY <1>6, <3>1, <3>2
  <2>3. QED
    BY <1>6, <2>1, <2>2
<1>8. Quiet
  BY <1>1 DEF Quiet
<1>9. TypeOK'
  BY <1>1, <1>2, <1>3, <1>7, <1>8, QuietTypes DEF Inv, TypeOK, PC, verdicts
<1>10. Control'
  BY <1>1, <1>2, <1>3, <1>8, QuietPlaces DEF Control, Before, InChannel
<1>11. Counters'
  BY <1>1 DEF Counters, InChannel
<1>12. QED
  BY <1>7, <1>8, <1>9, <1>10, <1>11, QuietPlaces DEF Inv

(* The protothread returns from the label "free" while req_lock is taken.    *)
LEMMA FreeBlockedInv == ASSUME Inv, FreeBlocked PROVE Inv'
<1>1. /\ UNCHANGED << queue, work, chip, tx, verdict, result, others, pc, history, hwLock,
                      reqLock >>
      /\ reason' = "done"
  BY DEF FreeBlocked
<1>2. Quiet
  BY <1>1 DEF Quiet, work, tx, history
<1>3. TypeOK'
  BY <1>1, <1>2, QuietTypes DEF Inv, TypeOK, Reason, work, chip, tx, history
<1>4. Control' /\ Counters' /\ ChipHome'
  BY <1>1, <1>2, QuietPlaces DEF Control, Counters, ChipHome, work, chip, tx, history
<1>5. QED
  BY <1>2, <1>3, <1>4, QuietPlaces DEF Inv

-----------------------------------------------------------------------------
(* The steps of the protothread that move a message.                         *)

(* wf_scan_thrd takes START, or throws away what was queued before it.       *)
LEMMA GetMsgInv == ASSUME Inv, GetMsg PROVE Inv'
<1> DEFINE m == Q!EndOf(pend, FALSE)
<1> USE TagFacts
<1>1. /\ TypeOK /\ Places /\ Control /\ ChipHome
      /\ pc = "getmsg" /\ Q!Contains(pend, "start") /\ pend \in Seq(ScanMsg)
      /\ hwLock = "scan" /\ preq = None /\ ~brun
      /\ UNCHANGED << brun, kind, chNum, chIdx, retryCnt, bak, chip, txBusy, connected, reason,
                      verdict, others, history, reqLock >>
  BY DEF Inv, TypeOK, Control, GetMsg, Before, InChannel
<1>2. pend # << >>
  <2>1. PICK i \in 1 .. Len(pend) : pend[i] = "start"
    BY <1>1, Zenon DEF Q!Contains
  <2>2. QED
    BY <1>1, <2>1
<1>3. m \in ScanMsg /\ Q!Contains(pend, m)
  BY <1>1, <1>2, HeadPending, Zenon
<1>4. /\ pend' = Q!Unlink(pend, m) /\ UNCHANGED << hwLock, result >>
      /\ \/ m = "start" /\ preq' = m /\ ars' = FALSE /\ txOpen' = FALSE /\ pc' = "drain"
            /\ UNCHANGED free
         \/ m # "start" /\ free' = Q!Del(free, m) /\ UNCHANGED << preq, ars, txOpen, pc >>
  BY <1>2 DEF GetMsg
<1> HIDE DEF m
<1>5. CASE m = "start"
  <2>1. preq' = "start" /\ pc' = "drain" /\ UNCHANGED << free, hwLock, result >>
    BY <1>4, <1>5
  <2>2. ars' = FALSE /\ txOpen' = FALSE
    BY <1>4, <1>5
  <2>3. free \in Seq(ScanMsg) /\ Q!LinkedOnce(pend) /\ Q!LinkedOnce(free)
    BY <1>1 DEF TypeOK, Places
  <2>4. /\ pend' \in Seq(ScanMsg) /\ Q!LinkedOnce(pend')
        /\ \A x \in ScanMsg : Q!Contains(pend', x) <=> Q!Contains(pend, x) /\ x # m
    BY <1>1, <1>3, <1>4, <2>3, TagType, Q!UnlinkProperties, Zenon
  <2>5. TypeOK'
    <3>1. ars' \in BOOLEAN /\ txOpen' \in BOOLEAN
      BY <2>2
    <3>2. QED
      BY <1>1, <2>1, <2>3, <2>4, <3>1 DEF TypeOK, PC, chip, others, history
  <2>6. Places'
    <3>1. (Pushing' <=> Pushing) /\ UNCHANGED stop
      BY <1>1 DEF Pushing, others
    <3>2. ASSUME NEW x \in ScanMsg PROVE OnePlace(x)'
      BY <1>1, <1>3, <1>5, <2>1, <2>4, <3>1 DEF Places, OnePlace
    <3>3. QED
      BY <1>1, <2>1, <2>3, <2>4, <3>1, <3>2 DEF Places
  <2>7. Control'
    BY <1>1, <2>1, <2>2 DEF Control, Before, InChannel
  <2>8. Counters' /\ ChipHome'
    BY <1>1, <2>1 DEF Counters, ChipHome, InChannel, chip, history
  <2>9. QED
    BY <2>5, <2>6, <2>7, <2>8 DEF Inv
<1>6. CASE m # "start"
  <2>1. free' = Q!Del(free, m) /\ UNCHANGED << preq, ars, txOpen, pc, hwLock, result >>
    BY <1>4, <1>6
  <2>2. /\ pend' \in Seq(ScanMsg) /\ free' \in Seq(ScanMsg) /\ Places'
        /\ \A x \in ScanMsg : Q!Contains(pend', x) <=> Q!Contains(pend, x) /\ x # m
    <3>1. UNCHANGED << preq, stop >>
      BY <1>1, <2>1 DEF others
    <3>2. QED
      BY <1>1, <1>3, <1>4, <2>1, <3>1, PopPlaces
  <2>3. TypeOK'
    BY <1>1, <2>1, <2>2 DEF TypeOK, chip, others, history
  <2>4. Control'
    BY <1>1, <1>6, <2>1, <2>2 DEF Control, Before, InChannel
  <2>5. Counters' /\ ChipHome'
    BY <1>1, <2>1 DEF Counters, ChipHome, InChannel, chip, history
  <2>6. QED
    BY <2>2, <2>3, <2>4, <2>5 DEF Inv
<1>7. QED
  BY <1>5, <1>6

(* A message found while the scan waits is popped and given back.            *)
LEMMA AbortInv == ASSUME Inv, DrainAbort \/ WaitAbort PROVE Inv'
<1> DEFINE m == Q!EndOf(pend, FALSE)
<1>1. /\ TypeOK /\ Places /\ Control /\ ChipHome /\ Counters
      /\ pc \in {"drain", "wait", "pause"} /\ pend # << >>
      /\ pend' = Q!Unlink(pend, m) /\ free' = Q!Del(free, m)
      /\ UNCHANGED << work, chip, tx, others, history, hwLock, reqLock >>
  BY DEF Inv, DrainAbort, WaitAbort
<1>2. m \in ScanMsg /\ Q!Contains(pend, m)
  BY <1>1, HeadPending, Zenon
<1>3. /\ \/ pc' = pc
         \/ pc = "drain" /\ pc' = "exit"
         \/ pc # "drain" /\ pc' = "done"
      /\ reason' \in Reason /\ verdict' \in Reason /\ UNCHANGED result
  BY <1>1 DEF DrainAbort, WaitAbort, Leave, verdicts, TypeOK, Reason
<1> HIDE DEF m
<1>4. /\ pend' \in Seq(ScanMsg) /\ free' \in Seq(ScanMsg) /\ Places'
  <2>1. UNCHANGED << preq, stop >>
    BY <1>1 DEF work, others
  <2>2. QED
    BY <1>1, <1>2, <2>1, PopPlaces
<1>5. TypeOK'
  BY <1>1, <1>3, <1>4 DEF TypeOK, PC, work, chip, tx, others, history
<1>6. Control'
  BY <1>1, <1>3 DEF Control, Before, InChannel, work, tx
<1>7. Counters' /\ ChipHome'
  BY <1>1, <1>3 DEF Counters, ChipHome, InChannel, work, chip, history
<1>8. QED
  BY <1>4, <1>5, <1>6, <1>7 DEF Inv

(* The request is given back and the hardware lock released.                 *)
LEMMA FreeInv == ASSUME Inv, Free PROVE Inv'
<1> USE TagFacts
<1>1. /\ TypeOK /\ Places /\ Control /\ ChipHome
      /\ pc = "free" /\ preq = "start" /\ ~brun /\ free \in Seq(ScanMsg) /\ Q!LinkedOnce(free)
      /\ free' = Q!Del(free, "start") /\ preq' = None /\ hwLock' = None
      /\ result' = reason /\ pc' = "idle"
      /\ UNCHANGED << pend, brun, kind, chNum, chIdx, retryCnt, bak, chip, tx, reason, verdict,
                      others, history, reqLock >>
  BY DEF Inv, TypeOK, Places, Control, Free, Before, InChannel
<1>2. /\ free' \in Seq(ScanMsg) /\ Q!LinkedOnce(free')
      /\ \A x \in ScanMsg : Q!Contains(free', x) <=> Q!Contains(free, x) \/ x = "start"
  BY <1>1, TagType, Q!DelProperties, Zenon
<1>3. TypeOK'
  BY <1>1, <1>2 DEF TypeOK, PC, chip, tx, others, history
<1>4. Places'
  <2>1. (Pushing' <=> Pushing) /\ UNCHANGED << stop, pend >>
    BY <1>1 DEF Pushing, others
  <2>2. ASSUME NEW x \in ScanMsg PROVE OnePlace(x)'
    BY <1>1, <1>2, <2>1 DEF Places, OnePlace
  <2>3. QED
    BY <1>1, <1>2, <2>1, <2>2 DEF Places
<1>5. Control'
  BY <1>1, <1>2 DEF Control, Before, InChannel, tx, None
<1>6. Counters' /\ ChipHome'
  BY <1>1 DEF Counters, ChipHome, InChannel, chip, history
<1>7. QED
  BY <1>3, <1>4, <1>5, <1>6 DEF Inv

-----------------------------------------------------------------------------
(* The steps of the other threads leave the protothread's state alone.       *)
LEMMA OtherThreads ==
    ASSUME Inv, UNCHANGED << pc, work, chip, txOpen, connected, ars, verdicts, history >>,
           pend' \in Seq(ScanMsg), free' \in Seq(ScanMsg), Places',
           Q!Contains(pend, "start") => Q!Contains(pend', "start"),
           Q!Contains(free, "start") => Q!Contains(free', "start"),
           txBusy' \in BOOLEAN, taken' \in 0 .. MaxOther,
           stop' \in [Stopper -> {"idle", "new", "push"}],
           rx' \in {"idle", "try", "use", "oops"}, reqLock' \in {None, "rx"},
           hwLock' \in {None, "scan", "other"}, hwLock' = "scan" <=> hwLock = "scan"
    PROVE  Inv'
<1>1. TypeOK'
  BY DEF Inv, TypeOK, work, chip, verdicts, history
<1>2. Control'
  BY DEF Inv, Control, work
<1>3. Counters' /\ ChipHome'
  BY DEF Inv, Counters, ChipHome, work, chip, history
<1>4. QED
  BY <1>1, <1>2, <1>3 DEF Inv

(* wf_scan_stop tests brun.                                                  *)
LEMMA StopTestInv == ASSUME Inv, NEW s \in Stopper, StopTest(s) PROVE Inv'
<1>1. /\ UNCHANGED << queue, work, chip, tx, verdicts, rx, taken, pc, history, hwLock, reqLock >>
      /\ stop[s] = "idle" /\ stop' = [stop EXCEPT ![s] = "new"]
      /\ stop \in [Stopper -> {"idle", "new", "push"}] /\ TypeOK /\ Places
  BY DEF StopTest, Inv, TypeOK
<1>2. Places' /\ stop' \in [Stopper -> {"idle", "new", "push"}]
  BY <1>1, SamePlaces DEF queue, work
<1>3. QED
  BY <1>1, <1>2, OtherThreads DEF TypeOK, queue, tx

(* wf_scan_stop gets the ABORT message, if it is free.                       *)
LEMMA StopNewInv == ASSUME Inv, NEW s \in Stopper, StopNew(s) PROVE Inv'
<1>1. /\ UNCHANGED << pend, work, chip, tx, verdicts, rx, taken, pc, history, hwLock, reqLock >>
      /\ stop[s] = "new" /\ stop \in [Stopper -> {"idle", "new", "push"}]
      /\ free \in Seq(ScanMsg) /\ Q!LinkedOnce(free) /\ TypeOK /\ Places
  BY DEF StopNew, Inv, TypeOK, Places
<1>2. CASE Q!HasFree(free, ScanTag["abort"])
  <2>1. free' = Q!Unlink(free, "abort") /\ stop' = [stop EXCEPT ![s] = "push"]
    BY <1>2 DEF StopNew
  <2>2. PICK i \in 1 .. Len(free) : ScanTag[free[i]] = ScanTag["abort"]
    BY <1>2 DEF Q!HasFree
  <2>3. Q!Contains(free, "abort") /\ "abort" \in ScanMsg
    BY <1>1, <2>2, TagFacts DEF Q!Contains
  <2>4. /\ free' \in Seq(ScanMsg) /\ Q!LinkedOnce(free')
        /\ \A x \in ScanMsg : Q!Contains(free', x) <=> Q!Contains(free, x) /\ x # "abort"
    BY <1>1, <2>1, <2>3, TagType, Q!UnlinkProperties, Zenon
  <2>5. ~Pushing /\ Pushing'
    BY <1>1, <2>1, <2>3 DEF Places, OnePlace, Pushing
  <2>6. Places'
    <3>1. UNCHANGED << pend, preq >>
      BY <1>1 DEF work
    <3>2. \A x \in ScanMsg : OnePlace(x)'
      BY <1>1, <2>3, <2>4, <2>5, <3>1 DEF Places, OnePlace
    <3>3. \A t, u \in Stopper : stop'[t] = "push" /\ stop'[u] = "push" => t = u
      BY <1>1, <2>1, <2>5 DEF Pushing
    <3>4. QED
      BY <1>1, <2>4, <3>2, <3>3 DEF Places
  <2>7. QED
    BY <1>1, <2>1, <2>4, <2>6, TagFacts, OtherThreads DEF TypeOK, tx
<1>3. CASE ~Q!HasFree(free, ScanTag["abort"])
  <2>1. UNCHANGED free /\ stop' = [stop EXCEPT ![s] = "idle"]
    BY <1>3 DEF StopNew
  <2>2. Places' /\ stop' \in [Stopper -> {"idle", "new", "push"}]
    BY <1>1, <2>1, SamePlaces DEF work
  <2>3. QED
    BY <1>1, <2>1, <2>2, OtherThreads DEF TypeOK, tx
<1>4. QED
  BY <1>2, <1>3

(* wf_scan_stop pushes ABORT.                                                *)
LEMMA StopPushInv == ASSUME Inv, NEW s \in Stopper, StopPush(s) PROVE Inv'
<1>1. /\ UNCHANGED << free, work, chip, tx, verdicts, rx, taken, pc, history, hwLock, reqLock >>
      /\ stop[s] = "push" /\ stop' = [stop EXCEPT ![s] = "idle"]
      /\ stop \in [Stopper -> {"idle", "new", "push"}]
      /\ pend' = Q!Push(pend, "abort")
      /\ pend \in Seq(ScanMsg) /\ Q!LinkedOnce(pend) /\ TypeOK /\ Places
  BY DEF StopPush, Inv, TypeOK, Places
<1>2. "abort" \in ScanMsg /\ Pushing /\ ~Q!Contains(pend, "abort") /\ ~Q!Contains(free, "abort")
  BY <1>1, TagFacts DEF Places, OnePlace, Pushing
<1>3. /\ pend' \in Seq(ScanMsg) /\ Q!LinkedOnce(pend')
      /\ \A x \in ScanMsg : Q!Contains(pend', x) <=> Q!Contains(pend, x) \/ x = "abort"
  BY <1>1, <1>2, TagType, Q!PutProperties, Zenon
<1>4. ~Pushing'
  BY <1>1 DEF Places, Pushing
<1>5. Places'
  <2>1. UNCHANGED << free, preq >> /\ preq # "abort"
    BY <1>1 DEF work, TypeOK, None
  <2>2. \A x \in ScanMsg : OnePlace(x)'
    BY <1>1, <1>2, <1>3, <1>4, <2>1 DEF Places, OnePlace
  <2>3. QED
    BY <1>1, <1>3, <1>4, <2>2 DEF Places, Pushing
<1>6. QED
  BY <1>1, <1>3, <1>5, TagFacts, OtherThreads DEF TypeOK, tx

(* wf_scan_filter, the other interface and the transmit path.                *)
LEMMA SurroundingsInv ==
    ASSUME Inv, RxTest \/ RxTry \/ RxUse \/ OtherLock \/ OtherUnlock \/ TxQueue \/ TxSent
    PROVE  Inv'
<1>1. /\ UNCHANGED << queue, work, chip, txOpen, connected, ars, verdicts, stop, pc, history >>
      /\ TypeOK /\ Places
  BY DEF Inv, RxTest, RxTry, RxUse, OtherLock, OtherUnlock, TxQueue, TxSent, tx, others
<1>2. /\ rx' \in {"idle", "try", "use", "oops"} /\ reqLock' \in {None, "rx"}
      /\ hwLock' \in {None, "scan", "other"} /\ (hwLock' = "scan" <=> hwLock = "scan")
      /\ taken' \in 0 .. MaxOther
  BY <1>1, ScanAssumption
     DEF TypeOK, RxTest, RxTry, RxUse, OtherLock, OtherUnlock, TxQueue, TxSent, others, None
<1>3. txBusy' \in BOOLEAN
  <2>1. txBusy' = txBusy \/ txBusy' = TRUE \/ txBusy' = FALSE
    BY DEF RxTest, RxTry, RxUse, OtherLock, OtherUnlock, TxQueue, TxSent, tx
  <2>2. QED
    BY <1>1, <2>1 DEF TypeOK
<1>4. Places'
  BY <1>1, SamePlaces DEF queue, work
<1>5. QED
  BY <1>1, <1>2, <1>3, <1>4, OtherThreads DEF TypeOK, queue

(* Every step keeps the inductive invariant.                                 *)
LEMMA NextInv == ASSUME Inv, [Next]_vars PROVE Inv'
<1>1. CASE Start
  BY <1>1, StartInv
<1>2. CASE ScanThrd
  BY <1>2, TakeHwLockInv, GetMsgInv, AbortInv, LeavesInv, SettingInv, SettingFailInv,
     SetChannelInv, ProbeInv, WaitTimeoutInv, NextChannelInv, PauseInv, PauseTimeoutInv,
     ExitInv, FreeInv, FreeBlockedInv DEF ScanThrd
<1>3. CASE \E s \in Stopper : StopTest(s) \/ StopNew(s) \/ StopPush(s)
  BY <1>3, StopTestInv, StopNewInv, StopPushInv
<1>4. CASE RxTest \/ RxTry \/ RxUse \/ OtherLock \/ OtherUnlock \/ TxQueue \/ TxSent
  BY <1>4, SurroundingsInv
<1>5. CASE UNCHANGED vars
  BY <1>5, SamePlaces DEF vars, queue, work, chip, tx, verdicts, others, history,
     Inv, TypeOK,
              Control, Counters, ChipHome
<1>6. QED
  BY <1>1, <1>2, <1>3, <1>4, <1>5 DEF Next

(* The inductive invariant holds in every reachable state.                   *)
LEMMA InvAlways == Spec => []Inv
<1>1. Init => Inv
  BY InitInv
<1>2. Inv /\ [Next]_vars => Inv'
  BY NextInv
<1>3. QED
  BY <1>1, <1>2, PTL DEF Spec

-----------------------------------------------------------------------------
(* The channel index and the number of probe requests stay in their bounds,  *)
(* and every variable of the scan keeps its type.                            *)
THEOREM ScanTypeCorrect == Spec => []TypeOK
<1>1. Inv => TypeOK
  BY DEF Inv
<1>2. QED
  BY <1>1, InvAlways, PTL

(* Whatever ends a scan (all channels done, a stop, a timeout, a failed      *)
(* command at any point), wf_scan_thrd returns with the START message free,  *)
(* the hardware lock released, the transmit path open and rate control as    *)
(* the connection wants it.                                                  *)
THEOREM ScanCleanEnd == Spec => []CleanEnd
<1>1. Inv => CleanEnd
  <2> SUFFICES ASSUME Inv, pc = "idle" PROVE CleanEnd
    BY DEF CleanEnd
  <2>1. ars = connected
    <3>1. ars \in BOOLEAN /\ connected \in BOOLEAN
      BY DEF Inv, TypeOK
    <3>2. (ars => connected) /\ (connected => ars)
      BY DEF Inv, Control, Before
    <3>3. QED
      <4>1. CASE connected = TRUE
        BY <3>1, <3>2, <4>1
      <4>2. CASE connected = FALSE
        BY <3>1, <3>2, <4>2
      <4>3. QED
        BY <3>1, <4>1, <4>2
  <2>2. /\ preq = None /\ ~brun /\ Q!Contains(free, "start") /\ hwLock # "scan" /\ txOpen
    BY DEF Inv, TypeOK, Control, Before, InChannel
  <2>3. QED
    BY <2>1, <2>2 DEF CleanEnd
<1>2. QED
  BY <1>1, InvAlways, PTL

(* However the protothread and any number of stopping threads interleave,    *)
(* each of the two messages is in exactly one place: a list, the running     *)
(* request, or the hands of one wf_scan_stop.                                *)
THEOREM ScanMessagesAccounted == Spec => []MessagesAccounted
<1>1. Inv => MessagesAccounted
  <2> SUFFICES ASSUME Inv PROVE MessagesAccounted
    OBVIOUS
  <2>1. ASSUME NEW m \in ScanMsg
        PROVE  1 = (IF Q!Contains(pend, m) THEN 1 ELSE 0)
                 + (IF Q!Contains(free, m) THEN 1 ELSE 0)
                 + (IF preq = m THEN 1 ELSE 0)
                 + (IF m = "abort" /\ \E s \in Stopper : stop[s] = "push" THEN 1 ELSE 0)
    <3>1. OnePlace(m) /\ (m = "abort" => preq # m)
      BY DEF Inv, Places, TypeOK, None
    <3>2. QED
      BY <3>1 DEF OnePlace, Pushing
  <2>2. QED
    BY <2>1 DEF Inv, MessagesAccounted
<1>2. QED
  BY <1>1, InvAlways, PTL

(* Without the hardware lock every setting of the chip is the normal one,    *)
(* unless the very command of scan_setting_recover that should have restored *)
(* it failed, or scan_setting failed after it had made the setting.          *)
THEOREM ScanUnderLock == Spec => []ChipScansUnderLock
<1>1. Inv => ChipScansUnderLock
  <2> SUFFICES ASSUME Inv, hwLock # "scan" PROVE ChipScansUnderLock
    BY DEF ChipScansUnderLock
  <2>1. ~brun
    BY DEF Inv, TypeOK, Control, InChannel
  <2>2. QED
    BY <2>1 DEF Inv, ChipHome, ChipScansUnderLock
<1>2. QED
  BY <1>1, InvAlways, PTL

(* While wf_scan_filter holds req_lock, the request it reads is not freed:   *)
(* the only step that clears preq waits for req_lock, and the one that sets  *)
(* it finds none.                                                            *)
THEOREM ScanRequestKept == Spec => RequestKeptUnderLock
<1>1. Inv /\ [Next]_vars => [reqLock = "rx" /\ preq # None => preq' = preq]_vars
  <2> SUFFICES ASSUME Inv, Next, reqLock = "rx", preq # None
               PROVE  preq' = preq
    OBVIOUS
  <2>1. pc # "getmsg"
    BY DEF Inv, TypeOK, Control, Before
  <2>2. ~Free
    BY DEF Free, None
  <2>3. CASE Start
    BY <2>3 DEF Start
  <2>4. CASE ScanThrd
    BY <2>1, <2>2, <2>4 DEF ScanThrd, TakeHwLock, GetMsg, DrainAbort,
       DrainTimeout, Setting,
       SettingFail, SetChannel, ChannelFail, AllChannels, Probe, WaitAbort, WaitTimeout,
       NextChannel, Pause, PauseTimeout, Resume, PauseFail, Done, Exit, FreeBlocked, work
  <2>5. CASE \E s \in Stopper : StopTest(s) \/ StopNew(s) \/ StopPush(s)
    BY <2>5 DEF StopTest, StopNew, StopPush, work
  <2>6. CASE RxTest \/ RxTry \/ RxUse \/ OtherLock \/ OtherUnlock \/ TxQueue \/ TxSent
    BY <2>6 DEF RxTest, RxTry, RxUse, OtherLock, OtherUnlock, TxQueue, TxSent, work
  <2>7. QED
    BY <2>3, <2>4, <2>5, <2>6 DEF Next
<1>2. QED
  BY <1>1, InvAlways, PTL DEF Spec, RequestKeptUnderLock

-----------------------------------------------------------------------------
(* A step inside one phase that leaves the hardware lock and the result      *)
(* alone is no step of the procedure.                                        *)
LEMMA ProcedureStutters ==
    ASSUME hwLock' = hwLock, Phase' = Phase, pc = "idle" <=> pc' = "idle",
           pc = "idle" => result' = result
    PROVE  UNCHANGED P!vars
BY Zenon DEF P!vars

(* Taking the hardware lock begins the work, and only when it is free.       *)
LEMMA TakeHwLockEnters == ASSUME TakeHwLock PROVE P!Enter
<1>1. pc = "lock" /\ pc' = "getmsg" /\ hwLock = None /\ hwLock' = "scan"
  BY DEF TakeHwLock
<1>2. Phase = "waiting" /\ Phase' = "working"
  BY <1>1 DEF Phase
<1>3. QED
  BY <1>1, <1>2 DEF P!Enter, P!None, None

(* Freeing the request ends the work, with what wf_scan_thrd stores.         *)
LEMMA FreeFinishes == ASSUME Inv, Free PROVE P!Finish
<1>1. pc = "free" /\ pc' = "idle" /\ hwLock' = None /\ result' = reason
  BY DEF Free
<1>2. Phase = "working" /\ Phase' = "idle"
  BY <1>1 DEF Phase
<1>3. hwLock = "scan" /\ reason \in P!Outcome
  BY <1>1 DEF Inv, TypeOK, Control, Reason, P!Outcome
<1>4. QED
  BY <1>1, <1>2, <1>3 DEF P!Finish, P!None, None

(* All other steps of wf_scan_thrd stay inside the work: the START message   *)
(* waits when the lock was taken, so the scan never returns without one.     *)
LEMMA ScanWorks ==
    ASSUME Inv, ScanThrd, ~TakeHwLock, ~Free
    PROVE  UNCHANGED P!vars
<1>1. pc = "getmsg" => pend # << >>
  BY DEF Inv, Control, Q!Contains
<1>2. hwLock' = hwLock
  BY <1>1 DEF ScanThrd, GetMsg, DrainAbort, DrainTimeout, Setting, SettingFail, SetChannel,
     ChannelFail, AllChannels, Probe, WaitAbort, WaitTimeout, NextChannel, Pause,
     PauseTimeout, Resume, PauseFail, Done, Exit, FreeBlocked
<1>3. pc \notin {"idle", "lock"} /\ pc' \notin {"idle", "lock"}
  BY <1>1 DEF ScanThrd, GetMsg, DrainAbort, DrainTimeout, Setting, SettingFail, SetChannel,
     ChannelFail, AllChannels, Probe, WaitAbort, WaitTimeout, NextChannel, Pause,
     PauseTimeout, Resume, PauseFail, Done, Exit, FreeBlocked, Leave
<1>4. QED
  BY <1>2, <1>3, ProcedureStutters DEF Phase

(* The stopping threads, the receive thread and the transmit path neither    *)
(* move the procedure nor touch the hardware lock.                           *)
LEMMA OthersStutter ==
    ASSUME \/ \E s \in Stopper : StopTest(s) \/ StopNew(s) \/ StopPush(s)
           \/ RxTest \/ RxTry \/ RxUse \/ TxQueue \/ TxSent
           \/ UNCHANGED vars
    PROVE  UNCHANGED P!vars
<1>1. pc' = pc /\ hwLock' = hwLock /\ result' = result
  BY DEF StopTest, StopNew, StopPush, RxTest, RxTry, RxUse, TxQueue, TxSent, vars, verdicts
<1>2. QED
  BY <1>1, ProcedureStutters DEF Phase

(* A scan is a procedure: for any number of stopping threads and of          *)
(* channels, and commands that fail anywhere, it takes the hardware only     *)
(* when it is free, keeps it until it returns, and returns once with done,   *)
(* abort or fail in the step that gives the hardware back.                   *)
THEOREM ScanImplementsProcedure == Spec => ImplementsProcedure
<1>1. Init => P!Init
  BY DEF Init, Phase, P!Init, P!None, None
<1>2. ASSUME Inv, Next PROVE P!Next \/ UNCHANGED P!vars
  <2>1. CASE Start
    <3>1. pc = "idle" /\ pc' = "lock" /\ hwLock' = hwLock
      BY <2>1 DEF Start
    <3>2. P!Begin
      BY <3>1 DEF Phase, P!Begin, P!None, None
    <3>3. QED
      BY <3>2 DEF P!Next
  <2>2. CASE ScanThrd
    BY <1>2, <2>2, TakeHwLockEnters, FreeFinishes, ScanWorks, Zenon DEF P!Next
  <2>3. CASE OtherLock \/ OtherUnlock
    <3>1. /\ pc' = pc /\ result' = result
          /\ \/ hwLock = None /\ hwLock' = "other"
             \/ hwLock = "other" /\ hwLock' = None
      BY <2>3 DEF OtherLock, OtherUnlock, verdicts
    <3>2. P!OtherTakes \/ P!OtherReleases
      BY <3>1 DEF Phase, P!OtherTakes, P!OtherReleases, P!None, P!Other, None
    <3>3. QED
      BY <3>2 DEF P!Next
  <2>4. CASE \/ \E s \in Stopper : StopTest(s) \/ StopNew(s) \/ StopPush(s)
             \/ RxTest \/ RxTry \/ RxUse \/ TxQueue \/ TxSent
    BY <2>4, OthersStutter, Zenon
  <2>5. QED
    BY <1>2, <2>1, <2>2, <2>3, <2>4, Zenon DEF Next
<1>3. Inv /\ [Next]_vars => [P!Next]_(P!vars)
  BY <1>2, OthersStutter
<1>4. QED
  BY <1>1, <1>3, InvAlways, PTL DEF Spec, ImplementsProcedure, P!Spec
=============================================================================
