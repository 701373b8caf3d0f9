--------------------------- MODULE AuthStaProofs ---------------------------
(***************************************************************************)
(* Proofs about the authentication of a station, for every set of access   *)
(* points, any number of tries and of sessions.  The inductive invariant   *)
(* Inv relates the place of every message, the point where the protothread *)
(* waits, the hardware lock, the frames under way and what the access      *)
(* point answers; Counted adds, for the first session, how many refusals   *)
(* of open system can still arrive.                                        *)
(***************************************************************************)
EXTENDS AuthSta, TLAPS

-----------------------------------------------------------------------------
\* Every message is in one list or in the hands of the receive thread; only an
\* answer without a challenge text is never given back.
OnePlace(m) ==
    /\ Q!Contains(pend, m) => ~Q!Contains(free, m)
    /\ Q!Contains(pend, m) \/ Q!Contains(free, m) => rx.msg # m
    /\ ap.chal => Q!Contains(pend, m) \/ Q!Contains(free, m) \/ rx.msg = m

Homes ==
    /\ Q!LinkedOnce(pend) /\ Q!LinkedOnce(free) /\ Q!KeySorted(pend)
    /\ \A m \in AuthMsg : OnePlace(m)
    /\ rx.at = "push" <=> rx.msg # None

\* START, the least urgent message, is pending exactly until the protothread
\* takes it.
Control ==
    /\ brun <=> pc \in {"send", "wait"}
    /\ hwLock = "auth" <=> pc \in {"getmsg", "send", "wait"}
    /\ pc \in {"lock", "getmsg"} => Q!Contains(pend, "start")
    /\ pc \in {"idle", "send", "wait"} => Q!Contains(free, "start")
    /\ pc # "idle" => session > 0 /\ result = None
    /\ pc = "wait" => retryCnt < ResendTimes
    /\ authSeq = 3 => authAlgo = "shared"
    /\ retryCnt > ResendTimes => ~ap.key

\* A frame of the access point is its answer to a request; it has requests for
\* shared key to answer only if it refused open system.
NeedsShared == ap.ans["open"] = "noalg"

Honest(f) ==
    /\ f.seq = 2 => f.status = ap.ans[f.algo] /\ (f.algo = "shared" /\ ap.chal => f.chal)
    /\ f.seq = 4 => f.algo = "shared" /\ (ap.key => f.status = "ok")
    /\ f.algo = "shared" => NeedsShared

Frames ==
    /\ \A m \in Rsp : Honest(val[m])
    /\ Honest(rx.frame)
    /\ \A r \in Req : air[r] > 0 /\ r[2] = "shared" => NeedsShared
    /\ authAlgo = "shared" => NeedsShared

\* Each try of each session sends one request of either sequence number.
Tries(n) == n * ResendTimes

Here(r) == CASE r[1] < authSeq -> ResendTimes
             [] r[1] > authSeq -> 0
             [] r[1] = authSeq /\ pc = "wait" -> retryCnt + 1
             [] r[1] = authSeq /\ pc # "wait" ->
                    IF retryCnt > ResendTimes THEN ResendTimes ELSE retryCnt

Sent(r) == CASE pc = "idle" -> Tries(session)
             [] pc \in {"lock", "getmsg"} -> Tries(session - 1)
             [] pc \in {"send", "wait"} -> Tries(session - 1) + Here(r)

Inv ==
    /\ TypeOK
    /\ Homes
    /\ Control
    /\ Frames
    /\ \A r \in Req : air[r] <= Sent(r)
    /\ FreshMessages

\* The answers to seq 1 for an algorithm that are under way or stored
One(f, a) == IF f.seq = 2 /\ f.algo = a THEN 1 ELSE 0

Waiting(a) == air[<< 1, a >>] + One(rx.frame, a) + One(val["rsp1"], a) + One(val["rsp2"], a)

\* The first session, at an access point that refuses open system and offers
\* shared key: to leave shared key again costs a refusal of its own, and with
\* three tries nothing is left to send then.
FirstSession == session = 1 /\ pc \in {"send", "wait"} /\ authSeq = 1

Counted ==
    /\ rx.at = "idle" => rx.frame = NoFrame
    /\ session = 0 \/ (session = 1 /\ pc \in {"lock", "getmsg"}) =>
            Waiting("open") = 0 /\ Waiting("shared") = 0
    /\ ap.ans["shared"] = "ok" /\ FirstSession =>
        /\ authAlgo = "open" /\ retryCnt < ResendTimes =>
              /\ Waiting("shared") = 0
              /\ Waiting("open") <= IF pc = "wait" THEN retryCnt + 1 ELSE retryCnt
        /\ authAlgo = "shared" => Waiting("open") <= retryCnt - 1

FirstInv == Inv /\ Counted /\ DoneMeansAccepted

-----------------------------------------------------------------------------
(* The messages and their tags: START is the least urgent, and the tag tells *)
(* ABORT and START from the answers.                                         *)
LEMMA TagType == AuthTag \in [AuthMsg -> Q!Tags]
BY DEF AuthTag, AuthMsg, Q!Tags, AuthPri

(* The tag tells ABORT and START from the answers, and nothing is less       *)
(* urgent than START.                                                        *)
LEMMA TagFacts ==
    /\ \A m \in AuthMsg : AuthTag[m] = AuthTag["rsp1"] => m \in Rsp
    /\ \A m \in AuthMsg : AuthTag[m] = AuthTag["abort"] => m = "abort"
    /\ \A m \in AuthMsg : AuthTag[m] = AuthTag["start"] => m = "start"
    /\ \A m \in AuthMsg : Q!Key("start") <= Q!Key(m) => m = "start"
    /\ {"abort", "start", "rsp1"} \subseteq AuthMsg /\ Rsp \subseteq AuthMsg
    /\ None \notin AuthMsg
BY DEF AuthTag, AuthMsg, AuthPri, Rsp, Q!Key, Q!TagKey, None

(* FreshMessages in terms of the messages of the list.                       *)
LEMMA FreshDef ==
    ASSUME TypeOK
    PROVE  FreshMessages <=> (brun => \A m \in AuthMsg : Q!Contains(pend, m) => m \in fresh)
BY DEF TypeOK, FreshMessages, Q!ToSet, Q!Contains

(* The same in the next state.                                               *)
LEMMA FreshDefNext ==
    ASSUME TypeOK'
    PROVE  FreshMessages' <=>
                (brun' => \A m \in AuthMsg : Q!Contains(pend', m) => m \in fresh')
BY DEF TypeOK, FreshMessages, Q!ToSet, Q!Contains

(* The requests, and the answers of the access point.                        *)
LEMMA ReqFacts ==
    /\ \A r \in Req : r[1] \in {1, 3} /\ r[2] \in Algo /\ (r[1] = 3 => r[2] = "shared")
    /\ << 1, "open" >> \in Req /\ << 1, "shared" >> \in Req /\ << 3, "shared" >> \in Req
    /\ \A r \in Req : r[1] = 1 => r = << 1, r[2] >>
    /\ \A a \in Algo : << 1, a >> \in Req
BY DEF Req, Algo

(* What an access point is made of.                                          *)
LEMMA ApFacts ==
    ASSUME TypeOK
    PROVE  /\ ap \in ApType /\ ap.ans \in [Algo -> Status]
           /\ ap.chal \in BOOLEAN /\ ap.key \in BOOLEAN
<1>1. ap \in ApType
  BY AuthAssumption DEF TypeOK
<1>2. QED
  BY <1>1, Zenon DEF ApType

(* What the access point answers to a request is a frame of its own.         *)
LEMMA AnswerFacts ==
    ASSUME TypeOK, NEW r \in Req, r[2] = "shared" => NeedsShared
    PROVE  /\ Answer(r) \in Frame /\ Honest(Answer(r))
           /\ Answer(r).seq = 2 <=> r[1] = 1
           /\ Answer(r).algo = r[2]
<1>1. /\ ap.ans \in [Algo -> Status] /\ ap.chal \in BOOLEAN /\ ap.key \in BOOLEAN
      /\ r[1] \in {1, 3} /\ r[2] \in Algo /\ (r[1] = 3 => r[2] = "shared")
  BY ApFacts, ReqFacts
<1> DEFINE st == IF r[1] = 1 THEN ap.ans[r[2]] ELSE IF ap.key THEN "ok" ELSE "deny"
           ch == r = << 1, "shared" >> /\ ap.chal
<1>2. st \in Status /\ ch \in BOOLEAN /\ r[1] + 1 \in {2, 4}
  <2>1. CASE r[1] = 1
    BY <1>1, <2>1
  <2>2. CASE r[1] = 3
    BY <1>1, <2>2 DEF Status
  <2>3. QED
    BY <1>1, <2>1, <2>2
<1>3. Answer(r) = [seq |-> r[1] + 1, status |-> st, algo |-> r[2], chal |-> ch]
  BY DEF Answer
<1>4. Answer(r) \in Frame
  BY <1>1, <1>2, <1>3 DEF Frame
<1>5. /\ Answer(r).seq = r[1] + 1 /\ Answer(r).algo = r[2]
      /\ Answer(r).status = st /\ Answer(r).chal = ch
  BY <1>3
<1>6. r[1] = 1 /\ r[2] = "shared" /\ ap.chal => ch
  BY ReqFacts
<1>7. QED
  BY <1>1, <1>4, <1>5, <1>6 DEF Honest

(* The content of a message that carries no frame.                           *)
LEMMA NoFrameFacts ==
    /\ NoFrame.seq = 0 /\ NoFrame.algo = "open" /\ NoFrame.status = "deny"
    /\ Honest(NoFrame) /\ Honest(NoFrame)'
BY DEF NoFrame, Honest

(* The tries of all sessions.                                                *)
LEMMA TriesFacts ==
    /\ Tries(0) = 0 /\ MaxAir \in Nat
    /\ \A n \in Nat \ {0} : Tries(n - 1) \in Nat /\ Tries(n) = Tries(n - 1) + ResendTimes
    /\ \A n \in 0 .. MaxSessions : Tries(n) \in Nat /\ Tries(n) <= MaxAir
<1> USE AuthAssumption
<1>1. Tries(0) = 0 /\ MaxAir \in Nat
  BY SMT DEF Tries, MaxAir
<1>2. ASSUME NEW n \in Nat \ {0}
      PROVE  Tries(n - 1) \in Nat /\ Tries(n) = Tries(n - 1) + ResendTimes
  BY SMT DEF Tries
<1>3. ASSUME NEW n \in 0 .. MaxSessions PROVE Tries(n) \in Nat /\ Tries(n) <= MaxAir
  <2>1. (MaxSessions - n) * ResendTimes >= 0
    BY SMT
  <2>2. MaxSessions * ResendTimes = (MaxSessions - n) * ResendTimes + n * ResendTimes
    BY SMT
  <2>3. n * ResendTimes \in Nat /\ (MaxSessions - n) * ResendTimes \in Int
    BY SMT
  <2>4. QED
    BY <2>1, <2>2, <2>3, SMT DEF Tries, MaxAir
<1>4. QED
  BY <1>1, <1>2, <1>3

(* The requests of the running session are at most its tries.                *)
LEMMA HereFacts ==
    ASSUME TypeOK, Control, NEW r \in Req
    PROVE  Here(r) \in 0 .. ResendTimes
<1>1. /\ r[1] \in {1, 3} /\ authSeq \in {1, 3} /\ ResendTimes \in Nat
      /\ retryCnt \in 0 .. ResendTimes + 1 /\ (pc = "wait" => retryCnt < ResendTimes)
  BY ReqFacts, AuthAssumption DEF TypeOK, Control
<1>2. CASE r[1] < authSeq
  BY <1>1, <1>2 DEF Here
<1>3. CASE r[1] > authSeq
  BY <1>1, <1>3 DEF Here
<1>4. CASE r[1] = authSeq /\ pc = "wait"
  BY <1>1, <1>4 DEF Here
<1>5. CASE r[1] = authSeq /\ pc # "wait"
  BY <1>1, <1>5 DEF Here
<1>6. QED
  BY <1>1, <1>2, <1>3, <1>4, <1>5

(* wf_auth_init establishes the inductive invariant.                         *)
LEMMA InitInv == Init => Inv
<1> SUFFICES ASSUME Init PROVE Inv
  OBVIOUS
<1> USE AuthAssumption DEF Init
<1>1. /\ pend \in Seq(AuthMsg) /\ Len(pend) = 0
      /\ free \in Seq(AuthMsg) /\ Len(free) = 4
      /\ free[1] = "rsp1" /\ free[2] = "rsp2" /\ free[3] = "abort" /\ free[4] = "start"
  BY DEF AuthMsg
<1>2. Tries(0) = 0 /\ MaxAir \in Nat
  BY TriesFacts
<1>3. TypeOK
  <2>1. /\ retryCnt \in 0 .. ResendTimes + 1 /\ session \in 0 .. MaxSessions
        /\ taken \in 0 .. MaxOther /\ air \in [Req -> 0 .. MaxAir]
    BY <1>2
  <2>2. /\ val \in [Rsp -> Frame \cup {NoFrame}] /\ authAlgo \in Algo
        /\ rx \in [at : {"idle", "new", "push"}, frame : Frame \cup {NoFrame}, msg : Rsp \cup {None}]
    BY DEF RxIdle, Algo
  <2>3. QED
    BY <1>1, <2>1, <2>2 DEF TypeOK
<1>4. Homes
  <2>1. Q!LinkedOnce(pend) /\ Q!LinkedOnce(free) /\ Q!KeySorted(pend)
    BY <1>1 DEF Q!LinkedOnce, Q!KeySorted
  <2>2. \A m \in AuthMsg : ~Q!Contains(pend, m) /\ Q!Contains(free, m)
    BY <1>1 DEF Q!Contains, AuthMsg
  <2>3. QED
    BY <2>1, <2>2, TagFacts DEF Homes, OnePlace, RxIdle
<1>5. Control
  BY <1>1 DEF Control, Q!Contains, None
<1>6. Frames
  BY NoFrameFacts DEF Frames, RxIdle
<1>7. \A r \in Req : air[r] <= Sent(r)
  BY <1>2 DEF Sent
<1>8. FreshMessages
  BY DEF FreshMessages
<1>9. QED
  BY <1>3, <1>4, <1>5, <1>6, <1>7, <1>8 DEF Inv

-----------------------------------------------------------------------------
(* What the steps leave alone: the queue, the frames, the requests.          *)
LEMMA SameHomes == ASSUME Inv, UNCHANGED << pend, free, rx, ap >> PROVE Homes'
BY DEF Inv, Homes, OnePlace

(* Frames that nobody touches stay what they are.                            *)
LEMMA SameFrames == ASSUME Inv, UNCHANGED << val, rx, ap, air, authAlgo >> PROVE Frames'
BY DEF Inv, Frames, Honest, NeedsShared

(* A step that sends nothing leaves no more answers under way than before.   *)
LEMMA SameSent ==
    ASSUME Inv, UNCHANGED << pc, retryCnt, authSeq, session >>,
           \A r \in Req : air'[r] \in 0 .. air[r]
    PROVE  \A r \in Req : (air[r] <= Sent(r))'
<1> SUFFICES ASSUME NEW r \in Req PROVE air'[r] <= Sent(r)'
  OBVIOUS
<1>1. Sent(r)' = Sent(r)
  BY DEF Sent, Here
<1>2. air[r] \in Nat /\ air'[r] \in 0 .. air[r] /\ air[r] <= Sent(r)
  BY TriesFacts DEF Inv, TypeOK
<1>3. Sent(r) \in Int
  <2>1. /\ session \in Nat /\ session \in 0 .. MaxSessions /\ Here(r) \in Nat
        /\ pc \in {"idle", "lock", "getmsg", "send", "wait"}
        /\ pc # "idle" => session > 0
    BY HereFacts, AuthAssumption DEF Inv, TypeOK, Control
  <2>2. Tries(session) \in Nat /\ (pc # "idle" => Tries(session - 1) \in Nat)
    BY <2>1, TriesFacts
  <2>3. QED
    BY <2>1, <2>2 DEF Sent
<1>4. QED
  BY <1>1, <1>2, <1>3

(* The end of a session: it sent no more requests than it had tries.         *)
LEMMA EndSent ==
    ASSUME Inv, pc # "idle", pc' = "idle", UNCHANGED << session, air >>
    PROVE  \A r \in Req : (air[r] <= Sent(r))'
<1> SUFFICES ASSUME NEW r \in Req PROVE air'[r] <= Sent(r)'
  OBVIOUS
<1>1. /\ session \in Nat \ {0} /\ session \in 0 .. MaxSessions /\ air'[r] = air[r]
      /\ air[r] \in Nat /\ Here(r) \in 0 .. ResendTimes /\ Sent(r)' = Tries(session)
      /\ air[r] <= Tries(session - 1) \/ air[r] <= Tries(session - 1) + Here(r)
  BY AuthAssumption, HereFacts, TriesFacts DEF Inv, TypeOK, Control, Sent
<1>2. /\ Tries(session - 1) \in Nat /\ Tries(session) = Tries(session - 1) + ResendTimes
      /\ ResendTimes \in Nat
  BY <1>1, TriesFacts, AuthAssumption
<1>3. air[r] <= Tries(session)
  BY <1>1, <1>2
<1>4. QED
  BY <1>1, <1>3

(* After a wait: another try of the same request, or the first of seq 3.     *)
LEMMA RetrySent ==
    ASSUME Inv, pc = "wait", pc' = "send", UNCHANGED << session, air >>,
           \/ UNCHANGED authSeq /\ retryCnt' \in {retryCnt + 1, ResendTimes + 1}
           \/ authSeq = 1 /\ authSeq' = 3 /\ retryCnt' = 0
    PROVE  \A r \in Req : (air[r] <= Sent(r))'
<1> SUFFICES ASSUME NEW r \in Req PROVE air'[r] <= Sent(r)'
  OBVIOUS
<1>1. /\ session \in Nat \ {0} /\ air[r] \in Nat /\ air'[r] = air[r]
      /\ retryCnt \in Nat /\ retryCnt < ResendTimes /\ ResendTimes \in Nat
      /\ r[1] \in {1, 3} /\ authSeq \in {1, 3}
      /\ air[r] <= Tries(session - 1) + Here(r)
      /\ Sent(r)' = Tries(session - 1) + Here(r)'
  BY AuthAssumption, ReqFacts, TriesFacts DEF Inv, TypeOK, Control, Sent
<1>2. Here(r) \in Int /\ Here(r)' \in Int /\ Here(r) <= Here(r)'
  BY <1>1 DEF Here
<1>3. Tries(session - 1) \in Nat
  BY <1>1, TriesFacts
<1>4. QED
  BY <1>1, <1>2, <1>3

(* wf_auth_sta_start: the queue gets START behind whatever is left in it.    *)
LEMMA StartInv == ASSUME Inv, Start PROVE Inv'
<1> USE TagType, TagFacts, AuthAssumption
<1>1. /\ TypeOK /\ Homes /\ Control /\ "start" \in AuthMsg
      /\ pend \in Seq(AuthMsg) /\ free \in Seq(AuthMsg)
      /\ Q!LinkedOnce(pend) /\ Q!LinkedOnce(free) /\ Q!KeySorted(pend)
      /\ pc = "idle" /\ Q!Contains(free, "start") /\ ~Q!Contains(pend, "start")
  BY DEF Inv, TypeOK, Homes, OnePlace, Control, Start
<1>2. /\ free' \in Seq(AuthMsg) /\ Q!LinkedOnce(free')
      /\ \A x \in AuthMsg : Q!Contains(free', x) <=> Q!Contains(free, x) /\ x # "start"
  BY <1>1, Q!TakeProperties, Zenon DEF Start
<1>3. /\ pend' \in Seq(AuthMsg) /\ Q!LinkedOnce(pend')
      /\ \A x \in AuthMsg : Q!Contains(pend', x) <=> Q!Contains(pend, x) \/ x = "start"
      /\ Q!KeySorted(pend')
  BY <1>1, Q!PutProperties, Zenon DEF Start
<1>4. /\ session' = session + 1 /\ session < MaxSessions /\ pc' = "lock" /\ fresh' = {"start"}
      /\ inAuth' = TRUE /\ stopped' = FALSE /\ result' = None /\ last' = NoFrame
      /\ UNCHANGED << val, work, lock, net, rx >>
  BY DEF Start
<1>5. TypeOK'
  <2>1. inAuth' \in BOOLEAN /\ stopped' \in BOOLEAN
    BY <1>4, Zenon
  <2>2. session' \in 0 .. MaxSessions
    BY <1>1, <1>4 DEF TypeOK
  <2>3. QED
    BY <1>1, <1>2, <1>3, <1>4, <2>1, <2>2 DEF TypeOK, work, lock, net
<1>6. Homes'
  BY <1>1, <1>2, <1>3, <1>4 DEF Homes, OnePlace, net
<1>7. Control'
  BY <1>1, <1>3, <1>4 DEF Control, TypeOK, work, lock, net
<1>8. ASSUME NEW r \in Req PROVE (air[r] <= Sent(r))'
  BY <1>1, <1>4 DEF Inv, Sent, TypeOK, net
<1>9. Frames'
  BY <1>4, SameFrames DEF work, net
<1>10. FreshMessages'
  BY <1>1, <1>4, <1>5, FreshDefNext DEF Control, work
<1>11. QED
  BY <1>5, <1>6, <1>7, <1>8, <1>9, <1>10 DEF Inv

(* wf_auth_sta_stop: ABORT is pushed if the authentication runs and ABORT is *)
(* free.                                                                     *)
LEMMA StopInv == ASSUME Inv, Stop PROVE Inv'
<1> USE TagType, TagFacts
<1>1. /\ UNCHANGED << val, pc, work, outcome, session, inAuth, lock, net, rx >>
      /\ stopped' = TRUE /\ TypeOK /\ Homes /\ Control
      /\ pend \in Seq(AuthMsg) /\ free \in Seq(AuthMsg) /\ "abort" \in AuthMsg
      /\ Q!LinkedOnce(pend) /\ Q!LinkedOnce(free) /\ Q!KeySorted(pend)
  BY DEF Stop, Inv, TypeOK, Homes
<1>2. stopped' \in BOOLEAN
  BY <1>1, Zenon
<1>3. Frames' /\ \A r \in Req : (air[r] <= Sent(r))'
  <2>1. \A r \in Req : air'[r] \in 0 .. air[r]
    BY <1>1, TriesFacts DEF TypeOK, net
  <2>2. QED
    BY <1>1, <2>1, SameFrames, SameSent DEF work, net
<1>4. CASE brun /\ Q!HasFree(free, AuthTag["abort"])
  <2>1. /\ free' = Q!Unlink(free, "abort") /\ pend' = Q!Push(pend, "abort")
        /\ fresh' = fresh \cup {"abort"}
    BY <1>4 DEF Stop
  <2>2. PICK i \in 1 .. Len(free) : AuthTag[free[i]] = AuthTag["abort"]
    BY <1>4 DEF Q!HasFree
  <2>3. Q!Contains(free, "abort") /\ ~Q!Contains(pend, "abort")
    BY <1>1, <2>2 DEF Q!Contains, Homes, OnePlace
  <2>4. /\ free' \in Seq(AuthMsg) /\ Q!LinkedOnce(free')
        /\ \A x \in AuthMsg : Q!Contains(free', x) <=> Q!Contains(free, x) /\ x # "abort"
    BY <1>1, <2>1, Q!TakeProperties, Zenon
  <2>5. /\ pend' \in Seq(AuthMsg) /\ Q!LinkedOnce(pend') /\ Q!KeySorted(pend')
        /\ \A x \in AuthMsg : Q!Contains(pend', x) <=> Q!Contains(pend, x) \/ x = "abort"
    BY <1>1, <2>1, <2>3, Q!PutProperties, Zenon
  <2>6. TypeOK'
    BY <1>1, <1>2, <2>1, <2>4, <2>5 DEF TypeOK, work, outcome, lock, net
  <2>7. Homes'
    BY <1>1, <2>3, <2>4, <2>5 DEF Homes, OnePlace, net
  <2>8. Control'
    BY <1>1, <2>4, <2>5 DEF Control, work, outcome, lock, net
  <2>9. FreshMessages'
    BY <1>1, <2>1, <2>5, <2>6, FreshDef, FreshDefNext DEF Inv, work
  <2>10. QED
    BY <1>3, <2>6, <2>7, <2>8, <2>9 DEF Inv
<1>5. CASE ~(brun /\ Q!HasFree(free, AuthTag["abort"]))
  <2>1. UNCHANGED << pend, free, fresh >>
    BY <1>5 DEF Stop
  <2>2. TypeOK'
    BY <1>1, <1>2, <2>1 DEF TypeOK, work, outcome, lock, net
  <2>3. Homes'
    BY <1>1, <2>1, SameHomes DEF net
  <2>4. Control' /\ FreshMessages'
    BY <1>1, <2>1 DEF Control, Inv, FreshMessages, work, outcome, lock, net
  <2>5. QED
    BY <1>3, <2>2, <2>3, <2>4 DEF Inv
<1>6. QED
  BY <1>4, <1>5

(* wf_auth_sta_thrd waits for the hardware lock.                             *)
LEMMA TakeHwLockInv == ASSUME Inv, TakeHwLock PROVE Inv'
<1>1. /\ UNCHANGED << queue, work, outcome, mlme, taken, net, rx >>
      /\ pc = "lock" /\ hwLock = None /\ hwLock' = "auth" /\ pc' = "getmsg"
  BY DEF TakeHwLock
<1>2. TypeOK'
  BY <1>1 DEF Inv, TypeOK, queue, work, outcome, mlme, net
<1>3. Homes' /\ Frames'
  BY <1>1, SameHomes, SameFrames DEF queue, work, net
<1>4. Control'
  BY <1>1 DEF Inv, Control, TypeOK, queue, work, outcome, mlme, net
<1>5. ASSUME NEW r \in Req PROVE (air[r] <= Sent(r))'
  BY <1>1 DEF Inv, Sent, mlme, net
<1>6. FreshMessages'
  BY <1>1 DEF Inv, FreshMessages, queue, work
<1>7. QED
  BY <1>2, <1>3, <1>4, <1>5, <1>6 DEF Inv

(* A pending message is popped; it is given back, or lost if the access      *)
(* point sends no challenge text.                                            *)
LEMMA PopHomes ==
    ASSUME Inv, NEW m \in AuthMsg, Q!Contains(pend, m), Take(m),
           free' = Q!Del(free, m) \/ (free' = free /\ ~ap.chal),
           UNCHANGED << rx, ap >>
    PROVE  /\ pend' \in Seq(AuthMsg) /\ free' \in Seq(AuthMsg) /\ fresh' \subseteq AuthMsg
           /\ val' \in [Rsp -> Frame \cup {NoFrame}]
           /\ Homes'
           /\ \A x \in AuthMsg : Q!Contains(pend', x) <=> Q!Contains(pend, x) /\ x # m
           /\ \A x \in AuthMsg : Q!Contains(free, x) => Q!Contains(free', x)
           /\ free' = Q!Del(free, m) => Q!Contains(free', m)
           /\ (\A n \in Rsp : Honest(val[n]))'
           /\ \A x \in AuthMsg : x # m /\ x \in fresh => x \in fresh'
<1> USE TagType
<1>1. /\ pend \in Seq(AuthMsg) /\ free \in Seq(AuthMsg)
      /\ Q!LinkedOnce(pend) /\ Q!LinkedOnce(free) /\ Q!KeySorted(pend)
      /\ pend' = Q!Unlink(pend, m) /\ fresh' = fresh \ {m}
      /\ val' = [n \in Rsp |-> IF n = m THEN NoFrame ELSE val[n]]
  BY DEF Inv, TypeOK, Homes, Take
<1>2. /\ pend' \in Seq(AuthMsg) /\ Q!LinkedOnce(pend') /\ Q!KeySorted(pend')
      /\ \A x \in AuthMsg : Q!Contains(pend', x) <=> Q!Contains(pend, x) /\ x # m
  BY <1>1, Q!TakeProperties, Zenon
<1>3. CASE free' = Q!Del(free, m)
  <2>1. /\ free' \in Seq(AuthMsg) /\ Q!LinkedOnce(free')
        /\ \A x \in AuthMsg : Q!Contains(free', x) <=> Q!Contains(free, x) \/ x = m
    BY <1>1, <1>3, Q!DelProperties, Zenon
  <2>2. \A x \in AuthMsg : OnePlace(x)'
    BY <1>2, <2>1 DEF Inv, Homes, OnePlace
  <2>3. Homes'
    BY <1>2, <2>1, <2>2 DEF Inv, Homes
  <2>4. QED
    BY <1>1, <1>2, <2>1, <2>3, NoFrameFacts DEF Inv, TypeOK, Frames, Honest, NeedsShared
<1>4. CASE free' = free /\ ~ap.chal
  <2>1. \A x \in AuthMsg : OnePlace(x)'
    BY <1>2, <1>4 DEF Inv, Homes, OnePlace
  <2>2. Homes'
    BY <1>1, <1>2, <1>4, <2>1 DEF Inv, Homes
  <2>3. free' = Q!Del(free, m) => Q!Contains(free', m)
    <3>1. \A x \in AuthMsg : Q!Contains(Q!Del(free, m), x) <=> Q!Contains(free, x) \/ x = m
      BY <1>1, Q!DelProperties, Zenon
    <3>2. QED
      BY <3>1, Zenon
  <2>4. QED
    BY <1>1, <1>2, <1>4, <2>2, <2>3, NoFrameFacts DEF Inv, TypeOK, Frames, Honest,
       NeedsShared
<1>5. QED
  BY <1>3, <1>4

(* The end of an authentication, without a look at the queue.                *)
LEMMA EndInv ==
    ASSUME Inv, pc \in {"getmsg", "send", "wait"}, NEW why \in Result, End(why),
           pend' \in Seq(AuthMsg), free' \in Seq(AuthMsg), fresh' \subseteq AuthMsg,
           val' \in [Rsp -> Frame \cup {NoFrame}], Homes',
           (\A n \in Rsp : Honest(val[n]))',
           Q!Contains(free', "start"), last' \in Frame \cup {NoFrame},
           UNCHANGED << retryCnt, authSeq, authAlgo, mlme, taken, net, rx >>
    PROVE  Inv'
<1>1. brun' = FALSE /\ hwLock' = None /\ result' = why /\ pc' = "idle"
  BY DEF End
<1>2. TypeOK'
  BY <1>1 DEF Inv, TypeOK, mlme, net
<1>3. Control'
  BY <1>1 DEF Inv, Control, mlme, net, None
<1>4. Frames'
  BY DEF Inv, Frames, Honest, NeedsShared, net
<1>5. \A r \in Req : (air[r] <= Sent(r))'
  BY <1>1, EndSent DEF mlme, net
<1>6. FreshMessages'
  BY <1>1 DEF FreshMessages
<1>7. QED
  BY <1>2, <1>3, <1>4, <1>5, <1>6 DEF Inv

(* Messages older than START are thrown away; when START comes, as the least *)
(* urgent one, nothing else is pending.                                      *)
LEMMA GetMsgInv == ASSUME Inv, GetMsg PROVE Inv'
<1> DEFINE m == Q!EndOf(pend, FALSE)
<1> USE AuthAssumption
<1>1. /\ pc = "getmsg" /\ Q!Contains(pend, "start") /\ "start" \in AuthMsg
      /\ pend \in Seq(AuthMsg) /\ Q!KeySorted(pend)
      /\ ~brun /\ hwLock = "auth" /\ session > 0 /\ result = None
      /\ UNCHANGED << mlme, taken, net, rx >>
  BY TagFacts DEF Inv, TypeOK, Homes, Control, GetMsg
<1>2. pend # << >>
  <2>1. PICK i \in 1 .. Len(pend) : pend[i] = "start"
    BY <1>1, Zenon DEF Q!Contains
  <2>2. QED
    BY <1>1, <2>1
<1>3. /\ m \in AuthMsg /\ Q!Contains(pend, m)
      /\ \A x \in AuthMsg : Q!Contains(pend, x) => Q!Key(m) <= Q!Key(x)
  BY <1>1, <1>2, TagType, Q!HeadProperties, Zenon
<1>4. /\ Take(m) /\ free' = Q!Del(free, m)
      /\ \/ /\ m = "start" /\ brun' = TRUE /\ retryCnt' = 0 /\ authSeq' = 1
            /\ authAlgo' = "open" /\ pc' = "send" /\ UNCHANGED << hwLock, outcome >>
         \/ /\ m = "start" /\ End("fail")
            /\ UNCHANGED << retryCnt, authSeq, authAlgo, last >>
         \/ m # "start" /\ UNCHANGED << pc, work, outcome, hwLock >>
  BY <1>2 DEF GetMsg
<1> HIDE DEF m
<1>5. /\ pend' \in Seq(AuthMsg) /\ free' \in Seq(AuthMsg) /\ fresh' \subseteq AuthMsg
      /\ val' \in [Rsp -> Frame \cup {NoFrame}]
      /\ Homes'
      /\ \A x \in AuthMsg : Q!Contains(pend', x) <=> Q!Contains(pend, x) /\ x # m
      /\ Q!Contains(free', m)
      /\ (\A n \in Rsp : Honest(val[n]))'
  BY <1>1, <1>3, <1>4, PopHomes DEF net
<1>6. CASE m = "start" /\ pc' = "send"
  <2>1. /\ brun' = TRUE /\ retryCnt' = 0 /\ authSeq' = 1 /\ authAlgo' = "open"
        /\ UNCHANGED << hwLock, outcome >>
    BY <1>4, <1>6, Zenon DEF End
  <2>2. TypeOK'
    <3>1. brun' \in BOOLEAN /\ retryCnt' \in 0 .. ResendTimes + 1 /\ authAlgo' \in Algo
      BY <2>1 DEF Algo
    <3>2. QED
      BY <1>1, <1>5, <1>6, <2>1, <3>1 DEF Inv, TypeOK, outcome, mlme, net
  <2>3. Control'
    <3>1. ~(retryCnt' > ResendTimes)
      BY <2>1
    <3>2. QED
      BY <1>1, <1>5, <1>6, <2>1, <3>1 DEF Control, outcome, mlme
  <2>4. Frames'
    BY <1>1, <1>5, <2>1 DEF Inv, Frames, Honest, NeedsShared, net
  <2>5. ASSUME NEW r \in Req PROVE (air[r] <= Sent(r))'
    <3>1. /\ session \in Nat \ {0} /\ air' = air /\ air[r] \in Nat /\ air[r] <= Tries(session - 1)
          /\ Sent(r)' = Tries(session - 1) + Here(r)'
      BY <1>1, <1>6, TriesFacts DEF Inv, TypeOK, Sent, mlme, net
    <3>2. Tries(session - 1) \in Nat /\ Here(r)' \in Nat
      BY <1>6, <2>1, <3>1, TriesFacts, ReqFacts DEF Here
    <3>3. QED
      BY <3>1, <3>2
  <2>6. FreshMessages'
    <3>1. \A x \in AuthMsg : Q!Contains(pend, x) => x = m
      BY <1>3, <1>6, TagFacts, Zenon
    <3>2. QED
      BY <1>5, <2>2, <3>1, FreshDefNext, Zenon
  <2>7. QED
    BY <1>5, <2>2, <2>3, <2>4, <2>5, <2>6 DEF Inv
<1>7. CASE m = "start" /\ End("fail") /\ UNCHANGED << retryCnt, authSeq, authAlgo, last >>
  <2>1. "fail" \in Result /\ last \in Frame \cup {NoFrame}
    BY DEF Result, Inv, TypeOK
  <2>2. Q!Contains(free', "start")
    BY <1>5, <1>7
  <2>3. QED
    BY <1>1, <1>5, <1>7, <2>1, <2>2, EndInv
<1>8. CASE m # "start" /\ UNCHANGED << pc, work, outcome, hwLock >>
  <2>1. TypeOK'
    BY <1>1, <1>5, <1>8 DEF Inv, TypeOK, work, outcome, mlme, net
  <2>2. Control'
    BY <1>1, <1>5, <1>8 DEF Inv, Control, work, outcome, mlme, net
  <2>3. Frames'
    BY <1>1, <1>5, <1>8 DEF Inv, Frames, Honest, NeedsShared, work, net
  <2>4. \A r \in Req : (air[r] <= Sent(r))'
    <3>1. \A r \in Req : air'[r] \in 0 .. air[r]
      BY <1>1, TriesFacts DEF Inv, TypeOK, net
    <3>2. QED
      BY <1>1, <1>8, <3>1, SameSent DEF work, mlme
  <2>5. FreshMessages'
    BY <1>1, <1>8 DEF FreshMessages, work
  <2>6. QED
    BY <1>5, <2>1, <2>2, <2>3, <2>4, <2>5 DEF Inv
<1>9. QED
  BY <1>4, <1>6, <1>7, <1>8

(* The request is sent, and its answer may come from now on.                 *)
LEMMA SendInv == ASSUME Inv, Send PROVE Inv'
<1> USE AuthAssumption
<1> DEFINE q == << authSeq, authAlgo >>
<1>1. /\ UNCHANGED << queue, work, outcome, mlme, lock, ap, rx >>
      /\ pc = "send" /\ pc' = "wait" /\ retryCnt < ResendTimes
      /\ air' = [air EXCEPT ![q] = @ + 1]
      /\ TypeOK /\ Control /\ retryCnt \in Nat /\ ResendTimes \in Nat
  BY DEF Send, Inv, TypeOK
<1>2. q \in Req /\ q[1] = authSeq /\ q[2] = authAlgo
  BY <1>1 DEF TypeOK, Control, Req, Algo
<1> HIDE DEF q
<1>3. /\ \A r \in Req : air[r] \in Nat /\ air'[r] \in Nat
      /\ \A r \in Req : r # q => air'[r] = air[r]
      /\ air'[q] = air[q] + 1
  <2>1. air \in [Req -> Nat]
    <3>1. air \in [Req -> 0 .. MaxAir] /\ MaxAir \in Nat
      BY <1>1, TriesFacts DEF TypeOK
    <3>2. QED
      BY <3>1
  <2>2. QED
    BY <1>1, <1>2, <2>1
<1>4. ASSUME NEW r \in Req PROVE (air[r] <= Sent(r))' /\ air'[r] \in 0 .. MaxAir
  <2>1. /\ session \in Nat \ {0} /\ session \in 0 .. MaxSessions
        /\ air[r] <= Tries(session - 1) + Here(r)
        /\ Sent(r)' = Tries(session - 1) + Here(r)'
    BY <1>1 DEF Inv, TypeOK, Control, Sent, work, mlme
  <2>2. /\ Here(r) \in Nat /\ Here(r)' \in 0 .. ResendTimes /\ Here(r) <= Here(r)'
        /\ r = q => Here(r)' = Here(r) + 1
    <3>1. r[1] \in {1, 3} /\ authSeq \in {1, 3} /\ authSeq' = authSeq /\ retryCnt' = retryCnt
      BY <1>1, ReqFacts DEF TypeOK, work
    <3>2. QED
      BY <1>1, <1>2, <3>1 DEF Here
  <2>3. /\ Tries(session - 1) \in Nat /\ Tries(session) = Tries(session - 1) + ResendTimes
        /\ Tries(session) <= MaxAir /\ MaxAir \in Nat /\ Tries(session) \in Nat
    BY <2>1, TriesFacts
  <2>4. air'[r] <= Tries(session - 1) + Here(r)'
    BY <1>3, <2>1, <2>2, <2>3
  <2>5. air'[r] <= MaxAir
    BY <1>3, <2>2, <2>3, <2>4
  <2>6. QED
    BY <1>3, <2>1, <2>3, <2>4, <2>5
<1>5. TypeOK'
  <2>1. air' \in [Req -> 0 .. MaxAir]
    BY <1>1, <1>2, <1>3, <1>4 DEF TypeOK
  <2>2. QED
    BY <1>1, <2>1 DEF TypeOK, queue, work, outcome, mlme, lock
<1>6. Homes'
  BY <1>1, SameHomes DEF queue
<1>7. Control'
  BY <1>1 DEF Control, queue, work, outcome, mlme, lock
<1>8. Frames'
  <2>1. ASSUME NEW r \in Req, air'[r] > 0, r[2] = "shared" PROVE NeedsShared
    BY <1>2, <1>3, <2>1 DEF Inv, Frames
  <2>2. QED
    BY <1>1, <2>1 DEF Inv, Frames, Honest, NeedsShared, queue, work
<1>9. FreshMessages'
  BY <1>1 DEF Inv, FreshMessages, queue, work
<1>10. QED
  BY <1>4, <1>5, <1>6, <1>7, <1>8, <1>9 DEF Inv

(* Sending fails, or the tries are exhausted.                                *)
LEMMA GiveUpInv == ASSUME Inv, SendFail \/ GiveUp PROVE Inv'
<1>1. /\ UNCHANGED << queue, retryCnt, authSeq, authAlgo, last, mlme, taken, net, rx >>
      /\ pc = "send"
  BY DEF SendFail, GiveUp
<1>2. PICK why \in Result : End(why)
  BY DEF SendFail, GiveUp, GiveUpResults, Result
<1>3. Homes'
  BY <1>1, SameHomes DEF queue, net
<1>4. /\ pend' \in Seq(AuthMsg) /\ free' \in Seq(AuthMsg) /\ fresh' \subseteq AuthMsg
      /\ val' \in [Rsp -> Frame \cup {NoFrame}] /\ last' \in Frame \cup {NoFrame}
      /\ Q!Contains(free', "start")
  BY <1>1 DEF Inv, TypeOK, Control, queue
<1>5. (\A n \in Rsp : Honest(val[n]))'
  BY <1>1 DEF Inv, Frames, Honest, NeedsShared, queue, net
<1>6. QED
  BY <1>1, <1>2, <1>3, <1>4, <1>5, EndInv

(* No answer within the time: one try is spent.                              *)
LEMMA TimeoutInv == ASSUME Inv, Timeout PROVE Inv'
<1> USE AuthAssumption
<1>1. /\ UNCHANGED << queue, brun, authSeq, authAlgo, outcome, mlme, lock, net, rx >>
      /\ pc = "wait" /\ pc' = "send" /\ retryCnt' = retryCnt + 1
      /\ retryCnt < ResendTimes /\ retryCnt \in Nat
  BY DEF Timeout, Inv, Control, TypeOK
<1>2. retryCnt' \in 0 .. ResendTimes + 1 /\ ~(retryCnt' > ResendTimes)
  BY <1>1
<1>3. TypeOK'
  BY <1>1, <1>2 DEF Inv, TypeOK, queue, outcome, mlme, lock, net
<1>4. Homes' /\ Frames'
  BY <1>1, SameHomes, SameFrames DEF queue, net
<1>5. Control'
  BY <1>1, <1>2 DEF Inv, Control, queue, outcome, mlme, lock
<1>6. \A r \in Req : (air[r] <= Sent(r))'
  BY <1>1, RetrySent DEF mlme, net
<1>7. FreshMessages'
  BY <1>1 DEF Inv, FreshMessages, queue
<1>8. QED
  BY <1>3, <1>4, <1>5, <1>6, <1>7 DEF Inv

(* ABORT comes while the protothread waits.                                  *)
LEMMA WaitAbortInv == ASSUME Inv, WaitAbort PROVE Inv'
<1>1. /\ pc = "wait" /\ pend # << >> /\ Q!EndOf(pend, FALSE) = "abort"
      /\ pend \in Seq(AuthMsg) /\ Take("abort") /\ free' = Q!Del(free, "abort") /\ End("abort")
      /\ UNCHANGED << retryCnt, authSeq, authAlgo, last, mlme, taken, net, rx >>
      /\ Q!Contains(free, "start") /\ last \in Frame \cup {NoFrame}
  BY DEF WaitAbort, Inv, TypeOK, Control
<1>2. "abort" \in AuthMsg /\ Q!Contains(pend, "abort")
  BY <1>1, TagType, Q!EndOfProperties, Zenon
<1>3. /\ pend' \in Seq(AuthMsg) /\ free' \in Seq(AuthMsg) /\ fresh' \subseteq AuthMsg
      /\ val' \in [Rsp -> Frame \cup {NoFrame}] /\ Homes'
      /\ \A x \in AuthMsg : Q!Contains(free, x) => Q!Contains(free', x)
      /\ (\A n \in Rsp : Honest(val[n]))'
  BY <1>1, <1>2, PopHomes DEF net
<1>4. Q!Contains(free', "start") /\ "abort" \in Result
  BY <1>1, <1>3, TagFacts DEF Result
<1>5. QED
  BY <1>1, <1>3, <1>4, EndInv

(* After an answer the protothread sends again: the same request, the other  *)
(* algorithm, or the answer to the challenge.                                *)
LEMMA RetryInv ==
    ASSUME Inv, pc = "wait", pc' = "send",
           pend' \in Seq(AuthMsg), free' \in Seq(AuthMsg), fresh' \subseteq AuthMsg,
           val' \in [Rsp -> Frame \cup {NoFrame}], Homes',
           (\A n \in Rsp : Honest(val[n]))',
           Q!Contains(free', "start"), last' \in Frame \cup {NoFrame},
           \A m \in AuthMsg : Q!Contains(pend', m) => m \in fresh',
           UNCHANGED << brun, result, hwLock, mlme, taken, net, rx >>,
           authAlgo' \in Algo, authAlgo' = "shared" => NeedsShared,
           authSeq' = 3 => authAlgo' = "shared",
           \/ UNCHANGED authSeq /\ retryCnt' = retryCnt + 1
           \/ UNCHANGED authSeq /\ retryCnt' = ResendTimes + 1 /\ ~ap.key
           \/ authSeq = 1 /\ authSeq' = 3 /\ retryCnt' = 0
    PROVE  Inv'
<1> USE AuthAssumption
<1>1. retryCnt \in Nat /\ retryCnt < ResendTimes /\ ResendTimes \in Nat /\ authSeq \in {1, 3}
  BY DEF Inv, TypeOK, Control
<1>2. /\ retryCnt' \in 0 .. ResendTimes + 1 /\ (retryCnt' > ResendTimes => ~ap.key)
      /\ authSeq' \in {1, 3}
  BY <1>1
<1>3. TypeOK'
  BY <1>2 DEF Inv, TypeOK, mlme, net
<1>4. Control'
  BY <1>2 DEF Inv, Control, mlme, net
<1>5. Frames'
  BY DEF Inv, Frames, Honest, NeedsShared, net
<1>6. \A r \in Req : (air[r] <= Sent(r))'
  BY RetrySent DEF mlme, net
<1>7. FreshMessages'
  BY <1>3, FreshDefNext
<1>8. QED
  BY <1>3, <1>4, <1>5, <1>6, <1>7 DEF Inv

(* The frame f of the answer m that is looked at: what it can be, and when   *)
(* its message is not given back.                                            *)
LEMMA AnswerRead ==
    ASSUME Inv, WaitRsp
    PROVE  \E m \in Rsp :
            /\ m \in AuthMsg /\ Q!Contains(pend, m) /\ Take(m)
            /\ free' = Q!Del(free, m) \/ (free' = free /\ ~ap.chal)
            /\ val[m] \in Frame \cup {NoFrame} /\ Honest(val[m])
            /\ IF authSeq = 1 THEN WaitSeq2(val[m]) ELSE WaitSeq4(val[m])
<1> DEFINE m == Q!EndOf(pend, FALSE)
           f == val[m]
<1>1. /\ pend # << >> /\ pend \in Seq(AuthMsg) /\ m \in Rsp /\ Take(m)
      /\ free' = IF Deleted(f) THEN Q!Del(free, m) ELSE free
      /\ IF authSeq = 1 THEN WaitSeq2(f) ELSE WaitSeq4(f)
      /\ f \in Frame \cup {NoFrame} /\ Honest(f)
  BY DEF WaitRsp, Inv, TypeOK, Frames
<1>2. m \in AuthMsg /\ Q!Contains(pend, m)
  BY <1>1, TagType, Q!EndOfProperties, Zenon
<1> HIDE DEF m
<1>3. ~Deleted(f) => ~ap.chal
  <2> SUFFICES ASSUME ~Deleted(f) PROVE ~ap.chal
    OBVIOUS
  <2>1. f.seq = 2 /\ f.status = "ok" /\ authAlgo = "shared" /\ ~f.chal
    BY DEF Deleted
  <2>2. NeedsShared /\ f \in Frame
    BY <1>1, <2>1, NoFrameFacts DEF Inv, Frames
  <2>3. f.algo \in {"open", "shared"}
    BY <2>2, Zenon DEF Frame, Algo
  <2>4. QED
    BY <1>1, <2>1, <2>2, <2>3 DEF Honest, NeedsShared
<1>4. free' = Q!Del(free, m) \/ (free' = free /\ ~ap.chal)
  BY <1>1, <1>3
<1>5. QED
  BY <1>1, <1>2, <1>4

(* An answer comes while the protothread waits.                              *)
LEMMA WaitRspInv == ASSUME Inv, WaitRsp PROVE Inv'
<1>1. PICK m \in Rsp :
            /\ m \in AuthMsg /\ Q!Contains(pend, m) /\ Take(m)
            /\ free' = Q!Del(free, m) \/ (free' = free /\ ~ap.chal)
            /\ val[m] \in Frame \cup {NoFrame} /\ Honest(val[m])
            /\ IF authSeq = 1 THEN WaitSeq2(val[m]) ELSE WaitSeq4(val[m])
  BY AnswerRead
<1> DEFINE f == val[m]
<1>2. /\ pc = "wait" /\ brun /\ Q!Contains(free, "start") /\ UNCHANGED << mlme, taken, net, rx >>
      /\ retryCnt \in Nat /\ authSeq \in {1, 3} /\ authAlgo \in {"open", "shared"}
      /\ last \in Frame \cup {NoFrame} /\ (authSeq = 3 => authAlgo = "shared")
      /\ authAlgo = "shared" => NeedsShared
  BY AuthAssumption DEF WaitRsp, Inv, TypeOK, Control, Frames, Algo
<1>3. /\ pend' \in Seq(AuthMsg) /\ free' \in Seq(AuthMsg) /\ fresh' \subseteq AuthMsg
      /\ val' \in [Rsp -> Frame \cup {NoFrame}] /\ Homes'
      /\ \A x \in AuthMsg : Q!Contains(pend', x) <=> Q!Contains(pend, x) /\ x # m
      /\ \A x \in AuthMsg : Q!Contains(free, x) => Q!Contains(free', x)
      /\ (\A n \in Rsp : Honest(val[n]))'
      /\ \A x \in AuthMsg : x # m /\ x \in fresh => x \in fresh'
  BY <1>1, <1>2, PopHomes DEF net
<1>4. Q!Contains(free', "start") /\ {"done", "fail"} \subseteq Result
  BY <1>2, <1>3, TagFacts DEF Result
<1>5. \A x \in AuthMsg : Q!Contains(pend', x) => x \in fresh'
  BY <1>2, <1>3, FreshDef DEF Inv
<1>6. CASE Accept(f)
  <2>1. End("done") /\ last' = f /\ UNCHANGED << retryCnt, authSeq, authAlgo >>
    BY <1>6 DEF Accept
  <2>2. QED
    BY <1>1, <1>2, <1>3, <1>4, <2>1, EndInv
<1>7. CASE End("fail") /\ UNCHANGED << retryCnt, authSeq, authAlgo, last >>
  BY <1>2, <1>3, <1>4, <1>7, EndInv
<1>8. CASE authSeq = 1 /\ Resend2(f)
  <2>1. /\ retryCnt' = retryCnt + 1 /\ pc' = "send"
        /\ UNCHANGED << brun, authSeq, result, last, hwLock >>
        /\ authAlgo' \in {"open", "shared"}
        /\ authAlgo' # authAlgo => f.seq = 2 /\ f.status = "noalg"
    BY <1>2, <1>8 DEF Resend2, Toggle, outcome
  <2>2. authAlgo' = "shared" => NeedsShared
    <3>1. CASE authAlgo' = authAlgo
      BY <1>2, <3>1
    <3>2. CASE authAlgo' # authAlgo
      <4>1. f \in Frame
        BY <1>1, <2>1, <3>2, NoFrameFacts
      <4>2. f.algo \in {"open", "shared"}
        BY <4>1, Zenon DEF Frame, Algo
      <4>3. QED
        BY <1>1, <2>1, <3>2, <4>2 DEF Honest, NeedsShared
    <3>3. QED
      BY <3>1, <3>2
  <2>3. authAlgo' \in Algo /\ authSeq' # 3
    BY <1>8, <2>1 DEF Algo
  <2>4. QED
    BY <1>2, <1>3, <1>4, <1>5, <2>1, <2>2, <2>3, RetryInv
<1>9. CASE authSeq = 1 /\ authAlgo # "open" /\ Challenge
  <2>1. /\ authSeq' = 3 /\ retryCnt' = 0 /\ pc' = "send"
        /\ UNCHANGED << brun, authAlgo, result, last, hwLock >>
        /\ authAlgo = "shared" /\ authAlgo \in Algo
    BY <1>2, <1>9 DEF Challenge, outcome, Algo
  <2>2. QED
    BY <1>2, <1>3, <1>4, <1>5, <1>9, <2>1, RetryInv
<1>10. CASE /\ authSeq = 3 /\ ~(f.seq = 4 /\ f.status = "ok")
            /\ retryCnt' = RetryAfterSeq4(f) /\ pc' = "send" /\ last' = f
            /\ UNCHANGED << brun, authSeq, authAlgo, result, hwLock >>
  <2>1. retryCnt' = retryCnt + 1 \/ (retryCnt' = ResendTimes + 1 /\ f.seq = 4)
    BY <1>10 DEF RetryAfterSeq4
  <2>2. f.seq = 4 => ~ap.key
    BY <1>1, <1>10 DEF Honest
  <2>3. authAlgo' \in Algo
    BY <1>2, <1>10 DEF Algo
  <2>4. QED
    BY <1>1, <1>2, <1>3, <1>4, <1>5, <1>10, <2>1, <2>2, <2>3, RetryInv
<1>11. QED
  BY <1>1, <1>2, <1>6, <1>7, <1>8, <1>9, <1>10 DEF WaitSeq2, WaitSeq4

-----------------------------------------------------------------------------
(* The steps of the receive thread leave the protothread's state alone.      *)
LEMMA ReceiveThread ==
    ASSUME Inv, UNCHANGED << pc, work, outcome, mlme, lock, ap >>,
           air' \in [Req -> 0 .. MaxAir], \A r \in Req : air'[r] \in 0 .. air[r],
           pend' \in Seq(AuthMsg), free' \in Seq(AuthMsg), fresh' \subseteq AuthMsg,
           val' \in [Rsp -> Frame \cup {NoFrame}],
           rx' \in [at : {"idle", "new", "push"}, frame : Frame \cup {NoFrame},
                    msg : Rsp \cup {None}],
           Homes', Honest(rx.frame)', (\A n \in Rsp : Honest(val[n]))',
           Q!Contains(pend, "start") => Q!Contains(pend', "start"),
           Q!Contains(free, "start") => Q!Contains(free', "start"),
           \A m \in AuthMsg : m \in fresh => m \in fresh',
           \A m \in AuthMsg : Q!Contains(pend', m) => Q!Contains(pend, m) \/ m \in fresh'
    PROVE  Inv'
<1>1. TypeOK'
  BY DEF Inv, TypeOK, work, outcome, mlme, lock
<1>2. Control'
  BY DEF Inv, Control, work, outcome, mlme, lock
<1>3. \A r \in Req : (air[r] <= Sent(r))'
  BY SameSent DEF work, mlme
<1>4. Frames'
  <2>1. ASSUME NEW r \in Req, air'[r] > 0 PROVE air[r] > 0
    <3>1. air[r] \in Nat /\ air'[r] \in 0 .. air[r]
      BY TriesFacts DEF Inv, TypeOK
    <3>2. QED
      BY <2>1, <3>1
  <2>2. NeedsShared' = NeedsShared
    BY DEF NeedsShared
  <2>3. QED
    BY <2>1, <2>2 DEF Inv, Frames, work
<1>5. FreshMessages'
  BY <1>1, FreshDef, FreshDefNext DEF Inv, work
<1>6. QED
  BY <1>1, <1>2, <1>3, <1>4, <1>5 DEF Inv

(* auth_sta_recv takes an answer while the MLME authenticates.               *)
LEMMA RxTestInv == ASSUME Inv, RxTest PROVE Inv'
<1>1. /\ UNCHANGED << queue, pc, work, outcome, mlme, lock, ap >>
      /\ rx.at = "idle" /\ rx.msg = None
      /\ Homes /\ TypeOK /\ MaxAir \in Nat
  BY TriesFacts DEF RxTest, Inv, Homes
<1>2. PICK r \in Req : /\ air[r] > 0 /\ air' = [air EXCEPT ![r] = @ - 1]
                       /\ rx' = [at |-> "new", frame |-> Answer(r), msg |-> None]
  BY DEF RxTest
<1>3. air' \in [Req -> 0 .. MaxAir] /\ \A q \in Req : air'[q] \in 0 .. air[q]
  <2>1. air \in [Req -> 0 .. MaxAir]
    BY <1>1 DEF TypeOK
  <2>2. QED
    BY <1>1, <1>2, <2>1
<1>4. Answer(r) \in Frame /\ Honest(Answer(r))
  BY <1>1, <1>2, AnswerFacts DEF Inv, Frames
<1>5. rx'.msg = None /\ rx'.at = "new" /\ rx'.frame = Answer(r)
  BY <1>2
<1>6. Homes'
  BY <1>1, <1>5 DEF Homes, OnePlace, queue
<1>7. Honest(rx.frame)' /\ (\A n \in Rsp : Honest(val[n]))'
  BY <1>1, <1>4, <1>5 DEF Inv, Frames, Honest, NeedsShared, queue
<1>8. rx' \in [at : {"idle", "new", "push"}, frame : Frame \cup {NoFrame}, msg : Rsp \cup {None}]
  BY <1>2, <1>4
<1>9. QED
  BY <1>1, <1>3, <1>6, <1>7, <1>8, ReceiveThread DEF TypeOK, queue

(* auth_sta_recv gets a message for the answer, or drops the answer.         *)
LEMMA RxNewInv == ASSUME Inv, RxNew PROVE Inv'
<1>1. /\ UNCHANGED << pend, val, fresh, pc, work, outcome, mlme, lock, net >>
      /\ rx.at = "new" /\ rx.msg = None /\ Honest(rx.frame)
      /\ free \in Seq(AuthMsg) /\ pend \in Seq(AuthMsg)
      /\ Q!LinkedOnce(free) /\ Homes /\ TypeOK
  BY DEF RxNew, Inv, TypeOK, Homes, Frames
<1>2. /\ air' \in [Req -> 0 .. MaxAir] /\ \A r \in Req : air'[r] \in 0 .. air[r]
      /\ (\A n \in Rsp : Honest(val[n]))' /\ UNCHANGED ap
  BY <1>1, TriesFacts DEF TypeOK, net, Inv, Frames, Honest, NeedsShared
<1>3. CASE Q!HasFree(free, AuthTag["rsp1"])
  <2> DEFINE m == Q!FirstFree(free, AuthTag["rsp1"])
  <2>1. free' = Q!Unlink(free, m) /\ rx' = [rx EXCEPT !.at = "push", !.msg = m]
    BY <1>3 DEF RxNew
  <2>2. m \in AuthMsg /\ Q!Contains(free, m) /\ AuthTag[m] = AuthTag["rsp1"]
    BY <1>1, <1>3, TagType, Q!FirstFreeProperties, Zenon
  <2> HIDE DEF m
  <2>3. m \in Rsp /\ m # "abort" /\ m # "start" /\ m # None
    BY <2>2, TagFacts DEF Rsp, None
  <2>4. /\ free' \in Seq(AuthMsg) /\ Q!LinkedOnce(free')
        /\ \A x \in AuthMsg : Q!Contains(free', x) <=> Q!Contains(free, x) /\ x # m
    BY <1>1, <2>1, <2>2, TagType, Q!TakeProperties, Zenon
  <2>5. /\ rx' \in [at : {"idle", "new", "push"}, frame : Frame \cup {NoFrame},
                    msg : Rsp \cup {None}]
        /\ rx'.at = "push" /\ rx'.msg = m /\ rx'.frame = rx.frame
    BY <1>1, <2>1, <2>3 DEF TypeOK
  <2>6. Homes'
    <3>1. ASSUME NEW x \in AuthMsg PROVE OnePlace(x)'
      BY <1>1, <1>2, <2>2, <2>4, <2>5, TagFacts DEF Homes, OnePlace
    <3>2. QED
      BY <1>1, <2>3, <2>4, <2>5, <3>1 DEF Homes
  <2>7. Honest(rx.frame)'
    BY <1>1, <1>2, <2>5 DEF Honest, NeedsShared
  <2>8. QED
    BY <1>1, <1>2, <2>3, <2>4, <2>5, <2>6, <2>7, TagFacts, ReceiveThread DEF TypeOK
<1>4. CASE ~Q!HasFree(free, AuthTag["rsp1"])
  <2>1. UNCHANGED free /\ rx' = RxIdle
    BY <1>4 DEF RxNew
  <2>2. Homes'
    BY <1>1, <1>2, <2>1 DEF Homes, OnePlace, RxIdle
  <2>3. /\ rx' \in [at : {"idle", "new", "push"}, frame : Frame \cup {NoFrame},
                    msg : Rsp \cup {None}]
        /\ rx'.frame = NoFrame
    BY <2>1 DEF RxIdle
  <2>4. Honest(rx.frame)'
    BY <2>3, NoFrameFacts
  <2>5. QED
    BY <1>1, <1>2, <2>1, <2>2, <2>3, <2>4, ReceiveThread DEF TypeOK
<1>5. QED
  BY <1>3, <1>4

(* auth_sta_recv stores the answer and pushes the message.                   *)
LEMMA RxPushInv == ASSUME Inv, RxPush PROVE Inv'
<1> DEFINE m == rx.msg
<1>1. /\ UNCHANGED << free, pc, work, outcome, mlme, lock, net >>
      /\ rx.at = "push" /\ m # None /\ m \in Rsp /\ Honest(rx.frame)
      /\ rx.frame \in Frame \cup {NoFrame}
      /\ pend' = Q!Push(pend, m) /\ fresh' = fresh \cup {m} /\ rx' = RxIdle
      /\ val' = [val EXCEPT ![m] = rx.frame]
      /\ free \in Seq(AuthMsg) /\ pend \in Seq(AuthMsg)
      /\ Q!LinkedOnce(pend) /\ Homes /\ TypeOK /\ Q!KeySorted(pend)
  BY DEF RxPush, Inv, TypeOK, Homes, Frames
<1> HIDE DEF m
<1>2. /\ m \in AuthMsg /\ m # "abort" /\ m # "start" /\ rx.msg = m
      /\ ~Q!Contains(pend, m) /\ ~Q!Contains(free, m)
  BY <1>1, TagFacts DEF Homes, OnePlace, Rsp, m
<1>3. /\ pend' \in Seq(AuthMsg) /\ Q!LinkedOnce(pend') /\ Q!KeySorted(pend')
      /\ \A x \in AuthMsg : Q!Contains(pend', x) <=> Q!Contains(pend, x) \/ x = m
  BY <1>1, <1>2, TagType, Q!PutProperties, Zenon
<1>4. rx'.at = "idle" /\ rx'.msg = None /\ None \notin AuthMsg /\ rx'.frame = NoFrame /\ UNCHANGED ap
  BY <1>1, TagFacts DEF RxIdle, net
<1>5. Homes'
  <2>1. \A x \in AuthMsg : OnePlace(x)'
    BY <1>1, <1>2, <1>3, <1>4 DEF Homes, OnePlace
  <2>2. QED
    BY <1>1, <1>3, <1>4, <2>1 DEF Homes
<1>6. /\ rx' \in [at : {"idle", "new", "push"}, frame : Frame \cup {NoFrame},
                  msg : Rsp \cup {None}]
      /\ val' \in [Rsp -> Frame \cup {NoFrame}]
  BY <1>1 DEF TypeOK, RxIdle
<1>7. Honest(rx.frame)' /\ (\A n \in Rsp : Honest(val[n]))'
  <2>1. ASSUME NEW n \in Rsp PROVE Honest(val[n])'
    <3>1. Honest(val'[n])
      BY <1>1 DEF TypeOK, Inv, Frames
    <3>2. QED
      BY <1>4, <3>1 DEF Honest, NeedsShared
  <2>2. QED
    BY <1>4, <2>1, NoFrameFacts
<1>8. air' \in [Req -> 0 .. MaxAir] /\ \A r \in Req : air'[r] \in 0 .. air[r]
  BY <1>1, TriesFacts DEF TypeOK, net
<1>9. /\ fresh' \subseteq AuthMsg /\ \A x \in AuthMsg : x \in fresh => x \in fresh'
      /\ \A x \in AuthMsg : Q!Contains(pend', x) => Q!Contains(pend, x) \/ x \in fresh'
      /\ Q!Contains(pend, "start") => Q!Contains(pend', "start")
  BY <1>1, <1>2, <1>3, TagFacts DEF TypeOK
<1>10. QED
  BY <1>1, <1>3, <1>4, <1>5, <1>6, <1>7, <1>8, <1>9, ReceiveThread DEF TypeOK

(* The MLME leaves its authentication state; the other interface takes and   *)
(* releases the hardware.                                                    *)
LEMMA SurroundingsInv == ASSUME Inv, LeaveAuth \/ OtherLock \/ OtherUnlock PROVE Inv'
<1> USE AuthAssumption
<1>1. /\ UNCHANGED << queue, pc, work, outcome, session, stopped, net, rx >>
      /\ hwLock' = "auth" <=> hwLock = "auth"
  BY DEF LeaveAuth, OtherLock, OtherUnlock, mlme, lock, None
<1>2. TypeOK'
  <2>1. inAuth' \in BOOLEAN /\ hwLock' \in {None, "auth", "other"} /\ taken' \in 0 .. MaxOther
    <3>1. CASE LeaveAuth
      <4>1. inAuth' = FALSE /\ UNCHANGED << hwLock, taken >>
        BY <3>1 DEF LeaveAuth, lock
      <4>2. QED
        BY <4>1 DEF Inv, TypeOK
    <3>2. CASE OtherLock \/ OtherUnlock
      BY <3>2 DEF OtherLock, OtherUnlock, mlme, Inv, TypeOK
    <3>3. QED
      BY <3>1, <3>2
  <2>2. QED
    BY <1>1, <2>1 DEF Inv, TypeOK, queue, work, outcome, net
<1>3. Homes' /\ Frames'
  BY <1>1, SameHomes, SameFrames DEF queue, work, net
<1>4. Control'
  BY <1>1 DEF Inv, Control, queue, work, outcome, net
<1>5. (\A r \in Req : (air[r] <= Sent(r))') /\ FreshMessages'
  BY <1>1 DEF Inv, Sent, Here, FreshMessages, queue, work, net
<1>6. QED
  BY <1>2, <1>3, <1>4, <1>5 DEF Inv

(* Every step keeps the inductive invariant.                                 *)
LEMMA NextInv == ASSUME Inv, [Next]_vars PROVE Inv'
<1>1. CASE Start \/ Stop
  BY <1>1, StartInv, StopInv
<1>2. CASE LeaveAuth \/ OtherLock \/ OtherUnlock
  BY <1>2, SurroundingsInv
<1>3. CASE AuthThrd
  BY <1>3, TakeHwLockInv, GetMsgInv, SendInv, GiveUpInv, TimeoutInv, WaitAbortInv,
     WaitRspInv
     DEF AuthThrd
<1>4. CASE RxTest \/ RxNew \/ RxPush
  BY <1>4, RxTestInv, RxNewInv, RxPushInv
<1>5. CASE UNCHANGED vars
  <2>1. UNCHANGED << queue, pc, work, outcome, mlme, lock, net, rx >>
    BY <1>5 DEF vars
  <2>2. TypeOK' /\ Control' /\ FreshMessages'
    BY <2>1 DEF queue, work, outcome, mlme, lock, net, Inv, TypeOK, Control,
       FreshMessages
  <2>3. Homes' /\ Frames'
    BY <2>1, SameHomes, SameFrames DEF queue, work, net
  <2>4. \A r \in Req : (air[r] <= Sent(r))'
    BY <2>1 DEF Inv, Sent, Here, work, mlme, net
  <2>5. QED
    BY <2>2, <2>3, <2>4 DEF Inv
<1>6. QED
  BY <1>1, <1>2, <1>3, <1>4, <1>5 DEF Next

(* The inductive invariant holds in every reachable state.                   *)
LEMMA InvAlways == Spec => []Inv
<1>1. Init => Inv
  BY InitInv
<1>2. Inv /\ [Next]_vars => Inv'
  BY NextInv
<1>3. QED
  BY <1>1, <1>2, PTL DEF Spec

-----------------------------------------------------------------------------
(* How the number of answers under way changes.                              *)
LEMMA WaitingType ==
    ASSUME TypeOK, NEW a \in Algo
    PROVE  /\ Waiting(a) \in Nat /\ air[<< 1, a >>] \in Nat
           /\ \A f : One(f, a) \in {0, 1}
           /\ \A m \in Rsp : One(val[m], a) <= Waiting(a)
<1>1. << 1, a >> \in Req /\ MaxAir \in Nat
  BY ReqFacts, TriesFacts DEF Algo, Req
<1>2. air[<< 1, a >>] \in Nat
  BY <1>1 DEF TypeOK
<1>3. \A f : One(f, a) \in {0, 1}
  BY DEF One
<1>4. QED
  BY <1>2, <1>3 DEF Waiting, Rsp

(* The same in the next state.                                               *)
LEMMA WaitingTypeNext == ASSUME TypeOK', NEW a \in Algo PROVE Waiting(a)' \in Nat /\ air'[<< 1, a >>] \in Nat
<1>1. << 1, a >> \in Req /\ MaxAir \in Nat
  BY ReqFacts, TriesFacts DEF Algo, Req
<1>2. air'[<< 1, a >>] \in Nat
  BY <1>1 DEF TypeOK
<1>3. One(rx.frame, a)' \in {0, 1} /\ One(val["rsp1"], a)' \in {0, 1} /\ One(val["rsp2"], a)' \in {0, 1}
  BY DEF One
<1>4. QED
  BY <1>2, <1>3 DEF Waiting

(* Taking an answer out of its message lowers the count by that answer.      *)
LEMMA WaitingTake ==
    ASSUME TypeOK, TypeOK', NEW m, Take(m), UNCHANGED << air, rx >>, NEW a \in Algo
    PROVE  /\ Waiting(a)' <= Waiting(a)
           /\ m \in Rsp => Waiting(a)' = Waiting(a) - One(val[m], a)
<1>1. /\ val'["rsp1"] = IF m = "rsp1" THEN NoFrame ELSE val["rsp1"]
      /\ val'["rsp2"] = IF m = "rsp2" THEN NoFrame ELSE val["rsp2"]
  BY DEF Take, Rsp
<1>2. One(NoFrame, a) = 0 /\ air[<< 1, a >>] \in Nat /\ \A f : One(f, a) \in {0, 1}
  BY WaitingType, NoFrameFacts DEF One
<1>3. One(rx'.frame, a) = One(rx.frame, a)
  OBVIOUS
<1> DEFINE o1 == One(val["rsp1"], a)
           o2 == One(val["rsp2"], a)
           p1 == One(val'["rsp1"], a)
           p2 == One(val'["rsp2"], a)
           x == One(rx.frame, a)
<1>4. Waiting(a) = air[<< 1, a >>] + x + o1 + o2 /\ Waiting(a)' = air[<< 1, a >>] + x + p1 + p2
  BY <1>3 DEF Waiting, One
<1>5. /\ p1 = IF m = "rsp1" THEN 0 ELSE o1
      /\ p2 = IF m = "rsp2" THEN 0 ELSE o2
      /\ o1 \in {0, 1} /\ o2 \in {0, 1} /\ x \in {0, 1}
  BY <1>1, <1>2
<1>6. m \in Rsp => (m = "rsp1" /\ One(val[m], a) = o1) \/ (m = "rsp2" /\ One(val[m], a) = o2)
  BY DEF Rsp
<1> HIDE DEF o1, o2, p1, p2, x
<1>7. QED
  BY <1>2, <1>4, <1>5, <1>6

(* Sending seq 1 raises the count of its algorithm by one.                   *)
LEMMA WaitingSend ==
    ASSUME TypeOK, TypeOK', NEW q \in Req, air' = [air EXCEPT ![q] = @ + 1],
           UNCHANGED << val, rx >>, NEW a \in Algo
    PROVE  Waiting(a)' = Waiting(a) + IF q = << 1, a >> THEN 1 ELSE 0
<1>1. /\ << 1, a >> \in Req /\ air[<< 1, a >>] \in Nat /\ \A f : One(f, a) \in {0, 1}
      /\ air'[<< 1, a >>] = air[<< 1, a >>] + IF q = << 1, a >> THEN 1 ELSE 0
  <2>1. << 1, a >> \in Req /\ air[<< 1, a >>] \in Nat /\ \A f : One(f, a) \in {0, 1}
    BY WaitingType, ReqFacts
  <2>2. air \in [Req -> 0 .. MaxAir]
    BY DEF TypeOK
  <2> DEFINE b == << 1, a >>
  <2> HIDE DEF b
  <2>3. b \in Req /\ air[b] \in Nat
    BY <2>1 DEF b
  <2>4. air'[b] = air[b] + IF q = b THEN 1 ELSE 0
    BY <2>2, <2>3
  <2>5. QED
    BY <2>1, <2>4 DEF b
<1> DEFINE o1 == One(val["rsp1"], a)
           o2 == One(val["rsp2"], a)
           x == One(rx.frame, a)
<1>2. /\ Waiting(a) = air[<< 1, a >>] + x + o1 + o2
      /\ Waiting(a)' = air'[<< 1, a >>] + x + o1 + o2
  BY DEF Waiting, One
<1>3. o1 \in {0, 1} /\ o2 \in {0, 1} /\ x \in {0, 1}
  BY <1>1
<1> HIDE DEF o1, o2, x
<1>4. QED
  BY <1>1, <1>2, <1>3

(* The receive thread turns an answer under way into a stored one.           *)
LEMMA WaitingReceive ==
    ASSUME Inv, Inv', Counted, RxTest \/ RxNew \/ RxPush, NEW a \in Algo
    PROVE  Waiting(a)' <= Waiting(a)
<1> DEFINE o1 == One(val["rsp1"], a)
           o2 == One(val["rsp2"], a)
           p1 == One(val'["rsp1"], a)
           p2 == One(val'["rsp2"], a)
           x == One(rx.frame, a)
           y == One(rx'.frame, a)
           n == air[<< 1, a >>]
           k == air'[<< 1, a >>]
<1>1. Waiting(a) = n + x + o1 + o2 /\ Waiting(a)' = k + y + p1 + p2
  BY DEF Waiting, One
<1>2. /\ o1 \in {0, 1} /\ o2 \in {0, 1} /\ p1 \in {0, 1} /\ p2 \in {0, 1}
      /\ x \in {0, 1} /\ y \in {0, 1}
  BY DEF One
<1>3. TypeOK /\ n \in Nat /\ k \in Nat /\ << 1, a >> \in Req
  <2>1. TypeOK /\ TypeOK'
    BY DEF Inv
  <2>2. QED
    BY <2>1, WaitingType, WaitingTypeNext, ReqFacts
<1>4. One(NoFrame, a) = 0
  BY NoFrameFacts DEF One
<1>5. CASE RxTest
  <2>1. PICK r \in Req : /\ air[r] > 0 /\ air' = [air EXCEPT ![r] = @ - 1]
                         /\ rx' = [at |-> "new", frame |-> Answer(r), msg |-> None]
    BY <1>5 DEF RxTest
  <2>2. x = 0 /\ p1 = o1 /\ p2 = o2
    BY <1>4, <1>5 DEF RxTest, Counted, queue
  <2>3. y = 1 => r = << 1, a >>
    <3>1. /\ Answer(r).seq = 2 <=> r[1] = 1
          /\ Answer(r).algo = r[2]
      BY <1>3, <2>1, AnswerFacts DEF Inv, Frames
    <3>2. rx'.frame = Answer(r)
      BY <2>1
    <3>3. y = 1 => r[1] = 1 /\ r[2] = a
      BY <3>1, <3>2 DEF One
    <3>4. QED
      BY <3>3, ReqFacts
  <2>4. k = IF r = << 1, a >> THEN n - 1 ELSE n
    BY <1>3, <2>1 DEF TypeOK
  <2> HIDE DEF o1, o2, p1, p2, x, y, n, k
  <2>5. QED
    BY <1>1, <1>2, <1>3, <2>2, <2>3, <2>4
<1>6. CASE RxNew
  <2>1. rx'.frame = rx.frame \/ rx'.frame = NoFrame
    <3>1. (\E m : rx' = [rx EXCEPT !.at = "push", !.msg = m]) \/ rx' = RxIdle
      BY <1>6 DEF RxNew
    <3>2. RxIdle.frame = NoFrame
      BY DEF RxIdle
    <3>3. \A m : [rx EXCEPT !.at = "push", !.msg = m].frame = rx.frame
      BY <1>3 DEF TypeOK
    <3>4. QED
      BY <3>1, <3>2, <3>3
  <2>2. p1 = o1 /\ p2 = o2 /\ k = n /\ (y = x \/ y = 0)
    BY <1>4, <1>6, <2>1 DEF RxNew, net
  <2> HIDE DEF o1, o2, p1, p2, x, y, n, k
  <2>3. QED
    BY <1>1, <1>2, <1>3, <2>2
<1>7. CASE RxPush
  <2>1. /\ rx.msg \in Rsp /\ val' = [val EXCEPT ![rx.msg] = rx.frame] /\ rx'.frame = NoFrame
        /\ k = n
    BY <1>3, <1>7 DEF RxPush, RxIdle, Inv, Homes, TypeOK, net
  <2>2. /\ y = 0
        /\ \/ p1 = x /\ p2 = o2
           \/ p1 = o1 /\ p2 = x
    BY <1>3, <1>4, <2>1 DEF TypeOK, Rsp
  <2> HIDE DEF o1, o2, p1, p2, x, y, n, k
  <2>3. QED
    BY <1>1, <1>2, <1>3, <2>1, <2>2
<1>8. QED
  BY <1>5, <1>6, <1>7

-----------------------------------------------------------------------------
(* The bound on the refusals under way in the first session is kept, with    *)
(* the three tries of the code, and with it DoneMeansAccepted.               *)
FirstKept == Counted' /\ DoneMeansAccepted'

(* Steps that leave the protothread where it is and send nothing.            *)
LEMMA KeepFirst ==
    ASSUME FirstInv, Inv', UNCHANGED << pc, work, outcome, session, ap >>,
           (rx.at = "idle" => rx.frame = NoFrame)',
           \A a \in Algo : Waiting(a)' <= Waiting(a)
    PROVE  FirstKept
<1>1. /\ Waiting("open") \in Nat /\ Waiting("open")' \in Nat /\ Waiting("open")' <= Waiting("open")
      /\ Waiting("shared") \in Nat /\ Waiting("shared")' \in Nat
      /\ Waiting("shared")' <= Waiting("shared")
      /\ retryCnt \in Nat
  <2>1. \A a \in Algo : Waiting(a) \in Nat /\ Waiting(a)' \in Nat
    BY WaitingType, WaitingTypeNext DEF FirstInv, Inv
  <2>2. QED
    BY <2>1, AuthAssumption DEF Algo, FirstInv, Inv, TypeOK
<1>2. /\ session' = session /\ pc' = pc /\ retryCnt' = retryCnt /\ authSeq' = authSeq
      /\ authAlgo' = authAlgo /\ result' = result /\ last' = last
  BY DEF work, outcome
<1>3. Counted'
  BY <1>1, <1>2 DEF FirstInv, Counted, FirstSession
<1>4. DoneMeansAccepted'
  BY <1>2 DEF FirstInv, DoneMeansAccepted, Consent
<1>5. QED
  BY <1>3, <1>4 DEF FirstKept

(* A step that touches no frame keeps the counts.                            *)
LEMMA SameWaiting ==
    ASSUME UNCHANGED << air, val, rx >>, NEW a \in Algo
    PROVE  Waiting(a)' = Waiting(a) /\ (TypeOK => Waiting(a)' <= Waiting(a))
<1>1. Waiting(a)' = Waiting(a)
  BY DEF Waiting, One
<1>2. TypeOK => Waiting(a) \in Nat
  BY WaitingType
<1>3. QED
  BY <1>1, <1>2

(* The steps between two sessions and around the protothread.                *)
LEMMA StartFirst == ASSUME FirstInv, Inv', Start PROVE FirstKept
<1>1. /\ session' = session + 1 /\ pc' = "lock" /\ result' = None
      /\ UNCHANGED << air, val, rx, ap >> /\ session \in Nat
  BY DEF Start, net, FirstInv, Inv, TypeOK
<1>2. Waiting("open")' = Waiting("open") /\ Waiting("shared")' = Waiting("shared")
  BY <1>1, SameWaiting DEF Algo
<1>3. session' = 1 => session = 0
  BY <1>1
<1>4. Counted'
  BY <1>1, <1>2, <1>3 DEF FirstInv, Counted, FirstSession
<1>5. DoneMeansAccepted'
  BY <1>1 DEF DoneMeansAccepted, None
<1>6. QED
  BY <1>4, <1>5 DEF FirstKept

(* Taking the hardware lock counts nothing.                                  *)
LEMMA TakeHwLockFirst == ASSUME FirstInv, Inv', TakeHwLock PROVE FirstKept
<1>1. /\ pc = "lock" /\ pc' = "getmsg" /\ session' = session /\ result' = result /\ last' = last
      /\ UNCHANGED << air, val, rx, ap >>
  BY DEF TakeHwLock, net, queue, mlme, outcome
<1>2. Waiting("open")' = Waiting("open") /\ Waiting("shared")' = Waiting("shared")
  BY <1>1, SameWaiting DEF Algo
<1>3. Counted'
  BY <1>1, <1>2 DEF FirstInv, Counted, FirstSession
<1>4. DoneMeansAccepted'
  BY <1>1 DEF FirstInv, DoneMeansAccepted, Consent
<1>5. QED
  BY <1>3, <1>4 DEF FirstKept

(* The end of an authentication says nothing about what is under way.        *)
LEMMA EndCounted ==
    ASSUME FirstInv, pc # "idle", pc' = "idle", UNCHANGED << session, rx >>
    PROVE  Counted'
<1>1. session > 0 /\ session \in Nat
  BY DEF FirstInv, Inv, Control, TypeOK
<1>2. QED
  BY <1>1 DEF FirstInv, Counted, FirstSession

(* A session that ends without an answer is not reported as done while the   *)
(* key is right.                                                             *)
LEMMA GiveUpFirst ==
    ASSUME FirstInv, Inv', SendFail \/ GiveUp \/ WaitAbort
    PROVE  FirstKept
<1>1. /\ pc # "idle" /\ pc' = "idle" /\ UNCHANGED << session, rx, ap >>
      /\ result' # "done" \/ retryCnt > ResendTimes
  <2>1. CASE SendFail \/ WaitAbort
    BY <2>1 DEF SendFail, WaitAbort, End, mlme, net
  <2>2. CASE GiveUp
    <3>1. retryCnt \in Int /\ ResendTimes \in Int
      BY AuthAssumption DEF FirstInv, Inv, TypeOK
    <3>2. QED
      BY <2>2, <3>1 DEF GiveUp, GiveUpResults, End, mlme, net
  <2>3. QED
    BY <2>1, <2>2
<1>2. Counted'
  BY <1>1, EndCounted
<1>3. DoneMeansAccepted'
  BY <1>1 DEF FirstInv, Inv, Control, DoneMeansAccepted
<1>4. QED
  BY <1>2, <1>3 DEF FirstKept

(* The first session begins with nothing under way.                          *)
LEMMA GetMsgFirst == ASSUME FirstInv, Inv', GetMsg PROVE FirstKept
<1> DEFINE m == Q!EndOf(pend, FALSE)
<1>1. /\ pc = "getmsg" /\ UNCHANGED << session, air, ap, rx >> /\ TypeOK /\ TypeOK'
      /\ result = None /\ (rx.at = "idle" => rx.frame = NoFrame)
  BY DEF GetMsg, mlme, net, FirstInv, Inv, Control, Counted
<1>2. CASE pc' = "idle"
  <2>1. result' = "fail"
    BY <1>1, <1>2 DEF GetMsg, End
  <2>2. QED
    BY <1>1, <1>2, <2>1, EndCounted DEF FirstKept, DoneMeansAccepted
<1>3. CASE pc' # "idle"
  <2>1. /\ Take(m)
        /\ \/ retryCnt' = 0 /\ authSeq' = 1 /\ authAlgo' = "open" /\ pc' = "send"
           \/ UNCHANGED << pc, work >>
        /\ UNCHANGED outcome
    BY <1>3 DEF GetMsg, End
  <2>2. \A a \in Algo : Waiting(a)' <= Waiting(a)
    BY <1>1, <2>1, WaitingTake
  <2>3. CASE UNCHANGED << pc, work >>
    BY <1>1, <2>1, <2>2, <2>3, KeepFirst
  <2>4. CASE retryCnt' = 0 /\ authSeq' = 1 /\ authAlgo' = "open" /\ pc' = "send"
    <3>1. /\ Waiting("open") \in Nat /\ Waiting("open")' \in Nat /\ Waiting("open")' <= Waiting("open")
          /\ Waiting("shared") \in Nat /\ Waiting("shared")' \in Nat
          /\ Waiting("shared")' <= Waiting("shared")
      <4>1. \A a \in Algo : Waiting(a) \in Nat /\ Waiting(a)' \in Nat
        BY <1>1, WaitingType, WaitingTypeNext
      <4>2. QED
        BY <2>2, <4>1 DEF Algo
    <3>2. session # 0
      BY <1>1 DEF FirstInv, Inv, Control, TypeOK
    <3>3. session = 1 => Waiting("open") = 0 /\ Waiting("shared") = 0
      BY <1>1 DEF FirstInv, Counted
    <3>4. Counted'
      BY <1>1, <2>4, <3>1, <3>2, <3>3 DEF Counted, FirstSession
    <3>5. DoneMeansAccepted'
      BY <1>1, <2>1 DEF DoneMeansAccepted, outcome, None
    <3>6. QED
      BY <3>4, <3>5 DEF FirstKept
  <2>5. QED
    BY <2>1, <2>3, <2>4
<1>4. QED
  BY <1>2, <1>3

(* A request more is under way.                                              *)
LEMMA SendFirst == ASSUME FirstInv, Inv', Send PROVE FirstKept
<1> DEFINE q == << authSeq, authAlgo >>
<1>1. /\ pc = "send" /\ pc' = "wait" /\ retryCnt < ResendTimes /\ retryCnt' = retryCnt
      /\ authSeq' = authSeq /\ authAlgo' = authAlgo /\ result' = result /\ last' = last
      /\ UNCHANGED << session, val, ap, rx >> /\ air' = [air EXCEPT ![q] = @ + 1]
      /\ TypeOK /\ TypeOK' /\ result = None /\ retryCnt \in Nat /\ ResendTimes \in Nat
  BY AuthAssumption DEF Send, work, mlme, queue, outcome, FirstInv, Inv, Control, TypeOK
<1>2. q \in Req
  BY DEF FirstInv, Inv, TypeOK, Control, Req, Algo
<1>3. /\ Waiting("open")' = Waiting("open") + IF q = << 1, "open" >> THEN 1 ELSE 0
      /\ Waiting("shared")' = Waiting("shared") + IF q = << 1, "shared" >> THEN 1 ELSE 0
      /\ Waiting("open") \in Nat /\ Waiting("shared") \in Nat
  BY <1>1, <1>2, WaitingSend, WaitingType DEF Algo
<1>4. /\ q = << 1, "open" >> => authAlgo = "open"
      /\ q = << 1, "shared" >> => authAlgo = "shared"
  OBVIOUS
<1>5. session # 0
  BY <1>1 DEF FirstInv, Inv, Control, TypeOK
<1> HIDE DEF q
<1>6. Counted'
  <2>1. ASSUME ap.ans["shared"] = "ok", FirstSession', authAlgo = "open"
        PROVE  Waiting("shared")' = 0 /\ Waiting("open")' <= retryCnt + 1
    <3>1. Waiting("shared") = 0 /\ Waiting("open") <= retryCnt
      BY <1>1, <2>1 DEF FirstInv, Counted, FirstSession
    <3>2. QED
      BY <1>1, <1>3, <1>4, <2>1, <3>1
  <2>2. ASSUME ap.ans["shared"] = "ok", FirstSession', authAlgo = "shared"
        PROVE  Waiting("open")' <= retryCnt - 1
    <3>1. Waiting("open") <= retryCnt - 1
      BY <1>1, <2>2 DEF FirstInv, Counted, FirstSession
    <3>2. QED
      BY <1>1, <1>3, <1>4, <2>2, <3>1
  <2>3. QED
    BY <1>1, <1>5, <2>1, <2>2 DEF FirstInv, Counted
<1>7. DoneMeansAccepted'
  BY <1>1 DEF DoneMeansAccepted, None
<1>8. QED
  BY <1>6, <1>7 DEF FirstKept

(* After a wait: a try is spent, and the answer that was read is gone.       *)
LEMMA RetryFirst ==
    ASSUME FirstInv, Inv', ResendTimes <= 3, pc = "wait", pc' = "send",
           retryCnt' = retryCnt + 1, UNCHANGED << session, authSeq, ap, rx, result >>,
           authAlgo \in Algo, authAlgo' \in Algo,
           \A a \in Algo : Waiting(a)' <= Waiting(a),
           authAlgo' # authAlgo /\ ap.ans["shared"] = "ok" /\ FirstSession =>
                /\ Waiting("open")' = Waiting("open") - 1
    PROVE  FirstKept
<1>1. /\ Waiting("open") \in Nat /\ Waiting("open")' \in Nat /\ Waiting("open")' <= Waiting("open")
      /\ Waiting("shared") \in Nat /\ Waiting("shared")' \in Nat
      /\ Waiting("shared")' <= Waiting("shared")
      /\ retryCnt \in Nat /\ ResendTimes \in Nat /\ retryCnt < ResendTimes
      /\ session # 0 /\ result = None
  <2>1. \A a \in Algo : Waiting(a) \in Nat /\ Waiting(a)' \in Nat
    BY WaitingType, WaitingTypeNext DEF FirstInv, Inv
  <2>2. QED
    BY <2>1, AuthAssumption DEF Algo, FirstInv, Inv, TypeOK, Control
<1>2. authAlgo \in {"open", "shared"} /\ authAlgo' \in {"open", "shared"}
  BY DEF Algo
<1>3. ASSUME ap.ans["shared"] = "ok", FirstSession'
      PROVE  /\ authAlgo' = "open" /\ retryCnt' < ResendTimes =>
                    Waiting("shared")' = 0 /\ Waiting("open")' <= retryCnt'
             /\ authAlgo' = "shared" => Waiting("open")' <= retryCnt' - 1
  <2>1. FirstSession
    BY <1>3 DEF FirstSession
  <2>2. CASE authAlgo = "open"
    <3>1. Waiting("shared") = 0 /\ Waiting("open") <= retryCnt + 1
      BY <1>1, <1>3, <2>1, <2>2 DEF FirstInv, Counted
    <3>2. QED
      BY <1>1, <1>2, <1>3, <2>1, <2>2, <3>1
  <2>3. CASE authAlgo = "shared"
    <3>1. Waiting("open") <= retryCnt - 1
      BY <1>3, <2>1, <2>3 DEF FirstInv, Counted
    <3>2. CASE authAlgo' = "shared"
      BY <1>1, <3>1, <3>2
    <3>3. CASE authAlgo' = "open"
      <4>1. Waiting("open")' = Waiting("open") - 1
        BY <1>3, <2>1, <2>3, <3>3
      <4>2. retryCnt >= 2
        BY <1>1, <3>1, <4>1
      <4>3. ~(retryCnt' < ResendTimes)
        BY <1>1, <4>2
      <4>4. QED
        BY <3>3, <4>3
    <3>4. QED
      BY <1>2, <3>2, <3>3
  <2>4. QED
    BY <1>2, <2>2, <2>3
<1>4. Counted'
  BY <1>1, <1>3 DEF FirstInv, Counted
<1>5. DoneMeansAccepted'
  BY <1>1 DEF DoneMeansAccepted, None
<1>6. QED
  BY <1>4, <1>5 DEF FirstKept

(* A timeout uses up a try.                                                  *)
LEMMA TimeoutFirst ==
    ASSUME FirstInv, Inv', ResendTimes <= 3, Timeout PROVE FirstKept
<1>1. /\ pc = "wait" /\ pc' = "send" /\ retryCnt' = retryCnt + 1
      /\ UNCHANGED << session, authSeq, authAlgo, ap, rx, result, air, val >>
      /\ authAlgo \in Algo /\ TypeOK
  BY DEF Timeout, queue, outcome, mlme, net, FirstInv, Inv, TypeOK
<1>2. \A a \in Algo : Waiting(a)' <= Waiting(a)
  BY <1>1, SameWaiting
<1>3. QED
  BY <1>1, <1>2, RetryFirst

(* An answer is read.  A success counts for open system only while no answer *)
(* for shared key can be there.                                              *)
LEMMA WaitRspFirst ==
    ASSUME FirstInv, Inv', ResendTimes <= 3, WaitRsp PROVE FirstKept
<1>1. PICK m \in Rsp :
            /\ m \in AuthMsg /\ Q!Contains(pend, m) /\ Take(m)
            /\ free' = Q!Del(free, m) \/ (free' = free /\ ~ap.chal)
            /\ val[m] \in Frame \cup {NoFrame} /\ Honest(val[m])
            /\ IF authSeq = 1 THEN WaitSeq2(val[m]) ELSE WaitSeq4(val[m])
  BY AnswerRead DEF FirstInv
<1> DEFINE f == val[m]
<1>2. /\ pc = "wait" /\ UNCHANGED << session, ap, air, rx >> /\ TypeOK /\ TypeOK'
      /\ authSeq \in {1, 3} /\ authAlgo \in {"open", "shared"} /\ result = None
      /\ retryCnt \in Nat /\ retryCnt < ResendTimes /\ ResendTimes \in Nat
      /\ session # 0 /\ (authAlgo = "shared" => NeedsShared)
  <2>1. pc = "wait" /\ UNCHANGED << session, ap, air, rx >>
    BY DEF WaitRsp, mlme, net
  <2>2. Inv /\ TypeOK /\ TypeOK' /\ Control /\ Frames
    BY DEF FirstInv, Inv
  <2>3. /\ authSeq \in {1, 3} /\ authAlgo \in {"open", "shared"}
        /\ retryCnt \in Nat /\ ResendTimes \in Nat
    BY <2>2, AuthAssumption DEF TypeOK, Algo
  <2>4. /\ result = None /\ retryCnt < ResendTimes /\ session # 0
        /\ authAlgo = "shared" => NeedsShared
    BY <2>1, <2>2 DEF Control, Frames, TypeOK
  <2>5. QED
    BY <2>1, <2>2, <2>3, <2>4
<1>3. ASSUME NEW a \in Algo
      PROVE  /\ Waiting(a) \in Nat /\ Waiting(a)' = Waiting(a) - One(f, a)
             /\ Waiting(a)' <= Waiting(a) /\ One(f, a) <= Waiting(a)
  BY <1>1, <1>2, WaitingTake, WaitingType
<1>4. f.seq = 2 => f.algo \in {"open", "shared"}
  <2>1. f.seq = 2 => f \in Frame
    BY <1>1, NoFrameFacts
  <2>2. QED
    BY <2>1, Zenon DEF Frame, Algo
<1>5. CASE Accept(f) /\ (authSeq = 1 => f.seq = 2 /\ f.status = "ok" /\ authAlgo = "open")
                     /\ (authSeq = 3 => f.seq = 4 /\ f.status = "ok")
  <2>1. pc' = "idle" /\ result' = "done" /\ last' = f
    BY <1>5 DEF Accept, End
  <2>2. session = 1 /\ ap.key => Consent(f)
    <3>1. CASE authSeq = 3
      BY <1>5, <3>1 DEF Consent
    <3>2. CASE authSeq = 1 /\ session = 1
      <4>1. f.algo = "shared" => FALSE
        <5> SUFFICES ASSUME f.algo = "shared" PROVE FALSE
          OBVIOUS
        <5>1. ap.ans["shared"] = "ok"
          BY <1>1, <1>5, <3>2 DEF Honest
        <5>2. Waiting("shared") = 0
          BY <1>2, <1>5, <3>2, <5>1 DEF FirstInv, Counted, FirstSession
        <5>3. One(f, "shared") = 1 /\ "shared" \in Algo
          BY <1>5, <3>2 DEF One, Algo
        <5>4. QED
          BY <1>3, <5>2, <5>3
      <4>2. QED
        BY <1>4, <1>5, <3>2, <4>1 DEF Consent
    <3>3. QED
      BY <1>2, <3>1, <3>2
  <2>3. DoneMeansAccepted'
    BY <1>2, <2>1, <2>2 DEF DoneMeansAccepted, Consent
  <2>4. QED
    BY <1>2, <2>1, <2>3, EndCounted DEF FirstKept
<1>6. CASE End("fail")
  <2>1. pc' = "idle" /\ result' = "fail"
    BY <1>6 DEF End
  <2>2. QED
    BY <1>2, <2>1, EndCounted DEF FirstKept, DoneMeansAccepted
<1>7. CASE authSeq = 1 /\ Resend2(f)
  <2>1. /\ retryCnt' = retryCnt + 1 /\ pc' = "send" /\ UNCHANGED << authSeq, result >>
        /\ authAlgo' \in {"open", "shared"}
        /\ authAlgo' # authAlgo => f.seq = 2 /\ f.status = "noalg"
    BY <1>2, <1>7 DEF Resend2, Toggle, outcome
  <2>2. authAlgo' # authAlgo /\ ap.ans["shared"] = "ok" => Waiting("open")' = Waiting("open") - 1
    <3> SUFFICES ASSUME authAlgo' # authAlgo, ap.ans["shared"] = "ok"
                 PROVE  Waiting("open")' = Waiting("open") - 1
      OBVIOUS
    <3>1. f.seq = 2 /\ f.algo = "open"
      BY <1>1, <1>4, <2>1 DEF Honest
    <3>2. One(f, "open") = 1 /\ "open" \in Algo
      BY <3>1 DEF One, Algo
    <3>3. QED
      BY <1>3, <3>2
  <2>3. authAlgo \in Algo /\ authAlgo' \in Algo
    BY <1>2, <2>1 DEF Algo
  <2>4. QED
    BY <1>2, <1>3, <2>1, <2>2, <2>3, RetryFirst
<1>8. CASE pc' = "send" /\ authSeq' = 3 /\ UNCHANGED result
  <2>1. Counted'
    BY <1>2, <1>8 DEF FirstInv, Counted, FirstSession
  <2>2. QED
    BY <1>2, <1>8, <2>1 DEF FirstKept, DoneMeansAccepted, None
<1>9. QED
  <2>1. CASE authSeq = 1
    BY <1>1, <1>5, <1>6, <1>7, <1>8, <2>1 DEF WaitSeq2, Challenge, outcome
  <2>2. CASE authSeq = 3
    BY <1>1, <1>5, <1>8, <2>2 DEF WaitSeq4
  <2>3. QED
    BY <1>2, <2>1, <2>2

(* Every step keeps the invariant of the first session.                      *)
LEMMA NextFirst ==
    ASSUME ResendTimes <= 3, FirstInv, [Next]_vars PROVE FirstInv'
<1>1. Inv /\ Inv'
  BY NextInv DEF FirstInv
<1>2. CASE Start
  BY <1>1, <1>2, StartFirst DEF FirstInv, FirstKept
<1>3. CASE AuthThrd
  BY <1>1, <1>3, TakeHwLockFirst, GetMsgFirst, SendFirst, GiveUpFirst, TimeoutFirst,
     WaitRspFirst
     DEF AuthThrd, FirstInv, FirstKept
<1>4. CASE RxTest \/ RxNew \/ RxPush
  <2>1. \A a \in Algo : Waiting(a)' <= Waiting(a)
    BY <1>1, <1>4, WaitingReceive DEF FirstInv
  <2>2. UNCHANGED << pc, work, outcome, session, ap >>
    BY <1>4 DEF RxTest, RxNew, RxPush, mlme, net
  <2>3. (rx.at = "idle" => rx.frame = NoFrame)'
    <3>1. CASE RxTest
      BY <3>1 DEF RxTest
    <3>2. CASE RxNew
      <4>1. (\E m : rx' = [rx EXCEPT !.at = "push", !.msg = m]) \/ rx' = RxIdle
        BY <3>2 DEF RxNew
      <4>2. \A m : [rx EXCEPT !.at = "push", !.msg = m].at = "push"
        BY <1>1 DEF Inv, TypeOK
      <4>3. RxIdle.frame = NoFrame
        BY DEF RxIdle
      <4>4. rx'.at = "push" \/ rx'.frame = NoFrame
        BY <4>1, <4>2, <4>3
      <4>5. QED
        BY <4>4
    <3>3. CASE RxPush
      BY <3>3 DEF RxPush, RxIdle
    <3>4. QED
      BY <1>4, <3>1, <3>2, <3>3
  <2>4. QED
    BY <1>1, <2>1, <2>2, <2>3, KeepFirst DEF FirstInv, FirstKept
<1>5. CASE Stop \/ LeaveAuth \/ OtherLock \/ OtherUnlock \/ UNCHANGED vars
  <2>1. UNCHANGED << pc, work, outcome, session, ap, air, val, rx >>
    BY <1>5 DEF Stop, LeaveAuth, OtherLock, OtherUnlock, vars, mlme, net, queue
  <2>2. \A a \in Algo : Waiting(a)' <= Waiting(a)
    BY <1>1, <2>1, SameWaiting DEF Inv
  <2>3. (rx.at = "idle" => rx.frame = NoFrame)'
    BY <2>1 DEF FirstInv, Counted
  <2>4. QED
    BY <1>1, <2>1, <2>2, <2>3, KeepFirst DEF FirstInv, FirstKept
<1>6. QED
  BY <1>2, <1>3, <1>4, <1>5 DEF Next

(* The counts hold when nothing was sent yet.                                *)
LEMMA InitFirst == Init => FirstInv
<1> SUFFICES ASSUME Init PROVE FirstInv
  OBVIOUS
<1>1. Inv
  BY InitInv
<1>2. Waiting("open") = 0 /\ Waiting("shared") = 0
  BY NoFrameFacts, ReqFacts DEF Init, Waiting, One, RxIdle, Rsp
<1>3. Counted
  BY <1>2 DEF Counted, Init, RxIdle, FirstSession
<1>4. DoneMeansAccepted
  BY DEF DoneMeansAccepted, Init, None
<1>5. QED
  BY <1>1, <1>3, <1>4 DEF FirstInv

-----------------------------------------------------------------------------
(* Whatever ends an authentication (a success, a missing wdn, a failure to   *)
(* send, ABORT, the last try), label exit of wf_auth_sta_thrd leaves brun    *)
(* off, the hardware lock released and START free for the next start.        *)
THEOREM AuthCleanEnd == Spec => []CleanEnd
<1>1. Inv => CleanEnd
  BY DEF Inv, Control, CleanEnd
<1>2. QED
  BY <1>1, InvAlways, PTL

(* However the protothread, the MLME thread and the receive thread           *)
(* interleave, no message of auth_msg_init is in two places, none is lost at *)
(* an access point that sends a challenge text, and the variables keep their *)
(* types: retry_cnt passes the limit by one at most.                         *)
THEOREM AuthMessagesAccounted == Spec => []MessagesAccounted
<1>1. Inv => MessagesAccounted
  <2> SUFFICES ASSUME Inv PROVE MessagesAccounted
    OBVIOUS
  <2>1. ASSUME NEW m \in AuthMsg
        PROVE  Places(m) <= 1 /\ (ap.chal => Places(m) = 1)
    <3>1. OnePlace(m)
      BY DEF Inv, Homes
    <3>2. QED
      BY <3>1 DEF OnePlace, Places
  <2>2. QED
    BY <2>1 DEF Inv, MessagesAccounted
<1>2. QED
  BY <1>1, InvAlways, PTL

(* An authentication never looks at an answer or an ABORT that was queued    *)
(* before it started: START is the least urgent message, so wf_msg_get hands *)
(* out everything older first, and it is thrown away.                        *)
THEOREM AuthFreshMessages == Spec => []FreshMessages
<1>1. Inv => FreshMessages
  BY DEF Inv
<1>2. QED
  BY <1>1, InvAlways, PTL

(* With at most the three tries of AUTH_REQ_RESEND_TIMES, the first          *)
(* authentication with an access point that knows the station's key is       *)
(* reported as done only after a frame in which the access point accepted    *)
(* the station, whatever is delayed, lost or reordered: to take a challenge  *)
(* for a success, the station would have to return from shared key to open   *)
(* system and have a try left.                                               *)
THEOREM AuthDoneMeansAccepted == ResendTimes <= 3 => (Spec => []DoneMeansAccepted)
<1> SUFFICES ASSUME ResendTimes <= 3 PROVE Spec => []DoneMeansAccepted
  OBVIOUS
<1>1. Init => FirstInv
  BY InitFirst
<1>2. FirstInv /\ [Next]_vars => FirstInv'
  BY NextFirst
<1>3. FirstInv => DoneMeansAccepted
  BY DEF FirstInv
<1>4. QED
  BY <1>1, <1>2, <1>3, PTL DEF Spec

-----------------------------------------------------------------------------
(* A step inside one phase that leaves the hardware lock and the result      *)
(* alone is no step of the procedure.                                        *)
LEMMA ProcedureStutters ==
    ASSUME hwLock' = hwLock, Phase' = Phase, pc = "idle" <=> pc' = "idle",
           pc = "idle" => result' = result
    PROVE  UNCHANGED P!vars
BY Zenon DEF P!vars

(* Taking the hardware lock begins the work, and only when it is free.       *)
LEMMA TakeHwLockEnters == ASSUME TakeHwLock PROVE P!Enter
<1>1. pc = "lock" /\ pc' = "getmsg" /\ hwLock = None /\ hwLock' = "auth"
  BY DEF TakeHwLock
<1>2. Phase = "waiting" /\ Phase' = "working"
  BY <1>1 DEF Phase
<1>3. QED
  BY <1>1, <1>2 DEF P!Enter, P!None, None

(* The label "exit" ends the work, with the result it stores.                *)
LEMMA EndFinishes ==
    ASSUME Inv, pc \in {"getmsg", "send", "wait"}, NEW why \in P!Outcome, End(why)
    PROVE  P!Finish
<1>1. pc' = "idle" /\ hwLock' = None /\ result' = why /\ hwLock = "auth"
  BY DEF End, Inv, Control
<1>2. Phase = "working" /\ Phase' = "idle"
  BY <1>1 DEF Phase
<1>3. QED
  BY <1>1, <1>2 DEF P!Finish, P!None, None

(* Every step of wf_auth_sta_thrd with the hardware stays inside the work    *)
(* with the lock held, or is the label "exit" with a result.                 *)
LEMMA AuthWorks ==
    ASSUME Inv, AuthThrd, ~TakeHwLock
    PROVE  P!Finish \/ UNCHANGED P!vars
<1>1. pc \in {"getmsg", "send", "wait"}
  BY DEF AuthThrd, GetMsg, Send, SendFail, GiveUp, Timeout, WaitAbort, WaitRsp
<1>2. ASSUME NEW why \in Result, End(why) PROVE P!Finish
  BY <1>1, <1>2, EndFinishes, Zenon DEF Result, P!Outcome
<1>3. ASSUME hwLock' = hwLock, pc' \in {"getmsg", "send", "wait"} PROVE UNCHANGED P!vars
  BY <1>1, <1>3, ProcedureStutters DEF Phase
<1>4. "done" \in Result /\ "abort" \in Result /\ "fail" \in Result
  BY DEF Result
<1>5. CASE GetMsg
  BY <1>1, <1>2, <1>3, <1>4, <1>5 DEF GetMsg
<1>6. CASE Send \/ Timeout
  BY <1>3, <1>6 DEF Send, Timeout, lock
<1>7. CASE SendFail \/ WaitAbort
  BY <1>2, <1>4, <1>7 DEF SendFail, WaitAbort
<1>8. CASE GiveUp
  <2>1. PICK why \in GiveUpResults : End(why)
    BY <1>8, Zenon DEF GiveUp
  <2>2. why \in Result
    BY <1>4, <2>1 DEF GiveUpResults
  <2>3. QED
    BY <1>2, <2>1, <2>2
<1>9. CASE WaitRsp
  <2>1. PICK m \in Rsp : IF authSeq = 1 THEN WaitSeq2(val[m]) ELSE WaitSeq4(val[m])
    BY <1>9 DEF WaitRsp
  <2>2. QED
    BY <1>2, <1>3, <1>4, <2>1
       DEF WaitSeq2, WaitSeq4, Resend2, Challenge, Accept
<1>10. QED
  BY <1>5, <1>6, <1>7, <1>8, <1>9 DEF AuthThrd

(* Stopping, moving on and receiving neither move the procedure nor touch    *)
(* the hardware lock.                                                        *)
LEMMA OthersStutter ==
    ASSUME Stop \/ LeaveAuth \/ RxTest \/ RxNew \/ RxPush \/ UNCHANGED vars
    PROVE  UNCHANGED P!vars
<1>1. pc' = pc /\ hwLock' = hwLock /\ result' = result
  BY DEF Stop, LeaveAuth, RxTest, RxNew, RxPush, vars, outcome, lock
<1>2. QED
  BY <1>1, ProcedureStutters DEF Phase

(* An authentication is a procedure: for every access point, any number of   *)
(* tries and stops at any moment, it takes the hardware only when it is      *)
(* free, keeps it until it returns, and returns once with done, abort or     *)
(* fail in the step that gives the hardware back.                            *)
THEOREM AuthImplementsProcedure == Spec => ImplementsProcedure
<1>1. Init => P!Init
  BY DEF Init, Phase, P!Init, P!None, None
<1>2. ASSUME Inv, Next PROVE P!Next \/ UNCHANGED P!vars
  <2>1. CASE Start
    <3>1. pc = "idle" /\ pc' = "lock" /\ hwLock' = hwLock
      BY <2>1 DEF Start, lock
    <3>2. P!Begin
      BY <3>1 DEF Phase, P!Begin, P!None, None
    <3>3. QED
      BY <3>2 DEF P!Next
  <2>2. CASE AuthThrd
    BY <1>2, <2>2, TakeHwLockEnters, AuthWorks, Zenon DEF P!Next
  <2>3. CASE OtherLock \/ OtherUnlock
    <3>1. /\ pc' = pc /\ result' = result
          /\ \/ hwLock = None /\ hwLock' = "other"
             \/ hwLock = "other" /\ hwLock' = None
      BY <2>3 DEF OtherLock, OtherUnlock, outcome
    <3>2. P!OtherTakes \/ P!OtherReleases
      BY <3>1 DEF Phase, P!OtherTakes, P!OtherReleases, P!None, P!Other, None
    <3>3. QED
      BY <3>2 DEF P!Next
  <2>4. CASE Stop \/ LeaveAuth \/ RxTest \/ RxNew \/ RxPush
    BY <2>4, OthersStutter, Zenon
  <2>5. QED
    BY <1>2, <2>1, <2>2, <2>3, <2>4, Zenon DEF Next
<1>3. Inv /\ [Next]_vars => [P!Next]_(P!vars)
  BY <1>2, OthersStutter
<1>4. QED
  BY <1>1, <1>3, InvAlways, PTL DEF Spec, ImplementsProcedure, P!Spec
=============================================================================
