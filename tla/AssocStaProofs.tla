-------------------------- MODULE AssocStaProofs ---------------------------
(***************************************************************************)
(* Proofs about the association of a station, for any number of stopping   *)
(* threads, tries and sessions.  The inductive invariant Inv relates the   *)
(* place of every message, the point where the protothread waits, the      *)
(* hardware lock and the number of answers on their way.                   *)
(***************************************************************************)
EXTENDS AssocSta, TLAPS

-----------------------------------------------------------------------------
\* Every message is in one list, or in the hands of the receive thread or of
\* one stopping thread.
Pushing == \E s \in Stopper : stop[s] = "push"

OnePlace(m) ==
    /\ Q!Contains(pend, m) => ~Q!Contains(free, m)
    /\ Q!Contains(pend, m) \/ Q!Contains(free, m) => rx.msg # m
    /\ (Q!Contains(pend, m) \/ Q!Contains(free, m)) /\ m = "abort" => ~Pushing
    /\ \/ Q!Contains(pend, m) \/ Q!Contains(free, m) \/ rx.msg = m
       \/ m = "abort" /\ Pushing

Places ==
    /\ Q!LinkedOnce(pend) /\ Q!LinkedOnce(free)
    /\ \A m \in AssocMsg : OnePlace(m)
    /\ \A s, t \in Stopper : stop[s] = "push" /\ stop[t] = "push" => s = t
    /\ rx.at = "push" <=> rx.msg # None
    /\ rx.at # "idle" => rx.frame \in Frame

\* START, the least urgent message, is pending exactly until the protothread
\* takes it.
Control ==
    /\ brun <=> pc \in {"send", "wait"}
    /\ hwLock = "assoc" <=> pc \in {"getmsg", "send", "wait"}
    /\ pc \in {"lock", "getmsg"} => Q!Contains(pend, "start")
    /\ pc \in {"idle", "send", "wait"} => Q!Contains(free, "start")
    /\ pc # "idle" => session > 0
    /\ pc = "wait" => retryCnt < ResendTimes

\* Each try of each session sends one request.
Tries(n) == n * ResendTimes

Sent == CASE pc = "idle" -> Tries(session)
          [] pc \in {"lock", "getmsg"} -> Tries(session - 1)
          [] pc = "send" -> Tries(session - 1) + retryCnt
          [] pc = "wait" -> Tries(session - 1) + retryCnt + 1

\* An answer of this session that holds a success was counted when it was
\* pushed, and only a session that ended can have stored one.
Answers ==
    /\ \A m \in Rsp : m \in fresh /\ val[m] = "accept" => accepted
    /\ curNet <= session
    /\ pc # "idle" => curNet < session
    /\ DoneMeansAccepted

Inv ==
    /\ TypeOK
    /\ Places
    /\ Q!KeySorted(pend)
    /\ Control
    /\ air <= Sent
    /\ FreshMessages
    /\ Answers

-----------------------------------------------------------------------------
(* The messages and their tags: START is the least urgent, and the tag tells *)
(* ABORT and START from the answers.                                         *)
LEMMA TagType == AssocTag \in [AssocMsg -> Q!Tags]
BY DEF AssocTag, AssocMsg, Q!Tags, AssocPri

(* The tag tells ABORT and START from the answers, and nothing is less       *)
(* urgent than START.                                                        *)
LEMMA TagFacts ==
    /\ \A m \in AssocMsg : AssocTag[m] = AssocTag["rsp1"] => m \in Rsp
    /\ \A m \in AssocMsg : AssocTag[m] = AssocTag["abort"] => m = "abort"
    /\ \A m \in AssocMsg : AssocTag[m] = AssocTag["start"] => m = "start"
    /\ \A m \in AssocMsg : Q!Key("start") <= Q!Key(m) => m = "start"
    /\ {"abort", "start", "rsp1"} \subseteq AssocMsg /\ Rsp \subseteq AssocMsg
BY DEF AssocTag, AssocMsg, AssocPri, Rsp, Q!Key, Q!TagKey

(* FreshMessages in terms of the messages of the list.                       *)
LEMMA FreshDef ==
    ASSUME TypeOK
    PROVE  FreshMessages <=> (brun => \A m \in AssocMsg : Q!Contains(pend, m) => m \in fresh)
BY DEF TypeOK, FreshMessages, Q!ToSet, Q!Contains

(* The same in the next state.                                               *)
LEMMA FreshDefNext ==
    ASSUME TypeOK'
    PROVE  FreshMessages' <=>
                (brun' => \A m \in AssocMsg : Q!Contains(pend', m) => m \in fresh')
BY DEF TypeOK, FreshMessages, Q!ToSet, Q!Contains

(* The tries of all sessions.                                                *)
LEMMA TriesFacts ==
    /\ Tries(0) = 0 /\ MaxAir \in Nat
    /\ \A n \in Nat \ {0} : Tries(n - 1) \in Nat /\ Tries(n) = Tries(n - 1) + ResendTimes
    /\ \A n \in 0 .. MaxSessions : Tries(n) \in Nat /\ Tries(n) <= MaxAir
<1> USE AssocAssumption
<1>1. Tries(0) = 0 /\ MaxAir \in Nat
  BY SMT DEF Tries, MaxAir
<1>2. ASSUME NEW n \in Nat \ {0}
      PROVE  Tries(n - 1) \in Nat /\ Tries(n) = Tries(n - 1) + ResendTimes
  BY SMT DEF Tries
<1>3. ASSUME NEW n \in 0 .. MaxSessions PROVE Tries(n) \in Nat /\ Tries(n) <= MaxAir
  <2>1. (MaxSessions - n) * ResendTimes >= 0
    BY SMT
  <2>2. MaxSessions * ResendTimes = (MaxSessions - n) * ResendTimes + n * ResendTimes
    BY SMT
  <2>3. n * ResendTimes \in Nat /\ (MaxSessions - n) * ResendTimes \in Int
    BY SMT
  <2>4. QED
    BY <2>1, <2>2, <2>3, SMT DEF Tries, MaxAir
<1>4. QED
  BY <1>1, <1>2, <1>3

(* wf_assoc_init establishes the inductive invariant.                        *)
LEMMA InitInv == Init => Inv
<1> SUFFICES ASSUME Init PROVE Inv
  OBVIOUS
<1> USE AssocAssumption DEF Init
<1>1. /\ pend \in Seq(AssocMsg) /\ Len(pend) = 0
      /\ free \in Seq(AssocMsg) /\ Len(free) = 4
      /\ free[1] = "rsp1" /\ free[2] = "rsp2" /\ free[3] = "abort" /\ free[4] = "start"
  BY DEF AssocMsg
<1>2. Tries(0) = 0 /\ MaxAir \in Nat
  BY TriesFacts
<1>3. TypeOK
  <2>1. /\ retryCnt \in 0 .. ResendTimes /\ session \in 0 .. MaxSessions
        /\ taken \in 0 .. MaxOther /\ air \in 0 .. MaxAir
    BY <1>2
  <2>2. /\ val \in [Rsp -> Frame \cup {None}] /\ stop \in [Stopper -> {"idle", "new", "push"}]
        /\ rx \in [at : {"idle", "new", "push"}, frame : Frame \cup {None}, msg : Rsp \cup {None}]
    BY DEF RxIdle
  <2>3. QED
    BY <1>1, <2>1, <2>2 DEF TypeOK
<1>4. Places
  <2>1. Q!LinkedOnce(pend) /\ Q!LinkedOnce(free)
    BY <1>1 DEF Q!LinkedOnce
  <2>2. \A m \in AssocMsg : ~Q!Contains(pend, m) /\ Q!Contains(free, m)
    BY <1>1 DEF Q!Contains, AssocMsg
  <2>3. ~Pushing
    BY DEF Pushing
  <2>4. \A m \in AssocMsg : m # None
    BY DEF AssocMsg, None
  <2>5. QED
    BY <2>1, <2>2, <2>3, <2>4 DEF Places, OnePlace, RxIdle
<1>5. Q!KeySorted(pend)
  BY <1>1 DEF Q!KeySorted
<1>6. Control
  BY <1>1, <1>2 DEF Control, Q!Contains, None
<1>7. air <= Sent
  BY <1>2 DEF Sent
<1>8. FreshMessages /\ Answers
  BY DEF FreshMessages, Answers, DoneMeansAccepted, None
<1>9. QED
  BY <1>3, <1>4, <1>5, <1>6, <1>7, <1>8 DEF Inv

-----------------------------------------------------------------------------
\* What a step that leaves the queue and the hands of the threads alone keeps
Calm == UNCHANGED << queue, rx >> /\ stop' \in [Stopper -> {"idle", "new", "push"}]
            /\ \A s \in Stopper : stop'[s] = "push" <=> stop[s] = "push"

(* A step that moves no message keeps every message in its place.            *)
LEMMA CalmPlaces == ASSUME Inv, Calm PROVE Places' /\ Q!KeySorted(pend)'
<1>1. Pushing' <=> Pushing
  BY DEF Calm, Pushing
<1>2. QED
  BY <1>1 DEF Calm, queue, Inv, Places, OnePlace

(* A step that queues no answer and stores none in cur_network may end the   *)
(* association, but not with done.                                           *)
LEMMA SameAnswers ==
    ASSUME Inv, UNCHANGED << fresh, val, accepted, curNet, session >>,
           pc = "idle" => pc' = "idle",
           pc' = "idle" => \/ pc = "idle" /\ result' = result
                           \/ pc # "idle" /\ result' # "done"
    PROVE  Answers'
<1>1. curNet \in Nat /\ session \in Nat /\ Answers
  BY AssocAssumption DEF Inv, TypeOK
<1>2. QED
  BY <1>1 DEF Answers, DoneMeansAccepted

(* wf_assoc_start: the queue gets START behind whatever is left in it.       *)
LEMMA StartInv == ASSUME Inv, Start PROVE Inv'
<1> USE TagType, TagFacts, AssocAssumption
<1>1. /\ TypeOK /\ Places /\ Control /\ "start" \in AssocMsg
      /\ pend \in Seq(AssocMsg) /\ free \in Seq(AssocMsg)
      /\ Q!LinkedOnce(pend) /\ Q!LinkedOnce(free) /\ Q!KeySorted(pend)
      /\ pc = "idle" /\ Q!Contains(free, "start") /\ ~Q!Contains(pend, "start")
  BY DEF Inv, TypeOK, Places, OnePlace, Control, Start
<1>2. /\ free' \in Seq(AssocMsg) /\ Q!LinkedOnce(free')
      /\ \A x \in AssocMsg : Q!Contains(free', x) <=> Q!Contains(free, x) /\ x # "start"
  BY <1>1, Q!TakeProperties, Zenon DEF Start
<1>3. /\ pend' \in Seq(AssocMsg) /\ Q!LinkedOnce(pend')
      /\ \A x \in AssocMsg : Q!Contains(pend', x) <=> Q!Contains(pend, x) \/ x = "start"
      /\ Q!KeySorted(pend')
  BY <1>1, Q!PutProperties, Zenon DEF Start
<1>4. /\ session' = session + 1 /\ session < MaxSessions /\ pc' = "lock" /\ fresh' = {"start"}
      /\ accepted' = FALSE
      /\ UNCHANGED << val, work, outcome, lock, others >>
  BY DEF Start
<1>5. TypeOK'
  <2>1. session' \in 0 .. MaxSessions /\ inAssoc' = TRUE
    BY <1>1, <1>4 DEF Start, TypeOK
  <2>2. fresh' \subseteq AssocMsg
    BY <1>1, <1>4
  <2>3. QED
    BY <1>1, <1>2, <1>3, <1>4, <2>1, <2>2 DEF TypeOK, work, outcome, lock, others
<1>6. Places'
  BY <1>1, <1>2, <1>3, <1>4 DEF Places, OnePlace, Pushing, others
<1>7. Control'
  BY <1>1, <1>3, <1>4, TagFacts DEF Control, TypeOK, work, lock
<1>8. (air <= Sent)'
  BY <1>1, <1>4 DEF Inv, Sent, TypeOK, others
<1>9. FreshMessages' /\ Answers'
  <2>1. "start" \notin Rsp
    BY DEF Rsp
  <2>2. FreshMessages'
    BY <1>1, <1>4, <1>5, FreshDefNext DEF Inv, Control, work
  <2>3. curNet' < session' /\ pc' # "idle"
    BY <1>1, <1>4 DEF Inv, Answers, TypeOK, outcome
  <2>4. QED
    BY <1>1, <1>4, <2>1, <2>2, <2>3 DEF Answers, DoneMeansAccepted, TypeOK, outcome
<1>10. QED
  BY <1>3, <1>5, <1>6, <1>7, <1>8, <1>9 DEF Inv

(* wf_assoc_sta_thrd waits for the hardware lock.                            *)
LEMMA TakeHwLockInv == ASSUME Inv, TakeHwLock PROVE Inv'
<1>1. /\ UNCHANGED << queue, work, outcome, mlme, taken, others >>
      /\ pc = "lock" /\ hwLock = None /\ hwLock' = "assoc" /\ pc' = "getmsg"
  BY DEF TakeHwLock
<1>2. TypeOK'
  BY <1>1 DEF Inv, TypeOK, queue, work, outcome, mlme, others
<1>3. Calm
  BY <1>1 DEF Calm, others, Inv, TypeOK
<1>4. Control'
  BY <1>1 DEF Inv, Control, TypeOK, queue, work, mlme
<1>5. (air <= Sent)'
  BY <1>1 DEF Inv, Sent, work, mlme, others
<1>6. FreshMessages' /\ Answers'
  BY <1>1, SameAnswers DEF Inv, FreshMessages, queue, work, outcome, mlme
<1>7. QED
  BY <1>2, <1>3, <1>4, <1>5, <1>6, CalmPlaces DEF Inv

(* The request is sent, and its answer may come from now on.                 *)
LEMMA SendInv == ASSUME Inv, Send PROVE Inv'
<1> USE AssocAssumption
<1>1. /\ UNCHANGED << queue, work, outcome, mlme, lock, stop, rx >>
      /\ pc = "send" /\ pc' = "wait" /\ retryCnt < ResendTimes /\ air' = air + 1
  BY DEF Send
<1>2. /\ session \in Nat \ {0} /\ session \in 0 .. MaxSessions
      /\ retryCnt \in Nat /\ air \in Nat
      /\ air <= Tries(session - 1) + retryCnt
      /\ Sent' = Tries(session - 1) + retryCnt + 1
  BY <1>1 DEF Inv, TypeOK, Control, Sent, work, mlme
<1>3. (air <= Sent)' /\ air' \in 0 .. MaxAir
  <2>1. /\ Tries(session - 1) \in Nat /\ Tries(session) = Tries(session - 1) + ResendTimes
        /\ Tries(session) <= MaxAir /\ MaxAir \in Nat
    BY <1>2, TriesFacts
  <2>2. QED
    BY <1>1, <1>2, <2>1
<1>4. TypeOK'
  BY <1>1, <1>3 DEF Inv, TypeOK, queue, work, outcome, mlme, lock
<1>5. Calm
  BY <1>1 DEF Calm, Inv, TypeOK
<1>6. Control'
  BY <1>1 DEF Inv, Control, TypeOK, queue, work, mlme, lock
<1>7. FreshMessages' /\ Answers'
  BY <1>1, SameAnswers DEF Inv, FreshMessages, queue, work, outcome, mlme
<1>8. QED
  BY <1>3, <1>4, <1>5, <1>6, <1>7, CalmPlaces DEF Inv

(* A pending message is popped and given back.                               *)
LEMMA PopPlaces ==
    ASSUME Inv, NEW m \in AssocMsg, Q!Contains(pend, m),
           pend' = Q!Unlink(pend, m), free' = Q!Del(free, m), UNCHANGED << rx, stop >>
    PROVE  /\ pend' \in Seq(AssocMsg) /\ free' \in Seq(AssocMsg)
           /\ Places' /\ Q!KeySorted(pend)'
           /\ \A x \in AssocMsg : Q!Contains(pend', x) <=> Q!Contains(pend, x) /\ x # m
           /\ \A x \in AssocMsg : Q!Contains(free', x) <=> Q!Contains(free, x) \/ x = m
<1>1. /\ pend \in Seq(AssocMsg) /\ free \in Seq(AssocMsg)
      /\ Q!LinkedOnce(pend) /\ Q!LinkedOnce(free) /\ Q!KeySorted(pend)
  BY DEF Inv, TypeOK, Places
<1>2. /\ pend' \in Seq(AssocMsg) /\ Q!LinkedOnce(pend') /\ Q!KeySorted(pend')
      /\ \A x \in AssocMsg : Q!Contains(pend', x) <=> Q!Contains(pend, x) /\ x # m
  BY <1>1, TagType, Q!TakeProperties, Zenon
<1>3. /\ free' \in Seq(AssocMsg) /\ Q!LinkedOnce(free')
      /\ \A x \in AssocMsg : Q!Contains(free', x) <=> Q!Contains(free, x) \/ x = m
  BY <1>1, TagType, Q!DelProperties, Zenon
<1>4. Places'
  <2>1. Pushing' <=> Pushing
    BY DEF Pushing
  <2>2. ASSUME NEW x \in AssocMsg PROVE OnePlace(x)'
    BY <1>2, <1>3, <2>1 DEF Inv, Places, OnePlace
  <2>3. QED
    BY <1>2, <1>3, <2>2 DEF Inv, Places
<1>5. QED
  BY <1>2, <1>3, <1>4

(* The end of an association, with the hardware lock released.               *)
LEMMA EndSent ==
    ASSUME Inv, pc # "idle", pc' = "idle", UNCHANGED << session, air >>
    PROVE  (air <= Sent)'
<1>1. /\ session \in Nat \ {0} /\ session \in 0 .. MaxSessions
      /\ retryCnt \in 0 .. ResendTimes /\ air \in Nat /\ Sent' = Tries(session)
      /\ \/ air <= Tries(session - 1)
         \/ air <= Tries(session - 1) + retryCnt
         \/ air <= Tries(session - 1) + retryCnt + 1 /\ retryCnt < ResendTimes
  BY AssocAssumption DEF Inv, TypeOK, Control, Sent
<1>2. /\ Tries(session - 1) \in Nat /\ Tries(session) = Tries(session - 1) + ResendTimes
      /\ Tries(session) \in Nat /\ ResendTimes \in Nat
  BY <1>1, TriesFacts, AssocAssumption
<1>3. air <= Tries(session)
  BY <1>1, <1>2
<1>4. QED
  BY <1>1, <1>3

(* Another try: the request may be sent once more.                           *)
LEMMA RetrySent ==
    ASSUME Inv, pc = "wait", pc' = "send", retryCnt' = retryCnt + 1,
           UNCHANGED << session, air >>
    PROVE  (air <= Sent)'
<1>1. /\ session \in Nat \ {0} /\ air \in Nat /\ retryCnt \in Nat
      /\ air <= Tries(session - 1) + retryCnt + 1
      /\ Sent' = Tries(session - 1) + (retryCnt + 1)
  BY AssocAssumption, TriesFacts DEF Inv, TypeOK, Control, Sent
<1>2. Tries(session - 1) \in Nat
  BY <1>1, TriesFacts
<1>3. QED
  BY <1>1, <1>2

(* Messages older than START are thrown away; when START comes, as the least *)
(* urgent one, nothing else is pending.                                      *)
LEMMA GetMsgInv == ASSUME Inv, GetMsg PROVE Inv'
<1> DEFINE m == Q!EndOf(pend, FALSE)
<1> USE AssocAssumption
<1>1. /\ pc = "getmsg" /\ Q!Contains(pend, "start") /\ "start" \in AssocMsg
      /\ pend \in Seq(AssocMsg) /\ Q!KeySorted(pend)
      /\ ~brun /\ hwLock = "assoc" /\ session > 0
      /\ UNCHANGED << val, fresh, accepted, curNet, mlme, taken, others >>
  BY TagFacts DEF Inv, TypeOK, Places, Control, GetMsg
<1>2. pend # << >>
  <2>1. PICK i \in 1 .. Len(pend) : pend[i] = "start"
    BY <1>1, Zenon DEF Q!Contains
  <2>2. QED
    BY <1>1, <2>1
<1>3. /\ m \in AssocMsg /\ Q!Contains(pend, m)
      /\ \A x \in AssocMsg : Q!Contains(pend, x) => Q!Key(m) <= Q!Key(x)
  BY <1>1, <1>2, TagType, Q!HeadProperties, Zenon
<1>4. /\ pend' = Q!Unlink(pend, m) /\ free' = Q!Del(free, m)
      /\ IF m = "start" THEN brun' = TRUE /\ retryCnt' = 0 /\ pc' = "send"
                        ELSE UNCHANGED << brun, retryCnt, pc >>
      /\ UNCHANGED << hwLock, result >>
  BY <1>2 DEF GetMsg
<1> HIDE DEF m
<1>5. /\ pend' \in Seq(AssocMsg) /\ free' \in Seq(AssocMsg)
      /\ Places' /\ Q!KeySorted(pend)'
      /\ \A x \in AssocMsg : Q!Contains(pend', x) <=> Q!Contains(pend, x) /\ x # m
      /\ \A x \in AssocMsg : Q!Contains(free', x) <=> Q!Contains(free, x) \/ x = m
  BY <1>1, <1>3, <1>4, PopPlaces DEF others
<1>6. TypeOK'
  <2>1. CASE m = "start"
    <3>1. brun' = TRUE /\ retryCnt' = 0 /\ pc' = "send"
      BY <1>4, <2>1, Zenon
    <3>2. QED
      BY <1>1, <1>4, <1>5, <3>1 DEF Inv, TypeOK, mlme, others
  <2>2. CASE m # "start"
    <3>1. UNCHANGED << brun, retryCnt, pc >>
      BY <1>4, <2>2, Zenon
    <3>2. QED
      BY <1>1, <1>4, <1>5, <3>1 DEF Inv, TypeOK, mlme, others
  <2>3. QED
    BY <2>1, <2>2
<1>7. Control'
  BY <1>1, <1>4, <1>5 DEF Inv, Control, mlme
<1>8. (air <= Sent)'
  <2>1. /\ session \in Nat \ {0} /\ air' = air /\ air \in Nat /\ air <= Tries(session - 1)
        /\ Sent' = Tries(session - 1) \/ Sent' = Tries(session - 1) + 0
    BY <1>1, <1>4 DEF Inv, TypeOK, Sent, mlme, others
  <2>2. Tries(session - 1) \in Nat
    BY <2>1, TriesFacts
  <2>3. QED
    BY <2>1, <2>2
<1>9. FreshMessages'
  <2>1. CASE m = "start"
    <3>1. \A x \in AssocMsg : Q!Contains(pend, x) => x = m
      BY <1>3, <2>1, TagFacts, Zenon
    <3>2. QED
      BY <1>5, <1>6, <3>1, FreshDefNext, Zenon
  <2>2. CASE m # "start"
    BY <1>1, <1>4, <2>2 DEF FreshMessages
  <2>3. QED
    BY <2>1, <2>2
<1>10. Answers'
  <2>1. pc' # "idle"
    BY <1>1, <1>4
  <2>2. QED
    BY <1>1, <2>1, SameAnswers DEF mlme
<1>11. QED
  BY <1>5, <1>6, <1>7, <1>8, <1>9, <1>10 DEF Inv

(* Sending fails, or the tries are exhausted.                                *)
LEMMA GiveUpInv == ASSUME Inv, GiveUp PROVE Inv'
<1>1. /\ UNCHANGED << queue, retryCnt, curNet, mlme, taken, others >>
      /\ pc = "send" /\ brun' = FALSE /\ hwLock' = None /\ result' = "fail" /\ pc' = "idle"
  BY DEF GiveUp, End
<1>2. TypeOK'
  BY <1>1 DEF Inv, TypeOK, queue, mlme, others
<1>3. Calm
  BY <1>1 DEF Calm, others, Inv, TypeOK
<1>4. Control'
  BY <1>1 DEF Inv, Control, queue, mlme, None
<1>5. (air <= Sent)'
  BY <1>1, EndSent DEF mlme, others
<1>6. FreshMessages' /\ Answers'
  BY <1>1, SameAnswers DEF Inv, FreshMessages, queue, mlme
<1>7. QED
  BY <1>2, <1>3, <1>4, <1>5, <1>6, CalmPlaces DEF Inv

(* No answer within the time: one try is spent.                              *)
LEMMA TimeoutInv == ASSUME Inv, Timeout PROVE Inv'
<1> USE AssocAssumption
<1>1. /\ UNCHANGED << queue, brun, outcome, mlme, lock, others >>
      /\ pc = "wait" /\ pc' = "send" /\ retryCnt' = retryCnt + 1
      /\ retryCnt < ResendTimes /\ retryCnt \in Nat
  BY DEF Timeout, Inv, Control, TypeOK
<1>2. TypeOK'
  <2>1. retryCnt' \in 0 .. ResendTimes
    BY <1>1
  <2>2. QED
    BY <1>1, <2>1 DEF Inv, TypeOK, queue, outcome, mlme, lock, others
<1>3. Calm
  BY <1>1 DEF Calm, others, Inv, TypeOK
<1>4. Control'
  BY <1>1 DEF Inv, Control, queue, mlme, lock
<1>5. (air <= Sent)'
  BY <1>1, RetrySent DEF mlme, others
<1>6. FreshMessages' /\ Answers'
  BY <1>1, SameAnswers DEF Inv, FreshMessages, queue, outcome, mlme
<1>7. QED
  BY <1>2, <1>3, <1>4, <1>5, <1>6, CalmPlaces DEF Inv

(* The message the protothread waited for: an ABORT, a success or a refusal; *)
(* never START, which is free as long as the association runs.               *)
LEMMA WaitMsgInv == ASSUME Inv, WaitMsg PROVE Inv'
<1> DEFINE m == Q!EndOf(pend, FALSE)
<1> USE AssocAssumption
<1>1. /\ pc = "wait" /\ pend # << >> /\ pend \in Seq(AssocMsg)
      /\ Q!Contains(free, "start") /\ brun /\ hwLock = "assoc" /\ session > 0
      /\ retryCnt < ResendTimes /\ retryCnt \in Nat
      /\ UNCHANGED << val, fresh, accepted, mlme, taken, others >>
      /\ pend' = Q!Unlink(pend, m) /\ free' = Q!Del(free, m)
  BY DEF Inv, TypeOK, Control, WaitMsg
<1>2. m \in AssocMsg /\ Q!Contains(pend, m)
  BY <1>1, TagType, Q!EndOfProperties, Zenon
<1>3. \/ /\ brun' = FALSE /\ hwLock' = None /\ result' = "abort" /\ pc' = "idle"
         /\ UNCHANGED << retryCnt, curNet >>
      \/ /\ brun' = FALSE /\ hwLock' = None /\ result' = "done" /\ pc' = "idle"
         /\ UNCHANGED retryCnt /\ curNet' = session /\ m \in Rsp /\ val[m] = "accept"
      \/ /\ retryCnt' = retryCnt + 1 /\ pc' = "send"
         /\ UNCHANGED << brun, hwLock, outcome >>
  BY DEF WaitMsg, End
<1> HIDE DEF m
<1>4. /\ pend' \in Seq(AssocMsg) /\ free' \in Seq(AssocMsg)
      /\ Places' /\ Q!KeySorted(pend)'
      /\ \A x \in AssocMsg : Q!Contains(pend', x) <=> Q!Contains(pend, x) /\ x # m
      /\ \A x \in AssocMsg : Q!Contains(free', x) <=> Q!Contains(free, x) \/ x = m
  BY <1>1, <1>2, PopPlaces DEF others
<1>5. Q!Contains(free', "start")
  BY <1>1, <1>4, TagFacts
<1>6. CASE pc' = "idle"
  <2>1. /\ brun' = FALSE /\ hwLock' = None /\ UNCHANGED retryCnt
        /\ \/ result' = "abort" /\ UNCHANGED curNet
           \/ result' = "done" /\ curNet' = session /\ m \in Rsp /\ val[m] = "accept"
    BY <1>3, <1>6
  <2>2. TypeOK'
    BY <1>1, <1>4, <1>6, <2>1 DEF Inv, TypeOK, mlme, others
  <2>3. Control'
    BY <1>1, <1>5, <1>6, <2>1 DEF Control, mlme, None
  <2>4. (air <= Sent)'
    BY <1>1, <1>6, EndSent DEF mlme, others
  <2>5. FreshMessages' /\ Answers'
    <3>1. FreshMessages'
      BY <2>1 DEF FreshMessages
    <3>2. CASE result' = "abort" /\ UNCHANGED curNet
      BY <1>1, <1>6, <3>1, <3>2, SameAnswers DEF mlme
    <3>3. CASE result' = "done" /\ curNet' = session /\ m \in Rsp /\ val[m] = "accept"
      <4>1. m \in fresh
        BY <1>1, <1>2, FreshDef DEF Inv
      <4>2. accepted
        BY <3>3, <4>1 DEF Inv, Answers
      <4>3. accepted' /\ session' = session /\ session \in Nat
        BY <1>1, <4>2 DEF Inv, TypeOK, mlme
      <4>4. QED
        BY <1>1, <1>6, <3>1, <3>3, <4>3 DEF Answers, DoneMeansAccepted
    <3>4. QED
      BY <2>1, <3>2, <3>3
  <2>6. QED
    BY <1>4, <2>2, <2>3, <2>4, <2>5 DEF Inv
<1>7. CASE pc' = "send"
  <2>1. retryCnt' = retryCnt + 1 /\ UNCHANGED << brun, hwLock, outcome >>
    BY <1>3, <1>7
  <2>2. TypeOK'
    <3>1. retryCnt' \in 0 .. ResendTimes
      BY <1>1, <2>1
    <3>2. QED
      BY <1>1, <1>4, <1>7, <2>1, <3>1 DEF Inv, TypeOK, mlme, outcome, others
  <2>3. Control'
    BY <1>1, <1>5, <1>7, <2>1 DEF Control, mlme
  <2>4. (air <= Sent)'
    BY <1>1, <1>7, <2>1, RetrySent DEF mlme, others
  <2>5. FreshMessages'
    BY <1>1, <1>4, <2>2, FreshDef, FreshDefNext DEF Inv
  <2>6. Answers'
    BY <1>1, <1>7, <2>1, SameAnswers DEF outcome, mlme
  <2>7. QED
    BY <1>4, <2>2, <2>3, <2>4, <2>5, <2>6 DEF Inv
<1>8. QED
  BY <1>3, <1>6, <1>7

-----------------------------------------------------------------------------
(* The steps of the other threads leave the protothread's state alone.       *)
LEMMA OtherThreads ==
    ASSUME Inv, UNCHANGED << pc, work, outcome, mlme, lock >>,
           air' \in 0 .. air,
           pend' \in Seq(AssocMsg), free' \in Seq(AssocMsg),
           val' \in [Rsp -> Frame \cup {None}], fresh' \subseteq AssocMsg,
           stop' \in [Stopper -> {"idle", "new", "push"}],
           rx' \in [at : {"idle", "new", "push"}, frame : Frame \cup {None},
                    msg : Rsp \cup {None}],
           Places', Q!KeySorted(pend)',
           Q!Contains(pend, "start") => Q!Contains(pend', "start"),
           Q!Contains(free, "start") => Q!Contains(free', "start"),
           \A m \in AssocMsg : m \in fresh => m \in fresh',
           accepted' \in BOOLEAN, accepted => accepted',
           \A m \in Rsp : m \in fresh' /\ val'[m] = "accept" =>
                accepted' \/ (m \in fresh /\ val[m] = "accept"),
           \A m \in AssocMsg : Q!Contains(pend', m) => Q!Contains(pend, m) \/ m \in fresh'
    PROVE  Inv'
<1>1. TypeOK'
  <2>1. air' \in 0 .. MaxAir
    <3>1. air \in 0 .. MaxAir /\ MaxAir \in Nat
      BY TriesFacts DEF Inv, TypeOK
    <3>2. QED
      BY <3>1
  <2>2. QED
    BY <2>1 DEF Inv, TypeOK, work, outcome, mlme, lock
<1>2. Control'
  BY DEF Inv, Control, work, mlme, lock
<1>3. (air <= Sent)'
  <2>1. UNCHANGED << pc, retryCnt, session >> /\ air \in Nat
    BY TriesFacts DEF work, mlme, Inv, TypeOK
  <2>2. Sent' = Sent /\ Sent \in Int
    <3>1. /\ session \in Nat /\ session \in 0 .. MaxSessions
          /\ pc # "idle" => session > 0
          /\ retryCnt \in Nat /\ pc \in {"idle", "lock", "getmsg", "send", "wait"}
      BY AssocAssumption DEF Inv, TypeOK, Control
    <3>2. Tries(session) \in Nat /\ (pc # "idle" => Tries(session - 1) \in Nat)
      BY <3>1, TriesFacts
    <3>3. QED
      BY <2>1, <3>1, <3>2 DEF Sent
  <2>3. QED
    BY <2>1, <2>2 DEF Inv
<1>4. FreshMessages'
  BY <1>1, FreshDef, FreshDefNext DEF Inv, work
<1>5. Answers'
  BY DEF Inv, Answers, DoneMeansAccepted, outcome, mlme
<1>6. QED
  BY <1>1, <1>2, <1>3, <1>4, <1>5 DEF Inv

(* wf_assoc_stop tests brun.                                                 *)
LEMMA StopTestInv == ASSUME Inv, NEW s \in Stopper, StopTest(s) PROVE Inv'
<1>1. /\ UNCHANGED << queue, pc, work, outcome, mlme, lock, air, rx >>
      /\ stop[s] = "idle" /\ stop' = [stop EXCEPT ![s] = "new"]
      /\ stop \in [Stopper -> {"idle", "new", "push"}] /\ air \in Nat
  BY TriesFacts DEF StopTest, Inv, TypeOK
<1>2. Calm
  BY <1>1 DEF Calm
<1>3. QED
  BY <1>1, <1>2, CalmPlaces, OtherThreads DEF Inv, TypeOK, queue, Calm

(* wf_assoc_stop gets the ABORT message, if it is free.                      *)
LEMMA StopNewInv == ASSUME Inv, NEW s \in Stopper, StopNew(s) PROVE Inv'
<1>1. /\ UNCHANGED << pend, val, fresh, accepted, pc, work, outcome, mlme, lock, air, rx >>
      /\ stop[s] = "new" /\ stop \in [Stopper -> {"idle", "new", "push"}]
      /\ free \in Seq(AssocMsg) /\ pend \in Seq(AssocMsg) /\ air \in 0 .. air
      /\ Q!LinkedOnce(free) /\ Places /\ TypeOK /\ Q!KeySorted(pend)
  BY TriesFacts DEF StopNew, Inv, TypeOK, Places
<1>2. CASE Q!HasFree(free, AssocTag["abort"])
  <2>1. free' = Q!Unlink(free, "abort") /\ stop' = [stop EXCEPT ![s] = "push"]
    BY <1>2 DEF StopNew
  <2>2. PICK i \in 1 .. Len(free) : AssocTag[free[i]] = AssocTag["abort"]
    BY <1>2 DEF Q!HasFree
  <2>3. Q!Contains(free, "abort") /\ "abort" \in AssocMsg
    BY <1>1, <2>2, TagFacts DEF Q!Contains
  <2>4. /\ free' \in Seq(AssocMsg) /\ Q!LinkedOnce(free')
        /\ \A x \in AssocMsg : Q!Contains(free', x) <=> Q!Contains(free, x) /\ x # "abort"
    BY <1>1, <2>1, <2>3, TagType, Q!TakeProperties, Zenon
  <2>5. ~Pushing /\ Pushing'
    BY <1>1, <2>1, <2>3 DEF Places, OnePlace, Pushing
  <2>6. Places'
    <3>1. \A x \in AssocMsg : OnePlace(x)'
      BY <1>1, <2>3, <2>4, <2>5 DEF Places, OnePlace
    <3>2. \A t, u \in Stopper : stop'[t] = "push" /\ stop'[u] = "push" => t = u
      BY <1>1, <2>1, <2>5 DEF Pushing
    <3>3. QED
      BY <1>1, <2>4, <3>1, <3>2 DEF Places
  <2>7. QED
    BY <1>1, <2>1, <2>4, <2>6, TagFacts, OtherThreads DEF TypeOK
<1>3. CASE ~Q!HasFree(free, AssocTag["abort"])
  <2>1. UNCHANGED free /\ stop' = [stop EXCEPT ![s] = "idle"]
    BY <1>3 DEF StopNew
  <2>2. Calm
    BY <1>1, <2>1 DEF Calm, queue
  <2>3. QED
    BY <1>1, <2>1, <2>2, CalmPlaces, OtherThreads DEF TypeOK, Calm
<1>4. QED
  BY <1>2, <1>3

(* wf_assoc_stop pushes ABORT.                                               *)
LEMMA StopPushInv == ASSUME Inv, NEW s \in Stopper, StopPush(s) PROVE Inv'
<1>1. /\ UNCHANGED << free, val, accepted, pc, work, outcome, mlme, lock, air, rx >>
      /\ stop[s] = "push" /\ stop' = [stop EXCEPT ![s] = "idle"]
      /\ stop \in [Stopper -> {"idle", "new", "push"}]
      /\ pend' = Q!Push(pend, "abort") /\ fresh' = fresh \cup {"abort"}
      /\ free \in Seq(AssocMsg) /\ pend \in Seq(AssocMsg) /\ air \in 0 .. air
      /\ Q!LinkedOnce(pend) /\ Places /\ TypeOK /\ Q!KeySorted(pend)
  BY TriesFacts DEF StopPush, Inv, TypeOK, Places
<1>2. "abort" \in AssocMsg /\ Pushing /\ ~Q!Contains(pend, "abort") /\ ~Q!Contains(free, "abort")
  BY <1>1, TagFacts DEF Places, OnePlace, Pushing
<1>3. /\ pend' \in Seq(AssocMsg) /\ Q!LinkedOnce(pend') /\ Q!KeySorted(pend')
      /\ \A x \in AssocMsg : Q!Contains(pend', x) <=> Q!Contains(pend, x) \/ x = "abort"
  BY <1>1, <1>2, TagType, Q!PutProperties, Zenon
<1>4. ~Pushing'
  BY <1>1 DEF Places, Pushing
<1>5. Places'
  <2>1. rx.msg # "abort"
    BY <1>1 DEF TypeOK, Rsp, None
  <2>2. \A x \in AssocMsg : OnePlace(x)'
    BY <1>1, <1>2, <1>3, <1>4, <2>1 DEF Places, OnePlace
  <2>3. QED
    BY <1>1, <1>3, <1>4, <2>2 DEF Places, Pushing
<1>6. /\ fresh' \subseteq AssocMsg /\ \A x \in AssocMsg : x \in fresh => x \in fresh'
      /\ \A x \in AssocMsg : Q!Contains(pend', x) => Q!Contains(pend, x) \/ x \in fresh'
      /\ \A x \in Rsp : x \in fresh' => x \in fresh
  BY <1>1, <1>2, <1>3 DEF TypeOK, Rsp
<1>7. Q!Contains(pend, "start") => Q!Contains(pend', "start")
  BY <1>3, TagFacts
<1>8. stop' \in [Stopper -> {"idle", "new", "push"}]
  BY <1>1
<1>9. QED
  BY <1>1, <1>3, <1>5, <1>6, <1>7, <1>8, OtherThreads DEF TypeOK

(* wf_assoc_frame_parse takes an answer while the MLME associates.           *)
LEMMA RxTestInv == ASSUME Inv, RxTest PROVE Inv'
<1>1. /\ UNCHANGED << queue, pc, work, outcome, mlme, lock, stop >>
      /\ rx.at = "idle" /\ air \in Nat /\ air > 0 /\ air' = air - 1
      /\ Places /\ TypeOK /\ Q!KeySorted(pend)
  BY TriesFacts DEF RxTest, Inv, TypeOK
<1>2. PICK f \in Frame : rx' = [at |-> "new", frame |-> f, msg |-> None]
  BY DEF RxTest
<1>3. air' \in 0 .. air
  BY <1>1
<1>4. rx.msg = None /\ rx'.msg = None /\ rx'.at = "new" /\ rx'.frame = f
  BY <1>1, <1>2 DEF Places
<1>5. Places' /\ Q!KeySorted(pend)'
  BY <1>1, <1>4 DEF Places, OnePlace, Pushing, queue
<1>6. QED
  BY <1>1, <1>2, <1>3, <1>5, OtherThreads DEF TypeOK, queue

(* wf_assoc_frame_parse gets a message for the answer, or drops the answer.  *)
LEMMA RxNewInv == ASSUME Inv, RxNew PROVE Inv'
<1>1. /\ UNCHANGED << pend, val, fresh, accepted, pc, work, outcome, mlme, lock, air, stop >>
      /\ rx.at = "new" /\ rx.msg = None /\ rx.frame \in Frame /\ air \in 0 .. air
      /\ free \in Seq(AssocMsg) /\ pend \in Seq(AssocMsg)
      /\ Q!LinkedOnce(free) /\ Places /\ TypeOK /\ Q!KeySorted(pend)
  BY TriesFacts DEF RxNew, Inv, TypeOK, Places
<1>2. CASE Q!HasFree(free, AssocTag["rsp1"])
  <2> DEFINE m == Q!FirstFree(free, AssocTag["rsp1"])
  <2>1. free' = Q!Unlink(free, m) /\ rx' = [rx EXCEPT !.at = "push", !.msg = m]
    BY <1>2 DEF RxNew
  <2>2. m \in AssocMsg /\ Q!Contains(free, m) /\ AssocTag[m] = AssocTag["rsp1"]
    BY <1>1, <1>2, TagType, Q!FirstFreeProperties, Zenon
  <2> HIDE DEF m
  <2>3. m \in Rsp /\ m # "abort" /\ m # "start" /\ m # None
    BY <2>2, TagFacts DEF Rsp, None
  <2>4. /\ free' \in Seq(AssocMsg) /\ Q!LinkedOnce(free')
        /\ \A x \in AssocMsg : Q!Contains(free', x) <=> Q!Contains(free, x) /\ x # m
    BY <1>1, <2>1, <2>2, TagType, Q!TakeProperties, Zenon
  <2>5. /\ rx' \in [at : {"idle", "new", "push"}, frame : Frame \cup {None},
                    msg : Rsp \cup {None}]
        /\ rx'.at = "push" /\ rx'.msg = m /\ rx'.frame \in Frame
    BY <1>1, <2>1, <2>3 DEF TypeOK
  <2>6. Places'
    <3>1. Pushing' <=> Pushing
      BY <1>1 DEF Pushing
    <3>2. ASSUME NEW x \in AssocMsg PROVE OnePlace(x)'
      BY <1>1, <2>2, <2>3, <2>4, <2>5, <3>1 DEF Places, OnePlace, AssocMsg, None
    <3>3. QED
      BY <1>1, <2>3, <2>4, <2>5, <3>2 DEF Places
  <2>7. QED
    BY <1>1, <2>3, <2>4, <2>5, <2>6, TagFacts, OtherThreads DEF TypeOK
<1>3. CASE ~Q!HasFree(free, AssocTag["rsp1"])
  <2>1. UNCHANGED free /\ rx' = RxIdle
    BY <1>3 DEF RxNew
  <2>2. Places'
    BY <1>1, <2>1 DEF Places, OnePlace, Pushing, RxIdle
  <2>3. rx' \in [at : {"idle", "new", "push"}, frame : Frame \cup {None},
                 msg : Rsp \cup {None}]
    BY <2>1 DEF RxIdle
  <2>4. QED
    BY <1>1, <2>1, <2>2, <2>3, OtherThreads DEF TypeOK
<1>4. QED
  BY <1>2, <1>3

(* wf_assoc_frame_parse stores the answer and pushes the message.            *)
LEMMA RxPushInv == ASSUME Inv, RxPush PROVE Inv'
<1> DEFINE m == rx.msg
<1>1. /\ UNCHANGED << free, pc, work, outcome, mlme, lock, air, stop >>
      /\ rx.at = "push" /\ m # None /\ m \in Rsp /\ rx.frame \in Frame /\ air \in 0 .. air
      /\ pend' = Q!Push(pend, m) /\ fresh' = fresh \cup {m} /\ rx' = RxIdle
      /\ val' = [val EXCEPT ![m] = rx.frame]
      /\ accepted' = (accepted \/ rx.frame = "accept")
      /\ free \in Seq(AssocMsg) /\ pend \in Seq(AssocMsg)
      /\ Q!LinkedOnce(pend) /\ Places /\ TypeOK /\ Q!KeySorted(pend)
  BY TriesFacts DEF RxPush, Inv, TypeOK, Places
<1>2. /\ m \in AssocMsg /\ m # "abort" /\ m # "start"
      /\ ~Q!Contains(pend, m) /\ ~Q!Contains(free, m)
  BY <1>1, TagFacts DEF Places, OnePlace, Rsp
<1>3. /\ pend' \in Seq(AssocMsg) /\ Q!LinkedOnce(pend') /\ Q!KeySorted(pend')
      /\ \A x \in AssocMsg : Q!Contains(pend', x) <=> Q!Contains(pend, x) \/ x = m
  BY <1>1, <1>2, TagType, Q!PutProperties, Zenon
<1>4. Places'
  <2>1. rx'.at = "idle" /\ rx'.msg = None /\ None \notin AssocMsg
    BY <1>1 DEF RxIdle, AssocMsg, None
  <2>2. \A x \in AssocMsg : OnePlace(x)'
    BY <1>1, <1>2, <1>3, <2>1 DEF Places, OnePlace, Pushing
  <2>3. QED
    BY <1>1, <1>3, <2>1, <2>2 DEF Places
<1>5. /\ rx' \in [at : {"idle", "new", "push"}, frame : Frame \cup {None},
                  msg : Rsp \cup {None}]
      /\ val' \in [Rsp -> Frame \cup {None}]
  BY <1>1 DEF TypeOK, RxIdle
<1>6. /\ accepted' \in BOOLEAN /\ (accepted => accepted')
      /\ \A x \in Rsp : x \in fresh' /\ val'[x] = "accept" =>
            accepted' \/ (x \in fresh /\ val[x] = "accept")
  <2>1. accepted' \in BOOLEAN /\ (accepted' <=> accepted \/ rx.frame = "accept")
    BY <1>1, Zenon
  <2>2. QED
    BY <1>1, <2>1 DEF TypeOK
<1>7. QED
  <2>1. /\ fresh' \subseteq AssocMsg /\ \A x \in AssocMsg : x \in fresh => x \in fresh'
        /\ \A x \in AssocMsg : Q!Contains(pend', x) => Q!Contains(pend, x) \/ x \in fresh'
    BY <1>1, <1>2, <1>3 DEF TypeOK
  <2>2. Q!Contains(pend, "start") => Q!Contains(pend', "start")
    BY <1>3, TagFacts
  <2>3. QED
    BY <1>1, <1>3, <1>4, <1>5, <1>6, <2>1, <2>2, OtherThreads DEF TypeOK

-----------------------------------------------------------------------------
(* The MLME leaves its association state; the other interface takes and      *)
(* releases the hardware.                                                    *)
LEMMA SurroundingsInv == ASSUME Inv, LeaveAssoc \/ OtherLock \/ OtherUnlock PROVE Inv'
<1> USE AssocAssumption
<1>1. /\ UNCHANGED << queue, pc, work, outcome, session, others >>
      /\ hwLock' = "assoc" <=> hwLock = "assoc"
  BY DEF LeaveAssoc, OtherLock, OtherUnlock, mlme, lock, None
<1>2. TypeOK'
  <2>1. inAssoc' \in BOOLEAN /\ hwLock' \in {None, "assoc", "other"} /\ taken' \in 0 .. MaxOther
    <3>1. CASE LeaveAssoc
      <4>1. inAssoc' = FALSE /\ UNCHANGED << hwLock, taken >>
        BY <3>1 DEF LeaveAssoc, lock
      <4>2. QED
        BY <4>1 DEF Inv, TypeOK
    <3>2. CASE OtherLock \/ OtherUnlock
      BY <3>2 DEF OtherLock, OtherUnlock, mlme, Inv, TypeOK
    <3>3. QED
      BY <3>1, <3>2
  <2>2. QED
    BY <1>1, <2>1 DEF Inv, TypeOK, queue, work, outcome, others
<1>3. Calm
  BY <1>1 DEF Calm, others, Inv, TypeOK
<1>4. Control'
  BY <1>1 DEF Inv, Control, queue, work
<1>5. (air <= Sent)' /\ FreshMessages' /\ Answers'
  BY <1>1, SameAnswers DEF Inv, Sent, FreshMessages, queue, work, outcome, others
<1>6. QED
  BY <1>2, <1>3, <1>4, <1>5, CalmPlaces DEF Inv

(* Every step keeps the inductive invariant.                                 *)
LEMMA NextInv == ASSUME Inv, [Next]_vars PROVE Inv'
<1>1. CASE Start
  BY <1>1, StartInv
<1>2. CASE LeaveAssoc \/ OtherLock \/ OtherUnlock
  BY <1>2, SurroundingsInv
<1>3. CASE AssocThrd
  BY <1>3, TakeHwLockInv, GetMsgInv, SendInv, GiveUpInv, TimeoutInv, WaitMsgInv DEF
     AssocThrd
<1>4. CASE \E s \in Stopper : StopTest(s) \/ StopNew(s) \/ StopPush(s)
  BY <1>4, StopTestInv, StopNewInv, StopPushInv
<1>5. CASE RxTest \/ RxNew \/ RxPush
  BY <1>5, RxTestInv, RxNewInv, RxPushInv
<1>6. CASE UNCHANGED vars
  BY <1>6 DEF vars, queue, work, outcome, mlme, lock, others, Inv, TypeOK, Places,
     OnePlace, Pushing, Control, Sent, FreshMessages, Answers, DoneMeansAccepted
<1>7. QED
  BY <1>1, <1>2, <1>3, <1>4, <1>5, <1>6 DEF Next

(* The inductive invariant holds in every reachable state.                   *)
LEMMA InvAlways == Spec => []Inv
<1>1. Init => Inv
  BY InitInv
<1>2. Inv /\ [Next]_vars => Inv'
  BY NextInv
<1>3. QED
  BY <1>1, <1>2, PTL DEF Spec

-----------------------------------------------------------------------------
(* Whatever ends an association (a success, an ABORT of any of the threads,  *)
(* a failure to send, the last try), wf_assoc_sta_thrd leaves brun off, the  *)
(* hardware lock released and START free for the next wf_assoc_start.        *)
THEOREM AssocCleanEnd == Spec => []CleanEnd
<1>1. Inv => CleanEnd
  BY DEF Inv, Control, CleanEnd
<1>2. QED
  BY <1>1, InvAlways, PTL

(* However the protothread, the receive thread and any number of stopping    *)
(* threads interleave, each message of assoc_msg_init is in exactly one      *)
(* place, and the variables keep their types: the answers on their way are   *)
(* never more than the tries of all sessions.                                *)
THEOREM AssocMessagesAccounted == Spec => []MessagesAccounted
<1>1. Inv => MessagesAccounted
  <2> SUFFICES ASSUME Inv PROVE MessagesAccounted
    OBVIOUS
  <2>1. ASSUME NEW m \in AssocMsg
        PROVE  1 = (IF Q!Contains(pend, m) THEN 1 ELSE 0)
                 + (IF Q!Contains(free, m) THEN 1 ELSE 0)
                 + (IF rx.msg = m THEN 1 ELSE 0)
                 + (IF m = "abort" /\ \E s \in Stopper : stop[s] = "push" THEN 1 ELSE 0)
    <3>1. OnePlace(m) /\ (m = "abort" => rx.msg # m)
      BY DEF Inv, Places, TypeOK, Rsp, None
    <3>2. QED
      BY <3>1 DEF OnePlace, Pushing
  <2>2. QED
    BY <2>1 DEF Inv, MessagesAccounted
<1>2. QED
  BY <1>1, InvAlways, PTL

(* An association never looks at an answer or an ABORT that was queued       *)
(* before it started: START is the least urgent message, so wf_msg_get hands *)
(* out everything older first, and it is thrown away.                        *)
THEOREM AssocFreshMessages == Spec => []FreshMessages
<1>1. Inv => FreshMessages
  BY DEF Inv
<1>2. QED
  BY <1>1, InvAlways, PTL

(* For any number of sessions, tries and stopping threads: an association    *)
(* that *prsn reports as done was answered with a success queued after it    *)
(* was started, and it alone has stored the AID and the IEs in cur_network.  *)
THEOREM AssocDoneMeansAccepted == Spec => []DoneMeansAccepted
<1>1. Inv => DoneMeansAccepted
  BY DEF Inv, Answers
<1>2. QED
  BY <1>1, InvAlways, PTL

-----------------------------------------------------------------------------
(* A step inside one phase that leaves the hardware lock and the result      *)
(* alone is no step of the procedure.                                        *)
LEMMA ProcedureStutters ==
    ASSUME hwLock' = hwLock, Phase' = Phase, pc = "idle" <=> pc' = "idle",
           pc = "idle" => result' = result
    PROVE  UNCHANGED P!vars
BY Zenon DEF P!vars

(* Taking the hardware lock begins the work, and only when it is free.       *)
LEMMA TakeHwLockEnters == ASSUME TakeHwLock PROVE P!Enter
<1>1. pc = "lock" /\ pc' = "getmsg" /\ hwLock = None /\ hwLock' = "assoc"
  BY DEF TakeHwLock
<1>2. Phase = "waiting" /\ Phase' = "working"
  BY <1>1 DEF Phase
<1>3. QED
  BY <1>1, <1>2 DEF P!Enter, P!None, None

(* The label "exit" ends the work, with the result it stores.                *)
LEMMA EndFinishes ==
    ASSUME Inv, pc \in {"getmsg", "send", "wait"}, NEW why \in P!Outcome, End(why)
    PROVE  P!Finish
<1>1. pc' = "idle" /\ hwLock' = None /\ result' = why /\ hwLock = "assoc"
  BY DEF End, Inv, Control
<1>2. Phase = "working" /\ Phase' = "idle"
  BY <1>1 DEF Phase
<1>3. QED
  BY <1>1, <1>2 DEF P!Finish, P!None, None

(* Every step of wf_assoc_sta_thrd with the hardware stays inside the work   *)
(* with the lock held, or is the label "exit" with a result.                 *)
LEMMA AssocWorks ==
    ASSUME Inv, AssocThrd, ~TakeHwLock
    PROVE  P!Finish \/ UNCHANGED P!vars
<1>1. pc \in {"getmsg", "send", "wait"}
  BY DEF AssocThrd, GetMsg, Send, GiveUp, Timeout, WaitMsg
<1>2. ASSUME NEW why \in P!Outcome, End(why) PROVE P!Finish
  BY <1>1, <1>2, EndFinishes, Zenon
<1>3. ASSUME hwLock' = hwLock, pc' \in {"getmsg", "send", "wait"} PROVE UNCHANGED P!vars
  BY <1>1, <1>3, ProcedureStutters DEF Phase
<1>4. "done" \in P!Outcome /\ "abort" \in P!Outcome /\ "fail" \in P!Outcome
  BY DEF P!Outcome
<1>5. CASE GetMsg
  BY <1>1, <1>2, <1>3, <1>4, <1>5 DEF GetMsg
<1>6. CASE Send \/ Timeout
  BY <1>3, <1>6 DEF Send, Timeout, lock
<1>7. CASE GiveUp
  BY <1>2, <1>4, <1>7 DEF GiveUp
<1>8. CASE WaitMsg
  BY <1>2, <1>3, <1>4, <1>8 DEF WaitMsg
<1>9. QED
  BY <1>5, <1>6, <1>7, <1>8 DEF AssocThrd

(* The stopping threads and the receive thread neither move the procedure    *)
(* nor touch the hardware lock.                                              *)
LEMMA OthersStutter ==
    ASSUME \/ \E s \in Stopper : StopTest(s) \/ StopNew(s) \/ StopPush(s)
           \/ LeaveAssoc \/ RxTest \/ RxNew \/ RxPush
           \/ UNCHANGED vars
    PROVE  UNCHANGED P!vars
<1>1. pc' = pc /\ hwLock' = hwLock /\ result' = result
  BY DEF StopTest, StopNew, StopPush, LeaveAssoc, RxTest, RxNew, RxPush, vars, outcome, lock
<1>2. QED
  BY <1>1, ProcedureStutters DEF Phase

(* An association is a procedure: for any number of tries and of threads     *)
(* that stop it at any moment, it takes the hardware only when it is free,   *)
(* keeps it until it returns, and returns once with done, abort or fail in   *)
(* the step that gives the hardware back.                                    *)
THEOREM AssocImplementsProcedure == Spec => ImplementsProcedure
<1>1. Init => P!Init
  BY DEF Init, Phase, P!Init, P!None, None
<1>2. ASSUME Inv, Next PROVE P!Next \/ UNCHANGED P!vars
  <2>1. CASE Start
    <3>1. pc = "idle" /\ pc' = "lock" /\ hwLock' = hwLock
      BY <2>1 DEF Start, lock
    <3>2. P!Begin
      BY <3>1 DEF Phase, P!Begin, P!None, None
    <3>3. QED
      BY <3>2 DEF P!Next
  <2>2. CASE AssocThrd
    BY <1>2, <2>2, TakeHwLockEnters, AssocWorks, Zenon DEF P!Next
  <2>3. CASE OtherLock \/ OtherUnlock
    <3>1. /\ pc' = pc /\ result' = result
          /\ \/ hwLock = None /\ hwLock' = "other"
             \/ hwLock = "other" /\ hwLock' = None
      BY <2>3 DEF OtherLock, OtherUnlock, outcome
    <3>2. P!OtherTakes \/ P!OtherReleases
      BY <3>1 DEF Phase, P!OtherTakes, P!OtherReleases, P!None, P!Other, None
    <3>3. QED
      BY <3>2 DEF P!Next
  <2>4. CASE \/ \E s \in Stopper : StopTest(s) \/ StopNew(s) \/ StopPush(s)
             \/ LeaveAssoc \/ RxTest \/ RxNew \/ RxPush
    BY <2>4, OthersStutter, Zenon
  <2>5. QED
    BY <1>2, <2>1, <2>2, <2>3, <2>4, Zenon DEF Next
<1>3. Inv /\ [Next]_vars => [P!Next]_(P!vars)
  BY <1>2, OthersStutter
<1>4. QED
  BY <1>1, <1>3, InvAlways, PTL DEF Spec, ImplementsProcedure, P!Spec
=============================================================================
