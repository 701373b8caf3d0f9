----------------------------- MODULE MlmeProofs -----------------------------
(***************************************************************************)
(* Proofs about the MLME of a station, for any pool of messages, any       *)
(* number of calling threads and any number of calls.  The inductive       *)
(* invariant Inv says where every message is, what the callers hold, and   *)
(* what the MLME thread has set up at each of its points.                  *)
(***************************************************************************)
EXTENDS Mlme, TLAPS

-----------------------------------------------------------------------------
\* The messages that are always in one place: all but the connect requests,
\* which wf_mlme_conn_start may delete while the MLME thread takes them.
Plain == { m \in Msg : m[1] # "conn" }

Thread(m) == m = cur \/ m = pconn \/ m = pscan
Pushes(c, m) == call[c].at = "push" /\ call[c].msg = m
InHand(m) == \E c \in Caller : Pushes(c, m)

SomePlace(m) == Q!Contains(pend, m) \/ Q!Contains(free, m) \/ Thread(m) \/ InHand(m)

OnePlace(m) ==
    /\ Q!Contains(pend, m) => ~Q!Contains(free, m)
    /\ Q!Contains(pend, m) \/ Q!Contains(free, m) => ~Thread(m) /\ ~InHand(m)
    /\ Thread(m) => ~InHand(m)

Places ==
    /\ Q!LinkedOnce(free) /\ Q!OnceIn(pend, Plain)
    /\ \A m \in Msg : SomePlace(m)
    /\ \A m \in Plain : OnePlace(m)
    /\ \A c, d \in Caller : \A m \in Plain : Pushes(c, m) /\ Pushes(d, m) => c = d

\* A caller that is to push or to delete a message has one.
Hands ==
    \A c \in Caller :
        /\ call[c].at = "push" => call[c].msg \in Msg
        /\ call[c].at = "cs_del" => call[c].msg \in Msg \ Plain
        /\ call[c].then \notin {"push", "cs_del"}

\* The points of mlme_core_thrd
Top == {"idle", "out", "reset", "popped"}
Scanning == {"scan", "scanstop", "scanend"}
ScanningConnected == {"mscan", "mscanstop", "mscanend"}
Breaking == {"break", "unset", "clear", "tx"}

\* What the thread holds and what other threads see of it at each point
Control ==
    /\ cur # None <=> pc = "popped"
    /\ pconn # None <=> pc \in Connecting \cup Maintaining \cup Breaking
    /\ pscan # None <=> pc \in Scanning \cup ScanningConnected
    /\ cur # None => cur \in Msg
    /\ pconn # None => pconn \in Msg \ Plain
    /\ pscan # None => pscan \in Plain
    /\ pc \in Top => state = "idle"
    /\ connect => pc \in {"break", "unset"} \cup Maintaining
    /\ pc \in Maintaining => connect
    /\ pc \in Top \cup Scanning \cup Searching \cup {"tx"} => ~wdn
    /\ pc \in {"auth", "assoc", "stop", "preconn", "connected"} \cup Maintaining => wdn
    /\ connect => wdn
    /\ fw = "conn" => pc \in {"connected", "break"} \cup Maintaining
    /\ pc \in {"connected"} \cup Maintaining => fw = "conn"
    /\ pc = "break" /\ connect => fw = "conn"

Inv == TypeOK /\ Places /\ Hands /\ Control

\* As long as nobody takes the interface down: a scan that has ended was reported.
NoDisable == \A c \in Caller : "disable" \notin Ops[c]
Taking == {"ab_conn", "ab_scan", "ab_flag", "ab_wait", "ab_down"}

UpInv ==
    /\ Inv
    /\ isUp
    /\ \A c \in Caller : call[c].at \notin Taking /\ call[c].then \notin Taking
    /\ pc \in {"scanend", "mscanend"} => pscan \notin owed

-----------------------------------------------------------------------------
(* The messages, their kinds and their tags.                                 *)
LEMMA MsgFacts ==
    /\ \A m \in Msg : m[1] \in Kind
    /\ \A k \in Kind : \A j \in 1 .. Pool[k] : << k, j >> \in Msg
    /\ \A m \in Msg : \E j \in 1 .. Pool[m[1]] : m = << m[1], j >>
    /\ None \notin Msg
    /\ Plain \subseteq Msg
<1>1. \A m \in Msg : \E k \in Kind : \E j \in 1 .. Pool[k] : m = << k, j >>
  BY DEF Msg
<1>2. None[1] \notin Kind
  BY DEF None, Kind
<1>3. \A k \in Kind : \A j \in 1 .. Pool[k] : << k, j >> \in Msg
  BY DEF Msg
<1>4. QED
  BY <1>1, <1>2, <1>3 DEF Plain

(* The tags of mlme.h fit in the fields of a tag.                            *)
LEMMA TagType == MlmeTag \in [Msg -> Q!Tags]
<1>1. ASSUME NEW k \in Kind PROVE TagOf(k) \in Q!Tags
  BY DEF TagOf, Ident, Kind, Q!Tags
<1>2. QED
  BY <1>1, MsgFacts DEF MlmeTag

(* The head of the pending messages is one of them.                          *)
LEMMA HeadPending ==
    ASSUME TypeOK, pend # << >>
    PROVE  Head1 \in Msg /\ Q!Contains(pend, Head1)
<1>1. pend \in Seq(Msg)
  BY DEF TypeOK
<1>2. QED
  BY <1>1, TagType, Q!HeadProperties, Zenon DEF Head1

-----------------------------------------------------------------------------
\* A list with all messages of the kinds K and no others, each linked once
Built(s, K) ==
    /\ s \in Seq(Msg) /\ Q!LinkedOnce(s)
    /\ \A m \in Msg : Q!Contains(s, m) <=> m[1] \in K

(* The messages allocated for one kind.                                      *)
LEMMA AllocBuilt == ASSUME NEW k \in Kind PROVE Built(Alloc(k), {k})
<1> DEFINE s == Alloc(k)
<1>1. Pool[k] \in Nat
  BY MlmeAssumption
<1>2. s \in Seq(Msg) /\ Len(s) = Pool[k] /\ \A i \in 1 .. Len(s) : s[i] = << k, i >>
  <2>1. \A j \in 1 .. Pool[k] : << k, j >> \in Msg
    BY MsgFacts
  <2>2. s \in [1 .. Pool[k] -> Msg] /\ \A j \in 1 .. Pool[k] : s[j] = << k, j >>
    BY <2>1, Zenon DEF Alloc
  <2> HIDE DEF s
  <2>3. QED
    BY <1>1, <2>2
<1> HIDE DEF s
<1>3. Q!LinkedOnce(s)
  BY <1>2 DEF Q!LinkedOnce
<1>4. ASSUME NEW m \in Msg PROVE Q!Contains(s, m) <=> m[1] \in {k}
  <2>1. ASSUME Q!Contains(s, m) PROVE m[1] = k
    <3>1. PICK i \in 1 .. Len(s) : s[i] = m
      BY <2>1, Zenon DEF Q!Contains
    <3>2. QED
      BY <1>2, <3>1
  <2>2. ASSUME m[1] = k PROVE Q!Contains(s, m)
    <3>1. PICK j \in 1 .. Pool[k] : m = << k, j >>
      BY <2>2, MsgFacts
    <3>2. j \in 1 .. Len(s) /\ s[j] = m
      BY <1>2, <3>1
    <3>3. QED
      BY <3>2, Zenon DEF Q!Contains
  <2>3. QED
    BY <2>1, <2>2
<1>5. QED
  BY <1>2, <1>3, <1>4 DEF Built, s

(* The messages of one more kind are added to the list.                      *)
LEMMA BuildStep ==
    ASSUME NEW s, NEW K, Built(s, K), NEW k \in Kind, k \notin K
    PROVE  Built(s \o Alloc(k), K \cup {k})
<1> DEFINE t == Alloc(k)
<1>1. /\ s \in Seq(Msg) /\ Q!LinkedOnce(s)
      /\ \A m \in Msg : Q!Contains(s, m) <=> m[1] \in K
  BY DEF Built
<1>2. /\ t \in Seq(Msg) /\ Q!LinkedOnce(t)
      /\ \A m \in Msg : Q!Contains(t, m) <=> m[1] = k
  BY AllocBuilt DEF Built
<1> HIDE DEF t
<1>3. ASSUME NEW i \in 1 .. Len(s), NEW j \in 1 .. Len(t) PROVE s[i] # t[j]
  <2>1. s[i] \in Msg /\ t[j] \in Msg
    BY <1>1, <1>2
  <2>2. Q!Contains(s, s[i]) /\ Q!Contains(t, t[j])
    BY Zenon DEF Q!Contains
  <2>3. s[i][1] \in K /\ t[j][1] = k
    BY <1>1, <1>2, <2>1, <2>2
  <2>4. QED
    BY <2>3
<1>4. /\ s \o t \in Seq(Msg) /\ Q!LinkedOnce(s \o t)
      /\ \A x \in Msg : Q!Contains(s \o t, x) <=> Q!Contains(s, x) \/ Q!Contains(t, x)
  BY <1>1, <1>2, <1>3, TagType, Q!ConcatLinked, Zenon
<1>5. QED
  BY <1>1, <1>2, <1>4 DEF Built, t

(* mlme_msg_init puts every message into the free list, once.                *)
LEMMA AllocFacts ==
    /\ AllocMsgs \in Seq(Msg) /\ Q!LinkedOnce(AllocMsgs)
    /\ \A m \in Msg : Q!Contains(AllocMsgs, m)
<1> DEFINE s1 == Alloc("scan_abort")
           s2 == s1 \o Alloc("conn_abort")
           s3 == s2 \o Alloc("deauth")
           s4 == s3 \o Alloc("deassoc")
           s5 == s4 \o Alloc("scan")
           s6 == s5 \o Alloc("scan_rsp")
           s7 == s6 \o Alloc("conn")
           s8 == s7 \o Alloc("keepalive")
           K1 == {"scan_abort"}
           K2 == K1 \cup {"conn_abort"}
           K3 == K2 \cup {"deauth"}
           K4 == K3 \cup {"deassoc"}
           K5 == K4 \cup {"scan"}
           K6 == K5 \cup {"scan_rsp"}
           K7 == K6 \cup {"conn"}
           K8 == K7 \cup {"keepalive"}
<1>1. AllocMsgs = s8 /\ K8 = Kind
  BY DEF AllocMsgs, Kind
<1>2. /\ "conn_abort" \notin K1 /\ "deauth" \notin K2 /\ "deassoc" \notin K3
      /\ "scan" \notin K4 /\ "scan_rsp" \notin K5 /\ "conn" \notin K6 /\ "keepalive" \notin K7
      /\ {"scan_abort", "conn_abort", "deauth", "deassoc", "scan", "scan_rsp", "conn",
          "keepalive"} \subseteq Kind
  BY DEF Kind
<1>3. Built(s1, K1)
  BY <1>2, AllocBuilt
<1> HIDE DEF s1, K1
<1>4. Built(s2, K2)
  BY <1>2, <1>3, BuildStep
<1> HIDE DEF s2, K2
<1>5. Built(s3, K3)
  BY <1>2, <1>4, BuildStep
<1> HIDE DEF s3, K3
<1>6. Built(s4, K4)
  BY <1>2, <1>5, BuildStep
<1> HIDE DEF s4, K4
<1>7. Built(s5, K5)
  BY <1>2, <1>6, BuildStep
<1> HIDE DEF s5, K5
<1>8. Built(s6, K6)
  BY <1>2, <1>7, BuildStep
<1> HIDE DEF s6, K6
<1>9. Built(s7, K7)
  BY <1>2, <1>8, BuildStep
<1> HIDE DEF s7, K7
<1>10. Built(s8, K8)
  BY <1>2, <1>9, BuildStep
<1> HIDE DEF s8, K8
<1>11. QED
  BY <1>1, <1>10, MsgFacts DEF Built

(* wf_mlme_init establishes the inductive invariant.                         *)
LEMMA InitInv == Init => Inv
<1> SUFFICES ASSUME Init PROVE Inv
  OBVIOUS
<1> USE MlmeAssumption DEF Init
<1>1. /\ pend \in Seq(Msg) /\ Len(pend) = 0
      /\ free \in Seq(Msg) /\ Q!LinkedOnce(free) /\ \A m \in Msg : Q!Contains(free, m)
  BY AllocFacts
<1>2. TypeOK
  <2>1. call \in [Caller -> [at : At, msg : Msg \cup {None}, then : At]]
    BY DEF At
  <2>2. tryCnt \in 0 .. TryTimes /\ calls \in 0 .. MaxCalls
    OBVIOUS
  <2>3. QED
    BY <1>1, <2>1, <2>2 DEF TypeOK, PC
<1>3. \A m \in Msg : ~Q!Contains(pend, m) /\ ~Thread(m) /\ ~InHand(m)
  <2>1. \A m \in Msg : ~Q!Contains(pend, m)
    BY <1>1 DEF Q!Contains
  <2>2. \A m \in Msg : ~Thread(m)
    BY MsgFacts, Zenon DEF Thread
  <2>3. \A m \in Msg : ~InHand(m)
    BY DEF InHand, Pushes
  <2>4. QED
    BY <2>1, <2>2, <2>3
<1>4. Places
  <2>1. Q!OnceIn(pend, Plain)
    BY <1>1 DEF Q!OnceIn
  <2>2. \A c \in Caller, m \in Msg : ~Pushes(c, m)
    BY DEF Pushes
  <2>3. QED
    BY <1>1, <1>3, <2>1, <2>2, MsgFacts DEF Places, SomePlace, OnePlace
<1>5. Hands
  BY DEF Hands
<1>6. Control
  BY DEF Control, Connecting, Maintaining, Breaking, Scanning, ScanningConnected, Top,
         Searching
<1>7. QED
  BY <1>2, <1>4, <1>5, <1>6 DEF Inv

-----------------------------------------------------------------------------
(* How messages move.  Nothing moves, or from the queue, the thread and the  *)
(* hands of the callers.                                                     *)

SameHands == \A c \in Caller : \A x \in Msg : Pushes(c, x)' <=> Pushes(c, x)

(* A step that moves no message keeps every message in its place.            *)
LEMMA SamePlaces ==
    ASSUME Places, UNCHANGED queue, SameHands, \A x \in Msg : Thread(x)' <=> Thread(x)
    PROVE  Places'
<1>1. \A x \in Msg : InHand(x)' <=> InHand(x)
  BY DEF SameHands, InHand
<1>2. UNCHANGED << pend, free >>
  BY DEF queue
<1>3. (\A x \in Msg : SomePlace(x))' /\ (\A x \in Plain : OnePlace(x))'
  BY <1>1, <1>2, MsgFacts DEF Places, SomePlace, OnePlace
<1>4. QED
  BY <1>2, <1>3, MsgFacts DEF Places, SameHands

\* wf_msg_del of a message nobody else has
LEMMA DelPlaces ==
    ASSUME TypeOK, Places, NEW m \in Msg, Del(m), SameHands,
           \A x \in Msg : x # m => (Thread(x)' <=> Thread(x)),
           m \in Plain => ~Thread(m)' /\ ~InHand(m)
    PROVE  pend' \in Seq(Msg) /\ free' \in Seq(Msg) /\ Places'
<1>1. /\ pend \in Seq(Msg) /\ free \in Seq(Msg)
      /\ Q!LinkedOnce(free) /\ Q!OnceIn(pend, Plain)
      /\ pend' = Q!Unlink(pend, m) /\ free' = Q!Del(free, m)
  BY DEF TypeOK, Places, Del
<1>2. /\ pend' \in Seq(Msg) /\ Q!OnceIn(pend', Plain)
      /\ \A x \in Msg : x # m => (Q!Contains(pend', x) <=> Q!Contains(pend, x))
      /\ m \in Plain => ~Q!Contains(pend', m)
  BY <1>1, TagType, Q!UnlinkOnce, Zenon
<1>3. /\ free' \in Seq(Msg) /\ Q!LinkedOnce(free')
      /\ \A x \in Msg : Q!Contains(free', x) <=> Q!Contains(free, x) \/ x = m
  BY <1>1, TagType, Q!DelProperties, Zenon
<1>4. \A x \in Msg : InHand(x)' <=> InHand(x)
  BY DEF SameHands, InHand
<1>5. ASSUME NEW x \in Msg PROVE SomePlace(x)'
  BY <1>2, <1>3, <1>4 DEF Places, SomePlace
<1>6. ASSUME NEW x \in Plain PROVE OnePlace(x)'
  BY <1>2, <1>3, <1>4, MsgFacts DEF Places, OnePlace
<1>7. QED
  BY <1>2, <1>3, <1>5, <1>6, MsgFacts DEF Places, SameHands

\* wf_msg_get by the MLME thread, which keeps the message
LEMMA TakePlaces ==
    ASSUME TypeOK, Places, NEW m \in Msg, Q!Contains(pend, m),
           pend' = Q!Unlink(pend, m), free' = free, SameHands,
           \A x \in Msg : Thread(x)' <=> Thread(x) \/ x = m
    PROVE  pend' \in Seq(Msg) /\ Places'
<1>1. pend \in Seq(Msg) /\ Q!LinkedOnce(free) /\ Q!OnceIn(pend, Plain)
  BY DEF TypeOK, Places
<1>2. /\ pend' \in Seq(Msg) /\ Q!OnceIn(pend', Plain)
      /\ \A x \in Msg : x # m => (Q!Contains(pend', x) <=> Q!Contains(pend, x))
      /\ m \in Plain => ~Q!Contains(pend', m)
  BY <1>1, TagType, Q!UnlinkOnce, Zenon
<1>3. \A x \in Msg : InHand(x)' <=> InHand(x)
  BY DEF SameHands, InHand
<1>4. ASSUME NEW x \in Msg PROVE SomePlace(x)'
  BY <1>2, <1>3 DEF Places, SomePlace
<1>5. ASSUME NEW x \in Plain PROVE OnePlace(x)'
  BY <1>2, <1>3, MsgFacts DEF Places, OnePlace
<1>6. QED
  BY <1>1, <1>2, <1>4, <1>5, MsgFacts DEF Places, SameHands

\* wf_msg_new and wf_msg_push by the MLME thread
LEMMA RequeuePlaces ==
    ASSUME TypeOK, Places, NEW m \in Msg, Q!Contains(free, m),
           free' = Q!Unlink(free, m), pend' = Q!Push(pend, m), SameHands,
           \A x \in Msg : Thread(x)' <=> Thread(x)
    PROVE  pend' \in Seq(Msg) /\ free' \in Seq(Msg) /\ Places'
<1>1. /\ pend \in Seq(Msg) /\ free \in Seq(Msg)
      /\ Q!LinkedOnce(free) /\ Q!OnceIn(pend, Plain)
      /\ Q!Contains(pend, m) => m \notin Plain
  BY DEF TypeOK, Places, OnePlace
<1>2. /\ free' \in Seq(Msg) /\ Q!LinkedOnce(free')
      /\ \A x \in Msg : Q!Contains(free', x) <=> Q!Contains(free, x) /\ x # m
  BY <1>1, TagType, Q!UnlinkProperties, Zenon
<1>3. /\ pend' \in Seq(Msg) /\ Q!OnceIn(pend', Plain)
      /\ \A x \in Msg : Q!Contains(pend', x) <=> Q!Contains(pend, x) \/ x = m
  BY <1>1, TagType, Q!PushOnce, Zenon
<1>4. \A x \in Msg : InHand(x)' <=> InHand(x)
  BY DEF SameHands, InHand
<1>5. ASSUME NEW x \in Msg PROVE SomePlace(x)'
  BY <1>2, <1>3, <1>4 DEF Places, SomePlace
<1>6. ASSUME NEW x \in Plain PROVE OnePlace(x)'
  BY <1>2, <1>3, <1>4, MsgFacts DEF Places, OnePlace
<1>7. QED
  BY <1>2, <1>3, <1>5, <1>6, MsgFacts DEF Places, SameHands

\* wf_msg_new by caller c
LEMMA NewPlaces ==
    ASSUME TypeOK, Places, NEW c \in Caller, NEW m \in Msg, Q!Contains(free, m),
           free' = Q!Unlink(free, m), pend' = pend,
           \A x \in Msg : Thread(x)' <=> Thread(x),
           \A x \in Msg : ~Pushes(c, x),
           \A d \in Caller : \A x \in Msg : Pushes(d, x)' <=> Pushes(d, x) \/ (d = c /\ x = m)
    PROVE  free' \in Seq(Msg) /\ Places'
<1>1. free \in Seq(Msg) /\ Q!LinkedOnce(free)
  BY DEF TypeOK, Places
<1>2. /\ free' \in Seq(Msg) /\ Q!LinkedOnce(free')
      /\ \A x \in Msg : Q!Contains(free', x) <=> Q!Contains(free, x) /\ x # m
  BY <1>1, TagType, Q!UnlinkProperties, Zenon
<1>3. \A x \in Msg : InHand(x)' <=> InHand(x) \/ x = m
  BY DEF InHand
<1>4. ASSUME NEW x \in Msg PROVE SomePlace(x)'
  BY <1>2, <1>3 DEF Places, SomePlace
<1>5. ASSUME NEW x \in Plain PROVE OnePlace(x)'
  BY <1>2, <1>3, MsgFacts DEF Places, OnePlace
<1>6. ASSUME NEW d \in Caller, NEW e \in Caller, NEW x \in Plain, Pushes(d, x)', Pushes(e, x)'
      PROVE  d = e
  <2>1. x \in Msg
    BY MsgFacts
  <2>2. CASE x = m
    <3>1. ~InHand(x)
      BY <2>1, <2>2 DEF Places, OnePlace
    <3>2. QED
      BY <1>6, <2>1, <3>1 DEF InHand
  <2>3. CASE x # m
    BY <1>6, <2>1, <2>3 DEF Places
  <2>4. QED
    BY <2>2, <2>3
<1>7. QED
  BY <1>2, <1>4, <1>5, <1>6 DEF Places

\* wf_msg_push by caller c
LEMMA PushPlaces ==
    ASSUME TypeOK, Places, NEW c \in Caller, NEW m \in Msg, Pushes(c, m),
           pend' = Q!Push(pend, m), free' = free,
           \A x \in Msg : Thread(x)' <=> Thread(x),
           \A d \in Caller : \A x \in Msg : Pushes(d, x)' <=> Pushes(d, x) /\ d # c
    PROVE  pend' \in Seq(Msg) /\ Places'
<1>1. /\ pend \in Seq(Msg) /\ Q!OnceIn(pend, Plain) /\ Q!LinkedOnce(free)
      /\ InHand(m) /\ (Q!Contains(pend, m) => m \notin Plain)
  BY DEF TypeOK, Places, OnePlace, InHand
<1>2. /\ pend' \in Seq(Msg) /\ Q!OnceIn(pend', Plain)
      /\ \A x \in Msg : Q!Contains(pend', x) <=> Q!Contains(pend, x) \/ x = m
  BY <1>1, TagType, Q!PushOnce, Zenon
<1>3. \A x \in Msg : (InHand(x)' => InHand(x)) /\ (InHand(x) /\ x # m => InHand(x)')
  BY DEF InHand, Pushes
<1>4. m \in Plain => ~InHand(m)'
  BY DEF InHand, Places
<1>5. ASSUME NEW x \in Msg PROVE SomePlace(x)'
  BY <1>2, <1>3 DEF Places, SomePlace
<1>6. ASSUME NEW x \in Plain PROVE OnePlace(x)'
  BY <1>1, <1>2, <1>3, <1>4, MsgFacts DEF Places, OnePlace
<1>7. QED
  BY <1>1, <1>2, <1>5, <1>6, MsgFacts DEF Places

-----------------------------------------------------------------------------
(* At each of its points the MLME thread has what Control says.              *)
LEMMA ThrdControl == ASSUME TypeOK, Control, MlmeThrd PROVE Control'
<1> USE MsgFacts, HeadPending
    DEF Control, thrd, public, Connecting, Searching, Maintaining, Breaking, Scanning,
        ScanningConnected, Top
<1>1. CASE CanRun
  BY <1>1 DEF CanRun
<1>2. CASE Reset
  BY <1>2 DEF Reset
<1>3. CASE ThreadAbort
  BY <1>3 DEF ThreadAbort
<1>4. CASE Pop
  BY <1>4 DEF Pop
<1>5. CASE DispatchScan
  <2>1. cur \in Plain /\ pscan' = cur /\ pscan' # None
    BY <1>5 DEF DispatchScan, Plain
  <2>2. QED
    BY <1>5, <2>1 DEF DispatchScan
<1>6. CASE DispatchConn
  <2>1. cur \in Msg \ Plain /\ pconn' = cur /\ pconn' # None
    BY <1>6 DEF DispatchConn, Plain
  <2>2. QED
    BY <1>6, <2>1 DEF DispatchConn
<1>7. CASE DispatchOther
  BY <1>7 DEF DispatchOther
<1>8. CASE ScanStop
  BY <1>8 DEF ScanStop
<1>9. CASE ScanEnd
  BY <1>9 DEF ScanEnd
<1>10. CASE ScanDel
  BY <1>10 DEF ScanDel
<1>11. CASE SearchMsg
  BY <1>11 DEF SearchMsg
<1>12. CASE SearchAgain
  BY <1>12 DEF SearchAgain
<1>13. CASE SearchFail
  BY <1>13 DEF SearchFail
<1>14. CASE BuildWdn
  BY <1>14 DEF BuildWdn
<1>15. CASE BuildWdnFail
  BY <1>15 DEF BuildWdnFail
<1>16. CASE AuthMsg
  BY <1>16 DEF AuthMsg
<1>17. CASE AuthDone
  BY <1>17 DEF AuthDone
<1>18. CASE AssocDone
  BY <1>18 DEF AssocDone
<1>19. CASE ConnFail
  BY <1>19 DEF ConnFail
<1>20. CASE Preconnect
  BY <1>20 DEF Preconnect
<1>21. CASE Connected
  BY <1>21 DEF Connected
<1>22. CASE MaintScan
  <2>1. Head1 \in Plain /\ pscan' = Head1 /\ pscan' # None
    BY <1>22 DEF MaintScan, HeadIs, Plain
  <2>2. QED
    BY <1>22, <2>1 DEF MaintScan
<1>23. CASE MaintProbe
  BY <1>23 DEF MaintProbe
<1>24. CASE MaintDeauth
  BY <1>24 DEF MaintDeauth
<1>25. CASE MaintDrop
  BY <1>25 DEF MaintDrop
<1>26. CASE MaintStop
  BY <1>26 DEF MaintStop
<1>27. CASE ProbeStop
  BY <1>27 DEF ProbeStop
<1>28. CASE ProbeEnd
  BY <1>28 DEF ProbeEnd
<1>29. CASE Deauth
  BY <1>29 DEF Deauth
<1>30. CASE Break
  BY <1>30 DEF Break
<1>31. CASE Unset
  BY <1>31 DEF Unset
<1>32. CASE Clearup
  BY <1>32 DEF Clearup
<1>33. CASE ConnDel
  BY <1>33 DEF ConnDel
<1>34. QED
  BY <1>1, <1>2, <1>3, <1>4, <1>5, <1>6, <1>7, <1>8, <1>9, <1>10, <1>11, <1>12, <1>13,
     <1>14, <1>15, <1>16, <1>17, <1>18, <1>19, <1>20, <1>21, <1>22, <1>23, <1>24, <1>25,
     <1>26, <1>27, <1>28, <1>29, <1>30, <1>31, <1>32, <1>33
     DEF MlmeThrd


\* The part of TypeOK that is neither about the queue nor about what the thread
\* holds
Rest ==
    /\ pc \in PC
    /\ tryCnt \in 0 .. TryTimes /\ ka \in BOOLEAN
    /\ state \in {"idle", "scan", "conn_scan", "auth", "assoc", "deauth"}
    /\ connect \in BOOLEAN /\ wdn \in BOOLEAN /\ fw \in {"conn", "disc"}
    /\ owed \subseteq Msg
    /\ babort \in BOOLEAN /\ finished \in BOOLEAN /\ isUp \in BOOLEAN
    /\ call \in [Caller -> [at : At, msg : Msg \cup {None}, then : At]]
    /\ calls \in 0 .. MaxCalls

(* The type invariant is Rest with the lists and the three pointers, whose   *)
(* types Control gives.                                                      *)
LEMMA TypeParts ==
    /\ TypeOK => Rest
    /\ Rest' /\ Control' /\ pend' \in Seq(Msg) /\ free' \in Seq(Msg) => TypeOK'
<1>1. TypeOK => Rest
  BY DEF TypeOK, Rest
<1>2. ASSUME Rest', Control', pend' \in Seq(Msg), free' \in Seq(Msg) PROVE TypeOK'
  <2>1. cur' \in Msg \cup {None} /\ pconn' \in Msg \cup {None} /\ pscan' \in Msg \cup {None}
    BY <1>2, MsgFacts DEF Control
  <2>2. QED
    BY <1>2, <2>1 DEF Rest, TypeOK
<1>3. QED
  BY <1>1, <1>2

(* The steps of the MLME thread keep the types of the variables of Rest.     *)
LEMMA ThrdRest == ASSUME Rest, MlmeThrd PROVE Rest'
<1> USE MlmeAssumption
    DEF Rest, thrd, public, flags, PC, Connecting, Maintaining
<1>1. CASE CanRun
  BY <1>1 DEF CanRun
<1>2. CASE Reset
  BY <1>2 DEF Reset
<1>3. CASE ThreadAbort
  BY <1>3 DEF ThreadAbort
<1>4. CASE Pop
  BY <1>4 DEF Pop
<1>5. CASE DispatchScan
  BY <1>5 DEF DispatchScan
<1>6. CASE DispatchConn
  BY <1>6 DEF DispatchConn
<1>7. CASE DispatchOther
  BY <1>7 DEF DispatchOther
<1>8. CASE ScanStop
  BY <1>8 DEF ScanStop
<1>9. CASE ScanEnd
  BY <1>9 DEF ScanEnd
<1>10. CASE ScanDel
  BY <1>10 DEF ScanDel
<1>11. CASE SearchMsg
  BY <1>11 DEF SearchMsg
<1>12. CASE SearchAgain
  BY <1>12 DEF SearchAgain
<1>13. CASE SearchFail
  BY <1>13 DEF SearchFail
<1>14. CASE BuildWdn
  BY <1>14 DEF BuildWdn
<1>15. CASE BuildWdnFail
  BY <1>15 DEF BuildWdnFail
<1>16. CASE AuthMsg
  BY <1>16 DEF AuthMsg
<1>17. CASE AuthDone
  BY <1>17 DEF AuthDone
<1>18. CASE AssocDone
  BY <1>18 DEF AssocDone
<1>19. CASE ConnFail
  BY <1>19 DEF ConnFail
<1>20. CASE Preconnect
  BY <1>20 DEF Preconnect
<1>21. CASE Connected
  BY <1>21 DEF Connected
<1>22. CASE MaintScan
  BY <1>22 DEF MaintScan
<1>23. CASE MaintProbe
  BY <1>23 DEF MaintProbe
<1>24. CASE MaintDeauth
  BY <1>24 DEF MaintDeauth
<1>25. CASE MaintDrop
  BY <1>25 DEF MaintDrop
<1>26. CASE MaintStop
  BY <1>26 DEF MaintStop
<1>27. CASE ProbeStop
  BY <1>27 DEF ProbeStop
<1>28. CASE ProbeEnd
  BY <1>28 DEF ProbeEnd
<1>29. CASE Deauth
  BY <1>29 DEF Deauth
<1>30. CASE Break
  BY <1>30 DEF Break
<1>31. CASE Unset
  BY <1>31 DEF Unset
<1>32. CASE Clearup
  BY <1>32 DEF Clearup
<1>33. CASE ConnDel
  BY <1>33 DEF ConnDel
<1>34. QED
  BY <1>1, <1>2, <1>3, <1>4, <1>5, <1>6, <1>7, <1>8, <1>9, <1>10, <1>11, <1>12, <1>13,
     <1>14, <1>15, <1>16, <1>17, <1>18, <1>19, <1>20, <1>21, <1>22, <1>23, <1>24, <1>25,
     <1>26, <1>27, <1>28, <1>29, <1>30, <1>31, <1>32, <1>33
     DEF MlmeThrd


(* The MLME thread moves messages one at a time, and leaves the callers      *)
(* alone.                                                                    *)
LEMMA ThrdPlaces ==
    ASSUME Inv, MlmeThrd
    PROVE  pend' \in Seq(Msg) /\ free' \in Seq(Msg) /\ Places' /\ Hands'
<1>1. TypeOK /\ Places /\ Hands /\ Control /\ pend \in Seq(Msg) /\ free \in Seq(Msg)
  BY DEF Inv, TypeOK
<1>2. UNCHANGED call
  BY DEF MlmeThrd, CanRun, Reset, ThreadAbort, Pop, DispatchScan, DispatchConn,
     DispatchOther,
         ScanStop, ScanEnd, ScanDel, SearchMsg, SearchAgain, SearchFail, BuildWdn, BuildWdnFail,
         AuthMsg, AuthDone, AssocDone, ConnFail, Preconnect, Connected, MaintScan, MaintProbe,
         MaintDeauth, MaintDrop, MaintStop, ProbeStop, ProbeEnd, Deauth, Break, Unset, Clearup,
         ConnDel
<1>3. Hands' /\ SameHands
  BY <1>1, <1>2 DEF Hands, SameHands, Pushes
<1>4. CASE /\ UNCHANGED << cur, pconn, pscan >>
           /\ UNCHANGED queue \/ (pend # << >> /\ Del(Head1))
  <2>1. \A x \in Msg : Thread(x)' <=> Thread(x)
    BY <1>4 DEF Thread
  <2>2. CASE UNCHANGED queue
    BY <1>1, <1>3, <2>1, <2>2, SamePlaces DEF queue
  <2>3. CASE pend # << >> /\ Del(Head1)
    <3>1. PICK m \in Msg : m = Head1
      BY <1>1, <2>3, HeadPending
    <3>2. Q!Contains(pend, m) /\ Del(m)
      BY <1>1, <2>3, <3>1, HeadPending DEF Del
    <3>3. m \in Plain => ~Thread(m)' /\ ~InHand(m)
      BY <1>1, <2>1, <3>2 DEF Places, OnePlace
    <3>4. QED
      BY <1>1, <1>3, <2>1, <3>2, <3>3, DelPlaces
  <2>4. QED
    BY <1>4, <2>2, <2>3
<1>5. CASE CanRun \/ Reset \/ ThreadAbort \/ ScanEnd \/ SearchAgain \/ SearchFail \/ BuildWdn
           \/ BuildWdnFail \/ AuthDone \/ AssocDone \/ ConnFail \/ Preconnect \/ Connected
           \/ MaintStop \/ ProbeEnd \/ Deauth \/ Break \/ Unset \/ Clearup
  <2>1. UNCHANGED << cur, pconn, pscan >> /\ UNCHANGED queue
    BY <1>5 DEF CanRun, Reset, ThreadAbort, ScanEnd, SearchAgain, SearchFail, BuildWdn,
       BuildWdnFail, AuthDone, AssocDone, ConnFail, Preconnect, Connected, MaintStop, ProbeEnd,
       Deauth, Break, Unset, Clearup, thrd
  <2>2. QED
    BY <1>4, <2>1
<1>6. CASE ScanStop \/ SearchMsg \/ AuthMsg \/ MaintProbe \/ MaintDeauth \/ MaintDrop
           \/ ProbeStop
  <2>1. UNCHANGED << cur, pconn, pscan >> /\ pend # << >> /\ Del(Head1)
    BY <1>6 DEF ScanStop, SearchMsg, AuthMsg, MaintProbe, MaintDeauth, MaintDrop,
       ProbeStop,
       HeadIs, thrd
  <2>2. QED
    BY <1>4, <2>1
<1>7. CASE Pop \/ MaintScan
  <2>1. /\ pend # << >> /\ pend' = Q!Unlink(pend, Head1) /\ free' = free
        /\ \/ cur = None /\ cur' = Head1 /\ UNCHANGED << pconn, pscan >>
           \/ pscan = None /\ pscan' = Head1 /\ UNCHANGED << cur, pconn >>
    BY <1>1, <1>7 DEF Pop, MaintScan, HeadIs, Control, Scanning, ScanningConnected
  <2>2. PICK m \in Msg : m = Head1
    BY <1>1, <2>1, HeadPending
  <2>3. Q!Contains(pend, m) /\ pend' = Q!Unlink(pend, m)
    BY <1>1, <2>1, <2>2, HeadPending
  <2>4. \A x \in Msg : Thread(x)' <=> Thread(x) \/ x = m
    BY <2>1, <2>2, MsgFacts DEF Thread
  <2>5. QED
    BY <1>1, <1>3, <2>1, <2>3, <2>4, TakePlaces
<1>8. CASE DispatchScan \/ DispatchConn
  <2>1. /\ UNCHANGED queue /\ cur' = None
        /\ \/ pscan = None /\ pscan' = cur /\ UNCHANGED pconn
           \/ pconn = None /\ pconn' = cur /\ UNCHANGED pscan
    BY <1>1, <1>8 DEF DispatchScan, DispatchConn, Control, Scanning, ScanningConnected,
       Connecting, Maintaining, Breaking
  <2>2. \A x \in Msg : Thread(x)' <=> Thread(x)
    BY <2>1, MsgFacts DEF Thread
  <2>3. QED
    BY <1>1, <1>3, <2>1, <2>2, SamePlaces DEF queue
<1>9. CASE DispatchOther \/ ScanDel \/ ConnDel
  <2>1. PICK m \in Msg : /\ Thread(m) /\ Del(m)
                         /\ \A x \in Msg : Thread(x)' <=> Thread(x) /\ x # m
    <3>1. CASE DispatchOther
      <4>1. /\ cur \in Msg /\ Del(cur) /\ cur' = None /\ pconn = None /\ pscan = None
            /\ UNCHANGED << pconn, pscan >>
        BY <1>1, <3>1 DEF DispatchOther, Control, Scanning, ScanningConnected,
           Connecting,
           Maintaining, Breaking
      <4>2. \A x \in Msg : Thread(x)' <=> Thread(x) /\ x # cur
        BY <4>1, MsgFacts DEF Thread
      <4>3. QED
        BY <4>1, <4>2 DEF Thread
    <3>2. CASE ScanDel
      <4>1. /\ pscan \in Plain /\ Del(pscan) /\ pscan' = None /\ cur = None
            /\ pconn # pscan /\ UNCHANGED << cur, pconn >>
        BY <1>1, <3>2, MsgFacts DEF ScanDel, Control, Scanning, ScanningConnected
      <4>2. \A x \in Msg : Thread(x)' <=> Thread(x) /\ x # pscan
        BY <4>1, MsgFacts DEF Thread
      <4>3. QED
        BY <4>1, <4>2, MsgFacts DEF Thread
    <3>3. CASE ConnDel
      <4>1. /\ pconn \in Msg /\ Del(pconn) /\ pconn' = None /\ cur = None /\ pscan = None
            /\ UNCHANGED << cur, pscan >>
        BY <1>1, <3>3 DEF ConnDel, Control, Scanning, ScanningConnected,
           Breaking, Maintaining,
           Connecting
      <4>2. \A x \in Msg : Thread(x)' <=> Thread(x) /\ x # pconn
        BY <4>1, MsgFacts DEF Thread
      <4>3. QED
        BY <4>1, <4>2 DEF Thread
    <3>4. QED
      BY <1>9, <3>1, <3>2, <3>3
  <2>2. /\ \A x \in Msg : x # m => (Thread(x)' <=> Thread(x))
        /\ m \in Plain => ~Thread(m)' /\ ~InHand(m)
    BY <1>1, <2>1 DEF Places, OnePlace
  <2>3. QED
    BY <1>1, <1>3, <2>1, <2>2, DelPlaces
<1>10. QED
  BY <1>5, <1>6, <1>7, <1>8, <1>9 DEF MlmeThrd

(* The steps of the MLME thread keep the inductive invariant.                *)
LEMMA ThrdInv == ASSUME Inv, MlmeThrd PROVE Inv'
<1>1. Rest' /\ Control'
  BY ThrdRest, ThrdControl, TypeParts DEF Inv
<1>2. QED
  BY <1>1, ThrdPlaces, TypeParts DEF Inv

(* core_conn_maintain_keepalive_thrd asks for a probe or for the end.        *)
LEMMA KeepaliveInv == ASSUME Inv, KeepaliveThrd PROVE Inv'
<1>1. TypeOK /\ Places /\ Hands /\ Control /\ pend \in Seq(Msg) /\ free \in Seq(Msg)
  BY DEF Inv, TypeOK
<1>2. UNCHANGED << pc, cur, pconn, pscan, tryCnt, public, flags, call, calls >>
  BY DEF KeepaliveThrd, Keepalive, KeepaliveLost, KeepaliveHeard
<1>3. ka' \in BOOLEAN
  BY DEF KeepaliveThrd, Keepalive, KeepaliveLost, KeepaliveHeard
<1>4. Rest' /\ Control' /\ Hands'
  BY <1>1, <1>2, <1>3, TypeParts DEF Rest, Control, Hands, public, flags
<1>5. SameHands /\ \A x \in Msg : Thread(x)' <=> Thread(x)
  BY <1>2 DEF SameHands, Pushes, Thread
<1>6. pend' \in Seq(Msg) /\ free' \in Seq(Msg) /\ Places'
  <2>1. CASE UNCHANGED queue
    BY <1>1, <1>5, <2>1, SamePlaces DEF queue
  <2>2. ASSUME NEW k, Q!HasFree(free, TagOf(k)),
               free' = Q!Unlink(free, Q!FirstFree(free, TagOf(k))),
               pend' = Q!Push(pend, Q!FirstFree(free, TagOf(k)))
        PROVE  pend' \in Seq(Msg) /\ free' \in Seq(Msg) /\ Places'
    <3>1. Q!FirstFree(free, TagOf(k)) \in Msg /\ Q!Contains(free, Q!FirstFree(free, TagOf(k)))
      BY <1>1, <2>2, TagType, Q!FirstFreeProperties, Zenon
    <3>2. PICK m \in Msg : m = Q!FirstFree(free, TagOf(k))
      BY <3>1
    <3>3. Q!Contains(free, m) /\ free' = Q!Unlink(free, m) /\ pend' = Q!Push(pend, m)
      BY <2>2, <3>1, <3>2
    <3>4. QED
      BY <1>1, <1>5, <3>3, RequeuePlaces
  <2>3. QED
    BY <2>1, <2>2 DEF KeepaliveThrd, Keepalive, KeepaliveLost, KeepaliveHeard
<1>7. QED
  BY <1>1, <1>4, <1>6, TypeParts DEF Inv

-----------------------------------------------------------------------------
(* The callers leave the state of the MLME thread alone.                     *)

\* What a step of a caller shows of its call and of the messages
CallType == [Caller -> [at : At, msg : Msg \cup {None}, then : At]]
CallerMoves ==
    /\ pend' \in Seq(Msg) /\ free' \in Seq(Msg)
    /\ Places' /\ Hands' /\ call' \in CallType

(* A caller that touches nothing of the MLME thread keeps the invariant if   *)
(* it keeps the places of the messages.                                      *)
LEMMA CallerFrame ==
    ASSUME Inv, CallerMoves, UNCHANGED << pc, thrd, state, connect, wdn, fw >>,
           owed' \subseteq Msg, calls' \in 0 .. MaxCalls,
           babort' \in BOOLEAN, finished' \in BOOLEAN, isUp' \in BOOLEAN
    PROVE  Inv'
<1>1. Rest'
  BY TypeParts DEF Inv, Rest, CallerMoves, CallType, thrd
<1>2. Control'
  BY DEF Inv, Control, thrd
<1>3. QED
  BY <1>1, <1>2, TypeParts DEF Inv, CallerMoves

\* The caller only goes on.
LEMMA GoToMoves ==
    ASSUME Inv, NEW c \in Caller, NEW a \in At \ {"push", "cs_del"}, call[c].at # "push",
           GoTo(c, a), UNCHANGED << queue, cur, pconn, pscan >>
    PROVE  CallerMoves
<1>1. /\ TypeOK /\ Places /\ Hands /\ call \in CallType
      /\ pend' \in Seq(Msg) /\ free' \in Seq(Msg)
  BY DEF Inv, TypeOK, CallType, queue
<1>2. call' = [call EXCEPT ![c].at = a]
  BY DEF GoTo
<1>3. call'[c].at = a /\ call'[c].then = call[c].then /\ call' \in CallType
  BY <1>1, <1>2 DEF CallType
<1>4. \A d \in Caller : d # c => call'[d] = call[d]
  BY <1>1, <1>2 DEF CallType
<1>5. Hands'
  BY <1>1, <1>3, <1>4 DEF Hands
<1>6. SameHands
  BY <1>3, <1>4 DEF SameHands, Pushes
<1>7. \A x \in Msg : Thread(x)' <=> Thread(x)
  BY DEF Thread
<1>8. QED
  BY <1>1, <1>3, <1>5, <1>6, <1>7, SamePlaces DEF CallerMoves

\* wf_msg_new: the caller has a message, or there is none.
LEMMA NewMoves ==
    ASSUME Inv, NEW c \in Caller, NEW k, NEW next \in At \ {"push", "cs_del"},
           call[c].at # "push", New(c, k, next), UNCHANGED << pend, cur, pconn, pscan >>
    PROVE  CallerMoves
<1>1. /\ TypeOK /\ Places /\ Hands /\ call \in CallType
      /\ pend' \in Seq(Msg) /\ free \in Seq(Msg)
  BY DEF Inv, TypeOK, CallType
<1>2. \A x \in Msg : Thread(x)' <=> Thread(x)
  BY DEF Thread
<1>3. CASE Q!HasFree(free, TagOf(k))
  <2>1. Q!FirstFree(free, TagOf(k)) \in Msg /\ Q!Contains(free, Q!FirstFree(free, TagOf(k)))
    BY <1>1, <1>3, TagType, Q!FirstFreeProperties, Zenon
  <2>2. PICK m \in Msg : m = Q!FirstFree(free, TagOf(k))
    BY <2>1
  <2>3. /\ Q!Contains(free, m) /\ free' = Q!Unlink(free, m)
        /\ call' = [call EXCEPT ![c] = [at |-> "push", msg |-> m, then |-> next]]
    BY <1>3, <2>1, <2>2 DEF New
  <2>4. /\ call'[c].at = "push" /\ call'[c].msg = m /\ call'[c].then = next
        /\ call' \in CallType
    BY <1>1, <2>3 DEF CallType, At
  <2>5. \A d \in Caller : d # c => call'[d] = call[d]
    BY <1>1, <2>3 DEF CallType
  <2>6. Hands'
    BY <1>1, <2>4, <2>5 DEF Hands
  <2>7. /\ \A x \in Msg : ~Pushes(c, x)
        /\ \A d \in Caller : \A x \in Msg : Pushes(d, x)' <=> Pushes(d, x) \/ (d = c /\ x = m)
    BY <2>4, <2>5 DEF Pushes
  <2>8. free' \in Seq(Msg) /\ Places'
    BY <1>1, <1>2, <2>3, <2>7, NewPlaces
  <2>9. QED
    BY <1>1, <2>4, <2>6, <2>8 DEF CallerMoves
<1>4. CASE ~Q!HasFree(free, TagOf(k))
  <2>1. /\ call' = [call EXCEPT ![c] = [at |-> next, msg |-> None, then |-> "idle"]]
        /\ UNCHANGED free
    BY <1>4 DEF New
  <2>2. call'[c].at = next /\ call'[c].then = "idle" /\ call' \in CallType
    BY <1>1, <2>1 DEF CallType, At
  <2>3. \A d \in Caller : d # c => call'[d] = call[d]
    BY <1>1, <2>1 DEF CallType
  <2>4. Hands'
    BY <1>1, <2>2, <2>3 DEF Hands
  <2>5. SameHands
    BY <2>2, <2>3 DEF SameHands, Pushes
  <2>6. QED
    BY <1>1, <1>2, <2>1, <2>2, <2>4, <2>5, SamePlaces DEF CallerMoves, queue
<1>5. QED
  BY <1>3, <1>4

\* wf_msg_push
LEMMA PushInv == ASSUME Inv, NEW c \in Caller, Push(c) PROVE Inv'
<1>1. /\ TypeOK /\ Places /\ Hands /\ call \in CallType /\ free' \in Seq(Msg)
      /\ call[c].at = "push"
      /\ UNCHANGED << free, pc, thrd, state, connect, wdn, fw, flags, calls >>
  BY DEF Inv, TypeOK, CallType, Push
<1>2. PICK m \in Msg : m = call[c].msg
  BY <1>1 DEF Hands
<1>3. /\ Pushes(c, m) /\ pend' = Q!Push(pend, m)
      /\ owed' = IF m[1] = "scan" THEN owed \cup {m} ELSE owed
  BY <1>1, <1>2 DEF Push, Pushes
<1>4. call' = [call EXCEPT ![c] = [at |-> call[c].then, msg |-> None, then |-> "idle"]]
  BY DEF Push
<1>5. call'[c].at = call[c].then /\ call'[c].then = "idle" /\ call' \in CallType
  BY <1>1, <1>4 DEF CallType, At
<1>6. \A d \in Caller : d # c => call'[d] = call[d]
  BY <1>1, <1>4 DEF CallType
<1>7. Hands'
  BY <1>1, <1>5, <1>6 DEF Hands
<1>8. \A d \in Caller : \A x \in Msg : Pushes(d, x)' <=> Pushes(d, x) /\ d # c
  BY <1>1, <1>5, <1>6 DEF Pushes, Hands
<1>9. \A x \in Msg : Thread(x)' <=> Thread(x)
  BY <1>1 DEF Thread, thrd
<1>10. CallerMoves
  BY <1>1, <1>3, <1>5, <1>7, <1>8, <1>9, PushPlaces DEF CallerMoves
<1>11. QED
  BY <1>1, <1>3, <1>10, CallerFrame DEF TypeOK, flags

\* wf_mlme_conn_start finds a connect request at the head of the queue.
LEMMA ConnStartPeekInv == ASSUME Inv, NEW c \in Caller, ConnStartPeek(c) PROVE Inv'
<1>1. /\ TypeOK /\ Places /\ Hands /\ call \in CallType
      /\ pend' \in Seq(Msg) /\ free' \in Seq(Msg) /\ call[c].at = "cs_peek"
      /\ UNCHANGED << queue, pc, thrd, public, flags, calls >>
  BY DEF Inv, TypeOK, CallType, ConnStartPeek, queue
<1>2. CASE HeadIs({"conn"})
  <2>1. PICK m \in Msg \ Plain : m = Head1
    BY <1>1, <1>2, HeadPending DEF HeadIs, Plain
  <2>2. call' = [call EXCEPT ![c] = [at |-> "cs_del", msg |-> m, then |-> "idle"]]
    BY <1>2, <2>1 DEF ConnStartPeek
  <2>3. /\ call'[c].at = "cs_del" /\ call'[c].msg = m /\ call'[c].then = "idle"
        /\ call' \in CallType
    BY <1>1, <2>2 DEF CallType, At
  <2>4. \A d \in Caller : d # c => call'[d] = call[d]
    BY <1>1, <2>2 DEF CallType
  <2>5. Hands'
    BY <1>1, <2>3, <2>4 DEF Hands
  <2>6. SameHands
    BY <1>1, <2>3, <2>4 DEF SameHands, Pushes
  <2>7. \A x \in Msg : Thread(x)' <=> Thread(x)
    BY <1>1 DEF Thread, thrd
  <2>8. CallerMoves
    BY <1>1, <2>3, <2>5, <2>6, <2>7, SamePlaces DEF CallerMoves
  <2>9. QED
    BY <1>1, <2>8, CallerFrame DEF TypeOK, public, flags
<1>3. CASE ~HeadIs({"conn"})
  <2>1. GoTo(c, "cs_new") /\ "cs_new" \in At \ {"push", "cs_del"}
    BY <1>3 DEF ConnStartPeek, GoTo, At
  <2>2. CallerMoves
    BY <1>1, <2>1, GoToMoves DEF thrd
  <2>3. QED
    BY <1>1, <2>2, CallerFrame DEF TypeOK, public, flags
<1>4. QED
  BY <1>2, <1>3

\* It deletes that request, wherever it is now.
LEMMA ConnStartDelInv == ASSUME Inv, NEW c \in Caller, ConnStartDel(c) PROVE Inv'
<1>1. /\ TypeOK /\ Places /\ Hands /\ call \in CallType /\ call[c].at = "cs_del"
      /\ UNCHANGED << pc, thrd, public, flags, calls >>
  BY DEF Inv, TypeOK, CallType, ConnStartDel
<1>2. PICK m \in Msg \ Plain : m = call[c].msg
  BY <1>1 DEF Hands
<1>3. Del(m)
  BY <1>2 DEF ConnStartDel, Del
<1>4. call' = [call EXCEPT ![c] = [at |-> "cs_new", msg |-> None, then |-> "idle"]]
  BY DEF ConnStartDel
<1>5. call'[c].at = "cs_new" /\ call'[c].then = "idle" /\ call' \in CallType
  BY <1>1, <1>4 DEF CallType, At
<1>6. \A d \in Caller : d # c => call'[d] = call[d]
  BY <1>1, <1>4 DEF CallType
<1>7. Hands'
  BY <1>1, <1>5, <1>6 DEF Hands
<1>8. SameHands
  BY <1>1, <1>5, <1>6 DEF SameHands, Pushes
<1>9. \A x \in Msg : Thread(x)' <=> Thread(x)
  BY <1>1 DEF Thread, thrd
<1>10. CallerMoves
  BY <1>1, <1>3, <1>5, <1>7, <1>8, <1>9, DelPlaces DEF CallerMoves
<1>11. QED
  BY <1>1, <1>10, CallerFrame DEF TypeOK, public, flags

\* The calls that get a message or only go on
LEMMA NewOrGoInv ==
    ASSUME Inv, NEW c \in Caller, call[c].at \notin {"push", "cs_del"},
           \/ \E k, next \in At \cup Op : New(c, k, next) /\ next \in At \ {"push", "cs_del"}
           \/ \E a \in At \ {"push", "cs_del"} : GoTo(c, a) /\ UNCHANGED free,
           UNCHANGED << pend, pc, thrd, public >>, calls' \in 0 .. MaxCalls,
           babort' \in BOOLEAN, finished' \in BOOLEAN, isUp' \in BOOLEAN
    PROVE  Inv'
<1>1. UNCHANGED << pend, cur, pconn, pscan >>
  BY DEF thrd
<1>2. CallerMoves
  <2>1. CASE \E k, next \in At \cup Op : New(c, k, next) /\ next \in At \ {"push", "cs_del"}
    BY <1>1, <2>1, NewMoves
  <2>2. CASE \E a \in At \ {"push", "cs_del"} : GoTo(c, a) /\ UNCHANGED free
    BY <1>1, <2>2, GoToMoves DEF queue
  <2>3. QED
    BY <2>1, <2>2
<1>3. QED
  BY <1>2, CallerFrame DEF Inv, TypeOK, public

(* The steps inside a wf_mlme function keep the inductive invariant.         *)
LEMMA CallStepInv == ASSUME Inv, NEW c \in Caller, CallStep(c) PROVE Inv'
<1>1. /\ babort \in BOOLEAN /\ finished \in BOOLEAN /\ isUp \in BOOLEAN
      /\ calls \in 0 .. MaxCalls
  BY DEF Inv, TypeOK
<1>2. /\ "conn" \in At \cup Op /\ "conn_abort" \in At \cup Op /\ "scan_abort" \in At \cup Op
      /\ {"idle", "cs_peek", "ab_scan", "ab_flag", "ab_wait", "ab_down"}
            \subseteq At \ {"push", "cs_del"}
  BY DEF At, Op, Kind
<1>3. CASE Push(c)
  BY <1>3, PushInv
<1>4. CASE ConnStartPeek(c)
  BY <1>4, ConnStartPeekInv
<1>5. CASE ConnStartDel(c)
  BY <1>5, ConnStartDelInv
<1>6. CASE ConnStartAbort(c) \/ AbortConn(c) \/ AbortScan(c)
  <2>1. /\ call[c].at \notin {"push", "cs_del"}
        /\ UNCHANGED << pend, pc, thrd, public, flags, calls >>
    BY <1>6 DEF ConnStartAbort, AbortConn, AbortScan
  <2>2. \/ \E k, next \in At \cup Op : New(c, k, next) /\ next \in At \ {"push", "cs_del"}
        \/ \E a \in At \ {"push", "cs_del"} : GoTo(c, a) /\ UNCHANGED free
    <3>1. CASE ConnStartAbort(c)
      BY <1>2, <3>1 DEF ConnStartAbort
    <3>2. CASE AbortConn(c)
      BY <1>2, <3>2 DEF AbortConn
    <3>3. CASE AbortScan(c)
      BY <1>2, <3>3 DEF AbortScan
    <3>4. QED
      BY <1>6, <3>1, <3>2, <3>3
  <2>3. QED
    BY <1>1, <2>1, <2>2, NewOrGoInv DEF flags
<1>7. CASE ConnStartNew(c)
  <2>1. /\ call[c].at \notin {"push", "cs_del"} /\ New(c, "conn", "idle")
        /\ UNCHANGED << pend, pc, thrd, public, flags, calls >>
    BY <1>7 DEF ConnStartNew
  <2>2. QED
    BY <1>1, <1>2, <2>1, NewOrGoInv DEF flags
<1>8. CASE AbortFlag(c) \/ AbortWait(c) \/ Down(c)
  <2>1. /\ call[c].at \notin {"push", "cs_del"}
        /\ \E a \in {"ab_wait", "ab_down", "idle"} : GoTo(c, a)
        /\ UNCHANGED << queue, pc, thrd, public, calls >>
    BY <1>8 DEF AbortFlag, AbortWait, Down
  <2>2. babort' \in BOOLEAN /\ finished' \in BOOLEAN /\ isUp' \in BOOLEAN
    <3>1. /\ babort' = babort \/ babort' = TRUE
          /\ finished' = finished
          /\ isUp' = isUp \/ isUp' = FALSE
      BY <1>8 DEF AbortFlag, AbortWait, Down, flags
    <3>2. QED
      BY <1>1, <3>1
  <2>3. QED
    BY <1>1, <1>2, <2>1, <2>2, NewOrGoInv DEF queue
<1>9. QED
  BY <1>3, <1>4, <1>5, <1>6, <1>7, <1>8 DEF CallStep

\* The beginning of a call
LEMMA BeginInv ==
    ASSUME Inv, NEW c \in Caller,
           (\E op \in Op : Request(c, op)) \/ ConnStart(c) \/ Disable(c)
    PROVE  Inv'
<1>1. /\ babort \in BOOLEAN /\ finished \in BOOLEAN /\ isUp \in BOOLEAN
      /\ calls' \in 0 .. MaxCalls /\ call[c].at = "idle"
      /\ UNCHANGED << pend, pc, thrd, public, flags >>
  BY MlmeAssumption DEF Inv, TypeOK, Request, ConnStart, Disable, Begin, queue
<1>2. {"idle", "cs_abort", "ab_conn"} \subseteq At \ {"push", "cs_del"}
  BY DEF At
<1>3. \/ \E k, next \in At \cup Op : New(c, k, next) /\ next \in At \ {"push", "cs_del"}
      \/ \E a \in At \ {"push", "cs_del"} : GoTo(c, a) /\ UNCHANGED free
  <2>1. CASE \E op \in Op : Request(c, op)
    BY <1>2, <2>1 DEF Request
  <2>2. CASE ConnStart(c)
    BY <1>2, <2>2 DEF ConnStart, queue
  <2>3. CASE Disable(c)
    BY <1>2, <2>3 DEF Disable, queue
  <2>4. QED
    BY <2>1, <2>2, <2>3
<1>4. QED
  BY <1>1, <1>3, NewOrGoInv DEF flags

(* nic_enable keeps the inductive invariant.                                 *)
LEMMA EnableInv == ASSUME Inv, NEW c \in Caller, Enable(c) PROVE Inv'
<1>1. /\ UNCHANGED << queue, pc, thrd, public, babort, finished, call >>
      /\ calls' \in 0 .. MaxCalls
  BY MlmeAssumption DEF Inv, TypeOK, Enable, Begin
<1>2. isUp' = TRUE
  BY DEF Enable
<1>3. SameHands /\ Hands' /\ \A x \in Msg : Thread(x)' <=> Thread(x)
  BY <1>1 DEF SameHands, Pushes, Thread, thrd, Inv, Hands
<1>4. CallerMoves
  BY <1>1, <1>3, SamePlaces DEF CallerMoves, Inv, TypeOK, CallType, queue
<1>5. QED
  BY <1>1, <1>2, <1>4, CallerFrame DEF Inv, TypeOK, public

(* Every step keeps the inductive invariant.                                 *)
LEMMA NextInv == ASSUME Inv, [Next]_vars PROVE Inv'
<1>1. CASE MlmeThrd \/ KeepaliveThrd
  BY <1>1, ThrdInv, KeepaliveInv
<1>2. ASSUME NEW c \in Caller,
             \/ CallStep(c) \/ (\E op \in Op : Request(c, op))
             \/ ConnStart(c) \/ Disable(c) \/ Enable(c)
      PROVE  Inv'
  BY <1>2, CallStepInv, BeginInv, EnableInv
<1>3. CASE UNCHANGED vars
  <2>1. UNCHANGED << queue, pc, thrd, public, flags, call, calls >>
    BY <1>3 DEF vars
  <2>2. SameHands /\ \A x \in Msg : Thread(x)' <=> Thread(x)
    BY <2>1 DEF SameHands, Pushes, Thread, thrd
  <2>3. QED
    BY <2>1, <2>2, SamePlaces DEF Inv, TypeOK, Hands, Control, queue, thrd,
       public, flags
<1>4. QED
  BY <1>1, <1>2, <1>3 DEF Next

(* The inductive invariant holds in every reachable state.                   *)
LEMMA InvAlways == Spec => []Inv
<1>1. Init => Inv
  BY InitInv
<1>2. Inv /\ [Next]_vars => Inv'
  BY NextInv
<1>3. QED
  BY <1>1, <1>2, PTL DEF Spec

-----------------------------------------------------------------------------
(* Every variable of the MLME keeps its type; the number of searches for the *)
(* network stays in its bound.                                               *)
THEOREM MlmeTypeCorrect == Spec => []TypeOK
<1>1. Inv => TypeOK
  BY DEF Inv
<1>2. QED
  BY <1>1, InvAlways, PTL

(* With any number of threads calling at any moment, no message of           *)
(* mlme_msg_init is lost, and none but a connect request is ever in two      *)
(* places.                                                                   *)
THEOREM MlmeMessagesAccounted == Spec => []MessagesAccounted
<1>1. Inv => MessagesAccounted
  <2> SUFFICES ASSUME Inv, NEW m \in Msg
               PROVE  Holders(m) >= 1 /\ (m[1] # "conn" => Holders(m) = 1)
    BY DEF Inv, MessagesAccounted
  <2>1. m \in {cur, pconn, pscan} <=> Thread(m)
    BY DEF Thread
  <2>2. (\E c \in Caller : call[c].msg = m /\ call[c].at = "push") <=> InHand(m)
    BY DEF InHand, Pushes
  <2>3. SomePlace(m) /\ (m[1] # "conn" => OnePlace(m))
    BY DEF Inv, Places, Plain
  <2>4. QED
    BY <2>1, <2>2, <2>3 DEF Holders, SomePlace, OnePlace
<1>2. QED
  BY <1>1, InvAlways, PTL

(* Whatever led the MLME thread back to its top (a failed search, an abort   *)
(* at any stage, a lost connection, a scan that was stopped), nothing of the *)
(* connection or the scan is left.                                           *)
THEOREM MlmeIdleIsClean == Spec => []IdleIsClean
<1>1. Inv => IdleIsClean
  <2> SUFFICES ASSUME Inv, pc \in Top PROVE IdleIsClean
    BY DEF IdleIsClean, Top
  <2>1. ~connect /\ ~wdn /\ state = "idle"
    BY DEF Inv, Control, Top, Maintaining
  <2>2. fw = "disc"
    BY DEF Inv, TypeOK, Control, Top, Maintaining
  <2>3. pconn = None /\ pscan = None
    BY DEF Inv, Control, Top, Connecting, Maintaining, Breaking, Scanning,
       ScanningConnected
  <2>4. QED
    BY <2>1, <2>2, <2>3 DEF IdleIsClean
<1>2. QED
  BY <1>1, InvAlways, PTL

(* While the connect flag is set the connection has its wdn and its request, *)
(* and the framework was told of it.                                         *)
THEOREM MlmeConnectFlagIsTrue == Spec => []ConnectFlagIsTrue
<1>1. Inv => ConnectFlagIsTrue
  <2> SUFFICES ASSUME Inv, connect PROVE ConnectFlagIsTrue
    BY DEF ConnectFlagIsTrue
  <2>1. wdn /\ pc \in {"break", "unset"} \cup Maintaining
    BY DEF Inv, Control
  <2>2. pconn # None
    BY <2>1 DEF Inv, Control, Breaking
  <2>3. pc # "unset" => fw = "conn"
    BY <2>1 DEF Inv, Control
  <2>4. QED
    BY <2>1, <2>2, <2>3 DEF ConnectFlagIsTrue
<1>2. QED
  BY <1>1, InvAlways, PTL

-----------------------------------------------------------------------------
(* The interface stays up if no caller may disable it, and then a scan that  *)
(* has ended was reported.                                                   *)

(* The MLME thread leaves the interface up and ends a scan with a report.    *)
LEMMA UpThrd == ASSUME UpInv, MlmeThrd \/ KeepaliveThrd, Inv' PROVE UpInv'
<1>1. UNCHANGED << call, isUp >>
  BY DEF MlmeThrd, KeepaliveThrd, CanRun, Reset, ThreadAbort, Pop, DispatchScan,
     DispatchConn,
         DispatchOther, ScanStop, ScanEnd, ScanDel, SearchMsg, SearchAgain, SearchFail,
         BuildWdn, BuildWdnFail, AuthMsg, AuthDone, AssocDone, ConnFail, Preconnect, Connected,
         MaintScan, MaintProbe, MaintDeauth, MaintDrop, MaintStop, ProbeStop, ProbeEnd, Deauth,
         Break, Unset, Clearup, ConnDel, Keepalive, KeepaliveLost, KeepaliveHeard, flags
<1>2. (pc \in {"scanend", "mscanend"} => pscan \notin owed)'
  <2>1. CASE ScanEnd
    BY <2>1 DEF ScanEnd, UpInv, thrd
  <2>2. CASE KeepaliveThrd
    BY <2>2 DEF KeepaliveThrd, Keepalive, KeepaliveLost, KeepaliveHeard, UpInv, public
  <2>3. CASE DispatchScan \/ MaintScan
    BY <2>3 DEF DispatchScan, MaintScan, UpInv
  <2>4. CASE MlmeThrd /\ ~ScanEnd /\ ~DispatchScan /\ ~MaintScan
    <3>1. pc' \notin {"scanend", "mscanend"}
      BY <2>4 DEF MlmeThrd, CanRun, Reset, ThreadAbort, Pop, DispatchConn,
         DispatchOther, ScanStop, ScanDel, SearchMsg, SearchAgain, SearchFail,
         BuildWdn, BuildWdnFail, AuthMsg, AuthDone, AssocDone, ConnFail, Preconnect, Connected,
         MaintProbe, MaintDeauth, MaintDrop, MaintStop, ProbeStop, ProbeEnd, Deauth,
         Break, Unset, Clearup, ConnDel
    <3>2. QED
      BY <3>1
  <2>5. QED
    BY <2>1, <2>2, <2>3, <2>4
<1>3. QED
  BY <1>1, <1>2 DEF UpInv

\* A step of a caller that is not taking the interface down
LEMMA UpCaller ==
    ASSUME UpInv, Inv', NEW c \in Caller, UNCHANGED << pc, pscan, isUp >>,
           call'[c].at \notin Taking /\ call'[c].then \notin Taking,
           \A d \in Caller : d # c => call'[d] = call[d],
           pscan # None /\ pscan \notin owed => pscan \notin owed'
    PROVE  UpInv'
<1>1. pc \in {"scanend", "mscanend"} => pscan # None
  BY DEF UpInv, Inv, Control, Scanning, ScanningConnected
<1>2. QED
  BY <1>1 DEF UpInv

(* No call takes the interface down.                                         *)
LEMMA UpCallStep ==
    ASSUME NoDisable, UpInv, Inv', NEW c \in Caller,
           \/ CallStep(c) \/ (\E op \in Op : Request(c, op))
           \/ ConnStart(c) \/ Disable(c) \/ Enable(c)
    PROVE  UpInv'
<1>1. /\ Inv /\ isUp /\ call \in CallType
      /\ call[c].at \notin Taking /\ call[c].then \notin Taking
  BY DEF UpInv, Inv, TypeOK, CallType
<1>2. ~Disable(c) /\ ~Enable(c)
  BY <1>1 DEF NoDisable, Disable, Enable, Begin
<1>3. ~AbortConn(c) /\ ~AbortScan(c) /\ ~AbortFlag(c) /\ ~AbortWait(c) /\ ~Down(c)
  BY <1>1 DEF AbortConn, AbortScan, AbortFlag, AbortWait, Down, Taking
<1>4. ASSUME NEW k, NEW next \in {"idle", "cs_peek"}, New(c, k, next)
      PROVE  /\ call'[c].at \notin Taking /\ call'[c].then \notin Taking
             /\ \A d \in Caller : d # c => call'[d] = call[d]
  BY <1>1, <1>4 DEF New, CallType, Taking
<1>5. ASSUME NEW a \in {"cs_abort", "cs_peek", "cs_new"}, GoTo(c, a)
      PROVE  /\ call'[c].at \notin Taking /\ call'[c].then \notin Taking
             /\ \A d \in Caller : d # c => call'[d] = call[d]
  BY <1>1, <1>5 DEF GoTo, CallType, Taking
<1>6. CASE Push(c)
  <2>1. /\ call'[c].at = call[c].then /\ call'[c].then = "idle"
        /\ \A d \in Caller : d # c => call'[d] = call[d]
    BY <1>1, <1>6 DEF Push, CallType
  <2>2. UNCHANGED << pc, pscan, isUp >>
    BY <1>6 DEF Push, thrd, flags
  <2>3. pscan # None /\ pscan \notin owed => pscan \notin owed'
    <3>1. ASSUME pscan # None PROVE call[c].msg # pscan
      <4>1. pscan \in Plain /\ Thread(pscan)
        BY <1>1, <3>1 DEF Inv, Control, Thread
      <4>2. ~InHand(pscan)
        BY <1>1, <4>1 DEF Inv, Places, OnePlace
      <4>3. QED
        BY <1>6, <4>2 DEF InHand, Pushes, Push
    <3>2. QED
      BY <1>6, <3>1 DEF Push
  <2>4. call'[c].at \notin Taking /\ call'[c].then \notin Taking
    BY <1>1, <2>1 DEF Taking
  <2>5. QED
    BY <2>1, <2>2, <2>3, <2>4, UpCaller
<1>7. CASE ConnStartAbort(c) \/ ConnStartNew(c) \/ (\E op \in Op : Request(c, op))
           \/ ConnStart(c)
  <2>1. UNCHANGED << pc, pscan, isUp, owed >>
    BY <1>7 DEF ConnStartAbort, ConnStartNew, Request, ConnStart, thrd, public, flags
  <2>2. \/ \E k, next \in {"idle", "cs_peek"} \cup Op :
                New(c, k, next) /\ next \in {"idle", "cs_peek"}
        \/ \E a \in {"cs_abort", "cs_peek", "cs_new"} : GoTo(c, a)
    <3>1. CASE ConnStartAbort(c)
      BY <3>1 DEF ConnStartAbort, Op, Kind
    <3>2. CASE ConnStartNew(c)
      BY <3>2 DEF ConnStartNew, Op, Kind
    <3>3. CASE \E op \in Op : Request(c, op)
      BY <3>3 DEF Request
    <3>4. CASE ConnStart(c)
      BY <3>4 DEF ConnStart
    <3>5. QED
      BY <1>7, <3>1, <3>2, <3>3, <3>4
  <2>3. QED
    BY <1>4, <1>5, <2>1, <2>2, UpCaller
<1>8. CASE ConnStartPeek(c) \/ ConnStartDel(c)
  <2>1. UNCHANGED << pc, pscan, isUp, owed >>
    BY <1>8 DEF ConnStartPeek, ConnStartDel, thrd, public, flags
  <2>2. /\ call'[c].at \notin Taking /\ call'[c].then \notin Taking
        /\ \A d \in Caller : d # c => call'[d] = call[d]
    BY <1>1, <1>8 DEF ConnStartPeek, ConnStartDel, CallType, Taking
  <2>3. QED
    BY <2>1, <2>2, UpCaller
<1>9. QED
  BY <1>2, <1>3, <1>6, <1>7, <1>8 DEF CallStep

(* Every step keeps the interface up and what follows from it.               *)
LEMMA UpNext == ASSUME NoDisable, UpInv, [Next]_vars PROVE UpInv'
<1>1. Inv'
  BY NextInv DEF UpInv
<1>2. CASE MlmeThrd \/ KeepaliveThrd
  BY <1>1, <1>2, UpThrd
<1>3. ASSUME NEW c \in Caller,
             \/ CallStep(c) \/ (\E op \in Op : Request(c, op))
             \/ ConnStart(c) \/ Disable(c) \/ Enable(c)
      PROVE  UpInv'
  BY <1>1, <1>3, UpCallStep
<1>4. CASE UNCHANGED vars
  BY <1>1, <1>4 DEF UpInv, vars, thrd, public, flags
<1>5. QED
  BY <1>2, <1>3, <1>4 DEF Next

(* As long as nobody takes the interface down: once the MLME thread has      *)
(* taken up a scan, its request is deleted only after the framework was told *)
(* that the scan is done.  (A scan refused while the interface is down is    *)
(* not reported, and its request is deleted all the same.)                   *)
THEOREM MlmeScanIsReported == NoDisable => (Spec => ScanIsReported)
<1> SUFFICES ASSUME NoDisable PROVE Spec => ScanIsReported
  OBVIOUS
<1>1. Init => UpInv
  <2> SUFFICES ASSUME Init PROVE UpInv
    OBVIOUS
  <2>1. isUp = TRUE /\ pc = "out"
    BY DEF Init
  <2>2. \A c \in Caller : call[c].at \notin Taking /\ call[c].then \notin Taking
    BY DEF Init, Taking
  <2>3. QED
    BY <2>1, <2>2, InitInv DEF UpInv
<1>2. UpInv /\ [Next]_vars => UpInv'
  BY UpNext
<1>3. UpInv /\ [Next]_vars
        => [isUp /\ pscan # None /\ pscan' # pscan => pscan \notin owed]_vars
  <2> SUFFICES ASSUME UpInv, Next, pscan # None, pscan' # pscan PROVE pscan \notin owed
    OBVIOUS
  <2>1. pc \in Scanning \cup ScanningConnected
    BY DEF UpInv, Inv, Control
  <2>2. ScanDel
    <3>1. ~DispatchScan /\ ~MaintScan
      BY <2>1 DEF DispatchScan, MaintScan, Scanning, ScanningConnected
    <3>2. CASE MlmeThrd
      BY <3>1, <3>2 DEF MlmeThrd, CanRun, Reset, ThreadAbort, Pop, DispatchConn,
         DispatchOther, ScanStop, ScanEnd, SearchMsg, SearchAgain, SearchFail,
         BuildWdn, BuildWdnFail, AuthMsg, AuthDone, AssocDone, ConnFail, Preconnect, Connected,
         MaintProbe, MaintDeauth, MaintDrop, MaintStop, ProbeStop, ProbeEnd, Deauth,
         Break, Unset, Clearup, ConnDel, thrd
    <3>3. CASE KeepaliveThrd
      BY <3>3 DEF KeepaliveThrd, Keepalive, KeepaliveLost, KeepaliveHeard
    <3>4. ASSUME NEW c \in Caller,
                 \/ CallStep(c) \/ (\E op \in Op : Request(c, op))
                 \/ ConnStart(c) \/ Disable(c) \/ Enable(c)
          PROVE  FALSE
      BY <3>4 DEF CallStep, Push, ConnStartAbort, ConnStartPeek, ConnStartDel,
         ConnStartNew,
         AbortConn, AbortScan, AbortFlag, AbortWait, Down, Request, ConnStart, Disable, Enable,
         thrd
    <3>5. QED
      BY <3>2, <3>3, <3>4 DEF Next
  <2>3. QED
    BY <2>2 DEF ScanDel, UpInv
<1>4. QED
  BY <1>1, <1>2, <1>3, PTL DEF Spec, ScanIsReported
=============================================================================
