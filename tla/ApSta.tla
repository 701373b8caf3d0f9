------------------------------- MODULE ApSta -------------------------------
(***************************************************************************)
(* The stations of an access point (nic/ap.c with the access point halves  *)
(* of auth.c and assoc.c, and the table of stations of wdn.c).             *)
(*                                                                         *)
(* Every station has an entry in the table (a wdn) with a queue of         *)
(* messages and a protothread that authenticates it, associates it and     *)
(* watches the connection.  One AP thread polls the protothreads of all    *)
(* entries.  The receive thread adds entries and loads the frames of the   *)
(* stations as messages, taken from pools that all entries share; the      *)
(* framework removes stations, and the wlan_mgmt thread loads block ack    *)
(* requests, through the same queues.                                      *)
(*                                                                         *)
(* The table has no lock.  A thread may use an entry that was removed      *)
(* after it was found, or one that is still being set up; a lookup that    *)
(* meets an entry while it is unlinked need not end; and the lists are     *)
(* destroyed when an entry is added while another one is removed, after    *)
(* which the model follows the two threads no further (Torn).  Looking up, *)
(* adding and removing are steps of their own otherwise, and so is loading *)
(* a message.                                                              *)
(***************************************************************************)
EXTENDS Integers, Sequences, SequencesExt, FiniteSets, Lists

CONSTANTS
    Sta,            \* the stations
    Node,           \* the entries of the table, but for the broadcast address
    Msg, TagOf,     \* the messages of the pools and the pool each belongs to
    Kinds,          \* the kinds of frames the stations may send
    Loads,          \* what the other threads load: removals, block ack requests
    Sec,            \* the security settings the access point may have
    IdleMax,        \* RX_IDLE_TIMEOUT_SECONDS
    MaxInput,       \* bound: frames received, but for repeated authentications,
                    \* and loads of the other threads
    MaxStart,       \* bound: the starts of the access point
    None

Tag == {"auth", "deauth", "assoc", "disassoc", "ba"}

\* The kinds of frames: an authentication by algorithm and sequence number,
\* and for the third one whether every check of it succeeds
Kind == [open1 |-> "auth", shared1 |-> "auth", good3 |-> "auth", bad3 |-> "auth",
         deauth |-> "deauth", assoc |-> "assoc", disassoc |-> "disassoc"]

ASSUME ApAssumption ==
    /\ TagOf \in [Msg -> Tag]
    /\ Kinds \subseteq DOMAIN Kind /\ Loads \subseteq {"deauth", "ba"}
    /\ Sec \subseteq {"open", "shared", "auto"}
    /\ IdleMax \in Nat /\ MaxInput \in Nat /\ MaxStart \in Nat
    /\ IsFiniteSet(Node) /\ IsFiniteSet(Msg)
    /\ None \notin Sta \cup Node \cup Msg

VARIABLES
    list, spare,    \* the linked entries and the free ones (wdn_list)
    who,            \* who[n]: the station of the entry
    raw,            \* the linked entries whose queue is still all zero
    q,              \* q[n]: ap_msg, the messages loaded for the entry
    pc,             \* pc[n]: where the protothread of the entry waits
    st,             \* st[n]: the state of the entry (wdn_state_e)
    pkt, idle,      \* a frame since the last second; rx_idle_timeout
    pool,           \* pool[tag]: ap_msg_free
    body,           \* body[m]: the frame the message carries
    sec,            \* the authentication algorithm of the access point
    status,         \* the AP status
    ap, rx, fw,     \* the AP thread, the receive thread, the other threads
    told            \* told[s]: whose request the framework was given for s

\* Bounds, and what the properties need to know of the past
VARIABLES
    inputs, starts,
    stray,          \* messages loaded into an entry whose queue was cleared for good
    unfed,          \* entries whose first frame found no free message
    reused,         \* stations reported after their request was overwritten
    broken          \* entries that received a frame between idle seconds

table == << list, spare, who, raw, pc, st >>
watch == << pkt, idle, broken >>
store == << q, pool, body, stray >>
bounds == << inputs, starts >>
vars == << table, watch, store, sec, status, ap, rx, fw, told, bounds, unfed, reused >>

NoBody == [sta |-> None, kind |-> None]
ApAt(at) == [at |-> at, node |-> None, msg |-> None]
RxIdle == [at |-> "idle", node |-> None, body |-> NoBody]
FwIdle == [at |-> "idle", node |-> None, tag |-> None]

TypeOK ==
    /\ list \in Seq(Node) /\ spare \in Seq(Node)
    /\ who \in [Node -> Sta \cup {None}] /\ raw \subseteq Node
    /\ q \in [Node -> Seq(Msg)] /\ pool \in [Tag -> Seq(Msg)]
    /\ pc \in [Node -> {"auth", "open", "chal", "seq4", "maint", "dis"}]
    /\ st \in [Node -> {"auth", "assoc", "unblock", "dauth"}]
    /\ pkt \in [Node -> BOOLEAN] /\ idle \in [Node -> 0 .. IdleMax]
    /\ ap.at \in {"off", "poll", "assoc", "report", "remove", "stop"}
    /\ rx.at \in {"idle", "found", "added", "oops", "torn"}
    /\ fw.at \in {"idle", "found", "oops"}
    /\ status \in {"uninit", "standby", "established"}
    /\ told \in [Sta -> Sta \cup {None}]

\* ap_msg_que_init
AllFree == [t \in Tag |-> SetToSeq({ m \in Msg : TagOf[m] = t })]

(* wf_wdn_init; the access point is not started yet. *)
Init ==
    /\ list = << >> /\ spare = SetToSeq(Node)
    /\ who = [n \in Node |-> None] /\ raw = {}
    /\ q = [n \in Node |-> << >>]
    /\ pc = [n \in Node |-> "auth"] /\ st = [n \in Node |-> "auth"]
    /\ pkt = [n \in Node |-> FALSE] /\ idle = [n \in Node |-> 0]
    /\ pool = [t \in Tag |-> << >>] /\ body = [m \in Msg |-> NoBody]
    /\ sec \in Sec
    /\ status = "uninit"
    /\ ap = ApAt("off") /\ rx = RxIdle /\ fw = FwIdle
    /\ told = [s \in Sta |-> None]
    /\ inputs = 0 /\ starts = 0
    /\ stray = {} /\ unfed = {} /\ reused = {}
    /\ broken = {}

-----------------------------------------------------------------------------
Linked(n) == Contains(list, n)
EntryOf(s) == IF \E n \in Node : Linked(n) /\ who[n] = s
              THEN CHOOSE n \in Node : Linked(n) /\ who[n] = s
              ELSE None

\* The queue of the entry will be read or cleared again.
Served(n) == Linked(n) /\ ~(ap.at = "remove" /\ ap.node = n)

\* An entry was added while another one was removed.
Torn == rx.at = "torn"

\* The messages exist.
Running == ap.at \notin {"off", "stop"}

(* wf_ap_msg_load: the head of the pool goes to the tail of the queue. *)
Load(n, tag, b) ==
    LET m == Head(pool[tag])
    IN  /\ pool' = [pool EXCEPT ![tag] = Tail(@)]
        /\ q' = [q EXCEPT ![n] = Append(@, m)]
        /\ body' = [body EXCEPT ![m] = b]
        /\ stray' = IF Served(n) THEN stray ELSE stray \cup {m}

(* wf_ap_msg_get and wf_ap_msg_free *)
HasMsg(n) == q[n] # << >>
HeadMsg(n) == Head(q[n])
HeadTag(n) == TagOf[HeadMsg(n)]
HeadKind(n) == body[HeadMsg(n)].kind

FreeHead(n) ==
    /\ q' = [q EXCEPT ![n] = Tail(@)]
    /\ pool' = [pool EXCEPT ![HeadTag(n)] = << HeadMsg(n) >> \o @]
    /\ body' = [body EXCEPT ![HeadMsg(n)] = NoBody]

\* ap_msg_que_clearup
QueClearup(n) ==
    /\ q' = [q EXCEPT ![n] = << >>]
    /\ pool' = [t \in Tag |->
                    Reverse(Select(q[n], { m \in Msg : TagOf[m] = t })) \o pool[t]]
    /\ body' = [m \in Msg |-> IF Contains(q[n], m) THEN NoBody ELSE body[m]]

\* wf_wdn_remove.  What the entry holds but for its queue is not read again:
\* wf_wdn_add clears an entry before it is linked.
WdnRemove(n) ==
    /\ ~Torn
    /\ list' = Select(list, Node \ {n})
    /\ spare' = Append(spare, n)
    /\ who' = [who EXCEPT ![n] = None]
    /\ pc' = [pc EXCEPT ![n] = "auth"] /\ st' = [st EXCEPT ![n] = "auth"]
    /\ pkt' = [pkt EXCEPT ![n] = FALSE] /\ idle' = [idle EXCEPT ![n] = 0]
    /\ broken' = broken \ {n} /\ unfed' = unfed \ {n}

Established(s) == s \in {"unblock", "dauth"}      \* > E_WDN_AP_STATE_ASSOC

\* Fault: only an established station is reported, not one that left.
ClearupSilent(n, s) ==
    /\ told' = IF s = "unblock" THEN [told EXCEPT ![who[n]] = None] ELSE told
    /\ QueClearup(n)
    /\ ap' = [at |-> "remove", node |-> n, msg |-> None]
    /\ UNCHANGED << table, watch, stray, sec, status, rx, fw, bounds, unfed, reused >>

\* Fault: the messages of the entry stay where they are.
ClearupKeepsMsgs(n, s) ==
    /\ told' = IF Established(s) THEN [told EXCEPT ![who[n]] = None] ELSE told
    /\ ap' = [at |-> "remove", node |-> n, msg |-> None]
    /\ UNCHANGED << table, watch, store, sec, status, rx, fw, bounds, unfed, reused >>

(* clearup of an entry whose state is s: the framework is told of the end of *)
(* a connection and the messages are freed; then the entry is removed.  In   *)
(* between it can still be found.                                            *)
Clearup(n, s) ==
    /\ told' = IF Established(s) THEN [told EXCEPT ![who[n]] = None] ELSE told
    /\ QueClearup(n)
    /\ ap' = [at |-> "remove", node |-> n, msg |-> None]
    /\ UNCHANGED << table, watch, stray, sec, status, rx, fw, bounds, unfed, reused >>

\* The rest of clearup.  The entry of the broadcast address stays, so that the
\* number of entries is never 0 and the status is not set back.
ClearupEnd ==
    /\ ap.at = "remove"
    /\ WdnRemove(ap.node)
    /\ ap' = ApAt("poll")
    /\ UNCHANGED << raw, store, sec, status, rx, fw, told, bounds, reused >>

\* The AP thread polls the entry n, whose protothread waits at p.
Polls(n, p) == ap.at = "poll" /\ Linked(n) /\ n \notin raw /\ pc[n] = p

Stays ==
    UNCHANGED << list, spare, who, raw, watch, stray, sec, status, rx, fw, told, bounds,
                 unfed, reused >>

-----------------------------------------------------------------------------
(* The receive thread *)

\* wf_rx_common_process and the dispatch of wf_wlan_mgmt_rx_frame: the entry
\* of the sender is looked up; only an authentication does without one.  No
\* frame comes before the first start, when the pools do not exist.  A station
\* may repeat the last frame of its authentication without limit.
RxFind(s, k) ==
    LET n == EntryOf(s)
        again == n # None /\ << pc[n], k >> \in { << "open", "open1" >>, << "seq4", "good3" >> }
    IN  /\ rx.at = "idle" /\ starts > 0
        /\ again \/ inputs < MaxInput
        /\ n # None \/ Kind[k] = "auth"
        /\ rx' = [at |-> "found", node |-> n, body |-> [sta |-> s, kind |-> k]]
        /\ inputs' = IF again THEN inputs ELSE inputs + 1
        /\ IF n = None THEN UNCHANGED watch
           ELSE /\ pkt' = [pkt EXCEPT ![n] = TRUE]
                /\ UNCHANGED << idle, broken >>
        /\ UNCHANGED << table, store, sec, status, ap, fw, told, starts, unfed, reused >>

\* Any other frame of a station only counts as a sign of life.
RxData(s) ==
    /\ rx.at = "idle" /\ inputs < MaxInput /\ starts > 0
    /\ EntryOf(s) # None
    /\ inputs' = inputs + 1
    /\ pkt' = [pkt EXCEPT ![EntryOf(s)] = TRUE]
    /\ UNCHANGED << table, idle, broken, store, sec, status, ap, rx, fw, told, starts, unfed,
                    reused >>

\* An entry that is unlinked is its own successor, and then leads into the
\* list of the free ones: the lookup goes round in circles.
RxLost ==
    /\ rx.at = "idle" /\ ap.at \in {"remove", "stop"} /\ inputs < MaxInput
    /\ rx' = [rx EXCEPT !.at = "oops"]
    /\ UNCHANGED << table, watch, store, sec, status, ap, fw, told, bounds, unfed, reused >>

\* auth_ap_recv without an entry, first part: wf_wdn_add.
RxAdd ==
    /\ rx.at = "found" /\ rx.node = None
    /\ IF spare = << >>
       THEN rx' = RxIdle /\ UNCHANGED << table, q >>
       ELSE LET n == Head(spare)
            IN  /\ spare' = Tail(spare) /\ list' = Append(list, n)
                /\ who' = [who EXCEPT ![n] = rx.body.sta]
                /\ raw' = raw \cup {n}
                /\ q' = [q EXCEPT ![n] = << >>]
                /\ UNCHANGED << pc, st >>
                /\ rx' = [rx EXCEPT !.at = "added", !.node = n]
    /\ UNCHANGED << watch, pool, body, stray, sec, status, ap, fw, told, bounds, unfed, reused >>

\* wf_wdn_add while wf_wdn_remove runs: both change the list of the free
\* entries, the other one, the number of entries and the map of the ids.
RxTorn ==
    /\ rx.at = "found" /\ rx.node = None /\ ap.at \in {"remove", "stop"}
    /\ rx' = [rx EXCEPT !.at = "torn"]
    /\ UNCHANGED << table, watch, store, sec, status, ap, fw, told, bounds, unfed, reused >>

\* Second part: wdn_info_update.
RxUpdate ==
    /\ rx.at = "added"
    /\ raw' = raw \ {rx.node}
    /\ rx' = [rx EXCEPT !.at = "found"]
    /\ UNCHANGED << list, spare, who, pc, st, watch, store, sec, status, ap, fw, told, bounds,
                    unfed, reused >>

\* The rest of auth_ap_recv, deauth_work_ap, disassoc_work_ap and
\* wf_assoc_ap_work: there may be no free message.
RxLoad ==
    /\ rx.at = "found" /\ rx.node # None
    /\ LET tag == Kind[rx.body.kind]
       IN  IF pool[tag] = << >>
           THEN /\ unfed' = IF Linked(rx.node) /\ pc[rx.node] = "auth" /\ ~HasMsg(rx.node)
                            THEN unfed \cup {rx.node} ELSE unfed
                /\ UNCHANGED store
           ELSE Load(rx.node, tag, rx.body) /\ unfed' = unfed \ {rx.node}
    /\ rx' = RxIdle
    /\ UNCHANGED << table, watch, sec, status, ap, fw, told, bounds, reused >>

-----------------------------------------------------------------------------
(* The other threads: wf_ap_remove_sta of the framework, and the block ack   *)
(* requests that the wlan_mgmt thread takes from its own queue; one of them  *)
(* at a time.  wf_ap_work_start and wf_ap_work_stop.                         *)

FwFind(s, t) ==
    /\ fw.at = "idle" /\ inputs < MaxInput
    /\ EntryOf(s) # None
    /\ fw' = [at |-> "found", node |-> EntryOf(s), tag |-> t]
    /\ inputs' = inputs + 1
    /\ UNCHANGED << table, watch, store, sec, status, ap, rx, told, starts, unfed, reused >>

FwLost ==
    /\ fw.at = "idle" /\ ap.at \in {"remove", "stop"} /\ inputs < MaxInput
    /\ fw' = [fw EXCEPT !.at = "oops"]
    /\ UNCHANGED << table, watch, store, sec, status, ap, rx, told, bounds, unfed, reused >>

\* The queue of an entry that is being set up is not a list yet: wf_enque_tail
\* follows a null pointer.
FwLoad ==
    /\ fw.at = "found"
    /\ \/ fw.node \in raw /\ pool[fw.tag] # << >>
          /\ fw' = [fw EXCEPT !.at = "oops"] /\ UNCHANGED store
       \/ fw.node \notin raw /\ pool[fw.tag] # << >>
          /\ Load(fw.node, fw.tag, NoBody) /\ fw' = FwIdle
       \/ pool[fw.tag] = << >> /\ fw' = FwIdle /\ UNCHANGED store
    /\ UNCHANGED << table, watch, sec, status, ap, rx, told, bounds, unfed, reused >>

\* A framework that starts an access point knows none of its stations yet.
\* What was left in the queues went with the entries.
ApStart ==
    /\ ap.at = "off" /\ starts < MaxStart
    /\ starts' = starts + 1
    /\ pool' = AllFree /\ body' = [m \in Msg |-> NoBody]
    /\ q' = [n \in Node |-> << >>]
    /\ stray' = {}
    /\ status' = "standby"
    /\ told' = [s \in Sta |-> None] /\ reused' = {}
    /\ ap' = ApAt("poll")
    /\ UNCHANGED << table, watch, sec, rx, fw, inputs, unfed >>

\* The thread has ended when ap_msg_deinit frees the messages of the pools and
\* then, one after the other, the entries with theirs.  Nobody is told.
ApStop ==
    /\ ap.at = "poll"
    /\ ap' = ApAt("stop")
    /\ pool' = [t \in Tag |-> << >>]
    /\ UNCHANGED << table, watch, q, body, stray, sec, status, rx, fw, told, bounds, unfed,
                    reused >>

StopEntry(n) ==
    /\ ap.at = "stop" /\ Linked(n) /\ n \notin raw
    /\ q' = [q EXCEPT ![n] = << >>]
    /\ WdnRemove(n)
    /\ UNCHANGED << raw, pool, body, stray, sec, status, ap, rx, fw, told, bounds, reused >>

StopDone ==
    /\ ap.at = "stop" /\ \A n \in Node : Linked(n) => n \in raw
    /\ ap' = ApAt("off") /\ status' = "uninit"
    /\ UNCHANGED << table, watch, store, sec, rx, fw, told, bounds, unfed, reused >>

-----------------------------------------------------------------------------
(* The AP thread: wf_auth_ap_thrd *)

\* A zeroed queue has no first message: the protothread of an entry that is
\* being set up waits.

\* The algorithm that the first frame must name
Algo(k) == IF sec = "auto" THEN k ELSE IF sec = "shared" THEN "shared1" ELSE "open1"

AuthFirst(n) ==
    /\ Polls(n, "auth") /\ HasMsg(n)
    /\ LET k == HeadKind(n)
       IN  IF HeadTag(n) = "auth" /\ k \in {"open1", "shared1"} /\ k = Algo(k)
           THEN /\ FreeHead(n)
                /\ pc' = [pc EXCEPT ![n] = IF k = "open1" THEN "open" ELSE "chal"]
                /\ st' = [st EXCEPT ![n] = "auth"]
                /\ Stays /\ UNCHANGED ap
           ELSE Clearup(n, st[n])

\* A repeated frame is answered again.
AuthAgain(n) ==
    /\ Polls(n, "open") \/ Polls(n, "seq4")
    /\ HasMsg(n) /\ HeadTag(n) = "auth"
    /\ FreeHead(n)
    /\ Stays /\ UNCHANGED << ap, pc, st >>

AuthChallenge(n) ==
    /\ Polls(n, "chal") /\ HasMsg(n)
    /\ IF HeadTag(n) = "auth" /\ HeadKind(n) = "good3"
       THEN /\ pc' = [pc EXCEPT ![n] = "seq4"]
            /\ Stays /\ UNCHANGED << ap, st, q, pool, body >>
       ELSE Clearup(n, st[n])

\* Fault: an expired timer is not noticed.
AuthTimeoutMissed(n) ==
    /\ Polls(n, "open") \/ Polls(n, "chal") \/ Polls(n, "seq4")
    /\ ~HasMsg(n)
    /\ Stays /\ UNCHANGED << ap, pc, st, q, pool, body >>

AuthTimeout(n) ==
    /\ Polls(n, "open") \/ Polls(n, "chal") \/ Polls(n, "seq4")
    /\ ~HasMsg(n)
    /\ Clearup(n, st[n])

\* Any other frame ends the authentication; the association takes it.
AuthDone(n) ==
    /\ Polls(n, "open") \/ Polls(n, "seq4")
    /\ HasMsg(n) /\ HeadTag(n) # "auth"
    /\ ap' = [ap EXCEPT !.at = "assoc", !.node = n]
    /\ Stays /\ UNCHANGED << pc, st, q, pool, body >>

(* wf_assoc_ap_thrd *)

AssocRefuse ==
    /\ ap.at = "assoc"
    /\ Clearup(ap.node, IF HeadTag(ap.node) = "assoc" THEN "assoc" ELSE st[ap.node])

\* The request is freed; its memory is still to be used for the report.
AssocAccept ==
    LET n == ap.node
        m == HeadMsg(n)
    IN  /\ ap.at = "assoc" /\ HeadTag(n) = "assoc"
        /\ st' = [st EXCEPT ![n] = "assoc"]
        /\ q' = [q EXCEPT ![n] = Tail(@)]
        /\ pool' = [pool EXCEPT !["assoc"] = << m >> \o @]
        /\ ap' = [at |-> "report", node |-> n, msg |-> m]
        /\ Stays /\ UNCHANGED << pc, body >>

\* wf_assoc_ap_event_up, and the start of maintain_thrd
Report ==
    LET n == ap.node
        m == ap.msg
        s == who[n]
    IN  /\ ap.at = "report"
        /\ told' = [told EXCEPT ![s] = body[m].sta]
        /\ reused' = IF Contains(pool["assoc"], m) THEN reused \ {s} ELSE reused \cup {s}
        /\ body' = IF Contains(pool["assoc"], m) THEN [body EXCEPT ![m] = NoBody] ELSE body
        /\ st' = [st EXCEPT ![n] = "unblock"]
        /\ pc' = [pc EXCEPT ![n] = "maint"]
        /\ status' = "established"
        /\ pkt' = [pkt EXCEPT ![n] = FALSE] /\ idle' = [idle EXCEPT ![n] = 0]
        /\ broken' = broken \ {n}
        /\ ap' = ApAt("poll")
        /\ UNCHANGED << list, spare, who, raw, q, pool, stray, sec, rx, fw, bounds, unfed >>

(* maintain_thrd *)

\* A second without a message: idle seconds are counted.
MaintTick(n) ==
    /\ Polls(n, "maint") /\ ~HasMsg(n)
    /\ pkt[n] \/ idle[n] < IdleMax
    /\ pkt' = [pkt EXCEPT ![n] = FALSE]
    /\ idle' = IF pkt[n] THEN idle ELSE [idle EXCEPT ![n] = @ + 1]
    /\ broken' = IF pkt[n] /\ idle[n] > 0 THEN broken \cup {n} ELSE broken
    /\ UNCHANGED << table, store, sec, status, ap, rx, fw, told, bounds, unfed, reused >>

MaintIdle(n) ==
    /\ Polls(n, "maint") /\ ~HasMsg(n)
    /\ ~pkt[n] /\ idle[n] >= IdleMax
    /\ Clearup(n, st[n])

\* An authentication or a deauthentication ends the connection.
MaintEnd(n) ==
    /\ Polls(n, "maint") /\ HasMsg(n) /\ HeadTag(n) \in {"auth", "deauth"}
    /\ Clearup(n, IF HeadTag(n) = "deauth" THEN "dauth" ELSE st[n])

MaintDisassoc(n) ==
    /\ Polls(n, "maint") /\ HasMsg(n) /\ HeadTag(n) = "disassoc"
    /\ FreeHead(n)
    /\ pc' = [pc EXCEPT ![n] = "dis"]
    /\ Stays /\ UNCHANGED << ap, st >>

MaintOther(n) ==
    /\ Polls(n, "maint") /\ HasMsg(n) /\ HeadTag(n) \in {"assoc", "ba"}
    /\ FreeHead(n)
    /\ Stays /\ UNCHANGED << ap, pc, st >>

\* After a disassociation the station has five seconds to associate again.
DisReassoc(n) ==
    /\ Polls(n, "dis") /\ HasMsg(n) /\ HeadTag(n) = "assoc"
    /\ st' = [st EXCEPT ![n] = "assoc"]
    /\ told' = [told EXCEPT ![who[n]] = None]
    /\ ap' = [ap EXCEPT !.at = "assoc", !.node = n]
    /\ UNCHANGED << list, spare, who, raw, pc, watch, store, sec, status, rx, fw, bounds,
                    unfed, reused >>

DisEnd(n) ==
    /\ Polls(n, "dis")
    /\ HasMsg(n) => HeadTag(n) # "assoc"
    /\ Clearup(n, st[n])

-----------------------------------------------------------------------------
RxStep == RxAdd \/ RxTorn \/ RxUpdate \/ RxLoad

ApEntry(n) ==
    \/ AuthFirst(n) \/ AuthAgain(n) \/ AuthChallenge(n) \/ AuthTimeout(n) \/ AuthDone(n)
    \/ MaintTick(n) \/ MaintIdle(n) \/ MaintEnd(n) \/ MaintDisassoc(n) \/ MaintOther(n)
    \/ DisReassoc(n) \/ DisEnd(n)

ApAssoc == AssocRefuse \/ AssocAccept \/ Report \/ ClearupEnd

Next ==
    \/ \E s \in Sta, k \in Kinds : RxFind(s, k)
    \/ \E s \in Sta : RxData(s)
    \/ \E s \in Sta, t \in Loads : FwFind(s, t)
    \/ RxStep \/ RxLost
    \/ FwLoad \/ FwLost
    \/ ApStart \/ ApStop \/ StopDone
    \/ \E n \in Node : ApEntry(n) \/ StopEntry(n)
    \/ ApAssoc

Spec == Init /\ [][Next]_vars

\* The receive thread ends what it began, and the AP thread polls every entry
\* in every round, where timers expire.
Fairness ==
    /\ WF_vars(RxStep)
    /\ \A n \in Node : WF_vars(ApEntry(n))
    /\ WF_vars(ApAssoc)

FairSpec == Spec /\ Fairness

-----------------------------------------------------------------------------
(* The framework knows exactly the stations that are established: it is told *)
(* of every association and of every end of one, through deauthentication,   *)
(* new authentication, disassociation with and without a new association,    *)
(* idleness and removal, and what it is told of is the request of that       *)
(* station, unless the receive thread overwrote the request after it was     *)
(* freed; and as long as no entry was added while another one was removed.   *)
FrameworkAgrees ==
    ap.at = "poll" /\ ~Torn =>
        \A s \in Sta :
            /\ told[s] # None <=> EntryOf(s) # None /\ Established(st[EntryOf(s)])
            /\ told[s] # None /\ s \notin reused => told[s] = s
            /\ told[s] # None => status = "established"

(* While the access point runs every message is free or waits in one entry,  *)
(* once, but for those that a thread loaded into an entry after its queue    *)
(* was cleared for the removal (ap.c:432), whether the entry was unlinked    *)
(* yet (ap.c:434) or not; these never get back into a pool.  Every entry is  *)
(* linked or free, once.  Nothing is promised when wf_wdn_add and            *)
(* wf_wdn_remove ran at the same time, which no lock prevents.               *)
Places(m) ==
    { << "pool", t >> : t \in { t \in Tag : Contains(pool[t], m) } }
        \cup { << "queue", n >> : n \in { n \in Node : Served(n) /\ Contains(q[n], m) } }

MessagesAccounted ==
    /\ TypeOK
    /\ ~Torn =>
           /\ Running =>
                  \A m \in Msg : Cardinality(Places(m)) = IF m \in stray THEN 0 ELSE 1
           /\ IsInjective(list \o spare) /\ Len(list) + Len(spare) = Cardinality(Node)

(* An entry that is not established does not stay: the station gets through  *)
(* authentication and association, or the entry is removed.  The exceptions: *)
(* the station repeats its authentication without end, and the frames hide   *)
(* that the timer expired (auth.c:314); there was no message for the first   *)
(* frame of the station, whose entry then waits without limit; the lists     *)
(* were destroyed; the access point was stopped.                             *)
Repeats(n) == pc[n] \in {"open", "seq4"} /\ HasMsg(n) /\ HeadTag(n) = "auth"

EntryResolves ==
    \A n \in Node :
        []<>(\/ ~Linked(n) \/ Established(st[n])
            \/ Repeats(n) \/ n \in unfed \/ Torn \/ ~Running)

(* Only a station from which nothing was received for the whole idle time is *)
(* disconnected for being idle (RX_IDLE_TIMEOUT_SECONDS).                    *)
IdleMeansIdle ==
    [][ \A n \in Node : MaintIdle(n) => n \notin broken ]_vars
=============================================================================
