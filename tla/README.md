# Verification of the smartchip Wi-Fi driver

This directory holds TLA+ specifications of the driver in `src/trunk_driver/nic`,
the TLC configurations that check them, and TLAPS proofs about the message queue,
the timers, the scan, the authentication and association of a station, the MLME, the
receive reorder window and the stations of an access point. Paths below are relative
to `src/trunk_driver/nic` unless they start with `src/`.

    tlc -workers 2 -config Scan.cfg Scan        # a model-checking run
    tlapm WfMsgLemmas.tla                       # the operations of the queue
    tlapm UtilityProofs.tla                     # the queue and the timers
    tlapm ScanProofs.tla                        # and the components:
    tlapm AuthStaProofs.tla
    tlapm AssocStaProofs.tla
    tlapm MlmeProofs.tla
    tlapm RxReorderProofs.tla
    tlapm ApStaProofs.tla

`PROJECT.json` lists the runs, the faults each property is known to catch, the
source lines of every definition, the hazards and the theorems.

## 1. The system

The driver is a soft-MAC Wi-Fi driver (station, access point, Wi-Fi Direct, ad
hoc) for one chip with up to two interfaces, ported to Linux and to several
small operating systems. Its own core logic is in `nic/`; the rest of the
repository is the ports, the transports, the protothread library and
an RT-Thread board package.

One **MLME thread** per interface (`mlme_core` in `mlme.c`) runs a tree of
protothreads: a blocking point in one of them returns to the top, and the thread
polls again a millisecond later. C locals do not survive a blocking point.
Everything else talks to that thread through **message queues**: the framework's
threads (cfg80211, wireless extensions) by calling `wf_mlme_*`, the receive
thread by calling `wf_scan_filter`, `wf_auth_frame_parse` and
`wf_assoc_frame_parse`. The two interfaces share the chip under one **hardware
lock** (`nic_mlme_hw_access_trylock`).

An interface in access point mode has an **AP thread** instead (`ap_poll` in
`ap.c`) that polls one protothread per associated station; the receive thread and
the framework reach it through a queue in each station's table entry. Received
data frames of a block ack agreement pass a **reorder window** that the receive
thread, an OS timer and the MLME thread share under a lock.

| component | state | operations | interaction | hard behaviour | correct means |
|---|---|---|---|---|---|
| message queue (`utility/wf_msg.c`, `wf_que.c`) | lists `pend` and `free`, each message's `pque` | alloc, new, push, push_head, pop, pop_dom, get, del, free | one per component, used by all threads | two threads with one message, delete without pop, order | one owner per message, sorted, stable, first-in first-out per urgency |
| scan (`scan.c`) | `brun`, `preq`, `ch_idx`, `retry_cnt`, queue, `req_lock`; chip: channel, filter, media status | `wf_scan_start`, `_stop`, `_thrd`, `_filter` | hardware lock, transmit path, receive thread | stop at any moment, failing commands, request freed under a reader | always ends, gives everything back, chip restored, right result |
| authentication (`auth.c`) | `brun`, `retry_cnt`, `auth_seq`, `auth_algo`, queue | `wf_auth_sta_start`, `_stop`, `_thrd`, `auth_sta_recv` | access point, receive thread, MLME | timeout against late answer, answers of an earlier session | ends, success only with consent, no message lost |
| association (`assoc.c`) | `brun`, `retry_cnt`, `cur_network`, queue | `wf_assoc_start`, `_stop`, `_sta_thrd`, `_frame_parse` | as above, stopped by other threads | as above | as above |
| MLME (`mlme.c`) | `state`, `connect`, `pconn_msg`, `pscan_msg`, `pwdn_info`, `babort_thrd`, `abort_thrd_finished`, queue | `mlme_core(_thrd)`, `wf_mlme_scan_start`/`_abort`, `conn_start`/`_abort`, `deauth`, `deassoc`, `conn_scan_rsp`, `abort` | framework, receive thread, the three components above | calls at every point of every path | flag, wdn, request, state and framework agree; disconnects happen; scans are reported |
| bring-up (`nic.c`) | `is_up` | `nic_enable`, `nic_disable` | `wf_mlme_abort` | taking down in the middle of anything | the call returns, the thread comes back clean |
| timers and protothreads (`wf_timer.h`, `wf_pt.h`) | `start`, `expire`, `interval`; continuation | set, reset, restart, modify, expired; wait, spawn, yield | all of the above | 32-bit wrap, lost locals | a timer expires when its instant has passed, whatever wrapped |
| access point (`ap.c`, halves of `auth.c`, `assoc.c`) and stations table (`wdn.c`) | a protothread, a queue and a state per entry, shared pools of messages, lists of used and free entries | `wf_ap_work_start`, `_stop`, `ap_thrd` with authentication, association and maintenance, `wf_ap_msg_load`, `wf_ap_remove_sta`, `wf_wdn_add`, `_remove` | AP thread, receive thread, framework, without a lock on the table | entries used while they are set up or removed, several stations on few messages | the framework knows the established stations, no message is lost, no entry stays half way |
| receive reordering and block ack (`rx.c`, parts of `mlme.c`, `action.c`) | expected sequence number, held frames, pool of nodes, timer | frame arrival, timeout, attach, reinit, ADDBA answer, detach | receive thread, timer, MLME thread | wrap of the numbers, timer against arrival, window of the last connection | in order, no frame dropped without reason, none held for ever, pool suffices |
| list of networks (`wlan_mgmt.c`) | free, used and shared lists, queue | insert, refresh, age | receive thread, MLME, framework | ageing against reading | not modelled, see the plan |
| power save (`lps.c`), P2P (`p2p/`), ad hoc (`adhoc.c`) | state machines of their own | | MLME thread | | not yet |
| transmit (`tx.c`) | queues | | all | | seen as "a frame is queued" |
| ciphers (`sec*.c`), frames (`ie.c`, `wf_80211.c`), chip commands (`mcu_cmd.c`, `hw_*.c`, `efuse.c`), transports (`src/trunk_driver/os/linux/hif`), OS ports | | | | | not modelled: bytes and I/O |

## 2. The modules

| module | models | depends on |
|---|---|---|
| `Lists` | taking elements out of a list, as the other modules need it | |
| `WfMsg` | the operations of the queue as functions of its two lists | `Lists` |
| `WfMsgQue` | one queue between any number of senders and a receiver | `WfMsg` |
| `MsgPrio` | abstract: one first-in first-out line per urgency | `Lists` |
| `WfMsgLemmas` | lemmas about the operations of `WfMsg` and `Lists` | `WfMsg` |
| `UtilityProofs` | theorems about `WfMsgQue` and `WfTimer` | `WfMsgQue`, `WfMsgLemmas`, `WfTimer` |
| `Procedure` | abstract: what a scan, an authentication or an association promises the MLME thread and the other interface | |
| `Scan` | `scan.c` of one interface | `WfMsgLemmas`, `Procedure` |
| `AuthSta` | the station's half of `auth.c` | `WfMsgLemmas`, `Procedure` |
| `AssocSta` | the station's half of `assoc.c` | `WfMsgLemmas`, `Procedure` |
| `Mlme` | `mlme.c` of a station, `nic_enable` and `nic_disable` | `WfMsgLemmas` |
| `RxReorder` | the reorder window of one traffic class (`rx.c`), its timer and what `mlme.c` does to it | |
| `ApSta` | `ap.c`, the access point's halves of `auth.c` and `assoc.c`, the table of `wdn.c` | `Lists` |
| `WfTimer` | `wf_timer.h` with its 32-bit arithmetic | |
| `ScanProofs`, `AuthStaProofs`, `AssocStaProofs`, `MlmeProofs`, `RxReorderProofs`, `ApStaProofs` | theorems about the module of that name | that module |
| `MCWfMsgQue`, `MCAuthSta`, `MCMlme`, `MCApSta` | pools, access points and callers for TLC | |

**Steps.** An action is a stretch of code between two points where another
thread can make a difference: a queue operation (under the queue's lock), a
read or write of a shared field, a blocking point of a protothread. A function
such as `wf_scan_stop` that tests `brun`, then takes a message, then pushes it is
three actions of the calling thread. A component with a queue of its own takes
the operations from `Q == INSTANCE WfMsgLemmas` with its messages and tags, which
gives it `WfMsg` and, for the proofs, the lemmas about it. `pc` is the line where a protothread
resumes; the C labels keep their names (`"done"`, `"exit"`, `"wait"`).

**`WfMsg`, `WfMsgQue`.** The doubly linked lists are sequences; the tag is its
three bit fields, and `Key` is the number `wf_msg_push` compares. `pque` is not a
variable: it is where the message is. `held[t]` is what thread `t` has got from
`wf_msg_new` or a pop, `seen` what the receiver only looked at (`wf_msg_get`,
which later calls `wf_msg_del` on a message still in `pend`). All of
`wf_msg_init`, `alloc`, `new`, `push`, `push_head`, the four pops, the two gets,
`del` and `free` are actions. Clients obey the interface: a thread pushes or
deletes only what it holds or, for the receiver, what it saw. The one client
that does not, `wf_mlme_conn_start`, is modelled as it is in `Mlme`. `headed` is
a history variable: the pending messages that were pushed with
`wf_msg_push_head`. `Select(s, T)` of `Lists` is `SelectSeq` with a set for the
test, written so that it can be proved about.

**`Scan`.** `ScanThrd` has one action per stretch of `wf_scan_thrd`, with the
failure of every command to the chip; `Setting`, `SettingFail` (with
`SettingCommands`) and `RecoverSettings` are `scan_setting` and
`scan_setting_recover`, including that a failed first half stays in the chip. Which
commands fail is chosen first (`RecoverFailures`), and the settings follow. `reason`
is the C local and `FreeBlocked` is the re-entry that resets it; `bak` is
`chnl_bak`, which every scan reads from the radio when it begins. Three history
variables: `verdict` is what the scan decided, `left` the settings that were changed
and whose restoring command failed (or was not reached, because the one for the
channel failed), or that a `scan_setting` made which then failed, and `strayed`
whether the command that sets the channel back ever failed. Both are computed from
the commands that failed and from the state before the recovery, never from what the
recovery made of it: a recovery that does not restore a setting although its command
succeeded violates `ChipScansUnderLock`, as the fault `RecoverKeepsFilterOff` does.
A command that fails in the middle of a scan excuses nothing. `rx = "oops"` is the
NULL read of `wf_scan_filter` (see 7).

**`AuthSta`.** `air[r]` counts the answers to request `r` that are on their way:
each may arrive at any time, in any order, in any later session, or never. `ap`
is the access point: which algorithm it supports, whether it sends a challenge
text, whether its key is the station's. The uninitialised `reason` after a
rejected seq 3 is a choice among all results (`GiveUpResults`). `last` is a
history variable: the frame that ended the authentication. `fresh` is another:
the messages pushed since this session began.

**`AssocSta`.** Like `AuthSta`, with stopping threads; the answer's status is
chosen when it arrives. `curNet` is the session whose success stored AID and IEs
in `cur_network`. `accepted` is a history variable: the receive thread pushed a
success since this session was started. `DoneMeansAccepted` relates the result
the protothread takes from a message to that push, over two sessions that share
the messages; a success that the access point sent for the session before, but
that is received after the start of this one, counts, as the frame does not say
what it answers.

**`Procedure`.** Three phases (`idle`, `waiting` for the hardware, `working`), the
owner of the hardware and the outcome that was told. A procedure enters its work
only when the hardware is free, and leaves it in one step (`Finish`) that gives the
hardware back and tells `done`, `abort` or `fail`. `Scan`, `AuthSta` and `AssocSta`
are each shown to implement it: the phase is read off `pc`, the owner is `hwLock`,
and the outcome is what lies in `*prsn` while the protothread does not run.

**`Mlme`.** The protothreads for scanning, authentication and association are
reduced to "it ends some time, with some result, and a stop makes no promise of
the result"; that they end is what `ScanEnds`, `AuthEnds` and `AssocEnds` say, and
that they return once, with an outcome and without the hardware, `ImplementsProcedure`.
Each caller is a thread that is at some point of a `wf_mlme_*` function and may
hold a message. `fw` is what the framework was last told, `owed` the scan
requests that were pushed and not yet reported. Indications are always requested
(`indicate_en`), as every caller in the Linux port does.

**`RxReorder`.** A frame is its number in the order the peer sent it, and the driver
sees that number modulo `SnMod`; so the properties compare true numbers while the
operators (`SnLess`, `Chk`, `Place`, `Upload`) are those of the code on wrapped
ones. Under an agreement any of the last `WSize` frames may arrive next, again or
never, and the peer never runs half of the numbers ahead of what was delivered;
without one it sends one frame at a time. `Expire` is the operating system's timer,
`Timeout` the callback that gets the lock some time later. The MLME thread attaches
the window of the last connection before it reinitialises it (`Attach`, `Reinit`),
ends the connection in between when the rate table cannot be set (`PreconnectFail`),
and answers block ack requests, possibly with a response that cannot be sent
(`AddBaFail`). `lost` counts the nodes that could not be allocated (`Missing`) and
those that `Reinit` frees instead of returning; `stale` says that the window may not
fit the frames because some bypassed it or it is that of the last connection. `rx.at
= "spin"` is the receive thread waiting for a node with the lock held, `"oops"` its
NULL read of `ba_ctl`.

**`ApSta`.** An entry's protothread stops at `pc[n]`; a disjunct of `ApEntry(n)`
runs from one blocking point to the next, as the AP thread does when it polls the
entry. The receive thread looks an entry up, adds it if there is none, sets its
queue up and loads the message in separate steps; `wf_ap_remove_sta` and the block
ack requests of the wlan_mgmt thread look up and load in two (`FwFind`, `FwLoad`,
one of these callers at a time). `clearup` is two steps: the queue is cleared and
the framework told, then the entry is removed (`ClearupEnd`); so is the stop, entry
by entry. The table has no lock, and the model follows what that leads to as far as
the lists still mean something:

* an entry may be used after it was removed or given to another station, and
  messages may be loaded into it between the clearing of its queue and the removal
  or later (`stray`);
* `raw` are the entries that are linked before their queue is initialised. Polling
  one finds no message, as the head of a zeroed queue is NULL, and the protothread
  waits; loading into one follows a NULL pointer (`FwLoad`, `"oops"`);
* a lookup that meets an entry while it is being unlinked may run in circles or into
  the free list (`RxLost`, `FwLost`, `"oops"`): that thread does nothing more;
* `wf_wdn_add` while `wf_wdn_remove` runs destroys the lists, the count and the ids
  (`RxTorn`). The two threads are not followed after that (`Torn`), and the
  properties say nothing of it. Additions and removals that do not overlap are one
  step each. `TypeOK` and everything else is checked and proved for all the
  interleavings without such an overlap.

A message is loaded in one step, the one that puts it into the queue. `ApStop` tells
the framework nothing, as the code does; `ApStart` assumes that a framework that
starts an access point knows none of its stations. The entry of the broadcast
address, which the AP thread adds when it begins (`ap.c:495`), is not in `Node`; that
this addition may overlap one of the receive thread in the same way is left out. A station may
repeat the last frame of its authentication without limit; all other frames count
against `MaxInput`. History variables: `stray`, `unfed` (entries without a first
message), `reused` (stations reported after their request was overwritten),
`broken` (entries that received a frame between idle seconds). A station's frame
is its kind; the third authentication frame is good or bad as a whole.

**`WfTimer`.** `now` is the 64-bit time of the operating system, `start` and
`expire` are 32-bit words, and the history variables `begin` and `due` the
instants they are meant to be. The module is for proofs: TLC cannot enumerate
words, and a small word would not be the code's.

## 3. The runs

| run | states | question | properties |
|---|---|---|---|
| `msg_queue` | 4 messages, 2 senders | is the queue with all its operations, `wf_msg_push_head` too, a priority queue | `Ownership`, `SeenStaysPending`, `MostUrgentFirst`, `OrderIsStable`, refinement `ImplementsPrio` |
| `scan` | 1.2 million | two scans, a stopper, the receive thread, the other interface, failing commands | `CleanEnd`, `MessagesAccounted`, `ChipScansUnderLock`, `RequestKeptUnderLock`, `ScanEnds`, refinement `ImplementsProcedure` |
| `auth` | 1.6 million | two authentications against five kinds of access point, stops, lost and late answers | `CleanEnd`, `MessagesAccounted`, `FreshMessages`, `DoneMeansAccepted`, `AuthEnds`, refinement `ImplementsProcedure` |
| `assoc` | 614 thousand | two associations, a stopper, lost and late answers | the same with `AssocEnds` |
| `mlme` | 252 thousand | four calls of the framework and the receive thread in any order | `MessagesAccounted`, `IdleIsClean`, `ConnectFlagIsTrue`, `ScanIsReported`, `DisconnectHappens`, `AbortEndsAttempt` |
| `mlme_down` | fewer | the interface goes down and up at any moment | `IdleIsClean`, `ConnectFlagIsTrue`, `AbortIsHeard` |
| `rx_reorder` | 863 thousand | eight frames lost, reordered and repeated over a wrap of the numbers, a timer, two connections of which one may fail at once, two agreements, all nodes or only one of four | `HeldInWindow`, `PoolSuffices`, `DeliveredInOrder`, `DropIsJustified`, `HeldFramesLeave` |
| `ap` | 614 thousand | two stations join, leave and are removed, with open or shared key, while the access point stops | `FrameworkAgrees`, `MessagesAccounted`, `EntryResolves` |
| `scan_result`, `auth_reject`, `mlme_conn_race`, `ap_idle` | | disagreements, see 6 | one each |

The type invariant of a module is a conjunct of its message or node accounting. What
the runs show, beyond the sentence before each property in its module:

* The clients' ABORT and START protocol rests on the queue's order. START has the
  lowest priority, so a late ABORT or answer of the session before is popped and
  thrown away before START is reached; `FreshMessages` fails at once when the
  priorities are exchanged.
* `MostUrgentFirst` is what remains of the order with `wf_msg_push_head`: a message
  stands before a more urgent one only if it was pushed at the head, and both are
  then of one domain. `ImplementsPrio` maps `pend` to one line per urgency class
  and shows that while no such message waits the queue never serves a less urgent
  one first nor exchanges two equal ones, with messages withdrawn from the middle
  (`wf_msg_del` after `wf_msg_get`).
* `CleanEnd` of the three protothreads covers every `goto exit`. `IdleIsClean`
  does the same for the ten ways a connection can end.
* `ImplementsProcedure` is what the two interfaces of a chip and the MLME thread rely
  on: a lock that is taken without being free, given back early or late, and a path
  that returns without storing a result are steps the abstract procedure has not.
* `AbortIsHeard` is the exact form of what `wf_mlme_abort` guarantees: it waits
  for ever only in the ways described in 7.
* `PoolSuffices` is why the receive thread may wait for a node with the lock held:
  64 nodes for a window of 64 are just enough, as long as all were allocated and no
  connection begins with frames held.
* `FrameworkAgrees`, `MessagesAccounted` and `EntryResolves` of `ApSta` hold as long
  as no addition to the table overlapped a removal, and name their other exceptions:
  a request that was overwritten before it was reported; a message that was loaded
  into an entry after its queue was cleared; an entry whose first frame found no
  message, one whose station repeats its authentication without end so that the
  expired timer is not looked at (`Repeats`), and an access point that was stopped.

**Bounds and why they are enough.** `MaxScans`, `MaxSessions` = 2: the second
session is the one that can meet leftovers of the first, and a third meets
nothing new because every session starts by emptying the queue. Channels: 2 with
`PauseEvery` = 2 (the code's 5), so a scan has a channel with and one without a
pause; `ProbeTimes` = 1. Tries of authentication and association: the code's own
3. `MaxOther` = 1: the other interface takes the hardware lock once, before,
between or never. Stoppers: one in the runs of `Scan` and `AssocSta`, as there is
one ABORT message; a second one would find none. Messages: the pools of the code,
with one instead of two where they only repeat each other (`SmallPool`); two
`conn` and two `conn_abort` are kept since they can be in use together. Calls:
four, enough for connect, scan, disconnect and another connect.
`RxReorder`: `SnMod` = 12 with `WSize` = `NodeNum` = 4, where the code has 4096 and
64 for both. A window of 3 would be too small, as no frame is ever left behind by
a timeout; and numbers up to twice the window would be too few, as a frame beyond
the window would then count as an old one and the window never move
(`WindowAssumption`). The peer's frames 7 to 14 (`Start`,
`MaxSent`) wrap the numbers, `Skip` lets the next peer go on at once, so that a
smaller pool runs empty, or elsewhere; two connections and two agreements let one meet
what the other left; `Missing` = {0, 3} has all nodes or so few that the receive
thread waits in the first connection. `Ap`: two stations and two entries, one
message in each pool, so that a pool runs empty; four inputs are enough
for a shared key association and one more frame or removal; a bad third
frame, a station's deauthentication and block ack requests are left out of the
run, as a timeout, a removal and a late association request take the same
branches (the theorems have all of them, and any number of starts); `IdleMax` = 0 lets a
station be idle at once, while `ApIdle` has 2, so that an idle second, a frame and
another idle second happen. No symmetry is used, as liveness is checked.

**Deadlock** is not checked: a system without further calls may stop.

## 4. Fairness

Weak fairness only. The MLME thread polls its protothreads every millisecond
(`mlme_core`, `PT_SCHEDULE` in a loop), so a protothread that can go on does; the
receive thread finishes the frame it has begun (it never waits, `req_lock` is only
tried); the other interface releases the hardware lock, because its own protothreads
end. That weak fairness of the waiting protothread is enough for it to get the lock
is due to `MaxOther`, which bounds how often the other interface takes it: the lock
is only tried, so an interface that took it again and again at the wrong moments
could keep a scan waiting. A caller finishes the call it has begun. Nothing is
assumed of the network: answers may never come; of the transmit path: the drain has
a timeout; or of the keepalive: it is never forced.

In `RxReorder` the operating system's timer expires and its callback runs;
nothing is assumed of further frames. In `ApSta` the receive thread finishes the
frame it has begun, and the AP thread gets to every entry: `ap_poll` walks the
whole table in every round, in an endless loop with `wf_msleep(1)`.

## 5. The proofs

Every theorem is `Spec => []P` for an invariant `P`, or `Spec => P` for an action
property or a refinement, with the `Spec` and the `P` of the runs; it holds for every value of the
constants that the module's named assumption allows, where a run has one. Each
proof module has an inductive invariant `Inv`, a lemma that `Init` implies it, one
lemma per action (or per group of like actions) that keeps it, `NextInv`,
`InvAlways`, and then the theorems. Before it was proved, each `Inv` (but that of
`WfTimer`, which has no run) was checked with TLC as an invariant, with the constants
of the run, for `RxReorder` with four other ranges and windows, and for `ApSta` with a
second start.

| module | theorem | property |
|---|---|---|
| `UtilityProofs` | `MessagesHaveOneOwner`, `SeenMessagesWait`, `PendingMostUrgentFirst`, `PendingKeepsOrder`, `QueueImplementsPrio`; `TypeCorrect` | `Ownership`, `SeenStaysPending`, `MostUrgentFirst`, `OrderIsStable`, `ImplementsPrio` |
| `UtilityProofs` | `WordsStandForInstants`, `TimersExpireWhenDue`, of `WfTimer` | |
| `ScanProofs` | `ScanCleanEnd`, `ScanMessagesAccounted`, `ScanUnderLock`, `ScanRequestKept`, `ScanImplementsProcedure`; `ScanTypeCorrect` | `CleanEnd`, `MessagesAccounted`, `ChipScansUnderLock`, `RequestKeptUnderLock`, `ImplementsProcedure` |
| `AuthStaProofs` | `AuthCleanEnd`, `AuthMessagesAccounted`, `AuthFreshMessages`, `AuthDoneMeansAccepted`, `AuthImplementsProcedure` | `CleanEnd`, `MessagesAccounted`, `FreshMessages`, `DoneMeansAccepted`, `ImplementsProcedure` |
| `AssocStaProofs` | `AssocCleanEnd`, `AssocMessagesAccounted`, `AssocFreshMessages`, `AssocDoneMeansAccepted`, `AssocImplementsProcedure` | the same five |
| `MlmeProofs` | `MlmeMessagesAccounted`, `MlmeIdleIsClean`, `MlmeConnectFlagIsTrue`, `MlmeScanIsReported`; `MlmeTypeCorrect` | `MessagesAccounted`, `IdleIsClean`, `ConnectFlagIsTrue`, `ScanIsReported` |
| `RxReorderProofs` | `RxHeldInWindow`, `RxPoolSuffices`, `RxDeliveredInOrder`, `RxDropIsJustified` | `HeldInWindow`, `PoolSuffices`, `DeliveredInOrder`, `DropIsJustified` |
| `ApStaProofs` | `ApFrameworkAgrees`, `ApMessagesAccounted` | `FrameworkAgrees`, `MessagesAccounted` |

### The queue

`WfMsgLemmas` says what the operators do, for every pool and every assignment of
tags (`TagAssumption`): `InsertAtProperties`, `RemoveAtProperties`,
`UnlinkProperties` (removal from a list without repetitions), `PushPosProperties`
and `PushHeadPosProperties` (the position exists, by `LeastNat`), `InsertSorted`,
`PushProperties`, `PushHeadProperties`, `EndOfDomProperties`,
`FirstFreeProperties`, `DelProperties`; `TakeProperties`, `PutProperties` and
`HeadProperties` are the same for a queue that is never pushed at the head, as
those of the components are; `UnlinkOnce` and `PushOnce` for a list in which only
some of the messages are known to be linked once (`OnceIn`); `PushKeepsOrder` and
`UnlinkKeepsOrder` say that the messages in both lists have the same order in both
(`SameOrder`).

The lists need an induction over their length, which is `ListInduction`, by a least
counterexample (`LeastNat`). With it `SelectedFcn` and `SelectProperties` say what
`Select` gives, and `SelectAppend` and `SelectConcat` how it commutes with lists put
together; `InsertSelect` and `UnlinkSelect` are what a push and a removal do to the
selection of one class.

`UtilityProofs` proves for every set of senders (`ThreadAssumption`), with all
operations of the queue, `Inv == TypeOK /\ OneOwner /\ SeenStaysPending /\
PendSorted`, where `PendSorted` says that `pend` is sorted by domain, and by key
but for the headed messages. No part is inductive alone: that `Unlink` really
removes a message needs `LinkedOnce`; that a push keeps it needs that what a thread
holds is not pending; that `DelSeen` does not put a held message into the free list
needs `SeenStaysPending`. The position `PushPos` exists in any list, also in one
that `wf_msg_push_head` left unsorted; that nothing but a headed message stands
before a more urgent one after the push needs the same before it, and that the two
are of one domain.

`QueueImplementsPrio` follows the refinement step by step. The line of a class is
the selection of its messages from `pend`. A push inserts the message behind all of
its class, as `pend` is sorted while nothing was pushed at the head, so it is an
`Append` to the line of its class and leaves the others alone; a pop takes the first
message of the most urgent line that is not empty, in the whole queue or in a domain
(`EndOfDomPlace`); a deletion of a message that was only looked at is a `Withdraw`
from its line; everything else is a stutter.

### The timers

`UtilityProofs` proves of `WfTimer`, at the width of the code:

* `WordsStandForInstants`: `Spec => []Inv`, with `Inv == TypeOK /\ Stands`. `Stands`
  says that each word is its instant modulo 2^32; it is inductive because
  addition and subtraction commute with the wrap (`WrapFacts`).
* `TimersExpireWhenDue`: `Spec => [](ExpiresWhenDue /\ ElapsedIsTrue)`. If somebody
  looks at the timer within 2^31 ticks of its instant (`LooksInTime`), it is
  expired exactly after it. The protothreads look every millisecond; only a timer
  with an interval of 2^31 ticks or more, or one that is looked at again after
  weeks, is outside. `LooksInTime` is also where `wf_timer_reset` stays correct
  although it adds to an instant in the past.

### Scan, authentication, association

For any number of stopping threads (`Scan`, `AssocSta`), of channels, probes, tries
and sessions, and any set of access points. The invariants have the same parts:

* where each message is (`Places`, `Homes`), which is `MessagesAccounted` with what
  makes it inductive: no list has a message twice, and at most one thread is about
  to push the ABORT;
* what the protothread has at each of its points (`Control`): the hardware lock,
  `brun`, and where START is. That `wf_msg_new` finds START free when the next
  session begins, and that the loop at `getmsg` ends with it, are here;
* that the queue is sorted, so that START, the least urgent message, comes out
  after everything older: the reason for `FreshMessages`;
* bounds of counters: `Counters` of `Scan` (the channel index is in range in every
  step that uses it), and for the frames under way that there are never more
  answers than requests sent so far (`Sent`);
* `ChipHome` of `Scan`: what the chip is set to while no scan has it, and that a
  setting that is not normal then is one in `left`. The recovery needs it: what it
  finds changed it restores, unless the command fails, in which case it is in `left`;
* `Answers` of `AssocSta`: a fresh message that carries a success was pushed since
  the start (`accepted`), so that with `FreshMessages` the success a running
  association reads from its queue is one of its own time; and `curNet` names this
  session only once it has ended with done.

`AuthDoneMeansAccepted` needs more. An access point that refuses open system makes
the station go on with shared key, and a second refusal makes it go back; a
challenge that then arrives would count as the success of open system. `Counted`
counts the answers of either kind that are under way or stored: in the first
session, while shared key is tried, fewer refusals can still come than tries were
used, so that with three tries (`AUTH_REQ_RESEND_TIMES`) the station that has come
back to open system has none left. The theorem has the hypothesis `ResendTimes <= 3`
for this reason, and it is tight: with four TLC finds a station that takes a
challenge for a success. The other theorems about `AuthSta` hold for any number.

`ScanImplementsProcedure`, `AuthImplementsProcedure` and `AssocImplementsProcedure`
map every step to a step of `Procedure` or to a stutter. `wf_scan_start` and its
likes are `Begin`, `TakeHwLock` is `Enter`, the label `exit` (`End`, in `Scan` the
action `Free`) is `Finish`, and the two steps of the other interface are its own.
What has to be shown is that nothing else is more than a stutter. `Control` is needed
twice: the lock given back at the end is the procedure's own, and the loop at
`getmsg` never finds the queue of a scan empty, which would be a return without an
outcome. Replacing `TakeHwLock` by one that does not test the lock, or the end of the
tries by one that stores no result, makes the proofs fail at these steps.

### The MLME

For any pool of messages, any callers with any repertoire of calls and any number
of them. `Inv == TypeOK /\ Places /\ Hands /\ Control`: every message is in some
place, and every one but the connect requests in one (`Plain`); a caller that is to
push or delete a message has one; and at each point of `mlme_core_thrd` the three
pointers, the `connect` flag, the `wdn` and what the framework was told are those
of that point. The connect requests are left out of the second part because
`wf_mlme_conn_start` may delete one while the MLME thread takes it
(`mlme_conn_race`); that this does no harm to any other message is part of what is
proved.

`MlmeScanIsReported` has the hypothesis `NoDisable`: no caller's repertoire has the
call that takes the interface down, as in the run. Without it the property is not
true: a scan refused while the interface is down is not reported, and if the
interface is up again by then, its request is deleted all the same. The invariant
`UpInv` for it adds that the interface stays up and that a scan that has ended was
reported.

### The reorder window

For any even range of sequence numbers, any window of less than half of it, any
pool of at least the window's size and any numbers of frames, connections and
agreements (`WindowAssumption`; in the code 4096, 64 and 64).

The lemmas go from the wrapped numbers to ordinary ones. `ProductBound`,
`ModUnique` and `ModAdd` are the arithmetic of remainders; `Off(n, i)` is how far
frame `n` lies ahead of the number `i`, and `SnLess`, `Chk` and `Place` are
comparisons of `Off` (`SnAhead`, `SnForward`, `ChkValue`, `PlaceProperties`). `Upload` is built on a
recursive function; that the function exists and what its values are is
`ExpectedFcn`, by a least counterexample. `UploadShape`, `UploadHeld` and
`UploadTrue` say what goes up and what stays. `InOrderLength` is the pigeonhole
argument of `PoolSuffices`: frames sorted by different numbers in `1 .. WSize - 1`
are fewer than `WSize`.

`Inv == PoolSuffices /\ HeldInWindow /\ Bounds /\ Agreed /\ InStep`. `HeldInWindow`
alone is inductive only together with the accounting of the nodes (a frame that
finds no node leaves the window locked). The order of delivery is about true
numbers: `InStep` says that, unless a frame bypassed the window, there is a frame
number `T` for which `indicate_seq` stands (`Fits`): `T` is later than everything
that was delivered, at most one later than all that was sent, and the held frames are as far
from `T` as their wrapped numbers are from `indicate_seq`. With it a frame that
`Chk` takes for an old one is really old, although the comparison is that of
numbers modulo `SnMod`. `Bounds` and `Agreed` are what is known of the frames on
their way and of the agreement.

### The access point

For any number of stations, entries and messages, any assignment of the messages to
the pools, any security settings and any bounds (`ApAssumption`).

The first lemmas say which elements a list has and that it has none twice, after
each of the operations the table and the pools are built with (`AppendList`,
`ConcatList`, `TailList`, `ReverseList`, `SelectList`, `SetToList`, and `ListLength`
for the number of entries). From there on only "is in the list" is used.

`Inv == Types /\ Entries /\ Finders /\ Control /\ Request /\ Told /\ Messages`.
`Told` is `FrameworkAgrees` at every moment, not only when the AP thread polls, and
`Messages` the accounting; both speak of the entries whose queue will be read or
cleared again (`Served`), to which one between the two halves of `clearup` does not
belong. `Inv` itself has no exception for `Torn`: after an overlap the receive thread
and the removing thread take no further step on the table in the model, which is why
the properties, that claim nothing then, have the exception. Neither part is
inductive alone:

* `Entries`: a station has one entry at most, a free entry and one that is being set
  up are at the start of authentication. Without it the end of one connection could
  be that of two;
* `Finders`: what the receive thread and the framework found out before another
  thread moved on. The receive thread adds an entry only if there is still none,
  because it alone adds them; what it loads into a linked entry is a frame of the
  station of that entry, because an entry is given to another station only by the
  receive thread itself;
* `Control`: where a protothread waits says what state the station has, except for
  the one whose association is under way. `MaintEnd` sets the state to
  deauthenticated and `AssocRefuse` to associating before `clearup` looks at it:
  neither changes whether it counts as established;
* `Request`: an association request in the queue of an entry is from its station,
  and so is the one that was freed and not yet reported, while it is in the pool.
  The framework's message carries no station, but is never taken for a request.

`LoadMsg`, `FreedMsg`, `ClearedQueue` and `RemovedFacts` are what the shared
operations do; `ClearupInv` is used for the seven ways a station is dropped. The
proof fails where it should: in `ClearupInv` with a `clearup` that reports only
stations in the state `unblock`, in `DisReassocInv` when the end of the old
connection is not reported.

### Only model-checked

* All liveness properties (`ScanEnds`, `AuthEnds`, `AssocEnds`, `DisconnectHappens`,
  `AbortEndsAttempt`, `AbortIsHeard`, `HeldFramesLeave`, `EntryResolves`): fairness and
  ENABLED are beyond the prover.
* The four disagreements of section 6, which are counterexamples.

## 6. Where the code and its comments disagree

1. `scan_result`: the result of a stopped or failed scan is lost when the receive
   thread holds `req_lock` at its end (`scan.c:765`): a local of a protothread.
2. `auth_reject`: a rejected seq 3 leaves `reason` unassigned (`auth.c:706`,
   `auth.c:719`): the limit is overstepped by one and tested by equality.
3. `mlme_conn_race`: `wf_mlme_conn_start` deletes a request the MLME thread is
   working on (`mlme.c:1734`).
4. `ap_idle`: a busy station is disconnected for being idle (`ap.c:354`): its idle
   seconds are added up and never reset.

## 7. Seen while modelling, without a run of its own

Scan, authentication, association:

* `wf_scan_filter` may read a NULL `preq` (`scan.c:448`): `brun` is tested before
  the lock is taken, not after. `ScanEnds` allows for it.
* A failed `scan_setting` or `scan_setting_recover` leaves the settings of a scan
  in the chip until another scan recovers (`scan.c:102`, `scan.c:244`), and a
  channel that was not set back becomes the home channel of the next scan
  (`scan.c:203`).
* An answer for shared key without a challenge text leaks its message
  (`auth.c:643`); `MessagesAccounted` of `AuthSta` is stated for the others.
* Late refusals of an earlier authentication can make a shared key challenge pass
  for an open system success (`auth.c:602`: only the sequence number is compared);
  `DoneMeansAccepted` of `AuthSta` is about the first authentication.

MLME:

* `wf_mlme_abort` may wait for ever (`mlme.c:2092`): its flag is wiped out when the
  thread begins a round (`mlme.c:1445`), or the station becomes connected and does
  not look at it (`mlme.c:1263`).
* `abort_thrd_finished` is never reset (`mlme.c:1227`): a second `wf_mlme_abort`
  does not wait.
* A SCAN that arrives while the station connects is dropped unreported
  (`mlme.c:379`, `431`, `486`); `ScanIsReported` is about those taken up.
* A CONN that waits behind another message is not replaced by the next one
  (`mlme.c:1732`): both are carried out. While scanning a more urgent message
  hides a SCAN_ABORT (`mlme.c:187`), as only the head is looked at.
* `wf_mlme_scan_abort` and `wf_mlme_conn_abort` read `pscan_msg` and `pconn_msg`
  twice while the MLME thread may reset them (`mlme.c:1635`, `1802`).
* `core_conn_maintain_ba_req_thrd` would leave with the hardware lock held when
  there is no wdn (`mlme.c:735`), but it is not called then.

Reordering and block ack:

* `wf_rx_ba_reinit` frees a held frame only if it is NULL and frees the nodes
  (`rx.c:2103`, also `2025`): frames leak, and the pool shrinks until the receive
  thread waits for ever with the lock held (`rx.c:1837`). A node that could not be
  allocated (`rx.c:1663`) has the same effect from the start.
* A block ack response that cannot be sent disables an agreement in force
  (`mlme.c:780`), and a connection begins with the window of the last one
  (`mlme.c:516`): frames then bypass a window that keeps its expected number.
  `DeliveredInOrder` and `DropIsJustified` exclude both.
* The receive thread tests `ba_ctl` and uses it later while the MLME thread resets
  it (`src/trunk_driver/os/linux/rx_linux.c:554`, `mlme.c:717`).
* The starting sequence number of an agreement is ignored; the timeout of the
  window comes from a field that is never set (`mlme.c:787`).

Access point:

* The table has no lock. An entry that is added (`wdn.c:248`) while another one is
  removed (`wdn.c:281`) destroys its lists, and a lookup (`wdn.c:188`) that meets an
  entry while it moves from one list to the other need not end.
* An entry is linked before its queue is initialised (`auth.c:192`). Polling it is
  harmless; `wf_ap_remove_sta` of such an entry is not (`ap.c:1844`).
* A message that is loaded into an entry whose queue the AP thread has cleared
  (`ap.c:432`) or which it has removed is lost to its pool (`ap.c:99`); a removal may
  land in an entry that was given to another station (`ap.c:1838`).
* Repeated authentication frames hide that the timer has expired (`auth.c:314`): a
  station that sends them without end keeps its entry.
* `wf_ap_work_stop` deauthenticates the stations and tells the framework nothing
  (`ap.c:258-312`).
* The association request is freed before it is reported (`assoc.c:734`, `744`).
* An entry whose first frame finds no free message waits without a timer
  (`auth.c:206`).
* The status never goes back to standby, as the broadcast entry stays in the table
  (`ap.c:436-440`).
* A new authentication frame on an established connection ends it and is consumed
  with it (`ap.c:364`): the station has to send again.
* `wf_timer_reset` catches up second by second after a stall, so several idle
  seconds may be counted at once (`ap.c:343`).
* `generate_challenge_text` fills only every other word (`auth.c:216-224`).

Elsewhere: `wf_io_write_cmd_by_mailbox` repeats a command that was not
acknowledged from a pointer the first try has advanced (`nic_io.c:789`);
`wf_msg_free` leaks what a thread holds at that moment (`utility/wf_msg.c:262`).

## 8. Not modelled, and why

Contents of frames, probe requests and elements, the list of found networks and
ciphers (bytes; no property here tells them apart). Commands to the chip (I/O;
done or failed). Suspend, surprise removal and termination of the components.
Power save, P2P, ad hoc and the station's own block ack requests in the MLME.
Beacons, keys and the broadcast entry of an access point, and what its threads do
after an addition to the table overlapped a removal: the corrupted lists have no
meaning the properties could use. The queue of the reorder thread (compiled
out), DELBA (only logged), defragmentation. The second, unlocked read of
`pscan_msg` and `pconn_msg` in the abort functions. Time: a timeout may happen at
any moment, which includes every real timing. RT-Thread and its packages, the
Windows port, lwIP, mbedTLS and file systems, which are most of the repository's
lines, are third-party code or glue without logic of this driver.

## 9. Plan

In this order, what decides most about correct operation first.

1. Done: the queue with its proofs, scan, authentication, association, MLME,
   reordering with the block ack answers, access point, timers with their proofs.
2. `MlmeConn`: `Mlme` composed with three instances of `Procedure`, which `Scan`,
   `AuthSta` and `AssocSta` implement.
3. `WlanMgmt`: the list of networks with ageing; then power save and the transmit
   path's flow control.
4. Proofs. Done: all safety properties the runs check, the refinements
   `ImplementsPrio` and `ImplementsProcedure` among them.
