------------------------------ MODULE WfTimer ------------------------------
(***************************************************************************)
(* A software timer (nic/utility/wf_timer.h).  Every wait of the           *)
(* protothreads ends by one.                                               *)
(*                                                                         *)
(* The operating system counts the time in ticks without end; a timer      *)
(* keeps its instants in 32-bit words, and whether it has expired is the   *)
(* sign of a 32-bit difference.  The other modules let a wait end at any   *)
(* moment; here is what the arithmetic makes of it.                        *)
(***************************************************************************)
EXTENDS Integers

Word == 65536 * 65536       \* 2^32, the values of wf_u32
Half == 32768 * 65536       \* 2^31, the values of wf_s32 that are not negative

VARIABLES
    now,                        \* wf_os_api_timestamp(), 64 bits wide
    start, expire, interval,    \* wf_timer_t
    begin, due                  \* the instants that start and expire stand for

vars == << now, start, expire, interval, begin, due >>

\* (wf_u32) of an integer, and (wf_s32) of a wf_u32
U32(x) == x % Word
S32(x) == IF x < Half THEN x ELSE x - Word

TypeOK ==
    /\ now \in Nat /\ begin \in Nat /\ due \in Nat
    /\ start \in 0 .. Word - 1 /\ expire \in 0 .. Word - 1 /\ interval \in 0 .. Word - 1

(* A timer of all zero bytes, as in a freshly cleared structure *)
Init ==
    /\ now \in Nat
    /\ start = 0 /\ expire = 0 /\ interval = 0
    /\ begin = 0 /\ due = 0

Tick(d) ==
    /\ now' = now + d
    /\ UNCHANGED << start, expire, interval, begin, due >>

\* wf_timer_set; i is the interval in ticks.
Set(i) ==
    /\ start' = U32(now) /\ begin' = now
    /\ interval' = i
    /\ expire' = U32(start' + i) /\ due' = now + i
    /\ UNCHANGED now

\* wf_timer_reset: the next period begins where the last one ended.
Reset ==
    /\ start' = expire /\ begin' = due
    /\ expire' = U32(expire + interval) /\ due' = due + interval
    /\ UNCHANGED << now, interval >>

\* wf_timer_restart: the next period begins now.
Restart ==
    /\ start' = U32(now) /\ begin' = now
    /\ expire' = U32(start' + interval) /\ due' = now + interval
    /\ UNCHANGED << now, interval >>

\* wf_timer_mod: another interval from the same start.
Modify(i) ==
    /\ interval' = i
    /\ expire' = U32(start + i) /\ due' = begin + i
    /\ UNCHANGED << now, start, begin >>

Next ==
    \/ \E d \in Nat : Tick(d)
    \/ \E i \in 0 .. Word - 1 : Set(i) \/ Modify(i)
    \/ Reset \/ Restart

Spec == Init /\ [][Next]_vars

\* wf_timer_expired, wf_timer_remaining and wf_timer_elapsed (in ticks)
Remaining == S32(U32(expire - now))
Expired == Remaining < 0
Elapsed == U32(U32(now) - start)

-----------------------------------------------------------------------------
(* As long as somebody looks at the timer less than half the range of the    *)
(* words before and after it is due, wf_timer_expired says that it has       *)
(* expired exactly from the tick after that instant on and                   *)
(* wf_timer_remaining tells the ticks that are left, whatever was set, reset *)
(* or modified before and however often the words have wrapped.              *)
LooksInTime == due - now < Half /\ now - due <= Half

ExpiresWhenDue == LooksInTime => Remaining = due - now /\ (Expired <=> now > due)

(* wf_timer_elapsed is the time since the start for one full range.          *)
ElapsedIsTrue == 0 <= now - begin /\ now - begin < Word => Elapsed = now - begin

\* What makes both inductive: the words stand for the instants.
Stands == start = U32(begin) /\ expire = U32(due)
Inv == TypeOK /\ Stands
=============================================================================
