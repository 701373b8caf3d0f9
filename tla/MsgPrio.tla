------------------------------ MODULE MsgPrio ------------------------------
(***************************************************************************)
(* What the message queue promises its clients: one first-in first-out     *)
(* line per urgency class.  A message joins the end of the line of its     *)
(* class; the receiver is given the oldest message of the most urgent      *)
(* class that has one (or, taking from the tail, the youngest of the least *)
(* urgent), possibly restricted to one domain.                             *)
(***************************************************************************)
EXTENDS Integers, SequencesExt, Lists

CONSTANTS
    Msg,
    Class,      \* the classes; a smaller number is more urgent
    ClassOf,    \* ClassOf[m] is the class of message m
    Domain      \* the sets of classes a receiver may restrict itself to

VARIABLES
    line,       \* line[c] is the sequence of the waiting messages of class c
    got         \* the messages the receiver has been given and still uses

vars == << line, got >>

Waiting == UNION { ToSet(line[c]) : c \in Class }
Busy(D) == { c \in D : line[c] # << >> }

Init ==
    /\ line = [c \in Class |-> << >>]
    /\ got = {}

Arrive(m) ==
    /\ m \notin Waiting \cup got
    /\ line' = [line EXCEPT ![ClassOf[m]] = Append(@, m)]
    /\ UNCHANGED got

TakeFirst(D) ==
    \E c \in Busy(D) :
        /\ \A d \in Busy(D) : c <= d
        /\ got' = got \cup {Head(line[c])}
        /\ line' = [line EXCEPT ![c] = Tail(@)]

TakeLast(D) ==
    \E c \in Busy(D) :
        /\ \A d \in Busy(D) : d <= c
        /\ got' = got \cup {Last(line[c])}
        /\ line' = [line EXCEPT ![c] = Front(@)]

\* The receiver gives back what it was given.
Release(m) ==
    /\ m \in got
    /\ got' = got \ {m}
    /\ UNCHANGED line

\* A message is withdrawn while it waits: those behind it move up.
Withdraw(m) ==
    /\ m \in Waiting
    /\ line' = [c \in Class |-> Select(line[c], Msg \ {m})]
    /\ UNCHANGED got

Close ==
    /\ line' = [c \in Class |-> << >>]
    /\ UNCHANGED got

Next ==
    \/ \E m \in Msg : Arrive(m) \/ Withdraw(m) \/ Release(m)
    \/ \E D \in Domain \cup {Class} : TakeFirst(D) \/ TakeLast(D)
    \/ Close

Spec == Init /\ [][Next]_vars
=============================================================================
