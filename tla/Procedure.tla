----------------------------- MODULE Procedure -----------------------------
(***************************************************************************)
(* What a procedure of the station (a scan, an authentication, an          *)
(* association) promises to the MLME thread that runs it and to the other  *)
(* interface of the chip.  It is begun when none is under way, works only  *)
(* after it was given the hardware, which nobody else uses meanwhile, and  *)
(* ends in one step that gives the hardware back and tells one outcome.    *)
(* Until then nothing is told, and afterwards the outcome stays as it is   *)
(* until the next procedure is begun.                                      *)
(***************************************************************************)
CONSTANT Me         \* the name of this interface's procedure

VARIABLES
    phase,          \* "idle", "waiting" for the hardware, or "working"
    hardware,       \* who has the hardware of the chip
    told            \* the outcome of the last procedure, None while one runs

vars == << phase, hardware, told >>

None == "none"
Other == "other"
Outcome == {"done", "abort", "fail"}

Init ==
    /\ phase = "idle" /\ hardware = None /\ told = None

Begin ==
    /\ phase = "idle" /\ phase' = "waiting"
    /\ told' = None
    /\ UNCHANGED hardware

Enter ==
    /\ phase = "waiting" /\ phase' = "working"
    /\ hardware = None /\ hardware' = Me
    /\ UNCHANGED told

Finish ==
    /\ phase = "working" /\ phase' = "idle"
    /\ hardware = Me /\ hardware' = None
    /\ told' \in Outcome

OtherTakes ==
    /\ hardware = None /\ hardware' = Other
    /\ UNCHANGED << phase, told >>

OtherReleases ==
    /\ hardware = Other /\ hardware' = None
    /\ UNCHANGED << phase, told >>

Next == Begin \/ Enter \/ Finish \/ OtherTakes \/ OtherReleases

Spec == Init /\ [][Next]_vars
=============================================================================
