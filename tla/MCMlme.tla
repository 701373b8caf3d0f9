------------------------------- MODULE MCMlme -------------------------------
(* Pools and callers for the model checking of Mlme *)
EXTENDS Mlme

\* The pool of the driver, with one message where it has two that only repeat
\* each other.
SmallPool == [k \in Kind |-> IF k \in {"conn", "conn_abort"} THEN 2 ELSE 1]

\* The framework and the receive thread
Users == {"user", "rx"}
UserOps == [c \in Users |->
    IF c = "rx" THEN {"scan_rsp", "deauth"}
    ELSE {"scan", "scan_abort", "conn", "conn_abort", "deassoc"}]
DownOps == [c \in Users |->
    IF c = "rx" THEN {"scan_rsp"}
    ELSE {"scan", "conn", "disable", "enable"}]

\* One caller
User == {"user"}
ConnOps == [c \in User |-> {"conn"}]
=============================================================================
