------------------------------ MODULE MCApSta ------------------------------
(* Pools with one message each, but for the block ack requests.              *)
EXTENDS ApSta

CONSTANTS u1, d1, a1, i1

MsgDef == {u1, d1, a1, i1}

TagDef ==
    [m \in MsgDef |->
        CASE m = u1 -> "auth"
          [] m = d1 -> "deauth"
          [] m = a1 -> "assoc"
          [] m = i1 -> "disassoc"]
=============================================================================
