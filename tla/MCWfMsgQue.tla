---------------------------- MODULE MCWfMsgQue -----------------------------
(* A pool of four messages over two domains and two priorities, two of them  *)
(* of the same class.                                                        *)
EXTENDS WfMsgQue

CONSTANTS a1, a2, b, c

MsgDef == {a1, a2, b, c}

TagDef ==
    [m \in MsgDef |->
        CASE m = a1 -> TagSet(0, 1, 0)
          [] m = a2 -> TagSet(0, 1, 1)
          [] m = b  -> TagSet(0, 0, 3)
          [] m = c  -> TagSet(1, 0, 0)]
=============================================================================
