SPECIFICATION Spec
CONSTANTS
    a1 = a1  a2 = a2  b = b  c = c
    Msg <- MsgDef
    Tag <- TagDef
    Sender = {s1, s2}
    Receiver = rcv
INVARIANTS Ownership SeenStaysPending MostUrgentFirst
PROPERTIES OrderIsStable ImplementsPrio
CHECK_DEADLOCK FALSE
