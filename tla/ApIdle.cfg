SPECIFICATION Spec
CONSTANTS
    u1 = u1  d1 = d1  a1 = a1  i1 = i1
    Msg <- MsgDef
    TagOf <- TagDef
    Sta = {s1}
    Node = {n1}
    None = None
    Kinds = {"open1", "assoc"}
    Loads = {"deauth"}
    Sec = {"open"}
    IdleMax = 2
    MaxInput = 4
    MaxStart = 1
PROPERTIES IdleMeansIdle
CHECK_DEADLOCK FALSE
