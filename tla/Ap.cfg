SPECIFICATION FairSpec
CONSTANTS
    u1 = u1  d1 = d1  a1 = a1  i1 = i1
    Msg <- MsgDef
    TagOf <- TagDef
    Sta = {s1, s2}
    Node = {n1, n2}
    None = None
    Kinds = {"open1", "shared1", "good3", "assoc", "disassoc"}
    Loads = {"deauth"}
    Sec = {"open", "shared"}
    IdleMax = 0
    MaxInput = 4
    MaxStart = 1
INVARIANTS FrameworkAgrees MessagesAccounted
PROPERTIES EntryResolves
CHECK_DEADLOCK FALSE
