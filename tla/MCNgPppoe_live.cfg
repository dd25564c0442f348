SPECIFICATION FairSpec
CONSTANTS
    s1 = s1  s2 = s2  s3 = s3
    NULL = NULL
    Sess <- ClientSess
    Uniq <- MCUniq
    Name <- MCName
    Addr <- MCAddr
    Broadcast = "bcast"
    NoMac = "nomac"
    Macs = {}
    Modes = {}
    AuxHooks = {"ethernet"}
    Requests <- SmallRequests
    Frames <- SmallInput
    MaxSid = 3
    InitialTimeout = 1
    OfferTimeout = 2
    TimeoutLimit = 4
PROPERTIES NegotiationEnds KeepsTrying
