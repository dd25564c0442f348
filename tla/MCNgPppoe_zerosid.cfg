SPECIFICATION Spec
CONSTANTS
    s1 = s1  s2 = s2  s3 = s3
    NULL = NULL
    Sess <- ClientSess
    Uniq <- MCUniq
    Name <- MCName
    Addr <- MCAddr
    Broadcast = "bcast"
    NoMac = "nomac"
    Macs = {"own"}
    Modes = {"standard", "3Com-aDSL"}
    AuxHooks = {"ethernet"}
    Requests <- ClientRequests
    Frames <- ZeroSidInput
    MaxSid = 3
    InitialTimeout = 1
    OfferTimeout = 2
    TimeoutLimit = 4
SYMMETRY ClientSymmetry
VIEW View
INVARIANT NoDanglingLinks
