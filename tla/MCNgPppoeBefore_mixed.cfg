SPECIFICATION Spec
CONSTANTS
    s1 = s1  s2 = s2  s3 = s3
    NULL = NULL
    Sess <- TwoSess
    Uniq <- TwoUniq
    Name <- MCName
    Addr <- MCAddr
    Broadcast = "bcast"
    NoMac = "nomac"
    Macs = {"own"}
    Modes = {"D-Link"}
    AuxHooks = {"ethernet", "debug"}
    Requests <- MixedRequests
    Frames <- MixedInput
    MaxSid = 3
    InitialTimeout = 1
    OfferTimeout = 2
    TimeoutLimit = 2
SYMMETRY TwoSymmetry
VIEW View
INVARIANTS Invariant
PROPERTIES KeepsPromises PadiToListeners
