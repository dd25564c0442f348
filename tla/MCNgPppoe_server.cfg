SPECIFICATION Spec
CONSTANTS
    s1 = s1  s2 = s2  s3 = s3
    NULL = NULL
    Sess <- MCSess
    Uniq <- MCUniq
    Name <- MCName
    Addr <- MCAddr
    Broadcast = "bcast"
    NoMac = "nomac"
    Macs = {}
    Modes = {}
    AuxHooks = {"ethernet"}
    Requests <- ServerRequests
    Frames <- ServerInput
    MaxSid = 3
    InitialTimeout = 1
    OfferTimeout = 2
    TimeoutLimit = 2
SYMMETRY Symmetry
VIEW View
INVARIANTS IndInv Linked PacketFollowsState IdsDistinct OneListenerPerService
PROPERTIES SentForSession
