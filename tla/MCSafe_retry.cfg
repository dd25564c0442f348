SPECIFICATION SafeSpec
CONSTANTS
    NULL = NULL
    x1 = x1  x2 = x2  x3 = x3  y1 = y1  y2 = y2
    Reader = {x1, x2, x3}
    Sess = {x1, x2, x3}
    Bucket = {0, 1}
    SessHash <- MCSessHash
    Heads = {y1, y2}  Entry = {x1, x2, x3}  Walker = {"r"}
    TailqHeads = {y1, y2}  Elem = {x1, x2, x3}
    List = {y1, y2}  Nodes = 4  Element = {1, 2}
    Counts = {y1, y2}  Refs = {1, 2, 3}
    Holder <- MCHolder  Number <- MCNumber
    Thread = {"t", "u"}  reference_history = 1  Width = 3
    MaxSid = 4
    Overlap = TRUE
SYMMETRY Symmetry
CHECK_DEADLOCK FALSE
INVARIANT PadsResent
