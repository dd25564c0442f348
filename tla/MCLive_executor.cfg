SPECIFICATION LiveSpec
CONSTANTS
    NULL = NULL
    s1 = s1  s2 = s2  s3 = s3
    t1 = t1  t2 = t2  t3 = t3
    MaxWaiting = 5
    Queue = {q1, q2}  Cell = {c1, c2, c3}  Value = {1, 2}
    Types = {"SRV_NAME", "HOST_UNIQ", "RELAY_SID", "EOL"}
    MaxTags = 3  Lens = {0, 3}  Came = {6, 12}
    Header = 1  NUMTAGS = 5  Room = 13
    AcName = 1  Service = 1
CHECK_DEADLOCK FALSE
INVARIANT ExecutorReturns
