------------------------------ MODULE PppoeSid ------------------------------
(***************************************************************************)
(* How ng_pppoe.c hands out Session_IDs when several PADR frames are       *)
(* processed at once.  Data items are readers of the node: netgraph runs   *)
(* them concurrently, on several processors, while control messages, hook  *)
(* removals and timeouts are writers, which run alone.  The readers share  *)
(* the static counter pppoe_sid, without a lock, and the hash buckets,     *)
(* each under its mutex.  A step here is one access to what is shared.     *)
(* An operator marked "Mutant" is a slip the properties must notice.       *)
(***************************************************************************)
EXTENDS Lists

CONSTANTS
    Reader,     \* the processors that may work on a PADR
    Sess,       \* the sessions of the node
    Bucket,     \* privp->sesshash
    SessHash,   \* SESSHASH, from ids to buckets
    MaxSid,     \* 0xffff: reserved, and the largest value of the counter
    Overlap     \* may two PADRs of one session be in work at once?

ASSUME SidAssumption ==
    /\ MaxSid \in Nat /\ MaxSid >= 2
    /\ SessHash \in [0..MaxSid -> Bucket]
    /\ Overlap \in BOOLEAN
    /\ NULL \notin Reader /\ NULL \notin Sess

VARIABLES
    pppoe_sid,   \* the counter, a uint16_t
    mtx,         \* the reader that holds the mutex of each bucket, or NULL
    bucket,      \* the sessions linked in each bucket
    Session_ID,  \* of each session
    pkt_sid,     \* the id in the packet each session keeps for resending
    state,       \* of each session
    pads,        \* the ids in the PADS frames sent for each session so far
    pc,          \* where each reader is
    sp,          \* the session its AC-Cookie named
    val          \* its local variable

vars == <<pppoe_sid, mtx, bucket, Session_ID, pkt_sid, state, pads, pc, sp, val>>

PC == {"idle", "check", "load", "store", "reset", "lock", "scan", "insert",
       "unlock", "label", "send"}

Hashed == UNION {bucket[b] : b \in Bucket}

Init ==
    /\ pppoe_sid = 1
    /\ mtx = [b \in Bucket |-> NULL] /\ bucket = [b \in Bucket |-> {}]
    /\ Session_ID = [s \in Sess |-> 0] /\ pkt_sid = [s \in Sess |-> 0]
    /\ state = [s \in Sess |-> "SNONE"] /\ pads = [s \in Sess |-> {}]
    /\ pc = [r \in Reader |-> "idle"]
    /\ sp = [r \in Reader |-> NULL] /\ val = [r \in Reader |-> 0]

----------------------------------------------------------------------------
GoTo(r, from, to) == pc[r] = from /\ pc' = [pc EXCEPT ![r] = to]

(* A PADR arrives for a session that offered, or retries one.              *)
Padr(r, s) ==
    /\ state[s] \in {"SOFFER", "NEWCONNECTED"}
    /\ Overlap \/ \A q \in Reader : sp[q] # s
    /\ GoTo(r, "idle", "check")
    /\ state' = [state EXCEPT ![s] = "SOFFER"]
    /\ sp' = [sp EXCEPT ![r] = s]
    /\ UNCHANGED <<pppoe_sid, mtx, bucket, Session_ID, pkt_sid, pads, val>>

(* Mutant: every PADR gets a new id.                                         *)
CheckId_Never(r) ==
    /\ GoTo(r, "check", "load")
    /\ UNCHANGED <<pppoe_sid, mtx, bucket, Session_ID, pkt_sid, state, pads, sp, val>>

CheckId(r) ==
    /\ GoTo(r, "check", IF Session_ID[sp[r]] = 0 THEN "load" ELSE "send")
    /\ UNCHANGED <<pppoe_sid, mtx, bucket, Session_ID, pkt_sid, state, pads, sp, val>>

(* val = pppoe_sid++, a load and a store that others may come between      *)
Load(r) ==
    /\ GoTo(r, "load", "store")
    /\ val' = [val EXCEPT ![r] = pppoe_sid]
    /\ UNCHANGED <<pppoe_sid, mtx, bucket, Session_ID, pkt_sid, state, pads, sp>>

(* Mutant: the reserved id is handed out.                                    *)
Store_Reserved(r) ==
    /\ GoTo(r, "store", IF val[r] = 0 THEN "reset" ELSE "lock")
    /\ pppoe_sid' = (val[r] + 1) % (MaxSid + 1)
    /\ UNCHANGED <<mtx, bucket, Session_ID, pkt_sid, state, pads, sp, val>>

Store(r) ==
    /\ GoTo(r, "store", IF val[r] \in {0, MaxSid} THEN "reset" ELSE "lock")
    /\ pppoe_sid' = (val[r] + 1) % (MaxSid + 1)
    /\ UNCHANGED <<mtx, bucket, Session_ID, pkt_sid, state, pads, sp, val>>

(* val = pppoe_sid = 1                                                     *)
Reset(r) ==
    /\ GoTo(r, "reset", "lock")
    /\ pppoe_sid' = 1 /\ val' = [val EXCEPT ![r] = 1]
    /\ UNCHANGED <<mtx, bucket, Session_ID, pkt_sid, state, pads, sp>>

Lock(r) ==
    /\ GoTo(r, "lock", "scan")
    /\ mtx[SessHash[val[r]]] = NULL
    /\ mtx' = [mtx EXCEPT ![SessHash[val[r]]] = r]
    /\ UNCHANGED <<pppoe_sid, bucket, Session_ID, pkt_sid, state, pads, sp, val>>

Scan(r) ==
    /\ GoTo(r, "scan", IF \E t \in bucket[SessHash[val[r]]] : Session_ID[t] = val[r]
                       THEN "unlock" ELSE "insert")
    /\ UNCHANGED <<pppoe_sid, mtx, bucket, Session_ID, pkt_sid, state, pads, sp, val>>

Insert(r) ==
    /\ pc[r] = "insert"
    /\ Session_ID' = [Session_ID EXCEPT ![sp[r]] = val[r]]
    /\ bucket' = [bucket EXCEPT ![SessHash[val[r]]] = @ \cup {sp[r]}]
    /\ mtx' = [mtx EXCEPT ![SessHash[val[r]]] = NULL]
    /\ pc' = [pc EXCEPT ![r] = "label"]
    /\ UNCHANGED <<pppoe_sid, pkt_sid, state, pads, sp, val>>

(* Mutant: the label restart is behind the increment.                        *)
Unlock_SameId(r) ==
    /\ GoTo(r, "unlock", "lock")
    /\ mtx' = [mtx EXCEPT ![SessHash[val[r]]] = NULL]
    /\ UNCHANGED <<pppoe_sid, bucket, Session_ID, pkt_sid, state, pads, sp, val>>

(* goto restart: the id was taken                                          *)
Unlock(r) ==
    /\ GoTo(r, "unlock", "load")
    /\ mtx' = [mtx EXCEPT ![SessHash[val[r]]] = NULL]
    /\ UNCHANGED <<pppoe_sid, bucket, Session_ID, pkt_sid, state, pads, sp, val>>

Label(r) ==
    /\ GoTo(r, "label", "send")
    /\ pkt_sid' = [pkt_sid EXCEPT ![sp[r]] = val[r]]
    /\ UNCHANGED <<pppoe_sid, mtx, bucket, Session_ID, state, pads, sp, val>>

(* The PADS goes out.                                                      *)
SendPads(r) ==
    /\ GoTo(r, "send", "idle")
    /\ state' = [state EXCEPT ![sp[r]] = "NEWCONNECTED"]
    /\ pads' = [pads EXCEPT ![sp[r]] = @ \cup {pkt_sid[sp[r]]}]
    /\ sp' = [sp EXCEPT ![r] = NULL] /\ val' = [val EXCEPT ![r] = 0]
    /\ UNCHANGED <<pppoe_sid, mtx, bucket, Session_ID, pkt_sid>>

----------------------------------------------------------------------------
(* Writers: the session is offered (OFFER and the PADI handed back), and   *)
(* its hook goes (ng_pppoe_disconnect).                                    *)
NoReader == \A r \in Reader : pc[r] = "idle"

Offered(s) ==
    /\ NoReader /\ state[s] = "SNONE"
    /\ state' = [state EXCEPT ![s] = "SOFFER"]
    /\ UNCHANGED <<pppoe_sid, mtx, bucket, Session_ID, pkt_sid, pads, pc, sp, val>>

Removed(s) ==
    /\ NoReader /\ state[s] # "SNONE"
    /\ state' = [state EXCEPT ![s] = "SNONE"]
    /\ bucket' = IF Session_ID[s] = 0 THEN bucket
                 ELSE [bucket EXCEPT ![SessHash[Session_ID[s]]] = @ \ {s}]
    /\ Session_ID' = [Session_ID EXCEPT ![s] = 0]
    /\ pkt_sid' = [pkt_sid EXCEPT ![s] = 0]
    /\ pads' = [pads EXCEPT ![s] = {}]
    /\ UNCHANGED <<pppoe_sid, mtx, pc, sp, val>>

Answer(r) ==
    \/ CheckId(r) \/ Load(r) \/ Store(r) \/ Reset(r) \/ Lock(r) \/ Scan(r)
    \/ Insert(r) \/ Unlock(r) \/ Label(r) \/ SendPads(r)

Next == \/ \E r \in Reader : Answer(r) \/ \E s \in Sess : Padr(r, s)
        \/ \E s \in Sess : Offered(s) \/ Removed(s)

Spec == Init /\ [][Next]_vars

(* A processor goes on with the frame it has in hand.                      *)
FairSpec == Spec /\ \A r \in Reader : WF_vars(Answer(r))

----------------------------------------------------------------------------
(* Every variable holds a value of its kind.                               *)
TypeOK ==
    /\ pppoe_sid \in 0..MaxSid
    /\ mtx \in [Bucket -> Reader \cup {NULL}] /\ bucket \in [Bucket -> SUBSET Sess]
    /\ Session_ID \in [Sess -> 0..(MaxSid - 1)] /\ pkt_sid \in [Sess -> 0..(MaxSid - 1)]
    /\ state \in [Sess -> {"SNONE", "SOFFER", "NEWCONNECTED"}]
    /\ pads \in [Sess -> SUBSET (0..(MaxSid - 1))]
    /\ pc \in [Reader -> PC]
    /\ sp \in [Reader -> Sess \cup {NULL}] /\ val \in [Reader -> 0..MaxSid]

(* Two sessions of the hash never have the same id, although the counter   *)
(* that proposes ids is not atomic (line 507: "Atomicity is not needed     *)
(* here as value will be checked").                                        *)
DistinctIds ==
    \A s, t \in Hashed : Session_ID[s] = Session_ID[t] => s = t

(* A session with an id is linked in the bucket of that id and in no       *)
(* other, so that pppoe_findsession and pppoe_delsession work on it.       *)
FoundById ==
    \A s \in Sess, b \in Bucket :
        s \in bucket[b] <=> Session_ID[s] # 0 /\ SessHash[Session_ID[s]] = b

(* All the PADS frames of a session confirm its one id: a PADR that comes  *)
(* again has "that PADS packet" resent (lines 1496-1507).                  *)
PadsResent == \A s \in Sess : pads[s] \subseteq {Session_ID[s]} \ {0}

(* While there are more ids than sessions, every PADR taken up is answered *)
(* and releases the node: "goto restart" (line 526) finds a free id.       *)
PadrAnswered == \A r \in Reader : pc[r] = "check" ~> pc[r] = "idle"

(* The inductive invariant: who holds a mutex, and what a reader that is   *)
(* about to insert its id knows of the bucket and of its session.          *)
Holding == {"scan", "insert", "unlock"}
Allocating == {"load", "store", "reset", "lock"} \cup Holding

ReaderOK(r) ==
    /\ pc[r] = "idle" <=> sp[r] = NULL
    /\ pc[r] \in {"lock", "label"} \cup Holding => val[r] \in 1..(MaxSid - 1)
    /\ pc[r] \in Holding => mtx[SessHash[val[r]]] = r
    /\ pc[r] \in Allocating => Session_ID[sp[r]] = 0 /\ pads[sp[r]] = {}
    /\ pc[r] = "insert" => \A t \in bucket[SessHash[val[r]]] : Session_ID[t] # val[r]
    /\ pc[r] = "label" => Session_ID[sp[r]] = val[r] /\ pads[sp[r]] = {}
    /\ pc[r] = "send" => Session_ID[sp[r]] # 0 /\ pkt_sid[sp[r]] = Session_ID[sp[r]]

PacketOK(s) ==
    /\ pads[s] \subseteq {Session_ID[s]} \ {0}
    /\ pkt_sid[s] # Session_ID[s] => \E r \in Reader : sp[r] = s /\ pc[r] = "label"

IndInv ==
    /\ TypeOK /\ DistinctIds /\ FoundById
    /\ \A q, r \in Reader : sp[q] = sp[r] /\ sp[q] # NULL => q = r
    /\ \A r \in Reader : ReaderOK(r)
    /\ \A s \in Sess : PacketOK(s)

(* Handing out ids concurrently implements handing them out one by one.    *)
Pool == INSTANCE IdPool WITH id <- Session_ID
PoolSpec == Pool!Spec
=============================================================================
