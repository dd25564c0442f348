---------------------------- MODULE PppoeProofs ----------------------------
(* What concurrent readers of the ng_pppoe node and the handlers of single *)
(* frames keep, for any number of readers, sessions, ids and buckets       *)
(* (PppoeSid) and any tags, lengths and room (PppoeTags): ids stay         *)
(* distinct, and a PADO answers with the tags its PADI brought.            *)
EXTENDS PppoeSid, PppoeTags, SequenceTheorems, WellFoundedInduction, TLAPS

(* A reader that only moves on, or changes its local variable, disturbs no *)
(* other reader.                                                           *)
LEMMA LocalStep ==
    ASSUME IndInv, NEW r \in Reader,
           NEW p \in PC \ {"idle"}, pc[r] \notin {"idle", "label"},
           NEW v \in 0..MaxSid,
           pc' = [pc EXCEPT ![r] = p], val' = [val EXCEPT ![r] = v],
           pppoe_sid' \in 0..MaxSid,
           UNCHANGED <<bucket, Session_ID, pkt_sid, state, pads, sp>>,
           mtx' \in [Bucket -> Reader \cup {NULL}],
           \A b \in Bucket : mtx[b] \notin {r, NULL} => mtx'[b] = mtx[b],
           ReaderOK(r)'
    PROVE  IndInv'
<1>1. TypeOK'  BY DEF IndInv, TypeOK
<1>2. DistinctIds' /\ FoundById'
  BY DEF IndInv, DistinctIds, FoundById, Hashed
<1>3. \A q \in Reader \ {r} : pc'[q] = pc[q] /\ val'[q] = val[q]
  BY DEF IndInv, TypeOK
<1>4. ASSUME NEW q \in Reader, q # r  PROVE ReaderOK(q)'
  <2>1. ReaderOK(q) /\ pc'[q] = pc[q] /\ val'[q] = val[q]  BY <1>3, <1>4 DEF IndInv
  <2>2. pc[q] \in Holding => mtx'[SessHash[val[q]]] = q
    BY <1>4, <2>1, SidAssumption DEF ReaderOK, IndInv, TypeOK, Holding
  <2> QED BY <2>1, <2>2 DEF ReaderOK
<1>5. \A s \in Sess : PacketOK(s)'
  <2>1. \A q \in Reader : pc[q] = "label" => pc'[q] = "label"  BY <1>3
  <2> QED BY <2>1 DEF IndInv, PacketOK
<1>6. \A q, t \in Reader : sp'[q] = sp'[t] /\ sp'[q] # NULL => q = t
  BY DEF IndInv
<1> QED BY <1>1, <1>2, <1>4, <1>5, <1>6 DEF IndInv

(* The steps of a reader that change nothing shared but the counter and    *)
(* the mutexes.                                                            *)
LEMMA WalkStep ==
    ASSUME IndInv, NEW r \in Reader,
           \/ CheckId(r) \/ Load(r) \/ Store(r) \/ Reset(r)
           \/ Lock(r) \/ Scan(r) \/ Unlock(r)
    PROVE  IndInv'
<1> USE DEF GoTo, PC
<1>1. /\ TypeOK /\ ReaderOK(r) /\ pc \in [Reader -> PC] /\ val \in [Reader -> 0..MaxSid]
      /\ mtx \in [Bucket -> Reader \cup {NULL}] /\ pppoe_sid \in 0..MaxSid
      /\ val[r] \in 0..MaxSid
      /\ \A v \in 0..MaxSid : SessHash[v] \in Bucket
      /\ (pc[r] # "idle" => sp[r] \in Sess)
  BY SidAssumption DEF IndInv, TypeOK, ReaderOK
<1>2. CASE CheckId(r)
  <2>1. /\ pc[r] = "check" /\ UNCHANGED <<pppoe_sid, mtx, bucket, Session_ID, pkt_sid, state, pads, sp, val>>
        /\ pc' = [pc EXCEPT ![r] = IF Session_ID[sp[r]] = 0 THEN "load" ELSE "send"]
    BY <1>2 DEF CheckId
  <2>2. val' = [val EXCEPT ![r] = val[r]]  BY <1>1, <2>1
  <2>3. PacketOK(sp[r])  BY <1>1, <2>1 DEF IndInv
  <2>4. ReaderOK(r)'
    <3>1. CASE Session_ID[sp[r]] = 0
      <4>1. pc'[r] = "load"  BY <1>1, <2>1, <3>1
      <4>2. pads[sp[r]] = {}  BY <2>3, <3>1 DEF PacketOK
      <4> QED BY <1>1, <2>1, <3>1, <4>1, <4>2 DEF ReaderOK, Holding, Allocating
    <3>2. CASE Session_ID[sp[r]] # 0
      <4>1. pc'[r] = "send"  BY <1>1, <2>1, <3>2
      <4>2. pkt_sid[sp[r]] = Session_ID[sp[r]]
        <5>1. \A q \in Reader : sp[q] = sp[r] => q = r  BY <1>1, <2>1, SidAssumption DEF IndInv
        <5> QED BY <2>1, <2>3, <5>1 DEF PacketOK
      <4> QED BY <1>1, <2>1, <3>2, <4>1, <4>2 DEF ReaderOK, Holding, Allocating
    <3> QED BY <3>1, <3>2
  <2> QED BY <1>1, <2>1, <2>2, <2>4, LocalStep
<1>3. CASE Load(r)
  <2>1. ReaderOK(r)'  BY <1>1, <1>3 DEF Load, ReaderOK, Holding, Allocating
  <2> QED BY <1>1, <1>3, <2>1, LocalStep DEF Load
<1>4. CASE Store(r)
  <2>1. /\ pc[r] = "store" /\ pppoe_sid' = (val[r] + 1) % (MaxSid + 1)
        /\ pc' = [pc EXCEPT ![r] = IF val[r] \in {0, MaxSid} THEN "reset" ELSE "lock"]
        /\ UNCHANGED <<mtx, bucket, Session_ID, pkt_sid, state, pads, sp, val>>
    BY <1>4 DEF Store
  <2>2. pppoe_sid' \in 0..MaxSid  BY <1>1, <2>1, SidAssumption
  <2>3. val' = [val EXCEPT ![r] = val[r]]  BY <1>1, <2>1
  <2>4. val[r] \notin {0, MaxSid} => val[r] \in 1..(MaxSid - 1)  BY <1>1, SidAssumption
  <2>5. ReaderOK(r)'  BY <1>1, <2>1, <2>4 DEF ReaderOK, Holding, Allocating
  <2> QED BY <1>1, <2>1, <2>2, <2>3, <2>5, LocalStep
<1>5. CASE Reset(r)
  <2>1. 1 \in 1..(MaxSid - 1) /\ 1 \in 0..MaxSid  BY SidAssumption
  <2>2. ReaderOK(r)'  BY <1>1, <1>5, <2>1 DEF Reset, ReaderOK, Holding, Allocating
  <2> QED BY <1>1, <1>5, <2>1, <2>2, LocalStep DEF Reset
<1>6. CASE Lock(r)
  <2>1. /\ pc[r] = "lock" /\ mtx[SessHash[val[r]]] = NULL
        /\ pc' = [pc EXCEPT ![r] = "scan"] /\ mtx' = [mtx EXCEPT ![SessHash[val[r]]] = r]
        /\ UNCHANGED <<pppoe_sid, bucket, Session_ID, pkt_sid, state, pads, sp, val>>
    BY <1>6 DEF Lock
  <2>2. val' = [val EXCEPT ![r] = val[r]]  BY <1>1, <2>1
  <2>3. ReaderOK(r)'  BY <1>1, <2>1 DEF ReaderOK, Holding, Allocating
  <2> QED BY <1>1, <2>1, <2>2, <2>3, LocalStep
<1>7. CASE Scan(r)
  <2>1. /\ pc[r] = "scan"
        /\ pc' = [pc EXCEPT ![r] = IF \E t \in bucket[SessHash[val[r]]] : Session_ID[t] = val[r]
                                   THEN "unlock" ELSE "insert"]
        /\ UNCHANGED <<pppoe_sid, mtx, bucket, Session_ID, pkt_sid, state, pads, sp, val>>
    BY <1>7 DEF Scan
  <2>2. val' = [val EXCEPT ![r] = val[r]]  BY <1>1, <2>1
  <2>3. ReaderOK(r)'  BY <1>1, <2>1 DEF ReaderOK, Holding, Allocating
  <2> QED BY <1>1, <2>1, <2>2, <2>3, LocalStep
<1>8. CASE Unlock(r)
  <2>1. /\ pc[r] = "unlock" /\ mtx[SessHash[val[r]]] = r
        /\ pc' = [pc EXCEPT ![r] = "load"] /\ mtx' = [mtx EXCEPT ![SessHash[val[r]]] = NULL]
        /\ UNCHANGED <<pppoe_sid, bucket, Session_ID, pkt_sid, state, pads, sp, val>>
    BY <1>1, <1>8 DEF Unlock, ReaderOK, Holding
  <2>2. val' = [val EXCEPT ![r] = val[r]]  BY <1>1, <2>1
  <2>3. ReaderOK(r)'  BY <1>1, <2>1 DEF ReaderOK, Holding, Allocating
  <2> QED BY <1>1, <2>1, <2>2, <2>3, LocalStep
<1> QED BY <1>2, <1>3, <1>4, <1>5, <1>6, <1>7, <1>8

(* An id that the scan of its locked bucket did not find is nobody's: the  *)
(* insertion keeps ids distinct, and is one step of the pool.              *)
LEMMA InsertFresh ==
    ASSUME IndInv, NEW r \in Reader, Insert(r)
    PROVE  /\ sp[r] \in Sess /\ Session_ID[sp[r]] = 0 /\ val[r] \in 1..(MaxSid - 1)
           /\ SessHash[val[r]] \in Bucket /\ mtx[SessHash[val[r]]] = r
           /\ pads[sp[r]] = {}
           /\ \A t \in Sess : Session_ID[t] # val[r]
<1>1. /\ ReaderOK(r) /\ pc[r] = "insert" /\ sp[r] \in Sess
      /\ Session_ID[sp[r]] = 0 /\ pads[sp[r]] = {} /\ val[r] \in 1..(MaxSid - 1)
      /\ mtx[SessHash[val[r]]] = r
      /\ \A t \in bucket[SessHash[val[r]]] : Session_ID[t] # val[r]
  BY DEF Insert, IndInv, TypeOK, ReaderOK, Holding, Allocating
<1>2. SessHash[val[r]] \in Bucket /\ val[r] # 0  BY <1>1, SidAssumption
<1>3. \A t \in Sess : Session_ID[t] = val[r] => t \in bucket[SessHash[val[r]]]
  BY <1>2 DEF IndInv, FoundById
<1> QED BY <1>1, <1>2, <1>3

(* A free id is stored and its session linked in the bucket of that id.    *)
LEMMA InsertStep ==
    ASSUME IndInv, NEW r \in Reader, Insert(r)
    PROVE  IndInv'
<1> DEFINE s == sp[r]
           b == SessHash[val[r]]
<1>1. /\ s \in Sess /\ Session_ID[s] = 0 /\ val[r] \in 1..(MaxSid - 1) /\ pads[s] = {}
      /\ b \in Bucket /\ mtx[b] = r /\ \A t \in Sess : Session_ID[t] # val[r]
  BY InsertFresh
<1>2. /\ pc[r] = "insert" /\ Session_ID' = [Session_ID EXCEPT ![s] = val[r]]
      /\ bucket' = [bucket EXCEPT ![b] = bucket[b] \cup {s}]
      /\ mtx' = [mtx EXCEPT ![b] = NULL] /\ pc' = [pc EXCEPT ![r] = "label"]
      /\ UNCHANGED <<pppoe_sid, pkt_sid, state, pads, sp, val>>
  BY DEF Insert
<1>3. TypeOK
  BY DEF IndInv
<1>4. /\ Session_ID'[s] = val[r] /\ \A t \in Sess \ {s} : Session_ID'[t] = Session_ID[t]
      /\ pc'[r] = "label" /\ \A q \in Reader \ {r} : pc'[q] = pc[q]
      /\ \A c \in Bucket \ {b} : bucket'[c] = bucket[c] /\ mtx'[c] = mtx[c]
      /\ bucket'[b] = bucket[b] \cup {s}
  BY <1>1, <1>2, <1>3 DEF TypeOK
<1> HIDE DEF s, b
<1>5. TypeOK'
  <2>1. Session_ID' \in [Sess -> 0..(MaxSid - 1)]  BY <1>1, <1>2, <1>3, SidAssumption DEF TypeOK
  <2>2. bucket' \in [Bucket -> SUBSET Sess]  BY <1>1, <1>2, <1>3 DEF TypeOK
  <2> QED BY <1>2, <1>3, <2>1, <2>2 DEF TypeOK, PC
<1>6. FoundById'
  <2>1. ASSUME NEW t \in Sess, NEW c \in Bucket
        PROVE  t \in bucket'[c] <=> Session_ID'[t] # 0 /\ SessHash[Session_ID'[t]] = c
    <3>1. t \in bucket[c] <=> Session_ID[t] # 0 /\ SessHash[Session_ID[t]] = c
      BY DEF IndInv, FoundById
    <3>2. val[r] # 0  BY <1>1
    <3>3. SessHash[val[r]] = b  BY DEF b
    <3> QED BY <1>1, <1>4, <3>1, <3>2, <3>3
  <2> QED BY <2>1 DEF FoundById
<1>7. DistinctIds'
  <2>1. \A t \in Hashed' : t \in Sess /\ Session_ID'[t] # 0
    BY <1>5, <1>6 DEF Hashed, FoundById, TypeOK
  <2>2. \A t \in Sess : Session_ID[t] # 0 => t \in Hashed
    <3> SUFFICES ASSUME NEW t \in Sess, Session_ID[t] # 0 PROVE t \in Hashed  OBVIOUS
    <3>1. Session_ID[t] \in 0..MaxSid  BY <1>3, SidAssumption DEF TypeOK
    <3>2. SessHash[Session_ID[t]] \in Bucket  BY <3>1, SidAssumption
    <3>3. t \in bucket[SessHash[Session_ID[t]]]  BY <3>2 DEF IndInv, FoundById
    <3> QED BY <3>2, <3>3 DEF Hashed
  <2>3. ASSUME NEW t \in Hashed', NEW u \in Hashed', Session_ID'[t] = Session_ID'[u]
        PROVE  t = u
    <3>1. CASE t # s /\ u # s  BY <1>4, <2>1, <2>2, <2>3, <3>1 DEF IndInv, DistinctIds
    <3>2. CASE t = s \/ u = s  BY <1>1, <1>4, <2>1, <2>3, <3>2
    <3> QED BY <3>1, <3>2
  <2> QED BY <2>3 DEF DistinctIds
<1>8. ASSUME NEW q \in Reader  PROVE ReaderOK(q)'
  <2>1. CASE q = r
    <3>1. pkt_sid'[s] = pkt_sid[s] /\ sp'[r] = s /\ val'[r] = val[r] /\ pads'[s] = {}
      BY <1>1, <1>2 DEF s
    <3>2. s # NULL  BY <1>1, SidAssumption
    <3> QED BY <1>1, <1>4, <2>1, <3>1, <3>2 DEF ReaderOK, Holding, Allocating
  <2>2. CASE q # r
    <3>1. ReaderOK(q) /\ pc'[q] = pc[q] /\ sp'[q] = sp[q] /\ val'[q] = val[q]
      BY <1>2, <1>4, <2>2 DEF IndInv
    <3>2. sp[q] # s  BY <1>1, <2>2, SidAssumption DEF IndInv, s
    <3>3. pc[q] # "idle" => sp[q] \in Sess \ {s}
      BY <1>3, <3>1, <3>2 DEF TypeOK, ReaderOK
    <3>4. pc[q] # "idle" => Session_ID'[sp[q]] = Session_ID[sp[q]]  BY <1>4, <3>3
    <3>5. pc[q] \in Holding => SessHash[val[q]] \in Bucket \ {b}
      BY <1>1, <2>2, <3>1, SidAssumption DEF ReaderOK, Holding
    <3>6. pc[q] \in Holding => mtx'[SessHash[val[q]]] = q
      BY <1>4, <3>1, <3>5 DEF ReaderOK
    <3>7. pc[q] = "insert" => \A t \in bucket'[SessHash[val[q]]] : Session_ID'[t] # val[q]
      <4> SUFFICES ASSUME pc[q] = "insert", NEW t \in bucket'[SessHash[val[q]]]
                   PROVE  Session_ID'[t] # val[q]
        OBVIOUS
      <4>1. SessHash[val[q]] \in Bucket \ {b}  BY <3>5 DEF Holding
      <4>2. t \in bucket[SessHash[val[q]]]  BY <1>4, <4>1
      <4>3. t \in Sess /\ Session_ID[t] # 0  BY <1>3, <4>1, <4>2 DEF IndInv, FoundById, TypeOK
      <4>4. t # s  BY <1>1, <4>3
      <4> QED BY <1>4, <3>1, <4>2, <4>3, <4>4 DEF ReaderOK
    <3>8. pkt_sid' = pkt_sid /\ pads' = pads  BY <1>2
    <3> HIDE DEF IndInv
    <3> QED BY <3>1, <3>4, <3>6, <3>7, <3>8 DEF ReaderOK, Holding, Allocating
  <2> QED BY <2>1, <2>2
<1>9. ASSUME NEW t \in Sess  PROVE PacketOK(t)'
  <2>1. CASE t = s  BY <1>1, <1>2, <1>4, <2>1 DEF PacketOK, s
  <2>2. CASE t # s
    <3>1. PacketOK(t) /\ Session_ID'[t] = Session_ID[t]  BY <1>4, <2>2 DEF IndInv
    <3>2. \A q \in Reader : pc[q] = "label" => pc'[q] = "label"  BY <1>2, <1>4
    <3> QED BY <1>2, <3>1, <3>2 DEF PacketOK
  <2> QED BY <2>1, <2>2
<1>10. \A q, t \in Reader : sp'[q] = sp'[t] /\ sp'[q] # NULL => q = t
  BY <1>2 DEF IndInv
<1> QED BY <1>5, <1>6, <1>7, <1>8, <1>9, <1>10 DEF IndInv

(* The PADS being put together takes the id the session has just got.      *)
LEMMA LabelStep ==
    ASSUME IndInv, NEW r \in Reader, Label(r)
    PROVE  IndInv'
<1> DEFINE s == sp[r]
<1>1. /\ pc[r] = "label" /\ pc' = [pc EXCEPT ![r] = "send"]
      /\ pkt_sid' = [pkt_sid EXCEPT ![s] = val[r]]
      /\ UNCHANGED <<pppoe_sid, mtx, bucket, Session_ID, state, pads, sp, val>>
  BY DEF Label, GoTo
<1>2. TypeOK /\ ReaderOK(r) /\ s \in Sess  BY <1>1 DEF IndInv, TypeOK, ReaderOK
<1>3. val[r] \in 1..(MaxSid - 1) /\ Session_ID[s] = val[r]  BY <1>1, <1>2 DEF ReaderOK
<1>4. /\ pkt_sid'[s] = val[r] /\ \A t \in Sess \ {s} : pkt_sid'[t] = pkt_sid[t]
      /\ pc'[r] = "send" /\ \A q \in Reader \ {r} : pc'[q] = pc[q]
  BY <1>1, <1>2 DEF TypeOK
<1>5. TypeOK'
  <2>1. val[r] \in 0..(MaxSid - 1)  BY <1>3, SidAssumption
  <2>2. pkt_sid' \in [Sess -> 0..(MaxSid - 1)]  BY <1>1, <1>2, <2>1 DEF TypeOK
  <2> QED BY <1>1, <1>2, <2>2 DEF TypeOK, PC
<1>6. DistinctIds' /\ FoundById'  BY <1>1 DEF IndInv, DistinctIds, FoundById, Hashed
<1>7. ASSUME NEW q \in Reader  PROVE ReaderOK(q)'
  <2>1. CASE q = r
    <3>1. pkt_sid'[sp[r]] = Session_ID[sp[r]] /\ Session_ID[sp[r]] # 0 /\ sp[r] # NULL
      BY <1>2, <1>3, <1>4, SidAssumption
    <3> QED BY <1>1, <1>4, <2>1, <3>1 DEF ReaderOK, Holding, Allocating
  <2>2. CASE q # r
    <3>1. ReaderOK(q) /\ pc'[q] = pc[q]  BY <1>4, <2>2 DEF IndInv
    <3>2. pc[q] # "idle" => sp[q] \in Sess \ {s}
      BY <1>2, <2>2, <3>1, SidAssumption DEF IndInv, TypeOK, ReaderOK
    <3>3. pc[q] # "idle" => pkt_sid'[sp[q]] = pkt_sid[sp[q]]  BY <1>4, <3>2
    <3> HIDE DEF s
    <3> QED BY <1>1, <3>1, <3>3 DEF ReaderOK
  <2> QED BY <2>1, <2>2
<1>8. ASSUME NEW t \in Sess  PROVE PacketOK(t)'
  <2>1. PacketOK(t)  BY DEF IndInv
  <2>2. CASE t = s  BY <1>1, <1>3, <1>4, <2>1, <2>2 DEF PacketOK
  <2>3. CASE t # s
    <3>1. \A q \in Reader : sp[q] = t /\ pc[q] = "label" => pc'[q] = "label"
      BY <1>4, <2>3
    <3> QED BY <1>1, <1>4, <2>1, <2>3, <3>1 DEF PacketOK
  <2> QED BY <2>2, <2>3
<1>9. \A q, t \in Reader : sp'[q] = sp'[t] /\ sp'[q] # NULL => q = t
  BY <1>1 DEF IndInv
<1> QED BY <1>5, <1>6, <1>7, <1>8, <1>9 DEF IndInv

(* The PADS that goes out confirms the id of the session.                  *)
LEMMA SendPadsStep ==
    ASSUME IndInv, NEW r \in Reader, SendPads(r)
    PROVE  IndInv'
<1> DEFINE s == sp[r]
<1>1. /\ pc[r] = "send" /\ pc' = [pc EXCEPT ![r] = "idle"]
      /\ state' = [state EXCEPT ![s] = "NEWCONNECTED"]
      /\ pads' = [pads EXCEPT ![s] = pads[s] \cup {pkt_sid[s]}]
      /\ sp' = [sp EXCEPT ![r] = NULL] /\ val' = [val EXCEPT ![r] = 0]
      /\ UNCHANGED <<pppoe_sid, mtx, bucket, Session_ID, pkt_sid>>
  BY DEF SendPads, GoTo
<1>2. TypeOK /\ ReaderOK(r) /\ s \in Sess  BY <1>1 DEF IndInv, TypeOK, ReaderOK
<1>3. Session_ID[s] # 0 /\ pkt_sid[s] = Session_ID[s] /\ pkt_sid[s] \in 0..(MaxSid - 1)
  BY <1>1, <1>2 DEF ReaderOK, TypeOK
<1>4. /\ pads'[s] = pads[s] \cup {pkt_sid[s]}
      /\ \A t \in Sess \ {s} : pads'[t] = pads[t]
      /\ pc'[r] = "idle" /\ sp'[r] = NULL
      /\ \A q \in Reader \ {r} : pc'[q] = pc[q] /\ sp'[q] = sp[q] /\ val'[q] = val[q]
  BY <1>1, <1>2 DEF TypeOK
<1>5. TypeOK'
  <2>1. pads' \in [Sess -> SUBSET (0..(MaxSid - 1))]  BY <1>1, <1>2, <1>3 DEF TypeOK
  <2>2. 0 \in 0..MaxSid  BY SidAssumption
  <2>3. state' \in [Sess -> {"SNONE", "SOFFER", "NEWCONNECTED"}]  BY <1>1, <1>2 DEF TypeOK
  <2> QED BY <1>1, <1>2, <2>1, <2>2, <2>3 DEF TypeOK, PC
<1>6. DistinctIds' /\ FoundById'  BY <1>1 DEF IndInv, DistinctIds, FoundById, Hashed
<1>7. ASSUME NEW q \in Reader  PROVE ReaderOK(q)'
  <2>1. CASE q = r  BY <1>4, <2>1 DEF ReaderOK, Holding, Allocating
  <2>2. CASE q # r
    <3>1. /\ ReaderOK(q) /\ pc'[q] = pc[q] /\ sp'[q] = sp[q] /\ val'[q] = val[q]
      BY <1>4, <2>2 DEF IndInv
    <3>2. pc[q] # "idle" => sp[q] \in Sess \ {s}
      BY <1>2, <2>2, <3>1, SidAssumption DEF IndInv, TypeOK, ReaderOK
    <3>3. pc[q] # "idle" => pads'[sp[q]] = pads[sp[q]]  BY <1>4, <3>2
    <3> HIDE DEF s
    <3> QED BY <1>1, <3>1, <3>3 DEF ReaderOK, Holding, Allocating
  <2> QED BY <2>1, <2>2
<1>8. ASSUME NEW t \in Sess  PROVE PacketOK(t)'
  <2>1. PacketOK(t)  BY DEF IndInv
  <2>2. pads'[t] \subseteq {Session_ID[t]} \ {0}  BY <1>3, <1>4, <2>1 DEF PacketOK
  <2>3. \A q \in Reader : pc[q] = "label" => sp'[q] = sp[q] /\ pc'[q] = "label"
    BY <1>1, <1>4
  <2> QED BY <1>1, <2>1, <2>2, <2>3 DEF PacketOK
<1>9. \A q, t \in Reader : sp'[q] = sp'[t] /\ sp'[q] # NULL => q = t
  BY <1>4 DEF IndInv
<1> QED BY <1>5, <1>6, <1>7, <1>8, <1>9 DEF IndInv

(* A PADR is taken up for a session that no other reader works on.         *)
LEMMA PadrStep ==
    ASSUME IndInv, ~Overlap, NEW r \in Reader, NEW s \in Sess, Padr(r, s)
    PROVE  IndInv'
<1>1. /\ \A q \in Reader : sp[q] # s
      /\ pc[r] = "idle" /\ pc' = [pc EXCEPT ![r] = "check"]
      /\ state' = [state EXCEPT ![s] = "SOFFER"] /\ sp' = [sp EXCEPT ![r] = s]
      /\ UNCHANGED <<pppoe_sid, mtx, bucket, Session_ID, pkt_sid, pads, val>>
  BY DEF Padr, GoTo
<1>2. TypeOK  BY DEF IndInv
<1>3. /\ pc'[r] = "check" /\ sp'[r] = s
      /\ \A q \in Reader \ {r} : pc'[q] = pc[q] /\ sp'[q] = sp[q]
  BY <1>1, <1>2 DEF TypeOK
<1>4. TypeOK'
  <2>1. state' \in [Sess -> {"SNONE", "SOFFER", "NEWCONNECTED"}]  BY <1>1, <1>2 DEF TypeOK
  <2> QED BY <1>1, <1>2, <2>1 DEF TypeOK, PC
<1>5. DistinctIds' /\ FoundById'  BY <1>1 DEF IndInv, DistinctIds, FoundById, Hashed
<1>6. ASSUME NEW q \in Reader  PROVE ReaderOK(q)'
  <2>1. CASE q = r  BY <1>3, <2>1, SidAssumption DEF ReaderOK, Holding, Allocating
  <2>2. CASE q # r  BY <1>1, <1>3, <2>2 DEF IndInv, ReaderOK
  <2> QED BY <2>1, <2>2
<1>7. ASSUME NEW t \in Sess  PROVE PacketOK(t)'
  <2>1. \A q \in Reader : pc[q] = "label" => sp'[q] = sp[q] /\ pc'[q] = "label"
    BY <1>1, <1>3
  <2> QED BY <1>1, <2>1 DEF IndInv, PacketOK
<1>8. \A q, t \in Reader : sp'[q] = sp'[t] /\ sp'[q] # NULL => q = t
  BY <1>1, <1>3 DEF IndInv
<1> QED BY <1>4, <1>5, <1>6, <1>7, <1>8 DEF IndInv

(* The writers find no reader at work.                                     *)
LEMMA WriterStep ==
    ASSUME IndInv, NEW s \in Sess, Offered(s) \/ Removed(s)
    PROVE  IndInv'
<1>1. TypeOK /\ \A q \in Reader : pc[q] = "idle" /\ ReaderOK(q)
  BY DEF Offered, Removed, NoReader, IndInv
<1>2. UNCHANGED <<pppoe_sid, mtx, pc, sp, val>>  BY DEF Offered, Removed
<1>3. \A q \in Reader : ReaderOK(q)'  BY <1>1, <1>2 DEF ReaderOK, Holding, Allocating
<1>4. \A q, t \in Reader : sp'[q] = sp'[t] /\ sp'[q] # NULL => q = t
  BY <1>2 DEF IndInv
<1>5. CASE Offered(s)
  <2>1. /\ state' = [state EXCEPT ![s] = "SOFFER"]
        /\ UNCHANGED <<bucket, Session_ID, pkt_sid, pads>>
    BY <1>5 DEF Offered
  <2>2. TypeOK'
    <3>1. state' \in [Sess -> {"SNONE", "SOFFER", "NEWCONNECTED"}]  BY <1>1, <2>1 DEF TypeOK
    <3> QED BY <1>1, <1>2, <2>1, <3>1 DEF TypeOK
  <2>3. DistinctIds' /\ FoundById'  BY <2>1 DEF IndInv, DistinctIds, FoundById, Hashed
  <2>4. \A t \in Sess : PacketOK(t)'  BY <1>2, <2>1 DEF IndInv, PacketOK
  <2> QED BY <1>3, <1>4, <2>2, <2>3, <2>4 DEF IndInv
<1>6. CASE Removed(s)
  <2>1. /\ state' = [state EXCEPT ![s] = "SNONE"]
        /\ bucket' = IF Session_ID[s] = 0 THEN bucket
                     ELSE [bucket EXCEPT ![SessHash[Session_ID[s]]] =
                               bucket[SessHash[Session_ID[s]]] \ {s}]
        /\ Session_ID' = [Session_ID EXCEPT ![s] = 0]
        /\ pkt_sid' = [pkt_sid EXCEPT ![s] = 0] /\ pads' = [pads EXCEPT ![s] = {}]
    BY <1>6 DEF Removed
  <2>2. TypeOK'
    <3>1. 0 \in 0..(MaxSid - 1)  BY SidAssumption
    <3>2. /\ Session_ID' \in [Sess -> 0..(MaxSid - 1)]
          /\ pkt_sid' \in [Sess -> 0..(MaxSid - 1)]
          /\ pads' \in [Sess -> SUBSET (0..(MaxSid - 1))]
      BY <1>1, <2>1, <3>1 DEF TypeOK
    <3>3. bucket' \in [Bucket -> SUBSET Sess]  BY <1>1, <2>1 DEF TypeOK
    <3>4. state' \in [Sess -> {"SNONE", "SOFFER", "NEWCONNECTED"}]  BY <1>1, <2>1 DEF TypeOK
    <3> QED BY <1>1, <1>2, <3>2, <3>3, <3>4 DEF TypeOK
  <2>3. Session_ID'[s] = 0 /\ pads'[s] = {} /\ pkt_sid'[s] = 0
        /\ \A t \in Sess \ {s} : Session_ID'[t] = Session_ID[t] /\ pads'[t] = pads[t]
                                  /\ pkt_sid'[t] = pkt_sid[t]
    BY <1>1, <2>1 DEF TypeOK
  <2>4. ASSUME NEW c \in Bucket  PROVE bucket'[c] = bucket[c] \ {s}
    <3>1. \A d \in Bucket : s \in bucket[d] <=> Session_ID[s] # 0 /\ SessHash[Session_ID[s]] = d
      BY DEF IndInv, FoundById
    <3>2. CASE Session_ID[s] = 0  BY <2>1, <3>1, <3>2
    <3>3. CASE Session_ID[s] # 0 /\ SessHash[Session_ID[s]] = c
      BY <1>1, <2>1, <3>3 DEF TypeOK
    <3>4. CASE Session_ID[s] # 0 /\ SessHash[Session_ID[s]] # c
      BY <1>1, <2>1, <3>1, <3>4 DEF TypeOK
    <3> QED BY <3>2, <3>3, <3>4
  <2>5. FoundById'
    <3>1. ASSUME NEW t \in Sess, NEW c \in Bucket
          PROVE  t \in bucket'[c] <=> Session_ID'[t] # 0 /\ SessHash[Session_ID'[t]] = c
      <4>1. t \in bucket[c] <=> Session_ID[t] # 0 /\ SessHash[Session_ID[t]] = c
        BY DEF IndInv, FoundById
      <4> QED BY <2>3, <2>4, <4>1
    <3> QED BY <3>1 DEF FoundById
  <2>6. DistinctIds'
    <3>1. Hashed' \subseteq Hashed \ {s}  BY <2>4 DEF Hashed
    <3>2. Hashed \subseteq Sess  BY <1>1 DEF Hashed, TypeOK
    <3> QED BY <2>3, <3>1, <3>2 DEF IndInv, DistinctIds
  <2>7. \A t \in Sess : PacketOK(t)'
    <3>1. \A t \in Sess : PacketOK(t)  BY DEF IndInv
    <3> QED BY <1>1, <2>3, <3>1 DEF PacketOK
  <2> QED BY <1>3, <1>4, <2>2, <2>5, <2>6, <2>7 DEF IndInv
<1> QED BY <1>5, <1>6

----------------------------------------------------------------------------
(* Before the first PADR no session has an id.                             *)
LEMMA InitOK == Init => IndInv
<1> SUFFICES ASSUME Init PROVE IndInv  OBVIOUS
<1>1. TypeOK
  <2>1. 0 \in 0..(MaxSid - 1) /\ 0 \in 0..MaxSid /\ 1 \in 0..MaxSid  BY SidAssumption
  <2> QED BY <2>1 DEF Init, TypeOK, PC
<1>2. DistinctIds /\ FoundById  BY DEF Init, DistinctIds, FoundById, Hashed
<1>3. \A r \in Reader : ReaderOK(r) /\ sp[r] = NULL
  BY DEF Init, ReaderOK, Holding, Allocating
<1>4. \A s \in Sess : PacketOK(s)  BY DEF Init, PacketOK
<1> QED BY <1>1, <1>2, <1>3, <1>4 DEF IndInv

(* IndInv is inductive while no two readers work on one session.           *)
LEMMA NextStep ==
    ASSUME IndInv, ~Overlap, [Next]_vars
    PROVE  IndInv'
<1>1. CASE UNCHANGED vars
  BY <1>1 DEF vars, IndInv, TypeOK, DistinctIds, FoundById, Hashed, ReaderOK, PacketOK
<1>2. ASSUME NEW r \in Reader, Answer(r)  PROVE IndInv'
  BY <1>2, WalkStep, InsertStep, LabelStep, SendPadsStep DEF Answer
<1>3. ASSUME NEW r \in Reader, NEW s \in Sess, Padr(r, s)  PROVE IndInv'
  BY <1>3, PadrStep
<1>4. ASSUME NEW s \in Sess, Offered(s) \/ Removed(s)  PROVE IndInv'
  BY <1>4, WriterStep
<1> QED BY <1>1, <1>2, <1>3, <1>4 DEF Next

(* While no two PADRs of one session are in work at once, ids stay         *)
(* distinct and sessions are found by them, and only their PADS go out.    *)
THEOREM IdsAreSafe == ~Overlap => (Spec => [](DistinctIds /\ FoundById /\ PadsResent))
<1> SUFFICES ASSUME ~Overlap PROVE Spec => [](DistinctIds /\ FoundById /\ PadsResent)
  OBVIOUS
<1>1. IndInv /\ [Next]_vars => IndInv'  BY NextStep
<1>2. IndInv => DistinctIds /\ FoundById /\ PadsResent
  BY DEF IndInv, PacketOK, PadsResent
<1> QED BY <1>1, <1>2, InitOK, PTL DEF Spec

(* What a step of a reader or a writer is for the pool of ids.             *)
LEMMA PoolStep ==
    ASSUME IndInv, [Next]_vars
    PROVE  [Pool!Next]_Session_ID
<1>1. CASE UNCHANGED vars  BY <1>1 DEF vars
<1>2. ASSUME NEW r \in Reader, Insert(r)  PROVE Pool!Next
  <2>1. /\ sp[r] \in Sess /\ Session_ID[sp[r]] = 0 /\ val[r] \in 1..(MaxSid - 1)
        /\ \A t \in Sess : Session_ID[t] # val[r]
    BY <1>2, InsertFresh
  <2>2. Session_ID' = [Session_ID EXCEPT ![sp[r]] = val[r]]  BY <1>2 DEF Insert
  <2>3. Pool!Allocate(sp[r])  BY <2>1, <2>2 DEF Pool!Allocate
  <2> QED BY <2>1, <2>3 DEF Pool!Next
<1>3. ASSUME NEW r \in Reader, Answer(r), ~Insert(r)  PROVE Session_ID' = Session_ID
  BY <1>3 DEF Answer, CheckId, Load, Store, Reset, Lock, Scan, Unlock, Label, SendPads
<1>4. ASSUME NEW r \in Reader, NEW s \in Sess, Padr(r, s)  PROVE Session_ID' = Session_ID
  BY <1>4 DEF Padr
<1>5. ASSUME NEW s \in Sess, Offered(s) \/ Removed(s)  PROVE [Pool!Next]_Session_ID
  <2>1. CASE Offered(s)  BY <2>1 DEF Offered
  <2>2. CASE Removed(s)
    <3>1. Session_ID' = [Session_ID EXCEPT ![s] = 0]  BY <2>2 DEF Removed
    <3>2. CASE Session_ID[s] = 0  BY <3>1, <3>2 DEF IndInv, TypeOK
    <3>3. CASE Session_ID[s] # 0
      <4>1. Pool!Release(s)  BY <3>1, <3>3 DEF Pool!Release
      <4> QED BY <4>1 DEF Pool!Next
    <3> QED BY <3>2, <3>3
  <2> QED BY <1>5, <2>1, <2>2
<1> QED BY <1>1, <1>2, <1>3, <1>4, <1>5 DEF Next

(* Readers that hand out ids concurrently do what a pool that hands them   *)
(* out one by one may do.                                                  *)
THEOREM ImplementsPool == ~Overlap => (Spec => PoolSpec)
<1> SUFFICES ASSUME ~Overlap PROVE Spec => PoolSpec  OBVIOUS
<1>1. Init => Pool!Init  BY DEF Init, Pool!Init
<1>2. IndInv /\ [Next]_vars => IndInv'  BY NextStep
<1>3. IndInv /\ [Next]_vars => [Pool!Next]_Session_ID  BY PoolStep
<1> QED BY <1>1, <1>2, <1>3, InitOK, PTL DEF Spec, PoolSpec, Pool!Spec

----------------------------------------------------------------------------
(* Induction over the numbers, for a set instead of a predicate.           *)
LEMMA InductTags ==
    ASSUME NEW S, 0 \in S, \A n \in Nat : n \in S => n + 1 \in S
    PROVE  Nat \subseteq S
<1> DEFINE T == Nat \ S
           R == OpToRel(<, Nat)
<1> SUFFICES ASSUME T # {} PROVE FALSE  OBVIOUS
<1>1. \A x, y \in Nat : y < x => <<y, x>> \in R  BY DEF OpToRel
<1>2. IsWellFoundedOn(R, Nat)  BY NatLessThanWellFounded
<1> HIDE DEF R
<1>3. PICK x \in T : \A y \in T : ~ (<<y, x>> \in R)  BY <1>2, WFMin
<1>4. x \in Nat /\ x # 0  OBVIOUS
<1>5. x - 1 \in Nat /\ x - 1 < x /\ (x - 1) + 1 = x  BY <1>4
<1>6. x - 1 \notin T  BY <1>1, <1>3, <1>4, <1>5
<1> QED BY <1>3, <1>5, <1>6

(* The recursion of Upto defines a function.                               *)
LEMMA UptoUnfolds ==
    ASSUME NEW ts, NEW n \in Nat
    PROVE  \E f : /\ Upto(ts, n) = f[n]
                  /\ f = [k \in 0..n |-> IF k = 0 THEN 0 ELSE f[k - 1] + Size(ts[k])]
<1> DEFINE Body(f, k) == IF k = 0 THEN 0 ELSE f[k - 1] + Size(ts[k])
           Fits(f, m) == f = [k \in 0..m |-> Body(f, k)]
           Lengths == {m \in Nat : \E f : Fits(f, m)}
<1>1. 0 \in Lengths
  <2> DEFINE f == [k \in 0..0 |-> 0]
  <2>1. Fits(f, 0)  OBVIOUS
  <2> QED BY <2>1
<1>2. ASSUME NEW m \in Nat, m \in Lengths  PROVE m + 1 \in Lengths
  <2>1. PICK f : Fits(f, m)  BY <1>2
  <2> DEFINE g == [k \in 0..(m + 1) |-> IF k <= m THEN f[k] ELSE Body(f, m + 1)]
  <2>2. \A k \in 0..m : f[k] = Body(f, k)  BY <2>1
  <2>3. \A k \in 0..(m + 1) : g[k] = Body(g, k)
    <3> SUFFICES ASSUME NEW k \in 0..(m + 1)  PROVE g[k] = Body(g, k)
      OBVIOUS
    <3>1. k # 0 => k - 1 \in 0..(m + 1) /\ k - 1 <= m  OBVIOUS
    <3>2. Body(g, k) = Body(f, k)  BY <3>1
    <3>3. CASE k <= m  BY <2>2, <3>2, <3>3
    <3>4. CASE k = m + 1  BY <3>2, <3>4
    <3> QED BY <3>3, <3>4
  <2> HIDE DEF Body
  <2>4. g = [k \in 0..(m + 1) |-> Body(g, k)]  BY <2>3
  <2> HIDE DEF g
  <2>5. Fits(g, m + 1)  BY <2>4
  <2> QED BY <2>5
<1>3. n \in Lengths
  <2> HIDE DEF Lengths
  <2> QED BY <1>1, <1>2, InductTags
<1>4. \E f : Fits(f, n)  BY <1>3
<1> DEFINE F == CHOOSE f : Fits(f, n)
<1>5. Fits(F, n)  BY <1>4
<1>6. Upto(ts, n) = F[n]  BY DEF Upto
<1> QED BY <1>5, <1>6

(* It adds up the tags one by one.                                         *)
LEMMA UptoStep ==
    ASSUME NEW ts, NEW n \in Nat
    PROVE  Upto(ts, 0) = 0 /\ Upto(ts, n + 1) = Upto(ts, n) + Size(ts[n + 1])
<1>0. 0 \in Nat /\ n + 1 \in Nat  OBVIOUS
<1>1. PICK f : /\ Upto(ts, n) = f[n]
               /\ f = [k \in 0..n |-> IF k = 0 THEN 0 ELSE f[k - 1] + Size(ts[k])]
  BY UptoUnfolds
<1>2. PICK g : /\ Upto(ts, n + 1) = g[n + 1]
               /\ g = [k \in 0..(n + 1) |-> IF k = 0 THEN 0 ELSE g[k - 1] + Size(ts[k])]
  BY <1>0, UptoUnfolds
<1>3. PICK h : /\ Upto(ts, 0) = h[0]
               /\ h = [k \in 0..0 |-> IF k = 0 THEN 0 ELSE h[k - 1] + Size(ts[k])]
  BY <1>0, UptoUnfolds
<1> DEFINE Same == {k \in Nat : k <= n => f[k] = g[k]}
<1>4. 0 \in Same  BY <1>1, <1>2
<1>5. ASSUME NEW k \in Nat, k \in Same  PROVE k + 1 \in Same
  <2> SUFFICES ASSUME k + 1 <= n  PROVE f[k + 1] = g[k + 1]  OBVIOUS
  <2>1. k + 1 \in 0..n /\ k + 1 \in 0..(n + 1) /\ k + 1 # 0 /\ (k + 1) - 1 = k  OBVIOUS
  <2>2. f[k] = g[k]  BY <1>5
  <2> QED BY <1>1, <1>2, <2>1, <2>2
<1>6. n \in Same
  <2> HIDE DEF Same
  <2> QED BY <1>4, <1>5, InductTags
<1>7. f[n] = g[n]  BY <1>6
<1>8. g[n + 1] = g[n] + Size(ts[n + 1])
  <2>1. n + 1 \in 0..(n + 1) /\ n + 1 # 0 /\ (n + 1) - 1 = n  OBVIOUS
  <2> QED BY <1>2, <2>1
<1> QED BY <1>1, <1>2, <1>3, <1>7, <1>8

(* Of tags it is a number, the greater the more tags there are, and the    *)
(* same for the same tags.                                                 *)
LEMMA UptoBounds ==
    ASSUME NEW ts \in Seq(Tag), NEW m \in 0..Len(ts), NEW n \in m..Len(ts)
    PROVE  Upto(ts, m) \in Nat /\ Upto(ts, n) \in Nat /\ Upto(ts, m) <= Upto(ts, n)
<1>1. ASSUME NEW k \in 1..Len(ts)  PROVE Size(ts[k]) \in Nat
  <2>1. ts[k] \in Tag  OBVIOUS
  <2>2. ts[k].len \in Nat  BY <2>1 DEF Tag
  <2> QED BY <2>2, TagsAssumption DEF Size
<1> DEFINE Fine == {k \in Nat : k <= Len(ts) =>
                       Upto(ts, k) \in Nat /\ (m <= k => Upto(ts, m) \in Nat /\ Upto(ts, m) <= Upto(ts, k))}
<1>2. 0 \in Fine  BY UptoStep
<1>3. ASSUME NEW k \in Nat, k \in Fine  PROVE k + 1 \in Fine
  <2> SUFFICES ASSUME k + 1 <= Len(ts)
               PROVE  /\ Upto(ts, k + 1) \in Nat
                      /\ m <= k + 1 => Upto(ts, m) \in Nat /\ Upto(ts, m) <= Upto(ts, k + 1)
    OBVIOUS
  <2>1. Upto(ts, k) \in Nat /\ (m <= k => Upto(ts, m) \in Nat /\ Upto(ts, m) <= Upto(ts, k))  BY <1>3
  <2>2. k + 1 \in 1..Len(ts)  OBVIOUS
  <2>3. Size(ts[k + 1]) \in Nat  BY <1>1, <2>2
  <2>4. Upto(ts, k + 1) = Upto(ts, k) + Size(ts[k + 1])  BY UptoStep
  <2>5. Upto(ts, k + 1) \in Nat /\ Upto(ts, k) <= Upto(ts, k + 1)
    BY <2>1, <2>3, <2>4
  <2>6. CASE m <= k  BY <2>1, <2>5, <2>6
  <2>7. CASE m = k + 1  BY <2>5, <2>7
  <2>8. m \in Nat /\ (m <= k + 1 => m <= k \/ m = k + 1)  OBVIOUS
  <2> QED BY <2>5, <2>6, <2>7, <2>8
<1>4. Nat \subseteq Fine
  <2> HIDE DEF Fine
  <2> QED BY <1>2, <1>3, InductTags
<1>5. m \in Nat /\ n \in Nat /\ m <= n /\ n <= Len(ts) /\ m <= Len(ts)  OBVIOUS
<1> QED BY <1>4, <1>5

LEMMA UptoSame ==
    ASSUME NEW ts, NEW us, NEW n \in Nat, \A k \in 1..n : ts[k] = us[k]
    PROVE  Upto(ts, n) = Upto(us, n)
<1> DEFINE Fine == {k \in Nat : k <= n => Upto(ts, k) = Upto(us, k)}
<1>1. 0 \in Fine  BY UptoStep
<1>2. ASSUME NEW k \in Nat, k \in Fine  PROVE k + 1 \in Fine
  <2> SUFFICES ASSUME k + 1 <= n  PROVE Upto(ts, k + 1) = Upto(us, k + 1)  OBVIOUS
  <2>1. Upto(ts, k) = Upto(us, k) /\ ts[k + 1] = us[k + 1]  BY <1>2
  <2> QED BY <2>1, UptoStep
<1>3. n \in Fine
  <2> HIDE DEF Fine
  <2> QED BY <1>1, <1>2, InductTags
<1> QED BY <1>3

----------------------------------------------------------------------------
(* What insert_tag keeps of a list and adds to it                          *)
LEMMA Inserted ==
    ASSUME NEW S, NEW ts \in Seq(S), Len(ts) <= NUMTAGS, NEW t \in S
    PROVE  /\ insert_tag(ts, t) \in Seq(S)
           /\ Len(insert_tag(ts, t)) <= NUMTAGS
           /\ Len(ts) <= Len(insert_tag(ts, t))
           /\ \A n \in 1..Len(ts) : insert_tag(ts, t)[n] = ts[n]
BY TagsAssumption DEF insert_tag

LEMMA InsertedAny ==
    ASSUME NEW S, NEW ts \in Seq(S), Len(ts) <= NUMTAGS, NEW set \in SUBSET S
    PROVE  InsertAny(ts, set) \in Seq(S) /\ Len(InsertAny(ts, set)) <= NUMTAGS
<1>1. CASE set = {}  BY <1>1 DEF InsertAny
<1>2. CASE set # {}
  <2> DEFINE t == CHOOSE x \in set : TRUE
  <2>1. t \in S  BY <1>2
  <2>2. InsertAny(ts, set) = insert_tag(ts, t)  BY <1>2 DEF InsertAny
  <2> HIDE DEF t
  <2> QED BY <2>1, <2>2, Inserted
<1> QED BY <1>1, <1>2

(* The tags the session inserts itself: none is a relay's, and a client's  *)
(* Host-Uniq is one that came.                                             *)
Own == {t \in Tag : /\ t.type # "RELAY_SID"
                    /\ t.type = "HOST_UNIQ" => \E m \in Seen : ph[m] = t}

LEMMA GetTagFinds ==
    ASSUME ph \in Seq(Tag), NEW type, type # "RELAY_SID"
    PROVE  get_tag(type) \in SUBSET Own
<1> SUFFICES ASSUME NEW t \in get_tag(type)  PROVE t \in Own  OBVIOUS
<1>1. PICK n \in Seen : ph[n] = t /\ ph[n].type = type  BY DEF get_tag
<1>2. n \in 1..Len(ph)  BY DEF Seen
<1>3. t \in Tag  BY <1>1, <1>2
<1> QED BY <1>1, <1>3 DEF Own

LEMMA ReplyOwn ==
    ASSUME ph \in Seq(Tag)
    PROVE  Reply \in Seq(Own) /\ Len(Reply) <= NUMTAGS
<1> DEFINE asked == get_tag("SRV_NAME")
           extra == IF (\A t \in asked : t.len = 0) /\ Service # 0
                    THEN {[type |-> "SRV_NAME", len |-> Service]} ELSE {}
           name == insert_tag(<<>>, [type |-> "AC_NAME", len |-> AcName])
           one == InsertAny(name, asked)
           two == InsertAny(one, extra)
           three == InsertAny(two, get_tag("HOST_UNIQ"))
<1>1. Reply = insert_tag(three, Cookie)  BY DEF Reply
<1>2. /\ [type |-> "AC_NAME", len |-> AcName] \in Own
      /\ [type |-> "SRV_NAME", len |-> Service] \in Own
      /\ Cookie \in Own
  BY TagsAssumption DEF Own, Cookie, Tag
<1>3. asked \in SUBSET Own /\ get_tag("HOST_UNIQ") \in SUBSET Own  BY GetTagFinds
<1>4. extra \in SUBSET Own  BY <1>2
<1>5. <<>> \in Seq(Own) /\ Len(<<>>) <= NUMTAGS  BY TagsAssumption
<1>6. name \in Seq(Own) /\ Len(name) <= NUMTAGS  BY <1>2, <1>5, Inserted
<1> HIDE DEF name, asked, extra
<1>7. one \in Seq(Own) /\ Len(one) <= NUMTAGS  BY <1>3, <1>6, InsertedAny
<1> HIDE DEF one
<1>8. two \in Seq(Own) /\ Len(two) <= NUMTAGS  BY <1>4, <1>7, InsertedAny
<1> HIDE DEF two
<1>9. three \in Seq(Own) /\ Len(three) <= NUMTAGS  BY <1>3, <1>8, InsertedAny
<1> HIDE DEF three
<1> QED BY <1>1, <1>2, <1>9, Inserted

(* What came are tags.                                                     *)
LEMMA CameTags ==
    ASSUME NEW ts \in Seq([type : Types, len : Lens])
    PROVE  ts \in Seq(Tag)
<1>1. [type : Types, len : Lens] \subseteq Tag  BY TagsAssumption DEF Tag
<1> QED BY <1>1, SeqMonotonic

(* A step that leaves the frame alone leaves the reply and what can be     *)
(* read of the frame alone.                                                *)
LEMMA FrameKept ==
    ASSUME ph' = ph, end' = end
    PROVE  Seen' = Seen /\ Reply' = Reply
<1>1. Seen' = Seen  BY DEF Seen
<1>2. ASSUME NEW type  PROVE get_tag(type)' = get_tag(type)
  BY <1>1 DEF get_tag
<1>3. get_tag("SRV_NAME")' = get_tag("SRV_NAME")  BY <1>2
<1>4. get_tag("HOST_UNIQ")' = get_tag("HOST_UNIQ")  BY <1>2
<1> QED BY <1>1, <1>3, <1>4 DEF Reply

LEMMA TagsStarts == TagsInit => TagsInv
<1> SUFFICES ASSUME TagsInit  PROVE TagsInv  OBVIOUS
<1>1. TagsTypeOK  BY TagsAssumption DEF TagsInit, TagsTypeOK
<1>2. InsideLength /\ CookieKept  BY DEF TagsInit, InsideLength, CookieKept
<1>3. ph \in Seq([type : Types, len : Lens]) /\ Len(ph) <= MaxTags
  BY TagsAssumption DEF TagsInit
<1> QED BY <1>1, <1>2, <1>3 DEF TagsInit, TagsInv

LEMMA FrameStep == TagsInv /\ FrameArrives => TagsInv'
<1> SUFFICES ASSUME TagsInv, FrameArrives  PROVE TagsInv'  OBVIOUS
<1>1. ph' \in Seq([type : Types, len : Lens]) /\ Len(ph') <= MaxTags
  <2>1. PICK n \in 0..MaxTags : ph' \in [1..n -> [type : Types, len : Lens]]
    BY DEF FrameArrives
  <2>2. n \in Nat /\ n <= MaxTags  BY TagsAssumption
  <2>3. ph' \in Seq([type : Types, len : Lens])  BY <2>1, <2>2, SeqDef
  <2>4. Len(ph') = n  BY <2>1, <2>2, <2>3, LenProperties
  <2> QED BY <2>2, <2>3, <2>4
<1>2. Sum(ph') \in Nat
  <2>1. ph' \in Seq(Tag)  BY <1>1, CameTags
  <2>2. Len(ph') \in 0..Len(ph') /\ Len(ph') \in Len(ph')..Len(ph')  BY <1>1
  <2> QED BY <2>1, <2>2, UptoBounds DEF Sum
<1>3. i = 0 /\ pos = 0 /\ tags = <<>> /\ length = 0  BY DEF TagsInv, FrameArrives
<1>4. i' = 0 /\ pos' = 0 /\ tags' = <<>> /\ length' = 0 /\ tagPc' = "tags"
  BY <1>3 DEF FrameArrives
<1>5. TagsTypeOK'  BY <1>2, <1>4, TagsAssumption DEF FrameArrives, TagsTypeOK
<1>6. InsideLength'  BY <1>4 DEF InsideLength
<1>7. CookieKept'  BY <1>4 DEF CookieKept
<1> QED BY <1>1, <1>4, <1>5, <1>6, <1>7 DEF TagsInv

LEMMA FillStep == TagsInv /\ FillTags => TagsInv'
<1> SUFFICES ASSUME TagsInv, FillTags  PROVE TagsInv'  OBVIOUS
<1>1. ph \in Seq(Tag)  BY CameTags DEF TagsInv
<1>2. Reply \in Seq(Own) /\ Len(Reply) <= NUMTAGS  BY <1>1, ReplyOwn
<1>3. Seen' = Seen /\ Reply' = Reply  BY FrameKept DEF FillTags
<1>4. /\ ph' = ph /\ got' = got /\ end' = end /\ tags' = Reply /\ tagPc' = "scan"
      /\ i' = 0 /\ pos' = 0 /\ length' = 0
  BY DEF FillTags, TagsInv
<1> HIDE DEF Reply
<1>5. TagsTypeOK'
  <2>1. Own \subseteq Tag  BY DEF Own
  <2> QED BY <1>2, <1>4, <2>1, TagsAssumption DEF TagsInv, TagsTypeOK
<1>6. \A n \in DOMAIN tags' : tags'[n] \in Own  BY <1>2, <1>4
<1>7. InsideLength'  BY <1>3, <1>4, <1>6 DEF InsideLength, Own
<1>8. Scanned'
  <2>1. Relays(tags') = {}  BY <1>6 DEF Relays, Own
  <2> DEFINE from == [n \in {} |-> 0]
  <2>2. from \in [Relays(tags') -> Relays(ph')]  BY <2>1
  <2>3. InOrder(from)'  BY <2>1 DEF InOrder
  <2>4. ph' \in Seq(Tag)  BY <1>1, <1>4
  <2>5. \A k \in Relays(ph') : k > 0  BY <2>4 DEF Relays
  <2>6. \A k \in Relays(ph') : ~ (k <= i')
    <3> SUFFICES ASSUME NEW k \in Relays(ph'), k <= i'  PROVE FALSE  OBVIOUS
    <3>1. k \in 1..Len(ph')  BY <2>4 DEF Relays
    <3> QED BY <1>4, <3>1
  <2>7. \A k \in 1..i' : ph'[k].type # "EOL"  BY <1>4
  <2>8. \A n \in Relays(tags') : from[n] <= i'  BY <2>1
  <2> HIDE DEF from
  <2> QED BY <2>2, <2>3, <2>6, <2>7, <2>8 DEF Scanned
<1>9. pos' = Upto(ph', i') /\ i' <= Len(ph')
  <2>1. Upto(ph, 0) = 0  BY UptoStep
  <2> QED BY <1>1, <1>4, <2>1
<1>10. ReplyFirst'  BY <1>2, <1>3, <1>4 DEF ReplyFirst
<1>11. CookieKept'  BY <1>4 DEF CookieKept
<1>12. ph' \in Seq([type : Types, len : Lens]) /\ Len(ph') <= MaxTags
  BY <1>4 DEF TagsInv
<1> QED BY <1>4, <1>5, <1>7, <1>8, <1>9, <1>10, <1>11, <1>12 DEF TagsInv

(* What the invariant says of the kinds of the frame and the reply         *)
LEMMA TagKinds ==
    ASSUME TagsInv
    PROVE  /\ ph \in Seq(Tag) /\ Len(ph) \in Nat /\ Len(ph) <= MaxTags
           /\ tags \in Seq(Tag) /\ Len(tags) \in Nat /\ Len(tags) <= NUMTAGS
           /\ i \in Nat /\ end \in Nat /\ got \in Nat /\ pos \in 0..end
<1>1. ph \in Seq(Tag)  BY CameTags DEF TagsInv
<1>2. i \in Nat  BY TagsAssumption DEF TagsInv, TagsTypeOK
<1> QED BY <1>1, <1>2 DEF TagsInv, TagsTypeOK

(* A scanned tag that is not passed on: the reply stays as it was.         *)
LEMMA ScanSkips ==
    ASSUME TagsInv, scan_tags, tags' = tags,
           ph[i + 1].type = "RELAY_SID" => Len(tags) = NUMTAGS
    PROVE  Scanned' /\ InsideLength' /\ ReplyFirst'
<1>1. /\ ph' = ph /\ got' = got /\ end' = end /\ i' = i + 1
      /\ ph[i + 1].type # "EOL" /\ Scanned /\ ReplyFirst /\ InsideLength
  BY DEF scan_tags, ScanGoes, TagsInv
<1>2. Seen' = Seen /\ Reply' = Reply  BY <1>1, FrameKept
<1>3. ph \in Seq(Tag) /\ i \in Nat /\ Len(tags) \in Nat
  BY TagKinds
<1>4. PICK from \in [Relays(tags) -> Relays(ph)] :
        /\ InOrder(from)
        /\ \A n \in Relays(tags) : from[n] <= i
        /\ \A k \in 1..i : ph[k].type # "EOL"
        /\ Len(tags) < NUMTAGS =>
              \A k \in Relays(ph) : k <= i => \E m \in Relays(tags) : from[m] = k
  BY <1>1 DEF Scanned
<1>5. \A n \in Relays(tags) : from[n] \in Nat  BY <1>3, <1>4 DEF Relays
<1>6. Scanned'
  <2>1. InOrder(from)'  BY <1>1, <1>4 DEF InOrder
  <2>2. \A n \in Relays(tags) : from[n] <= i + 1  BY <1>3, <1>4, <1>5
  <2>3. \A k \in 1..(i + 1) : ph[k].type # "EOL"
    <3>1. \A k \in 1..(i + 1) : k \in 1..i \/ k = i + 1  BY <1>3
    <3> QED BY <1>1, <1>4, <3>1
  <2>4. ASSUME Len(tags) < NUMTAGS, NEW k \in Relays(ph), k <= i + 1
        PROVE  \E m \in Relays(tags) : from[m] = k
    <3>1. k \in Nat /\ ph[k].type = "RELAY_SID"  BY <1>3 DEF Relays
    <3>2. k # i + 1  BY <2>4, <3>1, TagsAssumption
    <3>3. k <= i  BY <1>3, <2>4, <3>1, <3>2
    <3> QED BY <1>4, <2>4, <3>3
  <2> QED BY <1>1, <1>4, <2>1, <2>2, <2>3, <2>4 DEF Scanned
<1>7. InsideLength'  BY <1>1, <1>2 DEF InsideLength
<1>8. ReplyFirst'  BY <1>1, <1>2 DEF ReplyFirst
<1> QED BY <1>6, <1>7, <1>8

(* A relay's tag goes to the end of the reply, and from there to i + 1.    *)
LEMMA ScanPasses ==
    ASSUME TagsInv, scan_tags, tags' = Append(tags, ph[i + 1]),
           ph[i + 1].type = "RELAY_SID", Len(tags) < NUMTAGS
    PROVE  Scanned' /\ InsideLength' /\ ReplyFirst'
<1>1. /\ ph' = ph /\ got' = got /\ end' = end /\ i' = i + 1 /\ i < Len(ph)
      /\ pos = Upto(ph, i) /\ pos + Size(ph[i + 1]) <= end
      /\ ph[i + 1].type # "EOL" /\ Scanned /\ ReplyFirst /\ InsideLength
  BY DEF scan_tags, ScanGoes, TagsInv
<1>2. Seen' = Seen /\ Reply' = Reply  BY <1>1, FrameKept
<1>3. /\ ph \in Seq(Tag) /\ Len(ph) \in Nat /\ i \in Nat
      /\ tags \in Seq(Tag) /\ Len(tags) \in Nat
  BY TagKinds
<1>4. i + 1 \in 1..Len(ph) /\ ph[i + 1] \in Tag /\ i + 1 \in Relays(ph)
  BY <1>1, <1>3 DEF Relays
<1> DEFINE last == Len(tags) + 1
<1>5. /\ tags' \in Seq(Tag) /\ Len(tags') = last
      /\ \A n \in 1..Len(tags) : tags'[n] = tags[n]
      /\ tags'[last] = ph[i + 1]
  BY <1>3, <1>4, AppendProperties
<1>6. /\ Relays(tags) \subseteq 1..Len(tags)
      /\ Relays(tags') = Relays(tags) \cup {last}
  BY <1>3, <1>4, <1>5 DEF Relays
<1>7. PICK old \in [Relays(tags) -> Relays(ph)] :
        /\ InOrder(old)
        /\ \A n \in Relays(tags) : old[n] <= i
        /\ \A k \in 1..i : ph[k].type # "EOL"
        /\ Len(tags) < NUMTAGS =>
              \A k \in Relays(ph) : k <= i => \E m \in Relays(tags) : old[m] = k
  BY <1>1 DEF Scanned
<1>0. PICK from :
         from = [n \in Relays(tags') |-> IF n \in Relays(tags) THEN old[n] ELSE i + 1]
  OBVIOUS
<1>8. last \notin Relays(tags) /\ \A n \in Relays(tags) : n < last  BY <1>3, <1>6
<1>9. from \in [Relays(tags') -> Relays(ph)]  BY <1>4, <1>6, <1>0
<1>10. from[last] = i + 1 /\ \A n \in Relays(tags) : from[n] = old[n]  BY <1>6, <1>8, <1>0
<1>11. \A n \in Relays(tags) : old[n] \in Nat /\ old[n] <= i
  BY <1>3, <1>7 DEF Relays
<1>12. \A n \in Relays(tags') : from[n] \in Nat /\ from[n] <= i + 1
  BY <1>3, <1>6, <1>10, <1>11
<1>13. \A k \in 1..(i + 1) : ph[k].type # "EOL"
  <2>1. \A k \in 1..(i + 1) : k \in 1..i \/ k = i + 1  BY <1>3
  <2> QED BY <1>1, <1>7, <2>1
<1>14. ASSUME NEW k \in Relays(ph), k <= i + 1
       PROVE  \E m \in Relays(tags') : from[m] = k
  <2>1. k \in Nat  BY <1>3 DEF Relays
  <2>2. CASE k = i + 1  BY <1>6, <1>10, <2>2
  <2>3. CASE k <= i
    <3>1. PICK m \in Relays(tags) : old[m] = k  BY <1>7, <2>3
    <3> QED BY <1>6, <1>10, <3>1
  <2> QED BY <1>3, <1>14, <2>1, <2>2, <2>3
<1>15. InOrder(from)'
  <2>1. \A n \in Relays(tags') : ph[from[n]] = tags'[n]
    <3>1. ASSUME NEW n \in Relays(tags)  PROVE ph[old[n]] = tags[n] /\ tags'[n] = tags[n]
      BY <1>5, <1>6, <1>7 DEF InOrder
    <3> QED BY <1>5, <1>6, <1>10, <3>1
  <2>2. ASSUME NEW m \in Relays(tags'), NEW n \in Relays(tags'), m < n
        PROVE  from[m] < from[n]
    <3>1. m \in Nat /\ n \in Nat  BY <1>3, <1>6
    <3>2. m \in Relays(tags)  BY <1>6, <1>8, <2>2, <3>1
    <3>3. CASE n \in Relays(tags)  BY <1>7, <1>10, <2>2, <3>2, <3>3 DEF InOrder
    <3>4. CASE n = last  BY <1>3, <1>10, <1>11, <3>2, <3>4
    <3> QED BY <1>6, <3>3, <3>4
  <2>3. ASSUME NEW n \in Relays(tags'), NEW k \in 1..from[n]
        PROVE  /\ ph[k].type # "EOL"
               /\ k \in Relays(ph) => \E m \in Relays(tags') : from[m] = k
    <3>1. k \in 1..(i + 1) /\ k <= i + 1  BY <1>3, <1>12
    <3> QED BY <1>13, <1>14, <3>1
  <2> QED BY <1>1, <2>1, <2>2, <2>3 DEF InOrder
<1>16. Scanned'  BY <1>1, <1>9, <1>12, <1>13, <1>14, <1>15 DEF Scanned
<1>17. InsideLength'
  <2>1. i + 1 \in Seen
    <3>1. Upto(ph, i + 1) = pos + Size(ph[i + 1])  BY <1>1, <1>3, UptoStep
    <3> QED BY <1>1, <1>4, <3>1 DEF Seen
  <2> SUFFICES ASSUME NEW n \in DOMAIN tags', tags'[n].type \in {"HOST_UNIQ", "RELAY_SID"}
               PROVE  \E m \in Seen : ph[m] = tags'[n]
    BY <1>1, <1>2 DEF InsideLength
  <2>2. n \in 1..Len(tags) \/ n = last  BY <1>3, <1>5
  <2>3. CASE n \in 1..Len(tags)  BY <1>1, <1>3, <1>5, <2>3 DEF InsideLength
  <2>4. CASE n = last  BY <1>5, <2>1, <2>4
  <2> QED BY <2>2, <2>3, <2>4
<1>18. ReplyFirst'
  <2>1. Reply \in Seq(Own)  BY <1>3, ReplyOwn
  <2>2. \A n \in DOMAIN Reply : n \in 1..Len(tags)  BY <1>1, <1>3, <2>1 DEF ReplyFirst
  <2> HIDE DEF Reply
  <2> QED BY <1>1, <1>2, <1>3, <1>5, <2>1, <2>2 DEF ReplyFirst
<1> QED BY <1>16, <1>17, <1>18

LEMMA ScanStep == TagsInv /\ scan_tags => TagsInv'
<1> SUFFICES ASSUME TagsInv, scan_tags  PROVE TagsInv'  OBVIOUS
<1>1. /\ ph' = ph /\ got' = got /\ end' = end /\ tagPc' = tagPc /\ length' = length /\ tagPc = "scan"
      /\ i' = i + 1 /\ pos' = pos + Size(ph[i + 1])
      /\ i < Len(ph) /\ pos + Size(ph[i + 1]) <= end /\ length = 0 /\ pos = Upto(ph, i)
  BY DEF scan_tags, ScanGoes, TagsInv
<1>2. /\ ph \in Seq(Tag) /\ Len(ph) \in Nat /\ Len(ph) <= MaxTags
      /\ i \in Nat /\ pos \in 0..end /\ end \in Nat /\ got \in Nat
      /\ tags \in Seq(Tag) /\ Len(tags) \in Nat /\ Len(tags) <= NUMTAGS
  BY TagKinds
<1>3. i + 1 \in 1..Len(ph) /\ ph[i + 1] \in Tag  BY <1>1, <1>2
<1>4. Scanned' /\ InsideLength' /\ ReplyFirst' /\ tags' \in Seq(Tag) /\ Len(tags') <= NUMTAGS
  <2>1. CASE ph[i + 1].type # "RELAY_SID"
    <3>1. tags' = tags  BY <2>1 DEF scan_tags
    <3> QED BY <1>2, <2>1, <3>1, ScanSkips
  <2>2. CASE ph[i + 1].type = "RELAY_SID" /\ Len(tags) = NUMTAGS
    <3>1. tags' = tags  BY <1>2, <2>2, TagsAssumption DEF scan_tags, insert_tag
    <3> QED BY <1>2, <2>2, <3>1, ScanSkips
  <2>3. CASE ph[i + 1].type = "RELAY_SID" /\ Len(tags) < NUMTAGS
    <3>1. tags' = Append(tags, ph[i + 1])  BY <2>3 DEF scan_tags, insert_tag
    <3>2. tags' \in Seq(Tag) /\ Len(tags') = Len(tags) + 1
      BY <1>2, <1>3, <3>1, AppendProperties
    <3> QED BY <1>2, <2>3, <3>1, <3>2, ScanPasses, TagsAssumption
  <2> QED BY <1>2, <2>1, <2>2, <2>3, TagsAssumption
<1>5. pos' = Upto(ph', i')  BY <1>1, <1>2, UptoStep
<1>6. pos' \in 0..end'
  <2>1. ph[i + 1].len \in Nat  BY <1>3 DEF Tag
  <2> QED BY <1>1, <1>2, <2>1, TagsAssumption DEF Size
<1>7. TagsTypeOK'  BY <1>1, <1>2, <1>3, <1>4, <1>6, TagsAssumption DEF TagsTypeOK
<1>8. CookieKept'  BY <1>1 DEF CookieKept
<1>9. ph' \in Seq([type : Types, len : Lens]) /\ i' <= Len(ph') /\ length' = 0
  BY <1>1, <1>3 DEF TagsInv
<1> QED BY <1>1, <1>2, <1>4, <1>5, <1>7, <1>8, <1>9 DEF TagsInv

LEMMA ScanEndStep == TagsInv /\ ScanDone => TagsInv'
<1> SUFFICES ASSUME TagsInv, ScanDone  PROVE TagsInv'  OBVIOUS
<1>1. /\ ph' = ph /\ got' = got /\ end' = end /\ tags' = tags /\ length' = length /\ tagPc = "scan"
      /\ tagPc' = "make" /\ i' = 0 /\ pos' = 0 /\ length = 0
      /\ Scanned /\ ReplyFirst /\ InsideLength
  BY DEF ScanDone, TagsInv
<1>2. Seen' = Seen /\ Reply' = Reply  BY <1>1, FrameKept
<1>3. TagsTypeOK'  BY <1>1, TagsAssumption DEF TagsInv, TagsTypeOK
<1>4. length' = Upto(tags', i') /\ length' <= Room
  <2>1. Upto(tags, 0) = 0  BY UptoStep
  <2> QED BY <1>1, <2>1, TagsAssumption
<1>5. \E from \in [Relays(tags') -> Relays(ph')] : InOrder(from)'
  BY <1>1 DEF Scanned, InOrder
<1>6. InsideLength' /\ ReplyFirst' /\ CookieKept'
  BY <1>1, <1>2 DEF InsideLength, ReplyFirst, CookieKept
<1>7. i' <= Len(tags')  BY <1>1 DEF TagsInv, TagsTypeOK
<1>8. ph' \in Seq([type : Types, len : Lens]) /\ Len(ph') <= MaxTags  BY <1>1 DEF TagsInv
<1> QED BY <1>1, <1>3, <1>4, <1>5, <1>6, <1>7, <1>8 DEF TagsInv

LEMMA MakeStep == TagsInv /\ make_packet => TagsInv'
<1> SUFFICES ASSUME TagsInv, make_packet  PROVE TagsInv'  OBVIOUS
<1>1. /\ ph' = ph /\ got' = got /\ end' = end /\ tags' = tags /\ pos' = pos
      /\ tagPc = "make" /\ tagPc' = "make"
      /\ i' = i + 1 /\ length' = length + Size(tags[i + 1])
      /\ i < Len(tags) /\ length + Size(tags[i + 1]) <= Room /\ length = Upto(tags, i)
      /\ InsideLength /\ ReplyFirst
  BY DEF make_packet, MakeGoes, TagsInv
<1>2. Seen' = Seen /\ Reply' = Reply  BY <1>1, FrameKept
<1>3. i' <= Len(tags') /\ i' \in Nat /\ Len(tags) <= NUMTAGS  BY <1>1, TagKinds
<1>4. length' = Upto(tags', i') /\ length' <= Room  BY <1>1, TagKinds, UptoStep
<1>5. TagsTypeOK'  BY <1>1, <1>3, TagKinds, TagsAssumption DEF TagsTypeOK
<1>6. \E from \in [Relays(tags') -> Relays(ph')] : InOrder(from)'
  BY <1>1 DEF TagsInv, InOrder
<1>7. InsideLength' /\ ReplyFirst' /\ CookieKept'
  BY <1>1, <1>2 DEF InsideLength, ReplyFirst, CookieKept
<1>8. ph' \in Seq([type : Types, len : Lens]) /\ Len(ph') <= MaxTags  BY <1>1 DEF TagsInv
<1> QED BY <1>1, <1>3, <1>4, <1>5, <1>6, <1>7, <1>8 DEF TagsInv

LEMMA MakeDoneStep == TagsInv /\ MakeDone => TagsInv'
<1> SUFFICES ASSUME TagsInv, MakeDone  PROVE TagsInv'  OBVIOUS
<1>1. /\ ph' = ph /\ got' = got /\ end' = end /\ tags' = SubSeq(tags, 1, i) /\ pos' = pos
      /\ tagPc = "make" /\ tagPc' = "done" /\ i' = i /\ length' = length
      /\ i <= Len(tags) /\ length = Upto(tags, i) /\ length <= Room
      /\ ~ MakeGoes /\ InsideLength /\ ReplyFirst
  BY DEF MakeDone, TagsInv
<1>2. Seen' = Seen /\ Reply' = Reply  BY <1>1, FrameKept
<1>3. /\ ph \in Seq(Tag) /\ Len(ph) \in Nat
      /\ tags \in Seq(Tag) /\ Len(tags) \in Nat /\ Len(tags) <= NUMTAGS /\ i \in Nat
  BY TagKinds
<1>4. /\ tags' \in Seq(Tag) /\ Len(tags') = i /\ DOMAIN tags' = 1..i
      /\ \A n \in 1..i : n \in DOMAIN tags /\ tags'[n] = tags[n]
  <2>1. \A n \in 1..i : tags[n] \in Tag /\ n \in DOMAIN tags  BY <1>1, <1>3
  <2>2. 1 \in Int /\ i \in Int  BY <1>3
  <2>3. /\ SubSeq(tags, 1, i) \in Seq(Tag)
        /\ Len(SubSeq(tags, 1, i)) = IF 1 <= i THEN i - 1 + 1 ELSE 0
        /\ \A n \in 1..(i - 1 + 1) : SubSeq(tags, 1, i)[n] = tags[1 + n - 1]
    BY <2>1, <2>2, SubSeqProperties
  <2>4. Len(tags') = i  BY <1>1, <1>3, <2>3
  <2>5. tags' \in Seq(Tag) /\ DOMAIN tags' = 1..i  BY <1>1, <2>3, <2>4
  <2>6. ASSUME NEW n \in 1..i  PROVE tags'[n] = tags[n]
    <3>1. n \in 1..(i - 1 + 1) /\ 1 + n - 1 = n  BY <1>3
    <3> QED BY <1>1, <2>3, <3>1
  <2> QED BY <2>1, <2>4, <2>5, <2>6
<1>5. length' = Upto(tags', i')  BY <1>1, <1>3, <1>4, UptoSame
<1>6. TagsTypeOK'  BY <1>1, <1>3, <1>4, TagKinds, TagsAssumption DEF TagsTypeOK
<1>7. InsideLength'  BY <1>1, <1>2, <1>4 DEF InsideLength
<1>8. CookieKept'
  <2> SUFFICES ASSUME Sum(Reply) <= Room
               PROVE  Len(Reply) <= Len(tags') /\ \A n \in DOMAIN Reply : tags'[n] = Reply[n]
    BY <1>2 DEF CookieKept
  <2>1. Reply \in Seq(Own)  BY <1>3, ReplyOwn
  <2> DEFINE r == Reply
  <2>2. r \in Seq(Tag) /\ Len(r) \in Nat
    <3>1. Own \subseteq Tag  BY DEF Own
    <3> QED BY <2>1, <3>1, SeqMonotonic
  <2>3. Len(r) <= Len(tags) /\ \A n \in 1..Len(r) : tags[n] = r[n]
    BY <1>1, <2>2 DEF ReplyFirst
  <2>4. Upto(r, Len(r)) <= Room  BY DEF Sum
  <2> HIDE DEF r
  <2>5. Len(r) <= i
    <3> SUFFICES ASSUME i < Len(r)  PROVE FALSE  BY <1>3, <2>2
    <3>1. Upto(tags, i + 1) = length + Size(tags[i + 1])  BY <1>1, <1>3, UptoStep
    <3>2. i + 1 \in Nat /\ i + 1 <= Len(r) /\ \A n \in 1..(i + 1) : n \in 1..Len(r)
      BY <1>3, <2>2
    <3>3. Upto(tags, i + 1) = Upto(r, i + 1)  BY <2>3, <3>2, UptoSame
    <3>4. i + 1 \in 0..Len(r) /\ Len(r) \in (i + 1)..Len(r)  BY <2>2, <3>2
    <3>5. /\ Upto(r, i + 1) \in Nat /\ Upto(r, Len(r)) \in Nat
          /\ Upto(r, i + 1) <= Upto(r, Len(r))
      BY <2>2, <3>4, UptoBounds
    <3>6. length + Size(tags[i + 1]) <= Room
      BY <2>4, <3>1, <3>3, <3>5, TagsAssumption
    <3>7. i < Len(tags)  BY <1>3, <2>2, <2>3
    <3> QED BY <1>1, <3>6, <3>7 DEF MakeGoes
  <2>6. \A n \in 1..Len(r) : tags'[n] = r[n]  BY <1>3, <1>4, <2>2, <2>3, <2>5
  <2> QED BY <1>4, <2>2, <2>5, <2>6 DEF r
<1>9. \E from \in [Relays(tags') -> Relays(ph')] : InOrder(from)'
  <2>1. PICK old \in [Relays(tags) -> Relays(ph)] : InOrder(old)  BY <1>1 DEF TagsInv
  <2>2. /\ Relays(tags') = Relays(tags) \cap (1..i) /\ Relays(tags) \subseteq 1..Len(tags)
        /\ Relays(ph) \subseteq 1..Len(ph)
    BY <1>3, <1>4 DEF Relays
  <2>3. PICK from : from = [n \in Relays(tags') |-> old[n]]  OBVIOUS
  <2>4. from \in [Relays(tags') -> Relays(ph)]  BY <2>2, <2>3
  <2>5. \A n \in Relays(tags') : n \in Relays(tags) /\ n \in 1..i /\ from[n] = old[n]
    BY <2>2, <2>3
  <2>6. \A n \in Relays(tags') : ph[from[n]] = tags'[n]
    BY <1>4, <2>1, <2>5 DEF InOrder
  <2>7. \A m, n \in Relays(tags') : m < n => from[m] < from[n]
    BY <2>1, <2>5 DEF InOrder
  <2>8. ASSUME NEW n \in Relays(tags'), NEW k \in 1..from[n]
        PROVE  /\ ph[k].type # "EOL"
               /\ k \in Relays(ph) => \E m \in Relays(tags') : from[m] = k
    <3>1. n \in Relays(tags) /\ n \in 1..i /\ k \in 1..old[n]  BY <2>5
    <3>2. /\ ph[k].type # "EOL"
          /\ k \in Relays(ph) => \E m \in Relays(tags) : old[m] = k
      BY <2>1, <3>1 DEF InOrder
    <3> SUFFICES ASSUME k \in Relays(ph)  PROVE \E m \in Relays(tags') : from[m] = k
      BY <3>2
    <3>3. PICK m \in Relays(tags) : old[m] = k  BY <3>2
    <3>4. m \in 1..Len(tags) /\ old[n] \in 1..Len(ph)  BY <2>1, <2>2, <3>1
    <3>5. m <= n
      <4> SUFFICES ASSUME n < m  PROVE FALSE  BY <1>3, <3>1, <3>4
      <4>1. old[n] < old[m]  BY <2>1, <3>1 DEF InOrder
      <4> QED BY <1>3, <3>1, <3>3, <3>4, <4>1
    <3>6. m \in Relays(tags')  BY <1>3, <2>2, <3>1, <3>4, <3>5
    <3> QED BY <2>5, <3>3, <3>6
  <2>9. InOrder(from)'  BY <1>1, <2>6, <2>7, <2>8 DEF InOrder
  <2> QED BY <1>1, <2>4, <2>9
<1>10. i' = Len(tags') /\ i' <= Len(tags')  BY <1>1, <1>3, <1>4
<1>11. ph' \in Seq([type : Types, len : Lens]) /\ Len(ph') <= MaxTags  BY <1>1 DEF TagsInv
<1> QED BY <1>1, <1>5, <1>6, <1>7, <1>8, <1>9, <1>10, <1>11 DEF TagsInv

LEMMA TagsSteps == TagsInv /\ [TagsNext]_tagsVars => TagsInv'
<1>1. TagsInv /\ UNCHANGED tagsVars => TagsInv'
  <2> SUFFICES ASSUME TagsInv, UNCHANGED tagsVars  PROVE TagsInv'  OBVIOUS
  <2>1. /\ ph' = ph /\ got' = got /\ end' = end /\ tagPc' = tagPc /\ i' = i /\ pos' = pos
        /\ tags' = tags /\ length' = length
    BY DEF tagsVars
  <2>2. Seen' = Seen /\ Reply' = Reply  BY <2>1, FrameKept
  <2>3. InsideLength' = InsideLength /\ ReplyFirst' = ReplyFirst /\ CookieKept' = CookieKept
    BY <2>1, <2>2 DEF InsideLength, ReplyFirst, CookieKept
  <2>4. Scanned' = Scanned  BY <2>1 DEF Scanned, InOrder
  <2>5. (\E from \in [Relays(tags) -> Relays(ph)] : InOrder(from))
           => \E from \in [Relays(tags') -> Relays(ph')] : InOrder(from)'
    BY <2>1 DEF InOrder
  <2>6. TagsTypeOK'  BY <2>1 DEF TagsInv, TagsTypeOK
  <2> QED BY <2>1, <2>3, <2>4, <2>5, <2>6 DEF TagsInv
<1> QED
  BY <1>1, FrameStep, FillStep, ScanStep, ScanEndStep, MakeStep, MakeDoneStep
  DEF TagsNext, TagsWork

(* Whatever tags a PADI brings, whatever lies behind it and whatever its   *)
(* lengths say: the reply is a packet of whole tags that fits the frame    *)
(* and the session's array, holds of the peer's tags only what lies inside *)
(* the length the frame gives (which is what came, unless it gives more),  *)
(* passes the relays' tags on in order and without a gap, and is never     *)
(* short of the cookie because of them.                                    *)
THEOREM TagsAreRight == TagsSpec => []TagsRight
<1>1. TagsInv => TagsRight
  <2> SUFFICES ASSUME TagsInv  PROVE TagsRight  OBVIOUS
  <2>1. WholeTags  BY DEF TagsInv, WholeTags, Sum
  <2>2. RelaysInOrder  BY DEF TagsInv, RelaysInOrder
  <2>3. OnlyWhatCame
    <3> SUFFICES ASSUME end <= got, NEW n \in DOMAIN tags,
                        tags[n].type \in {"HOST_UNIQ", "RELAY_SID"}
                 PROVE  \E m \in DOMAIN ph : ph[m] = tags[n] /\ Upto(ph, m) <= got
      BY DEF OnlyWhatCame
    <3>1. PICK m \in Seen : ph[m] = tags[n]  BY DEF TagsInv, InsideLength
    <3>2. ph \in Seq(Tag) /\ Len(ph) \in Nat /\ end \in Nat /\ got \in Nat  BY TagKinds
    <3>3. m \in 1..Len(ph) /\ m \in DOMAIN ph /\ Upto(ph, m) <= end  BY <3>2 DEF Seen
    <3>4. m \in 0..Len(ph) /\ m \in m..Len(ph)  BY <3>2, <3>3
    <3>5. Upto(ph, m) \in Nat  BY <3>2, <3>4, UptoBounds
    <3>6. Upto(ph, m) <= got
      <4> HIDE DEF Upto
      <4> QED BY <3>2, <3>3, <3>5
    <3> QED BY <3>1, <3>3, <3>6
  <2> QED BY <2>1, <2>2, <2>3 DEF TagsInv, TagsRight
<1> QED BY <1>1, TagsStarts, TagsSteps, PTL DEF TagsSpec
=============================================================================
