--------------------------- MODULE NgPppoeProofs ---------------------------
(* Proofs about NgPppoe, for every set of addresses, frames and requests:  *)
(* IndInv is inductive, and the invariants of the runs follow from it; a   *)
(* node keeps services and ids apart, sends only what belongs to its       *)
(* sessions, and implements what PppoeSession promises the daemons.        *)
EXTENDS NgPppoe, SequenceTheorems, TLAPS

----------------------------------------------------------------------------
(* What the list operations preserve, for lists of any length.             *)

(* Putting a new element in front of a list of distinct elements.          *)
LEMMA InsertHeadProperties ==
    ASSUME NEW S, NEW l \in Seq(S), NEW x \in S
    PROVE  /\ InsertHead(l, x) \in Seq(S)
           /\ Members(InsertHead(l, x)) = Members(l) \cup {x}
           /\ NoDuplicates(l) /\ x \notin Members(l) => NoDuplicates(InsertHead(l, x))
<1> DEFINE m == <<x>> \o l
<1>1. /\ m \in Seq(S) /\ Len(m) = Len(l) + 1 /\ DOMAIN m = 1..(Len(l) + 1)
      /\ DOMAIN l = 1..Len(l) /\ Len(l) \in Nat
      /\ m[1] = x /\ \A i \in 1..Len(l) : m[i + 1] = l[i]
  OBVIOUS
<1>2. \A i \in 2..(Len(l) + 1) : i - 1 \in 1..Len(l) /\ m[i] = l[i - 1]
  <2> TAKE i \in 2..(Len(l) + 1)
  <2>1. i - 1 \in 1..Len(l) /\ (i - 1) + 1 = i  BY <1>1
  <2> QED BY <1>1, <2>1
<1>3. Members(m) = Members(l) \cup {x}
  <2>1. Members(m) \subseteq Members(l) \cup {x}
    <3> SUFFICES ASSUME NEW i \in DOMAIN m PROVE m[i] \in Members(l) \cup {x}
      BY DEF Members
    <3>1. CASE i = 1  BY <3>1, <1>1
    <3>2. CASE i \in 2..(Len(l) + 1)  BY <3>2, <1>1, <1>2 DEF Members
    <3> QED BY <3>1, <3>2, <1>1
  <2>2. x \in Members(m)  BY <1>1 DEF Members
  <2>3. Members(l) \subseteq Members(m)
    <3> SUFFICES ASSUME NEW i \in DOMAIN l PROVE l[i] \in Members(m)
      BY DEF Members
    <3>1. i + 1 \in DOMAIN m /\ m[i + 1] = l[i]  BY <1>1
    <3> QED BY <3>1 DEF Members
  <2> QED BY <2>1, <2>2, <2>3
<1>4. ASSUME NoDuplicates(l), x \notin Members(l) PROVE NoDuplicates(m)
  <2> SUFFICES ASSUME NEW i \in DOMAIN m, NEW j \in DOMAIN m, m[i] = m[j], i < j
               PROVE  FALSE
    BY <1>1 DEF NoDuplicates
  <2>1. j \in 2..(Len(l) + 1)  BY <1>1
  <2>2. CASE i = 1
    <3>1. j - 1 \in DOMAIN l /\ l[j - 1] = x  BY <2>1, <2>2, <1>1, <1>2
    <3> QED BY <3>1, <1>4 DEF Members
  <2>3. CASE i \in 2..(Len(l) + 1)  BY <2>1, <2>3, <1>1, <1>2, <1>4 DEF NoDuplicates
  <2> QED BY <2>2, <2>3, <1>1
<1> QED BY <1>1, <1>3, <1>4 DEF InsertHead

(* Cutting out the k-th element: the ones before it stay, the others move  *)
(* up.                                                                     *)
LEMMA CutProperties ==
    ASSUME NEW S, NEW l \in Seq(S), NEW n \in Nat, Len(l) = n, NEW k \in 1..n
    PROVE  LET m == SubSeq(l, 1, k - 1) \o SubSeq(l, k + 1, n)
           IN  /\ m \in Seq(S) /\ DOMAIN m = 1..(n - 1)
               /\ \A i \in 1..(k - 1) : m[i] = l[i]
               /\ \A i \in k..(n - 1) : m[i] = l[i + 1]
<1> DEFINE a == SubSeq(l, 1, k - 1)
           b == SubSeq(l, k + 1, n)
           m == a \o b
<1>1. \A i \in 1..n : l[i] \in S  OBVIOUS
<1>2. a \in Seq(S) /\ Len(a) = k - 1 /\ \A i \in 1..(k - 1) : a[i] = l[i]
  <2>1. 1 \in Int /\ k - 1 \in Int /\ \A i \in 1..(k - 1) : l[i] \in S  BY <1>1
  <2>2. /\ a \in Seq(S) /\ Len(a) = IF 1 <= k - 1 THEN k - 1 - 1 + 1 ELSE 0
        /\ \A i \in 1..(k - 1 - 1 + 1) : a[i] = l[1 + i - 1]
    BY <2>1, SubSeqProperties
  <2> HIDE DEF a
  <2>3. k - 1 - 1 + 1 = k - 1 /\ (~(1 <= k - 1) => k - 1 = 0)  OBVIOUS
  <2>4. \A i \in 1..(k - 1) : 1 + i - 1 = i  OBVIOUS
  <2> QED BY <2>2, <2>3, <2>4
<1>3. b \in Seq(S) /\ Len(b) = n - k /\ \A i \in 1..(n - k) : b[i] = l[k + i]
  <2>1. k + 1 \in Int /\ n \in Int /\ \A i \in (k + 1)..n : l[i] \in S  BY <1>1
  <2>2. /\ b \in Seq(S) /\ Len(b) = IF k + 1 <= n THEN n - (k + 1) + 1 ELSE 0
        /\ \A i \in 1..(n - (k + 1) + 1) : b[i] = l[k + 1 + i - 1]
    BY <2>1, SubSeqProperties
  <2> HIDE DEF b
  <2>3. n - (k + 1) + 1 = n - k /\ (~(k + 1 <= n) => n - k = 0)  OBVIOUS
  <2>4. \A i \in 1..(n - k) : k + 1 + i - 1 = k + i  OBVIOUS
  <2> QED BY <2>2, <2>3, <2>4
<1> HIDE DEF a, b
<1>4. /\ m \in Seq(S) /\ Len(m) = Len(a) + Len(b)
      /\ \A i \in 1..(Len(a) + Len(b)) : m[i] = IF i <= Len(a) THEN a[i] ELSE b[i - Len(a)]
  BY <1>2, <1>3, ConcatProperties
<1> HIDE DEF m
<1>5. Len(a) + Len(b) = n - 1  BY <1>2, <1>3
<1>6. DOMAIN m = 1..(n - 1)  BY <1>4, <1>5
<1>7. \A i \in 1..(k - 1) : m[i] = l[i]
  <2> TAKE i \in 1..(k - 1)
  <2>1. i \in 1..(n - 1) /\ i <= k - 1  OBVIOUS
  <2> QED BY <2>1, <1>2, <1>4, <1>5
<1>8. \A i \in k..(n - 1) : m[i] = l[i + 1]
  <2> TAKE i \in k..(n - 1)
  <2>1. /\ i \in 1..(n - 1) /\ ~(i <= k - 1) /\ i - (k - 1) \in 1..(n - k)
        /\ k + (i - (k - 1)) = i + 1
    OBVIOUS
  <2>2. m[i] = b[i - (k - 1)]  BY <2>1, <1>2, <1>4, <1>5
  <2> QED BY <2>1, <2>2, <1>3
<1> QED BY <1>4, <1>6, <1>7, <1>8 DEF m, a, b

(* Taking an element out of a list of distinct elements.                   *)
LEMMA WithoutProperties ==
    ASSUME NEW S, NEW l \in Seq(S), NoDuplicates(l), NEW x \in Members(l)
    PROVE  /\ Without(l, x) \in Seq(S)
           /\ Members(Without(l, x)) = Members(l) \ {x}
           /\ NoDuplicates(Without(l, x))
<1> DEFINE k == CHOOSE j \in DOMAIN l : l[j] = x
           n == Len(l)
           m == SubSeq(l, 1, k - 1) \o SubSeq(l, k + 1, n)
<1>1. k \in 1..n /\ l[k] = x /\ DOMAIN l = 1..n /\ n \in Nat
  BY DEF Members
<1>2. Without(l, x) = m  BY DEF Without
<1> HIDE DEF k, n
<1>3. /\ m \in Seq(S) /\ DOMAIN m = 1..(n - 1)
      /\ \A i \in 1..(k - 1) : m[i] = l[i]
      /\ \A i \in k..(n - 1) : m[i] = l[i + 1]
  <2>1. Len(l) = n  BY DEF n
  <2> QED BY <1>1, <2>1, CutProperties
<1> HIDE DEF m
<1>4. \A i \in DOMAIN m : LET j == IF i < k THEN i ELSE i + 1
                          IN  j \in DOMAIN l /\ j # k /\ m[i] = l[j]
  <2> TAKE i \in DOMAIN m
  <2>1. CASE i < k
    <3>1. i \in 1..(k - 1) /\ i \in 1..n /\ i # k  BY <2>1, <1>1, <1>3
    <3> QED BY <2>1, <3>1, <1>1, <1>3
  <2>2. CASE ~(i < k)
    <3>1. i \in k..(n - 1) /\ i + 1 \in 1..n /\ i + 1 # k  BY <2>2, <1>1, <1>3
    <3> QED BY <2>2, <3>1, <1>1, <1>3
  <2> QED BY <2>1, <2>2
<1>5. Members(m) = Members(l) \ {x}
  <2>1. ASSUME NEW i \in DOMAIN m PROVE m[i] \in Members(l) \ {x}
    BY <1>1, <1>4 DEF Members, NoDuplicates
  <2>2. ASSUME NEW j \in DOMAIN l, l[j] # x PROVE l[j] \in Members(m)
    <3>1. CASE j < k
      <4>1. j \in DOMAIN m /\ j \in 1..(k - 1)  BY <3>1, <1>1, <1>3
      <4> QED BY <4>1, <1>3 DEF Members
    <3>2. CASE j > k
      <4>1. j - 1 \in DOMAIN m /\ j - 1 \in k..(n - 1) /\ j - 1 + 1 = j
        BY <3>2, <1>1, <1>3
      <4> QED BY <4>1, <1>3 DEF Members
    <3>3. j # k  BY <2>2, <1>1
    <3> QED BY <3>1, <3>2, <3>3, <1>1
  <2> QED BY <2>1, <2>2 DEF Members
<1>6. NoDuplicates(m)
  <2> SUFFICES ASSUME NEW i \in DOMAIN m, NEW j \in DOMAIN m, m[i] = m[j]
               PROVE  i = j
    BY DEF NoDuplicates
  <2>1. (IF i < k THEN i ELSE i + 1) = (IF j < k THEN j ELSE j + 1)
    BY <1>4 DEF NoDuplicates
  <2> QED BY <2>1, <1>1, <1>3
<1> QED BY <1>2, <1>3, <1>5, <1>6

----------------------------------------------------------------------------
(* A step that gives one session the record r, and moves it in or out of   *)
(* the lists and queues as r.state says, keeps the invariant.              *)
LEMMA OneSession ==
    ASSUME IndInv, NEW s \in Sess, NEW r, SessionOK(s, r),
           sess' = [sess EXCEPT ![s] = r],
           hooks' \subseteq Sess, hooks' \ {s} = hooks \ {s},
           s \in hooks' \/ r.state = "SNONE",
           listeners' \in Seq(Sess), NoDuplicates(listeners'),
           Members(listeners') = IF r.state = "LISTENING" THEN Members(listeners) \cup {s}
                                 ELSE Members(listeners) \ {s},
           hash' \in Seq(Sess), NoDuplicates(hash'),
           Members(hash') = IF r.state \in Established THEN Members(hash) \cup {s}
                            ELSE Members(hash) \ {s},
           ticks' \subseteq hooks', ticks' \ {s} = ticks \ {s},
           rmq' \subseteq hooks', rmq' \ {s} = rmq \ {s},
           r.state \in Waiting => r.callout # 0 \/ s \in ticks' \/ s \in rmq',
           node' \in {"gone", "up", "closing"}, node' = "gone" => hooks' = {},
           aux' \subseteq AuxHooks,
           mode' \subseteq {"3Com-aDSL", "D-Link"}, mac' \in Addr,
           pppoe_sid' \in 1..MaxSid, out' \in Output
    PROVE  IndInv'
<1>1. sess \in [Sess -> Session]  BY DEF IndInv, TypeOK
<1>2. r \in Session  BY DEF SessionOK
<1>3. sess' \in [Sess -> Session] /\ sess'[s] = r
      /\ \A t \in Sess \ {s} : sess'[t] = sess[t]
  BY <1>1, <1>2
<1>4. TypeOK'
  <2>1. ticks' \subseteq Sess /\ rmq' \subseteq Sess  OBVIOUS
  <2> QED BY <1>3, <2>1 DEF TypeOK
<1>5. \A t \in Sess : SessionOK(t, sess'[t])  BY <1>3 DEF IndInv
<1>6. \A t \in Sess \ hooks' : sess'[t].state = "SNONE"  BY <1>3 DEF IndInv
<1>7. Members(listeners') = {t \in Sess : sess'[t].state = "LISTENING"}
  BY <1>3 DEF IndInv
<1>8. Members(hash') = {t \in Sess : sess'[t].state \in Established}
  BY <1>3 DEF IndInv
<1>9. \A t \in Sess : sess'[t].state \in Waiting =>
         sess'[t].callout # 0 \/ t \in ticks' \/ t \in rmq'
  BY <1>3 DEF IndInv
<1>10. (\A t \in Sess : SessionOK(t, sess[t]))'
  BY <1>5 DEF SessionOK, PacketOK, HeaderOK
<1> QED BY <1>4, <1>10, <1>6, <1>7, <1>8, <1>9 DEF IndInv, Members, NoDuplicates

(* The same for a session that stays off the listeners, and in or out of   *)
(* the hash.                                                               *)
LEMMA SameLists ==
    ASSUME IndInv, NEW s \in hooks, NEW r, SessionOK(s, r),
           sess' = [sess EXCEPT ![s] = r],
           UNCHANGED <<nodeVars, hooks, listVars>>,
           r.state # "LISTENING" /\ sess[s].state # "LISTENING",
           r.state \in Established <=> sess[s].state \in Established,
           ticks' \subseteq hooks, ticks' \ {s} = ticks \ {s},
           rmq' \subseteq hooks, rmq' \ {s} = rmq \ {s},
           r.state \in Waiting => r.callout # 0 \/ s \in ticks' \/ s \in rmq',
           out' \in Output
    PROVE  IndInv'
<1>1. /\ s \in Sess /\ UNCHANGED <<node, aux, mode, mac, listeners, hash, pppoe_sid>>
      /\ s \notin Members(listeners) /\ (s \in Members(hash) <=> r.state \in Established)
  BY DEF IndInv, TypeOK, nodeVars, listVars
<1>2. /\ listeners' \in Seq(Sess) /\ NoDuplicates(listeners')
      /\ hash' \in Seq(Sess) /\ NoDuplicates(hash')
      /\ node' \in {"gone", "up", "closing"} /\ aux' \subseteq AuxHooks
      /\ mode' \subseteq {"3Com-aDSL", "D-Link"} /\ mac' \in Addr
      /\ pppoe_sid' \in 1..MaxSid /\ hooks' \subseteq Sess
      /\ (node' = "gone" => hooks' = {})
  BY <1>1 DEF IndInv, TypeOK
<1>3. /\ Members(listeners') = Members(listeners) \ {s}
      /\ Members(hash') = IF r.state \in Established THEN Members(hash) \cup {s}
                          ELSE Members(hash) \ {s}
  BY <1>1
<1>4. hooks' \ {s} = hooks \ {s} /\ s \in hooks' /\ ticks' \subseteq hooks'
      /\ rmq' \subseteq hooks'
  OBVIOUS
<1> QED BY <1>1, <1>2, <1>3, <1>4, OneSession

(* A step after which every session, list and queue is as before.          *)
LEMMA NoSession ==
    ASSUME IndInv, UNCHANGED <<hooks, sess, listeners, hash, ticks, rmq>>,
           node' \in {"gone", "up", "closing"}, node' = "gone" => hooks' = {},
           aux' \subseteq AuxHooks,
           mode' \subseteq {"3Com-aDSL", "D-Link"}, mac' \in Addr,
           pppoe_sid' \in 1..MaxSid, out' \in Output
    PROVE  IndInv'
<1>1. TypeOK'  BY DEF IndInv, TypeOK
<1>2. (\A s \in Sess : SessionOK(s, sess[s]))'
  <2>1. \A s \in Sess : SessionOK(s, sess'[s])  BY DEF IndInv
  <2> QED BY <2>1 DEF SessionOK, PacketOK, HeaderOK
<1>3. Members(listeners)' = Members(listeners) /\ Members(hash)' = Members(hash)
  BY DEF Members
<1>4. (NoDuplicates(listeners) /\ NoDuplicates(hash))'  BY DEF IndInv, NoDuplicates
<1> QED BY <1>1, <1>2, <1>3, <1>4 DEF IndInv

----------------------------------------------------------------------------
(* What the parts of frames and blocks are.                                *)
LEMMA FrameParts ==
    /\ \A h \in Header : h # NULL
    /\ \A g \in Neg : g # NULL
    /\ \A f \in Frames : f \in Frame /\ f.hdr.src # Broadcast
    /\ NoTags \in Tags
<1>1. <<>> \in Seq(Name)  OBVIOUS
<1>2. NoTags \in Tags  BY <1>1 DEF NoTags, Tags
<1> QED BY <1>2, InputsAssumption, NullAssumption

(* The empty output is an output.                                          *)
LEMMA SilentOK == Silent \in Output
BY DEF Silent, Output

(* What Emit builds from frames, hooks and events is an output.            *)
LEMMA EmitOK ==
    ASSUME NEW q \in Seq(Frame), NEW u \in SUBSET Sess, NEW m \in Seq(Event)
    PROVE  Emit(q, u, m) \in Output
BY DEF Emit, Output

(* So is what Send builds from frames.                                     *)
LEMMA SendOK == ASSUME NEW q \in Seq(Frame) PROVE Send(q) \in Output
<1>1. {} \in SUBSET Sess /\ <<>> \in Seq(Event)  OBVIOUS
<1> QED BY <1>1, EmitOK DEF Send

(* Events to a hook of the node are events.                                *)
LEMMA TellOK ==
    ASSUME NEW s \in Sess
    PROVE  /\ Tell(s, <<"ACNAME">>) \in Seq(Event)
           /\ Tell(s, <<"CLOSE">>) \in Seq(Event)
           /\ Tell(s, <<"SESSIONID", "SUCCESS">>) \in Seq(Event)
BY DEF Tell, Event

(* Tags with their Service-Names replaced are tags.                        *)
LEMMA SrvOK ==
    ASSUME NEW t \in Tags, NEW q \in Seq(Name)
    PROVE  LET new == [t EXCEPT !.srv = q]
           IN  new \in Tags /\ new.uniq = t.uniq
BY DEF Tags

(* So are the tags of a PADI.                                              *)
LEMMA SrvUniqOK ==
    ASSUME NEW t \in Tags, NEW q \in Seq(Name), NEW u \in Uniq
    PROVE  LET new == [t EXCEPT !.srv = q, !.uniq = u]
           IN  new \in Tags /\ new.uniq = u
BY DEF Tags

(* So are the tags of a PADS.                                              *)
LEMMA SrvAcnOK ==
    ASSUME NEW t \in Tags, NEW q \in Seq(Name), NEW n \in Name
    PROVE  [t EXCEPT !.srv = q, !.acn = n] \in Tags
BY DEF Tags

(* One element makes a sequence.                                           *)
LEMMA SeqOfOne == ASSUME NEW S, NEW x \in S PROVE <<x>> \in Seq(S)
OBVIOUS

(* pppoe_start leaves a session that fits SINIT.                           *)
LEMMA StartedOK ==
    ASSUME TypeOK, NEW s \in Sess, NEW r \in Session, r.neg \in Neg,
           r.sid = 0, r.neg.pkt.hdr.sid = 0
    PROVE  /\ SessionOK(s, Started(s, r))
           /\ Started(s, r).state = "SINIT" /\ Started(s, r).callout # 0
           /\ Started(s, r).neg.pkt \in Frame
<1> DEFINE hdr == [r.neg.pkt.hdr EXCEPT !.etype = ConfigEtype, !.code = "PADI",
                                        !.src = mac, !.dst = Broadcast]
           tags == [NoTags EXCEPT !.srv = <<r.neg.service>>, !.uniq = s]
           neg == [r.neg EXCEPT !.pkt = [hdr |-> hdr, tags |-> tags],
                                !.timeout = InitialTimeout * 2]
           new == [r EXCEPT !.state = "SINIT", !.neg = neg, !.callout = InitialTimeout]
<1>1. r.neg.pkt \in Frame /\ r.neg.pkt.hdr \in Header /\ r.neg.service \in Name
  BY DEF Neg, Frame
<1>2. ConfigEtype \in DiscEtype  BY DEF ConfigEtype, DiscEtype
<1>3. hdr \in Header /\ hdr.code = "PADI" /\ hdr.dst = Broadcast /\ hdr.sid = 0
  BY <1>1, <1>2, ConstantsAssumption DEF Header, Code, TypeOK
<1>4. tags \in Tags /\ tags.uniq = s
  <2>1. <<r.neg.service>> \in Seq(Name)  BY <1>1, SeqOfOne
  <2>2. s \in Uniq /\ NoTags \in Tags  BY ConstantsAssumption, FrameParts
  <2> QED BY <2>1, <2>2, SrvUniqOK, ZenonT(40)
<1>5. neg \in Neg /\ neg.pkt = [hdr |-> hdr, tags |-> tags] /\ neg.timeout # 0
  <2> DEFINE pkt == [hdr |-> hdr, tags |-> tags]
  <2>1. pkt \in Frame  BY <1>3, <1>4 DEF Frame
  <2>2. InitialTimeout * 2 \in 0..TimeoutLimit /\ InitialTimeout * 2 # 0
    BY BoundsAssumption
  <2> HIDE DEF pkt
  <2> QED BY <2>1, <2>2 DEF Neg, pkt
<1>6. /\ new \in Session /\ new.state = "SINIT" /\ new.neg = neg
      /\ new.callout = InitialTimeout /\ new.sid = 0
  <2>1. InitialTimeout \in 0..TimeoutLimit  BY BoundsAssumption
  <2> HIDE DEF neg
  <2> QED BY <1>5, <2>1 DEF Session, State
<1>7. new = Started(s, r)  BY DEF Started
<1> HIDE DEF new, neg, hdr, tags
<1>8. neg # NULL /\ new.callout # 0  BY <1>5, <1>6, FrameParts, BoundsAssumption
<1>9. PacketOK(s, new) /\ HeaderOK(new)
  BY <1>3, <1>4, <1>5, <1>6 DEF PacketOK, HeaderOK, Established, Waiting
<1>10. SessionOK(s, new)
  BY <1>5, <1>6, <1>8, <1>9 DEF SessionOK, Negotiating, State, Waiting, Established
<1>11. neg.pkt \in Frame  BY <1>3, <1>4, <1>5 DEF Frame
<1> QED BY <1>6, <1>7, <1>8, <1>10, <1>11

----------------------------------------------------------------------------
(* Each entry point keeps the invariant.                                   *)
LEMMA NewNegOK ==
    ASSUME IndInv, NEW code \in Code, NEW ac \in Name, NEW svc \in Name
    PROVE  LET neg == NewNeg(code, ac, svc)
           IN  neg \in Neg /\ neg # NULL /\ neg.pkt.hdr.sid = 0 /\ neg.pkt \in Frame
<1>1. ConfigEtype \in DiscEtype /\ mac \in Addr /\ Broadcast \in Addr
  BY ConstantsAssumption DEF ConfigEtype, DiscEtype, IndInv, TypeOK
<1>2. ProtoHeader(code) \in Header /\ ProtoHeader(code).sid = 0
  BY <1>1, BoundsAssumption DEF ProtoHeader, Header
<1>3. NoTags \in Tags  BY FrameParts
<1>4. 0 \in 0..TimeoutLimit  BY BoundsAssumption
<1> QED BY <1>2, <1>3, <1>4, FrameParts DEF NewNeg, Neg, Frame

(* CONNECT starts a client: only the one session changes.                  *)
LEMMA ConnectStep ==
    ASSUME IndInv, NEW s \in Sess, NEW r \in Requests, Connect(s, r)
    PROVE  IndInv'
<1> DEFINE neg == NewNeg("DATA", r.ac, r.svc)
           old == [sess[s] EXCEPT !.neg = neg]
           new == Started(s, old)
<1>1. /\ s \in hooks /\ sess[s].state = "SNONE" /\ sess[s] \in Session
      /\ sess' = [sess EXCEPT ![s] = new]
      /\ UNCHANGED <<nodeVars, hooks, listVars, queueVars>>
      /\ out' = Send(<<new.neg.pkt>>)
  BY DEF Connect, Idle, IndInv, TypeOK
<1>2. r.ac \in Name /\ r.svc \in Name /\ "DATA" \in Code
  BY InputsAssumption DEF Request, Code
<1>3. neg \in Neg /\ neg.pkt.hdr.sid = 0  BY <1>2, NewNegOK
<1>4. sess[s].sid = 0  BY <1>1 DEF IndInv, SessionOK, Established
<1> HIDE DEF neg
<1>5. old \in Session /\ old.neg = neg /\ old.sid = 0
  BY <1>1, <1>3, <1>4 DEF Session
<1> HIDE DEF old
<1>6. /\ SessionOK(s, new) /\ new.state = "SINIT" /\ new.callout # 0
      /\ new.neg.pkt \in Frame
  BY <1>3, <1>5, StartedOK DEF IndInv
<1> HIDE DEF new
<1>7. out' \in Output  BY <1>1, <1>6, SeqOfOne, SendOK
<1>8. ticks' = ticks /\ rmq' = rmq /\ ticks \subseteq hooks /\ rmq \subseteq hooks
  BY <1>1 DEF queueVars, IndInv
<1> QED BY <1>1, <1>6, <1>7, <1>8, SameLists DEF Established

(* LISTEN, wherever it puts the session among the listeners.               *)
LEMMA ListenAnywhere ==
    ASSUME IndInv, NEW s \in Sess, NEW r \in Requests, Idle(s),
           sess' = [sess EXCEPT ![s] = [@ EXCEPT !.state = "LISTENING",
                                                 !.neg = NewNeg("PADT", "", r.svc)]],
           listeners' \in Seq(Sess), NoDuplicates(listeners'),
           Members(listeners') = Members(listeners) \cup {s},
           out' = Silent, UNCHANGED <<nodeVars, hooks, hash, pppoe_sid, queueVars>>
    PROVE  IndInv'
<1> DEFINE neg == NewNeg("PADT", "", r.svc)
           new == [sess[s] EXCEPT !.state = "LISTENING", !.neg = neg]
<1>1. s \in hooks /\ sess[s].state = "SNONE" /\ sess[s] \in Session
      /\ sess' = [sess EXCEPT ![s] = new]
  BY DEF Idle, IndInv, TypeOK
<1>2. r.svc \in Name /\ "PADT" \in Code /\ "" \in Name
  BY InputsAssumption, ConstantsAssumption DEF Request, Code
<1>3. neg \in Neg /\ neg # NULL  BY <1>2, NewNegOK
<1>4. sess[s].sid = 0 /\ sess[s].callout = 0
  BY <1>1 DEF IndInv, SessionOK, Established, Waiting
<1> HIDE DEF neg
<1>5. new \in Session /\ new.neg = neg /\ new.sid = 0 /\ new.callout = 0
      /\ new.state = "LISTENING"
  BY <1>1, <1>3, <1>4 DEF Session, State
<1> HIDE DEF new
<1>6. SessionOK(s, new)
  BY <1>3, <1>5 DEF SessionOK, PacketOK, HeaderOK, Negotiating, State, Waiting, Established
<1>7. s \notin Members(hash)  BY <1>1 DEF IndInv, Established
<1>8. UNCHANGED <<node, aux, mode, mac, hooks, hash, pppoe_sid, ticks, rmq>>
  BY DEF nodeVars, queueVars
<1>9. new.state \notin Established /\ new.state \notin Waiting
  BY <1>5 DEF Established, Waiting
<1> QED
  BY <1>1, <1>5, <1>6, <1>7, <1>8, <1>9, OneSession, SilentOK DEF IndInv, TypeOK

(* LISTEN puts the session at the head of listeners, where it was not.     *)
LEMMA ListenStep ==
    ASSUME IndInv, NEW s \in Sess, NEW r \in Requests, Listen(s, r)
    PROVE  IndInv'
<1>1. s \notin Members(listeners) /\ listeners \in Seq(Sess) /\ NoDuplicates(listeners)
  BY DEF IndInv, TypeOK, Listen, Idle
<1>2. /\ listeners' \in Seq(Sess) /\ NoDuplicates(listeners')
      /\ Members(listeners') = Members(listeners) \cup {s}
  BY <1>1, InsertHeadProperties DEF Listen
<1> QED BY <1>2, ListenAnywhere DEF Listen

(* OFFER primes a server.                                                  *)
LEMMA OfferStep ==
    ASSUME IndInv, NEW s \in Sess, NEW r \in Requests, Offer(s, r)
    PROVE  IndInv'
<1> DEFINE neg == NewNeg("PADO", r.ac, "")
           new == [sess[s] EXCEPT !.state = "PRIMED", !.neg = neg]
<1>1. /\ s \in hooks /\ sess[s].state = "SNONE" /\ sess[s] \in Session
      /\ sess' = [sess EXCEPT ![s] = new] /\ out' = Silent
      /\ UNCHANGED <<nodeVars, hooks, listVars, queueVars>>
  BY DEF Offer, Idle, IndInv, TypeOK
<1>2. r.ac \in Name /\ "PADO" \in Code /\ "" \in Name
  BY InputsAssumption, ConstantsAssumption DEF Request, Code
<1>3. neg \in Neg /\ neg # NULL /\ neg.pkt.hdr.sid = 0  BY <1>2, NewNegOK
<1>4. sess[s].sid = 0 /\ sess[s].callout = 0
  BY <1>1 DEF IndInv, SessionOK, Established, Waiting
<1> HIDE DEF neg
<1>5. new \in Session /\ new.neg = neg /\ new.sid = 0 /\ new.callout = 0
      /\ new.state = "PRIMED"
  BY <1>1, <1>3, <1>4 DEF Session, State
<1> HIDE DEF new
<1>6. SessionOK(s, new)
  BY <1>3, <1>5 DEF SessionOK, PacketOK, HeaderOK, Negotiating, State, Waiting, Established
<1>7. ticks' = ticks /\ rmq' = rmq /\ ticks \subseteq hooks /\ rmq \subseteq hooks
  BY <1>1 DEF queueVars, IndInv
<1> QED BY <1>1, <1>5, <1>6, <1>7, SameLists, SilentOK DEF Established, Waiting

(* SERVICE changes a name in the negotiation block, nothing else.          *)
LEMMA ServiceStep ==
    ASSUME IndInv, NEW s \in Sess, NEW r \in Requests, Service(s, r)
    PROVE  IndInv'
<1> DEFINE neg == [sess[s].neg EXCEPT !.service = r.svc]
           new == [sess[s] EXCEPT !.neg = neg]
<1>1. /\ s \in hooks /\ sess[s].state = "PRIMED" /\ sess[s] \in Session
      /\ SessionOK(s, sess[s])
      /\ sess' = [sess EXCEPT ![s] = new] /\ out' = Silent
      /\ UNCHANGED <<nodeVars, hooks, listVars, queueVars>>
  <2>1. sess' = [sess EXCEPT ![s] = new]  BY DEF Service
  <2>2. sess[s] \in Session /\ SessionOK(s, sess[s])  BY DEF IndInv, TypeOK
  <2> QED BY <2>1, <2>2 DEF Service
<1>2. sess[s].neg \in Neg /\ r.svc \in Name
  BY <1>1, InputsAssumption DEF SessionOK, Session, Negotiating, State, Request
<1>3. neg \in Neg /\ neg # NULL /\ neg.pkt = sess[s].neg.pkt
  BY <1>2, FrameParts DEF Neg
<1> HIDE DEF neg
<1>4. /\ new \in Session /\ new.neg = neg /\ new.sid = sess[s].sid
      /\ new.callout = sess[s].callout /\ new.state = "PRIMED"
  BY <1>1, <1>3 DEF Session
<1> HIDE DEF new
<1>5. SessionOK(s, new)
  BY <1>1, <1>3, <1>4 DEF SessionOK, PacketOK, HeaderOK, Negotiating, State, Waiting, Established
<1>6. ticks' = ticks /\ rmq' = rmq /\ ticks \subseteq hooks /\ rmq \subseteq hooks
  BY <1>1 DEF queueVars, IndInv
<1> QED BY <1>1, <1>4, <1>5, <1>6, SameLists, SilentOK DEF Established, Waiting

(* Session data from the hook goes out and changes nothing.                *)
LEMMA RcvHookDataStep ==
    ASSUME IndInv, NEW s \in Sess, RcvHookData(s)
    PROVE  IndInv'
<1> DEFINE f == [hdr |-> sess[s].hdr, tags |-> NoTags]
<1>1. sess[s].hdr \in Header  BY DEF RcvHookData, IndInv, SessionOK, HeaderOK
<1>2. f \in Frame  BY <1>1, FrameParts DEF Frame
<1> HIDE DEF f
<1>3. Send(<<f>>) \in Output  BY <1>2, SeqOfOne, SendOK
<1>4. out' \in Output  BY <1>3 DEF RcvHookData, f
<1> QED BY <1>4, NoSession DEF RcvHookData, IndInv, TypeOK, nodeVars, listVars, queueVars

(* A PADI is passed to listeners and changes nothing.                      *)
LEMMA RcvPadiStep ==
    ASSUME IndInv, NEW f \in Frames, RcvPadi(f)
    PROVE  IndInv'
<1> DEFINE match == MatchSvc(Head(f.tags.srv))
           up == IF match = {} /\ "D-Link" \in mode /\ Head(f.tags.srv) = ""
                 THEN Members(listeners) ELSE match
<1>1. listeners \in Seq(Sess)  BY DEF IndInv, TypeOK
<1>2. match \subseteq Sess /\ Members(listeners) \subseteq Sess
  <2>1. \A i \in DOMAIN listeners : listeners[i] \in Sess  BY <1>1
  <2>2. Members(listeners) \subseteq Sess  BY <2>1 DEF Members
  <2>3. \A svc : MatchSvc(svc) \subseteq Sess  BY <2>1 DEF MatchSvc, FirstIn
  <2> QED BY <2>2, <2>3
<1>3. out' = Emit(<<>>, up, <<>>)  BY DEF RcvPadi, BroadcastPadi
<1> HIDE DEF match
<1>4. up \in SUBSET Sess  BY <1>2
<1> HIDE DEF up
<1>5. <<>> \in Seq(Frame) /\ <<>> \in Seq(Event)  OBVIOUS
<1>6. out' \in Output  BY <1>3, <1>4, <1>5, EmitOK
<1> QED BY <1>6, NoSession DEF RcvPadi, BroadcastPadi, IndInv, TypeOK, nodeVars, listVars, queueVars

(* Debug data is passed on and changes nothing.                            *)
LEMMA RcvDebugDataStep ==
    ASSUME IndInv, NEW f \in Frames, RcvDebugData(f)
    PROVE  IndInv'
<1>1. Send(<<f>>) \in Output  BY FrameParts, SeqOfOne, SendOK
<1> QED
  BY <1>1, NoSession DEF RcvDebugData, IndInv, TypeOK, nodeVars, listVars, queueVars

(* The first Service-Name of a frame, or none, is a sequence of names.     *)
LEMMA FirstSrvOK == ASSUME NEW t \in Tags PROVE FirstSrv(t) \in Seq(Name)
<1>1. t.srv \in Seq(Name)  BY DEF Tags
<1>2. CASE t.srv = <<>>
  <2>1. FirstSrv(t) = <<>>  BY <1>2 DEF FirstSrv
  <2> QED BY <2>1
<1>3. CASE t.srv # <<>>
  <2>1. Head(t.srv) \in Name  BY <1>1, <1>3
  <2> QED BY <1>3, <2>1, SeqOfOne DEF FirstSrv
<1> QED BY <1>2, <1>3

(* The daemon's PADI makes an offer for its sender.                        *)
LEMMA RcvHookPadiStep ==
    ASSUME IndInv, NEW s \in Sess, NEW f \in Frames, RcvHookPadi(s, f)
    PROVE  IndInv'
<1> DEFINE neg == sess[s].neg
           hdr == [neg.pkt.hdr EXCEPT !.etype = f.hdr.etype]
           hdr2 == [hdr EXCEPT !.code = "PADO", !.dst = f.hdr.src]
           pkt == [hdr |-> hdr, tags |-> neg.pkt.tags]
           pado == [hdr |-> hdr2, tags |-> PadoTags(s, neg, f.tags)]
           neg1 == [neg EXCEPT !.pkt = pkt]
           neg2 == [neg EXCEPT !.pkt = pado, !.timeout = 0]
           new1 == [sess[s] EXCEPT !.neg = neg1]
           new2 == [sess[s] EXCEPT !.state = "SOFFER", !.neg = neg2,
                                   !.callout = OfferTimeout]
<1>1. /\ s \in hooks /\ sess[s].state = "PRIMED" /\ sess[s] \in Session
      /\ SessionOK(s, sess[s]) /\ UNCHANGED <<nodeVars, hooks, listVars, queueVars>>
  BY DEF RcvHookPadi, IndInv, TypeOK
<1>2. \/ sess' = [sess EXCEPT ![s] = new1] /\ out' = Silent
      \/ sess' = [sess EXCEPT ![s] = new2] /\ out' = Send(<<pado>>)
  BY DEF RcvHookPadi
<1>3. /\ neg \in Neg /\ neg.pkt \in Frame /\ neg.pkt.hdr \in Header
      /\ neg.pkt.tags \in Tags /\ neg.pkt.hdr.sid = 0
  BY <1>1 DEF SessionOK, Session, Negotiating, State, PacketOK, Neg, Frame
<1>4. /\ f.hdr \in Header /\ f.hdr.src # Broadcast /\ f.hdr.src \in Addr
      /\ f.hdr.etype \in DiscEtype \cup SessEtype /\ f.tags \in Tags
  BY FrameParts DEF Frame, Header
<1>5. hdr \in Header /\ hdr.sid = 0  BY <1>3, <1>4 DEF Header
<1> HIDE DEF hdr
<1>6. /\ hdr2 \in Header /\ hdr2.sid = 0 /\ hdr2.code = "PADO" /\ hdr2.dst # Broadcast
  BY <1>4, <1>5 DEF Header, Code
<1>7. PadoTags(s, neg, f.tags) \in Tags /\ PadoTags(s, neg, f.tags).cookie = s
  <2>1. neg.service \in Name /\ neg.acname \in Name /\ s \in Uniq
    BY <1>3, ConstantsAssumption DEF Neg
  <2>2. f.tags.srv \in Seq(Name) /\ f.tags.uniq \in Uniq \cup {NULL}  BY <1>4 DEF Tags
  <2> DEFINE q == FirstSrv(f.tags)
             r == q \o <<neg.service>>
  <2>3. q \in Seq(Name)  BY <1>4, FirstSrvOK
  <2> HIDE DEF q
  <2>4. r \in Seq(Name)  BY <2>1, <2>3, SeqOfOne, ConcatProperties
  <2> HIDE DEF r
  <2> QED BY <2>1, <2>2, <2>3, <2>4 DEF PadoTags, Tags, q, r
<1> HIDE DEF hdr2
<1>8. pkt \in Frame /\ pkt.hdr = hdr /\ pado \in Frame /\ pado.hdr = hdr2
      /\ pado.tags.cookie = s
  BY <1>3, <1>5, <1>6, <1>7 DEF Frame
<1> HIDE DEF pkt, pado
<1>9. neg1 \in Neg /\ neg1.pkt = pkt /\ neg1 # NULL  BY <1>3, <1>8, FrameParts DEF Neg
<1>10. neg2 \in Neg /\ neg2.pkt = pado /\ neg2 # NULL
  <2>1. 0 \in 0..TimeoutLimit  BY BoundsAssumption
  <2> QED BY <1>3, <1>8, <2>1, FrameParts DEF Neg
<1>11. ticks' = ticks /\ rmq' = rmq /\ ticks \subseteq hooks /\ rmq \subseteq hooks
  BY <1>1 DEF queueVars, IndInv
<1> HIDE DEF neg1, neg2
<1>12. CASE sess' = [sess EXCEPT ![s] = new1] /\ out' = Silent
  <2>1. /\ new1 \in Session /\ new1.neg = neg1 /\ new1.sid = sess[s].sid
        /\ new1.callout = sess[s].callout /\ new1.state = "PRIMED"
    BY <1>1, <1>9 DEF Session
  <2> HIDE DEF new1
  <2>2. SessionOK(s, new1)
    BY <1>1, <1>5, <1>8, <1>9, <2>1
    DEF SessionOK, PacketOK, HeaderOK, Negotiating, State, Waiting, Established
  <2> QED BY <1>1, <1>11, <1>12, <2>1, <2>2, SameLists, SilentOK DEF Established, Waiting
<1>13. CASE sess' = [sess EXCEPT ![s] = new2] /\ out' = Send(<<pado>>)
  <2>1. /\ new2 \in Session /\ new2.neg = neg2 /\ new2.sid = sess[s].sid
        /\ new2.callout = OfferTimeout /\ new2.state = "SOFFER"
    <3>1. OfferTimeout \in 0..TimeoutLimit  BY BoundsAssumption
    <3> QED BY <1>1, <1>10, <3>1 DEF Session, State
  <2> HIDE DEF new2
  <2>2. OfferTimeout # 0  BY BoundsAssumption
  <2>3. SessionOK(s, new2)
    BY <1>1, <1>6, <1>8, <1>10, <2>1
    DEF SessionOK, PacketOK, HeaderOK, Negotiating, State, Waiting, Established
  <2>4. out' \in Output  BY <1>8, <1>13, SeqOfOne, SendOK
  <2> QED BY <1>1, <1>11, <1>13, <2>1, <2>2, <2>3, <2>4, SameLists DEF Established, Waiting
<1> QED BY <1>2, <1>12, <1>13

(* A PADO makes the request, under a fresh callout.                        *)
LEMMA RcvPadoStep ==
    ASSUME IndInv, NEW s \in Sess, NEW f \in Frames, RcvPado(s, f)
    PROVE  IndInv'
<1> DEFINE neg == sess[s].neg
           hdr == [neg.pkt.hdr EXCEPT !.code = "PADR", !.dst = f.hdr.src]
           tags == [f.tags EXCEPT !.srv = <<neg.service>>]
           padr == [hdr |-> hdr, tags |-> tags]
           neg2 == [neg EXCEPT !.pkt = padr, !.timeout = InitialTimeout * 2]
           new == [sess[s] EXCEPT !.state = "SREQ", !.neg = neg2,
                                  !.callout = InitialTimeout]
           msg == IF f.tags.acn = NULL THEN <<>> ELSE Tell(s, <<"ACNAME">>)
<1>1. /\ s \in hooks /\ sess[s].state = "SINIT" /\ sess[s] \in Session
      /\ SessionOK(s, sess[s]) /\ UNCHANGED <<nodeVars, hooks, listVars, queueVars>>
      /\ f.tags.uniq = s
  BY DEF RcvPado, FindUniq, IndInv, TypeOK
<1>2. sess' = [sess EXCEPT ![s] = new] /\ out' = Emit(<<padr>>, {}, msg)
  BY DEF RcvPado, FindUniq
<1>3. /\ neg \in Neg /\ neg.pkt \in Frame /\ neg.pkt.hdr \in Header
      /\ neg.service \in Name /\ neg.pkt.hdr.sid = 0 /\ sess[s].sid = 0
  BY <1>1 DEF SessionOK, Session, Negotiating, State, PacketOK, Neg, Frame,
              Established, Waiting
<1>4. f.hdr.src # Broadcast /\ f.hdr.src \in Addr /\ f.tags \in Tags
  BY FrameParts DEF Frame, Header
<1>5. hdr \in Header /\ hdr.sid = 0 /\ hdr.code = "PADR" /\ hdr.dst # Broadcast
  BY <1>3, <1>4 DEF Header, Code
<1>6. tags \in Tags /\ tags.uniq = s
  <2>1. <<neg.service>> \in Seq(Name)  BY <1>3, SeqOfOne
  <2> QED BY <1>1, <1>4, <2>1, SrvOK
<1>7. msg \in Seq(Event)
  <2>1. <<>> \in Seq(Event)  OBVIOUS
  <2> QED BY <2>1, TellOK
<1> HIDE DEF hdr, tags, msg
<1>8. padr \in Frame /\ padr.hdr = hdr /\ padr.tags = tags  BY <1>5, <1>6 DEF Frame
<1> HIDE DEF padr
<1>9. neg2 \in Neg /\ neg2.pkt = padr /\ neg2 # NULL /\ neg2.timeout # 0
  <2>1. InitialTimeout * 2 \in 0..TimeoutLimit /\ InitialTimeout * 2 # 0
    BY BoundsAssumption
  <2> QED BY <1>3, <1>8, <2>1, FrameParts DEF Neg
<1> HIDE DEF neg2
<1>10. /\ new \in Session /\ new.neg = neg2 /\ new.sid = 0
       /\ new.callout = InitialTimeout /\ new.state = "SREQ" /\ new.callout # 0
  <2>1. InitialTimeout \in 0..TimeoutLimit /\ InitialTimeout # 0  BY BoundsAssumption
  <2> QED BY <1>1, <1>3, <1>9, <2>1 DEF Session, State
<1> HIDE DEF new
<1>11. SessionOK(s, new)
  BY <1>5, <1>6, <1>8, <1>9, <1>10
  DEF SessionOK, PacketOK, HeaderOK, Negotiating, State, Waiting, Established
<1>12. out' \in Output
  <2>1. <<padr>> \in Seq(Frame) /\ {} \in SUBSET Sess  BY <1>8, SeqOfOne
  <2> QED BY <1>2, <1>7, <2>1, EmitOK
<1>13. ticks' = ticks /\ rmq' = rmq /\ ticks \subseteq hooks /\ rmq \subseteq hooks
  BY <1>1 DEF queueVars, IndInv
<1> QED BY <1>1, <1>2, <1>10, <1>11, <1>12, <1>13, SameLists DEF Established

(* A PADR makes a session that fits NEWCONNECTED out of any packet block   *)
(* with a unicast destination.                                             *)
LEMMA ConfirmedOK ==
    ASSUME IndInv, NEW s \in hooks, NEW f \in Frames,
           sess[s].state \in {"SOFFER", "NEWCONNECTED"}, NEW id \in 1..MaxSid
    PROVE  LET c == Confirmed(s, f, id)
           IN  /\ [c EXCEPT !.sid = id] \in Session
               /\ SessionOK(s, [c EXCEPT !.sid = id])
               /\ sess[s].sid = id => c = [c EXCEPT !.sid = id]
               /\ [c EXCEPT !.sid = id].state = "NEWCONNECTED"
               /\ [c EXCEPT !.sid = id].neg.pkt \in Frame
<1> DEFINE neg == sess[s].neg
           hdr == [neg.pkt.hdr EXCEPT !.code = "PADS", !.sid = id]
           tags == [f.tags EXCEPT !.srv = FirstSrv(f.tags), !.acn = neg.acname]
           pads == [hdr |-> hdr, tags |-> tags]
           shdr == [hdr EXCEPT !.etype = SessTypeOf(hdr.etype), !.code = "DATA"]
           neg2 == [neg EXCEPT !.pkt = pads, !.timeout = 0]
           c == [sess[s] EXCEPT !.state = "NEWCONNECTED", !.neg = neg2,
                                !.callout = 0, !.hdr = shdr]
           new == [c EXCEPT !.sid = id]
<1>1. s \in Sess /\ sess[s] \in Session /\ SessionOK(s, sess[s])
  BY DEF IndInv, TypeOK
<1>2. /\ neg \in Neg /\ neg.pkt \in Frame /\ neg.pkt.hdr \in Header
      /\ neg.acname \in Name /\ neg.pkt.hdr.dst # Broadcast
  BY <1>1 DEF SessionOK, Session, Negotiating, State, PacketOK, Neg, Frame
<1>3. f.tags \in Tags  BY FrameParts DEF Frame
<1>4. id \in 0..MaxSid /\ id # 0  BY BoundsAssumption
<1>5. hdr \in Header /\ hdr.sid = id /\ hdr.code = "PADS" /\ hdr.dst # Broadcast
  BY <1>2, <1>4 DEF Header, Code
<1>6. tags \in Tags  BY <1>2, <1>3, FirstSrvOK, SrvAcnOK
<1> HIDE DEF hdr, tags
<1>7. SessTypeOf(hdr.etype) \in SessEtype  BY DEF SessTypeOf, SessEtype
<1>8. /\ shdr \in Header /\ shdr.sid = id /\ shdr.code = "DATA"
      /\ shdr.dst # Broadcast /\ shdr.etype \in SessEtype
      /\ shdr = [hdr EXCEPT !.code = "DATA", !.etype = SessTypeOf(hdr.etype)]
  BY <1>5, <1>7 DEF Header, Code
<1>9. pads \in Frame /\ pads.hdr = hdr  BY <1>5, <1>6 DEF Frame
<1> HIDE DEF pads
<1>10. neg2 \in Neg /\ neg2.pkt = pads /\ neg2 # NULL
  <2>1. 0 \in 0..TimeoutLimit  BY BoundsAssumption
  <2> QED BY <1>2, <1>9, <2>1, FrameParts DEF Neg
<1>11. Confirmed(s, f, id) = c  BY DEF Confirmed, pads, hdr, tags
<1> HIDE DEF neg2
<1>12. /\ c \in Session /\ c.neg = neg2 /\ c.callout = 0 /\ c.hdr = shdr
       /\ c.state = "NEWCONNECTED" /\ c.sid = sess[s].sid
  <2>1. 0 \in 0..TimeoutLimit  BY BoundsAssumption
  <2> HIDE DEF shdr
  <2> QED BY <1>1, <1>8, <1>10, <2>1 DEF Session, State
<1> HIDE DEF c
<1>13. /\ new \in Session /\ new.neg = neg2 /\ new.sid = id /\ new.callout = 0
       /\ new.hdr = shdr /\ new.state = "NEWCONNECTED"
       /\ c.sid = id => c = new
  BY <1>4, <1>12 DEF Session
<1> HIDE DEF new
<1>14. PacketOK(s, new)
  BY <1>5, <1>8, <1>9, <1>10, <1>13 DEF PacketOK, Waiting
<1> HIDE DEF shdr
<1>15. SessionOK(s, new)
  BY <1>4, <1>8, <1>10, <1>13, <1>14
  DEF SessionOK, HeaderOK, Negotiating, State, Waiting, Established
<1> QED BY <1>9, <1>10, <1>11, <1>12, <1>13, <1>15 DEF new

(* A PADR gives an id once and links the session once, and a retry keeps both.*)
LEMMA RcvPadrStep ==
    ASSUME IndInv, NEW s \in Sess, NEW f \in Frames, RcvPadr(s, f)
    PROVE  IndInv'
<1>1. /\ s \in hooks /\ sess[s].state \in {"SOFFER", "NEWCONNECTED"}
      /\ SessionOK(s, sess[s]) /\ sess[s] \in Session /\ sess \in [Sess -> Session]
      /\ UNCHANGED <<nodeVars, hooks, listeners, queueVars>>
      /\ out' = Emit(<<sess'[s].neg.pkt>>, {}, Tell(s, <<"SESSIONID", "SUCCESS">>))
  BY DEF RcvPadr, FindUniq, IndInv, TypeOK
<1>2. PICK id \in 1..MaxSid :
         /\ sess' = [sess EXCEPT ![s] = [Confirmed(s, f, id) EXCEPT !.sid = id]]
         /\ pppoe_sid' \in 1..MaxSid
         /\ hash' = IF sess[s].sid = 0 THEN InsertHead(hash, s) ELSE hash
  <2>1. CASE sess[s].sid = 0
    <3>1. PICK id \in 1..MaxSid, next \in 1..MaxSid :
             /\ sess' = [sess EXCEPT ![s] = [Confirmed(s, f, id) EXCEPT !.sid = id]]
             /\ pppoe_sid' = next
      BY <2>1 DEF RcvPadr, FindUniq
    <3>2. hash' = InsertHead(hash, s)  BY <2>1 DEF RcvPadr, FindUniq
    <3> QED BY <2>1, <3>1, <3>2
  <2>2. CASE sess[s].sid # 0
    <3>1. sess[s].state = "NEWCONNECTED"  BY <1>1, <2>2 DEF SessionOK, Established
    <3>2. sess[s].neg.pkt.hdr.sid = sess[s].sid  BY <1>1, <3>1 DEF SessionOK, PacketOK
    <3>3. sess[s].sid \in 1..MaxSid  BY <1>1, <2>2, BoundsAssumption DEF Session
    <3>4. /\ sess' = [sess EXCEPT ![s] = Confirmed(s, f, sess[s].sid)]
          /\ hash' = hash /\ pppoe_sid' = pppoe_sid
      BY <2>2, <3>2 DEF RcvPadr, FindUniq
    <3>5. Confirmed(s, f, sess[s].sid) = [Confirmed(s, f, sess[s].sid) EXCEPT !.sid = sess[s].sid]
      BY <1>1, <3>3, ConfirmedOK
    <3>6. pppoe_sid \in 1..MaxSid  BY DEF IndInv, TypeOK
    <3> QED BY <2>2, <3>3, <3>4, <3>5, <3>6
  <2> QED BY <2>1, <2>2
<1> DEFINE new == [Confirmed(s, f, id) EXCEPT !.sid = id]
<1>3. /\ new \in Session /\ SessionOK(s, new) /\ new.state = "NEWCONNECTED"
      /\ new.neg.pkt \in Frame
  BY <1>1, <1>2, ConfirmedOK
<1>11. sess' = [sess EXCEPT ![s] = new]  BY <1>2
<1> HIDE DEF new
<1>4. /\ s \notin Members(listeners)
      /\ s \in Members(hash) <=> sess[s].sid # 0
      /\ hash \in Seq(Sess) /\ NoDuplicates(hash)
      /\ listeners \in Seq(Sess) /\ NoDuplicates(listeners)
  BY <1>1 DEF IndInv, TypeOK, SessionOK
<1>5. /\ hash' \in Seq(Sess) /\ NoDuplicates(hash')
      /\ Members(hash') = Members(hash) \cup {s}
  <2>1. CASE sess[s].sid = 0  BY <1>2, <1>4, <2>1, InsertHeadProperties
  <2>2. CASE sess[s].sid # 0
    <3>1. hash' = hash  BY <1>2, <2>2
    <3> QED BY <1>4, <2>2, <3>1
  <2> QED BY <2>1, <2>2
<1>6. UNCHANGED <<node, aux, mode, mac, hooks, listeners, ticks, rmq>>
  BY <1>1 DEF nodeVars, queueVars
<1>7. new.state \in Established /\ new.state \notin Waiting /\ new.state # "LISTENING"
  BY <1>3 DEF Established, Waiting
<1>8. out' \in Output
  <2>1. sess'[s] = new  BY <1>1, <1>11
  <2>2. <<new.neg.pkt>> \in Seq(Frame) /\ {} \in SUBSET Sess  BY <1>3, SeqOfOne
  <2> QED BY <1>1, <2>1, <2>2, EmitOK, TellOK
<1>9. /\ listeners' \in Seq(Sess) /\ NoDuplicates(listeners')
      /\ Members(listeners') = Members(listeners) \ {s}
  BY <1>4, <1>6
<1>10. /\ hooks' \subseteq Sess /\ s \in hooks' /\ hooks' \ {s} = hooks \ {s}
       /\ ticks' \subseteq hooks' /\ rmq' \subseteq hooks'
       /\ ticks' \ {s} = ticks \ {s} /\ rmq' \ {s} = rmq \ {s}
       /\ (node' = "gone" => hooks' = {}) /\ node' \in {"gone", "up", "closing"}
       /\ aux' \subseteq AuxHooks /\ mode' \subseteq {"3Com-aDSL", "D-Link"}
       /\ mac' \in Addr
  BY <1>1, <1>6 DEF IndInv, TypeOK
<1> QED BY <1>2, <1>3, <1>5, <1>7, <1>8, <1>9, <1>10, <1>11, OneSession

(* A PADS with an id links the session and drops its negotiation block.    *)
LEMMA RcvPadsStep ==
    ASSUME IndInv, PadsIdsNonzero, NEW s \in Sess, NEW f \in Frames, RcvPads(s, f)
    PROVE  IndInv'
<1> DEFINE old == sess[s].neg.pkt.hdr
           etype == IF "3Com-aDSL" \in mode THEN "3COM_SESS" ELSE "SESS"
           hdr == [old EXCEPT !.etype = etype, !.code = "DATA", !.sid = f.hdr.sid]
           new == [state |-> "CONNECTED", sid |-> f.hdr.sid, neg |-> NULL,
                   callout |-> 0, hdr |-> hdr]
<1>1. /\ s \in hooks /\ sess[s].state = "SREQ" /\ sess[s] \in Session
      /\ SessionOK(s, sess[s]) /\ UNCHANGED <<nodeVars, hooks, listeners, pppoe_sid, queueVars>>
      /\ f.hdr.code = "PADS" /\ hash' = InsertHead(hash, s)
      /\ out' = Emit(<<>>, {}, Tell(s, <<"SESSIONID", "SUCCESS">>))
  BY DEF RcvPads, FindUniq, AddSession, Discovery, IndInv, TypeOK
<1>2. sess' = [sess EXCEPT ![s] = new]  BY DEF RcvPads, FindUniq, AddSession
<1>3. old \in Header /\ old.dst # Broadcast
  BY <1>1 DEF SessionOK, Session, Negotiating, State, PacketOK, Neg, Frame
<1>4. f.hdr.sid \in 0..MaxSid /\ f.hdr.sid # 0
  BY <1>1, FrameParts DEF PadsIdsNonzero, Frame, Header
<1>5. /\ hdr \in Header /\ hdr.sid = f.hdr.sid /\ hdr.code = "DATA"
      /\ hdr.etype \in SessEtype /\ hdr.dst # Broadcast
  BY <1>3, <1>4 DEF Header, Code, SessEtype
<1> HIDE DEF hdr
<1>6. /\ new \in Session /\ new.state = "CONNECTED" /\ new.sid = f.hdr.sid
      /\ new.neg = NULL /\ new.callout = 0 /\ new.hdr = hdr
  <2>1. 0 \in 0..TimeoutLimit  BY BoundsAssumption
  <2> QED BY <1>4, <1>5, <2>1 DEF Session, State
<1> HIDE DEF new
<1>7. SessionOK(s, new)
  BY <1>4, <1>5, <1>6 DEF SessionOK, PacketOK, HeaderOK, Negotiating, State, Waiting, Established
<1>8. s \notin Members(listeners) /\ s \notin Members(hash)
      /\ hash \in Seq(Sess) /\ NoDuplicates(hash)
  BY <1>1 DEF IndInv, TypeOK, Established
<1>9. /\ hash' \in Seq(Sess) /\ NoDuplicates(hash')
      /\ Members(hash') = Members(hash) \cup {s}
  BY <1>1, <1>8, InsertHeadProperties
<1>10. out' \in Output
  <2>1. <<>> \in Seq(Frame) /\ {} \in SUBSET Sess  OBVIOUS
  <2> QED BY <1>1, <2>1, EmitOK, TellOK
<1>11. UNCHANGED <<node, aux, mode, mac, hooks, listeners, pppoe_sid, ticks, rmq>>
  BY <1>1 DEF nodeVars, queueVars
<1>12. new.state \in Established /\ new.state \notin Waiting /\ new.state # "LISTENING"
  BY <1>6 DEF Established, Waiting
<1>13. /\ hooks' \subseteq Sess /\ s \in hooks' /\ hooks' \ {s} = hooks \ {s}
       /\ ticks' \subseteq hooks' /\ rmq' \subseteq hooks'
       /\ ticks' \ {s} = ticks \ {s} /\ rmq' \ {s} = rmq \ {s}
       /\ (node' = "gone" => hooks' = {}) /\ node' \in {"gone", "up", "closing"}
       /\ aux' \subseteq AuxHooks /\ mode' \subseteq {"3Com-aDSL", "D-Link"}
       /\ mac' \in Addr /\ pppoe_sid' \in 1..MaxSid
       /\ listeners' \in Seq(Sess) /\ NoDuplicates(listeners')
       /\ Members(listeners') = Members(listeners) \ {s}
  BY <1>1, <1>8, <1>11 DEF IndInv, TypeOK
<1> QED BY <1>2, <1>7, <1>9, <1>10, <1>12, <1>13, OneSession

(* A session that is found is in the hash.                                 *)
LEMMA FindSessionInHash == \A f : FindSession(f) \subseteq Members(hash)
BY DEF FindSession, FirstIn, Members

(* A PADT queues the removal of a hook that is there.                      *)
LEMMA RcvPadtStep ==
    ASSUME IndInv, NEW s \in Sess, NEW f \in Frames, RcvPadt(s, f)
    PROVE  IndInv'
<1>1. s \in Members(hash) /\ UNCHANGED <<nodeVars, hooks, sess, listVars, ticks>>
      /\ rmq' = rmq \cup {s} /\ out' = Silent
  BY FindSessionInHash DEF RcvPadt
<1>2. /\ s \in hooks /\ sess[s].state \in Established /\ SessionOK(s, sess[s])
      /\ sess[s].state # "LISTENING" /\ sess[s].state \notin Waiting
  BY <1>1 DEF IndInv, Established, Waiting
<1>3. sess' = [sess EXCEPT ![s] = sess[s]]  BY <1>1 DEF IndInv, TypeOK
<1>4. ticks' = ticks /\ ticks \subseteq hooks /\ rmq' \subseteq hooks
      /\ rmq' \ {s} = rmq \ {s}
  BY <1>1, <1>2 DEF IndInv
<1> QED BY <1>1, <1>2, <1>3, <1>4, SameLists, SilentOK

(* The first session data drops the negotiation block.                     *)
LEMMA RcvSessionDataStep ==
    ASSUME IndInv, NEW s \in Sess, NEW f \in Frames, RcvSessionData(s, f)
    PROVE  IndInv'
<1> DEFINE new == IF sess[s].state = "CONNECTED" THEN sess[s]
                  ELSE [sess[s] EXCEPT !.state = "CONNECTED", !.neg = NULL, !.callout = 0]
<1>1. s \in Members(hash) /\ UNCHANGED <<nodeVars, hooks, listVars, queueVars>>
      /\ out' = Emit(<<>>, {s}, <<>>)
  BY FindSessionInHash DEF RcvSessionData
<1>2. /\ s \in hooks /\ sess[s].state \in Established /\ SessionOK(s, sess[s])
      /\ sess[s] \in Session /\ sess \in [Sess -> Session]
      /\ sess[s].state # "LISTENING"
  BY <1>1 DEF IndInv, TypeOK, Established
<1>3. sess' = [sess EXCEPT ![s] = new]  BY <1>2 DEF RcvSessionData
<1>4. SessionOK(s, new) /\ new.state = "CONNECTED"
  <2>1. CASE sess[s].state = "CONNECTED"  BY <1>2, <2>1
  <2>2. CASE sess[s].state # "CONNECTED"
    <3> DEFINE r == [sess[s] EXCEPT !.state = "CONNECTED", !.neg = NULL, !.callout = 0]
    <3>1. 0 \in 0..TimeoutLimit  BY BoundsAssumption
    <3>2. /\ r \in Session /\ r.state = "CONNECTED" /\ r.neg = NULL /\ r.callout = 0
          /\ r.sid = sess[s].sid /\ r.hdr = sess[s].hdr
      BY <1>2, <3>1 DEF Session, State
    <3>3. new = r  BY <2>2
    <3> HIDE DEF r, new
    <3>4. SessionOK(s, r)
      BY <1>2, <3>2
      DEF SessionOK, PacketOK, HeaderOK, Negotiating, State, Waiting, Established
    <3> QED BY <3>2, <3>3, <3>4
  <2> QED BY <2>1, <2>2
<1> HIDE DEF new
<1>5. out' \in Output
  <2>1. <<>> \in Seq(Frame) /\ <<>> \in Seq(Event) /\ {s} \in SUBSET Sess  OBVIOUS
  <2> QED BY <1>1, <2>1, EmitOK
<1>6. ticks' = ticks /\ rmq' = rmq /\ ticks \subseteq hooks /\ rmq \subseteq hooks
  BY <1>1 DEF queueVars, IndInv
<1>7. new.state # "LISTENING" /\ new.state \in Established /\ new.state \notin Waiting
  BY <1>4 DEF Established, Waiting
<1> QED BY <1>1, <1>2, <1>3, <1>4, <1>5, <1>6, <1>7, SameLists

(* The callout runs out: what wakes the session is now the queued call.    *)
LEMMA ExpireStep ==
    ASSUME IndInv, NEW s \in Sess, Expire(s)
    PROVE  IndInv'
<1> DEFINE new == [sess[s] EXCEPT !.callout = 0]
<1>1. /\ sess' = [sess EXCEPT ![s] = new] /\ ticks' = ticks \cup {s} /\ out' = Silent
      /\ UNCHANGED <<nodeVars, hooks, listVars, rmq>>
      /\ SessionOK(s, sess[s]) /\ sess[s] \in Session /\ sess[s].state \in Waiting
  BY DEF Expire, IndInv, TypeOK, SessionOK
<1>2. s \in hooks  BY <1>1 DEF IndInv, Waiting
<1>3. /\ new \in Session /\ new.callout = 0 /\ new.state = sess[s].state
      /\ new.neg = sess[s].neg /\ new.sid = sess[s].sid /\ new.hdr = sess[s].hdr
  <2>1. 0 \in 0..TimeoutLimit  BY BoundsAssumption
  <2> QED BY <1>1, <2>1 DEF Session
<1> HIDE DEF new
<1>4. SessionOK(s, new)  BY <1>1, <1>3 DEF SessionOK, PacketOK, HeaderOK
<1>5. /\ ticks' \subseteq hooks /\ ticks' \ {s} = ticks \ {s} /\ s \in ticks'
      /\ rmq' = rmq /\ rmq \subseteq hooks
  BY <1>1, <1>2 DEF IndInv
<1> QED BY <1>1, <1>2, <1>3, <1>4, <1>5, SameLists, SilentOK DEF Waiting

(* A request or PADI that is resent keeps its packet, with a longer delay, *)
(* or starts over: either way its callout runs again.                      *)
LEMMA ResentOK ==
    ASSUME IndInv, NEW s \in Sess, sess[s].state \in {"SINIT", "SREQ"}
    PROVE  /\ SessionOK(s, Resent(s)) /\ Resent(s).callout # 0
           /\ Resent(s).state \in {"SINIT", "SREQ"}
           /\ Resent(s).neg.pkt \in Frame
<1> DEFINE r == sess[s]
           Again(timeout) == [r EXCEPT !.neg = [r.neg EXCEPT !.timeout = timeout],
                                       !.callout = r.neg.timeout]
<1>1. /\ r \in Session /\ SessionOK(s, r) /\ r.neg \in Neg /\ r.sid = 0
      /\ r.neg.timeout # 0 /\ r.neg.timeout \in 0..TimeoutLimit
      /\ r.neg.pkt \in Frame /\ r.neg.pkt.hdr.sid = 0
  BY DEF IndInv, TypeOK, SessionOK, PacketOK, Session, Negotiating, State, Neg,
         Waiting, Established
<1>2. ASSUME NEW t \in 0..TimeoutLimit, t # 0
      PROVE  /\ SessionOK(s, Again(t)) /\ Again(t).callout # 0
             /\ Again(t).state = r.state /\ Again(t).neg.pkt \in Frame
  <2> DEFINE neg == [r.neg EXCEPT !.timeout = t]
             new == [r EXCEPT !.neg = neg, !.callout = r.neg.timeout]
  <2>1. neg \in Neg /\ neg # NULL /\ neg.pkt = r.neg.pkt /\ neg.timeout = t
    BY <1>1, FrameParts DEF Neg
  <2> HIDE DEF neg
  <2>2. /\ new \in Session /\ new.neg = neg /\ new.sid = 0 /\ new.state = r.state
        /\ new.callout = r.neg.timeout /\ new.hdr = r.hdr
    BY <1>1, <2>1 DEF Session
  <2>3. Again(t) = new  BY DEF neg
  <2> HIDE DEF new, Again
  <2>4. SessionOK(s, new)
    BY <1>1, <1>2, <2>1, <2>2
    DEF SessionOK, PacketOK, HeaderOK, Negotiating, State, Waiting, Established
  <2> QED BY <1>1, <2>1, <2>2, <2>3, <2>4
<1>3. CASE r.neg.timeout * 2 <= TimeoutLimit
  <2>1. r.neg.timeout * 2 \in 0..TimeoutLimit /\ r.neg.timeout * 2 # 0
    BY <1>1, <1>3, BoundsAssumption
  <2>2. Resent(s) = Again(r.neg.timeout * 2)  BY <1>3 DEF Resent
  <2> QED BY <1>2, <2>1, <2>2
<1>4. CASE ~(r.neg.timeout * 2 <= TimeoutLimit) /\ r.state = "SREQ"
  <2>1. Resent(s) = Started(s, r)  BY <1>4 DEF Resent
  <2>2. TypeOK  BY DEF IndInv
  <2> QED BY <1>1, <2>1, <2>2, StartedOK
<1>5. CASE ~(r.neg.timeout * 2 <= TimeoutLimit) /\ r.state # "SREQ"
  <2>1. TimeoutLimit \in 0..TimeoutLimit /\ TimeoutLimit # 0  BY BoundsAssumption
  <2>2. Resent(s) = Again(TimeoutLimit)  BY <1>5 DEF Resent
  <2> QED BY <1>2, <2>1, <2>2
<1> QED BY <1>3, <1>4, <1>5

(* pppoe_ticker keeps the invariant in each kind of state.                 *)
LEMMA TickerStep ==
    ASSUME IndInv, NEW s \in Sess, Ticker(s)
    PROVE  IndInv'
<1>1. /\ s \in hooks /\ ticks' = ticks \ {s} /\ UNCHANGED <<nodeVars, hooks, listVars>>
      /\ ticks \subseteq hooks /\ rmq \subseteq hooks
      /\ SessionOK(s, sess[s]) /\ sess \in [Sess -> Session]
  BY DEF Ticker, IndInv, TypeOK
<1>2. CASE sess[s].state \in {"SINIT", "SREQ"}
  <2> DEFINE new == Resent(s)
  <2>1. /\ sess' = [sess EXCEPT ![s] = new] /\ rmq' = rmq
        /\ out' = Send(IF new.state = sess[s].state THEN <<sess[s].neg.pkt>>
                       ELSE <<sess[s].neg.pkt, new.neg.pkt>>)
    BY <1>2 DEF Ticker
  <2>2. /\ SessionOK(s, new) /\ new.callout # 0 /\ new.neg.pkt \in Frame
        /\ new.state \in {"SINIT", "SREQ"}
    BY <1>2, ResentOK
  <2> HIDE DEF new
  <2>3. sess[s].neg.pkt \in Frame
    BY <1>1, <1>2 DEF SessionOK, Session, Negotiating, State, Neg
  <2>4. out' \in Output
    <3>1. <<sess[s].neg.pkt>> \in Seq(Frame)  BY <2>3, SeqOfOne
    <3>2. <<sess[s].neg.pkt, new.neg.pkt>> \in Seq(Frame)  BY <2>2, <2>3
    <3> QED BY <2>1, <3>1, <3>2, SendOK
  <2>5. new.state \notin Established /\ sess[s].state \notin Established
    BY <1>2, <2>2 DEF Established
  <2> QED BY <1>1, <1>2, <2>1, <2>2, <2>4, <2>5, SameLists
<1>3. CASE sess[s].state \in {"PRIMED", "SOFFER"}
  <2>1. rmq' = rmq \cup {s} /\ out' = Silent /\ sess' = sess  BY <1>3 DEF Ticker
  <2>2. sess' = [sess EXCEPT ![s] = sess[s]]  BY <1>1, <2>1
  <2> QED BY <1>1, <1>3, <2>1, <2>2, SameLists, SilentOK
<1>4. CASE sess[s].state \notin {"SINIT", "SREQ", "PRIMED", "SOFFER"}
  <2>1. out' = Silent /\ sess' = sess /\ rmq' = rmq  BY <1>4 DEF Ticker
  <2>2. TypeOK'  BY <1>1, <2>1, SilentOK DEF IndInv, TypeOK, nodeVars, listVars
  <2>3. (\A t \in Sess : SessionOK(t, sess[t]))'
    <3>1. \A t \in Sess : SessionOK(t, sess'[t])  BY <2>1 DEF IndInv
    <3> QED BY <3>1 DEF SessionOK, PacketOK, HeaderOK
  <2>4. /\ Members(listeners)' = Members(listeners) /\ Members(hash)' = Members(hash)
        /\ (NoDuplicates(listeners) /\ NoDuplicates(hash))'
    BY <1>1 DEF Members, IndInv, NoDuplicates, listVars
  <2>5. \A t \in Sess : sess'[t].state \in Waiting =>
           sess'[t].callout # 0 \/ t \in ticks' \/ t \in rmq'
    BY <1>1, <1>4, <2>1 DEF IndInv, Waiting
  <2> QED BY <1>1, <2>1, <2>2, <2>3, <2>4, <2>5 DEF IndInv, nodeVars
<1> QED BY <1>2, <1>3, <1>4

(* Zeroed memory is a session nobody set up yet.                           *)
LEMMA ZeroOK ==
    ASSUME NEW s \in Sess
    PROVE  SessionOK(s, ZeroSession) /\ ZeroSession.state = "SNONE"
<1>1. /\ ZeroSession.state = "SNONE" /\ ZeroSession.sid = 0 /\ ZeroSession.hdr = NULL
      /\ ZeroSession.neg = NULL /\ ZeroSession.callout = 0 /\ ZeroSession \in Session
  <2>1. 0 \in 0..TimeoutLimit /\ 0 \in 0..MaxSid  BY BoundsAssumption
  <2> QED BY <2>1 DEF ZeroSession, Session, State
<1> QED
  BY <1>1 DEF SessionOK, PacketOK, HeaderOK, Negotiating, State, Waiting, Established

(* A session hook that goes, however it leaves the listeners, leaves the   *)
(* hash and both queues, and its memory counts as zero.                    *)
LEMMA DisconnectAnywhere ==
    ASSUME IndInv, NEW s \in hooks, node' \in {"up", "closing"},
           hooks' = hooks \ {s}, sess' = [sess EXCEPT ![s] = ZeroSession],
           listeners' \in Seq(Sess), NoDuplicates(listeners'),
           Members(listeners') = Members(listeners) \ {s},
           hash' = IF sess[s].sid # 0 THEN Without(hash, s) ELSE hash,
           ticks' = ticks \ {s}, rmq' = rmq \ {s}, UNCHANGED <<aux, mode, mac, pppoe_sid>>,
           out' = Emit(IF sess[s].state \notin Established THEN <<>>
                       ELSE <<[hdr |-> [sess[s].hdr EXCEPT !.code = "PADT",
                                           !.etype = DiscTypeOf(sess[s].hdr.etype)],
                               tags |-> NoTags]>>,
                       {},
                       IF sess[s].state = "SNONE" THEN <<>> ELSE Tell(s, <<"CLOSE">>))
    PROVE  IndInv'
<1> DEFINE r == sess[s]
           hdr == [r.hdr EXCEPT !.code = "PADT", !.etype = DiscTypeOf(r.hdr.etype)]
           eth == IF r.state \notin Established THEN <<>>
                  ELSE <<[hdr |-> hdr, tags |-> NoTags]>>
           msg == IF r.state = "SNONE" THEN <<>> ELSE Tell(s, <<"CLOSE">>)
<1>1. /\ s \in Sess /\ r \in Session /\ SessionOK(s, r)
      /\ hash \in Seq(Sess) /\ NoDuplicates(hash)
      /\ (s \in Members(hash) <=> r.state \in Established)
  BY DEF IndInv, TypeOK
<1>2. out' = Emit(eth, {}, msg)  OBVIOUS
<1>3. SessionOK(s, ZeroSession) /\ ZeroSession.state = "SNONE"  BY <1>1, ZeroOK
<1>4. /\ hash' \in Seq(Sess) /\ NoDuplicates(hash')
      /\ Members(hash') = Members(hash) \ {s}
  <2>1. CASE r.state \in Established
    <3>1. r.sid # 0  BY <1>1, <2>1 DEF SessionOK
    <3>2. hash' = Without(hash, s)  BY <3>1
    <3> QED BY <1>1, <2>1, <3>2, WithoutProperties
  <2>2. CASE r.state \notin Established
    <3>1. r.sid = 0  BY <1>1, <2>2 DEF SessionOK
    <3>2. hash' = hash  BY <3>1
    <3> QED BY <1>1, <2>2, <3>2
  <2> QED BY <2>1, <2>2
<1>5. out' \in Output
  <2>1. eth \in Seq(Frame)
    <3>1. CASE r.state \in Established
      <4>1. r.hdr \in Header  BY <1>1, <3>1 DEF SessionOK, HeaderOK
      <4>2. DiscTypeOf(r.hdr.etype) \in DiscEtype  BY DEF DiscTypeOf, DiscEtype
      <4>3. hdr \in Header  BY <4>1, <4>2 DEF Header, Code
      <4> HIDE DEF hdr
      <4>4. [hdr |-> hdr, tags |-> NoTags] \in Frame  BY <4>3, FrameParts DEF Frame
      <4> QED BY <3>1, <4>4, SeqOfOne
    <3>2. CASE r.state \notin Established
      <4>1. <<>> \in Seq(Frame)  OBVIOUS
      <4> QED BY <3>2, <4>1
    <3> QED BY <3>1, <3>2
  <2>2. msg \in Seq(Event)
    <3>1. <<>> \in Seq(Event)  OBVIOUS
    <3> QED BY <1>1, <3>1, TellOK
  <2>3. {} \in SUBSET Sess  OBVIOUS
  <2> HIDE DEF eth, msg
  <2> QED BY <1>2, <2>1, <2>2, <2>3, EmitOK
<1>6. /\ hooks' \subseteq Sess /\ hooks' \ {s} = hooks \ {s}
      /\ ticks' \subseteq hooks' /\ rmq' \subseteq hooks'
      /\ ticks' \ {s} = ticks \ {s} /\ rmq' \ {s} = rmq \ {s}
      /\ aux' \subseteq AuxHooks /\ mode' \subseteq {"3Com-aDSL", "D-Link"}
      /\ mac' \in Addr /\ pppoe_sid' \in 1..MaxSid
  BY DEF IndInv, TypeOK
<1>7. ZeroSession.state \notin Waiting \cup Established \cup {"LISTENING"}
  BY <1>3 DEF Waiting, Established
<1> QED BY <1>1, <1>3, <1>4, <1>5, <1>6, <1>7, OneSession

(* ng_pppoe_disconnect takes a listener out of the list, and nobody else.  *)
LEMMA DisconnectStep ==
    ASSUME IndInv, NEW s \in hooks, node # "gone", Disconnect(s)
    PROVE  IndInv'
<1>1. /\ s \in Sess /\ SessionOK(s, sess[s])
      /\ listeners \in Seq(Sess) /\ NoDuplicates(listeners)
      /\ (s \in Members(listeners) <=> sess[s].state = "LISTENING")
  BY DEF IndInv, TypeOK
<1>2. /\ listeners' \in Seq(Sess) /\ NoDuplicates(listeners')
      /\ Members(listeners') = Members(listeners) \ {s}
  <2>1. CASE sess[s].state = "LISTENING"
    <3>1. listeners' = Without(listeners, s)  BY <2>1 DEF Disconnect
    <3> QED BY <1>1, <2>1, <3>1, WithoutProperties
  <2>2. CASE sess[s].state # "LISTENING"
    <3>1. listeners' = listeners  BY <2>2 DEF Disconnect
    <3> QED BY <1>1, <2>2, <3>1
  <2> QED BY <2>1, <2>2
<1>3. sess[s].state = "LISTENING" => sess[s].sid = 0  BY <1>1 DEF SessionOK, Established
<1>4. node' \in {"up", "closing"}
  BY DEF Disconnect, Doomed, IndInv, TypeOK
<1> QED BY <1>2, <1>3, <1>4, DisconnectAnywhere DEF Disconnect

(* The sess_con of a new hook is zero, as that of a hook that went was.    *)
LEMMA NewHookStep ==
    ASSUME IndInv, NEW s \in Sess, NewHook(s)
    PROVE  IndInv'
<1>1. /\ node = "up" /\ s \notin hooks /\ hooks' = hooks \cup {s}
      /\ sess' = [sess EXCEPT ![s] = ZeroSession] /\ out' = Silent
      /\ UNCHANGED <<node, aux, mode, mac, listeners, hash, pppoe_sid, ticks, rmq>>
  BY DEF NewHook, nodeVars, listVars, queueVars
<1>2. SessionOK(s, ZeroSession) /\ ZeroSession.state = "SNONE"  BY ZeroOK
<1>3. sess[s].state = "SNONE"  BY <1>1 DEF IndInv
<1>4. s \notin Members(listeners) /\ s \notin Members(hash)
  BY <1>3 DEF IndInv, Established
<1>5. /\ listeners' \in Seq(Sess) /\ NoDuplicates(listeners')
      /\ Members(listeners') = Members(listeners) \ {s}
      /\ hash' \in Seq(Sess) /\ NoDuplicates(hash')
      /\ Members(hash') = Members(hash) \ {s}
  BY <1>1, <1>4 DEF IndInv, TypeOK
<1>6. /\ hooks' \subseteq Sess /\ hooks' \ {s} = hooks \ {s}
      /\ ticks' \subseteq hooks' /\ rmq' \subseteq hooks'
      /\ ticks' \ {s} = ticks \ {s} /\ rmq' \ {s} = rmq \ {s}
      /\ node' \in {"gone", "up", "closing"} /\ node' # "gone"
      /\ aux' \subseteq AuxHooks /\ mode' \subseteq {"3Com-aDSL", "D-Link"}
      /\ mac' \in Addr /\ pppoe_sid' \in 1..MaxSid
  BY <1>1 DEF IndInv, TypeOK
<1>7. ZeroSession.state \notin Waiting \cup Established \cup {"LISTENING"}
  BY <1>2 DEF Waiting, Established
<1> QED BY <1>1, <1>2, <1>5, <1>6, <1>7, OneSession, SilentOK

(* The steps of the node itself touch no session.                          *)
LEMMA NodeStep ==
    ASSUME IndInv,
           \/ RmNode \/ Shutdown
           \/ \E h \in AuxHooks : NewAuxHook(h) \/ RmAuxHook(h) \/ DestroyAuxHook(h)
           \/ \E m \in Modes : SetMode(m)
           \/ \E a \in Macs : SetEnaddr(a)
    PROVE  IndInv'
<1>1. TypeOK  BY DEF IndInv
<1>2. CASE RmNode
  BY <1>1, <1>2, NoSession, SilentOK DEF RmNode, TypeOK, listVars, queueVars
<1>3. CASE Shutdown
  BY <1>1, <1>3, NoSession, SilentOK DEF Shutdown, TypeOK, listVars, queueVars
<1>4. ASSUME NEW h \in AuxHooks, NewAuxHook(h)  PROVE IndInv'
  BY <1>1, <1>4, NoSession, SilentOK DEF NewAuxHook, TypeOK, listVars, queueVars
<1>5. ASSUME NEW h \in AuxHooks, RmAuxHook(h) \/ DestroyAuxHook(h)  PROVE IndInv'
  <2>1. node' \in {"up", "closing"}
    BY <1>5 DEF RmAuxHook, DestroyAuxHook, DisconnectAux, Doomed
  <2>2. /\ aux' \subseteq AuxHooks /\ out' = Silent
        /\ UNCHANGED <<mode, mac, hooks, sess, listVars, queueVars>>
    BY <1>1, <1>5 DEF RmAuxHook, DestroyAuxHook, DisconnectAux, TypeOK
  <2> QED BY <1>1, <2>1, <2>2, NoSession, SilentOK DEF TypeOK, listVars, queueVars
<1>6. ASSUME NEW m \in Modes, SetMode(m)  PROVE IndInv'
  <2>1. mode' \subseteq {"3Com-aDSL", "D-Link"}
    BY <1>1, <1>6, ConstantsAssumption DEF SetMode, TypeOK
  <2>2. /\ out' = Silent /\ node = "up"
        /\ UNCHANGED <<node, aux, mac, hooks, sess, listVars, queueVars>>
    BY <1>6 DEF SetMode
  <2> QED BY <1>1, <2>1, <2>2, NoSession, SilentOK DEF TypeOK, listVars, queueVars
<1>7. ASSUME NEW a \in Macs, SetEnaddr(a)  PROVE IndInv'
  BY <1>1, <1>7, NoSession, SilentOK, ConstantsAssumption
  DEF SetEnaddr, TypeOK, listVars, queueVars
<1> QED BY <1>2, <1>3, <1>4, <1>5, <1>6, <1>7

(* A new node starts with empty lists: the old one kept no session.        *)
LEMMA ConstructorStep ==
    ASSUME IndInv, Constructor
    PROVE  IndInv'
<1>1. /\ hooks = {} /\ UNCHANGED <<aux, hooks, sess, pppoe_sid, ticks, rmq>>
      /\ node' = "up" /\ mode' = {} /\ mac' = NoMac /\ listeners' = <<>> /\ hash' = <<>>
      /\ out' = Silent
  BY DEF Constructor, IndInv, queueVars
<1>2. TypeOK'
  <2>1. listeners' \in Seq(Sess) /\ hash' \in Seq(Sess)  BY <1>1
  <2> QED BY <1>1, <2>1, SilentOK, ConstantsAssumption DEF IndInv, TypeOK
<1>3. (\A s \in Sess : SessionOK(s, sess[s]))'
  <2>1. \A s \in Sess : SessionOK(s, sess'[s])  BY <1>1 DEF IndInv
  <2> QED BY <2>1 DEF SessionOK, PacketOK, HeaderOK
<1>4. \A s \in Sess : sess'[s].state = "SNONE"  BY <1>1 DEF IndInv
<1>5. Members(listeners)' = {} /\ Members(hash)' = {}
      /\ (NoDuplicates(listeners) /\ NoDuplicates(hash))'
  <2>1. DOMAIN listeners' = {} /\ DOMAIN hash' = {}  BY <1>1
  <2> QED BY <2>1 DEF Members, NoDuplicates
<1>6. \A s \in Sess : sess'[s].state # "LISTENING" /\ sess'[s].state \notin Established
                      /\ sess'[s].state \notin Waiting
  BY <1>4 DEF Established, Waiting
<1> QED BY <1>1, <1>2, <1>3, <1>4, <1>5, <1>6 DEF IndInv

----------------------------------------------------------------------------
(* Before the first node there is no session.                              *)
LEMMA InitOK == Init => IndInv
<1> SUFFICES ASSUME Init PROVE IndInv  OBVIOUS
<1>1. \A s \in Sess : SessionOK(s, sess[s]) /\ sess[s].state = "SNONE"
  BY ZeroOK DEF Init
<1>2. TypeOK
  <2>1. listeners \in Seq(Sess) /\ hash \in Seq(Sess)  BY DEF Init
  <2>2. sess \in [Sess -> Session]  BY <1>1 DEF Init, SessionOK
  <2>3. 1 \in 1..MaxSid  BY BoundsAssumption
  <2>4. /\ node = "gone" /\ aux = {} /\ mode = {} /\ mac = NoMac /\ hooks = {}
        /\ pppoe_sid = 1 /\ ticks = {} /\ rmq = {} /\ out = Silent
    BY DEF Init
  <2> QED BY <2>1, <2>2, <2>3, <2>4, SilentOK, ConstantsAssumption DEF TypeOK
<1>3. /\ Members(listeners) = {} /\ Members(hash) = {}
      /\ NoDuplicates(listeners) /\ NoDuplicates(hash)
  <2>1. DOMAIN listeners = {} /\ DOMAIN hash = {}  BY DEF Init
  <2> QED BY <2>1 DEF Members, NoDuplicates
<1>4. \A s \in Sess : sess[s].state # "LISTENING" /\ sess[s].state \notin Established
                      /\ sess[s].state \notin Waiting
  BY <1>1 DEF Established, Waiting
<1> QED BY <1>1, <1>2, <1>3, <1>4 DEF Init, IndInv

(* A stuttering step keeps the invariant.                                  *)
LEMMA StutterStep ==
    ASSUME IndInv, UNCHANGED vars
    PROVE  IndInv'
<1>1. UNCHANGED <<node, aux, mode, mac, hooks, sess, listeners, hash, pppoe_sid, ticks, rmq, out>>
  BY DEF vars
<1> QED BY <1>1, NoSession DEF IndInv, TypeOK

(* Every step of a session hook keeps the invariant.                       *)
LEMMA SessStep ==
    ASSUME IndInv, PadsIdsNonzero, NEW s \in Sess, SessNext(s)
    PROVE  IndInv'
<1>1. CASE NewHook(s)  BY <1>1, NewHookStep
<1>2. CASE RcvHookData(s)  BY <1>2, RcvHookDataStep
<1>3. ASSUME NEW r \in Requests, Connect(s, r) \/ Listen(s, r) \/ Offer(s, r) \/ Service(s, r)
      PROVE  IndInv'
  BY <1>3, ConnectStep, ListenStep, OfferStep, ServiceStep
<1>4. ASSUME NEW f \in Frames, RcvHookPadi(s, f) \/ RcvPado(s, f) \/ RcvPadr(s, f)
      PROVE  IndInv'
  BY <1>4, RcvHookPadiStep, RcvPadoStep, RcvPadrStep
<1>5. ASSUME NEW f \in Frames, RcvPads(s, f) \/ RcvPadt(s, f) \/ RcvSessionData(s, f)
      PROVE  IndInv'
  BY <1>5, RcvPadsStep, RcvPadtStep, RcvSessionDataStep
<1>6. CASE Expire(s)  BY <1>6, ExpireStep
<1>7. CASE Ticker(s)  BY <1>7, TickerStep
<1>8. CASE RmHookSelf(s) \/ RmHookPeer(s) \/ DestroyHook(s)
  <2>1. s \in hooks /\ node # "gone" /\ Disconnect(s)
    BY <1>8 DEF RmHookSelf, RmHookPeer, DestroyHook, IndInv
  <2> QED BY <2>1, DisconnectStep
<1> QED BY <1>1, <1>2, <1>3, <1>4, <1>5, <1>6, <1>7, <1>8 DEF SessNext

(* IndInv is inductive.                                                    *)
LEMMA NextStep ==
    ASSUME IndInv, PadsIdsNonzero, [Next]_vars
    PROVE  IndInv'
<1>1. CASE UNCHANGED vars  BY <1>1, StutterStep
<1>2. ASSUME NEW s \in Sess, SessNext(s)  PROVE IndInv'  BY <1>2, SessStep
<1>3. CASE Constructor  BY <1>3, ConstructorStep
<1>4. ASSUME NEW f \in Frames, RcvPadi(f) \/ RcvDebugData(f)  PROVE IndInv'
  BY <1>4, RcvPadiStep, RcvDebugDataStep
<1>5. CASE NodeNext
  BY <1>3, <1>4, <1>5, NodeStep DEF NodeNext
<1> QED BY <1>1, <1>2, <1>5 DEF Next

----------------------------------------------------------------------------
(* The invariants of the runs follow from IndInv.                          *)
LEMMA Consequences ==
    ASSUME IndInv
    PROVE  /\ NegotiationBlock /\ Linked /\ TimerSafe
           /\ PacketFollowsState /\ HeaderFollowsSession
<1>1. \A s \in hooks : s \in Sess /\ SessionOK(s, sess[s])  BY DEF IndInv, TypeOK
<1>2. \A s \in Sess : SessionOK(s, sess[s]) /\ (sess[s].state # "SNONE" => s \in hooks)
  BY DEF IndInv
<1>3. NegotiationBlock
  <2>1. \A s \in Sess : sess[s].state \in Negotiating => s \in hooks
    BY <1>2 DEF Negotiating, State
  <2>2. \A s \in Sess : sess[s].state \in Waiting => sess[s].neg # NULL
    BY <1>2 DEF SessionOK, Waiting, Negotiating, State
  <2> QED BY <1>2, <2>1, <2>2 DEF NegotiationBlock, InState, SessionOK
<1>4. Linked
  <2>1. Members(listeners) = InState({"LISTENING"})
    BY <1>1, <1>2 DEF IndInv, InState
  <2>2. Members(hash) = InState(Established)
    BY <1>1, <1>2 DEF IndInv, InState, Established
  <2>3. \A s \in hooks : sess[s].sid # 0 <=> sess[s].state \in Established
    BY <1>1 DEF SessionOK
  <2> QED BY <2>1, <2>2, <2>3 DEF Linked, IndInv
<1>5. TimerSafe
  <2>1. \A s \in Sess : sess[s].callout # 0 => s \in InState(Waiting)
    BY <1>2 DEF SessionOK, Waiting, InState
  <2>2. \A s \in InState(Waiting) : sess[s].callout # 0 \/ s \in ticks \/ s \in rmq
    BY <1>1 DEF IndInv, InState
  <2> QED BY <2>1, <2>2 DEF TimerSafe, IndInv
<1>6. PacketFollowsState /\ HeaderFollowsSession
  BY <1>1 DEF PacketFollowsState, HeaderFollowsSession, SessionOK
<1> QED BY <1>3, <1>4, <1>5, <1>6

(* Against peers that never confirm a session with Session_ID 0, every     *)
(* variable keeps its type and IndInv holds for ever.                      *)
THEOREM Invariance == PadsIdsNonzero => (Spec => [](TypeOK /\ IndInv))
<1> SUFFICES ASSUME PadsIdsNonzero PROVE Spec => [](TypeOK /\ IndInv)  OBVIOUS
<1>1. IndInv /\ [Next]_vars => IndInv'  BY NextStep
<1>2. IndInv => TypeOK  BY DEF IndInv
<1> QED BY <1>1, <1>2, InitOK, PTL DEF Spec

(* Against such peers a session has its negotiation block while it         *)
(* negotiates and at no other time, and its callout lives in that block.   *)
THEOREM NegotiationBlockHolds == PadsIdsNonzero => (Spec => []NegotiationBlock)
<1> SUFFICES ASSUME PadsIdsNonzero PROVE Spec => []NegotiationBlock  OBVIOUS
<1> QED BY Invariance, Consequences, PTL

(* Against such peers the lists of the node hold the live sessions their   *)
(* states put there and nothing else: no list ever has a dangling link.    *)
THEOREM LinkedHolds == PadsIdsNonzero => (Spec => []Linked)
<1> SUFFICES ASSUME PadsIdsNonzero PROVE Spec => []Linked  OBVIOUS
<1> QED BY Invariance, Consequences, PTL

(* Against such peers a session that waits for its peer is never left      *)
(* without a timer or a queued call that will wake it.                     *)
THEOREM TimerSafeHolds == PadsIdsNonzero => (Spec => []TimerSafe)
<1> SUFFICES ASSUME PadsIdsNonzero PROVE Spec => []TimerSafe  OBVIOUS
<1> QED BY Invariance, Consequences, PTL

(* Against such peers the packet kept for resending and the header for     *)
(* session data always fit the state, the id and the peer of the session.  *)
THEOREM PacketsFollowSession ==
    PadsIdsNonzero => (Spec => [](PacketFollowsState /\ HeaderFollowsSession))
<1> SUFFICES ASSUME PadsIdsNonzero
             PROVE  Spec => [](PacketFollowsState /\ HeaderFollowsSession)
  OBVIOUS
<1> QED BY Invariance, Consequences, PTL

----------------------------------------------------------------------------
(* What the steps of one hook do to the sessions of the others, and what   *)
(* they may do to its own state.                                           *)
LEMMA OthersKept ==
    ASSUME IndInv, NEW s \in Sess, SessNext(s), NEW t \in Sess, t # s
    PROVE  sess'[t] = sess[t]
<1>1. t \in Sess /\ sess \in [Sess -> Session]  BY DEF IndInv, TypeOK
<1>2. CASE NewHook(s) \/ RcvHookData(s)  BY <1>1, <1>2 DEF NewHook, RcvHookData
<1>3. ASSUME NEW r \in Requests, Connect(s, r) \/ Listen(s, r) \/ Offer(s, r) \/ Service(s, r)
      PROVE  sess'[t] = sess[t]
  BY <1>1, <1>3 DEF Connect, Listen, Offer, Service
<1>4. ASSUME NEW f \in Frames, RcvHookPadi(s, f) \/ RcvPado(s, f) \/ RcvPadr(s, f)
      PROVE  sess'[t] = sess[t]
  BY <1>1, <1>4 DEF RcvHookPadi, RcvPado, RcvPadr, FindUniq
<1>5. ASSUME NEW f \in Frames, RcvPads(s, f) \/ RcvPadt(s, f) \/ RcvSessionData(s, f)
      PROVE  sess'[t] = sess[t]
  BY <1>1, <1>5 DEF RcvPads, FindUniq, AddSession, RcvPadt, RcvSessionData
<1>6. CASE Expire(s) \/ Ticker(s)  BY <1>1, <1>6 DEF Expire, Ticker
<1>7. CASE RmHookSelf(s) \/ RmHookPeer(s) \/ DestroyHook(s)
  BY <1>1, <1>7 DEF RmHookSelf, RmHookPeer, DestroyHook, Disconnect
<1> QED BY <1>2, <1>3, <1>4, <1>5, <1>6, <1>7 DEF SessNext

(* The steps of the node leave every session alone.                        *)
LEMMA NodeKeepsSessions == NodeNext => sess' = sess
BY DEF NodeNext, Constructor, RmNode, Shutdown, NewAuxHook, RmAuxHook, DestroyAuxHook,
       DisconnectAux, SetMode, SetEnaddr, RcvPadi, BroadcastPadi, RcvDebugData

(* A PADR that comes again leaves the id and the header of the session.    *)
LEMMA RetryKeeps ==
    ASSUME IndInv, NEW s \in hooks, NEW f \in Frames, RcvPadr(s, f),
           sess[s].state = "NEWCONNECTED"
    PROVE  /\ sess'[s].sid = sess[s].sid /\ sess'[s].hdr = sess[s].hdr
           /\ sess'[s].state = "NEWCONNECTED"
<1> DEFINE id == sess[s].neg.pkt.hdr.sid
           hdr == [sess[s].neg.pkt.hdr EXCEPT !.code = "PADS", !.sid = id]
<1>1. /\ SessionOK(s, sess[s]) /\ sess[s] \in Session /\ s \in Sess
      /\ sess \in [Sess -> Session]
  BY DEF IndInv, TypeOK
<1>2. /\ sess[s].sid # 0 /\ id = sess[s].sid /\ sess[s].neg.pkt.hdr.code = "PADS"
      /\ sess[s].hdr = [sess[s].neg.pkt.hdr EXCEPT !.code = "DATA",
                            !.etype = SessTypeOf(sess[s].neg.pkt.hdr.etype)]
      /\ sess[s].neg.pkt.hdr \in Header
  BY <1>1 DEF SessionOK, PacketOK, Established, Session, Negotiating, State, Neg, Frame
<1>3. hdr = sess[s].neg.pkt.hdr  BY <1>2 DEF Header
<1>4. sess'[s] = Confirmed(s, f, id)  BY <1>1, <1>2 DEF RcvPadr, FindUniq
<1>5. /\ Confirmed(s, f, id).sid = sess[s].sid
      /\ Confirmed(s, f, id).state = "NEWCONNECTED"
      /\ Confirmed(s, f, id).hdr = [hdr EXCEPT !.code = "DATA", !.etype = SessTypeOf(hdr.etype)]
  BY <1>1 DEF Confirmed, Session
<1> HIDE DEF hdr
<1> QED BY <1>2, <1>3, <1>4, <1>5

(* The states a step of a hook can lead to; an established session keeps   *)
(* its id and its header.                                                  *)
LEMMA OwnStep ==
    ASSUME IndInv, NEW s \in hooks, SessNext(s), s \in hooks'
    PROVE  /\ sess'[s].state \in {sess[s].state} \cup Successors[sess[s].state]
           /\ sess[s].state \in Established =>
                 sess'[s].sid = sess[s].sid /\ sess'[s].hdr = sess[s].hdr
<1> DEFINE Goal == /\ sess'[s].state \in {sess[s].state} \cup Successors[sess[s].state]
                   /\ sess[s].state \in Established =>
                         sess'[s].sid = sess[s].sid /\ sess'[s].hdr = sess[s].hdr
<1>1. s \in Sess /\ sess \in [Sess -> Session] /\ sess[s] \in Session
  BY DEF IndInv, TypeOK
<1>2. CASE NewHook(s) \/ RcvHookData(s)  BY <1>1, <1>2 DEF NewHook, RcvHookData
<1>3. ASSUME NEW r \in Requests, Connect(s, r)  PROVE Goal
  <2>1. sess[s].state = "SNONE"
        /\ sess'[s] = Started(s, [sess[s] EXCEPT !.neg = NewNeg("DATA", r.ac, r.svc)])
    BY <1>1, <1>3 DEF Connect, Idle
  <2>2. Started(s, [sess[s] EXCEPT !.neg = NewNeg("DATA", r.ac, r.svc)]).state = "SINIT"
    BY <1>1 DEF Started, Session
  <2> QED BY <2>1, <2>2 DEF Successors, Established
<1>4. ASSUME NEW r \in Requests, Listen(s, r) \/ Offer(s, r)  PROVE Goal
  <2>1. sess[s].state = "SNONE" /\ sess'[s].state \in {"LISTENING", "PRIMED"}
    <3>1. CASE Listen(s, r)
      <4>1. sess'[s] = [sess[s] EXCEPT !.state = "LISTENING", !.neg = NewNeg("PADT", "", r.svc)]
        BY <1>1, <3>1 DEF Listen
      <4> QED BY <1>1, <3>1, <4>1 DEF Listen, Idle, Session
    <3>2. CASE Offer(s, r)
      <4>1. sess'[s] = [sess[s] EXCEPT !.state = "PRIMED", !.neg = NewNeg("PADO", r.ac, "")]
        BY <1>1, <3>2 DEF Offer
      <4> QED BY <1>1, <3>2, <4>1 DEF Offer, Idle, Session
    <3> QED BY <1>4, <3>1, <3>2
  <2> QED BY <2>1 DEF Successors, Established
<1>5. ASSUME NEW r \in Requests, Service(s, r)  PROVE Goal
  <2>1. sess'[s] = [sess[s] EXCEPT !.neg = [sess[s].neg EXCEPT !.service = r.svc]]
    BY <1>1, <1>5 DEF Service
  <2> QED BY <1>1, <1>5, <2>1 DEF Service, Session, Established
<1>6. ASSUME NEW f \in Frames, RcvHookPadi(s, f)  PROVE Goal
  <2>1. sess[s].state = "PRIMED"  BY <1>6 DEF RcvHookPadi
  <2>2. sess'[s].state \in {"PRIMED", "SOFFER"}
    BY <1>1, <1>6, <2>1 DEF RcvHookPadi, Session
  <2> QED BY <2>1, <2>2 DEF Successors, Established
<1>7. ASSUME NEW f \in Frames, RcvPado(s, f) \/ RcvPads(s, f)  PROVE Goal
  <2>1. CASE RcvPado(s, f)
    <3>1. sess[s].state = "SINIT" /\ sess'[s].state = "SREQ"
      BY <1>1, <2>1 DEF RcvPado, FindUniq, Session
    <3> QED BY <3>1 DEF Successors, Established
  <2>2. CASE RcvPads(s, f)
    <3>1. sess[s].state = "SREQ" /\ sess'[s].state = "CONNECTED"
      BY <1>1, <2>2 DEF RcvPads, FindUniq, AddSession
    <3> QED BY <3>1 DEF Successors, Established
  <2> QED BY <1>7, <2>1, <2>2
<1>8. ASSUME NEW f \in Frames, RcvPadr(s, f)  PROVE Goal
  <2>1. CASE sess[s].state = "NEWCONNECTED"  BY <1>8, <2>1, RetryKeeps
  <2>2. CASE sess[s].state = "SOFFER"
    <3>1. sess[s].sid = 0  BY <1>1, <2>2 DEF IndInv, SessionOK, Established
    <3>2. PICK id \in 1..MaxSid : sess'[s] = [Confirmed(s, f, id) EXCEPT !.sid = id]
      BY <1>1, <1>8, <3>1 DEF RcvPadr, FindUniq
    <3>3. [Confirmed(s, f, id) EXCEPT !.sid = id].state = "NEWCONNECTED"
      BY <1>1 DEF Confirmed, Session
    <3> QED BY <2>2, <3>2, <3>3 DEF Successors, Established
  <2> QED BY <1>8, <2>1, <2>2 DEF RcvPadr, FindUniq
<1>9. ASSUME NEW f \in Frames, RcvPadt(s, f) \/ RcvSessionData(s, f)  PROVE Goal
  <2>1. CASE RcvPadt(s, f)  BY <2>1 DEF RcvPadt
  <2>2. CASE RcvSessionData(s, f)
    <3>1. /\ sess[s].state \in Established /\ sess'[s].state = "CONNECTED"
          /\ sess'[s].sid = sess[s].sid /\ sess'[s].hdr = sess[s].hdr
      BY <1>1, <2>2 DEF RcvSessionData, Session
    <3> QED BY <3>1 DEF Established, Successors
  <2> QED BY <1>9, <2>1, <2>2
<1>10. CASE Expire(s)  BY <1>1, <1>10 DEF Expire, Session
<1>11. CASE Ticker(s)
  <2>1. CASE sess[s].state \in {"SINIT", "SREQ"}
    <3>1. sess'[s] = Resent(s)  BY <1>1, <1>11, <2>1 DEF Ticker
    <3>2. Resent(s).state = sess[s].state \/ (sess[s].state = "SREQ" /\ Resent(s).state = "SINIT")
      BY <1>1 DEF Resent, Started, Session
    <3> QED BY <2>1, <3>1, <3>2 DEF Successors, Established
  <2>2. CASE sess[s].state \notin {"SINIT", "SREQ"}  BY <1>11, <2>2 DEF Ticker
  <2> QED BY <2>1, <2>2
<1>12. CASE RmHookSelf(s) \/ RmHookPeer(s) \/ DestroyHook(s)
  BY <1>12 DEF RmHookSelf, RmHookPeer, DestroyHook, Disconnect
<1> QED
  BY <1>2, <1>3, <1>4, <1>5, <1>6, <1>7, <1>8, <1>9, <1>10, <1>11, <1>12 DEF SessNext

(* Every step of the node follows the state machine of each session and    *)
(* keeps what an established session has.                                  *)
LEMMA StepKeeps ==
    ASSUME IndInv, [Next]_vars, NEW s \in hooks, s \in hooks'
    PROVE  /\ sess'[s].state \in {sess[s].state} \cup Successors[sess[s].state]
           /\ sess[s].state \in Established =>
                 sess'[s].sid = sess[s].sid /\ sess'[s].hdr = sess[s].hdr
<1>1. CASE UNCHANGED vars \/ NodeNext
  <2>1. sess' = sess  BY <1>1, NodeKeepsSessions DEF vars
  <2> QED BY <2>1
<1>2. ASSUME NEW t \in Sess, SessNext(t), t # s  PROVE sess'[s] = sess[s]
  BY <1>2, OthersKept DEF IndInv, TypeOK
<1>3. CASE SessNext(s)  BY <1>3, OwnStep
<1> QED BY <1>1, <1>2, <1>3 DEF Next

(* Against peers that never confirm with Session_ID 0, a session takes one *)
(* part and goes through its states in their order, up to its removal.     *)
THEOREM RolesAreKept == PadsIdsNonzero => (Spec => RoleKept)
<1> SUFFICES ASSUME PadsIdsNonzero PROVE Spec => RoleKept  OBVIOUS
<1>1. IndInv /\ [Next]_vars =>
        [\A s \in hooks \cap hooks' :
            sess'[s].state \in {sess[s].state} \cup Successors[sess[s].state]]_vars
  BY StepKeeps
<1> QED BY <1>1, Invariance, PTL DEF Spec, RoleKept

(* Against such peers an established session keeps its id and its header,  *)
(* through retries, late timeouts, mode changes, until its hook goes.      *)
THEOREM EstablishedIsStable == PadsIdsNonzero => (Spec => EstablishedStable)
<1> SUFFICES ASSUME PadsIdsNonzero PROVE Spec => EstablishedStable  OBVIOUS
<1> DEFINE Stable == \A s \in InState(Established) : s \in hooks' =>
                        /\ sess'[s].sid = sess[s].sid /\ sess'[s].hdr = sess[s].hdr
                        /\ sess'[s].state \in {sess[s].state, "CONNECTED"}
<1>1. ASSUME IndInv, [Next]_vars PROVE Stable
  <2> SUFFICES ASSUME NEW s \in hooks, sess[s].state \in Established, s \in hooks'
               PROVE  /\ sess'[s].sid = sess[s].sid /\ sess'[s].hdr = sess[s].hdr
                      /\ sess'[s].state \in {sess[s].state, "CONNECTED"}
    BY DEF InState
  <2> QED BY <1>1, StepKeeps DEF Established, Successors
<1>2. IndInv /\ [Next]_vars => [Stable]_vars  BY <1>1
<1> QED BY <1>2, Invariance, PTL DEF Spec, EstablishedStable

----------------------------------------------------------------------------
(* Two listeners never have one service, and two sessions the node gave    *)
(* ids to never have one id.                                               *)

(* A hook that joins is in SNONE.                                          *)
LEMMA Newcomer ==
    ASSUME IndInv, [Next]_vars, NEW s \in hooks', s \notin hooks
    PROVE  sess'[s].state = "SNONE"
<1>1. hooks' \subseteq hooks \/ \E t \in Sess : NewHook(t)
  <2>1. CASE UNCHANGED vars  BY <2>1 DEF vars
  <2>2. CASE NodeNext
    BY <2>2 DEF NodeNext, Constructor, RmNode, Shutdown, NewAuxHook, RmAuxHook, DestroyAuxHook,
                DisconnectAux, SetMode, SetEnaddr, RcvPadi, BroadcastPadi, RcvDebugData
  <2>3. ASSUME NEW t \in Sess, SessNext(t)  PROVE hooks' \subseteq hooks \/ NewHook(t)
    <3>1. ASSUME NEW r \in Requests, Connect(t, r) \/ Listen(t, r) \/ Offer(t, r) \/ Service(t, r)
          PROVE  hooks' = hooks
      BY <3>1 DEF Connect, Listen, Offer, Service
    <3>2. ASSUME NEW f \in Frames,
                 \/ RcvHookPadi(t, f) \/ RcvPado(t, f) \/ RcvPadr(t, f)
                 \/ RcvPads(t, f) \/ RcvPadt(t, f) \/ RcvSessionData(t, f)
          PROVE  hooks' = hooks
      BY <3>2 DEF RcvHookPadi, RcvPado, RcvPadr, RcvPads, FindUniq, AddSession, RcvPadt, RcvSessionData
    <3>3. CASE RcvHookData(t) \/ Expire(t) \/ Ticker(t)
      BY <3>3 DEF RcvHookData, Expire, Ticker
    <3>4. CASE RmHookSelf(t) \/ RmHookPeer(t) \/ DestroyHook(t)
      BY <3>4 DEF RmHookSelf, RmHookPeer, DestroyHook, Disconnect
    <3> QED BY <2>3, <3>1, <3>2, <3>3, <3>4 DEF SessNext
  <2> QED BY <2>1, <2>2, <2>3 DEF Next
<1>2. PICK t \in Sess : NewHook(t)  BY <1>1
<1>3. s = t /\ sess' = [sess EXCEPT ![t] = ZeroSession]  BY <1>2 DEF NewHook
<1>4. sess \in [Sess -> Session]  BY DEF IndInv, TypeOK
<1> QED BY <1>2, <1>3, <1>4 DEF ZeroSession

----------------------------------------------------------------------------
(* Nothing that happens to a listener but its removal changes it.          *)
LEMMA ListenerKept ==
    ASSUME IndInv, NEW s \in hooks, SessNext(s), s \in hooks', sess[s].state = "LISTENING"
    PROVE  sess'[s] = sess[s]
<1>1. /\ s \in Sess /\ sess[s] \in Session /\ sess[s].callout = 0
      /\ sess[s].state \notin Established
  BY DEF IndInv, TypeOK, SessionOK, Waiting, Established
<1>2. CASE NewHook(s) \/ RcvHookData(s)  BY <1>2 DEF NewHook, RcvHookData
<1>3. ASSUME NEW r \in Requests, Connect(s, r) \/ Listen(s, r) \/ Offer(s, r) \/ Service(s, r)
      PROVE  FALSE
  BY <1>3 DEF Connect, Listen, Offer, Service, Idle
<1>4. ASSUME NEW f \in Frames, RcvHookPadi(s, f) \/ RcvPado(s, f) \/ RcvPadr(s, f) \/ RcvPads(s, f)
      PROVE  FALSE
  BY <1>4 DEF RcvHookPadi, RcvPado, RcvPadr, RcvPads, FindUniq, AddSession
<1>5. ASSUME NEW f \in Frames, RcvPadt(s, f) \/ RcvSessionData(s, f)
      PROVE  sess'[s] = sess[s]
  BY <1>1, <1>5 DEF RcvPadt, RcvSessionData
<1>6. CASE Expire(s)  BY <1>1, <1>6 DEF Expire
<1>7. CASE Ticker(s)  BY <1>7 DEF Ticker
<1>8. CASE RmHookSelf(s) \/ RmHookPeer(s) \/ DestroyHook(s)
  BY <1>8 DEF RmHookSelf, RmHookPeer, DestroyHook, Disconnect
<1> QED BY <1>2, <1>3, <1>4, <1>5, <1>6, <1>7, <1>8 DEF SessNext

(* Only LISTEN makes a hook a listener.                                    *)
LEMMA OnlyListen ==
    ASSUME IndInv, NEW s \in hooks, SessNext(s), sess[s].state = "SNONE",
           sess'[s].state = "LISTENING"
    PROVE  \E r \in Requests : Listen(s, r)
<1>1. /\ s \in Sess /\ sess[s] \in Session /\ sess \in [Sess -> Session]
      /\ sess[s].callout = 0 /\ sess[s].state \notin Established
  BY DEF IndInv, TypeOK, SessionOK, Waiting, Established
<1>2. CASE NewHook(s) \/ RcvHookData(s)  BY <1>2 DEF NewHook, RcvHookData
<1>3. ASSUME NEW r \in Requests, Connect(s, r)  PROVE FALSE
  <2>1. sess'[s] = Started(s, [sess[s] EXCEPT !.neg = NewNeg("DATA", r.ac, r.svc)])
    BY <1>1, <1>3 DEF Connect
  <2>2. Started(s, [sess[s] EXCEPT !.neg = NewNeg("DATA", r.ac, r.svc)]).state = "SINIT"
    BY <1>1 DEF Started, Session
  <2> QED BY <2>1, <2>2
<1>4. ASSUME NEW r \in Requests, Offer(s, r) \/ Service(s, r)  PROVE FALSE
  <2>1. CASE Offer(s, r)
    <3>1. sess'[s] = [sess[s] EXCEPT !.state = "PRIMED", !.neg = NewNeg("PADO", r.ac, "")]
      BY <1>1, <2>1 DEF Offer
    <3> QED BY <1>1, <3>1 DEF Session
  <2>2. CASE Service(s, r)  BY <2>2 DEF Service
  <2> QED BY <1>4, <2>1, <2>2
<1>5. ASSUME NEW f \in Frames, RcvHookPadi(s, f) \/ RcvPado(s, f) \/ RcvPadr(s, f) \/ RcvPads(s, f)
      PROVE  FALSE
  BY <1>5 DEF RcvHookPadi, RcvPado, RcvPadr, RcvPads, FindUniq, AddSession
<1>6. ASSUME NEW f \in Frames, RcvPadt(s, f) \/ RcvSessionData(s, f)
      PROVE  FALSE
  BY <1>1, <1>6 DEF RcvPadt, RcvSessionData
<1>7. CASE Expire(s)  BY <1>1, <1>7 DEF Expire
<1>8. CASE Ticker(s)  BY <1>8 DEF Ticker
<1>9. CASE RmHookSelf(s) \/ RmHookPeer(s) \/ DestroyHook(s)
  <2>1. sess' = [sess EXCEPT ![s] = ZeroSession]
    BY <1>9 DEF RmHookSelf, RmHookPeer, DestroyHook, Disconnect
  <2> QED BY <1>1, <2>1 DEF ZeroSession
<1> QED BY <1>2, <1>3, <1>4, <1>5, <1>6, <1>7, <1>8, <1>9 DEF SessNext

(* A listener was one before, with its service, or a LISTEN has just made  *)
(* it one for a service that no other hook had.                            *)
LEMMA ListenerStep ==
    ASSUME IndInv, [Next]_vars, NEW s \in hooks', sess'[s].state = "LISTENING"
    PROVE  /\ s \in hooks
           /\ \/ sess'[s] = sess[s]
              \/ \A t \in hooks \ {s} :
                    /\ sess'[t] = sess[t]
                    /\ sess[t].state = "LISTENING" =>
                          sess[t].neg.service # sess'[s].neg.service
<1>1. s \in hooks  BY Newcomer
<1>2. CASE UNCHANGED vars \/ NodeNext
  <2>1. sess' = sess  BY <1>2, NodeKeepsSessions DEF vars
  <2> QED BY <1>1, <2>1
<1>3. ASSUME NEW t \in Sess, SessNext(t), t # s  PROVE sess'[s] = sess[s]
  BY <1>1, <1>3, OthersKept DEF IndInv, TypeOK
<1>4. CASE SessNext(s)
  <2>1. s \in Sess /\ sess \in [Sess -> Session] /\ sess[s] \in Session
    BY <1>1 DEF IndInv, TypeOK
  <2>2. "LISTENING" \in {sess[s].state} \cup Successors[sess[s].state]
    BY <1>1, <1>4, OwnStep
  <2>3. sess[s].state \in {"LISTENING", "SNONE"}
    BY <2>1, <2>2 DEF Successors, Session, State
  <2>4. CASE sess[s].state = "LISTENING"  BY <1>1, <1>4, <2>4, ListenerKept
  <2>5. CASE sess[s].state = "SNONE"
    <3>1. PICK r \in Requests : Listen(s, r)  BY <1>1, <1>4, <2>5, OnlyListen
    <3> DEFINE neg == NewNeg("PADT", "", r.svc)
    <3>2. sess' = [sess EXCEPT ![s] = [sess[s] EXCEPT !.state = "LISTENING", !.neg = neg]]
      BY <3>1 DEF Listen
    <3>3. neg.service = r.svc  BY DEF NewNeg
    <3> HIDE DEF neg
    <3>4. sess'[s].neg.service = r.svc  BY <2>1, <3>2, <3>3 DEF Session
    <3>5. ASSUME NEW t \in hooks \ {s}
          PROVE  /\ sess'[t] = sess[t]
                 /\ sess[t].state = "LISTENING" => sess[t].neg.service # r.svc
      <4>1. sess'[t] = sess[t]  BY <2>1, <3>2
      <4>2. ASSUME sess[t].state = "LISTENING"  PROVE t \in Members(listeners)
        BY <4>2 DEF IndInv, TypeOK
      <4>3. FindSvc(r.svc) = {}  BY <3>1 DEF Listen
      <4> QED BY <4>1, <4>2, <4>3 DEF FindSvc
    <3> QED BY <1>1, <3>4, <3>5
  <2> QED BY <2>3, <2>4, <2>5
<1> QED BY <1>1, <1>2, <1>3, <1>4 DEF Next

(* While no concentrator confirms with id 0, no service ever has two       *)
(* listeners, whatever hooks come, go and are renamed to it.               *)
THEOREM ListenersDiffer == PadsIdsNonzero => (Spec => []OneListenerPerService)
<1> SUFFICES ASSUME PadsIdsNonzero PROVE Spec => []OneListenerPerService  OBVIOUS
<1>1. Init => OneListenerPerService  BY DEF Init, OneListenerPerService, InState
<1>2. ASSUME IndInv, OneListenerPerService, [Next]_vars
      PROVE  OneListenerPerService'
  <2> SUFFICES ASSUME NEW s \in hooks', sess'[s].state = "LISTENING",
                      NEW t \in hooks', sess'[t].state = "LISTENING",
                      sess'[s].neg.service = sess'[t].neg.service, s # t
               PROVE  FALSE
    BY DEF OneListenerPerService, InState
  <2>1. s \in hooks /\ t \in hooks  BY <1>2, ListenerStep
  <2>2. CASE sess'[s] = sess[s] /\ sess'[t] = sess[t]
    BY <1>2, <2>1, <2>2 DEF OneListenerPerService, InState
  <2>3. CASE sess'[s] # sess[s]
    <3>1. /\ sess'[t] = sess[t]
          /\ sess[t].state = "LISTENING" => sess[t].neg.service # sess'[s].neg.service
      BY <1>2, <2>1, <2>3, ListenerStep
    <3> QED BY <3>1
  <2>4. CASE sess'[t] # sess[t]
    <3>1. /\ sess'[s] = sess[s]
          /\ sess[s].state = "LISTENING" => sess[s].neg.service # sess'[t].neg.service
      BY <1>2, <2>1, <2>4, ListenerStep
    <3> QED BY <3>1
  <2> QED BY <2>2, <2>3, <2>4
<1> QED BY <1>1, <1>2, Invariance, PTL DEF Spec

----------------------------------------------------------------------------
(* A node that never gets a PADS, one that only serves: the ids of its     *)
(* sessions are its own.                                                   *)
NoPads == \A f \in Frames : f.hdr.code # "PADS"

(* Nobody who confirms no session confirms one with id 0.                  *)
LEMMA ServersHaveNoPads == NoPads => PadsIdsNonzero
BY DEF NoPads, PadsIdsNonzero

(* On such a node only a PADR establishes a session.                       *)
LEMMA OnlyPadr ==
    ASSUME NoPads, IndInv, NEW s \in hooks, SessNext(s), s \in hooks',
           sess[s].state \notin Established, sess'[s].state \in Established
    PROVE  \E f \in Frames : RcvPadr(s, f)
<1>1. s \in Sess /\ sess[s] \in Session /\ sess \in [Sess -> Session]
  BY DEF IndInv, TypeOK
<1>2. sess'[s].state \in {sess[s].state} \cup Successors[sess[s].state]  BY OwnStep
<1>3. sess[s].state \in {"SOFFER", "SREQ"}
  BY <1>1, <1>2 DEF Successors, Established, Session, State
<1>4. CASE NewHook(s) \/ RcvHookData(s)
  BY <1>3, <1>4 DEF NewHook, RcvHookData, Established
<1>5. ASSUME NEW r \in Requests, Connect(s, r) \/ Listen(s, r) \/ Offer(s, r) \/ Service(s, r)
      PROVE  FALSE
  BY <1>3, <1>5 DEF Connect, Listen, Offer, Service, Idle
<1>6. ASSUME NEW f \in Frames, RcvHookPadi(s, f) \/ RcvPado(s, f) \/ RcvPads(s, f)
      PROVE  FALSE
  BY <1>3, <1>6 DEF RcvHookPadi, RcvPado, RcvPads, FindUniq, AddSession, Discovery, NoPads
<1>7. ASSUME NEW f \in Frames, RcvPadt(s, f) \/ RcvSessionData(s, f)  PROVE FALSE
  BY <1>7 DEF RcvPadt, RcvSessionData
<1>8. CASE Expire(s)  BY <1>1, <1>8 DEF Expire, Session
<1>9. CASE Ticker(s)
  <2>1. sess' = sess \/ (sess[s].state = "SREQ" /\ sess'[s] = Resent(s))
    BY <1>1, <1>3, <1>9 DEF Ticker
  <2>2. sess'[s].state \in {"SOFFER", "SINIT", "SREQ"}
    BY <1>1, <1>3, <2>1, ResentOK
  <2> QED BY <2>2 DEF Established
<1>10. CASE RmHookSelf(s) \/ RmHookPeer(s) \/ DestroyHook(s)
  BY <1>10 DEF RmHookSelf, RmHookPeer, DestroyHook, Disconnect
<1> QED BY <1>4, <1>5, <1>6, <1>7, <1>8, <1>9, <1>10 DEF SessNext

(* The id a PADR makes is the id of no other session.                      *)
LEMMA FreshId ==
    ASSUME IndInv, NEW s \in hooks, NEW f \in Frames, RcvPadr(s, f),
           sess[s].state \notin Established
    PROVE  \A t \in hooks \ {s} :
              /\ sess'[t] = sess[t]
              /\ sess[t].state \in Established => sess[t].sid # sess'[s].sid
<1>1. /\ s \in Sess /\ sess[s] \in Session /\ sess \in [Sess -> Session] /\ hooks \subseteq Sess
      /\ sess[s].sid = 0
      /\ \A t \in Sess : sess[t].state \in Established => t \in Members(hash)
  BY DEF IndInv, TypeOK, SessionOK
<1>2. PICK id, next \in 1..MaxSid :
         /\ NewSession(id, next)
         /\ sess' = [sess EXCEPT ![s] = [Confirmed(s, f, id) EXCEPT !.sid = id]]
  BY <1>1 DEF RcvPadr, FindUniq
<1>3. [Confirmed(s, f, id) EXCEPT !.sid = id].sid = id
  BY <1>1 DEF Confirmed, Session
<1>4. sess'[s].sid = id  BY <1>1, <1>2, <1>3
<1>5. \A t \in Members(hash) : sess[t].sid # id
  BY <1>2 DEF NewSession, InUse, Members
<1> QED BY <1>1, <1>2, <1>4, <1>5

(* A session that is established was so before, with its id, or a PADR has *)
(* just given it an id that no other session has.                          *)
LEMMA IdStep ==
    ASSUME NoPads, IndInv, [Next]_vars, NEW s \in hooks', sess'[s].state \in Established
    PROVE  /\ s \in hooks
           /\ \/ sess[s].state \in Established /\ sess'[s].sid = sess[s].sid
              \/ \A t \in hooks \ {s} :
                    /\ sess'[t] = sess[t]
                    /\ sess[t].state \in Established => sess[t].sid # sess'[s].sid
<1>1. s \in hooks  BY Newcomer DEF Established
<1>2. CASE sess[s].state \in Established  BY <1>1, <1>2, StepKeeps
<1>3. CASE sess[s].state \notin Established
  <2>1. ~ UNCHANGED vars /\ ~ NodeNext  BY <1>3, NodeKeepsSessions DEF vars
  <2>2. PICK t \in Sess : SessNext(t)  BY <2>1 DEF Next
  <2>3. t = s  BY <1>1, <1>3, <2>2, OthersKept DEF IndInv, TypeOK
  <2>4. PICK f \in Frames : RcvPadr(s, f)  BY <1>1, <1>3, <2>2, <2>3, OnlyPadr
  <2> QED BY <1>1, <1>3, <2>4, FreshId
<1> QED BY <1>2, <1>3

(* A node that only serves never has two sessions with one id, however     *)
(* often its counter wrapped and whatever retries and removals came.       *)
THEOREM IdsStayDistinct == NoPads => (Spec => []IdsDistinct)
<1> SUFFICES ASSUME NoPads PROVE Spec => []IdsDistinct  OBVIOUS
<1>1. Init => IdsDistinct  BY DEF Init, IdsDistinct, InState
<1>2. ASSUME IndInv, IdsDistinct, [Next]_vars
      PROVE  IdsDistinct'
  <2> SUFFICES ASSUME NEW s \in hooks', sess'[s].state \in Established,
                      NEW t \in hooks', sess'[t].state \in Established,
                      sess'[s].sid = sess'[t].sid, s # t
               PROVE  FALSE
    BY DEF IdsDistinct, InState
  <2> DEFINE Kept(u) == sess[u].state \in Established /\ sess'[u].sid = sess[u].sid
  <2>1. s \in hooks /\ t \in hooks  BY <1>2, IdStep
  <2>2. CASE Kept(s) /\ Kept(t)
    BY <1>2, <2>1, <2>2 DEF IdsDistinct, InState
  <2>3. CASE ~ Kept(s)
    <3>1. /\ sess'[t] = sess[t]
          /\ sess[t].state \in Established => sess[t].sid # sess'[s].sid
      BY <1>2, <2>1, <2>3, IdStep
    <3> QED BY <3>1
  <2>4. CASE ~ Kept(t)
    <3>1. /\ sess'[s] = sess[s]
          /\ sess[s].state \in Established => sess[s].sid # sess'[t].sid
      BY <1>2, <2>1, <2>4, IdStep
    <3> QED BY <3>1
  <2> QED BY <2>2, <2>3, <2>4
<1> QED BY <1>1, <1>2, Invariance, ServersHaveNoPads, PTL DEF Spec

----------------------------------------------------------------------------
(* The node implements PppoeSession.                                       *)

(* What the daemons see of a session follows from its hook and its state.  *)
LEMMA Seen ==
    ASSUME NEW s
    PROVE  /\ s \notin hooks => PartOf(s) = "none" /\ LinkOf(s) = {}
           /\ s \in hooks => PartOf(s) = Part[sess[s].state]
           /\ s \in hooks /\ sess[s].state \notin Established => LinkOf(s) = {}
           /\ s \in hooks /\ sess[s].state \in Established =>
                 LinkOf(s) = {[sid |-> sess[s].sid, peer |-> sess[s].hdr.dst]}
BY DEF PartOf, LinkOf, InState

(* The same after a step.                                                  *)
LEMMA SeenNext ==
    ASSUME NEW s
    PROVE  /\ s \notin hooks' => PartOf(s)' = "none" /\ LinkOf(s)' = {}
           /\ s \in hooks' => PartOf(s)' = Part[sess'[s].state]
           /\ s \in hooks' /\ sess'[s].state \notin Established => LinkOf(s)' = {}
           /\ s \in hooks' /\ sess'[s].state \in Established =>
                 LinkOf(s)' = {[sid |-> sess'[s].sid, peer |-> sess'[s].hdr.dst]}
BY DEF PartOf, LinkOf, InState

(* An established session has the link of the abstract session.            *)
LEMMA IsLink ==
    ASSUME NEW s, NEW r, SessionOK(s, r), r.state \in Established
    PROVE  [sid |-> r.sid, peer |-> r.hdr.dst] \in Daemon!Link
<1>1. r.sid \in 1..MaxSid
  BY BoundsAssumption DEF SessionOK, Session
<1>2. r.hdr.dst \in Addr \ {Broadcast}  BY DEF SessionOK, HeaderOK, Header
<1> QED BY <1>1, <1>2 DEF Daemon!Link

(* What the daemons hear of the events a session sends.                    *)
LEMMA Heard ==
    ASSUME NEW s
    PROVE  /\ Members(<<>>) = {}
           /\ Members(Tell(s, <<"ACNAME">>)) = {[ev |-> "ACNAME", to |-> s]}
           /\ Members(Tell(s, <<"CLOSE">>)) = {[ev |-> "CLOSE", to |-> s]}
           /\ Members(Tell(s, <<"SESSIONID", "SUCCESS">>)) = Daemon!News(s)
<1>1. Members(<<>>) = {}  BY DEF Members
<1>2. ASSUME NEW e  PROVE Members(Tell(s, <<e>>)) = {[ev |-> e, to |-> s]}
  <2>1. DOMAIN Tell(s, <<e>>) = {1} /\ Tell(s, <<e>>)[1] = [ev |-> e, to |-> s]
    BY DEF Tell
  <2> QED BY <2>1 DEF Members
<1>3. Members(Tell(s, <<"SESSIONID", "SUCCESS">>)) = Daemon!News(s)
  <2> DEFINE t == Tell(s, <<"SESSIONID", "SUCCESS">>)
  <2>1. DOMAIN t = {1, 2} /\ t[1] = [ev |-> "SESSIONID", to |-> s]
        /\ t[2] = [ev |-> "SUCCESS", to |-> s]
    BY DEF Tell
  <2> HIDE DEF t
  <2>2. Members(t) = {[ev |-> "SESSIONID", to |-> s], [ev |-> "SUCCESS", to |-> s]}
    BY <2>1 DEF Members
  <2>3. Daemon!News(s) = {[ev |-> "SESSIONID", to |-> s], [ev |-> "SUCCESS", to |-> s]}
    BY DEF Daemon!News
  <2> QED BY <2>2, <2>3 DEF t
<1> QED BY <1>1, <1>2, <1>3

----------------------------------------------------------------------------
(* The step concerns the daemon of s at most.                              *)
Only(s) ==
    \A t \in Sess \ {s} : PartOf(t)' = PartOf(t) /\ LinkOf(t)' = LinkOf(t)

(* The part of s changes and its links do not, or neither does.            *)
LEMMA Moves ==
    ASSUME NEW s \in Sess, Only(s), LinkOf(s)' = LinkOf(s)
    PROVE  /\ Daemon!Move(s, PartOf(s), PartOf(s)')
           /\ UNCHANGED [t \in Sess |-> LinkOf(t)]
           /\ PartOf(s)' = PartOf(s) => UNCHANGED [t \in Sess |-> PartOf(t)]
<1>1. [t \in Sess |-> PartOf(t)]' = [[t \in Sess |-> PartOf(t)] EXCEPT ![s] = PartOf(s)']
  BY DEF Only
<1>2. [t \in Sess |-> LinkOf(t)]' = [t \in Sess |-> LinkOf(t)]  BY DEF Only
<1>3. PartOf(s)' = PartOf(s) => [t \in Sess |-> PartOf(t)]' = [t \in Sess |-> PartOf(t)]
  BY DEF Only
<1> QED BY <1>1, <1>2, <1>3 DEF Daemon!Move

(* Nothing the daemon of s can see.                                        *)
LEMMA QuietStep ==
    ASSUME NEW s \in Sess, Only(s), PartOf(s)' = PartOf(s), LinkOf(s)' = LinkOf(s),
           out'.msg = <<>>
    PROVE  Daemon!Next
<1>1. Members(out'.msg) = {}  BY Heard
<1> QED BY <1>1, Moves DEF Daemon!Next, Daemon!Quiet

(* A hook takes its part.                                                  *)
LEMMA TakeStep ==
    ASSUME NEW s \in Sess, Only(s), LinkOf(s)' = LinkOf(s), out'.msg = <<>>,
           PartOf(s) = "idle", PartOf(s)' \in {"listener", "server", "client"}
    PROVE  Daemon!Next
<1>1. Members(out'.msg) = {}  BY Heard
<1>2. Daemon!Take(s, PartOf(s)')  BY <1>1, Moves DEF Daemon!Take
<1> QED BY <1>2 DEF Daemon!Next

(* A hook is there, its link is used for the first time, or its daemon     *)
(* hears a name.                                                           *)
LEMMA SmallStep ==
    ASSUME NEW s \in Sess, Only(s), LinkOf(s)' = LinkOf(s),
           \/ PartOf(s) = "none" /\ PartOf(s)' = "idle" /\ out'.msg = <<>>
           \/ PartOf(s) = "fresh" /\ PartOf(s)' = "up" /\ out'.msg = <<>>
           \/ /\ PartOf(s) = "client" /\ PartOf(s)' = "client"
              /\ out'.msg = Tell(s, <<"ACNAME">>)
           \/ /\ PartOf(s) = "fresh" /\ PartOf(s)' = "fresh"
              /\ out'.msg = Tell(s, <<"SESSIONID", "SUCCESS">>)
    PROVE  Daemon!Next
<1>1. CASE PartOf(s) = "none" /\ PartOf(s)' = "idle" /\ out'.msg = <<>>
  <2>1. Members(out'.msg) = {}  BY <1>1, Heard
  <2>2. Daemon!Attach(s)  BY <1>1, <2>1, Moves DEF Daemon!Attach
  <2> QED BY <2>2 DEF Daemon!Next
<1>2. CASE PartOf(s) = "fresh" /\ PartOf(s)' = "up" /\ out'.msg = <<>>
  <2>1. Members(out'.msg) = {}  BY <1>2, Heard
  <2>2. Daemon!Use(s)  BY <1>2, <2>1, Moves DEF Daemon!Use
  <2> QED BY <2>2 DEF Daemon!Next
<1>3. CASE /\ PartOf(s) = "client" /\ PartOf(s)' = "client"
           /\ out'.msg = Tell(s, <<"ACNAME">>)
  <2>1. Members(out'.msg) = {[ev |-> "ACNAME", to |-> s]}  BY <1>3, Heard
  <2>2. Daemon!Offered(s)  BY <1>3, <2>1, Moves DEF Daemon!Offered
  <2> QED BY <2>2 DEF Daemon!Next
<1>4. CASE /\ PartOf(s) = "fresh" /\ PartOf(s)' = "fresh"
           /\ out'.msg = Tell(s, <<"SESSIONID", "SUCCESS">>)
  <2>1. Members(out'.msg) = Daemon!News(s)  BY <1>4, Heard
  <2>2. Daemon!Repeat(s)  BY <1>4, <2>1, Moves DEF Daemon!Repeat
  <2> QED BY <2>2 DEF Daemon!Next
<1> QED BY <1>1, <1>2, <1>3, <1>4

(* A session gets its link; a server's has an id that no other has.        *)
LEMMA EstablishStep ==
    ASSUME NEW s \in Sess, Only(s), NEW l \in Daemon!Link, LinkOf(s)' = {l},
           out'.msg = Tell(s, <<"SESSIONID", "SUCCESS">>),
           \/ PartOf(s) = "client" /\ PartOf(s)' = "up"
           \/ /\ PartOf(s) = "server" /\ PartOf(s)' = "fresh"
              /\ \A t \in Sess : \A k \in LinkOf(t) : k.sid # l.sid
    PROVE  Daemon!Next
<1>1. Members(out'.msg) = Daemon!News(s)  BY Heard
<1>2. [t \in Sess |-> PartOf(t)]' = [[t \in Sess |-> PartOf(t)] EXCEPT ![s] = PartOf(s)']
  BY DEF Only
<1>3. [t \in Sess |-> LinkOf(t)]' = [[t \in Sess |-> LinkOf(t)] EXCEPT ![s] = {l}]
  BY DEF Only
<1>4. Daemon!Move(s, PartOf(s), PartOf(s)')  BY <1>2 DEF Daemon!Move
<1>5. (\A t \in Sess : \A k \in LinkOf(t) : k.sid # l.sid) => l.sid \notin Daemon!UsedIds
  BY DEF Daemon!UsedIds
<1>6. Daemon!Establish(s, l)  BY <1>1, <1>3, <1>4, <1>5 DEF Daemon!Establish
<1> QED BY <1>6 DEF Daemon!Next

(* A hook goes, with its link; the daemon hears of it if it asked for      *)
(* anything.                                                               *)
LEMMA DetachStep ==
    ASSUME NEW s \in Sess, Only(s), PartOf(s) # "none", PartOf(s)' = "none", LinkOf(s)' = {},
           out'.msg = IF PartOf(s) = "idle" THEN <<>> ELSE Tell(s, <<"CLOSE">>)
    PROVE  Daemon!Next
<1>1. Members(out'.msg) = IF PartOf(s) = "idle" THEN {} ELSE {[ev |-> "CLOSE", to |-> s]}
  BY Heard
<1>2. [t \in Sess |-> PartOf(t)]' = [[t \in Sess |-> PartOf(t)] EXCEPT ![s] = "none"]
  BY DEF Only
<1>3. [t \in Sess |-> LinkOf(t)]' = [[t \in Sess |-> LinkOf(t)] EXCEPT ![s] = {}]
  BY DEF Only
<1>4. Daemon!Detach(s)  BY <1>1, <1>2, <1>3 DEF Daemon!Detach
<1> QED BY <1>4 DEF Daemon!Next

----------------------------------------------------------------------------
(* A step of one session hook concerns the daemon of that hook at most.    *)
LEMMA OnlyOwn ==
    ASSUME IndInv, NEW s \in Sess, SessNext(s), hooks' \ {s} = hooks \ {s}
    PROVE  Only(s)
<1> SUFFICES ASSUME NEW t \in Sess \ {s}
             PROVE  PartOf(t)' = PartOf(t) /\ LinkOf(t)' = LinkOf(t)
  BY DEF Only
<1>1. t \in hooks <=> t \in hooks'  OBVIOUS
<1>2. CASE t \in hooks
  <2>1. sess'[t] = sess[t]  BY <1>2, OthersKept
  <2> QED BY <1>1, <1>2, <2>1, Seen, SeenNext
<1>3. CASE t \notin hooks  BY <1>1, <1>3, Seen, SeenNext
<1> QED BY <1>2, <1>3

(* What holds of a hook that stays.                                        *)
LEMMA Own ==
    ASSUME IndInv, NEW s \in hooks
    PROVE  /\ s \in Sess /\ sess[s] \in Session /\ sess \in [Sess -> Session]
           /\ SessionOK(s, sess[s]) /\ sess[s].state \in State
           /\ sess[s].sid # 0 <=> sess[s].state \in Established
BY DEF IndInv, TypeOK, SessionOK, Session

(* A hook that keeps its state, and its link if it has one, looks the same.*)
LEMMA LooksSame ==
    ASSUME NEW s, s \in hooks, s \in hooks',
           Part[sess'[s].state] = Part[sess[s].state],
           sess[s].state \notin Established, sess'[s].state \notin Established
    PROVE  PartOf(s)' = PartOf(s) /\ LinkOf(s)' = LinkOf(s)
BY Seen, SeenNext

(* What a daemon asks of an idle hook gives the hook its part (839-934).    *)
LEMMA RequestStep ==
    ASSUME IndInv, NEW s \in Sess, SessNext(s), NEW r \in Requests,
           Connect(s, r) \/ Listen(s, r) \/ Offer(s, r) \/ Service(s, r)
    PROVE  Daemon!Next
<1>1. s \in hooks /\ hooks' = hooks
  BY DEF Connect, Listen, Offer, Service, Idle
<1>2. Only(s)  BY <1>1, OnlyOwn
<1>3. sess[s] \in Session /\ sess \in [Sess -> Session]  BY <1>1, Own
<1>4. out'.msg = <<>>
  BY DEF Connect, Listen, Offer, Service, Send, Emit, Silent
<1>5. CASE Connect(s, r)
  <2>1. sess[s].state = "SNONE" /\ sess'[s].state = "SINIT"
    BY <1>3, <1>5 DEF Connect, Idle, Started, Session
  <2>2. PartOf(s) = "idle" /\ PartOf(s)' = "client" /\ LinkOf(s) = {} /\ LinkOf(s)' = {}
    BY <1>1, <2>1, Seen, SeenNext DEF Part, Established
  <2> QED BY <1>2, <1>4, <2>2, TakeStep
<1>6. CASE Listen(s, r)
  <2>1. sess[s].state = "SNONE" /\ sess'[s].state = "LISTENING"
    BY <1>3, <1>6 DEF Listen, Idle, Session
  <2>2. PartOf(s) = "idle" /\ PartOf(s)' = "listener" /\ LinkOf(s) = {} /\ LinkOf(s)' = {}
    BY <1>1, <2>1, Seen, SeenNext DEF Part, Established
  <2> QED BY <1>2, <1>4, <2>2, TakeStep
<1>7. CASE Offer(s, r)
  <2>1. sess[s].state = "SNONE" /\ sess'[s].state = "PRIMED"
    BY <1>3, <1>7 DEF Offer, Idle, Session
  <2>2. PartOf(s) = "idle" /\ PartOf(s)' = "server" /\ LinkOf(s) = {} /\ LinkOf(s)' = {}
    BY <1>1, <2>1, Seen, SeenNext DEF Part, Established
  <2> QED BY <1>2, <1>4, <2>2, TakeStep
<1>8. CASE Service(s, r)
  <2>1. sess[s].state = "PRIMED" /\ sess'[s].state = "PRIMED"
    BY <1>3, <1>8 DEF Service, Session
  <2> QED BY <1>1, <1>2, <1>4, <2>1, LooksSame, QuietStep DEF Established
<1> QED BY <1>5, <1>6, <1>7, <1>8

(* A PADR brings up a session with a fresh id, or answers a retry with the
   same one (1479-1557).                                                   *)
LEMMA PadrSeen ==
    ASSUME IndInv, IndInv', NEW s \in Sess, SessNext(s), NEW f \in Frames, RcvPadr(s, f)
    PROVE  Daemon!Next
<1>1. /\ s \in hooks /\ hooks' = hooks /\ sess[s].state \in {"SOFFER", "NEWCONNECTED"}
      /\ out'.msg = Tell(s, <<"SESSIONID", "SUCCESS">>)
  BY DEF RcvPadr, FindUniq, Emit
<1>2. Only(s)  BY <1>1, OnlyOwn
<1>3. /\ sess[s] \in Session /\ sess \in [Sess -> Session]
      /\ sess[s].sid # 0 <=> sess[s].state \in Established
  BY <1>1, Own
<1>4. SessionOK(s, sess'[s])  BY DEF IndInv
<1>5. CASE sess[s].state = "NEWCONNECTED"
  <2>1. sess'[s].sid = sess[s].sid /\ sess'[s].hdr = sess[s].hdr
        /\ sess'[s].state = "NEWCONNECTED"
    BY <1>1, <1>5, RetryKeeps
  <2>2. PartOf(s) = "fresh" /\ PartOf(s)' = "fresh" /\ LinkOf(s)' = LinkOf(s)
    BY <1>1, <1>5, <2>1, Seen, SeenNext DEF Part, Established
  <2> QED BY <1>1, <1>2, <2>2, SmallStep
<1>6. CASE sess[s].state = "SOFFER"
  <2> DEFINE l == [sid |-> sess'[s].sid, peer |-> sess'[s].hdr.dst]
  <2>1. sess'[s].state = "NEWCONNECTED"
    <3>1. PICK id, next \in 1..MaxSid :
             sess' = [sess EXCEPT ![s] = [Confirmed(s, f, id) EXCEPT !.sid = id]]
      BY <1>3, <1>6 DEF RcvPadr, FindUniq, Established
    <3> QED BY <1>3, <3>1 DEF Confirmed, Session
  <2>2. l \in Daemon!Link  BY <1>4, <2>1, IsLink DEF Established
  <2>3. /\ PartOf(s) = "server" /\ PartOf(s)' = "fresh" /\ LinkOf(s) = {}
        /\ LinkOf(s)' = {l}
    BY <1>1, <1>6, <2>1, Seen, SeenNext DEF Part, Established
  <2>4. \A t \in Sess : \A k \in LinkOf(t) : k.sid # l.sid
    <3> SUFFICES ASSUME NEW t \in Sess, NEW k \in LinkOf(t)  PROVE k.sid # sess'[s].sid
      OBVIOUS
    <3>1. t \in hooks /\ sess[t].state \in Established /\ k.sid = sess[t].sid  BY Seen
    <3>2. t # s  BY <2>3
    <3> QED BY <1>1, <1>6, <3>1, <3>2, FreshId DEF Established
  <2> QED BY <1>1, <1>2, <2>2, <2>3, <2>4, EstablishStep
<1> QED BY <1>1, <1>5, <1>6

(* A PADS brings up the client's session and tells its daemon (1558-1607).  *)
LEMMA PadsSeen ==
    ASSUME IndInv, IndInv', NEW s \in Sess, SessNext(s), NEW f \in Frames, RcvPads(s, f)
    PROVE  Daemon!Next
<1> DEFINE l == [sid |-> sess'[s].sid, peer |-> sess'[s].hdr.dst]
<1>1. /\ s \in hooks /\ hooks' = hooks /\ sess[s].state = "SREQ"
      /\ out'.msg = Tell(s, <<"SESSIONID", "SUCCESS">>)
  BY DEF RcvPads, FindUniq, AddSession, Emit
<1>2. Only(s)  BY <1>1, OnlyOwn
<1>3. sess \in [Sess -> Session]  BY <1>1, Own
<1>4. sess'[s].state = "CONNECTED"  BY <1>3 DEF RcvPads, FindUniq, AddSession
<1>5. SessionOK(s, sess'[s])  BY DEF IndInv
<1>6. l \in Daemon!Link  BY <1>4, <1>5, IsLink DEF Established
<1>7. PartOf(s) = "client" /\ PartOf(s)' = "up" /\ LinkOf(s)' = {l}
  BY <1>1, <1>4, Seen, SeenNext DEF Part, Established
<1> QED BY <1>1, <1>2, <1>6, <1>7, EstablishStep

(* The frames that establish nothing change no part and no link.            *)
LEMMA FrameStep ==
    ASSUME IndInv, NEW s \in Sess, SessNext(s), NEW f \in Frames,
           \/ RcvHookPadi(s, f) \/ RcvPado(s, f) \/ RcvPadt(s, f) \/ RcvSessionData(s, f)
    PROVE  Daemon!Next
<1>1. s \in hooks /\ hooks' = hooks
  <2>1. CASE RcvHookPadi(s, f) \/ RcvPado(s, f)  BY <2>1 DEF RcvHookPadi, RcvPado, FindUniq
  <2>2. CASE RcvPadt(s, f) \/ RcvSessionData(s, f)
    <3>1. s \in Members(hash) /\ hooks' = hooks
      BY <2>2, FindSessionInHash DEF RcvPadt, RcvSessionData
    <3> QED BY <3>1 DEF IndInv, Established
  <2> QED BY <2>1, <2>2
<1>2. Only(s)  BY <1>1, OnlyOwn
<1>3. sess[s] \in Session /\ sess \in [Sess -> Session]  BY <1>1, Own
<1>4. CASE RcvHookPadi(s, f)
  <2>1. sess[s].state = "PRIMED" /\ sess'[s].state \in {"PRIMED", "SOFFER"}
    BY <1>3, <1>4, ZenonT(40) DEF RcvHookPadi, Session
  <2>2. out' = Silent \/ \E q : out' = Send(q)
    BY <1>4 DEF RcvHookPadi
  <2>3. out'.msg = <<>>  BY <2>2 DEF Send, Emit, Silent
  <2> QED BY <1>1, <1>2, <2>1, <2>3, LooksSame, QuietStep DEF Part, Established
<1>5. CASE RcvPado(s, f)
  <2>1. sess[s].state = "SINIT" /\ sess'[s].state = "SREQ"
    BY <1>3, <1>5 DEF RcvPado, FindUniq, Session
  <2>2. PartOf(s) = "client" /\ PartOf(s)' = "client"
    BY <1>1, <2>1, Seen, SeenNext DEF Part
  <2>3. LinkOf(s)' = LinkOf(s)
    BY <1>1, <2>1, Seen, SeenNext DEF Established
  <2>4. out'.msg = <<>> \/ out'.msg = Tell(s, <<"ACNAME">>)
    BY <1>5 DEF RcvPado, FindUniq, Emit
  <2> QED BY <1>2, <2>2, <2>3, <2>4, QuietStep, SmallStep
<1>6. CASE RcvPadt(s, f)
  <2>1. sess' = sess /\ out'.msg = <<>>  BY <1>6 DEF RcvPadt, Silent
  <2>2. PartOf(s)' = PartOf(s) /\ LinkOf(s)' = LinkOf(s)  BY <1>1, <2>1, Seen, SeenNext
  <2> QED BY <1>2, <2>1, <2>2, QuietStep
<1>7. CASE RcvSessionData(s, f)
  <2>1. sess[s].state \in Established /\ out'.msg = <<>>  BY <1>7 DEF RcvSessionData, Emit
  <2>2. CASE sess[s].state = "CONNECTED"
    <3>1. sess' = sess  BY <1>7, <2>2 DEF RcvSessionData
    <3>2. PartOf(s)' = PartOf(s) /\ LinkOf(s)' = LinkOf(s)  BY <1>1, <3>1, Seen, SeenNext
    <3> QED BY <1>2, <2>1, <3>2, QuietStep
  <2>3. CASE sess[s].state = "NEWCONNECTED"
    <3>1. /\ sess'[s].state = "CONNECTED" /\ sess'[s].sid = sess[s].sid
          /\ sess'[s].hdr = sess[s].hdr
      BY <1>3, <1>7, <2>3 DEF RcvSessionData, Session
    <3>2. PartOf(s) = "fresh" /\ PartOf(s)' = "up" /\ LinkOf(s)' = LinkOf(s)
      BY <1>1, <2>3, <3>1, Seen, SeenNext DEF Part, Established
    <3> QED BY <1>2, <2>1, <3>2, SmallStep
  <2> QED BY <2>1, <2>2, <2>3 DEF Established
<1> QED BY <1>4, <1>5, <1>6, <1>7

(* A timer that fires resends the request, or the callout only expires.     *)
LEMMA TimerStep ==
    ASSUME IndInv, NEW s \in Sess, SessNext(s), Expire(s) \/ Ticker(s)
    PROVE  Daemon!Next
<1>1. /\ s \in hooks /\ hooks' = hooks /\ out'.msg = <<>>
  <2>1. CASE Expire(s)
    <3>1. sess[s].state \in Waiting /\ sess[s].state # "SNONE"
      BY <2>1 DEF Expire, IndInv, SessionOK, Waiting
    <3> QED BY <2>1, <3>1 DEF Expire, IndInv, Silent
  <2>2. CASE Ticker(s)  BY <2>2 DEF Ticker, IndInv, Send, Emit, Silent
  <2> QED BY <2>1, <2>2
<1>2. Only(s)  BY <1>1, OnlyOwn
<1>3. sess[s] \in Session /\ sess \in [Sess -> Session]  BY <1>1, Own
<1>4. CASE Expire(s)
  <2>1. /\ sess'[s].state = sess[s].state /\ sess'[s].sid = sess[s].sid
        /\ sess'[s].hdr = sess[s].hdr
    BY <1>3, <1>4 DEF Expire, Session
  <2>2. PartOf(s)' = PartOf(s) /\ LinkOf(s)' = LinkOf(s)  BY <1>1, <2>1, Seen, SeenNext
  <2> QED BY <1>1, <1>2, <2>2, QuietStep
<1>5. CASE Ticker(s)
  <2>1. CASE sess' = sess
    <3>1. PartOf(s)' = PartOf(s) /\ LinkOf(s)' = LinkOf(s)  BY <1>1, <2>1, Seen, SeenNext
    <3> QED BY <1>1, <1>2, <3>1, QuietStep
  <2>2. CASE sess[s].state \in {"SINIT", "SREQ"} /\ sess'[s] = Resent(s)
    <3>1. sess'[s].state \in {"SINIT", "SREQ"}  BY <2>2, ResentOK
    <3> QED BY <1>1, <1>2, <2>2, <3>1, LooksSame, QuietStep DEF Part, Established
  <2> QED BY <1>3, <1>5, <2>1, <2>2 DEF Ticker
<1> QED BY <1>4, <1>5

(* A hook that goes closes the session its daemon was told of.             *)
LEMMA RemovalStep ==
    ASSUME IndInv, NEW s \in Sess, SessNext(s),
           RmHookSelf(s) \/ RmHookPeer(s) \/ DestroyHook(s)
    PROVE  Daemon!Next
<1>1. s \in hooks /\ Disconnect(s)
  BY DEF RmHookSelf, RmHookPeer, DestroyHook, IndInv
<1>2. /\ hooks' = hooks \ {s}
      /\ out'.msg = IF sess[s].state = "SNONE" THEN <<>> ELSE Tell(s, <<"CLOSE">>)
  BY <1>1 DEF Disconnect, Emit
<1>3. Only(s)  BY <1>2, OnlyOwn
<1>4. PartOf(s) # "none" /\ (PartOf(s) = "idle" <=> sess[s].state = "SNONE")
  <2>1. sess[s].state \in State  BY <1>1, Own
  <2> QED BY <1>1, <2>1, Seen DEF Part, State
<1>5. PartOf(s)' = "none" /\ LinkOf(s)' = {}  BY <1>2, SeenNext
<1> QED BY <1>2, <1>3, <1>4, <1>5, DetachStep

(* Every step of the node is a step of what it promises.                   *)
LEMMA StepPromised ==
    ASSUME IndInv, IndInv', [Next]_vars
    PROVE  [Daemon!Next]_<<[s \in Sess |-> PartOf(s)], [s \in Sess |-> LinkOf(s)],
                           Members(out.msg)>>
<1>1. CASE UNCHANGED vars
  <2>1. UNCHANGED <<hooks, sess, out>>  BY <1>1 DEF vars
  <2>2. \A s \in Sess : PartOf(s)' = PartOf(s) /\ LinkOf(s)' = LinkOf(s)
    BY <2>1 DEF PartOf, LinkOf, InState
  <2> QED BY <2>1, <2>2
<1>2. CASE NodeNext
  <2>1. sess' = sess /\ hooks' = hooks /\ out'.msg = <<>>
    <3>1. CASE Constructor \/ RmNode \/ Shutdown
      BY <3>1 DEF Constructor, RmNode, Shutdown, Silent
    <3>2. ASSUME NEW h \in AuxHooks, NewAuxHook(h) \/ RmAuxHook(h) \/ DestroyAuxHook(h)
          PROVE  sess' = sess /\ hooks' = hooks /\ out'.msg = <<>>
      BY <3>2 DEF NewAuxHook, RmAuxHook, DestroyAuxHook, DisconnectAux, Silent
    <3>3. ASSUME NEW x, SetMode(x) \/ SetEnaddr(x)
          PROVE  sess' = sess /\ hooks' = hooks /\ out'.msg = <<>>
      BY <3>3 DEF SetMode, SetEnaddr, Silent
    <3>4. ASSUME NEW f \in Frames, RcvPadi(f) \/ RcvDebugData(f)
          PROVE  sess' = sess /\ hooks' = hooks /\ out'.msg = <<>>
      <4>1. CASE RcvDebugData(f)  BY <4>1 DEF RcvDebugData, Send, Emit
      <4>2. CASE RcvPadi(f)
        <5>1. /\ \E u : out' = Emit(<<>>, u, <<>>)
              /\ UNCHANGED <<hooks, sess>>
          BY <4>2 DEF RcvPadi, BroadcastPadi
        <5> QED BY <5>1 DEF Emit
      <4> QED BY <3>4, <4>1, <4>2
    <3>5. CASE Constructor \/ RmNode \/ Shutdown  BY <3>1, <3>5
    <3>6. CASE \E h \in AuxHooks : NewAuxHook(h) \/ RmAuxHook(h) \/ DestroyAuxHook(h)
      BY <3>2, <3>6
    <3>7. CASE (\E m \in Modes : SetMode(m)) \/ \E a \in Macs : SetEnaddr(a)  BY <3>3, <3>7
    <3>8. CASE \E f \in Frames : RcvPadi(f) \/ RcvDebugData(f)  BY <3>4, <3>8
    <3> QED BY <1>2, <3>5, <3>6, <3>7, <3>8 DEF NodeNext
  <2>2. \A s \in Sess : PartOf(s)' = PartOf(s) /\ LinkOf(s)' = LinkOf(s)
    BY <2>1 DEF PartOf, LinkOf, InState
  <2>3. Members(out'.msg) = {}  BY <2>1, Heard
  <2>4. Daemon!Quiet  BY <2>2, <2>3 DEF Daemon!Quiet
  <2> QED BY <2>4 DEF Daemon!Next
<1>3. ASSUME NEW s \in Sess, SessNext(s)  PROVE Daemon!Next
  <2>1. CASE NewHook(s)
    <3>1. /\ s \notin hooks /\ hooks' = hooks \cup {s} /\ sess' = [sess EXCEPT ![s] = ZeroSession]
          /\ out'.msg = <<>>
      BY <2>1 DEF NewHook, Silent
    <3>2. Only(s)  BY <1>3, <3>1, OnlyOwn
    <3>3. sess'[s].state = "SNONE"  BY <3>1 DEF IndInv, TypeOK, ZeroSession
    <3>4. PartOf(s) = "none" /\ PartOf(s)' = "idle" /\ LinkOf(s)' = LinkOf(s)
      BY <3>1, <3>3, Seen, SeenNext DEF Part, Established
    <3> QED BY <3>1, <3>2, <3>4, SmallStep
  <2>2. CASE RcvHookData(s)
    <3>1. sess' = sess /\ hooks' = hooks /\ out'.msg = <<>>
      BY <2>2 DEF RcvHookData, Send, Emit
    <3>2. Only(s)  BY <1>3, <3>1, OnlyOwn
    <3>3. PartOf(s)' = PartOf(s) /\ LinkOf(s)' = LinkOf(s)  BY <3>1 DEF PartOf, LinkOf, InState
    <3> QED BY <3>1, <3>2, <3>3, QuietStep
  <2> QED BY <1>3, <2>1, <2>2, RequestStep, PadrSeen, PadsSeen, FrameStep, TimerStep, RemovalStep
          DEF SessNext
<1> QED BY <1>1, <1>2, <1>3 DEF Next

(* Against peers that never confirm with id 0, the node keeps all it       *)
(* promises its daemons, for any number of hooks, requests and frames.     *)
THEOREM PromisesAreKept == PadsIdsNonzero => (Spec => KeepsPromises)
<1> SUFFICES ASSUME PadsIdsNonzero PROVE Spec => KeepsPromises  OBVIOUS
<1>1. Init => Daemon!Init
  BY Heard DEF Init, Silent, PartOf, LinkOf, InState, Daemon!Init
<1>2. IndInv /\ IndInv' /\ [Next]_vars => [Daemon!Next]_<<[s \in Sess |-> PartOf(s)],
                                     [s \in Sess |-> LinkOf(s)], Members(out.msg)>>
  BY StepPromised
<1> QED BY <1>1, <1>2, Invariance, PTL DEF Spec, KeepsPromises, Daemon!Spec, Daemon!vars

----------------------------------------------------------------------------
(* What the node sends is about sessions it has.                           *)

(* Only frames of the node's own reach the Ethernet, or none at all.       *)
LEMMA SentFrames ==
    ASSUME NEW q, NEW u, NEW m, NEW i \in DOMAIN Emit(q, u, m).eth
    PROVE  i \in DOMAIN q /\ Emit(q, u, m).eth[i] = q[i]
<1>1. Emit(q, u, m).eth = IF "ethernet" \in aux THEN q ELSE <<>>  BY DEF Emit
<1> QED BY <1>1

(* The session a frame with an id was sent for                             *)
SentFor(h, s) ==
    \/ s \in InState(Established) /\ sess[s].sid = h.sid /\ sess[s].hdr.dst = h.dst
    \/ s \in InState(Established)' /\ sess'[s].sid = h.sid /\ sess'[s].hdr.dst = h.dst

(* What a hook's step sends: the packet it keeps, as it was or as it is    *)
(* then, or a frame of the session it had, data or the end of it.          *)
LEMMA HookSends ==
    ASSUME IndInv, NEW s \in Sess, SessNext(s), NEW i \in DOMAIN out'.eth
    PROVE  \/ sess[s].state \in {"SINIT", "SREQ"} /\ out'.eth[i] = sess[s].neg.pkt
           \/ /\ sess'[s].state \in {"SINIT", "SREQ", "SOFFER", "NEWCONNECTED"}
              /\ out'.eth[i] = sess'[s].neg.pkt
              /\ sess'[s].state = "NEWCONNECTED" => s \in hooks'
           \/ /\ s \in hooks /\ sess[s].state \in Established
              /\ out'.eth[i].hdr.code \in {"DATA", "PADT"}
              /\ out'.eth[i].hdr.src = sess[s].hdr.src
              /\ out'.eth[i].hdr.dst = sess[s].hdr.dst
              /\ out'.eth[i].hdr.sid = sess[s].sid
<1> DEFINE Kept == sess[s].state \in {"SINIT", "SREQ"} /\ out'.eth[i] = sess[s].neg.pkt
           New(st) == /\ sess'[s].state = st /\ out'.eth[i] = sess'[s].neg.pkt
                      /\ st = "NEWCONNECTED" => s \in hooks'
           Data == /\ s \in hooks /\ sess[s].state \in Established
                   /\ out'.eth[i].hdr.code \in {"DATA", "PADT"}
                   /\ out'.eth[i].hdr.src = sess[s].hdr.src
                   /\ out'.eth[i].hdr.dst = sess[s].hdr.dst
                   /\ out'.eth[i].hdr.sid = sess[s].sid
<1>1. /\ sess \in [Sess -> Session] /\ sess[s] \in Session /\ SessionOK(s, sess[s])
      /\ s \notin hooks => sess[s].state = "SNONE"
  BY DEF IndInv, TypeOK
<1>2. ASSUME sess[s].state \in Established
      PROVE  s \in hooks /\ sess[s].hdr \in Header /\ sess[s].hdr.sid = sess[s].sid
             /\ sess[s].hdr.code = "DATA"
  BY <1>1, <1>2 DEF SessionOK, HeaderOK, Established
<1>3. ASSUME NEW r \in Requests, Connect(s, r)  PROVE New("SINIT")
  <2> DEFINE old == [sess[s] EXCEPT !.neg = NewNeg("DATA", r.ac, r.svc)]
  <2>1. out' = Send(<<Started(s, old).neg.pkt>>)  BY <1>3 DEF Connect
  <2>2. out'.eth[i] = Started(s, old).neg.pkt  BY <2>1, SentFrames DEF Send
  <2>3. sess' = [sess EXCEPT ![s] = Started(s, old)]  BY <1>3 DEF Connect
  <2>4. sess'[s] = Started(s, old)  BY <1>1, <2>3
  <2>5. Started(s, old).state = "SINIT"  BY <1>1 DEF Started, Session
  <2> QED BY <2>2, <2>4, <2>5
<1>4. ASSUME NEW r \in Requests, Listen(s, r) \/ Offer(s, r) \/ Service(s, r)  PROVE FALSE
  BY <1>4 DEF Listen, Offer, Service, Silent
<1>5. ASSUME NewHook(s)  PROVE FALSE  BY <1>5 DEF NewHook, Silent
<1>6. ASSUME RcvHookData(s)  PROVE Data
  <2>1. out'.eth[i] = [hdr |-> sess[s].hdr, tags |-> NoTags] /\ sess[s].state \in Established
    BY <1>6, SentFrames DEF RcvHookData, Send
  <2> QED BY <1>2, <2>1
<1>7. ASSUME NEW f \in Frames, RcvHookPadi(s, f)  PROVE New("SOFFER")
  <2>1. out' = Silent \/ (out' = Send(<<sess'[s].neg.pkt>>) /\ sess'[s].state = "SOFFER")
    <3>1. CASE f.hdr.code # "PADI"  BY <1>7, <3>1 DEF RcvHookPadi
    <3>2. CASE f.hdr.code = "PADI"
      <4>1. PICK pado, neg :
               /\ sess' = [sess EXCEPT ![s] = [@ EXCEPT !.state = "SOFFER", !.callout = OfferTimeout,
                            !.neg = [neg EXCEPT !.pkt = pado, !.timeout = 0]]]
               /\ out' = Send(<<pado>>) /\ neg = sess[s].neg
        BY <1>7, <3>2 DEF RcvHookPadi
      <4>2. neg \in Neg
        BY <1>1, <1>7, <4>1 DEF RcvHookPadi, SessionOK, Session, Negotiating, State
      <4> QED BY <1>1, <4>1, <4>2 DEF Session, Neg
    <3> QED BY <3>1, <3>2
  <2> QED BY <2>1, SentFrames DEF Send, Silent
<1>8. ASSUME NEW f \in Frames, RcvPado(s, f)  PROVE New("SREQ")
  <2>1. \E m : out' = Emit(<<sess'[s].neg.pkt>>, {}, m) /\ sess'[s].state = "SREQ"
    <3>1. PICK padr, neg, m :
             /\ sess' = [sess EXCEPT ![s] = [@ EXCEPT !.state = "SREQ", !.callout = InitialTimeout,
                          !.neg = [neg EXCEPT !.pkt = padr, !.timeout = InitialTimeout * 2]]]
             /\ out' = Emit(<<padr>>, {}, m) /\ neg = sess[s].neg
      BY <1>8 DEF RcvPado
    <3>2. neg \in Neg
      BY <1>1, <1>8, <3>1 DEF RcvPado, SessionOK, Session, Negotiating, State
    <3> QED BY <1>1, <3>1, <3>2 DEF Session, Neg
  <2> QED BY <2>1, SentFrames
<1>9. ASSUME NEW f \in Frames, RcvPadr(s, f)  PROVE New("NEWCONNECTED")
  <2>1. (\E m : out' = Emit(<<sess'[s].neg.pkt>>, {}, m)) /\ s \in hooks /\ hooks' = hooks
    BY <1>9 DEF RcvPadr, FindUniq
  <2>2. \E id : \/ sess'[s] = Confirmed(s, f, id)
                \/ sess'[s] = [Confirmed(s, f, id) EXCEPT !.sid = id]
    BY <1>1, <1>9 DEF RcvPadr
  <2>3. sess'[s].state = "NEWCONNECTED"  BY <1>1, <2>2 DEF Confirmed, Session
  <2> QED BY <2>1, <2>3, SentFrames
<1>10. ASSUME NEW f \in Frames, RcvPads(s, f) \/ RcvPadt(s, f) \/ RcvSessionData(s, f)
       PROVE  FALSE
  <2>1. out' = Silent \/ \E u, m : out' = Emit(<<>>, u, m)
    BY <1>10 DEF RcvPads, FindUniq, AddSession, RcvPadt, RcvSessionData
  <2> QED BY <2>1, SentFrames DEF Silent
<1>11. ASSUME Expire(s)  PROVE FALSE  BY <1>11 DEF Expire, Silent
<1>12. ASSUME Ticker(s)  PROVE Kept \/ New("SINIT") \/ New("SREQ")
  <2> DEFINE old == sess[s].neg.pkt
             new == Resent(s).neg.pkt
  <2>1. sess[s].state \in {"SINIT", "SREQ"} /\ sess' = [sess EXCEPT ![s] = Resent(s)]
        /\ (out' = Send(<<old>>) \/ out' = Send(<<old, new>>))
    BY <1>12 DEF Ticker, Silent
  <2>2. sess'[s] = Resent(s) /\ sess'[s].state \in {"SINIT", "SREQ"}
    BY <1>1, <2>1, ResentOK
  <2>3. out'.eth[i] \in {old, new}
    <3>1. CASE out' = Send(<<old>>)  BY <3>1, SentFrames DEF Send
    <3>2. CASE out' = Send(<<old, new>>)  BY <3>2, SentFrames DEF Send
    <3> QED BY <2>1, <3>1, <3>2
  <2> QED BY <2>1, <2>2, <2>3
<1>13. ASSUME RmHookSelf(s) \/ RmHookPeer(s) \/ DestroyHook(s)  PROVE Data
  <2> DEFINE hdr == [sess[s].hdr EXCEPT !.code = "PADT", !.etype = DiscTypeOf(sess[s].hdr.etype)]
  <2>1. \/ sess[s].state \notin Established /\ \E m : out' = Emit(<<>>, {}, m)
        \/ sess[s].state \in Established /\ \E m : out' = Emit(<<[hdr |-> hdr, tags |-> NoTags]>>, {}, m)
    BY <1>13 DEF RmHookSelf, RmHookPeer, DestroyHook, Disconnect
  <2>2. sess[s].state \in Established /\ out'.eth[i] = [hdr |-> hdr, tags |-> NoTags]
    BY <2>1, SentFrames
  <2>3. /\ hdr.sid = sess[s].sid /\ hdr.dst = sess[s].hdr.dst
        /\ hdr.src = sess[s].hdr.src /\ hdr.code = "PADT"
    BY <1>2, <2>2 DEF Header
  <2> HIDE DEF hdr
  <2> QED BY <1>2, <2>2, <2>3
<1> HIDE DEF Kept, New, Data
<1>14. Kept \/ New("SINIT") \/ New("SREQ") \/ New("SOFFER") \/ New("NEWCONNECTED") \/ Data
  BY <1>3, <1>4, <1>5, <1>6, <1>7, <1>8, <1>9, <1>10, <1>11, <1>12, <1>13 DEF SessNext
<1> QED BY <1>14 DEF Kept, New, Data

(* A hook's step sends a frame with an id only for the session of that id. *)
LEMMA SentByHook ==
    ASSUME IndInv, IndInv', NEW s \in Sess, SessNext(s), NEW i \in DOMAIN out'.eth,
           out'.eth[i].hdr.sid # 0
    PROVE  SentFor(out'.eth[i].hdr, s)
<1>1. /\ sess[s] \in Session /\ SessionOK(s, sess[s])
      /\ sess'[s] \in Session /\ SessionOK(s, sess'[s])
  BY DEF IndInv, TypeOK
<1>2. CASE sess[s].state \in {"SINIT", "SREQ"} /\ out'.eth[i] = sess[s].neg.pkt
  BY <1>1, <1>2 DEF SessionOK, PacketOK, Waiting
<1>3. CASE /\ sess'[s].state \in {"SINIT", "SREQ", "SOFFER", "NEWCONNECTED"}
           /\ out'.eth[i] = sess'[s].neg.pkt
           /\ sess'[s].state = "NEWCONNECTED" => s \in hooks'
  <2>1. sess'[s].state = "NEWCONNECTED"  BY <1>1, <1>3 DEF SessionOK, PacketOK, Waiting
  <2>2. /\ sess'[s].neg.pkt.hdr.sid = sess'[s].sid
        /\ sess'[s].hdr.dst = sess'[s].neg.pkt.hdr.dst
    BY <1>1, <2>1 DEF SessionOK, PacketOK, Session, Negotiating, State, Neg, Frame, Header
  <2> QED BY <1>3, <2>1, <2>2 DEF SentFor, InState, Established
<1>4. CASE /\ s \in hooks /\ sess[s].state \in Established
           /\ out'.eth[i].hdr.dst = sess[s].hdr.dst /\ out'.eth[i].hdr.sid = sess[s].sid
  BY <1>4 DEF SentFor, InState
<1> QED BY <1>2, <1>3, <1>4, HookSends

(* The node itself sends nothing but what its debug hook is fed.           *)
LEMMA SentByNode ==
    ASSUME NodeNext, "debug" \notin AuxHooks, IndInv
    PROVE  DOMAIN out'.eth = {}
<1>1. CASE Constructor \/ RmNode \/ Shutdown
  BY <1>1 DEF Constructor, RmNode, Shutdown, Silent
<1>2. CASE \E h \in AuxHooks : NewAuxHook(h) \/ RmAuxHook(h) \/ DestroyAuxHook(h)
  BY <1>2 DEF NewAuxHook, RmAuxHook, DestroyAuxHook, DisconnectAux, Silent
<1>3. CASE (\E m \in Modes : SetMode(m)) \/ \E a \in Macs : SetEnaddr(a)
  BY <1>3 DEF SetMode, SetEnaddr, Silent
<1>4. ASSUME NEW f \in Frames, RcvPadi(f)  PROVE DOMAIN out'.eth = {}
  <2>1. \E u : out' = Emit(<<>>, u, <<>>)  BY <1>4 DEF RcvPadi
  <2> QED BY <2>1 DEF Emit
<1>5. \A f \in Frames : ~ RcvDebugData(f)  BY DEF RcvDebugData, IndInv, TypeOK
<1> QED BY <1>1, <1>2, <1>3, <1>4, <1>5 DEF NodeNext

(* Against such peers a node without a debug hook, which would send any    *)
(* frame it is fed, sends a frame with an id only for the session that has *)
(* this id and this peer: no other session's, no removed one's.            *)
THEOREM SentForTheirSession ==
    PadsIdsNonzero /\ "debug" \notin AuxHooks => (Spec => SentForSession)
<1> SUFFICES ASSUME PadsIdsNonzero, "debug" \notin AuxHooks PROVE Spec => SentForSession
  OBVIOUS
<1> DEFINE Sent == \A i \in DOMAIN out'.eth : LET h == out'.eth[i].hdr IN h.sid # 0 =>
                      \E s \in InState(Established) \cup InState(Established)' :
                         \/ sess[s].sid = h.sid /\ sess[s].hdr.dst = h.dst
                         \/ sess'[s].sid = h.sid /\ sess'[s].hdr.dst = h.dst
<1>1. ASSUME IndInv, IndInv', Next  PROVE Sent
  <2> SUFFICES ASSUME NEW i \in DOMAIN out'.eth, out'.eth[i].hdr.sid # 0
               PROVE  \E s \in Sess : SentFor(out'.eth[i].hdr, s)
    BY DEF SentFor
  <2>1. ~ NodeNext  BY <1>1, SentByNode
  <2> QED BY <1>1, <2>1, SentByHook DEF Next
<1>2. IndInv /\ IndInv' /\ [Next]_vars => [Sent]_vars  BY <1>1
<1> QED BY <1>2, Invariance, PTL DEF Spec, SentForSession
----------------------------------------------------------------------------
(* What a session sends, and the header it keeps, is from address a.       *)
SourceIs(r, a) ==
    /\ r.neg # NULL => r.neg.pkt.hdr.src = a
    /\ r.state \in Established => r.hdr.src = a

(* As long as the node keeps its address, its sessions send from there.    *)
LEMMA SourceKept ==
    ASSUME IndInv, NEW s \in Sess, SessNext(s), SourceIs(sess[s], mac)
    PROVE  SourceIs(sess'[s], mac)
<1> DEFINE neg == sess[s].neg
<1>0. sess \in [Sess -> Session] /\ sess[s] \in Session /\ SessionOK(s, sess[s])
  BY DEF IndInv, TypeOK
<1>1. /\ sess \in [Sess -> Session] /\ sess[s] \in Session
      /\ neg # NULL => /\ neg \in Neg /\ neg.pkt \in Frame /\ neg.pkt.hdr \in Header
                       /\ neg.pkt.hdr.src = mac
      /\ sess[s].state \in Negotiating => neg # NULL
      /\ sess[s].state \in Established => sess[s].hdr.src = mac
  BY <1>0 DEF SourceIs, SessionOK, Session, Neg, Frame
<1>2. \A r : r = ZeroSession => SourceIs(r, mac)
  BY DEF ZeroSession, SourceIs, Established
<1>3. CASE NewHook(s) \/ RmHookSelf(s) \/ RmHookPeer(s) \/ DestroyHook(s)
  BY <1>1, <1>2, <1>3 DEF NewHook, RmHookSelf, RmHookPeer, DestroyHook, Disconnect
<1>4. CASE RcvHookData(s) \/ \E f \in Frames : RcvPadt(s, f)
  BY <1>4 DEF RcvHookData, RcvPadt
<1>5. ASSUME NEW r \in Session, r.neg \in Neg
      PROVE  SourceIs(Started(s, r), mac)
  BY <1>5 DEF Started, Session, Neg, Frame, Header, SourceIs, Established
<1>6. ASSUME NEW r \in Requests, Connect(s, r)  PROVE SourceIs(sess'[s], mac)
  <2> DEFINE old == [sess[s] EXCEPT !.neg = NewNeg("DATA", r.ac, r.svc)]
  <2>1. sess'[s] = Started(s, old)  BY <1>1, <1>6 DEF Connect
  <2>2. NewNeg("DATA", r.ac, r.svc) \in Neg
    BY <1>6, InputsAssumption, NewNegOK DEF Request, Code, IndInv
  <2>3. old \in Session /\ old.neg \in Neg  BY <1>1, <2>2 DEF Session
  <2> HIDE DEF old
  <2> QED BY <1>5, <2>1, <2>3
<1>7. ASSUME NEW r \in Requests, Listen(s, r) \/ Offer(s, r)  PROVE SourceIs(sess'[s], mac)
  <2>1. \/ sess'[s] = [sess[s] EXCEPT !.state = "LISTENING", !.neg = NewNeg("PADT", "", r.svc)]
        \/ sess'[s] = [sess[s] EXCEPT !.state = "PRIMED", !.neg = NewNeg("PADO", r.ac, "")]
    BY <1>1, <1>7 DEF Listen, Offer
  <2>2. /\ sess'[s].neg \in {NewNeg("PADT", "", r.svc), NewNeg("PADO", r.ac, "")}
        /\ sess'[s].state \in {"LISTENING", "PRIMED"}
    BY <1>1, <2>1 DEF Session
  <2>3. /\ NewNeg("PADT", "", r.svc).pkt.hdr.src = mac
        /\ NewNeg("PADO", r.ac, "").pkt.hdr.src = mac
    BY DEF NewNeg, ProtoHeader
  <2> QED BY <2>2, <2>3 DEF SourceIs, Established
<1>8. ASSUME NEW r \in Requests, Service(s, r)  PROVE SourceIs(sess'[s], mac)
  <2>1. /\ sess[s].state = "PRIMED"
        /\ sess'[s] = [sess[s] EXCEPT !.neg = [sess[s].neg EXCEPT !.service = r.svc]]
    BY <1>1, <1>8 DEF Service
  <2> QED BY <1>1, <2>1 DEF Session, SourceIs, Established, Neg, Negotiating, State
<1>9. ASSUME NEW f \in Frames, RcvHookPadi(s, f)  PROVE SourceIs(sess'[s], mac)
  <2> DEFINE hdr == [neg.pkt.hdr EXCEPT !.etype = f.hdr.etype]
             pkt == [hdr |-> hdr, tags |-> neg.pkt.tags]
             pado == [hdr |-> [hdr EXCEPT !.code = "PADO", !.dst = f.hdr.src],
                      tags |-> PadoTags(s, neg, f.tags)]
  <2>1. sess[s].state = "PRIMED" /\ neg # NULL
    BY <1>1, <1>9 DEF RcvHookPadi, Negotiating, State
  <2>2. pkt.hdr.src = mac /\ pado.hdr.src = mac  BY <1>1, <2>1 DEF Header
  <2>3. CASE f.hdr.code # "PADI"
    <3>1. sess'[s] = [sess[s] EXCEPT !.neg = [neg EXCEPT !.pkt = pkt]]
      BY <1>1, <1>9, <2>3 DEF RcvHookPadi
    <3> HIDE DEF pkt
    <3>2. [neg EXCEPT !.pkt = pkt].pkt = pkt  BY <1>1, <2>1 DEF Neg
    <3>3. sess'[s].neg = [neg EXCEPT !.pkt = pkt] /\ sess'[s].state = "PRIMED"
      BY <1>1, <2>1, <3>1 DEF Session
    <3> QED BY <2>2, <3>2, <3>3 DEF SourceIs, Established
  <2>4. CASE f.hdr.code = "PADI"
    <3>1. sess'[s] = [sess[s] EXCEPT !.state = "SOFFER", !.callout = OfferTimeout,
              !.neg = [neg EXCEPT !.pkt = pado, !.timeout = 0]]
      BY <1>1, <1>9, <2>4 DEF RcvHookPadi
    <3> HIDE DEF pado
    <3> DEFINE new == [neg EXCEPT !.pkt = pado, !.timeout = 0]
    <3>2. new.pkt = pado  BY <1>1, <2>1 DEF Neg
    <3>3. sess'[s] = [sess[s] EXCEPT !.state = "SOFFER", !.neg = new, !.callout = OfferTimeout]
      BY <3>1
    <3>4. sess'[s].neg = new /\ sess'[s].state = "SOFFER"
      <4> HIDE DEF new
      <4> QED BY <1>1, <3>3 DEF Session
    <3> HIDE DEF new
    <3> QED BY <2>2, <3>2, <3>4 DEF SourceIs, Established
  <2> QED BY <2>3, <2>4
<1>10. ASSUME NEW f \in Frames, RcvPado(s, f)  PROVE SourceIs(sess'[s], mac)
  <2> DEFINE padr == [hdr |-> [neg.pkt.hdr EXCEPT !.code = "PADR", !.dst = f.hdr.src],
                      tags |-> [f.tags EXCEPT !.srv = <<neg.service>>]]
  <2>1. sess[s].state = "SINIT" /\ neg # NULL
    BY <1>1, <1>10 DEF RcvPado, Negotiating, State
  <2>2. padr.hdr.src = mac  BY <1>1, <2>1 DEF Header
  <2>3. sess'[s] = [sess[s] EXCEPT !.state = "SREQ", !.callout = InitialTimeout,
            !.neg = [neg EXCEPT !.pkt = padr, !.timeout = InitialTimeout * 2]]
    BY <1>1, <1>10 DEF RcvPado
  <2> HIDE DEF padr
  <2> DEFINE new == [neg EXCEPT !.pkt = padr, !.timeout = InitialTimeout * 2]
  <2>4. new.pkt = padr  BY <1>1, <2>1 DEF Neg
  <2>5. sess'[s] = [sess[s] EXCEPT !.state = "SREQ", !.neg = new, !.callout = InitialTimeout]
    BY <2>3
  <2>6. sess'[s].neg = new /\ sess'[s].state = "SREQ"
    <3> HIDE DEF new
    <3> QED BY <1>1, <2>5 DEF Session
  <2> HIDE DEF new
  <2> QED BY <2>2, <2>4, <2>6 DEF SourceIs, Established
<1>11. ASSUME NEW f \in Frames, RcvPadr(s, f)  PROVE SourceIs(sess'[s], mac)
  <2>1. neg # NULL  BY <1>1, <1>11 DEF RcvPadr, Negotiating, State
  <2>2. ASSUME NEW id
        PROVE  /\ SourceIs(Confirmed(s, f, id), mac)
               /\ SourceIs([Confirmed(s, f, id) EXCEPT !.sid = id], mac)
    <3> DEFINE hdr == [neg.pkt.hdr EXCEPT !.code = "PADS", !.sid = id]
               new == [neg EXCEPT !.timeout = 0,
                         !.pkt = [hdr |-> hdr, tags |-> [f.tags EXCEPT
                                     !.srv = FirstSrv(f.tags), !.acn = neg.acname]]]
               data == [hdr EXCEPT !.code = "DATA", !.etype = SessTypeOf(hdr.etype)]
    <3>1. hdr.src = mac /\ data.src = mac  BY <1>1, <2>1 DEF Header
    <3>2. new.pkt.hdr = hdr  BY <1>1, <2>1 DEF Neg
    <3>3. Confirmed(s, f, id) = [sess[s] EXCEPT !.state = "NEWCONNECTED", !.callout = 0,
                                                !.neg = new, !.hdr = data]
      BY DEF Confirmed
    <3> HIDE DEF hdr, new, data
    <3>4. /\ Confirmed(s, f, id).neg = new /\ Confirmed(s, f, id).hdr = data
          /\ [Confirmed(s, f, id) EXCEPT !.sid = id].neg = new
          /\ [Confirmed(s, f, id) EXCEPT !.sid = id].hdr = data
      BY <1>1, <3>3 DEF Session
    <3> QED BY <3>1, <3>2, <3>4 DEF SourceIs
  <2>3. \E id : \/ sess'[s] = Confirmed(s, f, id)
                \/ sess'[s] = [Confirmed(s, f, id) EXCEPT !.sid = id]
    BY <1>1, <1>11 DEF RcvPadr
  <2> QED BY <2>2, <2>3
<1>12. ASSUME NEW f \in Frames, RcvPads(s, f)  PROVE SourceIs(sess'[s], mac)
  <2>1. neg # NULL  BY <1>1, <1>12 DEF RcvPads, Negotiating, State
  <2>2. /\ sess'[s].neg = NULL
        /\ \E e : sess'[s].hdr = [neg.pkt.hdr EXCEPT !.etype = e, !.code = "DATA", !.sid = f.hdr.sid]
    BY <1>1, <1>12 DEF RcvPads, FindUniq
  <2>3. \A e : [neg.pkt.hdr EXCEPT !.etype = e, !.code = "DATA", !.sid = f.hdr.sid].src = mac
    BY <1>1, <2>1 DEF Header
  <2> QED BY <2>2, <2>3 DEF SourceIs
<1>13. ASSUME NEW f \in Frames, RcvSessionData(s, f)  PROVE SourceIs(sess'[s], mac)
  <2>1. /\ sess[s].state \in Established
        /\ sess'[s] = sess[s] \/ sess'[s] = [sess[s] EXCEPT !.state = "CONNECTED",
                                                   !.neg = NULL, !.callout = 0]
    BY <1>1, <1>13 DEF RcvSessionData
  <2> QED BY <1>1, <2>1 DEF SourceIs, Session, Established
<1>14. CASE Expire(s)
  <2>1. sess'[s] = [sess[s] EXCEPT !.callout = 0]  BY <1>1, <1>14 DEF Expire
  <2> QED BY <2>1, <1>1 DEF SourceIs, Session
<1>15. CASE Ticker(s)
  <2>1. CASE sess[s].state \in {"SINIT", "SREQ"}
    <3>1. sess'[s] = Resent(s) /\ sess[s].neg # NULL
      BY <1>1, <1>15, <2>1 DEF Ticker, Negotiating, State
    <3>2. \/ Resent(s) = Started(s, sess[s])
          \/ \E t : Resent(s) = [sess[s] EXCEPT !.neg = [neg EXCEPT !.timeout = t],
                                               !.callout = neg.timeout]
      BY DEF Resent
    <3>4. CASE Resent(s) = Started(s, sess[s])  BY <1>1, <1>5, <3>1, <3>4
    <3>5. CASE Resent(s) # Started(s, sess[s])
      <4>1. PICK t : sess'[s] = [sess[s] EXCEPT !.neg = [neg EXCEPT !.timeout = t],
                                                !.callout = neg.timeout]
        BY <3>1, <3>2, <3>5
      <4>2. [neg EXCEPT !.timeout = t].pkt = neg.pkt  BY <1>1, <3>1 DEF Neg
      <4>3. sess'[s].neg = [neg EXCEPT !.timeout = t] /\ sess'[s].state = sess[s].state
        BY <1>1, <4>1 DEF Session
      <4> QED BY <1>1, <2>1, <3>1, <4>2, <4>3 DEF SourceIs, Established
    <3> QED BY <3>4, <3>5
  <2>2. CASE sess[s].state \notin {"SINIT", "SREQ"}  BY <1>15, <2>2 DEF Ticker
  <2> QED BY <2>1, <2>2
<1> QED
  BY <1>3, <1>4, <1>6, <1>7, <1>8, <1>9, <1>10, <1>11, <1>12, <1>13, <1>14, <1>15
  DEF SessNext
=============================================================================
