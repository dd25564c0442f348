------------------------ MODULE NgPppoeBeforeProofs ------------------------
(* Proofs about NgPppoeBefore, for every set of addresses, frames and      *)
(* requests.  All but two of its operations are the later version's, step  *)
(* for step, although they are written differently; LISTEN and the removal *)
(* of a hook put a session elsewhere among the listeners, or take it away  *)
(* from elsewhere, and what is proved of NgPppoe does not care where.      *)
EXTENDS NgPppoeBefore, SequenceTheorems, WellFoundedInduction, TLAPS

----------------------------------------------------------------------------
(* What a walk that skips some hooks finds, for lists of any length.       *)

(* Induction over the numbers, for a set instead of a predicate.           *)
LEMMA Induct ==
    ASSUME NEW S, 0 \in S, \A n \in Nat : n \in S => n + 1 \in S
    PROVE  Nat \subseteq S
<1> DEFINE T == Nat \ S
           R == OpToRel(<, Nat)
<1> SUFFICES ASSUME T # {} PROVE FALSE  OBVIOUS
<1>1. \A x, y \in Nat : y < x => <<y, x>> \in R  BY DEF OpToRel
<1>2. IsWellFoundedOn(R, Nat)  BY NatLessThanWellFounded
<1> HIDE DEF R
<1>3. PICK x \in T : \A y \in T : ~ (<<y, x>> \in R)  BY <1>2, WFMin
<1>4. x \in Nat /\ x # 0  OBVIOUS
<1>5. x - 1 \in Nat /\ x - 1 < x /\ (x - 1) + 1 = x  BY <1>4
<1>6. x - 1 \notin T  BY <1>1, <1>3, <1>4, <1>5
<1> QED BY <1>3, <1>5, <1>6

(* The recursion of Chosen defines a function.                             *)
LEMMA ChosenUnfolds ==
    ASSUME NEW l, Len(l) \in Nat, NEW S
    PROVE  \E f : /\ Chosen(l, S) = f[Len(l)]
                  /\ f = [n \in 0..Len(l) |->
                             IF n = 0 THEN <<>>
                             ELSE IF l[n] \in S THEN Append(f[n - 1], l[n]) ELSE f[n - 1]]
<1> DEFINE Body(f, n) == IF n = 0 THEN <<>>
                         ELSE IF l[n] \in S THEN Append(f[n - 1], l[n]) ELSE f[n - 1]
           Fits(f, m) == f = [n \in 0..m |-> Body(f, n)]
           Sizes == {m \in Nat : \E f : Fits(f, m)}
<1>1. 0 \in Sizes
  <2> DEFINE f == [n \in 0..0 |-> <<>>]
  <2>1. Fits(f, 0)  OBVIOUS
  <2> QED BY <2>1
<1>2. ASSUME NEW m \in Nat, m \in Sizes  PROVE m + 1 \in Sizes
  <2>1. PICK f : Fits(f, m)  BY <1>2
  <2> DEFINE g == [n \in 0..(m + 1) |-> IF n <= m THEN f[n] ELSE Body(f, m + 1)]
  <2>2. \A n \in 0..m : f[n] = Body(f, n)  BY <2>1
  <2>3. \A n \in 0..(m + 1) : g[n] = Body(g, n)
    <3> SUFFICES ASSUME NEW n \in 0..(m + 1)  PROVE g[n] = Body(g, n)
      OBVIOUS
    <3>1. n # 0 => n - 1 \in 0..(m + 1) /\ n - 1 <= m  OBVIOUS
    <3>2. Body(g, n) = Body(f, n)  BY <3>1
    <3>3. CASE n <= m  BY <2>2, <3>2, <3>3
    <3>4. CASE n = m + 1  BY <3>2, <3>4
    <3> QED BY <3>3, <3>4
  <2> HIDE DEF Body
  <2>4. g = [n \in 0..(m + 1) |-> Body(g, n)]  BY <2>3
  <2> HIDE DEF g
  <2>5. Fits(g, m + 1)  BY <2>4
  <2> QED BY <2>5
<1>3. Len(l) \in Sizes
  <2> HIDE DEF Sizes
  <2> QED BY <1>1, <1>2, Induct
<1>4. \E f : Fits(f, Len(l))  BY <1>3
<1> DEFINE F == CHOOSE f : Fits(f, Len(l))
<1>5. Fits(F, Len(l))  BY <1>4
<1>6. Chosen(l, S) = F[Len(l)]  BY DEF Chosen
<1> QED BY <1>5, <1>6

(* What Chosen returns: the members in S, each as often as it was there.   *)
LEMMA ChosenProperties ==
    ASSUME NEW A, NEW l \in Seq(A), NoDuplicates(l), NEW S
    PROVE  /\ Chosen(l, S) \in Seq(A)
           /\ Members(Chosen(l, S)) = Members(l) \cap S
           /\ NoDuplicates(Chosen(l, S))
<1>1. Len(l) \in Nat /\ DOMAIN l = 1..Len(l) /\ \A i \in 1..Len(l) : l[i] \in A  OBVIOUS
<1>2. PICK f : /\ Chosen(l, S) = f[Len(l)]
               /\ f = [n \in 0..Len(l) |->
                           IF n = 0 THEN <<>>
                           ELSE IF l[n] \in S THEN Append(f[n - 1], l[n]) ELSE f[n - 1]]
  BY <1>1, ChosenUnfolds, ZenonT(40)
<1> DEFINE Good(q, n) == /\ q \in Seq(A)
                         /\ Members(q) = {l[i] : i \in 1..n} \cap S
                         /\ NoDuplicates(q)
           Fine == {n \in Nat : n <= Len(l) => Good(f[n], n)}
<1>3. 0 \in Fine
  <2>1. f[0] = <<>>  BY <1>1, <1>2
  <2>2. Members(<<>>) = {} /\ NoDuplicates(<<>>)  BY DEF Members, NoDuplicates
  <2>3. {l[i] : i \in 1..0} = {}  OBVIOUS
  <2>4. <<>> \in Seq(A)  OBVIOUS
  <2>5. Good(f[0], 0)  BY <2>1, <2>2, <2>3, <2>4
  <2> QED BY <2>5
<1>4. ASSUME NEW n \in Nat, n \in Fine  PROVE n + 1 \in Fine
  <2> SUFFICES ASSUME n + 1 <= Len(l)  PROVE Good(f[n + 1], n + 1)
    OBVIOUS
  <2> DEFINE q == f[n]
             x == l[n + 1]
  <2>1. Good(q, n) /\ n + 1 \in 1..Len(l) /\ x \in A  BY <1>1, <1>4
  <2>2. f[n + 1] = IF x \in S THEN Append(q, x) ELSE q
    <3>1. n + 1 \in 0..Len(l) /\ n + 1 # 0 /\ (n + 1) - 1 = n  BY <1>1, <2>1
    <3> QED BY <1>2, <3>1
  <2>3. {l[i] : i \in 1..(n + 1)} = {l[i] : i \in 1..n} \cup {x}
    <3>1. 1..(n + 1) = 1..n \cup {n + 1}  OBVIOUS
    <3> QED BY <3>1
  <2> HIDE DEF q
  <2>4. CASE x \notin S  BY <2>1, <2>2, <2>3, <2>4
  <2>5. CASE x \in S
    <3> DEFINE r == Append(q, x)
    <3>1. /\ r \in Seq(A) /\ DOMAIN r = 1..(Len(q) + 1) /\ DOMAIN q = 1..Len(q)
          /\ r[Len(q) + 1] = x /\ \A i \in 1..Len(q) : r[i] = q[i]
          /\ Len(q) \in Nat
      BY <2>1, AppendProperties
    <3> HIDE DEF r
    <3>2. Members(r) = Members(q) \cup {x}
      <4>1. 1..(Len(q) + 1) = 1..Len(q) \cup {Len(q) + 1}  BY <3>1
      <4> QED BY <3>1, <4>1 DEF Members
    <3>3. x \notin Members(q)
      <4>1. \A i \in 1..n : l[i] # x
        BY <1>1, <2>1 DEF NoDuplicates
      <4> QED BY <2>1, <4>1
    <3>4. NoDuplicates(r)
      BY <2>1, <3>1, <3>3 DEF NoDuplicates, Members
    <3>5. f[n + 1] = r  BY <2>2, <2>5 DEF r
    <3> QED BY <2>1, <2>3, <2>5, <3>1, <3>2, <3>4, <3>5
  <2> QED BY <2>4, <2>5
<1>5. Len(l) \in Fine
  <2> HIDE DEF Fine
  <2> QED BY <1>1, <1>3, <1>4, Induct
<1>6. {l[i] : i \in 1..Len(l)} = Members(l)  BY <1>1 DEF Members
<1> QED BY <1>1, <1>2, <1>5, <1>6

(* The later version's list operations are the same ones.                  *)
LEMMA SameOperations ==
    ASSUME NEW l, NEW x
    PROVE  /\ Node!Members(l) = Members(l) /\ (Node!NoDuplicates(l) <=> NoDuplicates(l))
           /\ Node!InsertHead(l, x) = InsertHead(l, x) /\ Node!Without(l, x) = Without(l, x)
BY DEF Node!Members, Members, Node!NoDuplicates, NoDuplicates, Node!InsertHead, InsertHead,
       Node!Without, Without

(* The inductive invariant: what the later version keeps, read off the     *)
(* list of hooks.                                                          *)
HooksInv == nd_hooks \in Seq(Sess) /\ Invariant

(* Who listens follows from the hooks and their states.                    *)
LEMMA Listeners ==
    ASSUME nd_hooks \in Seq(Sess), NoDuplicates(nd_hooks)
    PROVE  /\ listeners \in Seq(Sess) /\ NoDuplicates(listeners)
           /\ Members(listeners) = {s \in hooks : sess[s].state = "LISTENING"}
<1> DEFINE S == {s \in Sess : sess[s].state = "LISTENING"}
<1>1. /\ Chosen(nd_hooks, S) \in Seq(Sess) /\ NoDuplicates(Chosen(nd_hooks, S))
      /\ Members(Chosen(nd_hooks, S)) = Members(nd_hooks) \cap S
  BY ChosenProperties
<1>2. hooks \subseteq Sess  BY DEF hooks, Members
<1> QED BY <1>1, <1>2 DEF listeners, hooks

(* The same after a step.                                                  *)
LEMMA ListenersNext ==
    ASSUME nd_hooks' \in Seq(Sess), NoDuplicates(nd_hooks')
    PROVE  /\ listeners' \in Seq(Sess) /\ NoDuplicates(listeners')
           /\ Members(listeners') = {s \in hooks' : sess'[s].state = "LISTENING"}
<1> DEFINE S == {s \in Sess : sess'[s].state = "LISTENING"}
<1>1. /\ Chosen(nd_hooks', S) \in Seq(Sess) /\ NoDuplicates(Chosen(nd_hooks', S))
      /\ Members(Chosen(nd_hooks', S)) = Members(nd_hooks') \cap S
  BY ChosenProperties
<1>2. Members(nd_hooks') \subseteq Sess  BY DEF Members
<1>3. hooks' = Members(nd_hooks') /\ listeners' = Chosen(nd_hooks', S)
  BY DEF hooks, listeners
<1> QED BY <1>1, <1>2, <1>3

(* A step that makes nobody listen, and nobody stop.                       *)
LEMMA NobodyListens ==
    ASSUME UNCHANGED nd_hooks, NEW s \in Sess, sess \in [Sess -> Node!Session], NEW r,
           sess' = [sess EXCEPT ![s] = r],
           sess[s].state # "LISTENING", r.state # "LISTENING"
    PROVE  hooks' = hooks /\ listeners' = listeners
<1>1. {t \in Sess : sess'[t].state = "LISTENING"} = {t \in Sess : sess[t].state = "LISTENING"}
  OBVIOUS
<1> QED BY <1>1 DEF hooks, listeners

----------------------------------------------------------------------------
(* The operations written anew, each a step of the later version.          *)

(* What the invariant says of one session.                                 *)
LEMMA OfSession ==
    ASSUME HooksInv, NEW s \in Sess
    PROVE  /\ sess \in [Sess -> Node!Session] /\ sess[s] \in Node!Session
           /\ Node!SessionOK(s, sess[s])
           /\ hooks \subseteq Sess /\ nd_hooks \in Seq(Sess) /\ NoDuplicates(nd_hooks)
           /\ s \in Node!Members(hash) <=> sess[s].state \in Node!Established
BY DEF HooksInv, Invariant, Node!IndInv, Node!TypeOK

(* CONNECT on the later version                                            *)
LEMMA ConnectIsLater ==
    ASSUME HooksInv, NEW s \in Sess, NEW r \in Requests, Connect(s, r)
    PROVE  Node!Connect(s, r)
<1> DEFINE old == [sess[s] EXCEPT !.neg = NewNeg("DATA", r.ac, r.svc)]
<1>1. sess' = [sess EXCEPT ![s] = Started(s, old)] /\ Idle(s) /\ r.cmd = "CONNECT"
      /\ out' = Node!Send(<<sess'[s].neg.pkt>>)
      /\ UNCHANGED <<node, aux, mode, mac, nd_hooks, hash, pppoe_sid, ticks, rmq>>
  BY DEF Connect
<1>2. Started(s, old) = Node!Started(s, old)  BY DEF Started, Node!Started
<1>3. old = [sess[s] EXCEPT !.neg = Node!NewNeg("DATA", r.ac, r.svc)]
  BY DEF NewNeg, Node!NewNeg
<1>4. Started(s, old).state = "SINIT" /\ sess[s].state # "LISTENING"
  BY <1>1, OfSession DEF Started, Idle, Node!Session
<1>5. hooks' = hooks /\ listeners' = listeners
  BY <1>1, <1>4, OfSession, NobodyListens
<1>6. sess'[s] = Started(s, old)  BY <1>1, OfSession
<1> HIDE DEF old
<1> QED
  BY <1>1, <1>2, <1>3, <1>5, <1>6
  DEF Node!Connect, Idle, Node!Idle, Node!nodeVars, Node!listVars, Node!queueVars

(* The id a walk of the hash settles on                                    *)
LEMMA NewSessionIsLater ==
    ASSUME NEW id, NEW next, NewSession(id, next), pppoe_sid \in 1..MaxSid, MaxSid \in Nat
    PROVE  Node!NewSession(id, next)
<1>1. \A v : InUse(v) <=> Node!InUse(v)
  BY DEF InUse, Node!InUse, Members
<1>2. id \in 1..(MaxSid - 1) /\ ~ Node!InUse(id)  BY <1>1 DEF NewSession
<1>3. CASE id >= pppoe_sid
  <2>1. \A v \in pppoe_sid..(id - 1) : Node!InUse(v)  BY <1>1, <1>3 DEF NewSession
  <2>2. id = 1 => pppoe_sid = 1  BY <1>2, <1>3
  <2>3. next = id + 1  BY <2>2 DEF NewSession
  <2> QED BY <1>2, <1>3, <2>1, <2>3 DEF Node!NewSession
<1>4. CASE ~ (id >= pppoe_sid)
  <2>1. \A v \in pppoe_sid..(MaxSid - 1) : Node!InUse(v)  BY <1>1, <1>4 DEF NewSession
  <2>2. \A v \in 1..(id - 1) : Node!InUse(v)  BY <1>1, <1>4 DEF NewSession
  <2>3. pppoe_sid # 1  BY <1>2, <1>4
  <2>4. next = IF id = 1 THEN 1 ELSE id + 1  BY <2>3 DEF NewSession
  <2> QED BY <1>2, <2>1, <2>2, <2>4 DEF Node!NewSession
<1> QED BY <1>3, <1>4

(* PADR on the later version                                               *)
LEMMA RcvPadrIsLater ==
    ASSUME HooksInv, NEW s \in Sess, NEW f \in Frames, RcvPadr(s, f)
    PROVE  Node!RcvPadr(s, f)
<1>1. /\ Node!Discovery(f, "PADR") /\ s \in FindUniq(f.tags.cookie)
      /\ sess[s].state \in {"SOFFER", "NEWCONNECTED"}
      /\ out' = Node!Emit(<<sess'[s].neg.pkt>>, {}, Tell(s, <<"SESSIONID", "SUCCESS">>))
      /\ UNCHANGED <<node, aux, mode, mac, nd_hooks, ticks, rmq>>
  BY DEF RcvPadr
<1>2. \A id : Node!Confirmed(s, f, id).state = "NEWCONNECTED"
               /\ [Node!Confirmed(s, f, id) EXCEPT !.sid = id].state = "NEWCONNECTED"
  BY OfSession DEF Node!Confirmed, Node!Session
<1>3. \A id, next : NewSession(id, next) => Node!NewSession(id, next)
  BY NewSessionIsLater, NodeAssumptions DEF HooksInv, Invariant, Node!IndInv, Node!TypeOK
<1>4. CASE sess[s].sid # 0
  <2>1. /\ sess' = [sess EXCEPT ![s] = Node!Confirmed(s, f, sess[s].neg.pkt.hdr.sid)]
        /\ UNCHANGED <<hash, pppoe_sid>>
    BY <1>4 DEF RcvPadr
  <2>2. hooks' = hooks /\ listeners' = listeners
    BY <1>1, <1>2, <2>1, OfSession, NobodyListens
  <2> QED
    BY <1>1, <1>4, <2>1, <2>2
    DEF Node!RcvPadr, FindUniq, Node!FindUniq, Tell, Node!Tell, Node!nodeVars, Node!queueVars
<1>5. CASE sess[s].sid = 0
  <2>1. hash' = AddSession(s) /\ \E id, next \in 1..MaxSid :
           /\ NewSession(id, next)
           /\ sess' = [sess EXCEPT ![s] = [Node!Confirmed(s, f, id) EXCEPT !.sid = id]]
           /\ pppoe_sid' = next
    BY <1>5 DEF RcvPadr
  <2>2. hooks' = hooks /\ listeners' = listeners
    BY <1>1, <1>2, <2>1, OfSession, NobodyListens
  <2>3. hash' = Node!InsertHead(hash, s)  BY <2>1, SameOperations DEF AddSession
  <2> QED
    BY <1>1, <1>3, <1>5, <2>1, <2>2, <2>3
    DEF Node!RcvPadr, FindUniq, Node!FindUniq, Tell, Node!Tell, Node!nodeVars, Node!queueVars
<1> QED BY <1>4, <1>5

(* PADS on the later version                                               *)
LEMMA RcvPadsIsLater ==
    ASSUME HooksInv, NEW s \in Sess, NEW f \in Frames, RcvPads(s, f)
    PROVE  Node!RcvPads(s, f)
<1> DEFINE etype == IF "3Com-aDSL" \in mode THEN "3COM_SESS" ELSE "SESS"
           hdr == [sess[s].neg.pkt.hdr EXCEPT !.etype = etype, !.code = "DATA",
                                              !.sid = f.hdr.sid]
           new == [state |-> "CONNECTED", sid |-> f.hdr.sid, neg |-> NULL, callout |-> 0,
                   hdr |-> hdr]
<1>1. Node!SessTypeOf(Node!ConfigEtype) = etype
  BY DEF Node!SessTypeOf, Node!ConfigEtype
<1>2. sess' = [sess EXCEPT ![s] = [Node!ZeroSession EXCEPT
                  !.state = "CONNECTED", !.sid = f.hdr.sid, !.hdr = hdr]]
  BY <1>1 DEF RcvPads
<1> HIDE DEF hdr
<1>3. [Node!ZeroSession EXCEPT !.state = "CONNECTED", !.sid = f.hdr.sid, !.hdr = hdr] = new
  <2> DEFINE zero == Node!ZeroSession
             R == [state : {"CONNECTED"}, sid : {f.hdr.sid}, neg : {NULL}, callout : {0},
                   hdr : {hdr}]
  <2>1. zero \in [state : {"SNONE"}, sid : {0}, hdr : {NULL}, neg : {NULL}, callout : {0}]
    BY DEF Node!ZeroSession
  <2> HIDE DEF zero
  <2>2. [zero EXCEPT !.state = "CONNECTED", !.sid = f.hdr.sid, !.hdr = hdr] \in R
    BY <2>1
  <2>3. new \in R  OBVIOUS
  <2>4. \A x, y \in R : x = y  OBVIOUS
  <2> QED BY <2>2, <2>3, <2>4 DEF zero
<1>4. sess' = [sess EXCEPT ![s] = new]  BY <1>2, <1>3
<1>5. hooks' = hooks /\ listeners' = listeners
  <2>1. new.state # "LISTENING" /\ sess[s].state # "LISTENING" /\ UNCHANGED nd_hooks
    BY DEF RcvPads
  <2> HIDE DEF new
  <2> QED BY <1>4, <2>1, OfSession, NobodyListens
<1>6. hash' = Node!InsertHead(hash, s)  BY SameOperations DEF RcvPads, AddSession
<1> QED
  BY <1>4, <1>5, <1>6
  DEF hdr, RcvPads, Node!RcvPads, Node!AddSession, FindUniq, Node!FindUniq, Tell, Node!Tell,
      Node!nodeVars, Node!queueVars

(* A walk of the hash finds the same session.                              *)
LEMMA FindSessionIsLater == \A f : FindSession(f) = Node!FindSession(f)
BY DEF FindSession, Node!FindSession, FirstIn, Node!FirstIn

(* PADT on the later version                                               *)
LEMMA RcvPadtIsLater ==
    ASSUME NEW s \in Sess, NEW f \in Frames, RcvPadt(s, f)
    PROVE  Node!RcvPadt(s, f)
<1>1. UNCHANGED <<node, aux, mode, mac, nd_hooks, sess, hash, pppoe_sid, ticks>>
      /\ Node!Discovery(f, "PADT") /\ s \in Node!FindSession(f)
      /\ rmq' = rmq \cup {s} /\ out' = Node!Silent
  BY FindSessionIsLater DEF RcvPadt
<1>2. hooks' = hooks /\ listeners' = listeners  BY <1>1 DEF hooks, listeners
<1> QED BY <1>1, <1>2 DEF Node!RcvPadt, Node!nodeVars, Node!listVars

(* Session data on the later version: a session that is CONNECTED has no   *)
(* negotiation block left to free.                                         *)
LEMMA RcvSessionDataIsLater ==
    ASSUME HooksInv, NEW s \in Sess, NEW f \in Frames, RcvSessionData(s, f)
    PROVE  Node!RcvSessionData(s, f)
<1> DEFINE new == [sess[s] EXCEPT !.state = "CONNECTED", !.neg = NULL, !.callout = 0]
<1>1. /\ node = "up" /\ "ethernet" \in aux /\ f.hdr.etype \in Node!SessEtype
      /\ s \in Node!FindSession(f) /\ sess[s].state \in Node!Established
      /\ sess' = [sess EXCEPT ![s] = new] /\ out' = Node!Emit(<<>>, {s}, <<>>)
      /\ UNCHANGED <<node, aux, mode, mac, nd_hooks, hash, pppoe_sid, ticks, rmq>>
  BY FindSessionIsLater DEF RcvSessionData
<1>2. sess[s] \in Node!Session /\ sess \in [Sess -> Node!Session]  BY OfSession
<1>3. new.state = "CONNECTED"  BY <1>2 DEF Node!Session
<1>4. sess[s].state = "CONNECTED" => new = sess[s]
  <2>1. sess[s].state = "CONNECTED" => sess[s].neg = NULL /\ sess[s].callout = 0
    BY OfSession DEF Node!SessionOK, Node!Negotiating, Node!Waiting
  <2> QED BY <1>2, <2>1 DEF Node!Session
<1>5. sess[s].state # "LISTENING"  BY <1>1 DEF Node!Established
<1> HIDE DEF new
<1>6. hooks' = hooks /\ listeners' = listeners
  BY <1>1, <1>2, <1>3, <1>5, NobodyListens
<1>7. sess' = IF sess[s].state = "CONNECTED" THEN sess ELSE [sess EXCEPT ![s] = new]
  BY <1>1, <1>2, <1>4
<1> QED
  BY <1>1, <1>6, <1>7
  DEF new, Node!RcvSessionData, Node!nodeVars, Node!listVars, Node!queueVars

----------------------------------------------------------------------------
(* Every step keeps the invariant.                                         *)

(* A hook goes, for one of the three reasons.                              *)
Removal(s) == RmHookSelf(s) \/ RmHookPeer(s) \/ DestroyHook(s)

(* It was there.                                                           *)
LEMMA RemovalOfHook ==
    ASSUME HooksInv, NEW s \in Sess, Removal(s)
    PROVE  s \in hooks /\ node \in {"up", "closing"} /\ Disconnect(s)
BY DEF Removal, RmHookSelf, RmHookPeer, DestroyHook, HooksInv, Invariant, Node!IndInv

(* Anything but LISTEN and a removal is a step of the later version.       *)
LEMMA LaterStep ==
    ASSUME HooksInv, Next
    PROVE  \/ Node!Next
           \/ \E s \in Sess : Removal(s) \/ \E r \in Requests : Listen(s, r)
<1>1. CASE Constructor \/ RmNode \/ Shutdown
  BY <1>1 DEF Constructor, RmNode, Shutdown, Node!Next, Node!NodeNext
<1>2. CASE \E h \in AuxHooks : NewAuxHook(h) \/ RmAuxHook(h)
  BY <1>2 DEF NewAuxHook, RmAuxHook, Node!Next, Node!NodeNext
<1>3. CASE (\E m \in Modes : SetMode(m)) \/ \E a \in Macs : SetEnaddr(a)
  BY <1>3 DEF SetMode, SetEnaddr, Node!Next, Node!NodeNext
<1>4. CASE \E f \in Frames : RcvPadi(f) \/ RcvDebugData(f)
  BY <1>4 DEF RcvPadi, RcvDebugData, Node!Next, Node!NodeNext
<1>5. ASSUME NEW s \in Sess, NewHook(s) \/ RcvHookData(s) \/ Expire(s) \/ Ticker(s)
      PROVE  Node!SessNext(s)
  BY <1>5 DEF NewHook, RcvHookData, Expire, Ticker, Node!SessNext
<1>6. ASSUME NEW s \in Sess, NEW r \in Requests, Connect(s, r) \/ Offer(s, r) \/ Service(s, r)
      PROVE  Node!SessNext(s)
  BY <1>6, ConnectIsLater DEF Offer, Service, Node!SessNext
<1>7. ASSUME NEW s \in Sess, NEW f \in Frames, RcvHookPadi(s, f) \/ RcvPado(s, f)
      PROVE  Node!SessNext(s)
  BY <1>7 DEF RcvHookPadi, RcvPado, Node!SessNext
<1>8. ASSUME NEW s \in Sess, NEW f \in Frames,
             RcvPadr(s, f) \/ RcvPads(s, f) \/ RcvPadt(s, f) \/ RcvSessionData(s, f)
      PROVE  Node!SessNext(s)
  BY <1>8, RcvPadrIsLater, RcvPadsIsLater, RcvPadtIsLater, RcvSessionDataIsLater
     DEF Node!SessNext
<1> QED
  BY <1>1, <1>2, <1>3, <1>4, <1>5, <1>6, <1>7, <1>8 DEF Next, Removal, Node!Next

(* The list of hooks stays a list of distinct hooks.                       *)
LEMMA HookList ==
    ASSUME HooksInv, Next
    PROVE  nd_hooks' \in Seq(Sess) /\ NoDuplicates(nd_hooks')
<1>1. nd_hooks \in Seq(Sess) /\ NoDuplicates(nd_hooks)  BY DEF HooksInv, Invariant
<1>2. CASE UNCHANGED nd_hooks  BY <1>1, <1>2
<1>3. ASSUME NEW s \in Sess, NewHook(s)
      PROVE  nd_hooks' \in Seq(Sess) /\ NoDuplicates(nd_hooks')
  <2>1. nd_hooks' = Node!InsertHead(nd_hooks, s) /\ s \notin Node!Members(nd_hooks)
        /\ Node!NoDuplicates(nd_hooks)
    BY <1>1, <1>3, SameOperations DEF NewHook, Node!NewHook, hooks
  <2>2. nd_hooks' \in Seq(Sess) /\ Node!NoDuplicates(nd_hooks')
    BY <1>1, <2>1, Node!InsertHeadProperties, NodeAssumptions
  <2> QED BY <2>2, SameOperations
<1>4. ASSUME NEW s \in Sess, Removal(s)
      PROVE  nd_hooks' \in Seq(Sess) /\ NoDuplicates(nd_hooks')
  <2>1. nd_hooks' = Node!Without(nd_hooks, s) /\ s \in Node!Members(nd_hooks)
        /\ Node!NoDuplicates(nd_hooks)
    BY <1>1, <1>4, RemovalOfHook, SameOperations DEF Disconnect, hooks
  <2>2. nd_hooks' \in Seq(Sess) /\ Node!NoDuplicates(nd_hooks')
    BY <1>1, <2>1, Node!WithoutProperties, NodeAssumptions
  <2> QED BY <2>2, SameOperations
<1>5. ASSUME NEW s \in Sess, NEW r \in Requests,
             Connect(s, r) \/ Listen(s, r) \/ Offer(s, r) \/ Service(s, r)
      PROVE  UNCHANGED nd_hooks
  BY <1>5 DEF Connect, Listen, Offer, Service
<1>6. ASSUME NEW s \in Sess, NEW f \in Frames,
             \/ RcvHookPadi(s, f) \/ RcvPado(s, f) \/ RcvPadr(s, f)
             \/ RcvPads(s, f) \/ RcvPadt(s, f) \/ RcvSessionData(s, f)
      PROVE  UNCHANGED nd_hooks
  BY <1>6 DEF RcvHookPadi, RcvPado, RcvPadr, RcvPads, RcvPadt, RcvSessionData
<1>7. ASSUME NEW s \in Sess, RcvHookData(s) \/ Expire(s) \/ Ticker(s)
      PROVE  UNCHANGED nd_hooks
  BY <1>7 DEF RcvHookData, Expire, Ticker
<1>8. CASE \/ Constructor \/ RmNode \/ Shutdown
           \/ \E h \in AuxHooks : NewAuxHook(h) \/ RmAuxHook(h)
           \/ \E m \in Modes : SetMode(m)
           \/ \E a \in Macs : SetEnaddr(a)
           \/ \E f \in Frames : RcvPadi(f) \/ RcvDebugData(f)
  <2>1. UNCHANGED nd_hooks
    BY <1>8 DEF Constructor, RmNode, Shutdown, NewAuxHook, RmAuxHook, SetMode, SetEnaddr,
                RcvPadi, RcvDebugData
  <2> QED BY <1>2, <2>1
<1> QED BY <1>2, <1>3, <1>4, <1>5, <1>6, <1>7, <1>8 DEF Next, Removal

(* LISTEN makes one more hook listen, wherever that hook is in the list.    *)
LEMMA ListenKeeps ==
    ASSUME HooksInv, Next, NEW s \in Sess, NEW r \in Requests, Listen(s, r)
    PROVE  Node!IndInv'
<1> DEFINE new == [sess[s] EXCEPT !.state = "LISTENING", !.neg = Node!NewNeg("PADT", "", r.svc)]
<1>1. /\ Node!Idle(s) /\ sess' = [sess EXCEPT ![s] = new] /\ out' = Node!Silent
      /\ UNCHANGED <<node, aux, mode, mac, nd_hooks, hash, pppoe_sid, ticks, rmq>>
  BY DEF Listen, Idle, Node!Idle, NewNeg, Node!NewNeg
<1>2. sess \in [Sess -> Node!Session] /\ new.state = "LISTENING" /\ s \in hooks
  BY <1>1, OfSession DEF Node!Session, Node!Idle
<1> HIDE DEF new
<1>3. hooks' = hooks  BY <1>1 DEF hooks
<1>4. /\ Members(listeners) = {t \in hooks : sess[t].state = "LISTENING"}
      /\ Members(listeners') = {t \in hooks' : sess'[t].state = "LISTENING"}
      /\ listeners' \in Seq(Sess) /\ NoDuplicates(listeners')
  <2>1. nd_hooks' \in Seq(Sess) /\ NoDuplicates(nd_hooks')  BY HookList
  <2> QED BY <2>1, OfSession, Listeners, ListenersNext
<1>5. Members(listeners') = Members(listeners) \cup {s}
  <2>1. hooks \subseteq Sess  BY OfSession
  <2> QED BY <1>1, <1>2, <1>3, <1>4, <2>1
<1>6. /\ Node!NoDuplicates(listeners')
      /\ Node!Members(listeners') = Node!Members(listeners) \cup {s}
  BY <1>4, <1>5, SameOperations
<1>7. UNCHANGED <<Node!nodeVars, hooks, hash, pppoe_sid, Node!queueVars>>
  BY <1>1, <1>3 DEF Node!nodeVars, Node!queueVars
<1>8. Node!IndInv  BY DEF HooksInv, Invariant
<1> QED
  BY <1>1, <1>4, <1>6, <1>7, <1>8, Node!ListenAnywhere, NodeAssumptions DEF new

(* A hook that goes listens no longer.                                     *)
LEMMA RemovalKeeps ==
    ASSUME HooksInv, Next, NEW s \in Sess, Removal(s)
    PROVE  hooks' = hooks \ {s} /\ Node!IndInv'
<1>1. s \in hooks /\ node \in {"up", "closing"} /\ Disconnect(s)  BY RemovalOfHook
<1>2. nd_hooks \in Seq(Sess) /\ NoDuplicates(nd_hooks) /\ hooks \subseteq Sess
      /\ sess \in [Sess -> Node!Session]
  BY OfSession
<1>3. hooks' = hooks \ {s}
  <2>1. nd_hooks' = Node!Without(nd_hooks, s) /\ s \in Node!Members(nd_hooks)
        /\ Node!NoDuplicates(nd_hooks)
    BY <1>1, <1>2, SameOperations DEF Disconnect, hooks
  <2>2. Node!Members(nd_hooks') = Node!Members(nd_hooks) \ {s}
    BY <1>2, <2>1, Node!WithoutProperties, NodeAssumptions
  <2>3. Members(nd_hooks') = Members(nd_hooks) \ {s}  BY <2>2, SameOperations
  <2> QED BY <2>3 DEF hooks
<1>4. sess' = [sess EXCEPT ![s] = Node!ZeroSession]  BY <1>1 DEF Disconnect
<1>5. /\ Members(listeners) = {t \in hooks : sess[t].state = "LISTENING"}
      /\ Members(listeners') = {t \in hooks' : sess'[t].state = "LISTENING"}
      /\ listeners' \in Seq(Sess) /\ NoDuplicates(listeners')
  <2>1. nd_hooks' \in Seq(Sess) /\ NoDuplicates(nd_hooks')  BY HookList
  <2> QED BY <1>2, <2>1, Listeners, ListenersNext
<1>6. Members(listeners') = Members(listeners) \ {s}
  BY <1>2, <1>3, <1>4, <1>5
<1>7. /\ Node!NoDuplicates(listeners')
      /\ Node!Members(listeners') = Node!Members(listeners) \ {s}
  BY <1>5, <1>6, SameOperations
<1>8. hash' = IF sess[s].sid # 0 THEN Node!Without(hash, s) ELSE hash
  BY <1>1, SameOperations DEF Disconnect, Unlinked
<1>9. node' \in {"up", "closing"}  BY <1>1 DEF Disconnect, Node!Doomed
<1>10. out' = Node!Emit(IF sess[s].state \notin Node!Established THEN <<>>
                       ELSE <<[hdr |-> [sess[s].hdr EXCEPT !.code = "PADT",
                                           !.etype = Node!DiscTypeOf(sess[s].hdr.etype)],
                               tags |-> Node!NoTags]>>,
                       {},
                       IF sess[s].state = "SNONE" THEN <<>> ELSE Node!Tell(s, <<"CLOSE">>))
  BY <1>1 DEF Disconnect, SignOff, Tell, Node!Tell
<1>11. ticks' = ticks \ {s} /\ rmq' = rmq \ {s} /\ UNCHANGED <<aux, mode, mac, pppoe_sid>>
  BY <1>1 DEF Disconnect
<1>12. Node!IndInv  BY DEF HooksInv, Invariant
<1> QED
  BY <1>1, <1>3, <1>4, <1>5, <1>7, <1>8, <1>9, <1>10, <1>11, <1>12, Node!DisconnectAnywhere,
     NodeAssumptions

(* All together.                                                           *)
LEMMA HooksStep ==
    ASSUME Node!PadsIdsNonzero, HooksInv, [Next]_vars
    PROVE  HooksInv'
<1>1. CASE UNCHANGED vars
  <2>1. UNCHANGED Node!vars
    BY <1>1 DEF vars, Node!vars, hooks, listeners
  <2>2. Node!IndInv'
    BY <2>1, Node!StutterStep, NodeAssumptions DEF HooksInv, Invariant
  <2> QED BY <1>1, <2>2 DEF vars, HooksInv, Invariant, NoDuplicates
<1>2. CASE Next
  <2>1. nd_hooks' \in Seq(Sess) /\ NoDuplicates(nd_hooks')  BY <1>2, HookList
  <2>2. Node!IndInv'
    <3>1. CASE Node!Next
      BY <3>1, Node!NextStep, NodeAssumptions DEF HooksInv, Invariant
    <3>2. ASSUME NEW s \in Sess, Removal(s)  PROVE Node!IndInv'
      BY <1>2, <3>2, RemovalKeeps
    <3>3. ASSUME NEW s \in Sess, NEW r \in Requests, Listen(s, r)  PROVE Node!IndInv'
      BY <1>2, <3>3, ListenKeeps
    <3> QED BY <1>2, <3>1, <3>2, <3>3, LaterStep
  <2> QED BY <2>1, <2>2 DEF HooksInv, Invariant, NoDuplicates
<1> QED BY <1>1, <1>2

(* Nobody listens on a node without hooks.                                 *)
LEMMA InitIsLater == Init => HooksInv /\ Node!Init
<1> SUFFICES ASSUME Init PROVE HooksInv /\ Node!Init  OBVIOUS
<1>1. nd_hooks = <<>> /\ nd_hooks \in Seq(Sess) /\ NoDuplicates(nd_hooks) /\ hooks = {}
  BY DEF Init, NoDuplicates, hooks, Members
<1>2. listeners \in Seq(Sess) /\ Members(listeners) = {}  BY <1>1, Listeners
<1>3. listeners = <<>>
  <2>1. Len(listeners) \in Nat /\ DOMAIN listeners = 1..Len(listeners)  BY <1>2
  <2>2. 1 \notin DOMAIN listeners  BY <1>2 DEF Members
  <2>3. Len(listeners) = 0  BY <2>1, <2>2
  <2> QED BY <1>2, <2>3
<1>4. Node!Init  BY <1>1, <1>3 DEF Init, Node!Init
<1>5. Node!IndInv  BY <1>4, Node!InitOK, NodeAssumptions
<1> QED BY <1>1, <1>4, <1>5 DEF HooksInv, Invariant

(* The version before the commit keeps the invariant of the one after it,  *)
(* for any number of hooks, requests and frames, against the same peers.   *)
THEOREM InvarianceBefore == Node!PadsIdsNonzero => (Spec => [](HooksInv /\ Invariant))
<1> SUFFICES ASSUME Node!PadsIdsNonzero PROVE Spec => [](HooksInv /\ Invariant)  OBVIOUS
<1>1. Init => HooksInv  BY InitIsLater
<1>2. HooksInv /\ [Next]_vars => HooksInv'  BY HooksStep
<1>3. HooksInv => Invariant  BY DEF HooksInv
<1> QED BY <1>1, <1>2, <1>3, PTL DEF Spec

----------------------------------------------------------------------------
(* What the daemons see is what the later version shows them.              *)

(* A step of one hook that leaves the others alone.                        *)
LEMMA OnlyThis ==
    ASSUME HooksInv, NEW s \in Sess, NEW r, sess' = [sess EXCEPT ![s] = r],
           hooks' \ {s} = hooks \ {s}
    PROVE  Node!Only(s)
<1> SUFFICES ASSUME NEW t \in Sess \ {s}
             PROVE  Node!PartOf(t)' = Node!PartOf(t) /\ Node!LinkOf(t)' = Node!LinkOf(t)
  BY DEF Node!Only
<1>1. sess'[t] = sess[t] /\ (t \in hooks <=> t \in hooks')  BY OfSession
<1> QED BY <1>1 DEF Node!PartOf, Node!LinkOf, Node!InState

(* LISTEN gives the hook its part.                                         *)
LEMMA ListenSeen ==
    ASSUME HooksInv, NEW s \in Sess, NEW r \in Requests, Listen(s, r)
    PROVE  Node!Daemon!Next
<1> DEFINE new == [sess[s] EXCEPT !.state = "LISTENING", !.neg = NewNeg("PADT", "", r.svc)]
<1>1. /\ s \in hooks /\ hooks' = hooks /\ sess[s].state = "SNONE"
      /\ sess' = [sess EXCEPT ![s] = new] /\ out'.msg = <<>>
  BY DEF Listen, Idle, hooks, Node!Silent
<1>2. sess'[s].state = "LISTENING"  BY <1>1, OfSession DEF Node!Session
<1>3. Node!Only(s)  BY <1>1, OnlyThis
<1>4. /\ Node!PartOf(s) = "idle" /\ Node!PartOf(s)' = "listener"
      /\ Node!LinkOf(s) = {} /\ Node!LinkOf(s)' = {}
  BY <1>1, <1>2 DEF Node!PartOf, Node!LinkOf, Node!Part, Node!InState, Node!Established
<1> QED BY <1>1, <1>3, <1>4, Node!TakeStep, NodeAssumptions

(* A removal closes the session the daemon was told of.                    *)
LEMMA RemovalSeen ==
    ASSUME HooksInv, Next, NEW s \in Sess, Removal(s)
    PROVE  Node!Daemon!Next
<1>1. s \in hooks /\ Disconnect(s) /\ hooks' = hooks \ {s}
  BY RemovalOfHook, RemovalKeeps
<1>2. /\ sess' = [sess EXCEPT ![s] = Node!ZeroSession]
      /\ out'.msg = IF sess[s].state = "SNONE" THEN <<>> ELSE Node!Tell(s, <<"CLOSE">>)
  BY <1>1 DEF Disconnect, Node!Emit, Tell, Node!Tell
<1>3. Node!Only(s)  BY <1>1, <1>2, OnlyThis
<1>4. Node!PartOf(s) # "none" /\ (Node!PartOf(s) = "idle" <=> sess[s].state = "SNONE")
  <2>1. sess[s].state \in Node!State  BY OfSession DEF Node!Session
  <2> QED BY <1>1, <2>1 DEF Node!PartOf, Node!Part, Node!State
<1>5. Node!PartOf(s)' = "none" /\ Node!LinkOf(s)' = {}
  BY <1>1 DEF Node!PartOf, Node!LinkOf, Node!InState
<1> QED BY <1>2, <1>3, <1>4, <1>5, Node!DetachStep, NodeAssumptions

(* To its daemons this version makes the promises of the later one.        *)
THEOREM PromisesAreKeptBefore == Node!PadsIdsNonzero => (Spec => KeepsPromises)
<1> SUFFICES ASSUME Node!PadsIdsNonzero PROVE Spec => KeepsPromises  OBVIOUS
<1> DEFINE seen == <<[s \in Sess |-> Node!PartOf(s)], [s \in Sess |-> Node!LinkOf(s)],
                     Node!Members(out.msg)>>
<1>1. Init => Node!Daemon!Init
  <2> SUFFICES ASSUME Init PROVE Node!Daemon!Init  OBVIOUS
  <2>1. hooks = {} /\ out.msg = <<>>  BY InitIsLater DEF Node!Init, Node!Silent
  <2>2. Node!Members(out.msg) = {}  BY <2>1 DEF Node!Members
  <2> QED BY <2>1, <2>2 DEF Node!PartOf, Node!LinkOf, Node!InState, Node!Daemon!Init
<1>2. HooksInv /\ HooksInv' /\ [Next]_vars => [Node!Daemon!Next]_seen
  <2> SUFFICES ASSUME HooksInv, HooksInv', [Next]_vars  PROVE [Node!Daemon!Next]_seen
    OBVIOUS
  <2>1. Node!IndInv /\ Node!IndInv'  BY DEF HooksInv, Invariant
  <2>2. CASE [Node!Next]_Node!vars
    BY <2>1, <2>2, Node!StepPromised, NodeAssumptions
  <2>3. CASE UNCHANGED vars
    <3>1. UNCHANGED Node!vars  BY <2>3 DEF vars, Node!vars, hooks, listeners
    <3> QED BY <2>2, <3>1
  <2>4. CASE Next
    BY <2>2, <2>4, LaterStep, ListenSeen, RemovalSeen
  <2> QED BY <2>3, <2>4
<1> QED
  BY <1>1, <1>2, InvarianceBefore, PTL
  DEF Spec, KeepsPromises, Node!KeepsPromises, Node!Daemon!Spec, Node!Daemon!vars

----------------------------------------------------------------------------
(* Who is fed what arrives.                                                *)

(* A walk until a match finds a member of the list, and one at most.       *)
LEMMA FirstInProperties ==
    ASSUME NEW l, NEW n \in Nat, DOMAIN l = 1..n, NEW S
    PROVE  LET found == {l[i] : i \in {j \in DOMAIN l : l[j] \in S /\ \A k \in 1..(j - 1) : l[k] \notin S}}
           IN  found \subseteq Members(l) /\ \A x, y \in found : x = y
<1> DEFINE first == {j \in DOMAIN l : l[j] \in S /\ \A k \in 1..(j - 1) : l[k] \notin S}
<1>1. ASSUME NEW i \in first, NEW j \in first  PROVE i = j
  <2>1. i \in 1..n /\ j \in 1..n  OBVIOUS
  <2>2. ~ (i < j) /\ ~ (j < i)  BY <2>1
  <2> QED BY <2>1, <2>2
<1> QED BY <1>1 DEF Members

(* The hooks a PADI is delivered to                                        *)
LEMMA PadiReceivers ==
    ASSUME HooksInv, NEW f \in Frames, Node!RcvPadi(f), NEW s \in out'.up
    PROVE  sess[s].state = "LISTENING" /\ (out'.up # {s} => "D-Link" \in mode)
<1> DEFINE svc == Head(f.tags.srv)
           S == {t \in Sess : sess[t].neg.service \in {"", "*", svc}}
           match == Node!MatchSvc(svc)
<1>1. listeners \in Seq(Sess) /\ Members(listeners) = {t \in hooks : sess[t].state = "LISTENING"}
  BY Listeners DEF HooksInv, Invariant
<1>2. match \subseteq Members(listeners) /\ \A x, y \in match : x = y
  <2>1. Len(listeners) \in Nat /\ DOMAIN listeners = 1..Len(listeners)
        /\ \A i \in DOMAIN listeners : listeners[i] \in Sess
    BY <1>1
  <2>2. ASSUME NEW j \in DOMAIN listeners
        PROVE  /\ sess[listeners[j]].neg.service \in {"", "*", svc} <=> listeners[j] \in S
               /\ \A k \in 1..(j - 1) :
                     sess[listeners[k]].neg.service \in {"", "*", svc} <=> listeners[k] \in S
    <3>1. \A k \in 1..(j - 1) : k \in DOMAIN listeners  BY <2>1
    <3> QED BY <2>1, <3>1
  <2>3. match = {listeners[i] : i \in {j \in DOMAIN listeners :
                   sess[listeners[j]].neg.service \in {"", "*", svc}
                   /\ \A k \in 1..(j - 1) : ~ (sess[listeners[k]].neg.service \in {"", "*", svc})}}
    BY DEF Node!MatchSvc, Node!FirstIn
  <2> HIDE DEF S, match
  <2>4. match = {listeners[i] : i \in {j \in DOMAIN listeners :
                   listeners[j] \in S /\ \A k \in 1..(j - 1) : listeners[k] \notin S}}
    BY <2>2, <2>3
  <2> DEFINE found == {listeners[i] : i \in {j \in DOMAIN listeners :
                         listeners[j] \in S /\ \A k \in 1..(j - 1) : listeners[k] \notin S}}
  <2>5. found \subseteq Members(listeners) /\ \A x, y \in found : x = y
    BY <2>1, FirstInProperties
  <2> HIDE DEF found
  <2> QED BY <2>4, <2>5 DEF found
<1>3. /\ out'.up \subseteq Members(listeners)
      /\ "D-Link" \notin mode => out'.up \subseteq match
  <2>1. out'.up = IF match = {} /\ "D-Link" \in mode /\ svc = ""
                 THEN Node!BroadcastPadi ELSE match
    BY DEF Node!RcvPadi, Node!Emit
  <2> QED BY <1>2, <2>1 DEF Node!BroadcastPadi, Node!Members, Members
<1> HIDE DEF match
<1> QED BY <1>1, <1>2, <1>3

(* What reaches the daemon of a hook                                       *)
LEMMA Receivers ==
    ASSUME HooksInv, Next, NEW s \in out'.up
    PROVE  /\ sess[s].state \in {"LISTENING"} \cup Node!Established
           /\ sess[s].state = "LISTENING" /\ out'.up # {s} => "D-Link" \in mode
<1>1. ASSUME NEW f \in Frames, RcvPadi(f)
      PROVE  sess[s].state = "LISTENING" /\ (out'.up # {s} => "D-Link" \in mode)
  BY <1>1, PadiReceivers DEF RcvPadi
<1>2. ASSUME NEW t \in Sess, NEW f \in Frames, RcvSessionData(t, f)
      PROVE  sess[s].state \in Node!Established /\ out'.up = {s}
  BY <1>2 DEF RcvSessionData, Node!Emit
<1>3. ~ (Constructor \/ RmNode \/ Shutdown)
  BY DEF Constructor, RmNode, Shutdown, Node!Constructor, Node!RmNode, Node!Shutdown, Node!Silent
<1>4. ASSUME NEW h \in AuxHooks, NewAuxHook(h) \/ RmAuxHook(h)  PROVE FALSE
  BY <1>4 DEF NewAuxHook, RmAuxHook, Node!NewAuxHook, Node!RmAuxHook, Node!DestroyAuxHook,
              Node!DisconnectAux, Node!Silent
<1>5. ASSUME NEW m, SetMode(m) \/ SetEnaddr(m)  PROVE FALSE
  BY <1>5 DEF SetMode, SetEnaddr, Node!SetMode, Node!SetEnaddr, Node!Silent
<1>6. ASSUME NEW f \in Frames, RcvDebugData(f)  PROVE FALSE
  BY <1>6 DEF RcvDebugData, Node!RcvDebugData, Node!Send, Node!Emit
<1>7. ASSUME NEW t \in Sess, NewHook(t) \/ RcvHookData(t) \/ Expire(t) \/ Ticker(t)  PROVE FALSE
  BY <1>7 DEF NewHook, RcvHookData, Expire, Ticker, Node!NewHook, Node!RcvHookData, Node!Expire,
              Node!Ticker, Node!Silent, Node!Send, Node!Emit
<1>8. ASSUME NEW t \in Sess, NEW r \in Requests,
             Connect(t, r) \/ Listen(t, r) \/ Offer(t, r) \/ Service(t, r)
      PROVE  FALSE
  BY <1>8 DEF Connect, Listen, Offer, Service, Node!Offer, Node!Service, Node!Silent, Node!Send,
              Node!Emit
<1>9. ASSUME NEW t \in Sess, NEW f \in Frames,
             \/ RcvHookPadi(t, f) \/ RcvPado(t, f) \/ RcvPadr(t, f) \/ RcvPads(t, f)
             \/ RcvPadt(t, f)
      PROVE  FALSE
  <2>1. CASE RcvHookPadi(t, f)
    <3>1. out' = Node!Silent \/ \E q : out' = Node!Send(q)
      BY <2>1 DEF RcvHookPadi, Node!RcvHookPadi
    <3> QED BY <3>1 DEF Node!Silent, Node!Send, Node!Emit
  <2>2. CASE RcvPado(t, f) \/ RcvPadr(t, f) \/ RcvPads(t, f)
    <3>1. \E q, m : out' = Node!Emit(q, {}, m)
      BY <2>2 DEF RcvPado, Node!RcvPado, RcvPadr, RcvPads
    <3> QED BY <3>1 DEF Node!Emit
  <2>3. CASE RcvPadt(t, f)  BY <2>3 DEF RcvPadt, Node!Silent
  <2> QED BY <1>9, <2>1, <2>2, <2>3
<1>10. ASSUME NEW t \in Sess, RmHookSelf(t) \/ RmHookPeer(t) \/ DestroyHook(t)  PROVE FALSE
  <2>1. \E q, m : out' = Node!Emit(q, {}, m)
    BY <1>10 DEF RmHookSelf, RmHookPeer, DestroyHook, Disconnect
  <2> QED BY <2>1 DEF Node!Emit
<1> QED BY <1>1, <1>2, <1>3, <1>4, <1>5, <1>6, <1>7, <1>8, <1>9, <1>10 DEF Next

(* Without a list of listeners, too, a PADI finds hooks that listen, one   *)
(* of them outside the D-Link mode, and no other frame reaches a listener. *)
THEOREM PadisFindListeners == Node!PadsIdsNonzero => (Spec => PadiToListeners)
<1> SUFFICES ASSUME Node!PadsIdsNonzero PROVE Spec => PadiToListeners  OBVIOUS
<1> DEFINE Fed == \A s \in out'.up :
          sess[s].state \in {"LISTENING"} \cup Node!Established
          /\ (sess[s].state = "LISTENING" /\ out'.up # {s} => "D-Link" \in mode)
<1>1. HooksInv /\ [Next]_vars => [Fed]_vars  BY Receivers
<1> QED BY <1>1, InvarianceBefore, PTL DEF Spec, PadiToListeners
============================================================================
