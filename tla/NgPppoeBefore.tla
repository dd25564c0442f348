--------------------------- MODULE NgPppoeBefore ---------------------------
(***************************************************************************)
(* The PPPoE node before the commit dda30f1 (ng_pppoe_before.c).  There is *)
(* no list of listeners: every search for one walks netgraph's own list of *)
(* hooks, nd_hooks, and skips the hooks that do not listen.  What the      *)
(* versions share is written once, in NgPppoe, and used here with hooks    *)
(* and listeners read off nd_hooks.                                        *)
(***************************************************************************)
EXTENDS Integers, Sequences, Lists

CONSTANTS
    Sess, Uniq, Name, Addr, Broadcast, NoMac, Macs, Modes, AuxHooks, Requests,
    Frames, MaxSid, InitialTimeout, OfferTimeout, TimeoutLimit

VARIABLES
    node, aux, mode, mac,
    nd_hooks,   \* the session hooks in node->nd_hooks, the newest first
    sess, hash, pppoe_sid, ticks, rmq, out

vars == <<node, aux, mode, mac, nd_hooks, sess, hash, pppoe_sid, ticks, rmq, out>>

(* Hooks without a sess_con, "ethernet" and "debug", are skipped by every   *)
(* walk and left out of nd_hooks here.                                     *)
hooks == Members(nd_hooks)

(* Mutant: a walk also stops at hooks that do not listen.                  *)
listeners_AnyState == Chosen(nd_hooks, {s \in Sess : sess[s].neg # NULL})

(* "Skip any sessions which are not in LISTEN mode."                       *)
listeners == Chosen(nd_hooks, {s \in Sess : sess[s].state = "LISTENING"})

(* With what is proved of it, for NgPppoeBeforeProofs.                     *)
Node == INSTANCE NgPppoeProofs

ASSUME NodeAssumptions ==
    /\ Sess \subseteq Uniq /\ NULL \notin Uniq
    /\ "" \in Name /\ NULL \notin Name
    /\ Broadcast \in Addr /\ NoMac \in Addr /\ Macs \subseteq Addr
    /\ Broadcast # NoMac /\ Broadcast \notin Macs
    /\ Modes \subseteq {"standard", "3Com-aDSL", "D-Link"}
    /\ AuxHooks \subseteq {"ethernet", "debug"}
    /\ Requests \subseteq Node!Request /\ Frames \subseteq Node!Frame
    /\ \A f \in Frames : f.hdr.src # Broadcast
    /\ MaxSid \in Nat /\ MaxSid >= 2
    /\ InitialTimeout \in Nat \ {0}
    /\ OfferTimeout \in 1..TimeoutLimit
    /\ TimeoutLimit \in Nat /\ InitialTimeout * 2 <= TimeoutLimit
    /\ NULL \notin Node!Header /\ NULL \notin Node!Neg

(* pppoe_finduniq skips the hooks that are no session's.                   *)
FindUniq(tag) == {s \in hooks : s = tag}

(* pppoe_findsession *)
FindSession(f) ==
    FirstIn(hash, LAMBDA s : sess[s].sid = f.hdr.sid /\ sess[s].hdr.dst = f.hdr.src)

InUse(id) == \E s \in Members(hash) : sess[s].sid = id

(* pppoe_getnewsession: the first id from pppoe_sid on that is free, and   *)
(* when there is none below MaxSid, the first one from 1 on, from where    *)
(* the counter has not moved when it is 1 itself.                          *)
NewSession(id, next) ==
    /\ id \in 1..(MaxSid - 1) /\ ~InUse(id)
    /\ LET skipped == IF id >= pppoe_sid THEN pppoe_sid..(id - 1)
                      ELSE (pppoe_sid..(MaxSid - 1)) \cup (1..(id - 1))
       IN  \A v \in skipped : InUse(v)
    /\ next = IF id = 1 /\ pppoe_sid # 1 THEN 1 ELSE id + 1

(* pppoe_addsession *)
AddSession(s) == InsertHead(hash, s)

(* pppoe_send_acname, send_sessionid and pppoe_send_event, to the creator  *)
Tell(s, evs) == [i \in DOMAIN evs |-> [ev |-> evs[i], to |-> s]]

----------------------------------------------------------------------------
Init ==
    /\ node = "gone" /\ aux = {} /\ mode = {} /\ mac = NoMac
    /\ nd_hooks = <<>> /\ sess = [s \in Sess |-> Node!ZeroSession]
    /\ hash = <<>> /\ pppoe_sid = 1
    /\ ticks = {} /\ rmq = {} /\ out = Node!Silent

Constructor == UNCHANGED <<nd_hooks, sess>> /\ Node!Constructor

(* netgraph puts a new hook at the head of nd_hooks.                       *)
NewHook(s) == nd_hooks' = InsertHead(nd_hooks, s) /\ Node!NewHook(s)

NewAuxHook(h) == UNCHANGED nd_hooks /\ Node!NewAuxHook(h)

(* The block a set-up hook gets, its packet with the prototype header      *)
NewNeg(code, ac, svc) ==
    [pkt |-> [hdr |-> Node!ProtoHeader(code), tags |-> Node!NoTags],
     timeout |-> 0, service |-> svc, acname |-> ac]

(* pppoe_start: the header is the node's own, with the code PADI.          *)
Started(s, r) ==
    LET hdr == [r.neg.pkt.hdr EXCEPT !.etype = Node!ConfigEtype, !.code = "PADI",
                                     !.src = mac, !.dst = Broadcast]
        tags == [Node!NoTags EXCEPT !.srv = <<r.neg.service>>, !.uniq = s]
    IN  [r EXCEPT !.state = "SINIT",
                  !.neg = [@ EXCEPT !.pkt = [hdr |-> hdr, tags |-> tags],
                                    !.timeout = InitialTimeout * 2],
                  !.callout = InitialTimeout]

(* ng_pppoe_rcvmsg: the hook is there, and nobody has set it up.           *)
Idle(s) == node = "up" /\ s \in hooks /\ sess[s].state = "SNONE"

Connect(s, r) ==
    /\ Idle(s) /\ r.cmd = "CONNECT"
    /\ sess' = [sess EXCEPT ![s] =
                  Started(s, [@ EXCEPT !.neg = NewNeg("DATA", r.ac, r.svc)])]
    /\ out' = Node!Send(<<sess'[s].neg.pkt>>)
    /\ UNCHANGED <<node, aux, mode, mac, nd_hooks, hash, pppoe_sid, ticks, rmq>>

(* The state alone makes the hook a listener.                              *)
Listen(s, r) ==
    /\ Idle(s) /\ r.cmd = "LISTEN" /\ Node!FindSvc(r.svc) = {}
    /\ sess' = [sess EXCEPT ![s] = [@ EXCEPT !.state = "LISTENING",
                                             !.neg = NewNeg("PADT", "", r.svc)]]
    /\ out' = Node!Silent
    /\ UNCHANGED <<node, aux, mode, mac, nd_hooks, hash, pppoe_sid, ticks, rmq>>

Offer(s, r) == UNCHANGED nd_hooks /\ Node!Offer(s, r)

Service(s, r) == UNCHANGED nd_hooks /\ Node!Service(s, r)

SetMode(m) == UNCHANGED nd_hooks /\ Node!SetMode(m)

SetEnaddr(a) == UNCHANGED nd_hooks /\ Node!SetEnaddr(a)

RcvHookData(s) == UNCHANGED nd_hooks /\ Node!RcvHookData(s)

RcvHookPadi(s, f) == UNCHANGED nd_hooks /\ Node!RcvHookPadi(s, f)

RcvPadi(f) == UNCHANGED nd_hooks /\ Node!RcvPadi(f)

RcvPado(s, f) == UNCHANGED nd_hooks /\ Node!RcvPado(s, f)

(* Mutant: a PADR always gets a new id, a retry too.                       *)
RcvPadr_NewId(s, f) ==
    /\ Node!Discovery(f, "PADR") /\ s \in FindUniq(f.tags.cookie)
    /\ sess[s].state \in {"SOFFER", "NEWCONNECTED"}
    /\ \E id, next \in 1..MaxSid :
          /\ NewSession(id, next)
          /\ sess' = [sess EXCEPT ![s] = [Node!Confirmed(s, f, id) EXCEPT !.sid = id]]
          /\ pppoe_sid' = next
    /\ hash' = AddSession(s)
    /\ out' = Node!Emit(<<sess'[s].neg.pkt>>, {}, Tell(s, <<"SESSIONID", "SUCCESS">>))
    /\ UNCHANGED <<node, aux, mode, mac, nd_hooks, ticks, rmq>>

(* A retry, in NEWCONNECTED, keeps its id and its place in the hash.       *)
RcvPadr(s, f) ==
    /\ Node!Discovery(f, "PADR") /\ s \in FindUniq(f.tags.cookie)
    /\ sess[s].state \in {"SOFFER", "NEWCONNECTED"}
    /\ \/ /\ sess[s].sid # 0
          /\ sess' = [sess EXCEPT ![s] = Node!Confirmed(s, f, @.neg.pkt.hdr.sid)]
          /\ UNCHANGED <<hash, pppoe_sid>>
       \/ /\ sess[s].sid = 0
          /\ \E id, next \in 1..MaxSid :
                /\ NewSession(id, next)
                /\ sess' = [sess EXCEPT ![s] = [Node!Confirmed(s, f, id) EXCEPT !.sid = id]]
                /\ pppoe_sid' = next
          /\ hash' = AddSession(s)
    /\ out' = Node!Emit(<<sess'[s].neg.pkt>>, {}, Tell(s, <<"SESSIONID", "SUCCESS">>))
    /\ UNCHANGED <<node, aux, mode, mac, nd_hooks, ticks, rmq>>

(* The client's session is up, under the id the server chose.              *)
RcvPads(s, f) ==
    /\ Node!Discovery(f, "PADS") /\ s \in FindUniq(f.tags.uniq)
    /\ sess[s].state = "SREQ"
    /\ LET etype == Node!SessTypeOf(Node!ConfigEtype)
           hdr == [sess[s].neg.pkt.hdr EXCEPT !.etype = etype, !.code = "DATA",
                                              !.sid = f.hdr.sid]
       IN  sess' = [sess EXCEPT ![s] = [Node!ZeroSession EXCEPT
                        !.state = "CONNECTED", !.sid = f.hdr.sid, !.hdr = hdr]]
    /\ hash' = AddSession(s)
    /\ out' = Node!Emit(<<>>, {}, Tell(s, <<"SESSIONID", "SUCCESS">>))
    /\ UNCHANGED <<node, aux, mode, mac, nd_hooks, pppoe_sid, ticks, rmq>>

RcvPadt(s, f) ==
    /\ Node!Discovery(f, "PADT") /\ s \in FindSession(f)
    /\ rmq' = rmq \cup {s} /\ out' = Node!Silent
    /\ UNCHANGED <<node, aux, mode, mac, nd_hooks, sess, hash, pppoe_sid, ticks>>

RcvSessionData(s, f) ==
    /\ node = "up" /\ "ethernet" \in aux /\ f.hdr.etype \in Node!SessEtype
    /\ s \in FindSession(f) /\ sess[s].state \in Node!Established
    /\ sess' = [sess EXCEPT ![s] = [@ EXCEPT !.state = "CONNECTED", !.neg = NULL,
                                             !.callout = 0]]
    /\ out' = Node!Emit(<<>>, {s}, <<>>)
    /\ UNCHANGED <<node, aux, mode, mac, nd_hooks, hash, pppoe_sid, ticks, rmq>>

RcvDebugData(f) == UNCHANGED nd_hooks /\ Node!RcvDebugData(f)

Expire(s) == UNCHANGED nd_hooks /\ Node!Expire(s)

Ticker(s) == UNCHANGED nd_hooks /\ Node!Ticker(s)

(* The PADT of a session that was up                                       *)
SignOff(r) == [hdr |-> [r.hdr EXCEPT !.code = "PADT",
                                     !.etype = Node!DiscTypeOf(r.hdr.etype)],
               tags |-> Node!NoTags]

(* Mutant: a link that nobody used yet stays in the hash.                  *)
Unlinked_UpOnly(s) == IF sess[s].state = "CONNECTED" THEN Without(hash, s) ELSE hash

(* pppoe_delsession of a session that has an id                            *)
Unlinked(s) == IF sess[s].sid # 0 THEN Without(hash, s) ELSE hash

(* ng_pppoe_disconnect: no list of listeners to leave.                     *)
Disconnect(s) ==
    /\ nd_hooks' = Without(nd_hooks, s)
    /\ hash' = Unlinked(s)
    /\ sess' = [sess EXCEPT ![s] = Node!ZeroSession]
    /\ ticks' = ticks \ {s} /\ rmq' = rmq \ {s}
    /\ node' = Node!Doomed(nd_hooks' = <<>> /\ aux = {})
    /\ out' = Node!Emit(IF sess[s].state \in Node!Established
                        THEN <<SignOff(sess[s])>> ELSE <<>>,
                        {},
                        IF sess[s].state = "SNONE" THEN <<>>
                        ELSE Tell(s, <<"CLOSE">>))
    /\ UNCHANGED <<aux, mode, mac, pppoe_sid>>

RmHookSelf(s) == node = "up" /\ s \in rmq /\ Disconnect(s)
RmHookPeer(s) == node = "up" /\ s \in hooks /\ Disconnect(s)
DestroyHook(s) == node = "closing" /\ s \in hooks /\ Disconnect(s)

RmAuxHook(h) == UNCHANGED nd_hooks /\ (Node!RmAuxHook(h) \/ Node!DestroyAuxHook(h))

RmNode == UNCHANGED nd_hooks /\ Node!RmNode

Shutdown == UNCHANGED nd_hooks /\ Node!Shutdown

Next ==
    \/ Constructor \/ RmNode \/ Shutdown
    \/ \E h \in AuxHooks : NewAuxHook(h) \/ RmAuxHook(h)
    \/ \E m \in Modes : SetMode(m)
    \/ \E a \in Macs : SetEnaddr(a)
    \/ \E f \in Frames : RcvPadi(f) \/ RcvDebugData(f)
    \/ \E s \in Sess :
        \/ NewHook(s) \/ RcvHookData(s)
        \/ \E r \in Requests : Connect(s, r) \/ Listen(s, r) \/ Offer(s, r) \/ Service(s, r)
        \/ \E f \in Frames : \/ RcvHookPadi(s, f) \/ RcvPado(s, f) \/ RcvPadr(s, f)
                             \/ RcvPads(s, f) \/ RcvPadt(s, f) \/ RcvSessionData(s, f)
        \/ Expire(s) \/ Ticker(s)
        \/ RmHookSelf(s) \/ RmHookPeer(s) \/ DestroyHook(s)

Spec == Init /\ [][Next]_vars

----------------------------------------------------------------------------
(* Without a list of listeners there is no link that could dangle; what is *)
(* left of NgPppoe's invariant holds here too: the hash holds exactly the  *)
(* established sessions, whatever the state a hook was removed in.         *)
Invariant == NoDuplicates(nd_hooks) /\ Node!IndInv

(* To its daemons this version makes the promises the later one makes.     *)
KeepsPromises == Node!KeepsPromises

(* A PADI is delivered only to hooks that listen, and to several of them   *)
(* only as the D-Link mode's broadcast, whatever other sessions are hooked *)
(* between them; no other frame of the Ethernet reaches a listener.        *)
PadiToListeners ==
    [][\A s \in out'.up : sess[s].state \in {"LISTENING"} \cup Node!Established
          /\ (sess[s].state = "LISTENING" /\ out'.up # {s} => "D-Link" \in mode)]_vars
============================================================================
