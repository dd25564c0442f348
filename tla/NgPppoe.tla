------------------------------ MODULE NgPppoe ------------------------------
(***************************************************************************)
(* One FreeBSD netgraph PPPoE node: sys/netgraph/ng_pppoe.c as the commit  *)
(* dda30f1 left it (ng_pppoe_after.c).  The node multiplexes PPPoE         *)
(* sessions, one per session hook, over one "ethernet" hook.  Each action  *)
(* is one netgraph entry point run to completion (netgraph applies items   *)
(* of a node one at a time, unless they are readers: see PppoeSid).        *)
(*                                                                         *)
(* The environment is open: any daemon request in Requests and any frame   *)
(* in Frames may arrive at any time, any number of times and in any order, *)
(* which covers loss, duplication, reordering and delay on the Ethernet.   *)
(* An input the code refuses changes nothing and is left out.              *)
(*                                                                         *)
(* An operator marked "Mutant" is a slip that the code could have and the  *)
(* properties must notice; it is no part of the specification.             *)
(***************************************************************************)
EXTENDS Integers, Sequences, FiniteSets, Lists

CONSTANTS
    Sess,            \* addresses struct sess_con may have, one per live hook
    Uniq,            \* values a Host-Uniq or AC-Cookie tag may carry
    Name,            \* service and AC names
    Addr,            \* Ethernet addresses
    Broadcast,       \* ff:ff:ff:ff:ff:ff
    NoMac,           \* 00:00:00:00:00:00
    Macs,            \* addresses the node's interface may be given
    Modes,           \* arguments of NGM_PPPOE_SETMODE that may arrive
    AuxHooks,        \* which of "ethernet", "debug" may be attached
    Requests,        \* control messages the daemons may send
    Frames,          \* frames that may arrive on a hook
    MaxSid,          \* 0xffff, the reserved Session_ID
    InitialTimeout,  \* PPPOE_INITIAL_TIMEOUT
    OfferTimeout,    \* PPPOE_OFFER_TIMEOUT
    TimeoutLimit     \* PPPOE_TIMEOUT_LIMIT

DiscEtype == {"DISC", "3COM_DISC"}
SessEtype == {"SESS", "3COM_SESS"}

SessTypeOf(e) == IF e = "3COM_DISC" THEN "3COM_SESS" ELSE "SESS"
DiscTypeOf(e) == IF e = "3COM_SESS" THEN "3COM_DISC" ELSE "DISC"

Code == {"DATA", "PADI", "PADO", "PADR", "PADS", "PADT"}

Header == [etype : DiscEtype \cup SessEtype, code : Code,
           sid : 0..MaxSid, src : Addr, dst : Addr]

(* srv lists the Service-Name tags in order; the other tags occur once.    *)
Tags == [srv : Seq(Name), acn : Name \cup {NULL},
         uniq : Uniq \cup {NULL}, cookie : Uniq \cup {NULL}]

NoTags == [srv |-> <<>>, acn |-> NULL, uniq |-> NULL, cookie |-> NULL]

Frame == [hdr : Header, tags : Tags]

Request == [cmd : {"CONNECT", "LISTEN", "OFFER", "SERVICE"},
            ac : Name, svc : Name]

ASSUME ConstantsAssumption ==
    /\ Sess \subseteq Uniq /\ NULL \notin Uniq
    /\ "" \in Name /\ NULL \notin Name
    /\ Broadcast \in Addr /\ NoMac \in Addr /\ Macs \subseteq Addr
    /\ Broadcast # NoMac /\ Broadcast \notin Macs
    /\ Modes \subseteq {"standard", "3Com-aDSL", "D-Link"}
    /\ AuxHooks \subseteq {"ethernet", "debug"}

ASSUME InputsAssumption ==
    /\ Requests \subseteq Request
    /\ Frames \subseteq Frame
    /\ \A f \in Frames : f.hdr.src # Broadcast

ASSUME BoundsAssumption ==
    /\ MaxSid \in Nat /\ MaxSid >= 2
    /\ InitialTimeout \in Nat \ {0}
    /\ OfferTimeout \in 1..TimeoutLimit
    /\ TimeoutLimit \in Nat /\ InitialTimeout * 2 <= TimeoutLimit

(* The peers' side of a run that never puts a session on id 0, which the   *)
(* code also uses to mean "no id".                                         *)
PadsIdsNonzero ==
    \A f \in Frames : f.hdr.code = "PADS" => f.hdr.sid # 0

----------------------------------------------------------------------------
(* PPPOE_DEAD is declared in the code and never used.                      *)
State == {"SNONE", "LISTENING", "SINIT", "PRIMED", "SOFFER", "SREQ",
          "NEWCONNECTED", "CONNECTED"}

Negotiating == State \ {"SNONE", "CONNECTED"}
Established == {"NEWCONNECTED", "CONNECTED"}
Waiting == {"SINIT", "SREQ", "SOFFER"}   \* for the peer's answer

(* struct sess_neg: the packet last sent, the next backoff, the names.     *)
Neg == [pkt : Frame, timeout : 0..TimeoutLimit, service : Name, acname : Name]

(* struct sess_con, with the callout of its negotiation block: callout is  *)
(* the delay last armed, 0 when it is not running.                         *)
Session == [state : State, sid : 0..MaxSid, hdr : Header \cup {NULL},
            neg : Neg \cup {NULL}, callout : 0..TimeoutLimit]

ASSUME NullAssumption == NULL \notin Header /\ NULL \notin Neg

(* malloc(..., M_ZERO) *)
ZeroSession == [state |-> "SNONE", sid |-> 0, hdr |-> NULL, neg |-> NULL,
                callout |-> 0]

VARIABLES
    node,       \* "gone", "up", or "closing": ng_rmnode_self was called
    aux,        \* the auxiliary hooks attached
    mode,       \* privp->flags; the configured ethertype follows from it
    mac,        \* privp->eh.ether_shost
    hooks,      \* the session hooks, named by the address of their sess_con
    sess,       \* the memory at each of those addresses
    listeners,  \* privp->listeners
    hash,       \* privp->sesshash, its buckets one after the other
    pppoe_sid,  \* the static counter of pppoe_getnewsession
    ticks,      \* netgraph: hooks with a queued pppoe_ticker call
    rmq,        \* netgraph: hooks with a queued ng_rmhook_self
    out         \* what the last step sent: frames, hooks fed, events

vars == <<node, aux, mode, mac, hooks, sess, listeners, hash, pppoe_sid,
          ticks, rmq, out>>

nodeVars == <<node, aux, mode, mac>>
listVars == <<listeners, hash, pppoe_sid>>
queueVars == <<ticks, rmq>>

Event == [ev : {"ACNAME", "SESSIONID", "SUCCESS", "CLOSE"}, to : Sess]
Output == [eth : Seq(Frame), up : SUBSET Sess, msg : Seq(Event)]

Silent == [eth |-> <<>>, up |-> {}, msg |-> <<>>]

(* NG_SEND_DATA to a hook that is not there drops the frame.               *)
Emit(eth, up, msg) ==
    [eth |-> IF "ethernet" \in aux THEN eth ELSE <<>>, up |-> up, msg |-> msg]

Send(eth) == Emit(eth, {}, <<>>)

Tell(s, evs) == [i \in DOMAIN evs |-> [ev |-> evs[i], to |-> s]]

----------------------------------------------------------------------------
(* privp->eh and the rest of the prototype header                          *)
ConfigEtype == IF "3Com-aDSL" \in mode THEN "3COM_DISC" ELSE "DISC"

(* Mutant: the length and sid fields of a new header are left as they were.  *)
ProtoHeader_StaleSid(code) == [etype |-> ConfigEtype, code |-> code, sid |-> pppoe_sid,
                               src |-> mac, dst |-> Broadcast]

ProtoHeader(code) == [etype |-> ConfigEtype, code |-> code, sid |-> 0,
                      src |-> mac, dst |-> Broadcast]

(* The block NGM_PPPOE_CONNECT, LISTEN and OFFER allocate and fill in.     *)
NewNeg(code, ac, svc) ==
    [pkt |-> [hdr |-> ProtoHeader(code), tags |-> NoTags],
     timeout |-> 0, service |-> svc, acname |-> ac]

(* pppoe_start: the session sends a PADI and arms its retransmission.      *)
Started(s, r) ==
    [r EXCEPT
        !.state = "SINIT",
        !.neg = [r.neg EXCEPT
                    !.pkt = [hdr |-> [r.neg.pkt.hdr EXCEPT
                                          !.etype = ConfigEtype, !.code = "PADI",
                                          !.src = mac, !.dst = Broadcast],
                             tags |-> [NoTags EXCEPT !.srv = <<r.neg.service>>,
                                                     !.uniq = s]],
                    !.timeout = InitialTimeout * 2],
        !.callout = InitialTimeout]

(* pppoe_match_svc; a blank or "*" service matches any request.            *)
MatchSvc(svc) ==
    FirstIn(listeners, LAMBDA s : sess[s].neg.service \in {"", "*", svc})

(* pppoe_broadcast_padi: each of them gets a copy.                         *)
BroadcastPadi == Members(listeners)

(* Mutant: only the latest listener is looked at.                            *)
FindSvc_Latest(svc) ==
    {s \in Sess : listeners # <<>> /\ s = Head(listeners) /\ sess[s].neg.service = svc}

(* pppoe_find_svc returns the first of these; LISTEN asks if there is one. *)
FindSvc(svc) == {s \in Members(listeners) : sess[s].neg.service = svc}

(* pppoe_findsession *)
FindSession(f) ==
    FirstIn(hash, LAMBDA s : /\ sess[s].sid = f.hdr.sid
                             /\ sess[s].hdr.dst = f.hdr.src)

(* pppoe_finduniq: the hook whose sess_con has the address in the tag      *)
FindUniq(tag) == {s \in hooks : s = tag}

(* pppoe_addsession *)
AddSession(s) == InsertHead(hash, s)

InUse(id) == \E i \in DOMAIN hash : sess[hash[i]].sid = id

(* Mutant: an id is handed out without a look at the hash.                   *)
NewSession_Unchecked(id, next) ==
    /\ id = IF pppoe_sid = MaxSid THEN 1 ELSE pppoe_sid
    /\ next = id + 1

(* pppoe_getnewsession: the counter skips ids in use and wraps from the    *)
(* reserved MaxSid to 1.  "val = pppoe_sid = 1" does not increment, so     *)
(* the id 1 is looked at twice before 2.  With every id in use the code    *)
(* loops for ever: the action that calls this is then disabled.            *)
NewSession(id, next) ==
    /\ id \in 1..(MaxSid - 1) /\ ~InUse(id)
    /\ \/ /\ id >= pppoe_sid
          /\ \A v \in pppoe_sid..(id - 1) : InUse(v)
          /\ next = id + 1
       \/ /\ \A v \in pppoe_sid..(MaxSid - 1) : InUse(v)
          /\ \A v \in 1..(id - 1) : InUse(v)
          /\ next = IF id = 1 THEN 1 ELSE id + 1

----------------------------------------------------------------------------
Init ==
    /\ node = "gone" /\ aux = {} /\ mode = {} /\ mac = NoMac
    /\ hooks = {} /\ sess = [s \in Sess |-> ZeroSession]
    /\ listeners = <<>> /\ hash = <<>> /\ pppoe_sid = 1
    /\ ticks = {} /\ rmq = {} /\ out = Silent

(* ng_pppoe_constructor; pppoe_sid survives the node.                      *)
Constructor ==
    /\ node = "gone"
    /\ node' = "up" /\ mode' = {} /\ mac' = NoMac
    /\ listeners' = <<>> /\ hash' = <<>>
    /\ out' = Silent
    /\ UNCHANGED <<aux, hooks, sess, pppoe_sid, queueVars>>

(* ng_pppoe_newhook for "ethernet" and "debug"; ng_pppoe_connect asks for  *)
(* the MAC address, whose arrival is SetEnaddr.                            *)
NewAuxHook(h) ==
    /\ node = "up" /\ h \in AuxHooks \ aux
    /\ aux' = aux \cup {h}
    /\ out' = Silent
    /\ UNCHANGED <<node, mode, mac, hooks, sess, listVars, queueVars>>

(* ng_pppoe_newhook for any other name                                     *)
NewHook(s) ==
    /\ node = "up" /\ s \in Sess \ hooks
    /\ hooks' = hooks \cup {s}
    /\ sess' = [sess EXCEPT ![s] = ZeroSession]
    /\ out' = Silent
    /\ UNCHANGED <<nodeVars, listVars, queueVars>>

----------------------------------------------------------------------------
(* Mutant: no EISCONN for a hook that is in use.                             *)
Idle_Any(s) == node = "up" /\ s \in hooks

(* ng_pppoe_rcvmsg.  CONNECT, LISTEN and OFFER need a hook nobody set up   *)
(* yet (EISCONN otherwise); LISTEN, a service without a listener (EEXIST). *)
Idle(s) == node = "up" /\ s \in hooks /\ sess[s].state = "SNONE"

Connect(s, r) ==
    /\ Idle(s) /\ r.cmd = "CONNECT"
    /\ LET new == Started(s, [sess[s] EXCEPT !.neg = NewNeg("DATA", r.ac, r.svc)])
       IN  /\ sess' = [sess EXCEPT ![s] = new]
           /\ out' = Send(<<new.neg.pkt>>)
    /\ UNCHANGED <<nodeVars, hooks, listVars, queueVars>>

Listen(s, r) ==
    /\ Idle(s) /\ r.cmd = "LISTEN" /\ FindSvc(r.svc) = {}
    /\ sess' = [sess EXCEPT ![s] = [@ EXCEPT !.state = "LISTENING",
                                             !.neg = NewNeg("PADT", "", r.svc)]]
    /\ listeners' = InsertHead(listeners, s)
    /\ out' = Silent
    /\ UNCHANGED <<nodeVars, hooks, hash, pppoe_sid, queueVars>>

(* Mutant: the timeout of the offer starts with the request, not the PADO.   *)
Offer_Armed(s, r) ==
    /\ Idle(s) /\ r.cmd = "OFFER"
    /\ sess' = [sess EXCEPT ![s] = [@ EXCEPT !.state = "PRIMED",
                                             !.neg = NewNeg("PADO", r.ac, ""),
                                             !.callout = OfferTimeout]]
    /\ out' = Silent
    /\ UNCHANGED <<nodeVars, hooks, listVars, queueVars>>

Offer(s, r) ==
    /\ Idle(s) /\ r.cmd = "OFFER"
    /\ sess' = [sess EXCEPT ![s] = [@ EXCEPT !.state = "PRIMED",
                                             !.neg = NewNeg("PADO", r.ac, "")]]
    /\ out' = Silent
    /\ UNCHANGED <<nodeVars, hooks, listVars, queueVars>>

Service(s, r) ==
    /\ node = "up" /\ s \in hooks /\ sess[s].state = "PRIMED"
    /\ r.cmd = "SERVICE"
    /\ LET neg == [sess[s].neg EXCEPT !.service = r.svc]
       IN  sess' = [sess EXCEPT ![s] = [@ EXCEPT !.neg = neg]]
    /\ out' = Silent
    /\ UNCHANGED <<nodeVars, hooks, listVars, queueVars>>

SetMode(m) ==
    /\ node = "up" /\ m \in Modes
    /\ mode' = IF m = "standard" THEN {} ELSE mode \cup {m}
    /\ out' = Silent
    /\ UNCHANGED <<node, aux, mac, hooks, sess, listVars, queueVars>>

(* NGM_PPPOE_SETENADDR, or the answer to NGM_ETHER_GET_ENADDR              *)
SetEnaddr(a) ==
    /\ node = "up" /\ a \in Macs
    /\ mac' = a
    /\ out' = Silent
    /\ UNCHANGED <<node, aux, mode, hooks, sess, listVars, queueVars>>

----------------------------------------------------------------------------
(* ng_pppoe_rcvdata on an established session: the stored header goes in   *)
(* front of the PPP frame.                                                 *)
RcvHookData(s) ==
    /\ node = "up" /\ s \in hooks /\ sess[s].state \in Established
    /\ out' = Send(<<[hdr |-> sess[s].hdr, tags |-> NoTags]>>)
    /\ UNCHANGED <<nodeVars, hooks, sess, listVars, queueVars>>

(* ng_pppoe_rcvdata on a PRIMED hook: the daemon hands back the PADI it    *)
(* wants answered.  The frame's ethertype is taken over before its code    *)
(* is checked.                                                             *)
FirstSrv(t) == IF t.srv = <<>> THEN <<>> ELSE <<Head(t.srv)>>

(* Mutant: the PADO returns the client's own cookie.                         *)
PadoTags_OldCookie(s, neg, t) ==
    [srv |-> FirstSrv(t), acn |-> neg.acname, uniq |-> t.uniq, cookie |-> t.cookie]

PadoTags(s, neg, t) ==
    [srv |-> IF (t.srv = <<>> \/ Head(t.srv) = "") /\ neg.service # ""
             THEN FirstSrv(t) \o <<neg.service>> ELSE FirstSrv(t),
     acn |-> neg.acname, uniq |-> t.uniq, cookie |-> s]

RcvHookPadi(s, f) ==
    /\ node = "up" /\ s \in hooks /\ sess[s].state = "PRIMED"
    /\ LET neg == sess[s].neg
           hdr == [neg.pkt.hdr EXCEPT !.etype = f.hdr.etype]
           pkt == [hdr |-> hdr, tags |-> neg.pkt.tags]
           pado == [hdr |-> [hdr EXCEPT !.code = "PADO", !.dst = f.hdr.src],
                    tags |-> PadoTags(s, neg, f.tags)]
       IN  \/ /\ f.hdr.code # "PADI"
              /\ sess' = [sess EXCEPT ![s] = [@ EXCEPT !.neg = [neg EXCEPT !.pkt = pkt]]]
              /\ out' = Silent
           \/ /\ f.hdr.code = "PADI"
              /\ sess' = [sess EXCEPT ![s] = [@ EXCEPT
                    !.state = "SOFFER",
                    !.neg = [neg EXCEPT !.pkt = pado, !.timeout = 0],
                    !.callout = OfferTimeout]]
              /\ out' = Send(<<pado>>)
    /\ UNCHANGED <<nodeVars, hooks, listVars, queueVars>>

----------------------------------------------------------------------------
(* ng_pppoe_rcvdata_ether, one action per code.  A discovery frame finds   *)
(* its session by the address of the sess_con, sent out as Host-Uniq or    *)
(* AC-Cookie and returned by the peer (pppoe_finduniq).                    *)
Discovery(f, code) ==
    /\ node = "up" /\ "ethernet" \in aux
    /\ f.hdr.etype \in DiscEtype /\ f.hdr.code = code

RcvPadi(f) ==
    /\ Discovery(f, "PADI") /\ f.tags.srv # <<>>
    /\ LET svc == Head(f.tags.srv)
           match == MatchSvc(svc)
       IN  out' = Emit(<<>>, IF match = {} /\ "D-Link" \in mode /\ svc = ""
                             THEN BroadcastPadi ELSE match, <<>>)
    /\ UNCHANGED <<nodeVars, hooks, sess, listVars, queueVars>>

RcvPado(s, f) ==
    /\ Discovery(f, "PADO") /\ s \in FindUniq(f.tags.uniq)
    /\ sess[s].state = "SINIT"
    /\ sess[s].neg.acname \in {"", f.tags.acn}
    /\ LET neg == sess[s].neg
           padr == [hdr |-> [neg.pkt.hdr EXCEPT !.code = "PADR", !.dst = f.hdr.src],
                    tags |-> [f.tags EXCEPT !.srv = <<neg.service>>]]
       IN  /\ sess' = [sess EXCEPT ![s] = [@ EXCEPT
                 !.state = "SREQ",
                 !.neg = [neg EXCEPT !.pkt = padr, !.timeout = InitialTimeout * 2],
                 !.callout = InitialTimeout]]
           /\ out' = Emit(<<padr>>, {}, IF f.tags.acn = NULL THEN <<>>
                                       ELSE Tell(s, <<"ACNAME">>))
    /\ UNCHANGED <<nodeVars, hooks, listVars, queueVars>>

(* The session as PADR leaves it: a PADS with the given id is on its way,  *)
(* and the header for session data is derived from it.                     *)
Confirmed(s, f, id) ==
    LET neg == sess[s].neg
        hdr == [neg.pkt.hdr EXCEPT !.code = "PADS", !.sid = id]
    IN  [sess[s] EXCEPT
            !.state = "NEWCONNECTED",
            !.neg = [neg EXCEPT
                        !.pkt = [hdr |-> hdr,
                                 tags |-> [f.tags EXCEPT
                                              !.srv = FirstSrv(f.tags),
                                              !.acn = neg.acname]],
                        !.timeout = 0],
            !.callout = 0,
            !.hdr = [hdr EXCEPT !.code = "DATA", !.etype = SessTypeOf(hdr.etype)]]

(* A PADR in NEWCONNECTED is a retry of the client: the PADS goes out      *)
(* again, made from the new PADR, with the Session_ID kept.                *)
RcvPadr(s, f) ==
    /\ Discovery(f, "PADR") /\ s \in FindUniq(f.tags.cookie)
    /\ sess[s].state \in {"SOFFER", "NEWCONNECTED"}
    /\ IF sess[s].sid = 0
       THEN /\ \E id, next \in 1..MaxSid :
                  /\ NewSession(id, next)
                  /\ sess' = [sess EXCEPT ![s] = [Confirmed(s, f, id) EXCEPT !.sid = id]]
                  /\ pppoe_sid' = next
            /\ hash' = InsertHead(hash, s)
       ELSE /\ sess' = [sess EXCEPT ![s] = Confirmed(s, f, sess[s].neg.pkt.hdr.sid)]
            /\ UNCHANGED <<hash, pppoe_sid>>
    /\ out' = Emit(<<sess'[s].neg.pkt>>, {}, Tell(s, <<"SESSIONID", "SUCCESS">>))
    /\ UNCHANGED <<nodeVars, hooks, listeners, queueVars>>

(* Mutant: the negotiation block is kept (and leaks).                        *)
RcvPads_KeepsNeg(s, f) ==
    /\ Discovery(f, "PADS") /\ s \in FindUniq(f.tags.uniq)
    /\ sess[s].state = "SREQ"
    /\ LET hdr == sess[s].neg.pkt.hdr
       IN  sess' = [sess EXCEPT ![s] =
               [@ EXCEPT !.state = "CONNECTED", !.sid = f.hdr.sid, !.callout = 0,
                    !.hdr = [hdr EXCEPT !.etype = SessTypeOf(hdr.etype), !.code = "DATA",
                                        !.sid = f.hdr.sid]]]
    /\ hash' = AddSession(s)
    /\ out' = Silent
    /\ UNCHANGED <<nodeVars, hooks, listeners, pppoe_sid, queueVars>>

(* Mutant: the header for session data does not get the Session_ID.         *)
RcvPads_NoSid(s, f) ==
    /\ Discovery(f, "PADS") /\ s \in FindUniq(f.tags.uniq)
    /\ sess[s].state = "SREQ"
    /\ LET hdr == sess[s].neg.pkt.hdr
       IN  sess' = [sess EXCEPT ![s] =
               [state |-> "CONNECTED", sid |-> f.hdr.sid, neg |-> NULL, callout |-> 0,
                hdr |-> [hdr EXCEPT !.etype = SessTypeOf(hdr.etype), !.code = "DATA"]]]
    /\ hash' = AddSession(s)
    /\ out' = Silent
    /\ UNCHANGED <<nodeVars, hooks, listeners, pppoe_sid, queueVars>>

RcvPads(s, f) ==
    /\ Discovery(f, "PADS") /\ s \in FindUniq(f.tags.uniq)
    /\ sess[s].state = "SREQ"
    /\ LET hdr == sess[s].neg.pkt.hdr
           etype == IF "3Com-aDSL" \in mode THEN "3COM_SESS" ELSE "SESS"
       IN  sess' = [sess EXCEPT ![s] =
               [state |-> "CONNECTED", sid |-> f.hdr.sid, neg |-> NULL, callout |-> 0,
                hdr |-> [hdr EXCEPT !.etype = etype, !.code = "DATA",
                                    !.sid = f.hdr.sid]]]
    /\ hash' = AddSession(s)
    /\ out' = Emit(<<>>, {}, Tell(s, <<"SESSIONID", "SUCCESS">>))
    /\ UNCHANGED <<nodeVars, hooks, listeners, pppoe_sid, queueVars>>

(* The hook is removed when the ng_rmhook_self item runs (RmHookSelf).     *)
RcvPadt(s, f) ==
    /\ Discovery(f, "PADT") /\ s \in FindSession(f)
    /\ rmq' = rmq \cup {s}
    /\ out' = Silent
    /\ UNCHANGED <<nodeVars, hooks, sess, listVars, ticks>>

(* Session data: the first frame ends the negotiation of a server session. *)
RcvSessionData(s, f) ==
    /\ node = "up" /\ "ethernet" \in aux /\ f.hdr.etype \in SessEtype
    /\ s \in FindSession(f) /\ sess[s].state \in Established
    /\ sess' = IF sess[s].state = "CONNECTED" THEN sess
               ELSE [sess EXCEPT ![s] = [@ EXCEPT !.state = "CONNECTED",
                                                  !.neg = NULL, !.callout = 0]]
    /\ out' = Emit(<<>>, {s}, <<>>)
    /\ UNCHANGED <<nodeVars, hooks, listVars, queueVars>>

(* ng_pppoe_rcvdata_debug                                                  *)
RcvDebugData(f) ==
    /\ node = "up" /\ "debug" \in aux
    /\ out' = Send(<<f>>)
    /\ UNCHANGED <<nodeVars, hooks, sess, listVars, queueVars>>

----------------------------------------------------------------------------
(* netgraph: a callout runs out and queues pppoe_ticker as an item of the  *)
(* node.  ng_uncallout stops the callout and leaves a queued item alone.   *)
(* Bound: one queued item per hook, as delays are whole seconds.           *)
Expire(s) ==
    /\ node = "up" /\ sess[s].callout # 0 /\ s \notin ticks
    /\ sess' = [sess EXCEPT ![s] = [@ EXCEPT !.callout = 0]]
    /\ ticks' = ticks \cup {s}
    /\ out' = Silent
    /\ UNCHANGED <<nodeVars, hooks, listVars, rmq>>

(* Mutant: the callout is not armed again.                                   *)
Resent_Once(s) == [sess[s] EXCEPT !.neg = [sess[s].neg EXCEPT !.timeout = TimeoutLimit]]

(* pppoe_ticker: resend with a longer delay; past the limit a request      *)
(* starts over, and a PADI goes on at the limit.                           *)
Resent(s) ==
    LET r == sess[s]
        double == r.neg.timeout * 2
        Again(timeout) == [r EXCEPT !.neg = [r.neg EXCEPT !.timeout = timeout],
                                    !.callout = r.neg.timeout]
    IN  IF double <= TimeoutLimit THEN Again(double)
        ELSE IF r.state = "SREQ" THEN Started(s, r)
        ELSE Again(TimeoutLimit)

(* Mutant: nothing is done when an offer times out.                          *)
Ticker_KeepsOffer(s) ==
    /\ node = "up" /\ s \in ticks
    /\ ticks' = ticks \ {s}
    /\ IF sess[s].state \in {"SINIT", "SREQ"}
       THEN /\ sess' = [sess EXCEPT ![s] = Resent(s)]
            /\ out' = Send(<<sess[s].neg.pkt>>)
       ELSE out' = Silent /\ sess' = sess
    /\ UNCHANGED <<nodeVars, hooks, listVars, rmq>>

Ticker(s) ==
    /\ node = "up" /\ s \in ticks
    /\ ticks' = ticks \ {s}
    /\ \/ /\ sess[s].state \in {"SINIT", "SREQ"}
          /\ sess' = [sess EXCEPT ![s] = Resent(s)]
          /\ LET old == sess[s].neg.pkt
                 new == Resent(s).neg.pkt
             IN  out' = Send(IF Resent(s).state = sess[s].state
                             THEN <<old>> ELSE <<old, new>>)
          /\ rmq' = rmq
       \/ /\ sess[s].state \in {"PRIMED", "SOFFER"}
          /\ rmq' = rmq \cup {s}
          /\ out' = Silent /\ sess' = sess
       \/ /\ sess[s].state \notin {"SINIT", "SREQ", "PRIMED", "SOFFER"}
          /\ out' = Silent /\ UNCHANGED <<sess, rmq>>
    /\ UNCHANGED <<nodeVars, hooks, listVars>>

----------------------------------------------------------------------------
(* ng_pppoe_disconnect.  Removing the Ethernet hook, or the last one,      *)
(* dooms the node (ng_rmnode_self): netgraph then drops every item of it.  *)
Doomed(last) == IF last THEN "closing" ELSE node

Disconnect(s) ==
    /\ hooks' = hooks \ {s}
    /\ listeners' = IF sess[s].state = "LISTENING" THEN Without(listeners, s)
                    ELSE listeners
    /\ hash' = IF sess[s].state # "LISTENING" /\ sess[s].sid # 0
               THEN Without(hash, s) ELSE hash
    /\ sess' = [sess EXCEPT ![s] = ZeroSession]   \* freed
    /\ ticks' = ticks \ {s} /\ rmq' = rmq \ {s}   \* items of the hook
    /\ node' = Doomed(hooks' = {} /\ aux = {})
    /\ out' = Emit(IF sess[s].state \notin Established THEN <<>>
                   ELSE <<[hdr |-> [sess[s].hdr EXCEPT !.code = "PADT",
                                       !.etype = DiscTypeOf(sess[s].hdr.etype)],
                           tags |-> NoTags]>>,
                   {},
                   IF sess[s].state = "SNONE" THEN <<>> ELSE Tell(s, <<"CLOSE">>))
    /\ UNCHANGED <<aux, mode, mac, pppoe_sid>>

DisconnectAux(h) ==
    /\ aux' = aux \ {h}
    /\ node' = Doomed(h = "ethernet" \/ (hooks = {} /\ aux' = {}))
    /\ out' = Silent
    /\ UNCHANGED <<mode, mac, hooks, sess, listVars, queueVars>>

(* The three ways a session hook goes: its own ng_rmhook_self, the daemon  *)
(* removing it, and ng_rmnode destroying every hook.                       *)
RmHookSelf(s) == node = "up" /\ s \in rmq /\ Disconnect(s)
RmHookPeer(s) == node = "up" /\ s \in hooks /\ Disconnect(s)
DestroyHook(s) == node = "closing" /\ s \in hooks /\ Disconnect(s)

RmAuxHook(h) == node = "up" /\ h \in aux /\ DisconnectAux(h)
DestroyAuxHook(h) == node = "closing" /\ h \in aux /\ DisconnectAux(h)

(* NGM_SHUTDOWN from the daemon                                            *)
RmNode ==
    /\ node = "up" /\ node' = "closing"
    /\ out' = Silent
    /\ UNCHANGED <<aux, mode, mac, hooks, sess, listVars, queueVars>>

(* ng_pppoe_shutdown, once ng_rmnode has destroyed every hook              *)
Shutdown ==
    /\ node = "closing" /\ hooks = {} /\ aux = {}
    /\ node' = "gone"
    /\ out' = Silent
    /\ UNCHANGED <<aux, mode, mac, hooks, sess, listVars, queueVars>>

----------------------------------------------------------------------------
NodeNext ==
    \/ Constructor \/ RmNode \/ Shutdown
    \/ \E h \in AuxHooks : NewAuxHook(h) \/ RmAuxHook(h) \/ DestroyAuxHook(h)
    \/ \E m \in Modes : SetMode(m)
    \/ \E a \in Macs : SetEnaddr(a)
    \/ \E f \in Frames : RcvPadi(f) \/ RcvDebugData(f)

SessNext(s) ==
    \/ NewHook(s) \/ RcvHookData(s)
    \/ \E r \in Requests : Connect(s, r) \/ Listen(s, r) \/ Offer(s, r) \/ Service(s, r)
    \/ \E f \in Frames : \/ RcvHookPadi(s, f) \/ RcvPado(s, f) \/ RcvPadr(s, f)
                         \/ RcvPads(s, f) \/ RcvPadt(s, f) \/ RcvSessionData(s, f)
    \/ Expire(s) \/ Ticker(s)
    \/ RmHookSelf(s) \/ RmHookPeer(s) \/ DestroyHook(s)

Next == NodeNext \/ \E s \in Sess : SessNext(s)

(* Callouts run out, netgraph works its queue off, and ng_rmnode destroys  *)
(* the session hooks.  Nothing is assumed of daemons and peers.            *)
Fairness ==
    \A s \in Sess : /\ WF_vars(Expire(s)) /\ WF_vars(Ticker(s))
                    /\ WF_vars(RmHookSelf(s)) /\ WF_vars(DestroyHook(s))

Spec == Init /\ [][Next]_vars
FairSpec == Spec /\ Fairness

----------------------------------------------------------------------------
(* Every variable holds a value of its kind.                               *)
TypeOK ==
    /\ node \in {"gone", "up", "closing"}
    /\ aux \subseteq AuxHooks /\ mode \subseteq {"3Com-aDSL", "D-Link"}
    /\ mac \in Addr
    /\ hooks \subseteq Sess /\ sess \in [Sess -> Session]
    /\ listeners \in Seq(Sess) /\ hash \in Seq(Sess)
    /\ pppoe_sid \in 1..MaxSid
    /\ ticks \subseteq Sess /\ rmq \subseteq Sess
    /\ out \in Output

InState(S) == {s \in hooks : sess[s].state \in S}

(* A session has its negotiation block exactly while it negotiates (lines  *)
(* 207-211), and a callout, which lives in that block, only if it has it.  *)
NegotiationBlock ==
    \A s \in Sess : /\ sess[s].neg # NULL <=> s \in InState(Negotiating)
                    /\ sess[s].callout # 0 => sess[s].neg # NULL

(* The one link field of sess_con is on listeners exactly for LISTENING,   *)
(* and in the hash exactly for sessions with an id, which are the          *)
(* established ones: no list ever holds a hook that is gone (line 1708:    *)
(* "Clean up all dangling links").                                         *)
Linked ==
    /\ NoDuplicates(listeners) /\ NoDuplicates(hash)
    /\ Members(listeners) = InState({"LISTENING"})
    /\ Members(hash) = InState(Established)
    /\ \A s \in hooks : sess[s].sid # 0 <=> sess[s].state \in Established

(* What Linked says of the lists alone: what they hold is still there.     *)
NoDanglingLinks == Members(listeners) \cup Members(hash) \subseteq hooks

(* A session that waits for its peer has something that will wake it: a    *)
(* running callout, a queued pppoe_ticker or a queued removal.  No other   *)
(* session has a running callout.                                          *)
TimerSafe ==
    /\ \A s \in InState(Waiting) : sess[s].callout # 0 \/ s \in ticks \/ s \in rmq
    /\ \A s \in Sess : sess[s].callout # 0 => s \in InState(Waiting)
    /\ ticks \subseteq hooks /\ rmq \subseteq hooks

PacketOK(s, r) ==
    LET p == r.neg.pkt IN
    /\ r.state = "SINIT" => p.hdr.code = "PADI" /\ p.hdr.dst = Broadcast /\ p.tags.uniq = s
    /\ r.state = "SREQ" => p.hdr.code = "PADR" /\ p.hdr.dst # Broadcast /\ p.tags.uniq = s
    /\ r.state = "SOFFER" => p.hdr.code = "PADO" /\ p.hdr.dst # Broadcast /\ p.tags.cookie = s
    /\ r.state \in {"PRIMED"} \cup Waiting => p.hdr.sid = 0
    /\ r.state = "NEWCONNECTED" =>
           /\ p.hdr.code = "PADS" /\ p.hdr.dst # Broadcast /\ p.hdr.sid = r.sid
           /\ r.hdr = [p.hdr EXCEPT !.code = "DATA", !.etype = SessTypeOf(p.hdr.etype)]

HeaderOK(r) ==
    r.state \in Established =>
        /\ r.hdr \in Header /\ r.hdr.code = "DATA" /\ r.hdr.etype \in SessEtype
        /\ r.hdr.sid = r.sid /\ r.hdr.dst # Broadcast

(* The packet kept for resending is the one of the state: its code, its    *)
(* destination, the tag by which the answer finds this session again, and  *)
(* no Session_ID before there is one.                                      *)
PacketFollowsState == \A s \in hooks : PacketOK(s, sess[s])

(* The header put in front of session data is a session header for the     *)
(* id of the session and for one peer.                                     *)
HeaderFollowsSession == \A s \in hooks : HeaderOK(sess[s])

(* Ids the node hands out are never shared (line 513: "Check it isn't      *)
(* already in use"), whatever the counter did when it wrapped.             *)
IdsDistinct ==
    \A s, t \in InState(Established) : sess[s].sid = sess[t].sid => s = t

(* No service has two listeners (line 776: "Ensure we aren't already       *)
(* listening for this service").                                           *)
OneListenerPerService ==
    \A s, t \in InState({"LISTENING"}) :
        sess[s].neg.service = sess[t].neg.service => s = t

(* The inductive invariant behind those above: what holds of each          *)
(* sess_con, the lists against the states, the timers against the queues.  *)
SessionOK(s, r) ==
    /\ r \in Session
    /\ r.neg # NULL <=> r.state \in Negotiating
    /\ r.callout # 0 => r.state \in Waiting
    /\ r.state \in {"SINIT", "SREQ"} => r.neg.timeout # 0
    /\ r.sid # 0 <=> r.state \in Established
    /\ PacketOK(s, r) /\ HeaderOK(r)

IndInv ==
    /\ TypeOK
    /\ node = "gone" => hooks = {}
    /\ \A s \in Sess : SessionOK(s, sess[s])
    /\ \A s \in Sess \ hooks : sess[s].state = "SNONE"
    /\ NoDuplicates(listeners) /\ NoDuplicates(hash)
    /\ Members(listeners) = {s \in Sess : sess[s].state = "LISTENING"}
    /\ Members(hash) = {s \in Sess : sess[s].state \in Established}
    /\ ticks \subseteq hooks /\ rmq \subseteq hooks
    /\ \A s \in Sess : sess[s].state \in Waiting =>
           sess[s].callout # 0 \/ s \in ticks \/ s \in rmq

(* An established session keeps its id, its peer and its ethertype until   *)
(* its hook is removed, whatever retries, late timeouts or mode changes    *)
(* arrive, and never negotiates again.                                     *)
EstablishedStable ==
    [][\A s \in InState(Established) : s \in hooks' =>
          /\ sess'[s].sid = sess[s].sid /\ sess'[s].hdr = sess[s].hdr
          /\ sess'[s].state \in {sess[s].state, "CONNECTED"}]_vars

(* A session takes the part of client, server or listener once: every step *)
(* of a hook follows the state machine of the comments at lines 193-203.   *)
Successors == [SNONE |-> {"LISTENING", "SINIT", "PRIMED"}, LISTENING |-> {},
               SINIT |-> {"SREQ"}, SREQ |-> {"SINIT", "CONNECTED"},
               PRIMED |-> {"SOFFER"}, SOFFER |-> {"NEWCONNECTED"},
               NEWCONNECTED |-> {"CONNECTED"}, CONNECTED |-> {}]

RoleKept ==
    [][\A s \in hooks \cap hooks' :
          sess'[s].state \in {sess[s].state} \cup Successors[sess[s].state]]_vars

(* A frame with a Session_ID is sent only for a session that has that id   *)
(* and that peer, before or after the step.                                *)
SentForSession ==
    [][\A i \in DOMAIN out'.eth : LET h == out'.eth[i].hdr IN h.sid # 0 =>
          \E s \in InState(Established) \cup InState(Established)' :
             \/ sess[s].sid = h.sid /\ sess[s].hdr.dst = h.dst
             \/ sess'[s].sid = h.sid /\ sess'[s].hdr.dst = h.dst]_vars

(* An offer nobody takes up ends, the session is requested or removed, and *)
(* so does a request nobody answers: the client starts over with a PADI.   *)
NegotiationEnds ==
    \A s \in Sess, st \in {"SOFFER", "SREQ"} : s \in InState({st}) ~> s \notin InState({st})

(* A client that is left in discovery sends its PADI again and again.      *)
KeepsTrying ==
    \A s \in Sess : <>[](s \in InState({"SINIT"}) /\ "ethernet" \in aux) =>
        []<>(\E i \in DOMAIN out.eth : out.eth[i].hdr.code = "PADI"
                                       /\ out.eth[i].tags.uniq = s)

----------------------------------------------------------------------------
(* What the daemons see of a session: its part, its link, and the news.    *)
Part == [SNONE |-> "idle", LISTENING |-> "listener", PRIMED |-> "server",
         SOFFER |-> "server", SINIT |-> "client", SREQ |-> "client",
         NEWCONNECTED |-> "fresh", CONNECTED |-> "up"]

PartOf(s) == IF s \in hooks THEN Part[sess[s].state] ELSE "none"

LinkOf(s) ==
    IF s \in InState(Established)
    THEN {[sid |-> sess[s].sid, peer |-> sess[s].hdr.dst]} ELSE {}

Daemon == INSTANCE PppoeSession WITH
    Ids <- 1..MaxSid, Peer <- Addr \ {Broadcast},
    part <- [s \in Sess |-> PartOf(s)], link <- [s \in Sess |-> LinkOf(s)],
    told <- Members(out.msg)

(* Seen by its daemons the node keeps the promises of PppoeSession: each    *)
(* hook takes one part, gets one link it never changes, a server's link has *)
(* an id of its own, and the daemon is told of each link, again only while  *)
(* nobody used it, and of the end.                                          *)
KeepsPromises == Daemon!Spec
============================================================================
