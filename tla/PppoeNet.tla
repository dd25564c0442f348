------------------------------ MODULE PppoeNet ------------------------------
(***************************************************************************)
(* Two PPPoE nodes on one Ethernet: a host that dials and a concentrator   *)
(* that serves.  Both are NgPppoe; what either sends stays on the net and  *)
(* may arrive later, never, or many times.  The daemons are modelled from  *)
(* how pppoed and ppp use the node: the server's daemon hands a PADI its   *)
(* listener got to a primed hook, once.                                    *)
(***************************************************************************)
EXTENDS Integers, Sequences, FiniteSets, TLC, Lists

CONSTANTS
    Dialers,          \* hooks of the host
    Servers,          \* hooks of the concentrator that serve
    listener,         \* its hook that listens
    Reuse,            \* may malloc return the address of a freed sess_con
    MaxSid

ASSUME NetAssumption ==
    /\ Reuse \in BOOLEAN /\ listener \notin Servers
    /\ MaxSid \in Nat /\ MaxSid >= 2

VARIABLES
    chooks, csess, chash, crmq, cticks, cout,   \* the host's node
    hooks, sess, listeners, hash, pppoe_sid, rmq, ticks, out,   \* the concentrator's
    net,     \* frames sent so far
    asked,   \* PADI frames the daemon got and did not answer yet
    fresh,   \* addresses that no sess_con had yet
    said     \* history: which dialer sent which frame

hostVars == <<chooks, csess, chash, crmq, cticks, cout, said>>
acVars == <<hooks, sess, listeners, hash, pppoe_sid, rmq, ticks, out>>
vars == <<hostVars, acVars, net, asked, fresh>>

Uniq == Dialers \cup Servers \cup {listener}
Name == {"", "isp", "ac"}
Addr == {"host", "ac", "bcast", "nomac"}

(* What the daemons ask for and what the nodes may ever have to send.      *)
Request(cmd, ac, svc) == [cmd |-> cmd, ac |-> ac, svc |-> svc]
Requests == {Request("CONNECT", "", "isp"), Request("OFFER", "ac", "")}

Frame == [hdr : [etype : {"DISC", "3COM_DISC", "SESS", "3COM_SESS"},
                 code : {"DATA", "PADI", "PADO", "PADR", "PADS", "PADT"},
                 sid : 0..MaxSid, src : Addr, dst : Addr],
          tags : [srv : Seq(Name), acn : Name \cup {NULL},
                  uniq : Uniq \cup {NULL}, cookie : Uniq \cup {NULL}]]
Frames == {f \in Frame : /\ f.hdr.src \in {"host", "ac"}
                         /\ f.hdr.code = "PADS" => f.hdr.sid # 0}

(* Both nodes, with what is proved of them, for PppoeNetProofs.            *)
Host == INSTANCE NgPppoeProofs WITH
    Sess <- Dialers, Broadcast <- "bcast", NoMac <- "nomac", Macs <- {}, Modes <- {},
    AuxHooks <- {"ethernet"},
    InitialTimeout <- 1, OfferTimeout <- 1, TimeoutLimit <- 2,
    node <- "up", aux <- {"ethernet"}, mode <- {}, mac <- "host",
    hooks <- chooks, sess <- csess, listeners <- <<>>, hash <- chash, pppoe_sid <- 1,
    ticks <- cticks, rmq <- crmq, out <- cout

Ac == INSTANCE NgPppoeProofs WITH
    Sess <- Servers \cup {listener}, Broadcast <- "bcast", NoMac <- "nomac",
    Macs <- {}, Modes <- {}, AuxHooks <- {"ethernet"},
    InitialTimeout <- 1, OfferTimeout <- 1, TimeoutLimit <- 2,
    node <- "up", aux <- {"ethernet"}, mode <- {}, mac <- "ac"

ASSUME NodesAssumption ==
    /\ NULL \notin Uniq /\ NULL \notin Name
    /\ NULL \notin Host!Header /\ NULL \notin Host!Neg
    /\ NULL \notin Ac!Header /\ NULL \notin Ac!Neg

(* Both nodes are up on the Ethernet and the concentrator listens.         *)
Init ==
    /\ chooks = {} /\ csess = [s \in Dialers |-> Host!ZeroSession]
    /\ chash = <<>> /\ crmq = {} /\ cticks = {} /\ cout = Host!Silent
    /\ hooks = {listener}
    /\ sess = [s \in Servers \cup {listener} |->
                  IF s \in Servers THEN Ac!ZeroSession
                  ELSE [Ac!ZeroSession EXCEPT
                           !.state = "LISTENING",
                           !.neg = Ac!NewNeg("PADT", "", "")]]
    /\ listeners = <<listener>> /\ hash = <<>> /\ pppoe_sid = 1
    /\ rmq = {} /\ ticks = {} /\ out = Ac!Silent
    /\ net = {} /\ asked = {} /\ fresh = Dialers \cup Servers /\ said = {}

(* What arrives at a node: frames for its address, and broadcasts.         *)
Arriving(mac) == {f \in net : f.hdr.dst \in {mac, "bcast"} /\ f.hdr.src # mac}

Sent(o) == net' = net \cup Members(o.eth)

(* An address is used again only if Reuse.                                 *)
Allocated(s) == (Reuse \/ s \in fresh) /\ fresh' = fresh \ {s}

(* Mutant: a PADS is taken by any hook that waits for one.                 *)
HostHears_AnyPads(s, f) ==
    \/ Host!RcvPado(s, f) \/ Host!RcvPadt(s, f)
    \/ Host!RcvPads(s, [f EXCEPT !.tags.uniq = s])

(* ng_pppoe_rcvdata_ether of a node that only dials                        *)
HostHears(s, f) ==
    Host!RcvPado(s, f) \/ Host!RcvPads(s, f) \/ Host!RcvPadt(s, f)

HostStep(s) ==
    /\ \/ \E f \in Arriving("host") : HostHears(s, f)
       \/ Host!Connect(s, Request("CONNECT", "", "isp"))
       \/ Host!RcvHookData(s) \/ Host!Expire(s) \/ Host!Ticker(s)
       \/ Host!RmHookSelf(s) \/ Host!RmHookPeer(s)
    /\ said' = said \cup {<<s, f>> : f \in Members(cout'.eth)}
    /\ Sent(cout') /\ UNCHANGED <<acVars, asked, fresh>>

HostNewHook(s) ==
    /\ Allocated(s) /\ Host!NewHook(s)
    /\ UNCHANGED <<acVars, net, asked, said>>

AcListens(f) ==
    /\ Ac!RcvPadi(f) /\ f \in Arriving("ac")
    /\ asked' = IF listener \in out'.up THEN asked \cup {f} ELSE asked
    /\ Sent(out') /\ UNCHANGED <<hostVars, fresh>>

(* The daemon answers a PADI from a hook it primed.                        *)
AcOffers(s, f) ==
    /\ f \in asked /\ Ac!RcvHookPadi(s, f)
    /\ asked' = asked \ {f}
    /\ Sent(out') /\ UNCHANGED <<hostVars, fresh>>

(* Mutant: a PADR is taken by any hook that made an offer.                 *)
AcPadr_AnyCookie(s, f) ==
    /\ f \in Arriving("ac") /\ Ac!RcvPadr(s, [f EXCEPT !.tags.cookie = s])
    /\ Sent(out') /\ UNCHANGED <<hostVars, asked, fresh>>

AcPadr(s, f) ==
    /\ f \in Arriving("ac") /\ Ac!RcvPadr(s, f)
    /\ Sent(out') /\ UNCHANGED <<hostVars, asked, fresh>>

AcData(s, f) ==
    /\ f \in Arriving("ac") /\ Ac!RcvSessionData(s, f)
    /\ Sent(out') /\ UNCHANGED <<hostVars, asked, fresh>>

AcStep(s) ==
    /\ \/ \E f \in Arriving("ac") : Ac!RcvPadt(s, f)
       \/ Ac!Offer(s, Request("OFFER", "ac", ""))
       \/ Ac!Expire(s) \/ Ac!Ticker(s)
       \/ Ac!RmHookSelf(s) \/ Ac!RmHookPeer(s)
    /\ Sent(out') /\ UNCHANGED <<hostVars, asked, fresh>>

AcNewHook(s) ==
    /\ Allocated(s) /\ Ac!NewHook(s)
    /\ UNCHANGED <<hostVars, net, asked>>

Next ==
    \/ \E s \in Dialers : HostNewHook(s) \/ HostStep(s)
    \/ \E f \in net : AcListens(f)
    \/ \E s \in Servers :
        \/ AcNewHook(s) \/ AcStep(s)
        \/ \E f \in net : AcOffers(s, f) \/ AcPadr(s, f) \/ AcData(s, f)

Spec == Init /\ [][Next]_vars

----------------------------------------------------------------------------
(* A PADR is taken only by the hook whose PADO it answers: it returns the  *)
(* Host-Uniq tag of the PADI that hook offered to (lines 1482-1483: "Use   *)
(* the ac_cookie tag to find the hook this is in response to").            *)
AnswersOwnOffer ==
    [][\A s \in Servers, f \in net : AcPadr(s, f) /\ sess[s].state = "SOFFER" =>
          f.tags.uniq = sess[s].neg.pkt.tags.uniq]_vars

(* Two dialled sessions of the host are never on the same link.            *)
OneDialerPerLink ==
    \A s, t \in Host!InState({"CONNECTED"}) : csess[s].sid = csess[t].sid => s = t

(* Session v of the concentrator gave this id to dialer s: it confirmed it *)
(* to s, and never that id to another dialer, nor another id, nor did      *)
(* another session confirm that id.                                        *)
MadeFor(v, s, id) ==
    LET pads == {f \in net : /\ f.hdr.code = "PADS"
                             /\ f.tags.cookie = v \/ f.hdr.sid = id}
    IN  /\ pads # {}
        /\ \A f \in pads : f.tags.cookie = v /\ f.tags.uniq = s /\ f.hdr.sid = id

(* A link of the host leads to a session of the concentrator that was made *)
(* for this dialer and for no other, and no session that has the id now is *)
(* another: whatever PADS came late, twice or for somebody else (1569).    *)
LinksAgree ==
    \A s \in Host!InState({"CONNECTED"}) :
        \E v \in Servers :
            /\ MadeFor(v, s, csess[s].sid)
            /\ \A w \in Ac!InState(Ac!Established) : sess[w].sid = csess[s].sid => w = v

(* Data the concentrator accepts for a session was sent by a dialer, and   *)
(* by none but the one the session was made for, be that dialer still      *)
(* there or not (1569, 1628-1642).                                         *)
DataForLink ==
    [][\A v \in Servers, f \in net : AcData(v, f) =>
          /\ \E s \in Dialers : <<s, f>> \in said
          /\ \A s \in Dialers : <<s, f>> \in said => MadeFor(v, s, f.hdr.sid)]_vars

----------------------------------------------------------------------------
(* For TLC: no hook is told from another of its kind, and no action reads  *)
(* out or cout.                                                            *)
Symmetry == Permutations(Dialers) \cup Permutations(Servers)
View == <<chooks, csess, chash, crmq, cticks, hooks, sess, hash, pppoe_sid,
          rmq, ticks, net, asked, fresh, said>>
=============================================================================
