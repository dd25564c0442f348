--------------------------- MODULE PppoeNetProofs ---------------------------
(***************************************************************************)
(* What PppoeNet promises of the links between two nodes, proved for any   *)
(* number of dialers and servers: what may be on the net, what each end    *)
(* keeps of it, and, while no address of a sess_con is used again, that an *)
(* offer, a Session_ID and a dialer belong to each other.                  *)
(***************************************************************************)
EXTENDS PppoeNet, FiniteSetTheorems, TLAPS

(* The frames on the net that carry a hook's address as their cookie.      *)
Pado(v) == {f \in net : f.hdr.code = "PADO" /\ f.tags.cookie = v}
Pads(v) == {f \in net : f.hdr.code = "PADS" /\ f.tags.cookie = v}

(* A frame that returns the tags of one offer                              *)
Offered(f) == \E g \in Pado(f.tags.cookie) : g.tags.uniq = f.tags.uniq

(* What is on the net: requests and confirmations return an offer's tags.  *)
FrameOK(f) ==
    /\ f \in Frames
    /\ f.hdr.code = "PADO" => f.tags.cookie \in Servers
    /\ f.hdr.code \in {"PADR", "PADS"} => Offered(f)

(* A hook of the host dials; its link is one it was told of.               *)
DialerOK(s, r) ==
    /\ r.state \in {"SNONE", "SINIT", "SREQ", "CONNECTED"}
    /\ Host!SourceIs(r, "host")
    /\ r.state = "SREQ" => Offered(r.neg.pkt)
    /\ r.state = "CONNECTED" =>
           \E f \in net : /\ f.hdr.code = "PADS" /\ f.tags.uniq = s
                          /\ f.hdr.sid = r.sid

(* A serving hook offers to the host; it told of its link.                 *)
ServerOK(v, r) ==
    /\ r.state \in {"SNONE", "PRIMED", "SOFFER", "NEWCONNECTED", "CONNECTED"}
    /\ Ac!SourceIs(r, "ac")
    /\ r.state = "SOFFER" => r.neg.pkt.hdr.dst = "host" /\ r.neg.pkt \in net
    /\ r.state = "NEWCONNECTED" => Offered(r.neg.pkt)
    /\ r.state \in {"NEWCONNECTED", "CONNECTED"} =>
           r.hdr.dst = "host" /\ \E f \in Pads(v) : f.hdr.sid = r.sid

NetInv ==
    /\ Host!IndInv /\ Ac!IndInv
    /\ \A f \in net : FrameOK(f)
    /\ asked \subseteq {f \in net : f.hdr.src = "host"}
    /\ \A s \in Dialers : DialerOK(s, csess[s])
    /\ \A v \in Servers : ServerOK(v, sess[v])
    /\ sess[listener].state = "LISTENING"

(* While no address is used again, a hook makes one offer.                 *)
OnceInv ==
    /\ \A v \in Servers : v \notin fresh \cap hooks
    /\ \A v \in Servers :
           /\ v \in fresh \/ (v \in hooks /\ sess[v].state \in {"SNONE", "PRIMED"})
                  => Pado(v) = {}
           /\ sess[v].state = "SOFFER" => Pads(v) = {}
    /\ \A v \in Servers : \A f, g \in Pado(v) : f.tags.uniq = g.tags.uniq

(* Ids are given out one after the other, each to one hook.                *)
Given == {v \in Servers : Pads(v) # {}}
IdsInv ==
    /\ pppoe_sid = Cardinality(Given) + 1
    /\ \A v, w \in Servers : \A f \in Pads(v), g \in Pads(w) :
           /\ f.hdr.sid < pppoe_sid
           /\ f.hdr.sid = g.hdr.sid <=> v = w

----------------------------------------------------------------------------
(* The two nodes meet what NgPppoe assumes of its constants.               *)
LEMMA HostMeets ==
    /\ Host!ConstantsAssumption /\ Host!InputsAssumption /\ Host!BoundsAssumption
    /\ Host!NullAssumption /\ Host!PadsIdsNonzero /\ Host!Frame = Frame
<1>1. Host!Frame = Frame
  BY DEF Host!Frame, Frame, Host!Header, Host!Tags, Host!DiscEtype, Host!SessEtype, Host!Code
<1>2. Host!InputsAssumption /\ Host!PadsIdsNonzero
  BY <1>1 DEF Host!InputsAssumption, Host!PadsIdsNonzero, Frames, Requests, Request,
              Host!Request, Name
<1>3. Host!ConstantsAssumption
  BY NetAssumption, NodesAssumption DEF Host!ConstantsAssumption, Uniq, Name, Addr
<1>4. Host!BoundsAssumption  BY NetAssumption DEF Host!BoundsAssumption
<1>5. Host!NullAssumption  BY NodesAssumption DEF Host!NullAssumption
<1> QED BY <1>1, <1>2, <1>3, <1>4, <1>5

LEMMA AcMeets ==
    /\ Ac!ConstantsAssumption /\ Ac!InputsAssumption /\ Ac!BoundsAssumption
    /\ Ac!NullAssumption /\ Ac!PadsIdsNonzero /\ Ac!Frame = Frame
<1>1. Ac!Frame = Frame
  BY DEF Ac!Frame, Frame, Ac!Header, Ac!Tags, Ac!DiscEtype, Ac!SessEtype, Ac!Code
<1>2. Ac!InputsAssumption /\ Ac!PadsIdsNonzero
  BY <1>1 DEF Ac!InputsAssumption, Ac!PadsIdsNonzero, Frames, Requests, Request,
              Ac!Request, Name
<1>3. Ac!ConstantsAssumption
  BY NetAssumption, NodesAssumption DEF Ac!ConstantsAssumption, Uniq, Name, Addr
<1>4. Ac!BoundsAssumption  BY NetAssumption DEF Ac!BoundsAssumption
<1>5. Ac!NullAssumption  BY NodesAssumption DEF Ac!NullAssumption
<1> QED BY <1>1, <1>2, <1>3, <1>4, <1>5

----------------------------------------------------------------------------
(* What is offered stays offered: nothing leaves the net.                  *)
LEMMA StaysOffered ==
    ASSUME net \subseteq net'
    PROVE  /\ \A v : Pado(v) \subseteq Pado(v)' /\ Pads(v) \subseteq Pads(v)'
           /\ \A f : Offered(f) => Offered(f)'
BY DEF Pado, Pads, Offered

LEMMA NetFrames ==
    ASSUME NetInv
    PROVE  net \subseteq Frames /\ asked \subseteq net
BY DEF NetInv, FrameOK

(* A step of the host is one of its node, of one hook.                     *)
LEMMA HostIsNode ==
    ASSUME NetInv, NEW s \in Dialers, HostStep(s) \/ HostNewHook(s)
    PROVE  /\ Host!SessNext(s) /\ UNCHANGED acVars /\ net \subseteq net'
           /\ UNCHANGED asked
<1>1. \A mac : Arriving(mac) \subseteq Frames  BY NetFrames DEF Arriving
<1>2. Request("CONNECT", "", "isp") \in Requests  BY DEF Requests
<1>3. CASE HostStep(s)
  <2>1. Host!SessNext(s)
    BY <1>1, <1>2, <1>3 DEF HostStep, HostHears, Host!SessNext
  <2> QED BY <1>3, <2>1 DEF HostStep, Sent
<1>4. CASE HostNewHook(s)
  BY <1>4 DEF HostNewHook, Host!SessNext
<1> QED BY <1>3, <1>4

(* A step of one of its serving hooks is one of the concentrator's node.   *)
ServerStep(v) ==
    \/ AcNewHook(v) \/ AcStep(v)
    \/ \E f \in net : AcOffers(v, f) \/ AcPadr(v, f) \/ AcData(v, f)

LEMMA ServerIsNode ==
    ASSUME NetInv, NEW v \in Servers, ServerStep(v)
    PROVE  /\ Ac!SessNext(v) /\ UNCHANGED hostVars /\ net \subseteq net'
           /\ asked' \subseteq asked
<1>1. \A mac : Arriving(mac) \subseteq Frames  BY NetFrames DEF Arriving
<1>2. net \subseteq Frames  BY NetFrames
<1>3. Request("OFFER", "ac", "") \in Requests  BY DEF Requests
<1>4. CASE AcNewHook(v)  BY <1>4 DEF AcNewHook, Ac!SessNext
<1>5. CASE AcStep(v)
  <2>1. Ac!SessNext(v)  BY <1>1, <1>3, <1>5 DEF AcStep, Ac!SessNext
  <2> QED BY <1>5, <2>1 DEF AcStep, Sent
<1>6. ASSUME NEW f \in net, AcOffers(v, f) \/ AcPadr(v, f) \/ AcData(v, f)
      PROVE  /\ Ac!SessNext(v) /\ UNCHANGED hostVars /\ net \subseteq net'
             /\ asked' \subseteq asked
  BY <1>2, <1>6 DEF AcOffers, AcPadr, AcData, Ac!SessNext, Sent
<1> QED BY <1>4, <1>5, <1>6 DEF ServerStep

(* Both nodes keep the invariant of NgPppoe; a step moves one session.     *)
LEMMA HostNodeStep ==
    ASSUME NetInv, NEW s \in Dialers, HostStep(s) \/ HostNewHook(s)
    PROVE  Host!IndInv' /\ \A t \in Dialers \ {s} : csess'[t] = csess[t]
<1>1. Host!IndInv /\ Host!SessNext(s)  BY HostIsNode DEF NetInv
<1> QED BY <1>1, HostMeets, Host!SessStep, Host!OthersKept

LEMMA ServerNodeStep ==
    ASSUME NetInv, NEW v \in Servers, ServerStep(v)
    PROVE  Ac!IndInv' /\ \A w \in (Servers \cup {listener}) \ {v} : sess'[w] = sess[w]
<1>1. Ac!IndInv /\ Ac!SessNext(v)  BY ServerIsNode DEF NetInv
<1>2. v \in Servers \cup {listener}  OBVIOUS
<1>3. Ac!IndInv'  BY <1>1, <1>2, AcMeets, Ac!SessStep
<1>4. ASSUME NEW w \in Servers \cup {listener}, w # v  PROVE sess'[w] = sess[w]
  BY <1>1, <1>2, <1>4, AcMeets, Ac!OthersKept
<1> QED BY <1>3, <1>4
(* What is known of a session of the host, and of one of the concentrator. *)
LEMMA OfDialer ==
    ASSUME NetInv, NEW s \in Dialers
    PROVE  /\ csess \in [Dialers -> Host!Session] /\ csess[s] \in Host!Session
           /\ Host!SessionOK(s, csess[s]) /\ DialerOK(s, csess[s])
           /\ csess[s].neg # NULL => csess[s].neg \in Host!Neg
           /\ csess[s].state \in {"SINIT", "SREQ"} => csess[s].neg # NULL
BY DEF NetInv, Host!IndInv, Host!TypeOK, Host!Session, Host!SessionOK, Host!Negotiating,
       Host!State

LEMMA OfServer ==
    ASSUME NetInv, NEW v \in Servers
    PROVE  /\ sess \in [Servers \cup {listener} -> Ac!Session] /\ sess[v] \in Ac!Session
           /\ Ac!SessionOK(v, sess[v]) /\ ServerOK(v, sess[v])
           /\ sess[v].neg # NULL => sess[v].neg \in Ac!Neg
           /\ sess[v].state \in {"PRIMED", "SOFFER", "NEWCONNECTED"} => sess[v].neg # NULL
           /\ v \notin hooks => sess[v].state = "SNONE"
BY DEF NetInv, Ac!IndInv, Ac!TypeOK, Ac!Session, Ac!SessionOK, Ac!Negotiating, Ac!State

(* A client takes up an offer: its request returns the tags of the PADO.   *)
LEMMA TakenUp ==
    ASSUME NetInv, NEW s \in Dialers, NEW f \in net, Host!RcvPado(s, f)
    PROVE  /\ csess'[s].state = "SREQ" /\ csess'[s].neg.pkt.tags.uniq = f.tags.uniq
           /\ csess'[s].neg.pkt.tags.cookie = f.tags.cookie
           /\ Offered(csess'[s].neg.pkt)
<1> DEFINE neg == csess[s].neg
           padr == [hdr |-> [neg.pkt.hdr EXCEPT !.code = "PADR", !.dst = f.hdr.src],
                    tags |-> [f.tags EXCEPT !.srv = <<neg.service>>]]
           new == [neg EXCEPT !.pkt = padr, !.timeout = 1 * 2]
<1>1. csess \in [Dialers -> Host!Session] /\ csess[s] \in Host!Session
      /\ neg # NULL /\ neg \in Host!Neg
  BY OfDialer DEF Host!RcvPado
<1>2. csess'[s] = [csess[s] EXCEPT !.state = "SREQ", !.neg = new, !.callout = 1]
  BY <1>1 DEF Host!RcvPado
<1>3. new.pkt = padr  BY <1>1 DEF Host!Neg
<1>4. csess'[s].state = "SREQ" /\ csess'[s].neg = new
  <2> HIDE DEF new
  <2> QED BY <1>1, <1>2 DEF Host!Session
<1>5. f.tags \in [srv : Seq(Name), acn : Name \cup {NULL},
                  uniq : Uniq \cup {NULL}, cookie : Uniq \cup {NULL}]
  BY NetFrames DEF Frames, Frame
<1>6. padr.tags.uniq = f.tags.uniq /\ padr.tags.cookie = f.tags.cookie
  BY <1>5
<1>7. f \in Pado(f.tags.cookie)  BY DEF Pado, Host!RcvPado, Host!Discovery
<1> HIDE DEF new, padr
<1> QED BY <1>3, <1>4, <1>6, <1>7 DEF Offered

(* A hook of the host stays one that dials.                                *)
LEMMA DialerStep ==
    ASSUME NetInv, NEW s \in Dialers, HostStep(s) \/ HostNewHook(s)
    PROVE  DialerOK(s, csess[s])'
<1>1. /\ csess \in [Dialers -> Host!Session] /\ csess[s] \in Host!Session
      /\ DialerOK(s, csess[s]) /\ Host!SessionOK(s, csess[s])
      /\ csess[s].neg # NULL => csess[s].neg \in Host!Neg
      /\ csess[s].state \in {"SINIT", "SREQ"} => csess[s].neg # NULL
  BY OfDialer
<1>2. Host!SourceIs(csess'[s], "host")
  <2>1. Host!IndInv /\ Host!SessNext(s) /\ Host!SourceIs(csess[s], "host")
    BY <1>1, HostIsNode DEF NetInv, DialerOK
  <2> QED BY <2>1, HostMeets, Host!SourceKept
<1>3. net \subseteq net' /\ \A f : Offered(f) => Offered(f)'
  BY HostIsNode, StaysOffered
<1> DEFINE Rest == /\ csess'[s].state \in {"SNONE", "SINIT", "SREQ", "CONNECTED"}
                   /\ csess'[s].state = "SREQ" => Offered(csess'[s].neg.pkt)
                   /\ csess'[s].state = "CONNECTED" =>
                        \E f \in net : /\ f.hdr.code = "PADS" /\ f.tags.uniq = s
                                       /\ f.hdr.sid = csess'[s].sid
<1>4. ASSUME csess'[s] = csess[s]  PROVE Rest  BY <1>1, <1>4 DEF DialerOK
<1>5. ASSUME csess'[s] = Host!ZeroSession  PROVE Rest  BY <1>5 DEF Host!ZeroSession
<1>6. ASSUME NEW f \in Arriving("host"), Host!RcvPado(s, f)  PROVE Rest
  BY <1>6, TakenUp DEF Arriving
<1>7. ASSUME NEW f \in Arriving("host"), Host!RcvPads(s, f)  PROVE Rest
  <2>1. f \in net /\ f.hdr.code = "PADS" /\ f.tags.uniq = s
    BY <1>7 DEF Arriving, Host!RcvPads, Host!Discovery, Host!FindUniq
  <2>2. csess'[s].state = "CONNECTED" /\ csess'[s].sid = f.hdr.sid
    BY <1>1, <1>7 DEF Host!RcvPads
  <2> QED BY <2>1, <2>2
<1>8. ASSUME Host!Connect(s, Request("CONNECT", "", "isp"))  PROVE Rest
  <2> DEFINE old == [csess[s] EXCEPT !.neg = Host!NewNeg("DATA", "", "isp")]
  <2>1. csess'[s] = Host!Started(s, old)  BY <1>1, <1>8 DEF Host!Connect, Request
  <2>2. Host!Started(s, old).state = "SINIT"  BY <1>1 DEF Host!Started, Host!Session
  <2> QED BY <2>1, <2>2
<1>9. ASSUME Host!Expire(s)  PROVE Rest
  <2>1. csess'[s] = [csess[s] EXCEPT !.callout = 0]  BY <1>1, <1>9 DEF Host!Expire
  <2>2. /\ csess'[s].state = csess[s].state /\ csess'[s].neg = csess[s].neg
        /\ csess'[s].sid = csess[s].sid
    BY <1>1, <2>1 DEF Host!Session
  <2> QED BY <1>1, <2>2 DEF DialerOK
<1>10. ASSUME Host!Ticker(s)  PROVE Rest
  <2>1. CASE csess[s].state \notin {"SINIT", "SREQ"}
    <3>1. csess'[s] = csess[s]  BY <1>10, <2>1 DEF Host!Ticker
    <3> QED BY <1>4, <3>1
  <2>2. CASE csess[s].state \in {"SINIT", "SREQ"}
    <3>1. csess'[s] = Host!Resent(s)  BY <1>1, <1>10, <2>2 DEF Host!Ticker
    <3>2. \/ Host!Resent(s) = Host!Started(s, csess[s])
          \/ \E t : Host!Resent(s) = [csess[s] EXCEPT !.callout = csess[s].neg.timeout,
                                        !.neg = [csess[s].neg EXCEPT !.timeout = t]]
      BY DEF Host!Resent
    <3>3. CASE Host!Resent(s) = Host!Started(s, csess[s])
      <4>1. csess'[s].state = "SINIT"  BY <1>1, <3>1, <3>3 DEF Host!Started, Host!Session
      <4> QED BY <4>1
    <3>4. CASE Host!Resent(s) # Host!Started(s, csess[s])
      <4>1. PICK t : csess'[s] = [csess[s] EXCEPT !.callout = csess[s].neg.timeout,
                                        !.neg = [csess[s].neg EXCEPT !.timeout = t]]
        BY <3>1, <3>2, <3>4
      <4>2. [csess[s].neg EXCEPT !.timeout = t].pkt = csess[s].neg.pkt
        BY <1>1, <2>2 DEF Host!Neg
      <4>3. /\ csess'[s].neg = [csess[s].neg EXCEPT !.timeout = t]
            /\ csess'[s].state = csess[s].state
        BY <1>1, <4>1 DEF Host!Session
      <4> QED BY <1>1, <2>2, <4>2, <4>3 DEF DialerOK
    <3> QED BY <3>3, <3>4
  <2> QED BY <2>1, <2>2
<1>11. ASSUME Host!RmHookSelf(s) \/ Host!RmHookPeer(s) \/ Host!NewHook(s)  PROVE Rest
  BY <1>1, <1>5, <1>11
  DEF Host!RmHookSelf, Host!RmHookPeer, Host!Disconnect, Host!NewHook
<1>12. ASSUME Host!RcvHookData(s) \/ \E f \in Arriving("host") : Host!RcvPadt(s, f)
       PROVE  Rest
  BY <1>4, <1>12 DEF Host!RcvHookData, Host!RcvPadt
<1> HIDE DEF Rest
<1>13. Rest
  <2>1. CASE HostStep(s)
    BY <1>6, <1>7, <1>8, <1>9, <1>10, <1>11, <1>12, <2>1 DEF HostStep, HostHears
  <2>2. CASE HostNewHook(s)  BY <1>11, <2>2 DEF HostNewHook
  <2> QED BY <2>1, <2>2
<1> QED BY <1>2, <1>3, <1>13 DEF Rest, DialerOK, Host!SourceIs, Host!Established
(* What the concentrator sends is put on the net.                          *)
LEMMA AcSends ==
    ASSUME NEW p, NEW u, NEW m, out' = Ac!Emit(<<p>>, u, m), Sent(out')
    PROVE  net' = net \cup {p}
<1>1. out'.eth = <<p>>  BY DEF Ac!Emit
<1>2. Members(<<p>>) = {p}  BY DEF Members
<1> QED BY <1>1, <1>2 DEF Sent

LEMMA AcSilent ==
    ASSUME NEW u, NEW m, out' = Ac!Emit(<<>>, u, m) \/ out' = Ac!Silent, Sent(out')
    PROVE  net' = net
<1>1. out'.eth = <<>>  BY DEF Ac!Emit, Ac!Silent
<1> QED BY <1>1 DEF Sent, Members

(* The daemon answers a PADI: the hook offers to the host, and says so.    *)
LEMMA Offering ==
    ASSUME NetInv, NEW v \in Servers, NEW f, AcOffers(v, f)
    PROVE  /\ sess[v].state = "PRIMED" /\ v \in hooks /\ hooks' = hooks
           /\ pppoe_sid' = pppoe_sid /\ fresh' = fresh
           /\ \/ sess'[v].state = "PRIMED" /\ net' = net
              \/ /\ sess'[v].state = "SOFFER" /\ sess'[v].neg.pkt.hdr.dst = "host"
                 /\ net' = net \cup {sess'[v].neg.pkt}
<1> DEFINE neg == sess[v].neg
           hdr == [neg.pkt.hdr EXCEPT !.etype = f.hdr.etype]
           pkt == [hdr |-> hdr, tags |-> neg.pkt.tags]
           pado == [hdr |-> [hdr EXCEPT !.code = "PADO", !.dst = f.hdr.src],
                    tags |-> Ac!PadoTags(v, neg, f.tags)]
<1>1. /\ sess \in [Servers \cup {listener} -> Ac!Session] /\ sess[v] \in Ac!Session
      /\ neg \in Ac!Neg /\ neg.pkt.hdr \in Ac!Header
      /\ sess[v].state = "PRIMED" /\ v \in hooks /\ f.hdr.src = "host"
      /\ hooks' = hooks /\ pppoe_sid' = pppoe_sid /\ fresh' = fresh /\ Sent(out')
      /\ Ac!RcvHookPadi(v, f)
  BY OfServer DEF AcOffers, Ac!RcvHookPadi, Ac!listVars, NetInv, Ac!Neg, Ac!Frame
<1>2. CASE f.hdr.code # "PADI"
  <2>1. sess'[v] = [sess[v] EXCEPT !.neg = [neg EXCEPT !.pkt = pkt]] /\ out' = Ac!Silent
    BY <1>1, <1>2 DEF Ac!RcvHookPadi
  <2>2. sess'[v].state = "PRIMED"  BY <1>1, <2>1 DEF Ac!Session
  <2> QED BY <1>1, <2>1, <2>2, AcSilent
<1>3. CASE f.hdr.code = "PADI"
  <2> DEFINE new == [neg EXCEPT !.pkt = pado, !.timeout = 0]
  <2>1. /\ sess'[v] = [sess[v] EXCEPT !.state = "SOFFER", !.neg = new, !.callout = 1]
        /\ out' = Ac!Emit(<<pado>>, {}, <<>>)
    BY <1>1, <1>3 DEF Ac!RcvHookPadi, Ac!Send
  <2>2. new.pkt = pado  BY <1>1 DEF Ac!Neg
  <2>3. pado.hdr.dst = "host"  BY <1>1 DEF Ac!Header
  <2>4. sess'[v].state = "SOFFER" /\ sess'[v].neg = new
    <3> HIDE DEF new
    <3> QED BY <1>1, <2>1 DEF Ac!Session
  <2> HIDE DEF new, pado
  <2>5. net' = net \cup {pado}  BY <1>1, <2>1, AcSends
  <2> QED BY <1>1, <2>2, <2>3, <2>4, <2>5
<1> QED BY <1>2, <1>3

(* A PADR is answered: the hook has an id, its own or a new one, and the   *)
(* PADS returns the tags of the PADR.                                      *)
LEMMA Confirming ==
    ASSUME NetInv, NEW v \in Servers, NEW f \in net, AcPadr(v, f)
    PROVE  /\ sess'[v].state = "NEWCONNECTED" /\ v \in hooks /\ hooks' = hooks
           /\ sess'[v].hdr.dst = "host" /\ fresh' = fresh
           /\ f.hdr.code = "PADR" /\ f.tags.cookie = v
           /\ LET p == sess'[v].neg.pkt
              IN  /\ net' = net \cup {p}
                  /\ p.tags.cookie = v /\ p.tags.uniq = f.tags.uniq
                  /\ p.hdr.code = "PADS" /\ p.hdr.sid = sess'[v].sid
           /\ \/ /\ sess[v].state = "NEWCONNECTED" /\ sess'[v].sid = sess[v].sid
                 /\ pppoe_sid' = pppoe_sid
              \/ /\ sess[v].state = "SOFFER"
                 /\ Ac!NewSession(sess'[v].sid, pppoe_sid')
<1> DEFINE neg == sess[v].neg
           New(id) == [neg EXCEPT !.timeout = 0,
                         !.pkt = [hdr |-> [neg.pkt.hdr EXCEPT !.code = "PADS", !.sid = id],
                                  tags |-> [f.tags EXCEPT !.srv = Ac!FirstSrv(f.tags),
                                                          !.acn = neg.acname]]]
           hdr(id) == [neg.pkt.hdr EXCEPT !.code = "PADS", !.sid = id]
           Data(id) == [hdr(id) EXCEPT !.code = "DATA", !.etype = Ac!SessTypeOf(hdr(id).etype)]
<1>1. /\ sess \in [Servers \cup {listener} -> Ac!Session] /\ sess[v] \in Ac!Session
      /\ neg \in Ac!Neg /\ neg.pkt.hdr \in Ac!Header /\ Ac!SessionOK(v, sess[v])
      /\ sess[v].state \in {"SOFFER", "NEWCONNECTED"} /\ ServerOK(v, sess[v])
  BY OfServer DEF AcPadr, Ac!RcvPadr, Ac!Neg, Ac!Frame
<1>2. /\ v \in hooks /\ f.hdr.code = "PADR" /\ f.tags.cookie = v /\ hooks' = hooks
      /\ Ac!RcvPadr(v, f) /\ Sent(out') /\ fresh' = fresh
      /\ out' = Ac!Emit(<<sess'[v].neg.pkt>>, {}, Ac!Tell(v, <<"SESSIONID", "SUCCESS">>))
  BY DEF AcPadr, Ac!RcvPadr, Ac!Discovery, Ac!FindUniq
<1>3. f.tags \in [srv : Seq(Name), acn : Name \cup {NULL},
                  uniq : Uniq \cup {NULL}, cookie : Uniq \cup {NULL}]
  BY NetFrames DEF Frames, Frame
<1>4. neg.pkt.hdr.dst = "host"
  <2>1. CASE sess[v].state = "SOFFER"  BY <1>1, <2>1 DEF ServerOK
  <2>2. CASE sess[v].state = "NEWCONNECTED"
    <3>1. sess[v].hdr = [neg.pkt.hdr EXCEPT !.code = "DATA",
                                            !.etype = Ac!SessTypeOf(neg.pkt.hdr.etype)]
      BY <1>1, <2>2 DEF Ac!SessionOK, Ac!PacketOK
    <3> QED BY <1>1, <2>2, <3>1 DEF ServerOK, Ac!Header
  <2> QED BY <1>1, <2>1, <2>2
<1>5. ASSUME NEW id
      PROVE  LET c == Ac!Confirmed(v, f, id) IN
             /\ c.neg.pkt.tags.cookie = v /\ c.neg.pkt.tags.uniq = f.tags.uniq
             /\ c.neg.pkt.hdr.code = "PADS" /\ c.neg.pkt.hdr.sid = id
             /\ c.hdr.dst = "host" /\ c.state = "NEWCONNECTED" /\ c.sid = sess[v].sid
             /\ [c EXCEPT !.sid = id].neg = c.neg /\ [c EXCEPT !.sid = id].hdr = c.hdr
             /\ [c EXCEPT !.sid = id].sid = id /\ [c EXCEPT !.sid = id].state = c.state
  <2>1. /\ New(id).pkt.hdr = hdr(id)
        /\ New(id).pkt.tags.cookie = v /\ New(id).pkt.tags.uniq = f.tags.uniq
    BY <1>1, <1>2, <1>3 DEF Ac!Neg
  <2>2. hdr(id).code = "PADS" /\ hdr(id).sid = id /\ Data(id).dst = "host"
    BY <1>1, <1>4 DEF Ac!Header
  <2>3. Ac!Confirmed(v, f, id) = [sess[v] EXCEPT !.state = "NEWCONNECTED", !.callout = 0,
                                     !.neg = New(id), !.hdr = Data(id)]
    BY DEF Ac!Confirmed
  <2> HIDE DEF New, Data
  <2> QED BY <1>1, <2>1, <2>2, <2>3 DEF Ac!Session
<1>6. net' = net \cup {sess'[v].neg.pkt}  BY <1>2, AcSends
<1>7. CASE sess[v].sid = 0
  <2>1. PICK id, next \in 1..MaxSid :
           /\ Ac!NewSession(id, next) /\ pppoe_sid' = next
           /\ sess' = [sess EXCEPT ![v] = [Ac!Confirmed(v, f, id) EXCEPT !.sid = id]]
    BY <1>2, <1>7 DEF Ac!RcvPadr
  <2>2. sess'[v] = [Ac!Confirmed(v, f, id) EXCEPT !.sid = id]  BY <1>1, <2>1
  <2>3. sess[v].state = "SOFFER"
    BY <1>1, <1>7 DEF Ac!SessionOK, Ac!Established
  <2> DEFINE p == sess'[v].neg.pkt
  <2>4. /\ p.tags.cookie = v /\ p.tags.uniq = f.tags.uniq
        /\ p.hdr.code = "PADS" /\ p.hdr.sid = id /\ sess'[v].sid = id
        /\ sess'[v].hdr.dst = "host" /\ sess'[v].state = "NEWCONNECTED"
    BY <1>5, <2>2
  <2> QED BY <1>2, <1>6, <2>1, <2>3, <2>4
<1>8. CASE sess[v].sid # 0
  <2>1. /\ sess' = [sess EXCEPT ![v] = Ac!Confirmed(v, f, neg.pkt.hdr.sid)]
        /\ pppoe_sid' = pppoe_sid
    BY <1>2, <1>8 DEF Ac!RcvPadr
  <2>2. sess'[v] = Ac!Confirmed(v, f, neg.pkt.hdr.sid)  BY <1>1, <2>1
  <2>3. sess[v].state = "NEWCONNECTED" /\ neg.pkt.hdr.sid = sess[v].sid
    BY <1>1, <1>8 DEF Ac!SessionOK, Ac!Established, Ac!PacketOK
  <2> QED BY <1>2, <1>5, <1>6, <2>1, <2>2, <2>3
<1> QED BY <1>7, <1>8
(* The other steps of a serving hook.                                      *)
Kept(v) == /\ sess'[v].state = sess[v].state /\ sess'[v].neg = sess[v].neg
           /\ sess'[v].sid = sess[v].sid /\ sess'[v].hdr = sess[v].hdr
Primed(v) == v \in hooks /\ sess[v].state = "SNONE" /\ sess'[v].state = "PRIMED"
Used(v) == /\ sess[v].state = "NEWCONNECTED" /\ sess'[v].state = "CONNECTED"
           /\ sess'[v].sid = sess[v].sid /\ sess'[v].hdr = sess[v].hdr
Gone(v) == sess'[v] = Ac!ZeroSession /\ hooks' = hooks \ {v} /\ fresh' = fresh
Came(v) == sess'[v] = Ac!ZeroSession /\ hooks' = hooks \cup {v} /\ Allocated(v)

OtherStep(v) == AcNewHook(v) \/ AcStep(v) \/ \E f \in net : AcData(v, f)

LEMMA OtherEffect ==
    ASSUME NetInv, NEW v \in Servers, OtherStep(v)
    PROVE  /\ pppoe_sid' = pppoe_sid
           /\ \/ (Kept(v) \/ Primed(v) \/ Used(v)) /\ hooks' = hooks /\ fresh' = fresh
              \/ Gone(v) \/ Came(v)
<1> DEFINE Goal == /\ pppoe_sid' = pppoe_sid
                   /\ \/ (Kept(v) \/ Primed(v) \/ Used(v)) /\ hooks' = hooks /\ fresh' = fresh
                      \/ Gone(v) \/ Came(v)
<1>1. sess \in [Servers \cup {listener} -> Ac!Session] /\ sess[v] \in Ac!Session
      /\ ServerOK(v, sess[v])
  BY OfServer
<1>2. CASE AcNewHook(v)
  BY <1>1, <1>2 DEF AcNewHook, Ac!NewHook, Ac!listVars, Came
<1>3. CASE \E f \in net : AcData(v, f)
  <2>1. PICK f \in net : AcData(v, f)  BY <1>3
  <2>2. pppoe_sid' = pppoe_sid /\ hooks' = hooks /\ fresh' = fresh
    BY <2>1 DEF AcData, Ac!RcvSessionData, Ac!listVars
  <2>3. CASE sess[v].state = "CONNECTED"
    BY <2>1, <2>2, <2>3 DEF AcData, Ac!RcvSessionData, Kept
  <2>4. CASE sess[v].state # "CONNECTED"
    <3>1. /\ sess[v].state = "NEWCONNECTED"
          /\ sess'[v] = [sess[v] EXCEPT !.state = "CONNECTED", !.neg = NULL, !.callout = 0]
      BY <1>1, <2>1, <2>4 DEF AcData, Ac!RcvSessionData, Ac!Established
    <3> QED BY <1>1, <2>2, <3>1 DEF Used, Ac!Session
  <2> QED BY <2>3, <2>4
<1>4. CASE AcStep(v)
  <2>1. fresh' = fresh  BY <1>4 DEF AcStep
  <2>2. ASSUME NEW f, Ac!RcvPadt(v, f)  PROVE Goal
    BY <2>1, <2>2 DEF Ac!RcvPadt, Ac!listVars, Kept
  <2>3. ASSUME Ac!Offer(v, Request("OFFER", "ac", ""))  PROVE Goal
    <3> DEFINE neg == Ac!NewNeg("PADO", Request("OFFER", "ac", "").ac, "")
    <3>1. sess'[v] = [sess[v] EXCEPT !.state = "PRIMED", !.neg = neg]
      BY <1>1, <2>3 DEF Ac!Offer
    <3>2. sess'[v].state = "PRIMED"
      <4> HIDE DEF neg
      <4> QED BY <1>1, <3>1 DEF Ac!Session
    <3> QED BY <2>1, <2>3, <3>2 DEF Ac!Offer, Ac!Idle, Ac!listVars, Primed
  <2>4. ASSUME Ac!Expire(v)  PROVE Goal
    <3>1. sess'[v] = [sess[v] EXCEPT !.callout = 0]  BY <1>1, <2>4 DEF Ac!Expire
    <3> QED BY <1>1, <2>1, <2>4, <3>1 DEF Ac!Expire, Ac!listVars, Kept, Ac!Session
  <2>5. ASSUME Ac!Ticker(v)  PROVE Goal
    <3>1. sess' = sess  BY <1>1, <2>5 DEF Ac!Ticker, ServerOK
    <3> QED BY <2>1, <2>5, <3>1 DEF Ac!Ticker, Ac!listVars, Kept
  <2>6. ASSUME Ac!RmHookSelf(v) \/ Ac!RmHookPeer(v)  PROVE Goal
    BY <1>1, <2>1, <2>6 DEF Ac!RmHookSelf, Ac!RmHookPeer, Ac!Disconnect, Gone
  <2> QED BY <1>4, <2>2, <2>3, <2>4, <2>5, <2>6 DEF AcStep
<1> QED BY <1>2, <1>3, <1>4 DEF OtherStep

(* They send nothing but a PADT.                                           *)
LEMMA OtherSends ==
    ASSUME NetInv, NEW v \in Servers, OtherStep(v), NEW f \in net', f \notin net
    PROVE  f.hdr.code = "PADT"
<1>1. ServerOK(v, sess[v])  BY OfServer
<1>2. CASE AcNewHook(v)  BY <1>2 DEF AcNewHook
<1>3. CASE \E g \in net : AcData(v, g)
  <2>1. \E u : out' = Ac!Emit(<<>>, u, <<>>) /\ Sent(out')
    BY <1>3 DEF AcData, Ac!RcvSessionData
  <2> QED BY <2>1, AcSilent
<1>4. CASE AcStep(v)
  <2>1. Sent(out')  BY <1>4 DEF AcStep
  <2>2. CASE out' = Ac!Silent
    <3>1. out'.eth = <<>>  BY <2>2 DEF Ac!Silent
    <3> QED BY <2>1, <3>1 DEF Sent, Members
  <2>3. CASE Ac!RmHookSelf(v) \/ Ac!RmHookPeer(v)
    <3> DEFINE p == [hdr |-> [sess[v].hdr EXCEPT !.code = "PADT",
                                  !.etype = Ac!DiscTypeOf(sess[v].hdr.etype)],
                     tags |-> Ac!NoTags]
    <3>1. \E m : \/ out' = Ac!Emit(<<>>, {}, m)
                 \/ out' = Ac!Emit(<<p>>, {}, m) /\ sess[v].state \in Ac!Established
      BY <2>3 DEF Ac!RmHookSelf, Ac!RmHookPeer, Ac!Disconnect
    <3>2. sess[v].state \in Ac!Established => p.hdr.code = "PADT"
      <4>1. sess[v].state \in Ac!Established => sess[v].hdr \in Ac!Header
        BY OfServer DEF Ac!SessionOK, Ac!HeaderOK
      <4> QED BY <4>1 DEF Ac!Header
    <3> HIDE DEF p
    <3> QED BY <2>1, <3>1, <3>2, AcSends, AcSilent
  <2> QED BY <1>1, <1>4, <2>2, <2>3
    DEF AcStep, Ac!RcvPadt, Ac!Offer, Ac!Expire, Ac!Ticker, ServerOK
<1> QED BY <1>2, <1>3, <1>4 DEF OtherStep

(* A serving hook stays one that serves the host.                          *)
LEMMA ServerStepOK ==
    ASSUME NetInv, NEW v \in Servers, ServerStep(v)
    PROVE  ServerOK(v, sess[v])'
<1>1. ServerOK(v, sess[v])  BY OfServer
<1>2. Ac!SourceIs(sess'[v], "ac")
  <2>1. Ac!IndInv /\ Ac!SessNext(v) /\ Ac!SourceIs(sess[v], "ac")
        /\ v \in Servers \cup {listener}
    BY <1>1, ServerIsNode DEF NetInv, ServerOK
  <2> QED BY <2>1, AcMeets, Ac!SourceKept
<1>3. /\ net \subseteq net' /\ \A f : Offered(f) => Offered(f)'
      /\ \A w : Pads(w) \subseteq Pads(w)'
  BY ServerIsNode, StaysOffered
<1> DEFINE r == sess'[v]
           Rest == /\ r.state \in {"SNONE", "PRIMED", "SOFFER", "NEWCONNECTED", "CONNECTED"}
                   /\ r.state = "SOFFER" => r.neg.pkt.hdr.dst = "host" /\ r.neg.pkt \in net'
                   /\ r.state = "NEWCONNECTED" => Offered(r.neg.pkt)
                   /\ r.state \in {"NEWCONNECTED", "CONNECTED"} =>
                          r.hdr.dst = "host" /\ \E f \in Pads(v)' : f.hdr.sid = r.sid
<1>4. ASSUME NEW f, AcOffers(v, f)  PROVE Rest
  <2>1. \/ r.state = "PRIMED"
        \/ r.state = "SOFFER" /\ r.neg.pkt.hdr.dst = "host" /\ r.neg.pkt \in net'
    BY <1>4, Offering
  <2> QED BY <2>1
<1>5. ASSUME NEW f \in net, AcPadr(v, f)  PROVE Rest
  <2> DEFINE p == r.neg.pkt
  <2>1. /\ r.state = "NEWCONNECTED" /\ r.hdr.dst = "host" /\ net' = net \cup {p}
        /\ f.hdr.code = "PADR" /\ f.tags.cookie = v /\ p.tags.cookie = v
        /\ p.tags.uniq = f.tags.uniq /\ p.hdr.code = "PADS" /\ p.hdr.sid = r.sid
    BY <1>5, Confirming
  <2>2. p \in Pads(v)'  BY <2>1 DEF Pads
  <2>3. Offered(f)  BY <2>1 DEF NetInv, FrameOK
  <2>4. Offered(p)  BY <2>1, <2>3 DEF Offered
  <2> QED BY <1>3, <2>1, <2>2, <2>4
<1>6. ASSUME OtherStep(v)  PROVE Rest
  <2>1. CASE Kept(v)  BY <1>1, <1>3, <2>1 DEF Kept, ServerOK
  <2>2. CASE Primed(v)  BY <2>2 DEF Primed
  <2>3. CASE Used(v)  BY <1>1, <1>3, <2>3 DEF Used, ServerOK
  <2>4. CASE Gone(v) \/ Came(v)  BY <2>4 DEF Gone, Came, Ac!ZeroSession
  <2> QED BY <1>6, <2>1, <2>2, <2>3, <2>4, OtherEffect
<1> HIDE DEF Rest
<1>7. Rest  BY <1>4, <1>5, <1>6 DEF ServerStep, OtherStep
<1> QED BY <1>2, <1>3, <1>7 DEF Rest, ServerOK, Ac!SourceIs, Ac!Established
----------------------------------------------------------------------------
(* What a step of the host puts on the net.                                *)
LEMMA HostSends ==
    ASSUME NetInv, NEW s \in Dialers, HostStep(s) \/ HostNewHook(s), NEW f \in net', f \notin net
    PROVE  FrameOK(f)' /\ f.hdr.code \notin {"PADO", "PADS"}
<1>1. /\ Host!IndInv /\ Host!IndInv' /\ Host!SessNext(s) /\ net \subseteq net'
      /\ \A g : Offered(g) => Offered(g)'
  BY HostNodeStep, HostIsNode, StaysOffered DEF NetInv
<1>2. HostStep(s) /\ f \in Members(cout'.eth)
  BY DEF HostNewHook, HostStep, Sent
<1>3. PICK i \in DOMAIN cout'.eth : f = cout'.eth[i]  BY <1>2 DEF Members
<1>4. f \in Frame
  <2>1. cout'.eth \in Seq(Frame)  BY <1>1, HostMeets DEF Host!IndInv, Host!TypeOK, Host!Output
  <2> QED BY <1>3, <2>1
<1>5. /\ csess'[s] \in Host!Session /\ Host!SessionOK(s, csess'[s])
      /\ DialerOK(s, csess[s]) /\ DialerOK(s, csess[s])' /\ Host!SessionOK(s, csess[s])
      /\ csess[s].state \in {"SINIT", "SREQ"} => csess[s].neg # NULL
  BY <1>1, DialerStep, OfDialer DEF Host!IndInv, Host!TypeOK
<1> DEFINE Good == /\ f.hdr.src = "host" /\ f.hdr.code \notin {"PADO", "PADS"}
                   /\ f.hdr.code = "PADR" => Offered(f)'
<1>6. CASE csess[s].state \in {"SINIT", "SREQ"} /\ cout'.eth[i] = csess[s].neg.pkt
  <2>1. f.hdr.code = "PADI" \/ (f.hdr.code = "PADR" /\ Offered(f))
    BY <1>3, <1>5, <1>6 DEF DialerOK, Host!SessionOK, Host!PacketOK
  <2>2. f.hdr.src = "host"  BY <1>3, <1>5, <1>6 DEF DialerOK, Host!SourceIs
  <2>3. Good  BY <1>1, <2>1, <2>2
  <2> QED BY <1>4, <2>3 DEF FrameOK, Frames
<1>7. CASE csess'[s].state \in {"SINIT", "SREQ", "SOFFER", "NEWCONNECTED"}
           /\ cout'.eth[i] = csess'[s].neg.pkt
  <2>1. csess'[s].state \in {"SINIT", "SREQ"}  BY <1>5, <1>7 DEF DialerOK
  <2>2. csess'[s].neg # NULL
    BY <1>5, <2>1 DEF Host!SessionOK, Host!Negotiating, Host!State
  <2>3. f.hdr.code = "PADI" \/ (f.hdr.code = "PADR" /\ Offered(f)')
    BY <1>3, <1>5, <1>7, <2>1 DEF DialerOK, Host!SessionOK, Host!PacketOK
  <2>4. f.hdr.src = "host"  BY <1>3, <1>5, <1>7, <2>2 DEF DialerOK, Host!SourceIs
  <2>5. Good  BY <2>3, <2>4
  <2> QED BY <1>4, <2>5 DEF FrameOK, Frames
<1>8. CASE csess[s].state \in Host!Established /\ cout'.eth[i].hdr.code \in {"DATA", "PADT"}
           /\ cout'.eth[i].hdr.src = csess[s].hdr.src
  <2>1. Good  BY <1>3, <1>5, <1>8 DEF DialerOK, Host!SourceIs
  <2> QED BY <1>3, <1>4, <1>8, <2>1 DEF FrameOK, Frames
<1> QED BY <1>1, <1>6, <1>7, <1>8, HostMeets, Host!HookSends

(* What a step of a serving hook puts there is from the concentrator.      *)
LEMMA ServerSends ==
    ASSUME NetInv, NEW v \in Servers, ServerStep(v), NEW f \in net', f \notin net
    PROVE  f \in Frame /\ f.hdr.src = "ac"
<1>1. /\ Ac!IndInv /\ Ac!IndInv' /\ Ac!SessNext(v) /\ v \in Servers \cup {listener}
  BY ServerNodeStep, ServerIsNode DEF NetInv
<1>2. f \in Members(out'.eth)
  BY DEF ServerStep, AcNewHook, AcStep, AcOffers, AcPadr, AcData, Sent
<1>3. PICK i \in DOMAIN out'.eth : f = out'.eth[i]  BY <1>2 DEF Members
<1>4. f \in Frame
  <2>1. out'.eth \in Seq(Frame)  BY <1>1, AcMeets DEF Ac!IndInv, Ac!TypeOK, Ac!Output
  <2> QED BY <1>3, <2>1
<1>5. /\ ServerOK(v, sess[v]) /\ ServerOK(v, sess[v])' /\ Ac!SessionOK(v, sess'[v])
  BY <1>1, ServerStepOK, OfServer DEF Ac!IndInv
<1>6. CASE sess[v].state \in {"SINIT", "SREQ"}  BY <1>5, <1>6 DEF ServerOK
<1>7. CASE sess'[v].state \in {"SINIT", "SREQ", "SOFFER", "NEWCONNECTED"}
           /\ out'.eth[i] = sess'[v].neg.pkt
  <2>1. sess'[v].neg # NULL
    BY <1>5, <1>7 DEF Ac!SessionOK, Ac!Negotiating, Ac!State
  <2> QED BY <1>3, <1>4, <1>5, <1>7, <2>1 DEF ServerOK, Ac!SourceIs
<1>8. CASE sess[v].state \in Ac!Established /\ out'.eth[i].hdr.src = sess[v].hdr.src
  BY <1>3, <1>4, <1>5, <1>8 DEF ServerOK, Ac!SourceIs
<1> QED BY <1>1, <1>6, <1>7, <1>8, AcMeets, Ac!HookSends

LEMMA ServerFrames ==
    ASSUME NetInv, NEW v \in Servers, ServerStep(v), NEW f \in net', f \notin net
    PROVE  FrameOK(f)'
<1>1. f \in Frame /\ f.hdr.src = "ac"  BY ServerSends
<1>2. net \subseteq net' /\ \A g : Offered(g) => Offered(g)'
  BY ServerIsNode, StaysOffered
<1>3. sess'[v] \in Ac!Session /\ Ac!SessionOK(v, sess'[v])
  BY ServerNodeStep DEF Ac!IndInv, Ac!TypeOK
<1>4. ASSUME NEW g, AcOffers(v, g)  PROVE FrameOK(f)'
  <2>1. sess'[v].state = "SOFFER" /\ f = sess'[v].neg.pkt  BY <1>4, Offering
  <2>2. f.hdr.code = "PADO" /\ f.tags.cookie = v
    BY <1>3, <2>1 DEF Ac!SessionOK, Ac!PacketOK
  <2> QED BY <1>1, <2>2 DEF FrameOK, Frames
<1>5. ASSUME NEW g \in net, AcPadr(v, g)  PROVE FrameOK(f)'
  <2>1. /\ sess'[v].state = "NEWCONNECTED" /\ f = sess'[v].neg.pkt
        /\ g.hdr.code = "PADR" /\ g.tags.cookie = v /\ f.tags.cookie = v
        /\ f.tags.uniq = g.tags.uniq /\ f.hdr.code = "PADS" /\ f.hdr.sid = sess'[v].sid
    BY <1>5, Confirming
  <2>2. Offered(f)  BY <2>1 DEF NetInv, FrameOK, Offered
  <2>3. f.hdr.sid # 0  BY <1>3, <2>1 DEF Ac!SessionOK, Ac!Established
  <2> QED BY <1>1, <1>2, <2>1, <2>2, <2>3 DEF FrameOK, Frames
<1>6. ASSUME OtherStep(v)  PROVE FrameOK(f)'
  <2>1. f.hdr.code = "PADT"  BY <1>6, OtherSends
  <2> QED BY <1>1, <2>1 DEF FrameOK, Frames
<1> QED BY <1>4, <1>5, <1>6 DEF ServerStep, OtherStep

----------------------------------------------------------------------------
(* NetInv is inductive.                                                    *)
LEMMA OldFrames ==
    ASSUME NetInv, net \subseteq net'
    PROVE  /\ \A f \in net : FrameOK(f)'
           /\ \A s \in Dialers : csess'[s] = csess[s] => DialerOK(s, csess[s])'
           /\ \A v \in Servers : sess'[v] = sess[v] => ServerOK(v, sess[v])'
<1>1. \A f : Offered(f) => Offered(f)'  BY StaysOffered
<1>2. \A v : Pads(v) \subseteq Pads(v)'  BY StaysOffered
<1> QED BY <1>1, <1>2 DEF NetInv, FrameOK, DialerOK, ServerOK, Host!SourceIs, Ac!SourceIs,
           Host!Established, Ac!Established

(* A step that leaves the variables of a node alone leaves its invariant.  *)
LEMMA HostStays == ASSUME Host!IndInv, UNCHANGED hostVars PROVE Host!IndInv'
BY HostMeets, Host!StutterStep DEF hostVars, Host!vars

LEMMA AcStays == ASSUME Ac!IndInv, UNCHANGED acVars PROVE Ac!IndInv'
BY AcMeets, Ac!StutterStep DEF acVars, Ac!vars

LEMMA NetStep ==
    ASSUME NetInv, [Next]_vars
    PROVE  NetInv' /\ net \subseteq net'
<1>1. /\ Host!IndInv /\ Ac!IndInv /\ asked \subseteq {f \in net : f.hdr.src = "host"}
  BY DEF NetInv
<1>2. ASSUME NEW s \in Dialers, HostStep(s) \/ HostNewHook(s)
      PROVE  NetInv' /\ net \subseteq net'
  <2>1. Host!IndInv' /\ \A t \in Dialers \ {s} : csess'[t] = csess[t]
    BY <1>2, HostNodeStep
  <2>2. UNCHANGED acVars /\ net \subseteq net' /\ UNCHANGED asked  BY <1>2, HostIsNode
  <2>3. Ac!IndInv'  BY <1>1, <2>2, AcStays
  <2>4. \A f \in net' : FrameOK(f)'  BY <1>2, <2>2, HostSends, OldFrames
  <2>5. \A t \in Dialers : DialerOK(t, csess[t])'  BY <1>2, <2>1, <2>2, DialerStep, OldFrames
  <2>6. \A v \in Servers : ServerOK(v, sess[v])'  BY <2>2, OldFrames DEF acVars
  <2>7. sess'[listener].state = "LISTENING"  BY <2>2 DEF NetInv, acVars
  <2> QED BY <1>1, <2>1, <2>2, <2>3, <2>4, <2>5, <2>6, <2>7 DEF NetInv
<1>3. ASSUME NEW v \in Servers, ServerStep(v)  PROVE NetInv' /\ net \subseteq net'
  <2>1. Ac!IndInv' /\ \A w \in (Servers \cup {listener}) \ {v} : sess'[w] = sess[w]
    BY <1>3, ServerNodeStep
  <2>7. sess'[listener].state = "LISTENING"  BY <2>1, NetAssumption DEF NetInv
  <2>2. UNCHANGED hostVars /\ net \subseteq net' /\ asked' \subseteq asked
    BY <1>3, ServerIsNode
  <2>3. Host!IndInv'  BY <1>1, <2>2, HostStays
  <2>4. \A f \in net' : FrameOK(f)'  BY <1>3, <2>2, ServerFrames, OldFrames
  <2>5. \A s \in Dialers : DialerOK(s, csess[s])'  BY <2>2, OldFrames DEF hostVars
  <2>6. \A w \in Servers : ServerOK(w, sess[w])'
    BY <1>3, <2>1, <2>2, ServerStepOK, OldFrames
  <2> QED BY <1>1, <2>1, <2>2, <2>3, <2>4, <2>5, <2>6, <2>7 DEF NetInv
<1>4. ASSUME NEW f \in net, AcListens(f)  PROVE NetInv' /\ net \subseteq net'
  <2>1. f \in Frames /\ f.hdr.src = "host"
    BY <1>4, NetFrames DEF AcListens, Arriving, Frames
  <2>2. Ac!IndInv'  BY <1>1, <1>4, <2>1, AcMeets, Ac!RcvPadiStep DEF AcListens
  <2>3. UNCHANGED hostVars /\ sess' = sess
    BY <1>4 DEF AcListens, Ac!RcvPadi
  <2>4. net' = net
    <3>1. \E u : out' = Ac!Emit(<<>>, u, <<>>) /\ Sent(out')
      BY <1>4 DEF AcListens, Ac!RcvPadi
    <3> QED BY <3>1, AcSilent
  <2>5. asked' \subseteq asked \cup {f}  BY <1>4 DEF AcListens
  <2>6. Host!IndInv'  BY <1>1, <2>3, HostStays
  <2>7. /\ \A g \in net' : FrameOK(g)'
        /\ \A s \in Dialers : DialerOK(s, csess[s])'
        /\ \A w \in Servers : ServerOK(w, sess[w])'
    BY <2>3, <2>4, OldFrames DEF hostVars
  <2>8. asked' \subseteq {g \in net' : g.hdr.src = "host"}  BY <1>1, <2>1, <2>4, <2>5
  <2>9. sess'[listener].state = "LISTENING"  BY <2>3 DEF NetInv
  <2> QED BY <2>2, <2>4, <2>6, <2>7, <2>8, <2>9 DEF NetInv
<1>5. CASE UNCHANGED vars
  <2>1. UNCHANGED <<hostVars, acVars, net, asked>>  BY <1>5 DEF vars
  <2>2. Host!IndInv' /\ Ac!IndInv'  BY <1>1, <2>1, HostStays, AcStays
  <2>3. /\ \A g \in net' : FrameOK(g)'
        /\ \A s \in Dialers : DialerOK(s, csess[s])'
        /\ \A w \in Servers : ServerOK(w, sess[w])'
    BY <2>1, OldFrames DEF hostVars, acVars
  <2>4. net' = net /\ asked' \subseteq {g \in net' : g.hdr.src = "host"}  BY <1>1, <2>1
  <2>5. sess'[listener].state = "LISTENING"  BY <2>1 DEF NetInv, acVars
  <2> QED BY <2>2, <2>3, <2>4, <2>5 DEF NetInv
<1> QED BY <1>2, <1>3, <1>4, <1>5 DEF Next, ServerStep
(* The two nodes start within their invariants.                            *)
LEMMA HostStarts == Init => Host!IndInv
<1> SUFFICES ASSUME Init PROVE Host!IndInv  OBVIOUS
<1>1. Host!ZeroSession \in Host!Session
  BY NetAssumption DEF Host!ZeroSession, Host!Session, Host!State
<1>2. Host!Silent \in Host!Output  BY DEF Host!Silent, Host!Output
<1>3. Host!TypeOK
  <2>1. 1 \in 1..MaxSid /\ <<>> \in Seq(Dialers)  BY NetAssumption
  <2>2. csess \in [Dialers -> Host!Session]  BY <1>1 DEF Init
  <2> QED BY <1>2, <2>1, <2>2 DEF Init, Host!TypeOK, Addr
<1>4. \A s \in Dialers : csess[s] = Host!ZeroSession  BY DEF Init
<1>5. \A s \in Dialers : Host!SessionOK(s, csess[s])
  BY <1>1, <1>4 DEF Host!ZeroSession, Host!SessionOK, Host!PacketOK, Host!HeaderOK,
     Host!Negotiating, Host!Established, Host!Waiting, Host!State
<1>6. Host!Members(<<>>) = {} /\ Host!NoDuplicates(<<>>)
  BY DEF Host!Members, Host!NoDuplicates
<1>7. \A s \in Dialers : csess[s].state = "SNONE"  BY <1>4 DEF Host!ZeroSession
<1> QED BY <1>3, <1>5, <1>6, <1>7 DEF Init, Host!IndInv, Host!Established, Host!Waiting

LEMMA AcStarts == Init => Ac!IndInv
<1> SUFFICES ASSUME Init PROVE Ac!IndInv  OBVIOUS
<1> DEFINE neg == Ac!NewNeg("PADT", "", "")
           old == [Ac!ZeroSession EXCEPT !.state = "LISTENING", !.neg = neg]
<1>1. Ac!ZeroSession \in Ac!Session
  BY NetAssumption DEF Ac!ZeroSession, Ac!Session, Ac!State
<1>2. neg \in Ac!Neg
  <2>1. Ac!ProtoHeader("PADT") \in Ac!Header
    BY NetAssumption
    DEF Ac!ProtoHeader, Ac!Header, Ac!ConfigEtype, Ac!DiscEtype, Ac!Code, Addr
  <2>2. <<>> \in Seq(Name)  OBVIOUS
  <2>3. Ac!NoTags \in Ac!Tags  BY <2>2 DEF Ac!NoTags, Ac!Tags
  <2>4. "" \in Name /\ 0 \in 0..2  BY DEF Name
  <2> QED BY <2>1, <2>3, <2>4 DEF Ac!NewNeg, Ac!Neg, Ac!Frame
<1>3. /\ old \in Ac!Session /\ old.state = "LISTENING" /\ old.neg = neg
      /\ old.sid = 0 /\ old.hdr = NULL /\ old.callout = 0
  <2> HIDE DEF neg
  <2> QED BY <1>1, <1>2 DEF Ac!Session, Ac!ZeroSession, Ac!State
<1>4. sess[listener] = old /\ \A v \in Servers : sess[v] = Ac!ZeroSession
  BY NetAssumption DEF Init
<1> HIDE DEF old
<1>5. sess \in [Servers \cup {listener} -> Ac!Session]
  BY <1>1, <1>3, <1>4 DEF Init
<1>6. Ac!Silent \in Ac!Output  BY DEF Ac!Silent, Ac!Output
<1>7. Ac!TypeOK
  <2>1. listeners \in Seq(Servers \cup {listener}) /\ hash \in Seq(Servers \cup {listener})
    BY DEF Init
  <2>2. 1 \in 1..MaxSid  BY NetAssumption
  <2> QED BY <1>5, <1>6, <2>1, <2>2 DEF Init, Ac!TypeOK, Addr
<1>8. Ac!SessionOK(listener, old)
  BY <1>2, <1>3, AcMeets DEF Ac!SessionOK, Ac!PacketOK, Ac!HeaderOK, Ac!NullAssumption,
     Ac!Negotiating, Ac!Established, Ac!Waiting, Ac!State
<1>9. \A v \in Servers : Ac!SessionOK(v, Ac!ZeroSession)
  BY <1>1 DEF Ac!ZeroSession, Ac!SessionOK, Ac!PacketOK, Ac!HeaderOK,
     Ac!Negotiating, Ac!Established, Ac!Waiting, Ac!State
<1>10. /\ Ac!Members(hash) = {} /\ Ac!NoDuplicates(hash)
       /\ Ac!Members(listeners) = {listener} /\ Ac!NoDuplicates(listeners)
  BY DEF Init, Ac!Members, Ac!NoDuplicates
<1>11. \A v \in Servers : sess[v].state = "SNONE"  BY <1>4 DEF Ac!ZeroSession
<1> QED BY <1>3, <1>4, <1>7, <1>8, <1>9, <1>10, <1>11
    DEF Init, Ac!IndInv, Ac!Established, Ac!Waiting

LEMMA NetStarts == Init => NetInv
<1> SUFFICES ASSUME Init PROVE NetInv  OBVIOUS
<1>1. \A s \in Dialers : DialerOK(s, csess[s])
  <2>1. \A s \in Dialers : csess[s] = Host!ZeroSession  BY DEF Init
  <2> QED BY <2>1 DEF DialerOK, Host!SourceIs, Host!ZeroSession, Host!Established
<1>2. \A v \in Servers : ServerOK(v, sess[v])
  <2>1. \A v \in Servers : sess[v] = Ac!ZeroSession  BY DEF Init
  <2> QED BY <2>1 DEF ServerOK, Ac!SourceIs, Ac!ZeroSession, Ac!Established
<1>3. sess[listener].state = "LISTENING"
  BY NetAssumption DEF Init, Ac!ZeroSession
<1> QED BY <1>1, <1>2, <1>3, HostStarts, AcStarts DEF Init, NetInv

----------------------------------------------------------------------------
(* Frames of other kinds are not counted.                                  *)
LEMMA SameTags ==
    ASSUME net \subseteq net', \A f \in net' : f \in net \/ f.hdr.code \notin {"PADO", "PADS"}
    PROVE  \A v : Pado(v)' = Pado(v) /\ Pads(v)' = Pads(v)
BY DEF Pado, Pads

(* All steps but an offer and a confirmation leave them alone.             *)
LEMMA QuietNet ==
    ASSUME NetInv, [Next]_vars, ~ \E v \in Servers, f \in net : AcOffers(v, f) \/ AcPadr(v, f)
    PROVE  /\ \A v : Pado(v)' = Pado(v) /\ Pads(v)' = Pads(v)
           /\ pppoe_sid' = pppoe_sid
<1>1. net \subseteq net'  BY NetStep
<1>2. ASSUME NEW s \in Dialers, HostStep(s) \/ HostNewHook(s)
      PROVE  /\ \A f \in net' : f \in net \/ f.hdr.code \notin {"PADO", "PADS"}
             /\ pppoe_sid' = pppoe_sid
  BY <1>2, HostSends, HostIsNode DEF acVars
<1>3. ASSUME NEW v \in Servers, OtherStep(v)
      PROVE  /\ \A f \in net' : f \in net \/ f.hdr.code \notin {"PADO", "PADS"}
             /\ pppoe_sid' = pppoe_sid
  BY <1>3, OtherSends, OtherEffect
<1>4. ASSUME NEW f \in net, AcListens(f)  PROVE net' = net /\ pppoe_sid' = pppoe_sid
  <2>1. (\E u : out' = Ac!Emit(<<>>, u, <<>>)) /\ Sent(out') /\ pppoe_sid' = pppoe_sid
    BY <1>4 DEF AcListens, Ac!RcvPadi, Ac!listVars
  <2> QED BY <2>1, AcSilent
<1>5. CASE UNCHANGED vars  BY <1>5, SameTags DEF vars, acVars
<1> QED BY <1>1, <1>2, <1>3, <1>4, <1>5, SameTags DEF Next, OtherStep

(* An offer adds its PADO, a confirmation its PADS.                        *)
LEMMA OfferOnNet ==
    ASSUME NetInv, NEW v \in Servers, NEW f, AcOffers(v, f), sess'[v].state = "SOFFER"
    PROVE  \E p : /\ Pado(v)' = Pado(v) \cup {p} /\ \A w : Pads(w)' = Pads(w)
                  /\ \A w : w # v => Pado(w)' = Pado(w)
<1>1. ServerStep(v)  BY DEF ServerStep, AcOffers, NetInv
<1>2. Ac!SessionOK(v, sess'[v])  BY <1>1, ServerNodeStep DEF Ac!IndInv
<1> DEFINE p == sess'[v].neg.pkt
<1>3. p.hdr.code = "PADO" /\ p.tags.cookie = v
  BY <1>2 DEF Ac!SessionOK, Ac!PacketOK
<1>4. net' = net \cup {p}  BY Offering
<1> QED BY <1>3, <1>4 DEF Pado, Pads

LEMMA ConfirmOnNet ==
    ASSUME NetInv, NEW v \in Servers, NEW f \in net, AcPadr(v, f)
    PROVE  LET p == sess'[v].neg.pkt
           IN  /\ Pads(v)' = Pads(v) \cup {p} /\ \A w : Pado(w)' = Pado(w)
               /\ \A w : w # v => Pads(w)' = Pads(w)
               /\ p.hdr.sid = sess'[v].sid
BY Confirming DEF Pado, Pads

(* OnceInv is inductive, as long as no address is used again.              *)
LEMMA OnceStep ==
    ASSUME ~ Reuse, NetInv, OnceInv, [Next]_vars
    PROVE  OnceInv'
<1>1. ASSUME UNCHANGED <<hooks, sess>>, fresh' \subseteq fresh,
             \A v : Pado(v)' = Pado(v) /\ Pads(v)' = Pads(v)
      PROVE  OnceInv'
  BY <1>1 DEF OnceInv
<1>2. ASSUME NEW v \in Servers, OtherStep(v)  PROVE OnceInv'
  <2>1. /\ \A w : Pado(w)' = Pado(w) /\ Pads(w)' = Pads(w)
        /\ \A w \in Servers \ {v} : sess'[w] = sess[w]
    <3>1. ServerStep(v)  BY <1>2 DEF ServerStep, OtherStep
    <3>2. net \subseteq net'  BY <3>1, ServerIsNode
    <3> QED BY <1>2, <3>1, <3>2, ServerNodeStep, OtherSends, SameTags
  <2>2. CASE (Kept(v) \/ Primed(v) \/ Used(v)) /\ hooks' = hooks /\ fresh' = fresh
    BY <2>1, <2>2 DEF OnceInv, Kept, Primed, Used
  <2>3. CASE Gone(v)  BY <2>1, <2>3 DEF OnceInv, Gone, Ac!ZeroSession
  <2>4. CASE Came(v)  BY <2>1, <2>4 DEF OnceInv, Came, Allocated, Ac!ZeroSession
  <2> QED BY <1>2, <2>2, <2>3, <2>4, OtherEffect
<1>3. ASSUME NEW v \in Servers, NEW f \in net, AcOffers(v, f)  PROVE OnceInv'
  <2>1. ServerStep(v)  BY <1>3 DEF ServerStep
  <2>2. \A w \in Servers \ {v} : sess'[w] = sess[w]  BY <2>1, ServerNodeStep
  <2>3. sess[v].state = "PRIMED" /\ v \in hooks /\ hooks' = hooks /\ fresh' = fresh
    BY <1>3, Offering
  <2>4. CASE sess'[v].state = "PRIMED" /\ net' = net
    BY <2>2, <2>3, <2>4 DEF OnceInv, Pado, Pads
  <2>5. CASE sess'[v].state = "SOFFER"
    <3>1. PICK p : /\ Pado(v)' = Pado(v) \cup {p} /\ \A w : Pads(w)' = Pads(w)
                   /\ \A w : w # v => Pado(w)' = Pado(w)
      BY <1>3, <2>5, OfferOnNet
    <3>2. Pado(v) = {} /\ v \notin fresh  BY <2>3 DEF OnceInv
    <3>3. Pads(v) = {}  BY <3>2 DEF NetInv, FrameOK, Offered, Pads
    <3> QED BY <2>2, <2>3, <2>5, <3>1, <3>2, <3>3 DEF OnceInv
  <2> QED BY <1>3, <2>4, <2>5, Offering
<1>4. ASSUME NEW v \in Servers, NEW f \in net, AcPadr(v, f)  PROVE OnceInv'
  <2>1. ServerStep(v)  BY <1>4 DEF ServerStep
  <2>2. \A w \in Servers \ {v} : sess'[w] = sess[w]  BY <2>1, ServerNodeStep
  <2>3. /\ sess'[v].state = "NEWCONNECTED" /\ v \in hooks /\ hooks' = hooks
        /\ fresh' = fresh
    BY <1>4, Confirming
  <2>4. /\ \A w : Pado(w)' = Pado(w)
        /\ \A w : w # v => Pads(w)' = Pads(w)
    BY <1>4, ConfirmOnNet
  <2> QED BY <2>2, <2>3, <2>4 DEF OnceInv
<1>5. CASE ~ \E v \in Servers, f \in net : AcOffers(v, f) \/ AcPadr(v, f)
  <2>1. \A v : Pado(v)' = Pado(v) /\ Pads(v)' = Pads(v)  BY <1>5, QuietNet
  <2>2. ASSUME NEW s \in Dialers, HostStep(s) \/ HostNewHook(s)
        PROVE  UNCHANGED <<hooks, sess>> /\ fresh' \subseteq fresh
    BY <2>2 DEF HostStep, HostNewHook, Allocated, acVars
  <2>3. ASSUME NEW f \in net, AcListens(f)
        PROVE  UNCHANGED <<hooks, sess>> /\ fresh' \subseteq fresh
    BY <2>3 DEF AcListens, Ac!RcvPadi
  <2>4. CASE UNCHANGED vars  BY <1>1, <2>1, <2>4 DEF vars, acVars
  <2> QED BY <1>1, <1>2, <1>5, <2>1, <2>2, <2>3, <2>4 DEF Next, OtherStep
<1> QED BY <1>3, <1>4, <1>5
LEMMA OnceStarts == Init => OnceInv
<1> SUFFICES ASSUME Init PROVE OnceInv  OBVIOUS
<1>1. \A v : Pado(v) = {} /\ Pads(v) = {}  BY DEF Init, Pado, Pads
<1>2. \A v \in Servers : v \notin hooks  BY NetAssumption DEF Init
<1> QED BY <1>1, <1>2 DEF OnceInv

(* As long as no address of a sess_con is used again, however frames are   *)
(* repeated and reordered, a hook with an offer takes only a PADR that     *)
(* returns the Host-Uniq of the PADI it offered to.                        *)
THEOREM OffersAreAnswered == ~ Reuse => (Spec => AnswersOwnOffer)
<1> SUFFICES ASSUME ~ Reuse PROVE Spec => AnswersOwnOffer  OBVIOUS
<1> DEFINE Own == \A s \in Servers, f \in net : AcPadr(s, f) /\ sess[s].state = "SOFFER" =>
                      f.tags.uniq = sess[s].neg.pkt.tags.uniq
<1>1. ASSUME NetInv, OnceInv  PROVE Own
  <2> SUFFICES ASSUME NEW v \in Servers, NEW f \in net, AcPadr(v, f),
                      sess[v].state = "SOFFER"
               PROVE  f.tags.uniq = sess[v].neg.pkt.tags.uniq
    OBVIOUS
  <2> DEFINE pado == sess[v].neg.pkt
  <2>1. f.hdr.code = "PADR" /\ f.tags.cookie = v  BY <1>1, Confirming
  <2>2. PICK g \in Pado(v) : g.tags.uniq = f.tags.uniq
    BY <1>1, <2>1 DEF NetInv, FrameOK, Offered
  <2>3. pado \in net  BY <1>1, OfServer DEF ServerOK
  <2>4. pado.hdr.code = "PADO" /\ pado.tags.cookie = v
    BY <1>1, OfServer DEF Ac!SessionOK, Ac!PacketOK
  <2>5. pado \in Pado(v)  BY <2>3, <2>4 DEF Pado
  <2> QED BY <1>1, <2>2, <2>5 DEF OnceInv
<1>2. NetInv /\ [Next]_vars => NetInv'  BY NetStep
<1>3. NetInv /\ OnceInv /\ [Next]_vars => OnceInv'  BY OnceStep
<1>4. NetInv /\ OnceInv /\ [Next]_vars => [Own]_vars  BY <1>1
<1> QED BY <1>2, <1>3, <1>4, NetStarts, OnceStarts, PTL DEF Spec, AnswersOwnOffer

----------------------------------------------------------------------------
(* There are ids enough for every address a sess_con may have.             *)
NoWrap == IsFiniteSet(Servers) /\ Cardinality(Servers) < MaxSid

(* An id in use was given out, so it is below the counter.                 *)
LEMMA UsedIsGiven ==
    ASSUME NetInv, IdsInv, NEW id, Ac!InUse(id)
    PROVE  id < pppoe_sid
<1>1. PICK i \in DOMAIN hash : sess[hash[i]].sid = id  BY DEF Ac!InUse
<1> DEFINE v == hash[i]
<1>2. v \in Servers \cup {listener} /\ sess[v].state \in Ac!Established
  BY DEF NetInv, Ac!IndInv, Ac!TypeOK, Ac!Members
<1>3. v \in Servers  BY <1>2 DEF NetInv, Ac!Established
<1>4. \E f \in Pads(v) : f.hdr.sid = sess[v].sid
  BY <1>2, <1>3 DEF NetInv, ServerOK, Ac!Established
<1> QED BY <1>1, <1>3, <1>4 DEF IdsInv

(* With ids left the counter's value is free, and it is the one taken.     *)
LEMMA TakesCounter ==
    ASSUME NetInv, IdsInv, pppoe_sid < MaxSid, NEW id, NEW next, Ac!NewSession(id, next)
    PROVE  id = pppoe_sid /\ next = pppoe_sid + 1
<1>1. pppoe_sid \in 1..MaxSid /\ MaxSid \in Nat
  BY NetAssumption DEF NetInv, Ac!IndInv, Ac!TypeOK
<1>2. ~ Ac!InUse(pppoe_sid)  BY <1>1, UsedIsGiven
<1>3. pppoe_sid \in pppoe_sid..(MaxSid - 1)  BY <1>1
<1>4. /\ id \in 1..(MaxSid - 1) /\ id >= pppoe_sid
      /\ \A x \in pppoe_sid..(id - 1) : Ac!InUse(x)
      /\ next = id + 1
  BY <1>2, <1>3 DEF Ac!NewSession
<1>5. pppoe_sid \notin pppoe_sid..(id - 1)  BY <1>2, <1>4
<1> QED BY <1>1, <1>4, <1>5

(* One more hook with an id is still no more than there are.               *)
LEMMA GivenOneMore ==
    ASSUME NoWrap, NEW v \in Servers, v \notin Given
    PROVE  /\ Cardinality(Given \cup {v}) = Cardinality(Given) + 1
           /\ Cardinality(Given) \in Nat /\ Cardinality(Given) + 1 < MaxSid
<1>1. Given \subseteq Servers /\ Given \cup {v} \subseteq Servers  BY DEF Given
<1>2. IsFiniteSet(Given) /\ Cardinality(Given \cup {v}) <= Cardinality(Servers)
  BY <1>1, FS_Subset DEF NoWrap
<1>3. Cardinality(Given \cup {v}) = Cardinality(Given) + 1
  BY <1>2, FS_AddElement
<1>4. Cardinality(Given) \in Nat /\ Cardinality(Servers) \in Nat
  BY <1>2, FS_CardinalityType DEF NoWrap
<1> QED BY <1>2, <1>3, <1>4, NetAssumption DEF NoWrap

(* IdsInv is inductive while there are ids left.                           *)
LEMMA IdsStep ==
    ASSUME NoWrap, NetInv, OnceInv, IdsInv, [Next]_vars
    PROVE  IdsInv'
<1>1. ASSUME \A v : Pads(v)' = Pads(v), pppoe_sid' = pppoe_sid  PROVE IdsInv'
  <2>1. Given' = Given  BY <1>1 DEF Given
  <2> QED BY <1>1, <2>1 DEF IdsInv
<1>2. ASSUME NEW v \in Servers, NEW f \in net, AcOffers(v, f)  PROVE IdsInv'
  <2>1. pppoe_sid' = pppoe_sid  BY <1>2, Offering
  <2>2. \A w : Pads(w)' = Pads(w)
    <3>1. CASE sess'[v].state = "PRIMED" /\ net' = net  BY <3>1 DEF Pads
    <3>2. CASE sess'[v].state = "SOFFER"  BY <1>2, <3>2, OfferOnNet
    <3> QED BY <1>2, <3>1, <3>2, Offering
  <2> QED BY <1>1, <2>1, <2>2
<1>3. ASSUME NEW v \in Servers, NEW f \in net, AcPadr(v, f)  PROVE IdsInv'
  <2> DEFINE p == sess'[v].neg.pkt
  <2>1. /\ Pads(v)' = Pads(v) \cup {p} /\ \A w : w # v => Pads(w)' = Pads(w)
        /\ p.hdr.sid = sess'[v].sid
    BY <1>3, ConfirmOnNet
  <2> HIDE DEF p
  <2>2. CASE sess[v].state = "NEWCONNECTED" /\ sess'[v].sid = sess[v].sid
             /\ pppoe_sid' = pppoe_sid
    <3>1. PICK f0 \in Pads(v) : f0.hdr.sid = sess[v].sid
      BY <2>2 DEF NetInv, ServerOK
    <3>2. Given' = Given  BY <2>1, <3>1 DEF Given
    <3>3. p.hdr.sid = f0.hdr.sid  BY <2>1, <2>2, <3>1
    <3> QED BY <2>1, <2>2, <3>1, <3>2, <3>3 DEF IdsInv
  <2>3. CASE sess[v].state = "SOFFER" /\ Ac!NewSession(sess'[v].sid, pppoe_sid')
    <3>1. Pads(v) = {}  BY <2>3 DEF OnceInv
    <3>2. v \notin Given /\ Given' = Given \cup {v}  BY <2>1, <3>1 DEF Given
    <3>3. /\ Cardinality(Given') = Cardinality(Given) + 1
          /\ Cardinality(Given) \in Nat /\ pppoe_sid < MaxSid
      BY <3>2, GivenOneMore DEF IdsInv
    <3>4. p.hdr.sid = pppoe_sid /\ pppoe_sid' = pppoe_sid + 1
      BY <2>1, <2>3, <3>3, TakesCounter
    <3>5. pppoe_sid' = Cardinality(Given') + 1  BY <3>3, <3>4 DEF IdsInv
    <3>6. \A w : \A g \in Pads(w) : g.hdr.sid \in Int
      BY NetFrames DEF Pads, Frames, Frame
    <3>7. Pads(v)' = {p}  BY <2>1, <3>1
    <3>8. pppoe_sid \in Nat  BY <3>3 DEF IdsInv
    <3>9. ASSUME NEW w \in Servers, NEW u \in Servers, NEW g \in Pads(w)', NEW h \in Pads(u)'
          PROVE  g.hdr.sid < pppoe_sid' /\ (g.hdr.sid = h.hdr.sid <=> w = u)
      <4>1. ASSUME w # v PROVE g \in Pads(w) /\ g.hdr.sid < pppoe_sid /\ g.hdr.sid \in Int
        BY <2>1, <3>6, <3>9, <4>1 DEF IdsInv
      <4>2. ASSUME u # v PROVE h \in Pads(u) /\ h.hdr.sid < pppoe_sid /\ h.hdr.sid \in Int
        BY <2>1, <3>6, <3>9, <4>2 DEF IdsInv
      <4>3. ASSUME w = v PROVE g.hdr.sid = pppoe_sid  BY <3>4, <3>7, <3>9, <4>3
      <4>4. ASSUME u = v PROVE h.hdr.sid = pppoe_sid  BY <3>4, <3>7, <3>9, <4>4
      <4>5. CASE w # v /\ u # v
        <5>1. g.hdr.sid = h.hdr.sid <=> w = u  BY <4>1, <4>2, <4>5 DEF IdsInv
        <5> QED BY <3>4, <3>8, <4>1, <4>5, <5>1
      <4>6. CASE w = v \/ u = v  BY <3>4, <3>8, <4>1, <4>2, <4>3, <4>4, <4>6
      <4> QED BY <4>5, <4>6
    <3> QED BY <3>5, <3>9 DEF IdsInv
  <2> QED BY <1>3, <2>2, <2>3, Confirming
<1>4. CASE ~ \E v \in Servers, f \in net : AcOffers(v, f) \/ AcPadr(v, f)
  BY <1>1, <1>4, QuietNet
<1> QED BY <1>2, <1>3, <1>4

LEMMA IdsStarts == Init => IdsInv
<1> SUFFICES ASSUME Init PROVE IdsInv  OBVIOUS
<1>1. \A v : Pads(v) = {}  BY DEF Init, Pads
<1>2. Cardinality(Given) = 0  BY <1>1, FS_EmptySet DEF Given
<1> QED BY <1>1, <1>2 DEF Init, IdsInv

(* As long as no address of a sess_con is used again and the ids do not    *)
(* wrap, no two dialled sessions of the host have the same Session_ID:     *)
(* the PADS of one id are of one hook, its PADO are of one PADI, and that  *)
(* is one dialer's.                                                        *)
THEOREM LinksAreExclusive == ~ Reuse /\ NoWrap => (Spec => []OneDialerPerLink)
<1> SUFFICES ASSUME ~ Reuse, NoWrap PROVE Spec => []OneDialerPerLink  OBVIOUS
<1>1. ASSUME NetInv, OnceInv, IdsInv  PROVE OneDialerPerLink
  <2> SUFFICES ASSUME NEW s \in Host!InState({"CONNECTED"}),
                      NEW t \in Host!InState({"CONNECTED"}),
                      csess[s].sid = csess[t].sid
               PROVE  s = t
    BY DEF OneDialerPerLink
  <2>1. /\ s \in Dialers /\ csess[s].state = "CONNECTED"
        /\ t \in Dialers /\ csess[t].state = "CONNECTED"
    BY <1>1 DEF NetInv, Host!IndInv, Host!TypeOK, Host!InState
  <2>2. ASSUME NEW r \in Dialers, csess[r].state = "CONNECTED"
        PROVE  \E v \in Servers : \E f \in Pads(v), g \in Pado(v) :
                  f.hdr.sid = csess[r].sid /\ f.tags.uniq = r /\ g.tags.uniq = r
    <3>1. PICK f \in net : f.hdr.code = "PADS" /\ f.tags.uniq = r
                           /\ f.hdr.sid = csess[r].sid
      BY <1>1, <2>2 DEF NetInv, DialerOK
    <3>2. PICK g \in Pado(f.tags.cookie) : g.tags.uniq = r
      BY <1>1, <3>1 DEF NetInv, FrameOK, Offered
    <3>3. f.tags.cookie \in Servers  BY <1>1, <3>2 DEF NetInv, FrameOK, Pado
    <3> QED BY <3>1, <3>2, <3>3 DEF Pads
  <2>3. PICK v \in Servers : \E f \in Pads(v), g \in Pado(v) :
                  f.hdr.sid = csess[s].sid /\ f.tags.uniq = s /\ g.tags.uniq = s
    BY <2>1, <2>2
  <2>4. PICK w \in Servers : \E f \in Pads(w), g \in Pado(w) :
                  f.hdr.sid = csess[t].sid /\ f.tags.uniq = t /\ g.tags.uniq = t
    BY <2>1, <2>2
  <2>5. v = w  BY <1>1, <2>3, <2>4 DEF IdsInv
  <2> QED BY <1>1, <2>3, <2>4, <2>5 DEF OnceInv
<1>2. NetInv /\ [Next]_vars => NetInv'  BY NetStep
<1>3. NetInv /\ OnceInv /\ [Next]_vars => OnceInv'  BY OnceStep
<1>4. NetInv /\ OnceInv /\ IdsInv /\ [Next]_vars => IdsInv'  BY IdsStep
<1> QED BY <1>1, <1>2, <1>3, <1>4, NetStarts, OnceStarts, IdsStarts, PTL DEF Spec
----------------------------------------------------------------------------
(* A session that confirmed an id confirmed it to one dialer, and nothing  *)
(* else to anybody: its PADS have one id, which no other session's has,    *)
(* and return the tags of one PADI.                                        *)
LEMMA OneWasTold ==
    ASSUME NetInv, OnceInv, IdsInv, NEW f \in net, f.hdr.code = "PADS"
    PROVE  /\ f.tags.cookie \in Servers
           /\ MadeFor(f.tags.cookie, f.tags.uniq, f.hdr.sid)
<1> DEFINE v == f.tags.cookie
           told == {g \in net : g.hdr.code = "PADS" /\ (g.tags.cookie = v \/ g.hdr.sid = f.hdr.sid)}
<1>1. ASSUME NEW g \in net, g.hdr.code = "PADS"
      PROVE  /\ g.tags.cookie \in Servers /\ g \in Pads(g.tags.cookie)
             /\ \E h \in Pado(g.tags.cookie) : h.tags.uniq = g.tags.uniq
  <2>1. PICK h \in Pado(g.tags.cookie) : h.tags.uniq = g.tags.uniq
    BY <1>1 DEF NetInv, FrameOK, Offered
  <2>2. g.tags.cookie \in Servers  BY <2>1 DEF NetInv, FrameOK, Pado
  <2> QED BY <1>1, <2>1, <2>2 DEF Pads
<1>2. v \in Servers /\ f \in Pads(v) /\ f \in told  BY <1>1
<1>3. ASSUME NEW g \in told
      PROVE  g.tags.cookie = v /\ g.tags.uniq = f.tags.uniq /\ g.hdr.sid = f.hdr.sid
  <2> DEFINE w == g.tags.cookie
  <2>1. w \in Servers /\ g \in Pads(w)  BY <1>1
  <2>2. w = v /\ g.hdr.sid = f.hdr.sid  BY <1>2, <2>1 DEF IdsInv
  <2>3. PICK h \in Pado(v) : h.tags.uniq = g.tags.uniq  BY <1>1, <2>2
  <2>4. PICK k \in Pado(v) : k.tags.uniq = f.tags.uniq  BY <1>1
  <2>5. h.tags.uniq = k.tags.uniq  BY <1>2 DEF OnceInv
  <2> QED BY <2>2, <2>3, <2>4, <2>5
<1>4. told # {}  BY <1>2
<1> QED BY <1>2, <1>3, <1>4 DEF MadeFor

(* The id of a session of the concentrator was confirmed by it.            *)
LEMMA OneHasIt ==
    ASSUME NetInv, OnceInv, IdsInv, NEW v, NEW s, NEW w \in Ac!InState(Ac!Established),
           MadeFor(v, s, sess[w].sid)
    PROVE  w = v
<1>1. w \in Servers
  BY DEF NetInv, Ac!IndInv, Ac!TypeOK, Ac!InState, Ac!Established
<1>2. PICK f \in Pads(w) : f.hdr.sid = sess[w].sid
  BY <1>1 DEF NetInv, ServerOK, Ac!InState, Ac!Established
<1> QED BY <1>2 DEF Pads, MadeFor

(* Whatever is lost, repeated, reordered or late, as long as no address of *)
(* a sess_con is used again and the ids do not wrap: a link of the host    *)
(* leads to the one session that was made for its dialer.                  *)
THEOREM LinksAlwaysAgree == ~ Reuse /\ NoWrap => (Spec => []LinksAgree)
<1> SUFFICES ASSUME ~ Reuse, NoWrap PROVE Spec => []LinksAgree  OBVIOUS
<1>1. ASSUME NetInv, OnceInv, IdsInv  PROVE LinksAgree
  <2> SUFFICES ASSUME NEW s \in Host!InState({"CONNECTED"})
               PROVE  \E v \in Servers :
                         /\ MadeFor(v, s, csess[s].sid)
                         /\ \A w \in Ac!InState(Ac!Established) :
                               sess[w].sid = csess[s].sid => w = v
    BY DEF LinksAgree
  <2>1. s \in Dialers /\ csess[s].state = "CONNECTED"
    BY <1>1 DEF NetInv, Host!IndInv, Host!TypeOK, Host!InState
  <2>2. PICK f \in net : f.hdr.code = "PADS" /\ f.tags.uniq = s /\ f.hdr.sid = csess[s].sid
    BY <1>1, <2>1 DEF NetInv, DialerOK
  <2> DEFINE v == f.tags.cookie
  <2>3. v \in Servers /\ MadeFor(v, s, csess[s].sid)  BY <1>1, <2>2, OneWasTold
  <2>4. ASSUME NEW w \in Ac!InState(Ac!Established), sess[w].sid = csess[s].sid
        PROVE  w = v
    <3>1. MadeFor(v, s, sess[w].sid)  BY <2>3, <2>4
    <3> QED BY <1>1, <3>1, OneHasIt
  <2> QED BY <2>3, <2>4
<1>2. NetInv /\ [Next]_vars => NetInv'  BY NetStep
<1>3. NetInv /\ OnceInv /\ [Next]_vars => OnceInv'  BY OnceStep
<1>4. NetInv /\ OnceInv /\ IdsInv /\ [Next]_vars => IdsInv'  BY IdsStep
<1> QED BY <1>1, <1>2, <1>3, <1>4, NetStarts, OnceStarts, IdsStarts, PTL DEF Spec

----------------------------------------------------------------------------
(* What the host sent a dialer sent, and with an id only when told of it.  *)
Told(s, id) == \E g \in net : /\ g.hdr.code = "PADS" /\ g.tags.uniq = s /\ g.hdr.sid = id
SaidInv ==
    /\ \A f \in net : f.hdr.src = "host" => \E s \in Dialers : <<s, f>> \in said
    /\ \A s \in Dialers : \A f : <<s, f>> \in said /\ f.hdr.sid # 0 => Told(s, f.hdr.sid)

(* A dialer that sends a frame with an id was told of the id: it is the    *)
(* one of its link, since before that its packets have none.               *)
LEMMA SaysWhatItKnows ==
    ASSUME NetInv, NEW s \in Dialers, HostStep(s), NEW f \in Members(cout'.eth),
           f.hdr.sid # 0
    PROVE  Told(s, f.hdr.sid)
<1>1. PICK i \in DOMAIN cout'.eth : f = cout'.eth[i]  BY DEF Members
<1>2. Host!IndInv /\ Host!SessNext(s) /\ Host!IndInv'
  BY HostNodeStep, HostIsNode DEF NetInv
<1>3. /\ DialerOK(s, csess[s]) /\ DialerOK(s, csess[s])'
      /\ Host!SessionOK(s, csess[s]) /\ Host!SessionOK(s, csess'[s])
  BY <1>2, OfDialer, DialerStep DEF Host!IndInv
<1>4. CASE csess[s].state \in {"SINIT", "SREQ"} /\ cout'.eth[i] = csess[s].neg.pkt
  BY <1>1, <1>3, <1>4 DEF Host!SessionOK, Host!PacketOK, Host!Waiting
<1>5. CASE csess'[s].state \in {"SINIT", "SREQ", "SOFFER", "NEWCONNECTED"}
           /\ cout'.eth[i] = csess'[s].neg.pkt
  BY <1>1, <1>3, <1>5 DEF Host!SessionOK, Host!PacketOK, Host!Waiting, DialerOK
<1>6. CASE csess[s].state \in Host!Established /\ cout'.eth[i].hdr.sid = csess[s].sid
  BY <1>1, <1>3, <1>6 DEF DialerOK, Host!Established, Told
<1> QED BY <1>2, <1>4, <1>5, <1>6, HostMeets, Host!HookSends

(* SaidInv is inductive.                                                   *)
LEMMA SaidStep ==
    ASSUME NetInv, SaidInv, [Next]_vars
    PROVE  SaidInv'
<1>1. net \subseteq net' /\ \A s, id : Told(s, id) => Told(s, id)'
  BY NetStep DEF Told
<1>2. ASSUME said' = said, \A f \in net' : f \in net \/ f.hdr.src # "host"
      PROVE  SaidInv'
  BY <1>1, <1>2 DEF SaidInv
<1>3. ASSUME NEW s \in Dialers, HostStep(s)  PROVE SaidInv'
  <2>1. /\ said' = said \cup {<<s, f>> : f \in Members(cout'.eth)}
        /\ net' = net \cup Members(cout'.eth)
    BY <1>3 DEF HostStep, Sent
  <2>2. ASSUME NEW f \in net', f.hdr.src = "host"
        PROVE  \E t \in Dialers : <<t, f>> \in said'
    BY <2>1, <2>2 DEF SaidInv
  <2>3. ASSUME NEW t \in Dialers, NEW f, <<t, f>> \in said', f.hdr.sid # 0
        PROVE  Told(t, f.hdr.sid)'
    <3>1. CASE <<t, f>> \in said  BY <1>1, <2>3, <3>1 DEF SaidInv
    <3>2. CASE t = s /\ f \in Members(cout'.eth)
      BY <1>1, <1>3, <2>3, <3>2, SaysWhatItKnows
    <3> QED BY <2>1, <2>3, <3>1, <3>2
  <2> QED BY <2>2, <2>3 DEF SaidInv
<1>4. ASSUME NEW s \in Dialers, HostNewHook(s)  PROVE SaidInv'
  BY <1>2, <1>4 DEF HostNewHook
<1>5. ASSUME NEW v \in Servers, ServerStep(v)  PROVE SaidInv'
  <2>1. said' = said  BY <1>5, ServerIsNode DEF hostVars
  <2>2. \A f \in net' : f \in net \/ f.hdr.src # "host"  BY <1>5, ServerSends
  <2> QED BY <1>2, <2>1, <2>2
<1>6. ASSUME NEW f \in net, AcListens(f)  PROVE SaidInv'
  <2>1. (\E u : out' = Ac!Emit(<<>>, u, <<>>)) /\ Sent(out') /\ said' = said
    BY <1>6 DEF AcListens, Ac!RcvPadi, hostVars
  <2>2. net' = net  BY <2>1, AcSilent
  <2> QED BY <1>2, <2>1, <2>2
<1>7. CASE UNCHANGED vars  BY <1>2, <1>7 DEF vars, hostVars
<1> QED BY <1>3, <1>4, <1>5, <1>6, <1>7 DEF Next, ServerStep

(* Under the same conditions the concentrator accepts data for a session   *)
(* only from the dialer the session was made for.                          *)
THEOREM DataIsForLink == ~ Reuse /\ NoWrap => (Spec => DataForLink)
<1> SUFFICES ASSUME ~ Reuse, NoWrap PROVE Spec => DataForLink  OBVIOUS
<1> DEFINE Good == \A v \in Servers, f \in net : AcData(v, f) =>
                      /\ \E s \in Dialers : <<s, f>> \in said
                      /\ \A s \in Dialers : <<s, f>> \in said => MadeFor(v, s, f.hdr.sid)
<1>1. ASSUME NetInv, OnceInv, IdsInv, SaidInv  PROVE Good
  <2> SUFFICES ASSUME NEW v \in Servers, NEW f \in net, AcData(v, f)
               PROVE  /\ \E s \in Dialers : <<s, f>> \in said
                      /\ \A s \in Dialers : <<s, f>> \in said => MadeFor(v, s, f.hdr.sid)
    OBVIOUS
  <2>1. ServerOK(v, sess[v]) /\ Ac!SessionOK(v, sess[v])  BY <1>1, OfServer
  <2>2. sess[v].state \in Ac!Established /\ v \in hooks
    <3>1. sess[v].state \in Ac!Established  BY DEF AcData, Ac!RcvSessionData
    <3>2. v \notin hooks => sess[v].state = "SNONE"  BY <1>1, OfServer
    <3> QED BY <3>1, <3>2 DEF Ac!Established
  <2>3. sess[v].sid = f.hdr.sid
    BY DEF AcData, Ac!RcvSessionData, Ac!FindSession, Ac!FirstIn
  <2>4. f.hdr.sid # 0  BY <2>1, <2>2, <2>3 DEF Ac!SessionOK
  <2>5. f.hdr.src = "host"
    BY <1>1, NetFrames DEF AcData, Arriving, Frames
  <2>6. ASSUME NEW s \in Dialers, <<s, f>> \in said  PROVE MadeFor(v, s, f.hdr.sid)
    <3>1. PICK g \in net : g.hdr.code = "PADS" /\ g.tags.uniq = s /\ g.hdr.sid = f.hdr.sid
      BY <1>1, <2>4, <2>6 DEF SaidInv, Told
    <3> DEFINE w == g.tags.cookie
    <3>2. MadeFor(w, s, f.hdr.sid)  BY <1>1, <3>1, OneWasTold
    <3>3. MadeFor(w, s, sess[v].sid) /\ v \in Ac!InState(Ac!Established)
      BY <2>2, <2>3, <3>2 DEF Ac!InState
    <3>4. v = w  BY <1>1, <3>3, OneHasIt
    <3> QED BY <3>2, <3>4
  <2> QED BY <1>1, <2>5, <2>6 DEF SaidInv
<1>2. NetInv /\ [Next]_vars => NetInv'  BY NetStep
<1>3. NetInv /\ OnceInv /\ [Next]_vars => OnceInv'  BY OnceStep
<1>4. NetInv /\ OnceInv /\ IdsInv /\ [Next]_vars => IdsInv'  BY IdsStep
<1>5. NetInv /\ SaidInv /\ [Next]_vars => SaidInv'  BY SaidStep
<1>6. Init => SaidInv  BY DEF Init, SaidInv
<1>7. NetInv /\ OnceInv /\ IdsInv /\ SaidInv /\ [Next]_vars => [Good]_vars  BY <1>1
<1> QED BY <1>2, <1>3, <1>4, <1>5, <1>6, <1>7, NetStarts, OnceStarts, IdsStarts, PTL
        DEF Spec, DataForLink
=============================================================================
