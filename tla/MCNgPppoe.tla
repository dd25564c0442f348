----------------------------- MODULE MCNgPppoe -----------------------------
(* Inputs for model checking NgPppoe.                                      *)
EXTENDS NgPppoe, TLC

CONSTANTS s1, s2, s3   \* the addresses in Sess, model values

MCSess == {s1, s2, s3}
ClientSess == {s1, s2}
MCUniq == MCSess \cup {"u"}   \* "u": what a remote client put there
MCName == {"", "*", "isp", "ac"}
MCAddr == {"bcast", "nomac", "own", "p1", "p2"}

Symmetry == Permutations(MCSess)
ClientSymmetry == Permutations(ClientSess)

(* No action reads out: safety runs identify states that differ in it.     *)
View == <<node, aux, mode, mac, hooks, sess, listeners, hash, pppoe_sid, ticks, rmq>>

F(etype, code, id, src, tags) ==
    [hdr |-> [etype |-> etype, code |-> code, sid |-> id, src |-> src, dst |-> "own"],
     tags |-> tags]

(* The peer p1 speaks standard PPPoE, p2 the 3Com dialect.                 *)
DiscOf(p) == IF p = "p1" THEN "DISC" ELSE "3COM_DISC"

ClientTags == [NoTags EXCEPT !.srv = <<"">>, !.uniq = "u"]

(* What clients send to a server: PADI, PADR for any cookie, session data, *)
(* PADT.                                                                   *)
ServerFrames(slots, peers, ids) == UNION
    { {F(DiscOf(p), "PADI", 0, p, ClientTags)}
      \cup {F(DiscOf(p), "PADR", 0, p, [ClientTags EXCEPT !.cookie = s]) : s \in slots}
      \cup {F(SessTypeOf(DiscOf(p)), "DATA", id, p, NoTags) : id \in ids}
      \cup {F(DiscOf(p), "PADT", id, p, NoTags) : id \in ids}
      : p \in peers }

AcTags(s) == [NoTags EXCEPT !.srv = <<"isp">>, !.acn = "ac", !.uniq = s, !.cookie = "u"]

(* What concentrators send to a client.                                    *)
ClientFrames(slots, peers, ids) == UNION
    { {F(DiscOf(p), "PADO", 0, p, AcTags(s)) : s \in slots}
      \cup {F(DiscOf(p), "PADS", id, p, AcTags(s)) : s \in slots, id \in ids}
      \cup {F(SessTypeOf(DiscOf(p)), "DATA", id, p, NoTags) : id \in ids}
      \cup {F(DiscOf(p), "PADT", id, p, NoTags) : id \in ids}
      : p \in peers }

R(cmd, ac, svc) == [cmd |-> cmd, ac |-> ac, svc |-> svc]

ServerRequests == {R("LISTEN", "", "*"), R("LISTEN", "", "isp"),
                   R("OFFER", "ac", ""), R("SERVICE", "", "isp")}
ClientRequests == {R("CONNECT", "", "isp"), R("CONNECT", "ac", "")}

ServerInput == ServerFrames(MCSess, {"p1", "p2"}, 1..2)

(* A node that serves and dials at the same time.                          *)
MixedRequests == {R("LISTEN", "", "isp"), R("LISTEN", "", ""), R("OFFER", "ac", ""),
                  R("CONNECT", "", "isp")}
MixedInput == ServerFrames(ClientSess, {"p2"}, 1..2) \cup ClientFrames(ClientSess, {"p1"}, 1..2)

SmallRequests == {R("LISTEN", "", "*"), R("OFFER", "ac", ""), R("CONNECT", "", "isp")}
SmallInput == ServerFrames(ClientSess, {"p1"}, {1}) \cup ClientFrames(ClientSess, {"p1"}, {1})

(* A concentrator that confirms with Session_ID 0.                         *)
ZeroSidInput == ClientFrames(ClientSess, {"p1"}, {0, 1})
============================================================================
