---------------------------- MODULE PppoeSession ----------------------------
(***************************************************************************)
(* What a PPPoE node promises the daemons that use it, one session hook    *)
(* each, whatever happens on the Ethernet: a hook takes one part, at most  *)
(* once gets a link (a Session_ID and a peer), keeps it until the hook     *)
(* goes, and its daemon hears of exactly that.  NgPppoe and NgPppoeBefore  *)
(* implement this.                                                         *)
(***************************************************************************)
EXTENDS Integers

CONSTANTS
    Sess,   \* session hooks
    Ids,    \* Session_IDs of established sessions
    Peer    \* Ethernet addresses

VARIABLES
    part,   \* what each hook does, see Part
    link,   \* the links of each hook, at most one: [sid, peer]
    told    \* what the last step told the daemons: [ev, to]

vars == <<part, link, told>>

(* "none": there is no such hook; "fresh": a server's link that nobody has *)
(* used yet; "up": any other link.                                         *)
Part == {"none", "idle", "listener", "server", "client", "fresh", "up"}

Link == [sid : Ids, peer : Peer]

UsedIds == {l.sid : l \in UNION {link[s] : s \in Sess}}

(* The daemon of a hook hears of a link by its id and a success.           *)
News(s) == {[ev |-> e, to |-> s] : e \in {"SESSIONID", "SUCCESS"}}

Init ==
    /\ part = [s \in Sess |-> "none"] /\ link = [s \in Sess |-> {}]
    /\ told = {}

Move(s, from, to) == part[s] = from /\ part' = [part EXCEPT ![s] = to]

Attach(s) == Move(s, "none", "idle") /\ told' = {} /\ UNCHANGED link

Take(s, p) == Move(s, "idle", p) /\ told' = {} /\ UNCHANGED link

(* A client hears the name of the concentrator before it has a link.       *)
Offered(s) ==
    /\ part[s] = "client" /\ told' = {[ev |-> "ACNAME", to |-> s]}
    /\ UNCHANGED <<part, link>>

(* A server picks an id that no session has; a client is given one.        *)
Establish(s, l) ==
    /\ \/ Move(s, "client", "up")
       \/ Move(s, "server", "fresh") /\ l.sid \notin UsedIds
    /\ link' = [link EXCEPT ![s] = {l}]
    /\ told' = News(s)

(* The client asked again and gets the same answer, until it uses the link. *)
Repeat(s) ==
    /\ part[s] = "fresh" /\ told' = News(s)
    /\ UNCHANGED <<part, link>>

Use(s) == Move(s, "fresh", "up") /\ told' = {} /\ UNCHANGED link

Detach(s) ==
    /\ part[s] # "none" /\ part' = [part EXCEPT ![s] = "none"]
    /\ link' = [link EXCEPT ![s] = {}]
    /\ told' = IF part[s] = "idle" THEN {} ELSE {[ev |-> "CLOSE", to |-> s]}

Quiet == told' = {} /\ UNCHANGED <<part, link>>

Next ==
    \/ Quiet
    \/ \E s \in Sess : \/ Attach(s) \/ Offered(s) \/ Repeat(s) \/ Use(s) \/ Detach(s)
                       \/ \E p \in {"listener", "server", "client"} : Take(s, p)
                       \/ \E l \in Link : Establish(s, l)

Spec == Init /\ [][Next]_vars
=============================================================================
