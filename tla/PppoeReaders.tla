---------------------------- MODULE PppoeReaders ----------------------------
(***************************************************************************)
(* The negotiation block of a server session, sp->neg, under readers of    *)
(* the node.  netgraph applies frames as readers, which may run at the     *)
(* same time: a PADR the client sends again (ng_pppoe_after.c 1501-1555)   *)
(* works on the block that the first frame of session data frees           *)
(* (1639-1652).  A step is one access to what readers share; removing and  *)
(* offering a hook (Offer) is a writer, which netgraph runs alone.         *)
(***************************************************************************)

CONSTANTS
    Sessions,    \* sessions that have a Session_ID or are offered
    Readers      \* threads of netgraph

VARIABLES
    sp_state,    \* sp->state
    neg,         \* sp->neg is not NULL
    block,       \* the memory it points to: "live" or "freed"
    pkt_hdr,     \* sp->pkt_hdr names the client, so its data is found
    reader_pc,   \* what a reader does next
    at           \* the session its frame is for

readersVars == <<sp_state, neg, block, pkt_hdr, reader_pc, at>>

Idle == {r \in Readers : reader_pc[r] = "idle"}

ReadersInit ==
    /\ sp_state = [s \in Sessions |-> "SOFFER"]
    /\ neg = [s \in Sessions |-> TRUE] /\ block = [s \in Sessions |-> "live"]
    /\ pkt_hdr = [s \in Sessions |-> FALSE]
    /\ reader_pc = [r \in Readers |-> "idle"] /\ at = [r \in Readers |-> CHOOSE s \in Sessions : TRUE]

Step(r, from, to) == reader_pc[r] = from /\ reader_pc' = [reader_pc EXCEPT ![r] = to]

Goes(s, st) == sp_state' = [sp_state EXCEPT ![s] = st]

(* A PADR with the cookie of s arrives, or session data: pppoe_findsession *)
(* compares the sender with the session's header (572).                    *)
Arrive(r, s, what) ==
    /\ Step(r, "idle", what) /\ (what = "data" => pkt_hdr[s])
    /\ at' = [at EXCEPT ![r] = s]
    /\ UNCHANGED <<sp_state, neg, block, pkt_hdr>>

(* 1502-1509: the state is read                                            *)
PadrState(r) ==
    LET s == at[r] IN
    /\ \/ sp_state[s] = "NEWCONNECTED" /\ Step(r, "padr", "back")
       \/ sp_state[s] = "SOFFER" /\ Step(r, "padr", "neg")
       \/ sp_state[s] = "CONNECTED" /\ Step(r, "padr", "idle")
    /\ UNCHANGED <<sp_state, neg, block, pkt_hdr, at>>

(* 1504-1507: "We should still have a copy of it."                         *)
PadrBack(r) ==
    Step(r, "back", "neg") /\ Goes(at[r], "SOFFER") /\ UNCHANGED <<neg, block, pkt_hdr, at>>

(* 1510-1530: the block is read and written.                               *)
PadrUse(r) ==
    Step(r, "neg", "set") /\ UNCHANGED <<sp_state, neg, block, pkt_hdr, at>>

(* 1531 *)
PadrSet(r) ==
    Step(r, "set", "send") /\ Goes(at[r], "NEWCONNECTED") /\ UNCHANGED <<neg, block, pkt_hdr, at>>

(* 1533-1535: the packet is copied and sent.                               *)
PadrSend(r) ==
    Step(r, "send", "header") /\ UNCHANGED <<sp_state, neg, block, pkt_hdr, at>>

(* 1545-1555: its header becomes that of the session.                      *)
PadrHeader(r) ==
    /\ Step(r, "header", "idle") /\ pkt_hdr' = [pkt_hdr EXCEPT ![at[r]] = TRUE]
    /\ UNCHANGED <<sp_state, neg, block, at>>

(* 1639-1653 *)
DataState(r) ==
    LET s == at[r] IN
    /\ \/ sp_state[s] = "NEWCONNECTED" /\ Step(r, "data", "mark")
       \/ sp_state[s] # "NEWCONNECTED" /\ Step(r, "data", "idle")
    /\ UNCHANGED <<sp_state, neg, block, pkt_hdr, at>>

DataMark(r) ==
    Step(r, "mark", "free") /\ Goes(at[r], "CONNECTED") /\ UNCHANGED <<neg, block, pkt_hdr, at>>

(* 1648-1650: the packet and the callout of the block, then the block      *)
DataFree(r) ==
    /\ Step(r, "free", "clear")
    /\ block' = [block EXCEPT ![at[r]] = "freed"]
    /\ UNCHANGED <<sp_state, neg, pkt_hdr, at>>

DataClear(r) ==
    /\ Step(r, "clear", "idle") /\ neg' = [neg EXCEPT ![at[r]] = FALSE]
    /\ UNCHANGED <<sp_state, block, pkt_hdr, at>>

(* The hook goes and a new one at its address is offered: writers.         *)
Offer(s) ==
    /\ Idle = Readers
    /\ Goes(s, "SOFFER")
    /\ neg' = [neg EXCEPT ![s] = TRUE] /\ block' = [block EXCEPT ![s] = "live"]
    /\ pkt_hdr' = [pkt_hdr EXCEPT ![s] = FALSE]
    /\ UNCHANGED <<reader_pc, at>>

ReadersNext ==
    \/ \E s \in Sessions : Offer(s)
    \/ \E r \in Readers :
        \/ \E s \in Sessions, what \in {"padr", "data"} : Arrive(r, s, what)
        \/ PadrState(r) \/ PadrBack(r) \/ PadrUse(r) \/ PadrSet(r) \/ PadrSend(r) \/ PadrHeader(r)
        \/ DataState(r) \/ DataMark(r) \/ DataFree(r) \/ DataClear(r)

ReadersSpec == ReadersInit /\ [][ReadersNext]_readersVars

----------------------------------------------------------------------------
(* A reader that is about to use the block finds it: the pointer is there  *)
(* and the memory is not freed (lines 1504-1505: "drop back to resend that *)
(* PADS packet. We should still have a copy of it").                       *)
StillHasCopy ==
    \A r \in Readers : reader_pc[r] \in {"neg", "set", "send", "header", "free"} =>
        neg[at[r]] /\ block[at[r]] = "live"
=============================================================================
