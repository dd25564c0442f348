------------------------------- MODULE IdPool -------------------------------
(* What handing out Session_IDs promises: a session that gets an id gets   *)
(* one that no other session has, and keeps it until it goes.              *)
EXTENDS Integers

CONSTANTS
    Sess,     \* the sessions
    MaxSid    \* 0xffff, reserved; 0 means "no id"

VARIABLE id   \* the Session_ID of each session

Init == id = [s \in Sess |-> 0]

Allocate(s) ==
    /\ id[s] = 0
    /\ \E v \in 1..(MaxSid - 1) :
          /\ \A t \in Sess : id[t] # v
          /\ id' = [id EXCEPT ![s] = v]

Release(s) ==
    /\ id[s] # 0
    /\ id' = [id EXCEPT ![s] = 0]

Next == \E s \in Sess : Allocate(s) \/ Release(s)

Spec == Init /\ [][Next]_id
=============================================================================
