----------------------------- MODULE QueueFifo -----------------------------
(* What the queues of the tutorial promise: what is popped was pushed, and *)
(* in the order of the pushes.                                             *)
EXTENDS Sequences

CONSTANTS Queue, Value

VARIABLES items,     \* the queues made so far, with what each holds
          returned   \* the last thing pop_queue returned, <<>> before

Init == items = [q \in {} |-> <<>>] /\ returned = <<>>

Make(p) ==
    /\ p \in Queue \ DOMAIN items
    /\ items' = [q \in DOMAIN items \cup {p} |-> IF q = p THEN <<>> ELSE items[q]]
    /\ UNCHANGED returned

Push(x, q) ==
    /\ items' = [items EXCEPT ![q] = Append(@, x)]
    /\ UNCHANGED returned

Pop(q) ==
    /\ items[q] # <<>>
    /\ returned' = <<Head(items[q])>>
    /\ items' = [items EXCEPT ![q] = Tail(@)]

Next ==
    \/ \E p \in Queue : Make(p)
    \/ \E q \in DOMAIN items : Pop(q) \/ \E x \in Value : Push(x, q)

Spec == Init /\ [][Next]_<<items, returned>>
=============================================================================
