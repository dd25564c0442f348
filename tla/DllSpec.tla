------------------------------ MODULE DllSpec ------------------------------
(* What the doubly linked lists of the tutorial promise: a list with a     *)
(* place in it, as the datatype Dll of src/examples/dll/cn_types.h: what   *)
(* is at the place, and what is to the left and to the right of it,        *)
(* nearest first.                                                          *)
EXTENDS Sequences

CONSTANTS List, Element

VARIABLES left, curr, right,   \* curr is <<>> when the list is empty
          removed              \* what remove last gave back, <<>> before

Init ==
    /\ left = [l \in List |-> <<>>]
    /\ curr = [l \in List |-> <<>>]
    /\ right = [l \in List |-> <<>>]
    /\ removed = <<>>

Is(l, lft, c, rgt) ==
    /\ left' = [left EXCEPT ![l] = lft]
    /\ curr' = [curr EXCEPT ![l] = c]
    /\ right' = [right EXCEPT ![l] = rgt]

Add(l, x) == Is(l, curr[l] \o left[l], <<x>>, right[l]) /\ UNCHANGED removed

(* The place goes to the right, or to the left when there is nothing.      *)
Remove(l) ==
    /\ curr[l] # <<>>
    /\ removed' = curr[l]
    /\ \/ right[l] # <<>> /\ Is(l, left[l], <<Head(right[l])>>, Tail(right[l]))
       \/ right[l] = <<>> /\ left[l] # <<>> /\ Is(l, Tail(left[l]), <<Head(left[l])>>, <<>>)
       \/ right[l] = <<>> /\ left[l] = <<>> /\ Is(l, <<>>, <<>>, <<>>)

Move(l) ==
    /\ \/ right[l] # <<>> /\ Is(l, curr[l] \o left[l], <<Head(right[l])>>, Tail(right[l]))
       \/ left[l] # <<>> /\ Is(l, Tail(left[l]), <<Head(left[l])>>, curr[l] \o right[l])
    /\ UNCHANGED removed

Next == \E l \in List : Remove(l) \/ Move(l) \/ \E x \in Element : Add(l, x)

Spec == Init /\ [][Next]_<<left, curr, right, removed>>
=============================================================================
