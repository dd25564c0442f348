------------------------------ MODULE SllSpec ------------------------------
(* What the functions on singly linked lists promise, on sequences.        *)
EXTENDS Integers, Sequences, SequencesExt

CONSTANTS List, Value

VARIABLES lists,      \* what the caller's lists hold
          stack,      \* what the sized stack holds, top first
          returned    \* what the last call returned, <<>> for none

Init ==
    /\ lists = [l \in List |-> <<>>]
    /\ stack = <<>>
    /\ returned = <<>>

Sorted(s) == \A i, j \in DOMAIN s : i <= j => s[i] <= s[j]
SameElements(s, t) == \A x \in Value : Len(SelectSeq(s, LAMBDA y : y = x)) = Len(SelectSeq(t, LAMBDA y : y = x))

OnLists ==
    /\ UNCHANGED stack
    /\ returned' = <<>>
    /\ \/ \E l \in List :
            \/ \E x \in Value : lists' = [lists EXCEPT ![l] = <<x>> \o @]
            \/ lists' = [lists EXCEPT ![l] = Reverse(@)]
            \/ lists' = [lists EXCEPT ![l] = <<>>]
            \/ /\ lists' = [lists EXCEPT ![l] = lists'[l]]
               /\ Sorted(lists'[l])
               /\ SameElements(lists[l], lists'[l])
       \/ \E k, l \in List :
            \/ k # l /\ lists' = [lists EXCEPT ![k] = @ \o lists[l], ![l] = <<>>]
            \/ lists[l] = <<>> /\ lists' = [lists EXCEPT ![l] = lists[k]]
            \/ \E m \in List \ {l} :
                    lists[m] = <<>> /\ lists' = [lists EXCEPT ![m] = lists[k] \o lists[l]]

OnStack ==
    /\ UNCHANGED lists
    /\ \/ /\ returned' = <<>>
          /\ \E x \in Value : stack' = <<x>> \o stack
       \/ stack # <<>> /\ returned' = <<Head(stack)>> /\ stack' = Tail(stack)

Next == OnLists \/ OnStack

Spec == Init /\ [][Next]_<<lists, stack, returned>>
=============================================================================
