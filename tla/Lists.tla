------------------------------- MODULE Lists -------------------------------
(* The kernel's LIST macros (sys/queue.h) on lists of distinct elements,   *)
(* as sequences from the head of the list on, and lists in memory.         *)
EXTENDS Integers, Sequences

CONSTANT NULL   \* the null pointer

Members(l) == {l[i] : i \in DOMAIN l}

NoDuplicates(l) == \A i, j \in DOMAIN l : l[i] = l[j] => i = j

(* LIST_INSERT_HEAD                                                        *)
InsertHead(l, x) == <<x>> \o l

(* LIST_REMOVE                                                             *)
Without(l, x) ==
    LET i == CHOOSE j \in DOMAIN l : l[j] = x
    IN  SubSeq(l, 1, i - 1) \o SubSeq(l, i + 1, Len(l))

(* LIST_FOREACH that skips what is not in S: the elements of l in S, in    *)
(* their order.  SelectSeq is as good, but no prover knows it.             *)
Chosen(l, S) ==
    LET sofar[n \in 0..Len(l)] ==
            IF n = 0 THEN <<>>
            ELSE IF l[n] \in S THEN Append(sofar[n - 1], l[n]) ELSE sofar[n - 1]
    IN  sofar[Len(l)]

(* LIST_FOREACH until a match: the first element of l that passes T, as a  *)
(* set with at most one element.                                           *)
FirstIn(l, T(_)) ==
    {l[i] : i \in {j \in DOMAIN l : T(l[j]) /\ \A k \in 1..(j - 1) : ~T(l[k])}}

(* Linked memory: the cells met from first on, following link until NULL,  *)
(* at most max of them.                                                    *)
Chain(link, first, max) ==
    LET at[k \in 1..max] ==
            IF k = 1 THEN first
            ELSE LET c == at[k - 1] IN IF c = NULL THEN NULL ELSE link[c]
        length == CHOOSE n \in 0..max :
                      (n > 0 => at[n] # NULL) /\ (n < max => at[n + 1] = NULL)
    IN  [k \in 1..length |-> at[k]]
=============================================================================
