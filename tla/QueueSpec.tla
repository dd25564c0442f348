----------------------------- MODULE QueueSpec -----------------------------
(* What the list macros of sys/queue.h promise their callers: heads that   *)
(* hold sequences of elements, changed by the calls, and loops that visit  *)
(* every element once.                                                     *)
EXTENDS Integers, Sequences

CONSTANTS Heads, Node

VARIABLES content,   \* the elements of each head, first to last
          todo,      \* what the running loop has yet to visit, <<>> without one
          call       \* the last call, or the element a loop has just visited

On(h, n) == \E i \in DOMAIN content[h] : content[h][i] = n
Free(n) == \A h \in Heads : ~On(h, n)

(* How many elements of s come before n                                    *)
Before(s, n) ==
    CHOOSE k \in 0..Len(s) :
        (k < Len(s) => s[k + 1] = n) /\ \A j \in 1..k : s[j] # n
With(s, k, n) == SubSeq(s, 1, k) \o <<n>> \o SubSeq(s, k + 1, Len(s))
Without(s, n) == SubSeq(s, 1, Before(s, n)) \o SubSeq(s, Before(s, n) + 2, Len(s))

Init ==
    /\ content = [h \in Heads |-> <<>>]
    /\ todo = <<>>
    /\ call = <<"INIT">>

Becomes(h, s) == content' = [content EXCEPT ![h] = s]

Insert(h, n) ==
    /\ \/ call' = <<"INSERT_HEAD", h, n>> /\ Becomes(h, <<n>> \o content[h])
       \/ call' = <<"INSERT_TAIL", h, n>> /\ Becomes(h, content[h] \o <<n>>)
       \/ \E m \in Node :
            /\ \/ /\ call' = <<"INSERT_AFTER", h, m, n>>
                  /\ Becomes(h, With(content[h], Before(content[h], m) + 1, n))
               \/ /\ call' = <<"INSERT_BEFORE", h, m, n>>
                  /\ Becomes(h, With(content[h], Before(content[h], m), n))
            /\ On(h, m)
    /\ Free(n)

Remove(h, n) ==
    /\ \/ call' = <<"REMOVE", h, n>>
       \/ call' = <<"REMOVE_HEAD", h>> /\ n = content[h][1]
       \/ \E m \in Node :
            /\ call' = <<"REMOVE_AFTER", h, m>>
            /\ On(h, m) /\ Before(content[h], n) = Before(content[h], m) + 1
    /\ On(h, n)
    /\ Becomes(h, Without(content[h], n))

Replace(h, m, n) ==
    /\ call' = <<"REPLACE", h, m, n>>
    /\ On(h, m) /\ Free(n)
    /\ Becomes(h, [i \in DOMAIN content[h] |-> IF content[h][i] = m THEN n ELSE content[h][i]])

Concat(g, h) ==
    /\ call' = <<"CONCAT", g, h>>
    /\ content' = [content EXCEPT ![g] = @ \o content[h], ![h] = <<>>]

Swap(g, h) ==
    /\ call' = <<"SWAP", g, h>>
    /\ content' = [content EXCEPT ![g] = content[h], ![h] = content[g]]

Single ==
    /\ todo = <<>> /\ UNCHANGED todo
    /\ \E h \in Heads :
        \/ \E n \in Node : Insert(h, n) \/ Remove(h, n)
        \/ \E m, n \in Node : Replace(h, m, n)
        \/ \E g \in Heads \ {h} : Concat(g, h) \/ Swap(g, h)

Reversed(s) == [i \in DOMAIN s |-> s[Len(s) + 1 - i]]

(* A loop starts at either end, or at an element the caller already has.   *)
Start(h) ==
    /\ todo = <<>>
    /\ UNCHANGED content
    /\ \/ call' = <<"FOREACH", h>> /\ todo' = content[h]
       \/ call' = <<"FOREACH_REVERSE", h>> /\ todo' = Reversed(content[h])
       \/ \E k \in DOMAIN content[h] :
            \/ /\ call' = <<"FOREACH_FROM", h, content[h][k]>>
               /\ todo' = SubSeq(content[h], k, Len(content[h]))
            \/ /\ call' = <<"FOREACH_REVERSE_FROM", h, content[h][k]>>
               /\ todo' = Reversed(SubSeq(content[h], 1, k))

(* An iteration visits the next element; the body of a _SAFE loop may move *)
(* it to another head.                                                     *)
Iterate ==
    /\ todo # <<>>
    /\ todo' = Tail(todo)
    /\ call' = <<"visit", todo[1]>>
    /\ \/ UNCHANGED content
       \/ \E g, h \in Heads :
            /\ g # h /\ On(h, todo[1])
            /\ content' = [content EXCEPT ![h] = Without(@, todo[1]),
                                          ![g] = <<todo[1]>> \o @]

Next == Single \/ (\E h \in Heads : Start(h)) \/ Iterate

Spec == Init /\ [][Next]_<<content, todo, call>>
=============================================================================
