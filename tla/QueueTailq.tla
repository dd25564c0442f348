----------------------------- MODULE QueueTailq -----------------------------
(* The tail queues of sys/queue.h.  A pointer to a pointer is the address  *)
(* of a cell: a head (its tqh_first) or an element (its tqe_next).  Right  *)
(* after each of them lies a second pointer, tqh_last or tqe_prev, itself  *)
(* the address of a cell.  An element on no list keeps what it held.       *)
EXTENDS Integers, Sequences, FiniteSets, Lists

CONSTANTS TailqHeads, Elem

TailqCell == TailqHeads \cup Elem

ASSUME TailqAssumption ==
    /\ NULL \notin TailqCell /\ TailqHeads \cap Elem = {}
    /\ IsFiniteSet(Elem)

VARIABLES tqMem,    \* next: tqh_first or tqe_next, back: tqh_last or tqe_prev
          tqLoop,   \* the running FOREACH loop
          tqCall    \* the last call, or the element a loop has just visited

tqVars == <<tqMem, tqLoop, tqCall>>

TAILQ_FIRST(m, h) == m.next[h]
TAILQ_NEXT(m, n) == m.next[n]
TAILQ_EMPTY(m, h) == m.next[h] = NULL
TailqElements(m, h) == Chain(m.next, TAILQ_FIRST(m, h), Cardinality(Elem) + 1)
Queued(m, h, n) == n \in Members(TailqElements(m, h))
Unqueued(m, n) == \A h \in TailqHeads : ~Queued(m, h, n)

(* The cell before an element is taken for a head to find its back.        *)
TAILQ_LAST(m, h) == m.next[m.back[m.back[h]]]
TAILQ_PREV(m, n) == m.next[m.back[m.back[n]]]
TAILQ_LAST_FAST(m, h) == IF TAILQ_EMPTY(m, h) THEN NULL ELSE m.back[h]
TAILQ_PREV_FAST(m, n) == IF m.back[n] \in TailqHeads THEN NULL ELSE m.back[n]

TAILQ_INIT(m, h) ==
    [next |-> [m.next EXCEPT ![h] = NULL], back |-> [m.back EXCEPT ![h] = h]]

(* What follows a changed cell points back: the next element or the head.  *)
After(m, h, c) == IF m.next[c] # NULL THEN m.next[c] ELSE h

TAILQ_INSERT_AFTER(m, h, c, n) ==
    [next |-> [m.next EXCEPT ![n] = m.next[c], ![c] = n],
     back |-> [m.back EXCEPT ![After(m, h, c)] = n, ![n] = c]]

TAILQ_INSERT_HEAD(m, h, n) == TAILQ_INSERT_AFTER(m, h, h, n)

TAILQ_INSERT_BEFORE(m, e, n) ==
    [next |-> [m.next EXCEPT ![n] = e, ![m.back[e]] = n],
     back |-> [m.back EXCEPT ![n] = m.back[e], ![e] = n]]

TAILQ_INSERT_TAIL(m, h, n) ==
    [next |-> [m.next EXCEPT ![n] = NULL, ![m.back[h]] = n],
     back |-> [m.back EXCEPT ![n] = m.back[h], ![h] = n]]

TAILQ_REMOVE(m, h, n) ==
    [next |-> [m.next EXCEPT ![m.back[n]] = m.next[n]],
     back |-> [m.back EXCEPT ![After(m, h, n)] = m.back[n]]]

TAILQ_REPLACE(m, h, e, n) ==
    [next |-> [m.next EXCEPT ![n] = m.next[e], ![m.back[e]] = n],
     back |-> [m.back EXCEPT ![After(m, h, e)] = n, ![n] = m.back[e]]]

(* Mutant: the first element keeps pointing back to the old head.         *)
TAILQ_CONCAT_KeepPrev(m, g, h) ==
    IF TAILQ_EMPTY(m, h) THEN m
    ELSE TAILQ_INIT([next |-> [m.next EXCEPT ![m.back[g]] = m.next[h]],
                     back |-> [m.back EXCEPT ![g] = m.back[h]]], h)

TAILQ_CONCAT(m, g, h) ==
    IF TAILQ_EMPTY(m, h) THEN m
    ELSE TAILQ_INIT([next |-> [m.next EXCEPT ![m.back[g]] = m.next[h]],
                     back |-> [m.back EXCEPT ![m.next[h]] = m.back[g],
                                             ![g] = m.back[h]]], h)

(* A head's first element points back to it, or its own back does.         *)
Anchor(m, h) == [next |-> m.next, back |-> [m.back EXCEPT ![After(m, h, h)] = h]]

TAILQ_SWAP(m, g, h) ==
    Anchor(Anchor([next |-> [m.next EXCEPT ![g] = m.next[h], ![h] = m.next[g]],
                   back |-> [m.back EXCEPT ![g] = m.back[h], ![h] = m.back[g]]],
                  g), h)

NoLoop == [var |-> NULL, tvar |-> NULL, reverse |-> FALSE, head |-> NULL]

TqInit ==
    /\ tqMem = [next |-> [c \in TailqCell |-> NULL],
                back |-> [c \in TailqCell |-> c]]
    /\ tqLoop = NoLoop
    /\ tqCall = <<"INIT">>

Call(c, m) == tqLoop = NoLoop /\ UNCHANGED tqLoop /\ tqCall' = c /\ tqMem' = m

TqInsert(h, n) ==
    /\ Unqueued(tqMem, n)
    /\ \/ Call(<<"INSERT_HEAD", h, n>>, TAILQ_INSERT_HEAD(tqMem, h, n))
       \/ Call(<<"INSERT_TAIL", h, n>>, TAILQ_INSERT_TAIL(tqMem, h, n))
       \/ \E e \in Elem :
            /\ Queued(tqMem, h, e)
            /\ \/ Call(<<"INSERT_AFTER", h, e, n>>,
                       TAILQ_INSERT_AFTER(tqMem, h, e, n))
               \/ Call(<<"INSERT_BEFORE", h, e, n>>,
                       TAILQ_INSERT_BEFORE(tqMem, e, n))
               \/ Call(<<"REPLACE", h, e, n>>, TAILQ_REPLACE(tqMem, h, e, n))

TqRemove(h, n) ==
    /\ Queued(tqMem, h, n)
    /\ \/ Call(<<"REMOVE", h, n>>, TAILQ_REMOVE(tqMem, h, n))
       \/ /\ n = TAILQ_FIRST(tqMem, h)
          /\ Call(<<"REMOVE_HEAD", h>>, TAILQ_REMOVE(tqMem, h, n))

TqJoin(g, h) ==
    /\ g # h
    /\ \/ Call(<<"CONCAT", g, h>>, TAILQ_CONCAT(tqMem, g, h))
       \/ Call(<<"SWAP", g, h>>, TAILQ_SWAP(tqMem, g, h))

(* The element after n in the direction of the loop.                       *)
Onward(m, reverse, n) ==
    IF n = NULL THEN NULL
    ELSE IF reverse THEN TAILQ_PREV(m, n) ELSE TAILQ_NEXT(m, n)

(* Mutant: a _SAFE loop that reads its next element too late.              *)
LoopAt_NoTvar(m, reverse, h, v) ==
    IF v = NULL THEN NoLoop
    ELSE [var |-> v, tvar |-> v, reverse |-> reverse, head |-> h]

(* Mutant: a _SAFE loop keeps the element itself, not the one after it.    *)
LoopAt_KeepVar(m, reverse, h, v) ==
    IF v = NULL THEN NoLoop
    ELSE [var |-> v, tvar |-> v, reverse |-> reverse, head |-> h]

LoopAt(m, reverse, h, v) ==
    IF v = NULL THEN NoLoop
    ELSE [var |-> v, tvar |-> Onward(m, reverse, v),
          reverse |-> reverse, head |-> h]

(* TAILQ_FOREACH and its variants; the _FROM ones start at a given var.    *)
TqForeach(h) ==
    /\ tqLoop = NoLoop
    /\ UNCHANGED tqMem
    /\ \/ /\ tqCall' = <<"FOREACH", h>>
          /\ tqLoop' = LoopAt(tqMem, FALSE, h, TAILQ_FIRST(tqMem, h))
       \/ /\ tqCall' = <<"FOREACH_REVERSE", h>>
          /\ tqLoop' = LoopAt(tqMem, TRUE, h, TAILQ_LAST(tqMem, h))
       \/ \E n \in Elem :
            /\ Queued(tqMem, h, n)
            /\ \/ /\ tqCall' = <<"FOREACH_FROM", h, n>>
                  /\ tqLoop' = LoopAt(tqMem, FALSE, h, n)
               \/ /\ tqCall' = <<"FOREACH_REVERSE_FROM", h, n>>
                  /\ tqLoop' = LoopAt(tqMem, TRUE, h, n)

Moved(m, h, n, g) == TAILQ_INSERT_HEAD(TAILQ_REMOVE(m, h, n), g, n)

(* One iteration.  A body that keeps the element may run in any loop: the  *)
(* next one is read after it.  One that moves the element to another list  *)
(* needs a _SAFE loop, which read tvar before.                             *)
Iterate ==
    /\ tqLoop # NoLoop
    /\ tqCall' = <<"visit", tqLoop.var>>
    /\ \/ /\ UNCHANGED tqMem
          /\ tqLoop' = LoopAt(tqMem, tqLoop.reverse, tqLoop.head,
                              Onward(tqMem, tqLoop.reverse, tqLoop.var))
       \/ \E g \in TailqHeads \ {tqLoop.head} :
            /\ tqMem' = Moved(tqMem, tqLoop.head, tqLoop.var, g)
            /\ tqLoop' = LoopAt(tqMem', tqLoop.reverse, tqLoop.head, tqLoop.tvar)

TqNext ==
    \/ \E h \in TailqHeads, n \in Elem : TqInsert(h, n) \/ TqRemove(h, n)
    \/ \E g, h \in TailqHeads : TqJoin(g, h)
    \/ \E h \in TailqHeads : TqForeach(h)
    \/ Iterate

TqSpec == TqInit /\ [][TqNext]_tqVars

----------------------------------------------------------------------------
(* The links are those of doubly linked lists: what the QMD_TAILQ_CHECK    *)
(* macros panic about when it is not so, before any change, and what every *)
(* later walk from either end relies on.                                   *)
NeverPanics ==
    \A h \in TailqHeads :
        /\ tqMem.back[After(tqMem, h, h)] = h
        /\ tqMem.next[tqMem.back[h]] = NULL
        /\ \A n \in Elem : Queued(tqMem, h, n) =>
              /\ tqMem.back[After(tqMem, h, n)] = n
              /\ tqMem.next[tqMem.back[n]] = n

(* No element is on two lists or twice on one, and from the last element   *)
(* PREV leads back through the same elements, in both ways of reading it.  *)
BothWays ==
    /\ \A g, h \in TailqHeads : g # h =>
          Members(TailqElements(tqMem, g)) \cap Members(TailqElements(tqMem, h)) = {}
    /\ \A h \in TailqHeads :
        LET s == TailqElements(tqMem, h) IN
        /\ Len(s) <= Cardinality(Elem)
        /\ TAILQ_LAST(tqMem, h) = TAILQ_LAST_FAST(tqMem, h)
        /\ TAILQ_LAST(tqMem, h) = IF s = <<>> THEN NULL ELSE s[Len(s)]
        /\ \A i \in DOMAIN s :
              /\ TAILQ_PREV(tqMem, s[i]) = TAILQ_PREV_FAST(tqMem, s[i])
              /\ TAILQ_PREV(tqMem, s[i]) = IF i = 1 THEN NULL ELSE s[i - 1]

(* Tail queues stay linked as their macros take for granted.               *)
TailqSound == NeverPanics /\ BothWays

Content == [h \in TailqHeads |-> TailqElements(tqMem, h)]

(* What the loop will meet if its bodies keep the elements                 *)
Ways(m, reverse) == [n \in Elem |-> Onward(m, reverse, n)]
Todo == Chain(Ways(tqMem, tqLoop.reverse), tqLoop.var, Cardinality(Elem) + 1)

(* To its callers each macro does to a sequence of elements what its name  *)
(* says, and a loop visits every element once, also if its body moves the  *)
(* elements away (QueueSpec).                                              *)
Abstract == INSTANCE QueueSpec WITH
    Heads <- TailqHeads, Node <- Elem,
    content <- Content, todo <- Todo, call <- tqCall

TailqCalls == Abstract!Spec
=============================================================================
