---------------------------- MODULE QueueStailq ----------------------------
(* The singly linked lists and tail queues of sys/queue.h.  A tail queue   *)
(* also keeps the address of the cell at its end; a plain list walks there *)
(* when it has to.                                                         *)
EXTENDS Integers, Sequences, FiniteSets, Lists

CONSTANTS Heads, Node

Cell == Heads \cup Node

VARIABLES mem,    \* next: first or next element of a cell, last: stqh_last
          loop,   \* the running FOREACH loop
          call    \* the last call, or the element a loop has just visited

vars == <<mem, loop, call>>

FIRST(m, h) == m.next[h]
NEXT(m, n) == m.next[n]
EMPTY(m, h) == m.next[h] = NULL
LAST(m, h) == IF EMPTY(m, h) THEN NULL ELSE m.last[h]
Elements(m, h) == Chain(m.next, FIRST(m, h), Cardinality(Node) + 1)
On(m, h, n) == \E i \in DOMAIN Elements(m, h) : Elements(m, h)[i] = n
Free(m, n) == \A h \in Heads : ~On(m, h, n)

STAILQ_INIT(m, h) == [next |-> [m.next EXCEPT ![h] = NULL], last |-> [m.last EXCEPT ![h] = h]]

(* Cell c now holds n; if that is the end of the queue, the head knows.    *)
Put(m, h, c, n) ==
    [next |-> [m.next EXCEPT ![c] = n],
     last |-> IF n = NULL THEN [m.last EXCEPT ![h] = c] ELSE m.last]

INSERT_AFTER(m, h, c, n) ==
    LET put == Put(m, h, n, m.next[c]) IN [put EXCEPT !.next[c] = n]

INSERT_HEAD(m, h, n) == INSERT_AFTER(m, h, h, n)

INSERT_TAIL(m, h, n) ==
    [next |-> [m.next EXCEPT ![n] = NULL, ![m.last[h]] = n],
     last |-> [m.last EXCEPT ![h] = n]]

REMOVE_AFTER(m, h, c) == Put(m, h, c, m.next[m.next[c]])

REMOVE_HEAD(m, h) == REMOVE_AFTER(m, h, h)

(* The walk of REMOVE stops at the cell before the element.                *)
CellBefore(m, h, n) ==
    LET s == <<h>> \o Elements(m, h) IN s[CHOOSE i \in DOMAIN s : m.next[s[i]] = n]

REMOVE(m, h, n) ==
    IF FIRST(m, h) = n THEN REMOVE_HEAD(m, h) ELSE REMOVE_AFTER(m, h, CellBefore(m, h, n))

CONCAT(m, g, h) ==
    IF EMPTY(m, h) THEN m
    ELSE STAILQ_INIT([next |-> [m.next EXCEPT ![m.last[g]] = FIRST(m, h)],
                      last |-> [m.last EXCEPT ![g] = m.last[h]]], h)

(* An empty queue's end is its head.                                       *)
Anchor(m, h) == IF EMPTY(m, h) THEN [m EXCEPT !.last[h] = h] ELSE m

SWAP(m, g, h) ==
    Anchor(Anchor([next |-> [m.next EXCEPT ![g] = m.next[h], ![h] = m.next[g]],
                   last |-> [m.last EXCEPT ![g] = m.last[h], ![h] = m.last[g]]], g), h)

(* SLIST_CONCAT has no stqh_last to go by: it walks.  REMOVE_PREVPTR gets  *)
(* the cell from the loop of FOREACH_PREVPTR.  Its other macros are those  *)
(* above without the care for stqh_last.                                   *)
SLIST_CONCAT(m, g, h) ==
    LET s == <<g>> \o Elements(m, g)
    IN  IF EMPTY(m, h) THEN m.next
        ELSE [m.next EXCEPT ![s[Len(s)]] = FIRST(m, h), ![h] = NULL]

REMOVE_PREVPTR(m, h, n) == [m.next EXCEPT ![CellBefore(m, h, n)] = NEXT(m, n)]

Idle == [var |-> NULL, tvar |-> NULL, head |-> NULL]

Init ==
    /\ mem = [next |-> [c \in Cell |-> NULL], last |-> [h \in Heads |-> h]]
    /\ loop = Idle
    /\ call = <<"INIT">>

Call(c, m) == loop = Idle /\ UNCHANGED loop /\ call' = c /\ mem' = m

Insert(h, n) ==
    /\ Free(mem, n)
    /\ \/ Call(<<"INSERT_HEAD", h, n>>, INSERT_HEAD(mem, h, n))
       \/ Call(<<"INSERT_TAIL", h, n>>, INSERT_TAIL(mem, h, n))
       \/ \E e \in Node : /\ On(mem, h, e)
                          /\ Call(<<"INSERT_AFTER", h, e, n>>, INSERT_AFTER(mem, h, e, n))

Remove(h, n) ==
    /\ On(mem, h, n)
    /\ \/ Call(<<"REMOVE", h, n>>, REMOVE(mem, h, n))
       \/ n = FIRST(mem, h) /\ Call(<<"REMOVE_HEAD", h>>, REMOVE_HEAD(mem, h))
       \/ /\ NEXT(mem, n) # NULL
          /\ Call(<<"REMOVE_AFTER", h, n>>, REMOVE_AFTER(mem, h, n))

Join(g, h) ==
    /\ g # h
    /\ \/ Call(<<"CONCAT", g, h>>, CONCAT(mem, g, h))
       \/ Call(<<"SWAP", g, h>>, SWAP(mem, g, h))

Follow(m, n) == IF n = NULL THEN NULL ELSE NEXT(m, n)

LoopAt(h, v) ==
    IF v = NULL THEN Idle ELSE [var |-> v, tvar |-> Follow(mem, v), head |-> h]

Foreach(h) ==
    /\ loop = Idle
    /\ UNCHANGED mem
    /\ \/ call' = <<"FOREACH", h>> /\ loop' = LoopAt(h, FIRST(mem, h))
       \/ \E n \in Node : /\ On(mem, h, n)
                          /\ call' = <<"FOREACH_FROM", h, n>>
                          /\ loop' = LoopAt(h, n)

Moved(g) == INSERT_HEAD(REMOVE(mem, loop.head, loop.var), g, loop.var)

(* One iteration: the body keeps the element, or, in a _SAFE loop, moves   *)
(* it to another list; then tvar, read before the body, is the next one.   *)
Iterate ==
    /\ loop # Idle
    /\ call' = <<"visit", loop.var>>
    /\ \/ UNCHANGED mem /\ loop' = LoopAt(loop.head, NEXT(mem, loop.var))
       \/ \E g \in Heads \ {loop.head} :
            /\ mem' = Moved(g)
            /\ loop' = [LoopAt(loop.head, loop.tvar) EXCEPT !.tvar = Follow(Moved(g), loop.tvar)]

Next ==
    \/ \E h \in Heads, n \in Node : Insert(h, n) \/ Remove(h, n)
    \/ \E g, h \in Heads : Join(g, h)
    \/ \E h \in Heads : Foreach(h)
    \/ Iterate

Spec == Init /\ [][Next]_vars

----------------------------------------------------------------------------
(* The head's idea of the end is the end: the cell with NULL, which the    *)
(* next INSERT_TAIL or CONCAT writes without looking.                      *)
EndIsLast ==
    \A h \in Heads :
        LET s == Elements(mem, h)
        IN  /\ mem.last[h] = IF s = <<>> THEN h ELSE s[Len(s)]
            /\ LAST(mem, h) = IF s = <<>> THEN NULL ELSE s[Len(s)]

(* The macros of plain lists give the same chains as those of tail queues. *)
SameWithoutLast ==
    \A g, h \in Heads :
        /\ g # h => SLIST_CONCAT(mem, g, h) = CONCAT(mem, g, h).next
        /\ \A n \in Node : On(mem, h, n) => REMOVE_PREVPTR(mem, h, n) = REMOVE(mem, h, n).next

Content == [h \in Heads |-> Elements(mem, h)]
Todo == Chain(mem.next, loop.var, Cardinality(Node) + 1)

Abstract == INSTANCE QueueSpec WITH content <- Content, todo <- Todo
=============================================================================
