----------------------------- MODULE QueueList -----------------------------
(* The doubly linked lists of sys/queue.h: an element knows the address of *)
(* the cell that points to it, a head only its first element.              *)
EXTENDS Integers, Sequences, FiniteSets, Lists

CONSTANTS Heads, Node

Cell == Heads \cup Node

VARIABLES mem,    \* next: lh_first or le_next of a cell, prev: le_prev
          loop,   \* the running FOREACH loop
          call    \* the last call, or the element a loop has just visited

vars == <<mem, loop, call>>

FIRST(m, h) == m.next[h]
NEXT(m, n) == m.next[n]
EMPTY(m, h) == m.next[h] = NULL
PREV(m, n) == IF m.prev[n] \in Heads THEN NULL ELSE m.prev[n]
Elements(m, h) == Chain(m.next, FIRST(m, h), Cardinality(Node) + 1)
On(m, h, n) == \E i \in DOMAIN Elements(m, h) : Elements(m, h)[i] = n
Free(m, n) == \A h \in Heads : ~On(m, h, n)

LIST_INIT(m, h) == [m EXCEPT !.next[h] = NULL]

(* Element e, if there is one, is told the cell that points to it.         *)
PointBack(prev, e, c) == IF e = NULL THEN prev ELSE [prev EXCEPT ![e] = c]

INSERT_AFTER(m, c, n) ==
    [next |-> [m.next EXCEPT ![n] = m.next[c], ![c] = n],
     prev |-> [PointBack(m.prev, m.next[c], n) EXCEPT ![n] = c]]

INSERT_HEAD(m, h, n) == INSERT_AFTER(m, h, n)

INSERT_BEFORE(m, e, n) ==
    [next |-> [m.next EXCEPT ![n] = e, ![m.prev[e]] = n],
     prev |-> [m.prev EXCEPT ![n] = m.prev[e], ![e] = n]]

REMOVE(m, n) ==
    [next |-> [m.next EXCEPT ![m.prev[n]] = m.next[n]],
     prev |-> PointBack(m.prev, m.next[n], m.prev[n])]

REPLACE(m, e, n) ==
    [next |-> [m.next EXCEPT ![n] = m.next[e], ![m.prev[e]] = n],
     prev |-> [PointBack(m.prev, m.next[e], n) EXCEPT ![n] = m.prev[e]]]

(* The cell that holds NULL at the end of the list, found by walking.      *)
LastCell(m, h) == IF EMPTY(m, h) THEN h ELSE Elements(m, h)[Len(Elements(m, h))]

(* Mutant: the second head keeps its list.                                *)
CONCAT_KeepSecond(m, g, h) ==
    IF EMPTY(m, h) THEN m
    ELSE [next |-> [m.next EXCEPT ![LastCell(m, g)] = FIRST(m, h)],
          prev |-> [m.prev EXCEPT ![FIRST(m, h)] = LastCell(m, g)]]

CONCAT(m, g, h) ==
    IF EMPTY(m, h) THEN m
    ELSE LIST_INIT([next |-> [m.next EXCEPT ![LastCell(m, g)] = FIRST(m, h)],
                    prev |-> [m.prev EXCEPT ![FIRST(m, h)] = LastCell(m, g)]], h)

SWAP(m, g, h) ==
    [next |-> [m.next EXCEPT ![g] = m.next[h], ![h] = m.next[g]],
     prev |-> PointBack(PointBack(m.prev, FIRST(m, h), g), FIRST(m, g), h)]

Idle == [var |-> NULL, tvar |-> NULL, head |-> NULL]

Init ==
    /\ mem = [next |-> [c \in Cell |-> NULL], prev |-> [n \in Node |-> n]]
    /\ loop = Idle
    /\ call = <<"INIT">>

Call(c, m) == loop = Idle /\ UNCHANGED loop /\ call' = c /\ mem' = m

Insert(h, n) ==
    /\ Free(mem, n)
    /\ \/ Call(<<"INSERT_HEAD", h, n>>, INSERT_HEAD(mem, h, n))
       \/ \E e \in Node :
            /\ On(mem, h, e)
            /\ \/ Call(<<"INSERT_AFTER", h, e, n>>, INSERT_AFTER(mem, e, n))
               \/ Call(<<"INSERT_BEFORE", h, e, n>>, INSERT_BEFORE(mem, e, n))
               \/ Call(<<"REPLACE", h, e, n>>, REPLACE(mem, e, n))

Remove(h, n) ==
    /\ On(mem, h, n)
    /\ \/ Call(<<"REMOVE", h, n>>, REMOVE(mem, n))
       \/ n = FIRST(mem, h) /\ Call(<<"REMOVE_HEAD", h>>, REMOVE(mem, n))

Join(g, h) ==
    /\ g # h
    /\ \/ Call(<<"CONCAT", g, h>>, CONCAT(mem, g, h))
       \/ Call(<<"SWAP", g, h>>, SWAP(mem, g, h))

Follow(m, n) == IF n = NULL THEN NULL ELSE NEXT(m, n)

LoopAt(h, v) ==
    IF v = NULL THEN Idle ELSE [var |-> v, tvar |-> Follow(mem, v), head |-> h]

Foreach(h) ==
    /\ loop = Idle
    /\ UNCHANGED mem
    /\ \/ call' = <<"FOREACH", h>> /\ loop' = LoopAt(h, FIRST(mem, h))
       \/ \E n \in Node : /\ On(mem, h, n)
                          /\ call' = <<"FOREACH_FROM", h, n>>
                          /\ loop' = LoopAt(h, n)

Moved(g) == INSERT_HEAD(REMOVE(mem, loop.var), g, loop.var)

(* One iteration: the body keeps the element, or, in a _SAFE loop, moves   *)
(* it to another list; then tvar, read before the body, is the next one.   *)
Iterate ==
    /\ loop # Idle
    /\ call' = <<"visit", loop.var>>
    /\ \/ UNCHANGED mem /\ loop' = LoopAt(loop.head, NEXT(mem, loop.var))
       \/ \E g \in Heads \ {loop.head} :
            /\ mem' = Moved(g)
            /\ loop' = [LoopAt(loop.head, loop.tvar) EXCEPT !.tvar = Follow(Moved(g), loop.tvar)]

Next ==
    \/ \E h \in Heads, n \in Node : Insert(h, n) \/ Remove(h, n)
    \/ \E g, h \in Heads : Join(g, h)
    \/ \E h \in Heads : Foreach(h)
    \/ Iterate

Spec == Init /\ [][Next]_vars

----------------------------------------------------------------------------
(* What the QMD_LIST_CHECK macros panic about when it is not so: the first *)
(* element points back to the head, an element's next points back to it,   *)
(* and what points to an element is where its le_prev says.                *)
NeverPanics ==
    \A h \in Heads, n \in Node :
        /\ n = FIRST(mem, h) => mem.prev[n] = h
        /\ On(mem, h, n) =>
              /\ NEXT(mem, n) # NULL => mem.prev[NEXT(mem, n)] = n
              /\ mem.next[mem.prev[n]] = n
              /\ PREV(mem, n) = NULL \/ NEXT(mem, PREV(mem, n)) = n

Content == [h \in Heads |-> Elements(mem, h)]
Todo == Chain(mem.next, loop.var, Cardinality(Node) + 1)

Abstract == INSTANCE QueueSpec WITH content <- Content, todo <- Todo
=============================================================================
