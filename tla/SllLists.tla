------------------------------ MODULE SllLists ------------------------------
(* The singly linked lists of the tutorial (src/examples/list) and the     *)
(* sized stack made of them (slf_sized_stack.c).  The functions recurse    *)
(* over memory: each operator returns the memory after the call and the    *)
(* pointer it returns.                                                     *)
EXTENDS Integers, Sequences, FiniteSets, FiniteSetsExt, SequencesExt, Lists

CONSTANTS List, Cells, Value

Cell == 1..Cells

VARIABLES mem,        \* head, tail: the fields of every cell; owned: the allocated
          list,       \* the caller's pointers to its lists
          stack,      \* the fields of the sized stack
          returned    \* what the last call returned, <<>> for none

vars == <<mem, list, stack, returned>>

Unused(m) == Cell \ m.owned

(* Which free cell malloc__sllist gives out makes no difference to any of  *)
(* the functions: the least.                                               *)
slcons(m, h, t) ==
    LET p == Min(Unused(m))
    IN  [m |-> [head |-> [m.head EXCEPT ![p] = h],
                tail |-> [m.tail EXCEPT ![p] = t],
                owned |-> m.owned \cup {p}],
         ret |-> p]

(* Nobody may rely on what a freed cell held.                              *)
free__sllist(m, p) ==
    [head |-> [m.head EXCEPT ![p] = NULL], tail |-> [m.tail EXCEPT ![p] = NULL],
     owned |-> m.owned \ {p}]

SetTail(m, p, t) == [m EXCEPT !.tail[p] = t]

RECURSIVE append(_, _, _), slcopy(_, _), append2(_, _, _), free(_, _), length(_, _), length_acc(_, _, _)

append(m, xs, ys) ==
    IF xs = NULL THEN [m |-> m, ret |-> ys]
    ELSE LET new_tail == append(m, m.tail[xs], ys)
         IN  [m |-> SetTail(new_tail.m, xs, new_tail.ret), ret |-> xs]

slcopy(m, l) ==
    IF l = NULL THEN [m |-> m, ret |-> NULL]
    ELSE LET new_tail == slcopy(m, m.tail[l])
         IN  slcons(new_tail.m, m.head[l], new_tail.ret)

append2(m, xs, ys) ==
    IF xs = NULL THEN slcopy(m, ys)
    ELSE LET new_tail == append2(m, m.tail[xs], ys)
         IN  slcons(new_tail.m, m.head[xs], new_tail.ret)

free(m, l) ==
    IF l = NULL THEN m
    ELSE LET rest == free(m, m.tail[l]) IN free__sllist(rest, l)

length(m, l) == IF l = NULL THEN 0 ELSE 1 + length(m, m.tail[l])

length_acc(m, xs, p) == IF xs = NULL THEN p ELSE length_acc(m, m.tail[xs], p + 1)

RECURSIVE rev_aux(_, _, _), rev_loop(_, _, _), split(_, _), merge(_, _, _), mergesort(_, _)

rev_aux(m, l1, l2) ==
    IF l2 = NULL THEN [m |-> m, ret |-> l1]
    ELSE rev_aux(SetTail(m, l2, l1), l2, m.tail[l2])

rev(m, l1) == rev_aux(m, NULL, l1)

rev_loop(m, last, cur) ==
    IF cur = NULL THEN [m |-> m, ret |-> last]
    ELSE rev_loop(SetTail(m, cur, last), cur, m.tail[cur])

split(m, xs) ==
    IF xs = NULL THEN [m |-> m, fst |-> NULL, snd |-> NULL]
    ELSE LET cdr == m.tail[xs]
         IN  IF cdr = NULL THEN [m |-> m, fst |-> NULL, snd |-> xs]
             ELSE LET p == split(m, m.tail[cdr])
                  IN  [m |-> SetTail(SetTail(p.m, xs, p.fst), cdr, p.snd),
                       fst |-> xs, snd |-> cdr]

merge(m, xs, ys) ==
    IF xs = NULL THEN [m |-> m, ret |-> ys]
    ELSE IF ys = NULL THEN [m |-> m, ret |-> xs]
    ELSE IF m.head[xs] < m.head[ys]
    THEN LET zs == merge(m, m.tail[xs], ys) IN [m |-> SetTail(zs.m, xs, zs.ret), ret |-> xs]
    ELSE LET zs == merge(m, xs, m.tail[ys]) IN [m |-> SetTail(zs.m, ys, zs.ret), ret |-> ys]

mergesort(m, xs) ==
    IF xs = NULL \/ m.tail[xs] = NULL THEN [m |-> m, ret |-> xs]
    ELSE LET p == split(m, xs)
             fst == mergesort(p.m, p.fst)
             snd == mergesort(fst.m, p.snd)
         IN  merge(snd.m, fst.ret, snd.ret)

Init ==
    /\ mem = [head |-> [c \in Cell |-> NULL], tail |-> [c \in Cell |-> NULL], owned |-> {}]
    /\ list = [l \in List |-> NULL]
    /\ stack = [size |-> 0, data |-> NULL]
    /\ returned = <<>>

(* A call on lists: list l is what it returned.                            *)
Call(l, r) ==
    /\ mem' = r.m
    /\ list' = [list EXCEPT ![l] = r.ret]
    /\ returned' = <<>>
    /\ UNCHANGED stack

OneList(l) ==
    \/ Unused(mem) # {} /\ \E x \in Value : Call(l, slcons(mem, x, list[l]))
    \/ Call(l, rev(mem, list[l]))
    \/ Call(l, mergesort(mem, list[l]))
    \/ Call(l, [m |-> free(mem, list[l]), ret |-> NULL])

Copy(k, l) ==
    /\ list[l] = NULL
    /\ length(mem, list[k]) <= Cardinality(Unused(mem))
    /\ Call(l, slcopy(mem, list[k]))

(* The first list is gone into the result, the second with it.             *)
Join(k, l) ==
    /\ k # l
    /\ LET r == append(mem, list[k], list[l])
       IN  mem' = r.m /\ list' = [list EXCEPT ![k] = r.ret, ![l] = NULL]
    /\ returned' = <<>>
    /\ UNCHANGED stack

JoinCopies(k, l, m) ==
    /\ k # l /\ list[m] = NULL /\ m # l
    /\ length(mem, list[k]) + length(mem, list[l]) <= Cardinality(Unused(mem))
    /\ Call(m, append2(mem, list[k], list[l]))

push(x) ==
    /\ Unused(mem) # {}
    /\ LET r == slcons(mem, x, stack.data)
       IN  mem' = r.m /\ stack' = [size |-> stack.size + 1, data |-> r.ret]
    /\ returned' = <<>>
    /\ UNCHANGED list

(* The caller checks size; the code checks data, and returns 42 without.   *)
pop ==
    /\ stack.size > 0
    /\ \/ /\ stack.data # NULL
          /\ returned' = <<mem.head[stack.data]>>
          /\ mem' = free__sllist(mem, stack.data)
          /\ stack' = [size |-> stack.size - 1, data |-> mem.tail[stack.data]]
       \/ stack.data = NULL /\ returned' = <<42>> /\ UNCHANGED <<mem, stack>>
    /\ UNCHANGED list

top == IF stack.data # NULL THEN mem.head[stack.data] ELSE 42

Next ==
    \/ \E l \in List : OneList(l)
    \/ \E k, l \in List : Copy(k, l) \/ Join(k, l) \/ \E m \in List : JoinCopies(k, l, m)
    \/ \E x \in Value : push(x)
    \/ pop

Spec == Init /\ [][Next]_vars

----------------------------------------------------------------------------
CellsFrom(p) == Chain(mem.tail, p, Cells + 1)
Pointers == {list[l] : l \in List} \cup {stack.data}
Contents(p) == [i \in DOMAIN CellsFrom(p) |-> mem.head[CellsFrom(p)[i]]]

(* SLList_At holds of every list and of the stack's data, each of memory   *)
(* of its own, and no call loses a cell or leaves a freed one in a list.   *)
ListsApart ==
    /\ MapThenSumSet(LAMBDA l : Len(CellsFrom(list[l])), List) + Len(CellsFrom(stack.data))
            = Cardinality(mem.owned)
    /\ mem.owned = UNION {Range(CellsFrom(p)) : p \in Pointers}

(* SizedStack_At: the size is the number of elements.  So the top that is  *)
(* asked of a stack of size above zero is never the 42 of dead code.       *)
SizeIsLength ==
    /\ stack.size = length(mem, stack.data)
    /\ stack.size > 0 => top = Contents(stack.data)[1]

(* Two ways to say the same: both ways to count and both to reverse.       *)
VersionsAgree ==
    \A p \in Pointers :
        /\ length(mem, p) = Len(CellsFrom(p))
        /\ length_acc(mem, p, 0) = length(mem, p)
        /\ rev_loop(mem, NULL, p) = rev(mem, p)

AllLists == [l \in List |-> Contents(list[l])]

Abstract == INSTANCE SllSpec WITH lists <- AllLists, stack <- Contents(stack.data)
=============================================================================
