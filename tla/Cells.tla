------------------------------- MODULE Cells -------------------------------
(***************************************************************************)
(* Functions of the tutorial on one or two pointers to unsigned int, after *)
(* the examples of Separation Logic Foundations (src/examples/slf*.c,      *)
(* swap.c, transpose2.c, add_read.c), called again and again by a caller   *)
(* who may pass the same pointer twice.  A contract says what a call does  *)
(* to the cells of its arguments; that every other cell is left alone, and *)
(* that nothing is allocated for good, goes without saying there and is    *)
(* said here.                                                              *)
(*                                                                         *)
(* An operator on a memory m gives the memory after the function.          *)
(***************************************************************************)
EXTENDS Integers

CONSTANTS Cell, Width, NULL

Top == 2 ^ Width

VARIABLES
    mem,   \* the value of each cell, NULL when it is not allocated
    held,  \* the cells the caller has pointers to
    lost,  \* cells slf14's attempt left allocated
    call,  \* the last call and its arguments
    ret    \* the value it returned

vars == <<mem, held, lost, call, ret>>

Allocated(m) == {c \in Cell : m[c] # NULL}

----------------------------------------------------------------------------
incr(m, p) == [m EXCEPT ![p] = (@ + 1) % Top]

incr_two(m, p, q) == incr(incr(m, p), q)
aliased_call(m, p) == incr_two(m, p, p)

incr_first(m, p, q) == incr(m, p)

(* Mutant: the second cell is cleared before the sum is stored.            *)
transfer_ClearFirst(m, p, q) ==
    LET s == (m[p] + m[q]) % Top IN [[m EXCEPT ![q] = 0] EXCEPT ![p] = s]

transfer(m, p, q) ==
    LET s == (m[p] + m[q]) % Top IN [[m EXCEPT ![p] = s] EXCEPT ![q] = 0]

incr2(m, p, q) ==
    LET m1 == [m EXCEPT ![p] = (m[p] + 1) % Top]
    IN  [m1 EXCEPT ![q] = (m1[q] + 1) % Top]

call_both_better(m, p, q) == incr2(incr2(m, p, q), p, p)

(* incr2a for two pointers, incr2b for one passed twice: the same body     *)
call_both(m, p, q) == incr2(incr2(m, p, q), p, p)

swap(m, p, q) == [[m EXCEPT ![p] = m[q]] EXCEPT ![q] = m[p]]

(* The two fields of a struct upoint                                       *)
transpose2(m, x, y) == swap(m, x, y)

add(m, p, q) == (m[p] + m[q]) % Top

(* refUnsignedInt and freeUnsignedInt, which the tutorial only declares    *)
Fresh(m) == {c \in Cell : m[c] = NULL}
refUnsignedInt(m, c, v) == [m EXCEPT ![c] = v]
freeUnsignedInt(m, p) == [m EXCEPT ![p] = NULL]

ref_greater(m, p, c) == refUnsignedInt(m, c, (m[p] + 1) % Top)

(* mallocUnsignedInt, then *q = *p + 1                                     *)
ref_greater_abstract(m, p, c) == [m EXCEPT ![c] = (m[p] + 1) % Top]

triple_ref_with_frame(m, v, c) == refUnsignedInt(m, c, v)

succ_using_incr(m, n, c) == freeUnsignedInt(incr(refUnsignedInt(m, c, n), c), c)

succ_using_incr_attempt(m, n, c) == incr(refUnsignedInt(m, c, n), c)

get_and_free(m, p) == freeUnsignedInt(m, p)

----------------------------------------------------------------------------
NoCall == [fn |-> "none", p |-> NULL, q |-> NULL]

Init ==
    /\ mem = [c \in Cell |-> NULL]
    /\ held = {} /\ lost = {} /\ call = NoCall /\ ret = NULL

(* A function that returns nothing leaves the memory m2.                   *)
Void(fn, p, q, m2) ==
    /\ mem' = m2 /\ ret' = NULL
    /\ call' = [fn |-> fn, p |-> p, q |-> q]
    /\ UNCHANGED <<held, lost>>

(* Functions on two pointers, which may be the same                        *)
OnTwo ==
    \E p, q \in held :
        \/ Void("incr_two", p, q, incr_two(mem, p, q))
        \/ Void("transfer", p, q, transfer(mem, p, q))
        \/ Void("incr2", p, q, incr2(mem, p, q))
        \/ Void("swap", p, q, swap(mem, p, q))
        \/ Void("incr_first", p, q, incr_first(mem, p, q))
        \/ /\ call' = [fn |-> "add", p |-> p, q |-> q]
           /\ ret' = add(mem, p, q)
           /\ UNCHANGED <<mem, held, lost>>

(* Functions whose contracts want two cells                                *)
OnTwoApart ==
    \E p \in held : \E q \in held \ {p} :
        \/ Void("call_both", p, q, call_both_better(mem, p, q))
        \/ Void("call_both", p, q, call_both(mem, p, q))
        \/ Void("swap", p, q, transpose2(mem, p, q))

OnOne ==
    \E p \in held :
        \/ Void("incr", p, p, incr(mem, p))
        \/ Void("incr_two", p, p, aliased_call(mem, p))

(* Functions that return a pointer to a new cell                           *)
Returns(fn, p, c, m2) ==
    /\ mem' = m2 /\ held' = held \cup {c}
    /\ call' = [fn |-> fn, p |-> p, q |-> c] /\ ret' = m2[c]
    /\ UNCHANGED lost

NewCells ==
    \E c \in Fresh(mem) :
        \/ \E v \in {0, Top - 2} : Returns("ref", c, c, triple_ref_with_frame(mem, v, c))
        \/ \E p \in held :
              \/ Returns("greater", p, c, ref_greater(mem, p, c))
              \/ mem[p] < Top - 1 /\ Returns("above", p, c, ref_greater_abstract(mem, p, c))

(* Functions that allocate a cell for themselves                           *)
Succ ==
    \E c \in Fresh(mem), n \in {0, Top - 1} :
        /\ ret' = (n + 1) % Top
        /\ call' = [fn |-> "succ", p |-> NULL, q |-> NULL]
        /\ UNCHANGED held
        /\ \/ mem' = succ_using_incr(mem, n, c) /\ UNCHANGED lost
           \/ /\ lost = {} /\ lost' = {c}   \* once is enough
              /\ mem' = succ_using_incr_attempt(mem, n, c)

GetAndFree ==
    \E p \in held :
        /\ mem' = get_and_free(mem, p) /\ held' = held \ {p}
        /\ ret' = mem[p]
        /\ call' = [fn |-> "free", p |-> p, q |-> p]
        /\ UNCHANGED lost

Next == OnTwo \/ OnTwoApart \/ OnOne \/ NewCells \/ Succ \/ GetAndFree

Spec == Init /\ [][Next]_vars

----------------------------------------------------------------------------
(* What has been allocated can still be freed: the caller holds it, or it  *)
(* is one of the cells the tutorial's broken attempt drops.                *)
NothingLost ==
    /\ Allocated(mem) = held \cup lost
    /\ held \cap lost = {}

(* The ensures clauses of the contracts, those for two pointers to one     *)
(* cell too: slf6 (incr_two), slf9 (transfer) and slf_incr2's BothOwned.   *)
Ensured(fn, p, q, was, now, r) ==
    CASE fn \in {"incr_two", "incr2"} ->
            IF p = q THEN now[p] = (was[p] + 2) % Top
            ELSE now[p] = (was[p] + 1) % Top /\ now[q] = (was[q] + 1) % Top
      [] fn = "transfer" ->
            IF p = q THEN now[p] = 0
            ELSE now[p] = (was[p] + was[q]) % Top /\ now[q] = 0
      [] fn = "call_both" -> now[p] = (was[p] + 3) % Top /\ now[q] = (was[q] + 1) % Top
      [] fn = "swap" -> now[p] = was[q] /\ now[q] = was[p]
      [] fn \in {"incr", "incr_first"} -> now[p] = (was[p] + 1) % Top
      [] fn = "add" -> now = was /\ r = (was[p] + was[q]) % Top
      [] fn = "free" -> r = was[p]
      [] fn = "above" -> now[p] = was[p] /\ now[q] > now[p]
      [] OTHER -> TRUE

(* Every call does what its contract ensures.                              *)
ContractsHold == [][Ensured(call'.fn, call'.p, call'.q, mem, mem', ret')]_vars

(* Frame rule: a call changes the cells its contract lets it change, or    *)
(* the one it returns, and nothing else that the caller holds: incr_first  *)
(* not even the cell of its second argument.                               *)
Changed(fn, p, q) ==
    CASE fn = "incr_first" -> {p}
      [] fn \in {"ref", "greater", "above"} -> {q}
      [] fn = "add" -> {}
      [] OTHER -> {p, q}

OthersLeftAlone ==
    [][\A c \in held \ Changed(call'.fn, call'.p, call'.q) : mem'[c] = mem[c]]_vars
=============================================================================
