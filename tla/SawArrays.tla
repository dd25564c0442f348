------------------------------ MODULE SawArrays ------------------------------
(* The SAW examples on arrays and points: swaps, also of an element with   *)
(* itself, a selection sort, a dot product and points on the heap, against *)
(* what their scripts say they do.                                         *)
EXTENDS Integers, Sequences, Bitwise

CONSTANTS Lens,    \* lengths of arrays; len - 1 of a size_t 0 is not negative
          Top,     \* uint32_t counts modulo this, a power of 2
          Cells    \* places malloc may return

VARIABLES a,       \* the array
          doing,   \* which function runs
          i, j, j_min,
          res,     \* of the dot product of a with itself
          heap     \* the points allocated

vars == <<a, doing, i, j, j_min, res, heap>>

Value == 0..Top - 1
Index == 0..Len(a) - 1

at(k) == a[k + 1]

(* For two different elements; for one, it is the mutant of swap.          *)
xor_swap(arr, x, y) ==
    LET first == [arr EXCEPT ![x + 1] = arr[x + 1] ^^ arr[y + 1]]
        second == [first EXCEPT ![y + 1] = first[y + 1] ^^ first[x + 1]]
    IN  [second EXCEPT ![x + 1] = second[x + 1] ^^ second[y + 1]]

(* *x = *y, where x and y may be the same element                          *)
swap(arr, x, y) ==
    LET tmp == arr[x + 1]
        written == [arr EXCEPT ![x + 1] = arr[y + 1]]
    IN  [written EXCEPT ![y + 1] = tmp]

(* "swap_list a i j" of the scripts                                        *)
swap_list(arr, x, y) ==
    [k \in DOMAIN arr |-> IF k = x + 1 THEN arr[y + 1] ELSE IF k = y + 1 THEN arr[x + 1] ELSE arr[k]]

Init ==
    /\ a = <<>>
    /\ doing = "none" /\ i = 0 /\ j = 0 /\ j_min = 0 /\ res = 0
    /\ heap = [c \in {} |-> <<0, 0>>]

Given(arr) ==
    /\ a = <<>> /\ a' = arr
    /\ UNCHANGED <<doing, i, j, j_min, res, heap>>

Begin(f) ==
    /\ doing = "none" /\ a # <<>>
    /\ doing' = f /\ i' = 0 /\ j' = 0 /\ j_min' = 0 /\ res' = 0
    /\ UNCHANGED <<a, heap>>

(* One round of the inner loop of selection_sort.                          *)
FindLeast ==
    /\ doing = "sort" /\ i < Len(a) - 1 /\ j < Len(a)
    /\ j_min' = IF at(j) < at(j_min) THEN j ELSE j_min
    /\ j' = j + 1
    /\ UNCHANGED <<a, doing, i, res, heap>>

PutLeast ==
    /\ doing = "sort" /\ i < Len(a) - 1 /\ j = Len(a)
    /\ a' = swap(a, i, j_min)
    /\ i' = i + 1 /\ j' = i + 1 /\ j_min' = i + 1
    /\ UNCHANGED <<doing, res, heap>>

Sorted ==
    /\ doing = "sort" /\ i >= Len(a) - 1
    /\ doing' = "none"
    /\ UNCHANGED <<a, i, j, j_min, res, heap>>

dotprod ==
    /\ doing = "dot"
    /\ \/ i < Len(a) /\ res' = (res + at(i) * at(i)) % Top /\ i' = i + 1 /\ UNCHANGED doing
       \/ i = Len(a) /\ doing' = "none" /\ UNCHANGED <<res, i>>
    /\ UNCHANGED <<a, j, j_min, heap>>

XorSwap(x, y) ==
    /\ doing = "none" /\ x # y
    /\ a' = xor_swap(a, x, y)
    /\ i' = 0 /\ j' = 0 /\ j_min' = 0 /\ res' = 0
    /\ UNCHANGED <<doing, heap>>

----------------------------------------------------------------------------
(* Points: point_add allocates a point, whichever operand is zero.         *)
ZERO == <<0, 0>>

point_eq(p1, p2) == p1[1] = p2[1] /\ p1[2] = p2[2]

point_new(c, px, py) == heap' = [d \in DOMAIN heap \cup {c} |-> IF d = c THEN <<px, py>> ELSE heap[d]]

point_copy(c, p) == point_new(c, heap[p][1], heap[p][2])

point_add(c, p1, p2) ==
    \/ point_eq(heap[p1], ZERO) /\ point_copy(c, p2)
    \/ /\ ~point_eq(heap[p1], ZERO)
       /\ point_eq(heap[p2], ZERO) /\ point_copy(c, p1)
    \/ /\ ~point_eq(heap[p1], ZERO) /\ ~point_eq(heap[p2], ZERO)
       /\ point_new(c, (heap[p1][1] + heap[p2][1]) % Top, (heap[p1][2] + heap[p2][2]) % Top)

Points ==
    /\ doing = "none" /\ Len(a) = 1
    /\ \E c \in Cells \ DOMAIN heap :
          \/ \E px, py \in {0, Top - 1} : point_new(c, px, py)
          \/ \E p1, p2 \in DOMAIN heap : point_add(c, p1, p2)
    /\ UNCHANGED <<a, doing, i, j, j_min, res>>

Next ==
    \/ \E len \in Lens : \E arr \in [1..len -> Value] : Given(arr)
    \/ \E f \in {"sort", "dot"} : Begin(f)
    \/ FindLeast \/ PutLeast \/ Sorted
    \/ dotprod
    \/ \E x, y \in Index : XorSwap(x, y)
    \/ Points

Spec == Init /\ [][Next]_vars

----------------------------------------------------------------------------
(* Until i, the sort has put the least elements in order, and of those     *)
(* after i the inner loop knows the first least one before j.              *)
LeastFirst ==
    doing = "sort" =>
        /\ \A k \in 0..i - 1, m \in Index : k < m => at(k) <= at(m)
        /\ i < Len(a) =>
              \A k \in i..j - 1 : at(j_min) <= at(k) /\ (at(k) = at(j_min) => j_min <= k)

(* Whatever the sort does, it does by exchanging two elements: no element  *)
(* is lost, also when the least one is where it should be.                 *)
Exchanges == [][a # <<>> => \E x, y \in Index : a' = swap_list(a, x, y)]_a

(* The dot product so far is the sum, as dotprod_spec defines it.          *)
SumSoFar ==
    LET dotprod_spec[size \in 0..Len(a)] ==
            IF size = 0 THEN 0 ELSE (dotprod_spec[size - 1] + at(size - 1) * at(size - 1)) % Top
    IN  doing = "dot" => res = dotprod_spec[i]

(* Adding makes a new point that is the sum of the two, and leaves every   *)
(* other one alone.                                                        *)
AddsPoints ==
    [][/\ \A c \in DOMAIN heap : c \in DOMAIN heap' /\ heap'[c] = heap[c]
       /\ \E c \in DOMAIN heap' \ DOMAIN heap :
             \/ heap'[c][1] \in {0, Top - 1} /\ heap'[c][2] \in {0, Top - 1}
             \/ \E p1, p2 \in DOMAIN heap :
                   heap'[c] = <<(heap[p1][1] + heap[p2][1]) % Top, (heap[p1][2] + heap[p2][2]) % Top>>]_heap
==============================================================================
