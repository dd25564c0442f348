----------------------------- MODULE ArrayLoops -----------------------------
(***************************************************************************)
(* Loops over an array of the tutorial and of the archive: filling it      *)
(* forwards and backwards (init_array*.c, array_3.c), looking for a value  *)
(* (dafny-tutorial/linear_search.c, binary_search.c), swapping and adding  *)
(* two elements (swap_array.c, add_two_array.c), and quicksort             *)
(* (c-testsuite 00176).  A step is one turn of a loop, or one call of      *)
(* partition.                                                              *)
(***************************************************************************)
EXTENDS Integers, Sequences, FiniteSets

CONSTANTS
    Lens,    \* lengths the arrays may have
    Value,   \* values of elements, and those looked for
    MaxInt,  \* the greatest int
    Fill,    \* 7, the value array_3 writes
    Block,   \* what is in memory nobody wrote
    NULL

VARIABLES
    a,       \* the array, its indices from 0
    was,     \* the array as the caller gave it
    doing,   \* the function called
    low,     \* the index of the loop; the binary search's lower end
    high,    \* the binary search's upper end
    key,     \* the value looked for
    calls,   \* quicksort: calls to come, as pairs left, right
    ret      \* what the function returned

vars == <<a, was, doing, low, high, key, calls, ret>>

n == Cardinality(DOMAIN a)
Running == NULL   \* nothing is returned yet
Done == 0         \* what a void function returns here

Init ==
    /\ a = <<>> /\ was = <<>> /\ doing = "nothing"
    /\ low = 0 /\ high = 0 /\ key = 0 /\ calls = <<>> /\ ret = Running

(* A call with an array that holds values                                  *)
Given(len, f) ==
    /\ doing = "nothing" /\ doing' = f
    /\ a' \in [0..(len - 1) -> Value]
    /\ was' = a' /\ low' = 0

(* init_array2 and init_array_rev take the memory uninitialised.           *)
GivenBlock(len, f) ==
    /\ doing = "nothing" /\ doing' = f
    /\ a' = [i \in 0..(len - 1) |-> Block]
    /\ was' = a' /\ low' = 0

Returns(v) == doing # "nothing" /\ ret = Running /\ ret' = v

----------------------------------------------------------------------------
(* One turn of a loop that writes v at index i                             *)
Writes(i, v) ==
    /\ ret = Running /\ low < n
    /\ a' = [a EXCEPT ![i] = v] /\ low' = low + 1
    /\ UNCHANGED <<was, doing, high, key, calls, ret>>

init_array == doing = "init_array" /\ Writes(low, 0)

init_array2 == doing = "init_array2" /\ Writes(low, 0)

init_array_rev == doing = "init_array_rev" /\ Writes(n - (low + 1), 0)

array_3 == doing = "array_3" /\ Writes(low, Fill)

FillEnds ==
    /\ doing \in {"init_array", "init_array2", "init_array_rev", "array_3"}
    /\ low = n /\ Returns(Done)
    /\ UNCHANGED <<a, was, doing, low, high, key, calls>>

linear_search ==
    /\ doing = "linear" /\ ret = Running
    /\ \/ low < n /\ a[low] = key /\ ret' = low /\ UNCHANGED low
       \/ low < n /\ a[low] # key /\ low' = low + 1 /\ UNCHANGED ret
       \/ low = n /\ ret' = -1 /\ UNCHANGED low
    /\ UNCHANGED <<a, was, doing, high, key, calls>>


binary_search ==
    /\ doing = "binary" /\ ret = Running
    /\ LET mid == (low + high) \div 2 IN
       \/ low >= high /\ ret' = -1 /\ UNCHANGED <<low, high>>
       \/ low < high /\ a[mid] < key /\ low' = mid + 1 /\ UNCHANGED <<high, ret>>
       \/ low < high /\ key < a[mid] /\ high' = mid /\ UNCHANGED <<low, ret>>
       \/ low < high /\ a[mid] = key /\ ret' = mid /\ UNCHANGED <<low, high>>
    /\ UNCHANGED <<a, was, doing, key, calls>>

(* The contracts of these two want i and j to differ and 0 <= i, j < n.     *)
swap_array ==
    /\ doing = "swap" /\ Returns(Done)
    /\ \E i \in DOMAIN a, j \in DOMAIN a :
          i # j /\ a' = [a EXCEPT ![i] = a[j], ![j] = a[i]]
    /\ UNCHANGED <<was, doing, low, high, key, calls>>

array_read_two ==
    /\ doing = "read" /\ \E i \in DOMAIN a, j \in DOMAIN a : i # j /\ Returns(a[i] + a[j])
    /\ UNCHANGED <<a, was, doing, low, high, key, calls>>

----------------------------------------------------------------------------
swap(b, i, j) == [b EXCEPT ![i] = b[j], ![j] = b[i]]

(* The elements below the first one go to the left of the index returned.  *)
Scan(b, left, right) ==
    LET upTo[i \in left..right] ==
            IF i = left THEN [b |-> swap(b, left, right), index |-> left]
            ELSE LET s == upTo[i - 1] IN
                 IF s.b[i - 1] < b[left]
                 THEN [b |-> swap(s.b, i - 1, s.index), index |-> s.index + 1]
                 ELSE s
    IN  upTo[right]

partition(b, left, right) ==
    LET s == Scan(b, left, right)
    IN  [s EXCEPT !.b = swap(s.b, right, s.index)]

(* The next call on the stack                                              *)
quicksort ==
    /\ doing = "quicksort" /\ calls # <<>>
    /\ LET left == Head(calls)[1]
           right == Head(calls)[2]
           part == partition(a, left, right) IN
       \/ left >= right /\ calls' = Tail(calls) /\ UNCHANGED a
       \/ /\ left < right
          /\ a' = part.b
          /\ calls' = <<<<left, part.index - 1>>, <<part.index + 1, right>>>> \o Tail(calls)
    /\ UNCHANGED <<was, doing, low, high, key, ret>>

----------------------------------------------------------------------------
Call ==
    \E len \in Lens :
       /\ \/ \E f \in {"init_array", "swap", "read"} : Given(len, f) /\ UNCHANGED <<high, key, calls>>
          \/ len > 0 /\ Given(len, "array_3") /\ UNCHANGED <<high, key, calls>>
          \/ GivenBlock(len, "init_array2") /\ UNCHANGED <<high, key, calls>>
          \/ len > 0 /\ GivenBlock(len, "init_array_rev") /\ UNCHANGED <<high, key, calls>>
          \/ len > 0 /\ Given(len, "linear") /\ key' \in Value /\ UNCHANGED <<high, calls>>
          \/ /\ 2 * len <= MaxInt
             /\ Given(len, "binary") /\ key' \in Value /\ high' = len /\ UNCHANGED calls
          \/ Given(len, "quicksort") /\ calls' = <<<<0, len - 1>>>> /\ UNCHANGED <<high, key>>
       /\ UNCHANGED ret

Next ==
    \/ Call
    \/ init_array \/ init_array2 \/ init_array_rev \/ array_3 \/ FillEnds
    \/ linear_search \/ binary_search \/ swap_array \/ array_read_two
    \/ quicksort

Spec == Init /\ [][Next]_vars

----------------------------------------------------------------------------
(* The invariants of the fill loops (Owned so far, Block after): what the  *)
(* loop passed, from either end, has the value, and the rest is untouched. *)
Passed == IF doing = "init_array_rev" THEN (n - low)..(n - 1) ELSE 0..(low - 1)

FilledSoFar ==
    doing \in {"init_array", "init_array2", "init_array_rev", "array_3"} =>
        \A i \in DOMAIN a :
            a[i] = IF i \in Passed THEN (IF doing = "array_3" THEN Fill ELSE 0) ELSE was[i]

Sorted(b) == \A i, j \in DOMAIN b : i < j => b[i] <= b[j]

(* A search that returns an index found its value there, and no sum of two *)
(* indices overflowed.  It returns -1 only for a value that is absent: the *)
(* linear search always, the binary search when the array is sorted        *)
(* ("depends on the array being sorted").                                  *)
SearchesFind ==
    doing \in {"linear", "binary"} =>
        /\ a = was /\ low + high <= MaxInt
        /\ ret \notin {Running, -1} => a[ret] = key
        /\ ret = -1 /\ (doing = "binary" => Sorted(a)) => \A i \in DOMAIN a : a[i] # key

Count(b, v) == Cardinality({i \in DOMAIN b : b[i] = v})

(* Quicksort keeps the elements, and those in no part still to be sorted   *)
(* are at their place for good: none before is greater, none after less.   *)
Pending(i) == \E c \in DOMAIN calls : calls[c][1] <= i /\ i <= calls[c][2]

PlacedForGood ==
    doing = "quicksort" =>
        /\ \A v \in Value : Count(a, v) = Count(was, v)
        /\ \A i \in DOMAIN a : ~Pending(i) =>
              \A j \in DOMAIN a : (j < i => a[j] <= a[i]) /\ (j > i => a[j] >= a[i])
=============================================================================
