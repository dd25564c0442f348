------------------------------ MODULE Ownership ------------------------------
(* The Rust examples translated to C, known by their numbers: who owns a   *)
(* block of memory, and until when a pointer to it may be used.            *)
EXTENDS Integers

CONSTANTS NULL,
          Blocks,   \* what malloc may return
          Size      \* the greatest size of an array to collect

VARIABLES prog, pc,
          heap,     \* the blocks that are allocated
          scope,    \* the local variables that are alive
          my,       \* my_data, my_string, collection or r
          numbers, favorite, size,   \* fields of *collection
          elements, \* what *numbers holds, 0 for nothing
          i, index, \* loop counter, favorite_index
          used,     \* what the last step read or wrote through a pointer
          shown     \* the number that was printed

collectionVars == <<numbers, favorite, size, elements, i, index>>
vars == <<prog, pc, heap, scope, my, collectionVars, used, shown>>

Boxes == {1, 2, 3, 7}   \* a single block
array == [k \in 0..Size - 1 |-> 10 * (k + 1)]

Init ==
    /\ prog = 0 /\ pc = "none" /\ heap = {} /\ scope = {} /\ my = NULL
    /\ numbers = NULL /\ favorite = <<NULL, 0>> /\ size = 0 /\ index = 0 /\ i = 0
    /\ elements = [k \in {} |-> 0]
    /\ used = NULL /\ shown = 0

main(n) ==
    /\ prog = 0 /\ prog' = n
    /\ pc' = IF n \in Boxes THEN "create" ELSE IF n = 5 THEN "create_collection" ELSE "borrow"
    /\ scope' = IF n \in {4, 6} THEN {"x"} ELSE {}
    /\ \E s \in IF n = 5 THEN 1..Size ELSE {1} : size' = s /\ index' \in 0..s - 1
    /\ UNCHANGED <<heap, my, numbers, favorite, elements, i, used, shown>>

At(label) == pc = label /\ UNCHANGED prog

(* malloc, and what is done when it fails                                  *)
Allocate(label, goal) ==
    /\ At(label)
    /\ \/ \E b \in Blocks \ heap : my' = b /\ heap' = heap \cup {b} /\ pc' = goal
       \/ my' = NULL /\ pc' = "exit" /\ UNCHANGED heap
    /\ used' = NULL
    /\ UNCHANGED <<scope, collectionVars, shown>>

create_string == Allocate("create", "use1")

(* Every use: two, and three when the string is printed twice              *)
Use ==
    /\ At(pc) /\ pc \in {"use1", "use2", "use3"}
    /\ used' = my
    /\ pc' = CASE pc = "use1" -> "use2"
               [] pc = "use2" -> IF prog = 3 THEN "use3" ELSE "free"
               [] pc = "use3" -> "free"
    /\ UNCHANGED <<heap, scope, my, collectionVars, shown>>

Free ==
    /\ At("free") /\ pc' = "return"
    /\ heap' = heap \ {my} /\ my' = NULL /\ used' = NULL
    /\ UNCHANGED <<scope, collectionVars, shown>>

(* create_number_collection                                                *)
CreateCollection == Allocate("create_collection", "create_numbers")

CreateNumbers ==
    /\ At("create_numbers") /\ used' = my
    /\ \/ \E b \in Blocks \ heap :
             /\ numbers' = b /\ heap' = heap \cup {b} /\ pc' = "copy"
             /\ elements' = [k \in 0..size - 1 |-> 0]
       \/ /\ numbers' = NULL /\ pc' = "exit" /\ heap' = heap \ {my}
          /\ UNCHANGED elements
    /\ UNCHANGED <<scope, my, favorite, size, i, index, shown>>

Copy ==
    /\ At("copy") /\ i < size
    /\ elements' = [elements EXCEPT ![i] = array[i]] /\ i' = i + 1
    /\ used' = numbers
    /\ UNCHANGED <<pc, heap, scope, my, numbers, favorite, size, index, shown>>

SetFavorite ==
    /\ At("copy") /\ i = size /\ pc' = "print"
    /\ favorite' = <<numbers, index>> /\ used' = my
    /\ UNCHANGED <<heap, scope, my, numbers, size, elements, i, index, shown>>

Show ==
    /\ At("print") /\ pc' = "free_numbers"
    /\ shown' = elements[favorite[2]] /\ used' = favorite[1]
    /\ UNCHANGED <<heap, scope, my, collectionVars>>

free_number_collection ==
    /\ UNCHANGED <<scope, my, collectionVars, shown>>
    /\ \/ At("free_numbers") /\ pc' = "free_collection" /\ used' = my /\ heap' = heap \ {numbers}
       \/ At("free_collection") /\ pc' = "return" /\ used' = NULL /\ heap' = heap \ {my}

(* borrow returns its argument; in 6 the scope of x ends before the last   *)
(* use.                                                                    *)
borrow ==
    /\ At("borrow") /\ pc' = "deref" /\ my' = "x" /\ used' = NULL
    /\ UNCHANGED <<heap, scope, collectionVars, shown>>

Deref ==
    /\ At("deref") /\ pc' = IF prog = 6 THEN "end of scope" ELSE "return"
    /\ used' = my
    /\ UNCHANGED <<heap, scope, my, collectionVars, shown>>

EndOfScope ==
    /\ At("end of scope") /\ pc' = "deref again"
    /\ scope' = {} /\ used' = NULL
    /\ UNCHANGED <<heap, my, collectionVars, shown>>

DerefAgain ==
    /\ At("deref again") /\ pc' = "return" /\ used' = my
    /\ UNCHANGED <<heap, scope, my, collectionVars, shown>>

Next ==
    \/ \E n \in 1..7 : main(n)
    \/ create_string \/ Use \/ Free
    \/ CreateCollection \/ CreateNumbers \/ Copy \/ SetFavorite \/ Show
    \/ free_number_collection
    \/ borrow \/ Deref \/ EndOfScope \/ DerefAgain

Spec == Init /\ [][Next]_vars

----------------------------------------------------------------------------
(* "no memory is leaked" (00002-memory-leaks.c 8-10), also not when the    *)
(* second of two allocations fails.                                        *)
NothingLeaked == pc \in {"exit", "return"} => heap = {}

(* Nothing is used after its end, with one exception, the example made for *)
(* it: "SHOULD FAIL!" (00006-lifetimes-broken.c 9).                        *)
OnlyTheBrokenOne == [][used' \in heap \cup scope \cup {NULL} \/ (prog = 6 /\ scope = {})]_vars

(* The favorite points into the copy, whichever was chosen.                *)
ShowsTheFavorite == pc = "free_numbers" => shown = array[index]
==============================================================================
