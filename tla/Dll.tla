-------------------------------- MODULE Dll --------------------------------
(* The doubly linked lists of the tutorial (src/examples/dll).  A caller   *)
(* has a pointer to one node of each of its lists, calls the functions     *)
(* with it and keeps what they return; it may follow the links.            *)
EXTENDS Integers, Sequences, FiniteSets, FiniteSetsExt, Lists

CONSTANTS List, Nodes, Element

Node == 1..Nodes

ASSUME DllAssumption == Nodes \in Nat /\ NULL \notin Node

VARIABLES data, prev, next,   \* the fields of every node
          owned,              \* the nodes malloc__dllist has returned, less the freed
          at,                 \* the caller's pointers
          removed             \* the data of the pair remove last returned, <<>> before

dllVars == <<data, prev, next, owned, at, removed>>

DllInit ==
    /\ data = [n \in Node |-> NULL]
    /\ prev = [n \in Node |-> NULL] /\ next = [n \in Node |-> NULL]
    /\ owned = {}
    /\ at = [l \in List |-> NULL]
    /\ removed = <<>>

(* Which free node malloc__dllist gives out makes no difference: the least. *)
Fresh == Min(Node \ owned)

malloc(element) ==
    /\ owned # Node
    /\ owned' = owned \cup {Fresh}
    /\ data' = [data EXCEPT ![Fresh] = element]

singleton(l, element) ==
    /\ at[l] = NULL
    /\ malloc(element)
    /\ prev' = [prev EXCEPT ![Fresh] = NULL]
    /\ next' = [next EXCEPT ![Fresh] = NULL]
    /\ at' = [at EXCEPT ![l] = Fresh]
    /\ UNCHANGED removed

(* The new node goes after n; without an n it is a list of its own.        *)
add(l, element) ==
    /\ malloc(element)
    /\ \/ /\ at[l] = NULL
          /\ prev' = [prev EXCEPT ![Fresh] = NULL]
          /\ next' = [next EXCEPT ![Fresh] = NULL]
       \/ /\ at[l] # NULL
          /\ next' = [next EXCEPT ![Fresh] = next[at[l]], ![at[l]] = Fresh]
          /\ prev' = [n \in Node |-> IF n = Fresh THEN at[l]
                                     ELSE IF n = next[at[l]] THEN Fresh ELSE prev[n]]
    /\ at' = [at EXCEPT ![l] = Fresh]
    /\ UNCHANGED removed

(* Field f with v in the neighbour, if there is one.  Nobody may rely on   *)
(* what the freed node n held.                                             *)
Relinked(f, n, neighbour, v) ==
    [k \in Node |-> IF k = n THEN NULL ELSE IF k = neighbour THEN v ELSE f[k]]

(* Mutant: the left neighbour is the new place.                           *)
remove_Leftwards(l) ==
    /\ at[l] # NULL
    /\ LET n == at[l]
       IN  /\ next' = Relinked(next, n, prev[n], next[n])
           /\ prev' = Relinked(prev, n, next[n], prev[n])
           /\ at' = [at EXCEPT ![l] = IF prev[n] = NULL THEN next[n] ELSE prev[n]]
           /\ owned' = owned \ {n}
           /\ data' = [data EXCEPT ![n] = NULL]
           /\ removed' = <<data[n]>>

(* Mutant: the right neighbour still points back to the freed node.       *)
remove_OneWay(l) ==
    /\ at[l] # NULL
    /\ LET n == at[l]
       IN  /\ next' = Relinked(next, n, prev[n], next[n])
           /\ prev' = [prev EXCEPT ![n] = NULL]
           /\ at' = [at EXCEPT ![l] = IF next[n] = NULL THEN prev[n] ELSE next[n]]
           /\ owned' = owned \ {n}
           /\ data' = [data EXCEPT ![n] = NULL]
           /\ removed' = <<data[n]>>

remove(l) ==
    /\ at[l] # NULL
    /\ LET n == at[l]
       IN  /\ next' = Relinked(next, n, prev[n], next[n])
           /\ prev' = Relinked(prev, n, next[n], prev[n])
           /\ at' = [at EXCEPT ![l] = IF next[n] = NULL THEN prev[n] ELSE next[n]]
           /\ owned' = owned \ {n}
           /\ data' = [data EXCEPT ![n] = NULL]
           /\ removed' = <<data[n]>>

(* The caller follows a link of the node it has.                           *)
walk(l) ==
    /\ at[l] # NULL
    /\ \E n \in {prev[at[l]], next[at[l]]} \ {NULL} : at' = [at EXCEPT ![l] = n]
    /\ UNCHANGED <<data, prev, next, owned, removed>>

DllNext ==
    \E l \in List :
        \/ \E x \in Element : singleton(l, x) \/ add(l, x)
        \/ remove(l)
        \/ walk(l)

SpecDll == DllInit /\ [][DllNext]_dllVars

----------------------------------------------------------------------------
DllTypeOK ==
    /\ data \in [Node -> Element \cup {NULL}]
    /\ prev \in [Node -> Node \cup {NULL}] /\ next \in [Node -> Node \cup {NULL}]
    /\ owned \in SUBSET Node
    /\ at \in [List -> Node \cup {NULL}]
    /\ removed \in {<<>>} \cup {<<x>> : x \in Element}

Size == Cardinality(Node) + 1
Backwards(l) == IF at[l] = NULL THEN <<>> ELSE Chain(prev, prev[at[l]], Size)
Forwards(l) == Chain(next, at[l], Size)
NodesOf(l) == {Backwards(l)[i] : i \in DOMAIN Backwards(l)} \cup {Forwards(l)[i] : i \in DOMAIN Forwards(l)}

(* Dll_at of predicates.h holds of every pointer the caller has: every     *)
(* link is the converse of one, no list has nodes of another or nodes that *)
(* were freed, and every node that was not freed is in a list.             *)
ListsOwnTheirNodes ==
    /\ \A n \in owned :
        /\ next[n] # NULL => next[n] \in owned /\ prev[next[n]] = n
        /\ prev[n] # NULL => prev[n] \in owned /\ next[prev[n]] = n
    /\ \A k, l \in List : k # l => NodesOf(k) \cap NodesOf(l) = {}
    /\ owned = UNION {NodesOf(l) : l \in List}
    /\ \A l \in List : Len(Backwards(l)) + Len(Forwards(l)) = Cardinality(NodesOf(l))

Data(s) == [i \in DOMAIN s |-> data[s[i]]]

Left == [l \in List |-> Data(Backwards(l))]
Curr == [l \in List |-> IF at[l] = NULL THEN <<>> ELSE <<data[at[l]]>>]
Right == [l \in List |-> IF at[l] = NULL THEN <<>> ELSE Data(Chain(next, next[at[l]], Size))]

Zipper == INSTANCE DllSpec WITH left <- Left, curr <- Curr, right <- Right

(* The nodes in memory implement, for every list, a sequence with a place  *)
(* in it where nodes go in and out.                                        *)
ZipperSpec == Zipper!Spec
=============================================================================
