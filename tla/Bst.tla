-------------------------------- MODULE Bst --------------------------------
(* The binary search trees of src/underconstruction/bst.  The functions    *)
(* recurse over memory: each operator returns the memory after the call    *)
(* and the pointer it returns.                                             *)
EXTENDS Integers, FiniteSets, FiniteSetsExt

CONSTANTS NULL, Tree, Nodes, Value,
          Width        \* bits of an unsigned int

Node == 1..Nodes

VARIABLES mem,         \* data, left, right: the fields; owned: the allocated nodes
          tree         \* the caller's pointers

vars == <<mem, tree>>

Unused(m) == Node \ m.owned

(* Which free node malloc_node gives out makes no difference: the least.   *)
node_cons_both(m, val, l, r) ==
    LET t == Min(Unused(m))
    IN  [m |-> [data |-> [m.data EXCEPT ![t] = val],
                left |-> [m.left EXCEPT ![t] = l],
                right |-> [m.right EXCEPT ![t] = r],
                owned |-> m.owned \cup {t}],
         ret |-> t]

node_cons_left(m, val, l) == node_cons_both(m, val, l, NULL)
node_cons_right(m, val, r) == node_cons_both(m, val, NULL, r)
node_create_node(m, val) == node_cons_both(m, val, NULL, NULL)

RECURSIVE node_insert(_, _, _), node_copy(_, _), node_free_tree(_, _)

node_insert(m, t, value) ==
    IF t = NULL THEN node_create_node(m, value)
    ELSE IF value < m.data[t]
    THEN LET r == node_insert(m, m.left[t], value)
         IN  [m |-> [r.m EXCEPT !.left[t] = r.ret], ret |-> t]
    ELSE LET r == node_insert(m, m.right[t], value)
         IN  [m |-> [r.m EXCEPT !.right[t] = r.ret], ret |-> t]

node_copy(m, t) ==
    IF t = NULL THEN [m |-> m, ret |-> NULL]
    ELSE LET new_left == node_copy(m, m.left[t])
             new_right == node_copy(new_left.m, m.right[t])
         IN  node_cons_both(new_right.m, m.data[t], new_left.ret, new_right.ret)

(* Nobody may rely on what a freed node held.                              *)
freenode(m, t) ==
    [data |-> [m.data EXCEPT ![t] = NULL], left |-> [m.left EXCEPT ![t] = NULL],
     right |-> [m.right EXCEPT ![t] = NULL], owned |-> m.owned \ {t}]

node_free_tree(m, t) ==
    IF t = NULL THEN m
    ELSE LET right == node_free_tree(m, m.right[t])
         IN  freenode(node_free_tree(right, right.left[t]), t)

RECURSIVE node_search(_, _, _), node_containsValue(_, _, _), node_length(_, _),
          node_depth(_, _), node_sum(_, _)

node_search(m, t, value) ==
    IF t = NULL THEN NULL
    ELSE IF m.data[t] = value THEN t
    ELSE node_search(m, IF value < m.data[t] THEN m.left[t] ELSE m.right[t], value)

node_containsValue(m, t, value) ==
    /\ t # NULL
    /\ \/ m.data[t] = value
       \/ node_containsValue(m, IF value < m.data[t] THEN m.left[t] ELSE m.right[t], value)

Unsigned(x) == x % 2^Width

node_length(m, t) ==
    IF t = NULL THEN 0
    ELSE Unsigned(1 + node_length(m, m.left[t]) + node_length(m, m.right[t]))

node_depth(m, t) ==
    IF t = NULL THEN 0
    ELSE Unsigned(1 + Max({node_depth(m, m.left[t]), node_depth(m, m.right[t])}))

node_sum(m, t) ==
    IF t = NULL THEN 0
    ELSE Unsigned(Unsigned(m.data[t]) + node_sum(m, m.left[t]) + node_sum(m, m.right[t]))

get_Tree_Data(m, t) == IF t = NULL THEN 0 ELSE m.data[t]

RECURSIVE NodesOf(_, _)
NodesOf(m, t) ==
    IF t = NULL THEN {} ELSE {t} \cup NodesOf(m, m.left[t]) \cup NodesOf(m, m.right[t])

(* The contracts of the constructors ask of their caller the order of the  *)
(* roots only; the trees are ordered when it is so of all their nodes.     *)
MayGoLeft(l, val) == \A n \in NodesOf(mem, l) : mem.data[n] < val
MayGoRight(r, val) == \A n \in NodesOf(mem, r) : mem.data[n] >= val

Init ==
    /\ mem = [data |-> [n \in Node |-> NULL], left |-> [n \in Node |-> NULL],
              right |-> [n \in Node |-> NULL], owned |-> {}]
    /\ tree = [k \in Tree |-> NULL]

Call(k, r) == mem' = r.m /\ tree' = [tree EXCEPT ![k] = r.ret]

Grow(k, x) ==
    /\ Unused(mem) # {}
    /\ \/ Call(k, node_insert(mem, tree[k], x))
       \/ tree[k] = NULL /\ Call(k, node_create_node(mem, x))
       \/ MayGoLeft(tree[k], x) /\ Call(k, node_cons_left(mem, x, tree[k]))
       \/ MayGoRight(tree[k], x) /\ Call(k, node_cons_right(mem, x, tree[k]))

Join(k, l, x) ==
    /\ k # l /\ Unused(mem) # {}
    /\ MayGoLeft(tree[k], x) /\ MayGoRight(tree[l], x)
    /\ LET r == node_cons_both(mem, x, tree[k], tree[l])
       IN  mem' = r.m /\ tree' = [tree EXCEPT ![k] = r.ret, ![l] = NULL]

Copy(k, l) ==
    /\ tree[l] = NULL
    /\ Cardinality(NodesOf(mem, tree[k])) <= Cardinality(Unused(mem))
    /\ Call(l, node_copy(mem, tree[k]))

Free(k) == Call(k, [m |-> node_free_tree(mem, tree[k]), ret |-> NULL])

Next ==
    \E k \in Tree :
        \/ \E x \in Value : Grow(k, x) \/ \E l \in Tree : Join(k, l, x)
        \/ \E l \in Tree : Copy(k, l)
        \/ Free(k)

Spec == Init /\ [][Next]_vars

----------------------------------------------------------------------------
(* No node is in two trees or twice in one, none that was freed is in a    *)
(* tree, and none that was not freed is in no tree.                        *)
TreesApart ==
    /\ mem.owned = UNION {NodesOf(mem, tree[k]) : k \in Tree}
    /\ \A k, l \in Tree :
          k # l => NodesOf(mem, tree[k]) \cap NodesOf(mem, tree[l]) = {}
    /\ \A n \in mem.owned :
          NodesOf(mem, mem.left[n]) \cap NodesOf(mem, mem.right[n]) = {}

Holding(t, v) == {n \in NodesOf(mem, t) : mem.data[n] = v}

(* contains.c:2: node_containsValue "returns true (1u32) or false (u32),   *)
(* if value is an node in the binary Tree", and so does node_search.       *)
FindsWhatIsThere ==
    \A k \in Tree, v \in Value :
        /\ node_containsValue(mem, tree[k], v) <=> Holding(tree[k], v) # {}
        /\ node_search(mem, tree[k], v) \in
                IF Holding(tree[k], v) = {} THEN {NULL} ELSE Holding(tree[k], v)

(* The counts are of the whole tree, as far as an unsigned int can tell.   *)
MeasuresTheTree ==
    \A k \in Tree :
        LET t == tree[k]
            nodes == NodesOf(mem, t)
        IN  /\ node_length(mem, t) = Unsigned(Cardinality(nodes))
            /\ node_sum(mem, t) = Unsigned(MapThenSumSet(LAMBDA n : mem.data[n], nodes))
            /\ node_depth(mem, t) = Unsigned(Max({0} \cup
                  {Cardinality({a \in nodes : n \in NodesOf(mem, a)}) : n \in nodes}))
            /\ get_Tree_Data(mem, t) \in {0} \cup {mem.data[n] : n \in nodes}

Count == [k \in Tree |-> [v \in Value |-> Cardinality(Holding(tree[k], v))]]

Nothing == [v \in Value |-> 0]
WithOne(b, x) == [b EXCEPT ![x] = @ + 1]
Together(b, c) == [v \in Value |-> b[v] + c[v]]

(* Insertion and the constructors add one value to a tree, or to the two   *)
(* they join, a copy holds what the original holds, which keeps it,        *)
(* freeing leaves nothing, and other trees do not change.                  *)
BagsOfValues ==
    [][\E k \in Tree :
          \/ Count' = [Count EXCEPT ![k] = Nothing]
          \/ \E x \in Value : Count' = [Count EXCEPT ![k] = WithOne(@, x)]
          \/ \E l \in Tree \ {k} :
              \/ Count[l] = Nothing /\ Count' = [Count EXCEPT ![l] = Count[k]]
              \/ \E x \in Value :
                    Count' = [Count EXCEPT ![k] = WithOne(Together(@, Count[l]), x),
                                           ![l] = Nothing]]_Count
=============================================================================
