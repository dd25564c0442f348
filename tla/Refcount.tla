------------------------------ MODULE Refcount ------------------------------
(* Tracked reference counts of ZFS after the commit that keeps the live    *)
(* references in AVL trees.  The mutexes, which are comments in this copy, *)
(* are taken as held where the comments have them: a transfer is the two   *)
(* critical sections they mark.  Adding and removing a reference is        *)
(* outside the copy and modelled from the fields it keeps: a removed       *)
(* reference is remembered, at most reference_history of them.             *)
EXTENDS Integers, Sequences, FiniteSets, FiniteSetsExt

CONSTANTS
    Counts,              \* the zfs_refcount_t objects
    Refs,                \* references, as the addresses of their structs
    Holder, Number,      \* ref_holder and ref_number of each
    Thread,
    reference_history,
    Width                \* rc_removed_count counts modulo this (uint8_t: 256)

ASSUME RefAssumption ==
    /\ Refs \subseteq Int /\ Number \in [Refs -> Nat]
    /\ reference_history \in Nat /\ Width \in Nat \ {0}

VARIABLES rc,     \* each object's rc_tree, rc_removed and counts
          moving  \* per thread: the transfer it is in the middle of

refVars == <<rc, moving>>

Cmp(a, b) == IF a > b THEN 1 ELSE IF a < b THEN -1 ELSE 0

(* Live references have ref_search unset: their addresses break ties.      *)
zfs_refcount_compare(r1, r2) ==
    LET cmp1 == Cmp(Holder[r1], Holder[r2])
        cmp2 == Cmp(Number[r1], Number[r2])
        cmp == IF cmp1 # 0 THEN cmp1 ELSE cmp2
    IN  IF cmp # 0 THEN cmp ELSE Cmp(r1, r2)

(* avl_add of a node that compares equal to another one panics.            *)
CanAdd(tree, ref) == \A r \in tree : zfs_refcount_compare(ref, r) # 0

zfs_refcount_create ==
    [rc_tree |-> {}, rc_removed |-> <<>>, rc_count |-> 0, rc_removed_count |-> 0]

Nothing == [from |-> "none", to |-> "none", part |-> zfs_refcount_create]

RefInit ==
    /\ rc = [c \in Counts |-> zfs_refcount_create]
    /\ moving = [t \in Thread |-> Nothing]

Has(part) == part.rc_tree \cup {part.rc_removed[i] : i \in DOMAIN part.rc_removed}
InUse == UNION ({Has(rc[c]) : c \in Counts} \cup {Has(moving[t].part) : t \in Thread})

AddReference(c, r) ==
    /\ r \notin InUse
    /\ rc' = [rc EXCEPT ![c].rc_tree = @ \cup {r}, ![c].rc_count = @ + Number[r]]
    /\ UNCHANGED moving

(* The oldest of the removed references is forgotten when there are more   *)
(* than the history is long, by the count.                                 *)
Trimmed(o) ==
    IF o.rc_removed_count > reference_history
    THEN [o EXCEPT !.rc_removed = SubSeq(@, 1, Len(@) - 1), !.rc_removed_count = @ - 1]
    ELSE o

RemoveReference(c, r) ==
    /\ r \in rc[c].rc_tree
    /\ rc' = [rc EXCEPT ![c] =
                Trimmed([rc_tree |-> @.rc_tree \ {r},
                         rc_removed |-> <<r>> \o @.rc_removed,
                         rc_count |-> @.rc_count - Number[r],
                         rc_removed_count |-> (@.rc_removed_count + 1) % Width])]
    /\ UNCHANGED moving

(* The first half of a transfer empties src; the second adds what it had   *)
(* to dst, whose counts another thread may have changed meanwhile.         *)
TransferOut(t, dst, src) ==
    /\ moving[t] = Nothing
    /\ dst # src
    /\ moving' = [moving EXCEPT ![t] = [from |-> src, to |-> dst, part |-> rc[src]]]
    /\ rc' = [rc EXCEPT ![src] = zfs_refcount_create]

(* Mutant: the counts of dst are overwritten.                             *)
TransferIn_Overwrites(t) ==
    /\ moving[t] # Nothing
    /\ LET p == moving[t].part IN
       rc' = [rc EXCEPT ![moving[t].to] =
                [p EXCEPT !.rc_tree = @ \cup rc[moving[t].to].rc_tree,
                          !.rc_removed = rc[moving[t].to].rc_removed \o @]]
    /\ moving' = [moving EXCEPT ![t] = Nothing]

TransferIn(t) ==
    /\ moving[t] # Nothing
    /\ LET p == moving[t].part IN
       rc' = [rc EXCEPT ![moving[t].to] =
                [rc_tree |-> @.rc_tree \cup p.rc_tree,
                 rc_removed |-> @.rc_removed \o p.rc_removed,
                 rc_count |-> @.rc_count + p.rc_count,
                 rc_removed_count |-> (@.rc_removed_count + p.rc_removed_count) % Width]]
    /\ moving' = [moving EXCEPT ![t] = Nothing]

(* Destroying one that nobody transfers to frees what it has.              *)
zfs_refcount_destroy_many(c) ==
    /\ \A t \in Thread : c \notin {moving[t].from, moving[t].to}
    /\ rc' = [rc EXCEPT ![c] = zfs_refcount_create]
    /\ UNCHANGED moving

RefNext ==
    \/ \E c \in Counts, r \in Refs : AddReference(c, r) \/ RemoveReference(c, r)
    \/ \E c \in Counts : zfs_refcount_destroy_many(c)
    \/ \E t \in Thread, c, d \in Counts : TransferOut(t, c, d)
    \/ \E t \in Thread : TransferIn(t)

RefSpec == RefInit /\ [][RefNext]_refVars

----------------------------------------------------------------------------
Number_(refs) == MapThenSumSet(LAMBDA r : Number[r], refs)

(* No reference is in two objects, on the way or in place.                 *)
Apart ==
    /\ \A c, d \in Counts : c # d => Has(rc[c]) \cap Has(rc[d]) = {}
    /\ \A t, u \in Thread : t # u => Has(moving[t].part) \cap Has(moving[u].part) = {}
    /\ \A c \in Counts, t \in Thread : Has(rc[c]) \cap Has(moving[t].part) = {}

(* Transfers in both directions at once, between adding and removing, keep *)
(* the count of every object the sum of the references in its tree, the    *)
(* trees apart, and every node distinct from those of a tree it may join.  *)
CountsTheTree ==
    /\ \A c \in Counts : rc[c].rc_count = Number_(rc[c].rc_tree)
    /\ \A t \in Thread : moving[t].part.rc_count = Number_(moving[t].part.rc_tree)
    /\ Apart
    /\ \A t \in Thread : moving[t] # Nothing =>
          \A r \in moving[t].part.rc_tree : CanAdd(rc[moving[t].to].rc_tree, r)

(* The count of removed references is that of the list, modulo its width:  *)
(* after enough transfers it is 0 although the list is not empty, and the  *)
(* list may grow beyond the history.                                       *)
RemovedCounted ==
    \A c \in Counts : rc[c].rc_removed_count = Len(rc[c].rc_removed) % Width

(* Transfers between reference counts that run at the same time lose       *)
(* nothing and count right.                                                *)
ReferencesCounted == CountsTheTree /\ RemovedCounted

(* The inductive invariant: what a transfer carries counts right as well.  *)
Object ==
    [rc_tree : SUBSET Refs, rc_removed : Seq(Refs), rc_count : Int,
     rc_removed_count : 0..(Width - 1)]

CountedRight(o) ==
    /\ o \in Object /\ IsFiniteSet(o.rc_tree)
    /\ o.rc_count = Number_(o.rc_tree)
    /\ o.rc_removed_count = Len(o.rc_removed) % Width

Transfer == [from : Counts, to : Counts, part : Object]

RefInv ==
    /\ rc \in [Counts -> Object] /\ moving \in [Thread -> Transfer \cup {Nothing}]
    /\ \A c \in Counts : CountedRight(rc[c])
    /\ \A t \in Thread : CountedRight(moving[t].part)
    /\ Apart
=============================================================================
