--------------------------- MODULE RefcountBefore ---------------------------
(* Tracked reference counts of ZFS before the commit: the live references  *)
(* are on a list, the counts are uint64_t.  What is in comments or outside *)
(* this copy is as in Refcount; a reference is found by its holder and     *)
(* number, the first on the list that has both.                            *)
EXTENDS Integers, Sequences, FiniteSets, SequencesExt

CONSTANTS Counts, Refs, Holder, Number, Thread, reference_history

VARIABLES rc,     \* each object's rc_list, rc_removed and counts
          moving  \* per thread: the transfer it is in the middle of

vars == <<rc, moving>>

zfs_refcount_create ==
    [rc_list |-> <<>>, rc_removed |-> <<>>, rc_count |-> 0, rc_removed_count |-> 0]

Nothing == [from |-> "none", to |-> "none", part |-> zfs_refcount_create]

Init ==
    /\ rc = [c \in Counts |-> zfs_refcount_create]
    /\ moving = [t \in Thread |-> Nothing]

Has(part) == ToSet(part.rc_list) \cup ToSet(part.rc_removed)
InUse == UNION ({Has(rc[c]) : c \in Counts} \cup {Has(moving[t].part) : t \in Thread})

Add(c, r) ==
    /\ r \notin InUse
    /\ rc' = [rc EXCEPT ![c].rc_list = <<r>> \o @, ![c].rc_count = @ + Number[r]]
    /\ UNCHANGED moving

Trimmed(o) ==
    IF o.rc_removed_count > reference_history
    THEN [o EXCEPT !.rc_removed = Front(@), !.rc_removed_count = @ - 1]
    ELSE o

RemoveMatching(c, holder, number) ==
    LET found == SelectSeq(rc[c].rc_list, LAMBDA r : Holder[r] = holder /\ Number[r] = number)
    IN  /\ found # <<>>
        /\ rc' = [rc EXCEPT ![c] =
                    Trimmed([rc_list |-> SelectSeq(@.rc_list, LAMBDA r : r # found[1]),
                             rc_removed |-> <<found[1]>> \o @.rc_removed,
                             rc_count |-> @.rc_count - number,
                             rc_removed_count |-> @.rc_removed_count + 1])]
        /\ UNCHANGED moving

(* list_move_tail to a new, empty list *)
TransferOut(t, dst, src) ==
    /\ moving[t] = Nothing /\ dst # src
    /\ moving' = [moving EXCEPT ![t] = [from |-> src, to |-> dst, part |-> rc[src]]]
    /\ rc' = [rc EXCEPT ![src] = zfs_refcount_create]

(* Mutant: the list of dst is replaced by what was moved.                 *)
TransferIn_Replaces(t) ==
    /\ moving[t] # Nothing
    /\ LET p == moving[t].part IN
       rc' = [rc EXCEPT ![moving[t].to] =
                [rc_list |-> p.rc_list,
                 rc_removed |-> @.rc_removed \o p.rc_removed,
                 rc_count |-> @.rc_count + p.rc_count,
                 rc_removed_count |-> @.rc_removed_count + p.rc_removed_count]]
    /\ moving' = [moving EXCEPT ![t] = Nothing]

TransferIn(t) ==
    /\ moving[t] # Nothing
    /\ LET p == moving[t].part IN
       rc' = [rc EXCEPT ![moving[t].to] =
                [rc_list |-> @.rc_list \o p.rc_list,
                 rc_removed |-> @.rc_removed \o p.rc_removed,
                 rc_count |-> @.rc_count + p.rc_count,
                 rc_removed_count |-> @.rc_removed_count + p.rc_removed_count]]
    /\ moving' = [moving EXCEPT ![t] = Nothing]

zfs_refcount_destroy_many(c) ==
    /\ \A t \in Thread : c \notin {moving[t].from, moving[t].to}
    /\ rc' = [rc EXCEPT ![c] = zfs_refcount_create]
    /\ UNCHANGED moving

Next ==
    \/ \E c \in Counts :
        \/ \E r \in Refs : Add(c, r) \/ RemoveMatching(c, Holder[r], Number[r])
        \/ zfs_refcount_destroy_many(c)
    \/ \E t \in Thread : TransferIn(t) \/ \E c, d \in Counts : TransferOut(t, c, d)

Spec == Init /\ [][Next]_vars

----------------------------------------------------------------------------
(* The two versions keep the same references: this one does what the later *)
(* one does, whose trees hold what these lists do, as long as its narrower *)
(* count of removed references does not wrap.                              *)
AsTree(o) == [rc_tree |-> ToSet(o.rc_list), rc_removed |-> o.rc_removed,
              rc_count |-> o.rc_count, rc_removed_count |-> o.rc_removed_count]

Later == INSTANCE Refcount WITH
    rc <- [c \in Counts |-> AsTree(rc[c])],
    moving <- [t \in Thread |-> [moving[t] EXCEPT !.part = AsTree(moving[t].part)]],
    Width <- 256

SameReferences == Later!RefSpec
==============================================================================
