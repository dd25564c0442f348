------------------------------- MODULE SwapOff -------------------------------
(* swap_pager_swapoff_object before and after the commit that looks pages  *)
(* up with an iterator, as this copy has it: what finds the next swap      *)
(* block and what sleeps is commented out, so i stays 0 and the scan       *)
(* restarts each time.                                                     *)
(* The object's lock, also in comments, is free between two iterations:    *)
(* pages move within the object, to another one or to none, and the object *)
(* may die.                                                                *)
EXTENDS Integers

CONSTANTS Page, Index,    \* pages, and their indexes in an object
          NULL

VARIABLES home,     \* of a page: its object and index, or NULL
          stale,    \* pages moved since the iterator last walked
          dead,     \* OBJ_DEAD
          p,        \* sb->p, which nothing in this copy sets
          i, m,     \* locals
          ret       \* the function has returned

vars == <<home, stale, dead, p, i, m, ret>>

Places == {"object", "other"} \X Index

Homes ==
    {h \in [Page -> Places \cup {NULL}] :
        \A g, k \in Page : g # k /\ h[g] = h[k] => h[g] = NULL}

Init ==
    /\ home = [g \in Page |-> NULL] /\ stale = FALSE /\ dead = FALSE
    /\ p = NULL /\ i = 0 /\ m = NULL /\ ret = FALSE

Started == p # NULL /\ ~ret

swap_pager_swapoff_object ==
    /\ p = NULL /\ p' \in Index
    /\ UNCHANGED <<home, stale, dead, i, m, ret>>

(* What a call may return: a page or NULL                                  *)
Any == Page \cup {NULL}
At(o, k) ==
    LET there == {g \in Page : home[g] = <<o, k>>}
    IN  IF there = {} THEN {NULL} ELSE there

vm_page_lookup(k) == At("object", k)

(* The iterator is set once (229) and keeps its way through the tree; when *)
(* the tree has changed under it, that may lead anywhere.                  *)
vm_page_iter_lookup(k) == IF stale THEN Any ELSE At("object", k)

(* The next page of the list m is on: of this object, of another one, or   *)
(* whatever a page on no list still points to.                             *)
vm_page_next(g) == IF home[g] = NULL THEN Any ELSE At(home[g][1], home[g][2] + 1)

Broken == i = 0 /\ dead /\ ret' = TRUE /\ UNCHANGED <<stale, i, m>>

(* Mutant: a page that was found leads to the next block, not to a restart.*)
Iteration_NoRestart ==
    /\ Started
    /\ \/ Broken
       \/ /\ ~(i = 0 /\ dead)
          /\ m' \in vm_page_iter_lookup(p + i)
          /\ i' = IF m' = NULL THEN i ELSE 1
          /\ stale' = FALSE /\ UNCHANGED ret
    /\ UNCHANGED <<home, dead, p>>

(* One iteration of the loop: break, continue without a page, or go on     *)
(* with one and restart.                                                   *)
Iteration ==
    /\ Started
    /\ \/ Broken
       \/ /\ ~(i = 0 /\ dead)
          /\ m' \in vm_page_iter_lookup(p + i)
          /\ i' = IF m' = NULL THEN i ELSE 0
          /\ stale' = FALSE /\ UNCHANGED ret
    /\ UNCHANGED <<home, dead, p>>

(* Before the commit m has no value at first,                              *)
swap_pager_swapoff_object_before ==
    /\ p = NULL /\ p' \in Index
    /\ m' \in Any
    /\ UNCHANGED <<home, stale, dead, i, ret>>

(* and where m is not NULL, be it that value or a page found before that   *)
(* has left the object since, it leads to the next one.                    *)
IterationBefore ==
    /\ Started
    /\ \/ Broken
       \/ /\ ~(i = 0 /\ dead)
          /\ m' \in IF m # NULL THEN vm_page_next(m) ELSE vm_page_lookup(p + i)
          /\ i' = IF m' = NULL THEN i ELSE 0
          /\ UNCHANGED <<stale, ret>>
    /\ UNCHANGED <<home, dead, p>>

PagesMove ==
    /\ Started
    /\ home' \in Homes /\ home' # home /\ stale' = TRUE
    /\ UNCHANGED <<dead, p, i, m, ret>>

Die == Started /\ ~dead /\ dead' = TRUE /\ UNCHANGED <<home, stale, p, i, m, ret>>

Next == swap_pager_swapoff_object \/ Iteration \/ PagesMove \/ Die
NextBefore == swap_pager_swapoff_object_before \/ IterationBefore \/ PagesMove \/ Die

Spec == Init /\ [][Next]_vars /\ WF_vars(Iteration)

----------------------------------------------------------------------------
(* Whatever pages it was led to, and whatever became of them, the scan     *)
(* restarts after each (line 312, "Restart scan after object lock          *)
(* dropped"), so that it sees the object die: nothing else ends it, and    *)
(* that always does.                                                       *)
StopsWhenDead == [](ret => dead) /\ (p # NULL /\ dead ~> ret)
==============================================================================
