------------------------------ MODULE CkQueue ------------------------------
(* The lists of ck_queue.h, read without a lock while one writer changes   *)
(* them: each operation is a sequence of single stores, and readers take   *)
(* steps between them.  An element taken off stays as it is until no       *)
(* reader can be on it (safe memory reclamation, outside this file).       *)
EXTENDS Integers, Sequences, FiniteSets, Lists

CONSTANTS Heads, Entry, Walker

Cell == Heads \cup Entry
None == "none"

(* Pointers to heads, to elements and to nothing differ.                   *)
ASSUME CkAssumption ==
    /\ NULL \notin Cell /\ None \notin Entry \cup {NULL}
    /\ Heads \cap Entry = {} /\ IsFiniteSet(Entry)

VARIABLES ck_next,    \* first or next element of a cell
          last,       \* cstqh_last of a head: the cell with the final NULL
          stores,     \* of the writer's operation, those to come
          reader_at,  \* where each reader is: None when it does not read
          seen,       \* the elements each reader has been at
          stayed,     \* the elements on the list ever since it began to read
          retired     \* elements taken off that a reader may still be at

ckVars == <<ck_next, last, stores, reader_at, seen, stayed, retired>>

(* A store to next, or to last, of a cell.                                 *)
Next_(c, v) == [var |-> "next", cell |-> c, val |-> v]
Last_(h, c) == [var |-> "last", cell |-> h, val |-> c]
When(cond, s) == IF cond THEN <<s>> ELSE <<>>

FIRST(h) == ck_next[h]
EMPTY(h) == ck_next[h] = NULL
Elements(h) == Chain(ck_next, FIRST(h), Cardinality(Entry) + 1)
OnChain(h, n) == \E i \in DOMAIN Elements(h) : Elements(h)[i] = n
Unused(n) == n \notin retired /\ \A h \in Heads : ~OnChain(h, n)

(* Mutant: the element is linked before its own next is set.              *)
INSERT_AFTER_PublishFirst(h, c, n) ==
    <<Next_(c, n), Next_(n, ck_next[c])>> \o When(ck_next[c] = NULL, Last_(h, n))

INSERT_AFTER(h, c, n) ==
    <<Next_(n, ck_next[c]), Next_(c, n)>> \o When(ck_next[c] = NULL, Last_(h, n))

INSERT_HEAD(h, n) == INSERT_AFTER(h, h, n)

INSERT_TAIL(h, n) == <<Next_(n, NULL), Next_(last[h], n), Last_(h, n)>>

REMOVE_AFTER(h, c) ==
    <<Next_(c, ck_next[ck_next[c]])>> \o When(ck_next[ck_next[c]] = NULL, Last_(h, c))

REMOVE_HEAD(h) == REMOVE_AFTER(h, h)

REMOVE(h, n) ==
    IF FIRST(h) = n THEN REMOVE_HEAD(h)
    ELSE LET s == Elements(h)
         IN  REMOVE_AFTER(h, s[CHOOSE i \in DOMAIN s : ck_next[s[i]] = n])

INIT(h) == <<Next_(h, NULL), Last_(h, h)>>

CONCAT(g, h) ==
    IF EMPTY(h) THEN <<>>
    ELSE <<Next_(last[g], FIRST(h)), Last_(g, last[h])>> \o INIT(h)

MOVE(g, h) ==
    <<Next_(g, FIRST(h)), Last_(g, last[h])>> \o When(last[h] = h, Last_(g, g))

SWAP(g, h) ==
    <<Next_(g, FIRST(h)), Last_(g, last[h]), Next_(h, FIRST(g)), Last_(h, last[g])>>
    \o When(EMPTY(h), Last_(g, g)) \o When(EMPTY(g), Last_(h, h))

CkInit ==
    /\ ck_next = [c \in Cell |-> NULL]
    /\ last = [h \in Heads |-> h]
    /\ stores = <<>>
    /\ reader_at = [r \in Walker |-> None]
    /\ seen = [r \in Walker |-> <<>>]
    /\ stayed = [r \in Walker |-> {}]
    /\ retired = {}

Reading == {r \in Walker : reader_at[r] # None}

(* The writer begins an operation; it alone changes the lists.             *)
Begin(ops) == stores = <<>> /\ ops # <<>> /\ stores' = ops /\ UNCHANGED <<ck_next, last, reader_at, seen>>

CkInsert(h, n) ==
    /\ Unused(n)
    /\ \/ Begin(INSERT_HEAD(h, n))
       \/ Begin(INSERT_TAIL(h, n))
       \/ \E e \in Entry : OnChain(h, e) /\ Begin(INSERT_AFTER(h, e, n))
    /\ UNCHANGED <<stayed, retired>>

Remove(h, n) ==
    /\ OnChain(h, n)
    /\ Begin(REMOVE(h, n))
    /\ retired' = retired \cup {n}
    /\ stayed' = [r \in Walker |-> stayed[r] \ {n}]

(* MOVE only copies a head; its caller then empties the old one.           *)
Join(g, h) ==
    /\ g # h
    /\ \/ Begin(CONCAT(g, h)) \/ Begin(SWAP(g, h))
       \/ EMPTY(g) /\ Begin(MOVE(g, h) \o INIT(h))
    /\ UNCHANGED <<stayed, retired>>

CkStore ==
    /\ stores # <<>>
    /\ LET s == stores[1] IN
       \/ s.var = "next" /\ ck_next' = [ck_next EXCEPT ![s.cell] = s.val] /\ UNCHANGED last
       \/ s.var = "last" /\ last' = [last EXCEPT ![s.cell] = s.val] /\ UNCHANGED ck_next
    /\ stores' = Tail(stores)
    /\ UNCHANGED <<reader_at, seen, stayed, retired>>

Visit(r, v) ==
    /\ reader_at' = [reader_at EXCEPT ![r] = v]
    /\ seen' = [seen EXCEPT ![r] = IF v = NULL THEN @ ELSE Append(@, v)]

(* FOREACH: the reader loads the first element, then each next one.  On    *)
(* the list is what the stores done so far have linked.                    *)
Foreach(r, h) ==
    /\ reader_at[r] = None
    /\ reader_at' = [reader_at EXCEPT ![r] = FIRST(h)]
    /\ seen' = [seen EXCEPT ![r] = IF EMPTY(h) THEN <<>> ELSE <<FIRST(h)>>]
    /\ stayed' = [stayed EXCEPT ![r] = {n \in Entry \ retired : OnChain(h, n)}]
    /\ UNCHANGED <<ck_next, last, stores, retired>>

Step(r) ==
    /\ reader_at[r] \in Entry
    /\ Visit(r, ck_next[reader_at[r]])
    /\ UNCHANGED <<ck_next, last, stores, stayed, retired>>

Done(r) ==
    /\ reader_at[r] = NULL
    /\ reader_at' = [reader_at EXCEPT ![r] = None]
    /\ seen' = [seen EXCEPT ![r] = <<>>]
    /\ stayed' = [stayed EXCEPT ![r] = {}]
    /\ UNCHANGED <<ck_next, last, stores, retired>>

(* Once nobody reads, the elements taken off may be used again.            *)
Reclaim ==
    /\ retired # {}
    /\ Reading = {} /\ stores = <<>>
    /\ retired' = {}
    /\ UNCHANGED <<ck_next, last, stores, reader_at, seen, stayed>>

WriterNext ==
    \/ \E h \in Heads, n \in Entry : CkInsert(h, n) \/ Remove(h, n)
    \/ \E g, h \in Heads : Join(g, h)
    \/ CkStore
    \/ Reclaim

ReaderNext == \E r \in Walker : (\E h \in Heads : Foreach(r, h)) \/ Step(r) \/ Done(r)

CkNext == WriterNext \/ ReaderNext

CkSpec == CkInit /\ [][CkNext]_ckVars

----------------------------------------------------------------------------
(* "It is safe to use _FOREACH in the presence of concurrent modifications *)
(* to the list" (ck_queue.h 96-98): a reader that gets to the end has been *)
(* at every element that was on the list all the while, and nowhere twice. *)
SeesWhatStayed ==
    \A r \in Walker :
        /\ reader_at[r] = NULL => \A n \in stayed[r] : \E i \in DOMAIN seen[r] : seen[r][i] = n
        /\ \A i, j \in DOMAIN seen[r] : i # j => seen[r][i] # seen[r][j]

(* Between operations the head's idea of the end is the end of its chain.  *)
EndIsLast ==
    stores = <<>> =>
        \A h \in Heads : last[h] = IF EMPTY(h) THEN h ELSE Elements(h)[Len(Elements(h))]

(* No element is on two lists, unless the writer is in the middle of an    *)
(* operation that is not atomic.                                           *)
ListsApart ==
    stores = <<>> => \A g, h \in Heads : g # h => \A n \in Entry : ~(OnChain(g, n) /\ OnChain(h, n))
=============================================================================
