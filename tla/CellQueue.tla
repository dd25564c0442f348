----------------------------- MODULE CellQueue -----------------------------
(* The queues of the tutorial (src/examples/queue): cells in memory, with  *)
(* a pointer to the first and to the last.  Memory that was freed is given *)
(* out again with what was in it.                                          *)
EXTENDS Integers, Sequences, SequenceTheorems, TLAPS

CONSTANTS NULL, Queue, Cell, Value

VARIABLES first, next,    \* the fields of every cell
          front, back,    \* the fields of every queue
          made,           \* the queues malloc_queue has returned
          owned,          \* the cells malloc_queue_cell has returned, less the freed
          returned,       \* the last thing pop_queue returned, <<>> before
          cells           \* history: the cells pushed and not yet popped

queueVars == <<first, next, front, back, made, owned, returned, cells>>

(* NULL: never written.  No call reads a field it has not written.         *)
QueueInit ==
    /\ first = [c \in Cell |-> NULL]
    /\ next = [c \in Cell |-> NULL]
    /\ front = [q \in Queue |-> NULL] /\ back = [q \in Queue |-> NULL]
    /\ made = {} /\ owned = {}
    /\ returned = <<>>
    /\ cells = [q \in Queue |-> <<>>]

empty_queue(p) ==
    /\ p \notin made
    /\ made' = made \cup {p}
    /\ front' = [front EXCEPT ![p] = NULL]
    /\ back' = [back EXCEPT ![p] = NULL]
    /\ UNCHANGED <<first, next, owned, returned, cells>>

(* Mutant: the cell goes to the front.                                    *)
push_queue_Front(x, q) ==
    /\ q \in made
    /\ \E c \in Cell \ owned :
        /\ owned' = owned \cup {c}
        /\ first' = [first EXCEPT ![c] = x]
        /\ next' = [next EXCEPT ![c] = front[q]]
        /\ front' = [front EXCEPT ![q] = c]
        /\ back' = IF back[q] = NULL THEN [back EXCEPT ![q] = c] ELSE back
        /\ cells' = [cells EXCEPT ![q] = <<c>> \o @]
    /\ UNCHANGED <<made, returned>>

push_queue(x, q) ==
    /\ q \in made
    /\ \E c \in Cell \ owned :
        /\ owned' = owned \cup {c}
        /\ first' = [first EXCEPT ![c] = x]
        /\ \/ /\ back[q] = NULL
              /\ next' = [next EXCEPT ![c] = NULL]
              /\ front' = [front EXCEPT ![q] = c]
           \/ /\ back[q] # NULL
              /\ next' = [next EXCEPT ![c] = NULL, ![back[q]] = c]
              /\ UNCHANGED front
        /\ back' = [back EXCEPT ![q] = c]
        /\ cells' = [cells EXCEPT ![q] = Append(@, c)]
    /\ UNCHANGED <<made, returned>>

(* Both versions may only be called on a queue that is not empty; then h   *)
(* is a cell.                                                              *)
Popped(q, h) ==
    /\ q \in made /\ front[q] # NULL /\ h = front[q]
    /\ returned' = <<first[h]>>
    /\ owned' = owned \ {h}
    /\ cells' = [cells EXCEPT ![q] = Tail(@)]
    /\ UNCHANGED <<first, next, made>>

(* Mutant: back keeps pointing to the cell that was freed.                *)
pop_queue_KeepBack(q) ==
    \E h \in Cell :
        /\ Popped(q, h)
        /\ front' = [front EXCEPT ![q] = next[h]]
        /\ UNCHANGED back

pop_queue(q) ==
    \E h \in Cell :
        /\ Popped(q, h)
        /\ \/ /\ h = back[q]
              /\ front' = [front EXCEPT ![q] = NULL]
              /\ back' = [back EXCEPT ![q] = NULL]
           \/ /\ h # back[q]
              /\ front' = [front EXCEPT ![q] = next[h]]
              /\ UNCHANGED back

pop_queue_unified(q) ==
    \E h \in Cell :
        /\ Popped(q, h)
        /\ front' = [front EXCEPT ![q] = next[h]]
        /\ back' = IF next[h] = NULL THEN [back EXCEPT ![q] = NULL] ELSE back

QueueNext ==
    \E q \in Queue :
        \/ empty_queue(q)
        \/ \E x \in Value : push_queue(x, q)
        \/ pop_queue(q)
        \/ pop_queue_unified(q)

CellQueueSpec == QueueInit /\ [][QueueNext]_queueVars

----------------------------------------------------------------------------
QueueTypeOK ==
    /\ first \in [Cell -> Value \cup {NULL}] /\ next \in [Cell -> Cell \cup {NULL}]
    /\ front \in [Queue -> Cell \cup {NULL}] /\ back \in [Queue -> Cell \cup {NULL}]
    /\ made \in SUBSET Queue /\ owned \in SUBSET Cell
    /\ returned \in {<<>>} \cup {<<x>> : x \in Value}
    /\ cells \in [Queue -> Seq(Cell)]

(* QueueFB and QueueAux of cn_types_2.h and cn_types_3.h: the links lead   *)
(* through the cells to the one back points to, which ends them.           *)
Linked(q) ==
    /\ front[q] = IF cells[q] = <<>> THEN NULL ELSE cells[q][1]
    /\ back[q] = IF cells[q] = <<>> THEN NULL ELSE cells[q][Len(cells[q])]
    /\ \A i \in DOMAIN cells[q] :
          next[cells[q][i]] = IF i = Len(cells[q]) THEN NULL ELSE cells[q][i + 1]

(* No cell is reached twice, be it from one queue or from two.             *)
Apart ==
    \A p, q \in Queue : \A i \in DOMAIN cells[p], j \in DOMAIN cells[q] :
        cells[p][i] = cells[q][j] => p = q /\ i = j

(* QueuePtr_At holds of every queue, of memory of its own, and every cell  *)
(* that was not freed is in a queue: nothing is used after its free and    *)
(* nothing is lost.                                                        *)
QueuesOwnTheirCells ==
    /\ \A q \in Queue : Linked(q)
    /\ Apart
    /\ owned = UNION {{cells[q][i] : i \in DOMAIN cells[q]} : q \in Queue}
    /\ \A q \in Queue \ made : cells[q] = <<>>

Items == [q \in made |-> [i \in DOMAIN cells[q] |-> first[cells[q][i]]]]

Fifo == INSTANCE QueueFifo WITH items <- Items

(* The contracts of empty.c, push.c, push_induction.c, pop.c and           *)
(* pop_unified.c: a push is Snoc, a pop returns Hd and leaves Tl, and the  *)
(* queues that were not called stay as they are.                           *)
FirstInFirstOut == Fifo!Spec

----------------------------------------------------------------------------
(* Proofs, for any number of queues, cells and values.                     *)

IndInv ==
    /\ first \in [Cell -> Value \cup {NULL}] /\ next \in [Cell -> Cell \cup {NULL}]
    /\ front \in [Queue -> Cell \cup {NULL}] /\ back \in [Queue -> Cell \cup {NULL}]
    /\ made \subseteq Queue /\ owned \subseteq Cell
    /\ cells \in [Queue -> Seq(Cell)]
    /\ QueuesOwnTheirCells

(* A queue in memory: its pointers follow its cells, which are its own.    *)
LEMMA Shape ==
    ASSUME IndInv, NULL \notin Cell, NEW q \in Queue
    PROVE  LET s == cells[q]
               n == Len(s)
           IN  /\ s \in Seq(Cell) /\ n \in Nat /\ DOMAIN s = 1..n
               /\ \A i \in 1..n : s[i] \in owned /\ s[i] \in Cell
               /\ front[q] = NULL <=> n = 0
               /\ back[q] = NULL <=> n = 0
               /\ n # 0 => s # <<>> /\ front[q] = s[1] /\ back[q] = s[n]
               /\ \A i \in 1..n : next[s[i]] = IF i = n THEN NULL ELSE s[i + 1]
               /\ \A i, j \in 1..n : s[i] = s[j] => i = j
               /\ \A p \in Queue \ {q} : \A j \in DOMAIN cells[p], i \in 1..n : cells[p][j] # s[i]
<1> DEFINE s == cells[q]
           n == Len(s)
<1>1. s \in Seq(Cell) /\ n \in Nat /\ DOMAIN s = 1..n  BY DEF IndInv
<1>2. \A i \in 1..n : s[i] \in owned /\ s[i] \in Cell
  BY <1>1 DEF IndInv, QueuesOwnTheirCells
<1>3. Linked(q)  BY DEF IndInv, QueuesOwnTheirCells
<1>4. n # 0 => s # <<>> /\ front[q] = s[1] /\ back[q] = s[n]
  BY <1>1, <1>3 DEF Linked
<1>5. n = 0 => front[q] = NULL /\ back[q] = NULL
  <2>1. n = 0 => s = <<>>  BY <1>1
  <2> QED BY <2>1, <1>3 DEF Linked
<1>6. n # 0 => s[1] # NULL /\ s[n] # NULL
  <2>1. n # 0 => 1 \in 1..n /\ n \in 1..n  BY <1>1
  <2> QED BY <2>1, <1>2
<1>7. \A i \in 1..n : next[s[i]] = IF i = n THEN NULL ELSE s[i + 1]
  BY <1>1, <1>3 DEF Linked
<1>8. Apart  BY DEF IndInv, QueuesOwnTheirCells
<1>9. \A i, j \in 1..n : s[i] = s[j] => i = j  BY <1>1, <1>8 DEF Apart
<1>10. \A p \in Queue \ {q} : \A j \in DOMAIN cells[p], i \in 1..n : cells[p][j] # s[i]
  BY <1>1, <1>8 DEF Apart
<1> HIDE DEF s, n
<1> QED BY <1>1, <1>2, <1>4, <1>5, <1>6, <1>7, <1>9, <1>10 DEF s, n

(* A call on one queue keeps the invariant if it leaves that queue in      *)
(* order, and the links and the cells of the others alone.                 *)
LEMMA OneQueue ==
    ASSUME IndInv, NULL \notin Cell, NEW q \in Queue, NEW s \in Seq(Cell),
           first' \in [Cell -> Value \cup {NULL}], next' \in [Cell -> Cell \cup {NULL}],
           NEW f \in Cell \cup {NULL}, front' = [front EXCEPT ![q] = f],
           NEW b \in Cell \cup {NULL}, back' = [back EXCEPT ![q] = b],
           cells' = [cells EXCEPT ![q] = s], made' \subseteq Queue, made \cup {q} \subseteq made',
           Linked(q)',
           \A i, j \in 1..Len(s) : s[i] = s[j] => i = j,
           \A i \in 1..Len(s) : s[i] \notin owned \/ s[i] \in {cells[q][j] : j \in DOMAIN cells[q]},
           \A p \in Queue \ {q} : \A i \in DOMAIN cells[p] :
              next'[cells[p][i]] = next[cells[p][i]],
           owned' = (owned \ {cells[q][j] : j \in DOMAIN cells[q]}) \cup {s[i] : i \in 1..Len(s)}
    PROVE  IndInv'
<1>1. /\ cells' \in [Queue -> Seq(Cell)] /\ cells'[q] = s /\ DOMAIN s = 1..Len(s)
      /\ \A p \in Queue \ {q} : cells'[p] = cells[p] /\ front'[p] = front[p] /\ back'[p] = back[p]
      /\ \A i \in DOMAIN s : s[i] \in Cell
  BY DEF IndInv
<1>2. \A p \in Queue \ {q} : Linked(p)'
  <2> TAKE p \in Queue \ {q}
  <2>1. Linked(p)  BY DEF IndInv, QueuesOwnTheirCells
  <2> QED BY <1>1, <2>1 DEF Linked
<1>3. \A p \in Queue \ {q} : \A i \in DOMAIN cells[p], j \in DOMAIN s : cells[p][i] # s[j]
  <2> TAKE p \in Queue \ {q}
  <2> TAKE i \in DOMAIN cells[p], j \in DOMAIN s
  <2>1. cells[p][i] \in owned  BY DEF IndInv, QueuesOwnTheirCells
  <2>2. \A k \in DOMAIN cells[q] : cells[p][i] # cells[q][k]
    BY DEF IndInv, QueuesOwnTheirCells, Apart
  <2> QED BY <1>1, <2>1, <2>2
<1>4. Apart'
  <2> SUFFICES ASSUME NEW p \in Queue, NEW r \in Queue,
                      NEW i \in DOMAIN cells'[p], NEW j \in DOMAIN cells'[r],
                      cells'[p][i] = cells'[r][j]
               PROVE  p = r /\ i = j
    BY DEF Apart
  <2>1. CASE p = q /\ r = q  BY <1>1, <2>1
  <2>2. CASE p # q /\ r # q  BY <1>1, <2>2 DEF IndInv, QueuesOwnTheirCells, Apart
  <2>3. CASE p = q /\ r # q  BY <1>1, <1>3, <2>3
  <2>4. CASE p # q /\ r = q  BY <1>1, <1>3, <2>4
  <2> QED BY <2>1, <2>2, <2>3, <2>4
<1>5. owned' = UNION {{cells'[p][i] : i \in DOMAIN cells'[p]} : p \in Queue}
  <2> DEFINE In(p) == {cells[p][i] : i \in DOMAIN cells[p]}
             New(p) == {cells'[p][i] : i \in DOMAIN cells'[p]}
  <2>1. owned = UNION {In(p) : p \in Queue}  BY DEF IndInv, QueuesOwnTheirCells
  <2>2. \A p \in Queue \ {q} : New(p) = In(p)  BY <1>1
  <2>3. New(q) = {s[i] : i \in 1..Len(s)}  BY <1>1
  <2>4. \A p \in Queue \ {q} : In(p) \cap In(q) = {}
    BY DEF IndInv, QueuesOwnTheirCells, Apart
  <2>5. owned' = (owned \ In(q)) \cup New(q)  BY <2>3
  <2> HIDE DEF In, New
  <2>6. owned' = UNION {New(p) : p \in Queue}  BY <2>1, <2>2, <2>4, <2>5
  <2> QED BY <2>6 DEF New
<1>6. owned' \subseteq Cell  BY <1>1 DEF IndInv
<1>7. \A p \in Queue \ made' : cells'[p] = <<>>
  BY <1>1 DEF IndInv, QueuesOwnTheirCells
<1>8. front' \in [Queue -> Cell \cup {NULL}] /\ back' \in [Queue -> Cell \cup {NULL}]
  BY DEF IndInv
<1> QED BY <1>1, <1>2, <1>4, <1>5, <1>6, <1>7, <1>8 DEF IndInv, QueuesOwnTheirCells

(* A push writes a cell of its own and the link that leads to it.          *)
LEMMA PushStep ==
    ASSUME IndInv, NULL \notin Cell, NEW q \in Queue, NEW x \in Value, push_queue(x, q)
    PROVE  IndInv'
<1> DEFINE s == cells[q]
           n == Len(s)
<1>1. /\ s \in Seq(Cell) /\ n \in Nat /\ DOMAIN s = 1..n
      /\ \A i \in 1..n : s[i] \in owned /\ s[i] \in Cell
      /\ back[q] = NULL <=> n = 0
      /\ n # 0 => front[q] = s[1] /\ back[q] = s[n]
      /\ \A i \in 1..n : next[s[i]] = IF i = n THEN NULL ELSE s[i + 1]
      /\ \A i, j \in 1..n : s[i] = s[j] => i = j
      /\ \A p \in Queue \ {q} : \A j \in DOMAIN cells[p], i \in 1..n : cells[p][j] # s[i]
  BY Shape
<1>2. PICK c \in Cell \ owned :
        /\ owned' = owned \cup {c} /\ first' = [first EXCEPT ![c] = x]
        /\ \/ /\ back[q] = NULL /\ next' = [next EXCEPT ![c] = NULL]
              /\ front' = [front EXCEPT ![q] = c]
           \/ /\ back[q] # NULL /\ next' = [next EXCEPT ![c] = NULL, ![back[q]] = c]
              /\ front' = front
        /\ back' = [back EXCEPT ![q] = c] /\ cells' = [cells EXCEPT ![q] = Append(s, c)]
        /\ q \in made /\ made' = made
  BY DEF push_queue
<1> DEFINE a == Append(s, c)
<1> HIDE DEF s, n
<1>3. /\ a \in Seq(Cell) /\ Len(a) = n + 1 /\ DOMAIN a = 1..(n + 1)
      /\ \A i \in 1..n : a[i] = s[i]
  <2>1. /\ a \in Seq(Cell) /\ Len(a) = Len(s) + 1 /\ \A i \in 1..Len(s) : a[i] = s[i]
    BY <1>1
  <2> QED BY <2>1 DEF n
<1>4. a[n + 1] = c
  <2>1. a[Len(s) + 1] = c  BY <1>1
  <2> QED BY <2>1 DEF n
<1> HIDE DEF a
<1>5. /\ next \in [Cell -> Cell \cup {NULL}] /\ first \in [Cell -> Value \cup {NULL}]
      /\ front \in [Queue -> Cell \cup {NULL}] /\ cells \in [Queue -> Seq(Cell)]
      /\ back \in [Queue -> Cell \cup {NULL}]
  BY DEF IndInv
<1>6. /\ next' \in [Cell -> Cell \cup {NULL}]
      /\ next'[c] = NULL
      /\ n # 0 => next'[s[n]] = c
      /\ \A d \in Cell \ {c} : (n = 0 \/ d # s[n]) => next'[d] = next[d]
  <2>1. CASE n = 0
    <3>1. next' = [next EXCEPT ![c] = NULL]  BY <1>1, <1>2, <2>1
    <3> QED BY <1>5, <2>1, <3>1
  <2>2. CASE n # 0
    <3>1. next' = [next EXCEPT ![c] = NULL, ![s[n]] = c]  BY <1>1, <1>2, <2>2
    <3>2. n \in 1..n /\ s[n] \in Cell \ {c}  BY <1>1, <1>2, <2>2
    <3> QED BY <1>5, <2>2, <3>1, <3>2
  <2> QED BY <2>1, <2>2
<1>7. cells'[q] = a /\ back'[q] = c /\ front'[q] = a[1] /\ front' = [front EXCEPT ![q] = a[1]]
      /\ cells' = [cells EXCEPT ![q] = a]
  <2>1. CASE n = 0
    <3>1. a[1] = c  BY <1>4, <2>1
    <3> QED BY <1>1, <1>2, <1>5, <2>1, <3>1 DEF a
  <2>2. CASE n # 0
    <3>1. a[1] = s[1] /\ front[q] = s[1]  BY <1>1, <1>3, <2>2
    <3> QED BY <1>1, <1>2, <1>5, <2>2, <3>1 DEF a
  <2> QED BY <2>1, <2>2
<1>8. Linked(q)'
  <2>1. a # <<>> /\ Len(a) = n + 1  BY <1>1, <1>3
  <2>2. ASSUME NEW i \in 1..(n + 1)
        PROVE  next'[a[i]] = IF i = n + 1 THEN NULL ELSE a[i + 1]
    <3>1. CASE i = n + 1  BY <1>4, <1>6, <3>1
    <3>2. CASE i = n  BY <1>1, <1>3, <1>4, <1>6, <2>2, <3>2
    <3>3. CASE i \in 1..(n - 1)
      <4>1. i \in 1..n /\ i + 1 \in 1..n /\ n \in 1..n /\ i # n /\ n # 0  BY <1>1, <3>3
      <4>2. s[i] \in Cell \ {c} /\ s[i] # s[n]  BY <1>1, <4>1, <1>2
      <4> QED BY <1>1, <1>3, <1>6, <4>1, <4>2
    <3> QED BY <1>1, <3>1, <3>2, <3>3
  <2> QED BY <1>3, <1>4, <1>7, <2>1, <2>2 DEF Linked
<1>9. \A i, j \in 1..Len(a) : a[i] = a[j] => i = j
  <2> SUFFICES ASSUME NEW i \in 1..(n + 1), NEW j \in 1..(n + 1), a[i] = a[j] PROVE i = j
    BY <1>3
  <2>1. ASSUME NEW k \in 1..n PROVE a[k] = s[k] /\ a[k] # c  BY <1>1, <1>2, <1>3
  <2>2. \A k \in 1..(n + 1) : k \in 1..n \/ k = n + 1  BY <1>1
  <2> QED BY <1>1, <1>4, <2>1, <2>2
<1>10. \A i \in 1..Len(a) : a[i] \notin owned \/ a[i] \in {s[j] : j \in DOMAIN s}
  <2> TAKE i \in 1..Len(a)
  <2>1. CASE i \in 1..n  BY <1>1, <1>3, <2>1
  <2>2. CASE i = n + 1  BY <1>2, <1>4, <2>2
  <2> QED BY <1>1, <1>3, <2>1, <2>2
<1>11. \A p \in Queue \ {q} : \A i \in DOMAIN cells[p] :
         next'[cells[p][i]] = next[cells[p][i]]
  <2> TAKE p \in Queue \ {q}
  <2> TAKE i \in DOMAIN cells[p]
  <2>1. cells[p][i] \in owned /\ cells[p][i] \in Cell
    BY Shape DEF IndInv, QueuesOwnTheirCells
  <2>2. n # 0 => cells[p][i] # s[n]
    <3>1. n # 0 => n \in 1..n  BY <1>1
    <3> QED BY <1>1, <3>1
  <2> QED BY <1>2, <1>6, <2>1, <2>2
<1>12. owned' = (owned \ {s[j] : j \in DOMAIN s}) \cup {a[i] : i \in 1..Len(a)}
  <2>1. {a[i] : i \in 1..Len(a)} = {s[j] : j \in DOMAIN s} \cup {c}
    <3>1. \A i \in 1..Len(a) : i \in 1..n \/ i = n + 1  BY <1>1, <1>3
    <3>2. 1..n \subseteq 1..Len(a) /\ n + 1 \in 1..Len(a)  BY <1>1, <1>3
    <3> QED BY <1>1, <1>3, <1>4, <3>1, <3>2
  <2>2. {s[j] : j \in DOMAIN s} \subseteq owned  BY <1>1
  <2> QED BY <1>2, <2>1, <2>2
<1>13. first' \in [Cell -> Value \cup {NULL}] /\ next' \in [Cell -> Cell \cup {NULL}]
  BY <1>2, <1>5, <1>6
<1>14. /\ a[1] \in Cell \cup {NULL} /\ c \in Cell \cup {NULL}
       /\ back' = [back EXCEPT ![q] = c] /\ made' \subseteq Queue /\ made \cup {q} \subseteq made'
  <2>1. 1 \in 1..(n + 1)  BY <1>1
  <2> QED BY <1>2, <1>3, <2>1 DEF IndInv
<1> DEFINE f == a[1]
<1>15. /\ a \in Seq(Cell) /\ f \in Cell \cup {NULL} /\ c \in Cell \cup {NULL}
       /\ front' = [front EXCEPT ![q] = f] /\ back' = [back EXCEPT ![q] = c]
       /\ cells' = [cells EXCEPT ![q] = a]
       /\ made' \subseteq Queue /\ made \cup {q} \subseteq made'
  BY <1>3, <1>7, <1>14
<1> HIDE DEF f
<1> QED BY <1>8, <1>9, <1>10, <1>11, <1>12, <1>13, <1>15, OneQueue DEF s

(* What both versions of pop do to a queue.                                *)
LEMMA PopEffect ==
    ASSUME IndInv, NULL \notin Cell, NEW q \in Queue, pop_queue(q) \/ pop_queue_unified(q)
    PROVE  LET s == cells[q]
               n == Len(s)
           IN  /\ n \in Nat \ {0} /\ s \in Seq(Cell) /\ s # <<>> /\ q \in made
               /\ returned' = <<first[s[1]]>> /\ owned' = owned \ {s[1]}
               /\ cells' = [cells EXCEPT ![q] = Tail(s)]
               /\ front' = [front EXCEPT ![q] = IF n = 1 THEN NULL ELSE s[2]]
               /\ back' = [back EXCEPT ![q] = IF n = 1 THEN NULL ELSE s[n]]
               /\ UNCHANGED <<first, next, made>>
<1> DEFINE s == cells[q]
           n == Len(s)
<1>1. /\ s \in Seq(Cell) /\ n \in Nat /\ DOMAIN s = 1..n
      /\ \A i \in 1..n : s[i] \in Cell
      /\ front[q] = NULL <=> n = 0
      /\ n # 0 => s # <<>> /\ front[q] = s[1] /\ back[q] = s[n]
      /\ \A i \in 1..n : next[s[i]] = IF i = n THEN NULL ELSE s[i + 1]
      /\ \A i, j \in 1..n : s[i] = s[j] => i = j
  BY Shape
<1>2. PICK h \in Cell :
        /\ Popped(q, h)
        /\ \/ /\ h = back[q]
              /\ front' = [front EXCEPT ![q] = NULL] /\ back' = [back EXCEPT ![q] = NULL]
           \/ h # back[q] /\ front' = [front EXCEPT ![q] = next[h]] /\ back' = back
           \/ /\ front' = [front EXCEPT ![q] = next[h]]
              /\ back' = IF next[h] = NULL THEN [back EXCEPT ![q] = NULL] ELSE back
  BY DEF pop_queue, pop_queue_unified
<1>3. /\ n # 0 /\ h = s[1] /\ q \in made /\ UNCHANGED <<first, next, made>>
      /\ returned' = <<first[h]>> /\ owned' = owned \ {h} /\ cells' = [cells EXCEPT ![q] = Tail(s)]
  BY <1>1, <1>2 DEF Popped
<1>4. 1 \in 1..n /\ n \in 1..n /\ n \in Nat \ {0} /\ (n # 1 => 2 \in 1..n /\ 1 # n)
  BY <1>1, <1>3
<1> HIDE DEF s, n
<1>5. next[h] = IF n = 1 THEN NULL ELSE s[2]  BY <1>1, <1>3, <1>4
<1>6. h = back[q] <=> n = 1  BY <1>1, <1>3, <1>4
<1>7. n # 1 => s[2] # NULL  BY <1>1, <1>4
<1>8. back = [back EXCEPT ![q] = s[n]]  BY <1>1, <1>3 DEF IndInv
<1>9. /\ front' = [front EXCEPT ![q] = IF n = 1 THEN NULL ELSE s[2]]
      /\ back' = [back EXCEPT ![q] = IF n = 1 THEN NULL ELSE s[n]]
  BY <1>2, <1>5, <1>6, <1>7, <1>8
<1> QED BY <1>1, <1>3, <1>4, <1>9 DEF s, n

(* A pop keeps the queues in order.                                        *)
LEMMA PopStep ==
    ASSUME IndInv, NULL \notin Cell, NEW q \in Queue, pop_queue(q) \/ pop_queue_unified(q)
    PROVE  IndInv'
<1> DEFINE s == cells[q]
           n == Len(s)
           a == Tail(s)
           f == IF n = 1 THEN NULL ELSE s[2]
           b == IF n = 1 THEN NULL ELSE s[n]
<1>1. /\ s \in Seq(Cell) /\ DOMAIN s = 1..n
      /\ \A i \in 1..n : s[i] \in owned /\ s[i] \in Cell
      /\ \A i \in 1..n : next[s[i]] = IF i = n THEN NULL ELSE s[i + 1]
      /\ \A i, j \in 1..n : s[i] = s[j] => i = j
  BY Shape
<1>2. /\ n \in Nat \ {0} /\ s # <<>> /\ q \in made /\ owned' = owned \ {s[1]}
      /\ cells' = [cells EXCEPT ![q] = a]
      /\ front' = [front EXCEPT ![q] = f] /\ back' = [back EXCEPT ![q] = b]
      /\ UNCHANGED <<first, next, made>>
  BY PopEffect
<1>3. a \in Seq(Cell) /\ Len(a) = n - 1 /\ \A i \in 1..(n - 1) : a[i] = s[i + 1]
  <2>1. /\ a \in Seq(Cell) /\ Len(a) = Len(s) - 1 /\ \A i \in 1..Len(a) : a[i] = s[i + 1]
    BY <1>1, <1>2, HeadTailProperties
  <2> QED BY <2>1
<1> HIDE DEF s, n, a
<1>4. DOMAIN a = 1..(n - 1) /\ \A i \in 1..(n - 1) : i + 1 \in 1..n /\ i + 1 # 1
  BY <1>2, <1>3
<1>5. /\ f \in Cell \cup {NULL} /\ b \in Cell \cup {NULL}
      /\ front'[q] = f /\ back'[q] = b /\ cells'[q] = a
  <2>1. n \in 1..n /\ (n # 1 => 2 \in 1..n)  BY <1>2
  <2> QED BY <1>1, <1>2, <2>1 DEF IndInv
<1>6. Linked(q)'
  <2>1. CASE n = 1
    <3>1. a = <<>> /\ DOMAIN a = {}  BY <1>3, <1>4, <2>1
    <3> QED BY <1>5, <2>1, <3>1 DEF Linked
  <2>2. CASE n # 1
    <3>1. a # <<>> /\ n - 1 \in 1..(n - 1) /\ 1 \in 1..(n - 1)  BY <1>2, <1>3, <1>4, <2>2
    <3>2. a[1] = s[2] /\ a[n - 1] = s[n]  BY <1>2, <1>3, <3>1
    <3>3. ASSUME NEW i \in 1..(n - 1)
          PROVE  next[a[i]] = IF i = n - 1 THEN NULL ELSE a[i + 1]
      <4>1. next[a[i]] = IF i + 1 = n THEN NULL ELSE s[i + 1 + 1]
        BY <1>1, <1>3, <1>4
      <4>2. CASE i = n - 1  BY <1>2, <4>1, <4>2
      <4>3. CASE i # n - 1
        <5>1. i + 1 \in 1..(n - 1) /\ i + 1 # n  BY <1>2, <4>3
        <5> QED BY <1>3, <4>1, <4>3, <5>1
      <4> QED BY <4>2, <4>3
    <3> QED BY <1>2, <1>3, <1>4, <1>5, <2>2, <3>1, <3>2, <3>3 DEF Linked
  <2> QED BY <2>1, <2>2
<1>7. \A i, j \in 1..Len(a) : a[i] = a[j] => i = j
  <2> SUFFICES ASSUME NEW i \in 1..(n - 1), NEW j \in 1..(n - 1), a[i] = a[j] PROVE i = j
    BY <1>3
  <2>1. i + 1 = j + 1  BY <1>1, <1>3, <1>4
  <2> QED BY <1>2, <2>1
<1>8. \A i \in 1..Len(a) : a[i] \in {s[j] : j \in DOMAIN s}  BY <1>1, <1>3, <1>4
<1>9. owned' = (owned \ {s[j] : j \in DOMAIN s}) \cup {a[i] : i \in 1..Len(a)}
  <2>1. {s[j] : j \in DOMAIN s} = {s[1]} \cup {a[i] : i \in 1..Len(a)}
    <3>1. 1 \in 1..n /\ \A j \in 1..n : j = 1 \/ (j - 1 \in 1..(n - 1) /\ (j - 1) + 1 = j)
      BY <1>2
    <3>2. \A j \in 1..n : j = 1 \/ (j - 1 \in 1..(n - 1) /\ s[j] = a[j - 1])  BY <1>3, <3>1
    <3>3. {s[j] : j \in DOMAIN s} \subseteq {s[1]} \cup {a[i] : i \in 1..Len(a)}
      BY <1>1, <1>3, <3>2
    <3>4. {a[i] : i \in 1..Len(a)} \subseteq {s[j] : j \in DOMAIN s}  BY <1>8
    <3>5. s[1] \in {s[j] : j \in DOMAIN s}  BY <1>1, <3>1
    <3> QED BY <3>3, <3>4, <3>5
  <2>2. \A i \in 1..Len(a) : a[i] # s[1]
    <3>1. 1 \in 1..n  BY <1>2
    <3> QED BY <1>1, <1>3, <1>4, <3>1
  <2>3. {a[i] : i \in 1..Len(a)} \subseteq owned  BY <1>1, <1>8
  <2> QED BY <1>2, <2>1, <2>2, <2>3
<1> HIDE DEF f, b
<1>10. /\ first' \in [Cell -> Value \cup {NULL}] /\ next' \in [Cell -> Cell \cup {NULL}]
       /\ made' \subseteq Queue /\ made \cup {q} \subseteq made'
       /\ \A p \in Queue \ {q} : \A i \in DOMAIN cells[p] :
             next'[cells[p][i]] = next[cells[p][i]]
  BY <1>2 DEF IndInv
<1> QED BY <1>2, <1>3, <1>5, <1>6, <1>7, <1>8, <1>9, <1>10, OneQueue DEF s

(* A new queue is empty.                                                   *)
LEMMA MakeStep ==
    ASSUME IndInv, NULL \notin Cell, NEW q \in Queue, empty_queue(q)
    PROVE  IndInv'
<1>1. /\ q \notin made /\ made' = made \cup {q}
      /\ front' = [front EXCEPT ![q] = NULL] /\ back' = [back EXCEPT ![q] = NULL]
      /\ UNCHANGED <<first, next, owned, cells>>
  BY DEF empty_queue
<1>2. cells[q] = <<>>  BY <1>1 DEF IndInv, QueuesOwnTheirCells
<1>3. front' = front /\ back' = back
  <2>1. front[q] = NULL /\ back[q] = NULL  BY <1>2 DEF IndInv, QueuesOwnTheirCells, Linked
  <2> QED BY <1>1, <2>1 DEF IndInv
<1>4. QueuesOwnTheirCells'
  BY <1>1, <1>3 DEF IndInv, QueuesOwnTheirCells, Linked, Apart
<1> QED BY <1>1, <1>3, <1>4 DEF IndInv

(* Every call keeps the queues in order.                                   *)
LEMMA NextStep ==
    ASSUME IndInv, NULL \notin Cell, [QueueNext]_queueVars
    PROVE  IndInv'
<1>1. CASE UNCHANGED queueVars
  BY <1>1 DEF queueVars, IndInv, QueuesOwnTheirCells, Linked, Apart
<1>2. CASE QueueNext  BY <1>2, PushStep, PopStep, MakeStep DEF QueueNext
<1> QED BY <1>1, <1>2

(* At first there is no queue.                                             *)
LEMMA InitOK == QueueInit => IndInv
<1> SUFFICES ASSUME QueueInit PROVE IndInv  OBVIOUS
<1>1. \A q \in Queue : cells[q] = <<>> /\ DOMAIN cells[q] = {} /\ front[q] = NULL /\ back[q] = NULL
  BY DEF QueueInit
<1>2. cells \in [Queue -> Seq(Cell)]  BY DEF QueueInit
<1>3. UNION {{cells[q][i] : i \in DOMAIN cells[q]} : q \in Queue} = {}
  <2>1. \A q \in Queue : {cells[q][i] : i \in DOMAIN cells[q]} = {}  BY <1>1
  <2> QED BY <2>1
<1>4. QueuesOwnTheirCells  BY <1>1, <1>3 DEF QueueInit, QueuesOwnTheirCells, Linked, Apart
<1> QED BY <1>2, <1>4 DEF QueueInit, IndInv

(* Whatever queues are made, pushed to and popped, in whatever order, each *)
(* keeps its cells to itself, in order, with none lost and none freed.     *)
THEOREM CellsStayApart == NULL \notin Cell => (CellQueueSpec => []QueuesOwnTheirCells)
<1> SUFFICES ASSUME NULL \notin Cell PROVE CellQueueSpec => []QueuesOwnTheirCells  OBVIOUS
<1>1. IndInv /\ [QueueNext]_queueVars => IndInv'  BY NextStep
<1>2. IndInv => QueuesOwnTheirCells  BY DEF IndInv
<1> QED BY <1>1, <1>2, InitOK, PTL DEF CellQueueSpec

----------------------------------------------------------------------------
(* What a queue holds                                                      *)
Held(q) == [i \in DOMAIN cells[q] |-> first[cells[q][i]]]

(* Reading the cells of a queue gives a sequence as long.                  *)
LEMMA ReadSeq ==
    ASSUME NEW m \in [Cell -> Value \cup {NULL}], NEW s \in Seq(Cell)
    PROVE  LET h == [i \in DOMAIN s |-> m[s[i]]]
           IN  h \in Seq(Value \cup {NULL}) /\ Len(h) = Len(s)
<1>1. /\ DOMAIN s = 1..Len(s) /\ Len(s) \in Nat
      /\ \A i \in 1..Len(s) : m[s[i]] \in Value \cup {NULL}
  OBVIOUS
<1> QED BY <1>1

(* So does what a queue holds, before and after a call.                    *)
LEMMA HeldOK ==
    ASSUME NEW q \in Queue
    PROVE  /\ IndInv => Held(q) \in Seq(Value \cup {NULL}) /\ Len(Held(q)) = Len(cells[q])
           /\ IndInv' => Held(q)' \in Seq(Value \cup {NULL}) /\ Len(Held(q)') = Len(cells'[q])
<1>1. IndInv => first \in [Cell -> Value \cup {NULL}] /\ cells[q] \in Seq(Cell)
  BY DEF IndInv
<1>2. IndInv' => first' \in [Cell -> Value \cup {NULL}] /\ cells'[q] \in Seq(Cell)
  BY DEF IndInv
<1> QED BY <1>1, <1>2, ReadSeq DEF Held

(* A push appends its value to what the queue holds.                       *)
LEMMA PushSnoc ==
    ASSUME IndInv, IndInv', NEW q \in Queue, NEW x \in Value, push_queue(x, q)
    PROVE  Fifo!Push(x, q) /\ q \in DOMAIN Items
<1> DEFINE s == cells[q]
<1>1. PICK c \in Cell \ owned :
        /\ first' = [first EXCEPT ![c] = x] /\ cells' = [cells EXCEPT ![q] = Append(s, c)]
        /\ q \in made /\ made' = made /\ returned' = returned
  BY DEF push_queue
<1>2. /\ s \in Seq(Cell) /\ DOMAIN s = 1..Len(s) /\ Len(s) \in Nat
      /\ cells \in [Queue -> Seq(Cell)] /\ first \in [Cell -> Value \cup {NULL}]
  BY DEF IndInv
<1>3. ASSUME NEW p \in Queue, NEW i \in DOMAIN cells[p]
      PROVE  cells[p][i] \in Cell \ {c} /\ first'[cells[p][i]] = first[cells[p][i]]
  <2>1. cells[p][i] \in owned /\ owned \subseteq Cell
    BY DEF IndInv, QueuesOwnTheirCells
  <2> QED BY <1>1, <1>2, <2>1
<1>4. \A p \in Queue \ {q} : Held(p)' = Held(p)
  <2> TAKE p \in Queue \ {q}
  <2>1. cells'[p] = cells[p]  BY <1>1, <1>2
  <2> QED BY <1>3, <2>1 DEF Held
<1>5. Held(q)' = Append(Held(q), x)
  <2> DEFINE h == Held(q)
             a == Append(h, x)
             g == Held(q)'
  <2>1. h \in Seq(Value \cup {NULL}) /\ Len(h) = Len(s)  BY HeldOK
  <2>2. g \in Seq(Value \cup {NULL}) /\ Len(g) = Len(cells'[q])
    BY HeldOK
  <2>3. cells'[q] = Append(s, c) /\ Len(cells'[q]) = Len(s) + 1  BY <1>1, <1>2
  <2>4. /\ a \in Seq(Value \cup {NULL}) /\ Len(a) = Len(s) + 1
        /\ \A i \in 1..Len(s) : a[i] = h[i]
    BY <1>2, <2>1
  <2>5. a[Len(s) + 1] = x  BY <1>2, <2>1
  <2>6. ASSUME NEW i \in 1..(Len(s) + 1)  PROVE g[i] = a[i]
    <3>1. g[i] = first'[cells'[q][i]]
      <4>1. DOMAIN cells'[q] = 1..(Len(s) + 1)  BY <1>2, <2>3
      <4> QED BY <4>1 DEF Held
    <3>2. CASE i = Len(s) + 1
      <4>1. cells'[q][i] = c  BY <1>2, <2>3, <3>2
      <4> QED BY <1>1, <1>2, <2>5, <3>1, <3>2, <4>1
    <3>3. CASE i \in 1..Len(s)
      <4>1. cells'[q][i] = s[i]  BY <1>2, <2>3, <3>3
      <4>2. h[i] = first[s[i]]  BY <1>2, <3>3 DEF Held
      <4> QED BY <1>2, <1>3, <2>4, <3>1, <3>3, <4>1, <4>2
    <3>4. i \in 1..Len(s) \/ i = Len(s) + 1  BY <1>2
    <3> QED BY <3>2, <3>3, <3>4
  <2> HIDE DEF h, a, g
  <2>7. g = a  BY <2>2, <2>3, <2>4, <2>6, SeqEqual
  <2> QED BY <2>7 DEF g, a, h
<1>6. Items = [p \in made |-> Held(p)] /\ Items' = [p \in made' |-> Held(p)']
  BY DEF Items, Held
<1>7. Items' = [Items EXCEPT ![q] = Append(@, x)]
  <2>1. made \subseteq Queue  BY DEF IndInv
  <2> QED BY <1>1, <1>4, <1>5, <1>6, <2>1
<1>8. q \in DOMAIN Items  BY <1>1, <1>6
<1> QED BY <1>1, <1>7, <1>8 DEF Fifo!Push

(* A pop returns the first of what the queue holds, and leaves the rest.   *)
LEMMA PopHead ==
    ASSUME IndInv, IndInv', NULL \notin Cell, NEW q \in Queue,
           pop_queue(q) \/ pop_queue_unified(q)
    PROVE  Fifo!Pop(q) /\ q \in DOMAIN Items
<1> DEFINE s == cells[q]
           h == Held(q)
           g == Held(q)'
           t == Tail(h)
<1>1. /\ Len(s) \in Nat \ {0} /\ s \in Seq(Cell) /\ s # <<>> /\ q \in made
      /\ returned' = <<first[s[1]]>> /\ cells' = [cells EXCEPT ![q] = Tail(s)]
      /\ UNCHANGED <<first, made>>
  BY PopEffect
<1>2. cells \in [Queue -> Seq(Cell)] /\ made \subseteq Queue  BY DEF IndInv
<1>3. \A p \in Queue \ {q} : Held(p)' = Held(p)
  <2> TAKE p \in Queue \ {q}
  <2>1. cells'[p] = cells[p]  BY <1>1, <1>2
  <2> QED BY <1>1, <2>1 DEF Held
<1>4. cells'[q] = Tail(s) /\ Len(Tail(s)) = Len(s) - 1
      /\ \A i \in 1..(Len(s) - 1) : Tail(s)[i] = s[i + 1]
  <2>1. Len(Tail(s)) = Len(s) - 1 /\ \A i \in 1..Len(Tail(s)) : Tail(s)[i] = s[i + 1]
    BY <1>1, HeadTailProperties
  <2> QED BY <1>1, <1>2, <2>1
<1>5. h \in Seq(Value \cup {NULL}) /\ Len(h) = Len(s)  BY HeldOK
<1>6. g \in Seq(Value \cup {NULL}) /\ Len(g) = Len(s) - 1
  <2>1. g \in Seq(Value \cup {NULL}) /\ Len(g) = Len(cells'[q])  BY HeldOK
  <2> QED BY <1>4, <2>1
<1>7. h # <<>>  BY <1>1, <1>5
<1>8. \A i \in 1..Len(s) : h[i] = first[s[i]]  BY <1>1 DEF Held
<1>9. t \in Seq(Value \cup {NULL}) /\ Len(t) = Len(s) - 1
      /\ \A i \in 1..(Len(s) - 1) : t[i] = h[i + 1]
  <2>1. /\ t \in Seq(Value \cup {NULL}) /\ Len(t) = Len(h) - 1
        /\ \A i \in 1..Len(t) : t[i] = h[i + 1]
    BY <1>5, <1>7, HeadTailProperties
  <2> QED BY <1>5, <2>1
<1>10. Head(h) = first[s[1]]
  <2>1. Head(h) = h[1] /\ 1 \in 1..Len(s)  BY <1>1, <1>5, <1>7
  <2> QED BY <1>8, <2>1
<1>11. ASSUME NEW i \in 1..(Len(s) - 1)  PROVE g[i] = t[i]
  <2>1. DOMAIN cells'[q] = 1..(Len(s) - 1)
    <3>1. cells'[q] \in Seq(Cell)  BY DEF IndInv
    <3> QED BY <1>4, <3>1
  <2>2. g[i] = first[s[i + 1]]  BY <1>1, <1>4, <2>1 DEF Held
  <2>3. i + 1 \in 1..Len(s)  BY <1>1
  <2> QED BY <1>8, <1>9, <2>2, <2>3
<1> HIDE DEF h, g, t
<1>12. g = t  BY <1>6, <1>9, <1>11, SeqEqual
<1>13. Items = [p \in made |-> Held(p)] /\ Items' = [p \in made' |-> Held(p)']
  BY DEF Items, Held
<1>14. Items[q] = h  BY <1>1, <1>13 DEF h
<1>15. Items' = [Items EXCEPT ![q] = Tail(@)]
  BY <1>1, <1>2, <1>3, <1>12, <1>13, <1>14 DEF g, t, h
<1>16. q \in DOMAIN Items  BY <1>1, <1>13
<1> QED BY <1>1, <1>7, <1>10, <1>14, <1>15, <1>16 DEF Fifo!Pop

(* A new queue holds nothing, and the others what they held.               *)
LEMMA MakeEmpty ==
    ASSUME IndInv, NEW q \in Queue, empty_queue(q)
    PROVE  Fifo!Make(q)
<1>1. q \notin made /\ made' = made \cup {q} /\ UNCHANGED <<first, cells, returned>>
  BY DEF empty_queue
<1>2. cells[q] = <<>>  BY <1>1 DEF IndInv, QueuesOwnTheirCells
<1>3. DOMAIN Items = made /\ Items = [p \in made |-> Held(p)]
      /\ Items' = [p \in made' |-> Held(p)']
  BY DEF Items, Held
<1>4. Held(q) = <<>>  BY <1>2 DEF Held
<1>5. \A p \in Queue : Held(p)' = Held(p)  BY <1>1 DEF Held
<1>6. Items' = [p \in DOMAIN Items \cup {q} |-> IF p = q THEN <<>> ELSE Items[p]]
  <2>1. made \subseteq Queue  BY DEF IndInv
  <2> QED BY <1>1, <1>3, <1>4, <1>5, <2>1
<1> QED BY <1>1, <1>3, <1>6 DEF Fifo!Make

(* The queues in memory do what sequences do: a push is Snoc, a pop Hd and *)
(* Tl, as the contracts of push.c and pop.c say.                           *)
THEOREM QueuesAreFifo == NULL \notin Cell => (CellQueueSpec => FirstInFirstOut)
<1> SUFFICES ASSUME NULL \notin Cell PROVE CellQueueSpec => FirstInFirstOut  OBVIOUS
<1>1. QueueInit => Fifo!Init  BY DEF QueueInit, Items, Fifo!Init
<1>2. IndInv /\ [QueueNext]_queueVars => IndInv'  BY NextStep
<1>3. ASSUME IndInv, IndInv', [QueueNext]_queueVars  PROVE [Fifo!Next]_<<Items, returned>>
  <2>1. CASE UNCHANGED queueVars  BY <2>1 DEF queueVars, Items
  <2>2. ASSUME NEW q \in Queue, empty_queue(q)  PROVE Fifo!Next
    BY <1>3, <2>2, MakeEmpty DEF Fifo!Next
  <2>3. ASSUME NEW q \in Queue, NEW x \in Value, push_queue(x, q)  PROVE Fifo!Next
    BY <1>3, <2>3, PushSnoc DEF Fifo!Next
  <2>4. ASSUME NEW q \in Queue, pop_queue(q) \/ pop_queue_unified(q)  PROVE Fifo!Next
    BY <1>3, <2>4, PopHead DEF Fifo!Next
  <2> QED BY <1>3, <2>1, <2>2, <2>3, <2>4 DEF QueueNext
<1> QED BY <1>1, <1>2, <1>3, InitOK, PTL DEF CellQueueSpec, FirstInFirstOut, Fifo!Spec
=============================================================================
