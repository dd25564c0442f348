---------------------------- MODULE TailqProofs ----------------------------
(***************************************************************************)
(* The tail queues of sys/queue.h (QueueTailq), for any number of heads    *)
(* and elements: the links are sound after any calls in any order, and the *)
(* macros implement the sequences of QueueSpec.                            *)
(***************************************************************************)
EXTENDS QueueTailq, MemoryProofs

(* h is the head of the elements of s: the links next run through them to  *)
(* NULL, and back through the same cells from the head.                    *)
Ring(N, B, h, s) == Run(N, B, h, s) /\ B[h] = Place(h, s, Len(s))

CellsOf(h, s) == {h} \cup Members(s)

(* The cell the next back pointer is in, behind cell c                     *)
Behind(N, h, c) == IF N[c] # NULL THEN N[c] ELSE h

(* How the links of the cells X change when n is linked in behind p,       *)
LinksIn(N, B, N2, B2, X, h, p, n) ==
    \A c \in X : /\ N2[c] = IF c = p THEN n ELSE IF c = n THEN N[p] ELSE N[c]
                 /\ B2[c] = IF c = n THEN p ELSE IF c = Behind(N, h, p) THEN n ELSE B[c]

(* when n, which is behind p, is taken out,                                *)
LinksOut(N, B, N2, B2, X, h, p, n) ==
    \A c \in X : /\ N2[c] = IF c = p THEN N[n] ELSE N[c]
                 /\ B2[c] = IF c = Behind(N, h, n) THEN p ELSE B[c]

(* when the list of h moves to the end of that of g,                       *)
LinksJoined(N, B, N2, B2, X, g, h) ==
    \A c \in X : /\ N2[c] = IF c = B[g] THEN N[h] ELSE N[c]
                 /\ B2[c] = IF c = g THEN B[h] ELSE IF c = N[h] THEN B[g] ELSE B[c]

(* when the list of g moves to h,                                          *)
LinksMoved(N, B, N2, B2, X, g, h) ==
    /\ \A n \in X : N2[n] = N[n] /\ B2[n] = IF n = N[g] THEN h ELSE B[n]
    /\ N2[h] = N[g] /\ B2[h] = IF N[g] = NULL THEN h ELSE B[g]

(* and when they are left alone                                            *)
LinksKept(N, B, N2, B2, X) == \A c \in X : N2[c] = N[c] /\ B2[c] = B[c]

(* What a sequence is made of                                              *)
LEMMA MemberAt ==
    ASSUME NEW S, NEW s \in Seq(S)
    PROVE  /\ Len(s) \in Nat /\ DOMAIN s = 1..Len(s) /\ Members(s) \subseteq S
           /\ \A i \in 1..Len(s) : s[i] \in Members(s) /\ s[i] \in S
           /\ \A n \in Members(s) : \E i \in 1..Len(s) : s[i] = n
<1>1. Len(s) \in Nat /\ DOMAIN s = 1..Len(s) /\ \A i \in 1..Len(s) : s[i] \in S
  OBVIOUS
<1> QED BY <1>1 DEF Members

(* The places of a list are apart: no element is its head, none is twice.  *)
LEMMA PlaceApart ==
    ASSUME NEW h \in TailqHeads, NEW s \in Seq(Elem), NoDuplicates(s)
    PROVE  /\ \A i \in 0..Len(s) : Place(h, s, i) \in CellsOf(h, s)
           /\ \A c \in CellsOf(h, s) : \E i \in 0..Len(s) : c = Place(h, s, i)
           /\ \A i, j \in 0..Len(s) : Place(h, s, i) = Place(h, s, j) => i = j
<1>1. /\ Len(s) \in Nat /\ DOMAIN s = 1..Len(s) /\ Members(s) \subseteq Elem
      /\ \A i \in 1..Len(s) : s[i] \in Members(s) /\ s[i] \in Elem
      /\ \A n \in Members(s) : \E i \in 1..Len(s) : s[i] = n
  BY MemberAt
<1>2. h \notin Elem  BY TailqAssumption
<1>3. \A i \in 0..Len(s) : i # 0 => i \in 1..Len(s)  BY <1>1
<1>4. \A i \in 0..Len(s) : Place(h, s, i) \in CellsOf(h, s)
  BY <1>1, <1>3 DEF Place, CellsOf
<1>5. ASSUME NEW c \in CellsOf(h, s)  PROVE \E i \in 0..Len(s) : c = Place(h, s, i)
  <2>1. CASE c = h
    <3>1. 0 \in 0..Len(s) /\ Place(h, s, 0) = h  BY <1>1 DEF Place
    <3> QED BY <2>1, <3>1
  <2>2. CASE c \in Members(s)
    <3>1. PICK i \in 1..Len(s) : s[i] = c  BY <1>1, <2>2
    <3>2. i \in 0..Len(s) /\ Place(h, s, i) = c  BY <1>1, <3>1 DEF Place
    <3> QED BY <3>2
  <2> QED BY <2>1, <2>2 DEF CellsOf
<1>6. ASSUME NEW i \in 0..Len(s), NEW j \in 0..Len(s), Place(h, s, i) = Place(h, s, j)
      PROVE  i = j
  <2>1. CASE i = 0 \/ j = 0  BY <1>1, <1>2, <1>3, <1>6, <2>1 DEF Place
  <2>2. CASE i # 0 /\ j # 0
    <3>1. i \in DOMAIN s /\ j \in DOMAIN s /\ s[i] = s[j]  BY <1>1, <1>3, <1>6, <2>2 DEF Place
    <3> QED BY <3>1 DEF NoDuplicates
  <2> QED BY <2>1, <2>2
<1> QED BY <1>4, <1>5, <1>6

(* Behind place k, which is c, lies the next one, and from the last one    *)
(* the head.                                                               *)
LinkedAt(N, B, h, s, k, c) ==
    /\ k < Len(s) => /\ N[c] = s[k + 1] /\ s[k + 1] # NULL
                     /\ Behind(N, h, c) = s[k + 1] /\ B[s[k + 1]] = c
    /\ k = Len(s) => N[c] = NULL /\ Behind(N, h, c) = h /\ B[h] = c
    /\ B[Behind(N, h, c)] = c

LEMMA RingAt ==
    ASSUME NEW N, NEW B, NEW h \in TailqHeads, NEW s \in Seq(Elem), NoDuplicates(s),
           Ring(N, B, h, s), NEW k \in 0..Len(s)
    PROVE  LinkedAt(N, B, h, s, k, Place(h, s, k))
<1>1. Len(s) \in Nat /\ \A i \in 1..Len(s) : s[i] \in Elem  BY MemberAt
<1>2. CASE k < Len(s)
  <2>1. k + 1 \in 1..Len(s) /\ (k + 1) - 1 = k  BY <1>1, <1>2
  <2>2. N[Place(h, s, (k + 1) - 1)] = s[k + 1] /\ B[s[k + 1]] = Place(h, s, (k + 1) - 1)
    BY <2>1 DEF Ring, Run
  <2>3. s[k + 1] # NULL  BY <1>1, <2>1, TailqAssumption DEF TailqCell
  <2> QED BY <1>2, <2>1, <2>2, <2>3 DEF Behind, LinkedAt
<1>3. CASE k = Len(s)  BY <1>1, <1>3 DEF Ring, Run, Behind, LinkedAt
<1> QED BY <1>1, <1>2, <1>3 DEF LinkedAt

(* Whoever leaves the cells of a list alone leaves the list.               *)
LEMMA RingKept ==
    ASSUME NEW N, NEW B, NEW N2, NEW B2, NEW h \in TailqHeads, NEW s \in Seq(Elem),
           NoDuplicates(s), Ring(N, B, h, s), LinksKept(N, B, N2, B2, CellsOf(h, s))
    PROVE  Ring(N2, B2, h, s)
<1>1. /\ Len(s) \in Nat
      /\ \A i \in 1..Len(s) : s[i] \in CellsOf(h, s) /\ i - 1 \in 0..Len(s)
  BY MemberAt DEF CellsOf
<1>2. h \in CellsOf(h, s) /\ Len(s) \in 0..Len(s)  BY <1>1 DEF CellsOf
<1>3. \A i \in 0..Len(s) : Place(h, s, i) \in CellsOf(h, s)  BY PlaceApart
<1> QED BY <1>1, <1>2, <1>3 DEF Ring, Run, LinksKept

----------------------------------------------------------------------------
(* t is s with n put in behind place k.                                    *)
PutIn(s, k, n, t) ==
    /\ t \in Seq(Elem) /\ Len(t) = Len(s) + 1
    /\ \A i \in 1..k : t[i] = s[i]
    /\ t[k + 1] = n
    /\ \A i \in (k + 1)..Len(s) : t[i + 1] = s[i]

LEMMA PutInMembers ==
    ASSUME NEW s \in Seq(Elem), NEW k \in 0..Len(s), NEW n \in Elem, NEW t, PutIn(s, k, n, t)
    PROVE  /\ t \in Seq(Elem) /\ Members(t) = {n} \cup Members(s)
           /\ n \notin Members(s) /\ NoDuplicates(s) => NoDuplicates(t)
<1>1. /\ Len(s) \in Nat /\ DOMAIN s = 1..Len(s)
      /\ \A i \in 1..Len(s) : s[i] \in Members(s)
      /\ \A m \in Members(s) : \E i \in 1..Len(s) : s[i] = m
  BY MemberAt
<1>2. t \in Seq(Elem) /\ DOMAIN t = 1..(Len(s) + 1)  BY <1>1, MemberAt DEF PutIn
<1>3. ASSUME NEW i \in 1..(Len(s) + 1)
      PROVE  \/ i <= k /\ i \in 1..Len(s) /\ t[i] = s[i]
             \/ i = k + 1 /\ t[i] = n
             \/ i > k + 1 /\ i - 1 \in 1..Len(s) /\ t[i] = s[i - 1]
  <2>1. i <= k => i \in 1..k /\ i \in 1..Len(s)  BY <1>1
  <2>2. i > k + 1 => i - 1 \in (k + 1)..Len(s) /\ (i - 1) + 1 = i /\ i - 1 \in 1..Len(s)
    BY <1>1
  <2>3. CASE i <= k  BY <2>1, <2>3 DEF PutIn
  <2>4. CASE i = k + 1  BY <2>4 DEF PutIn
  <2>5. CASE i > k + 1
    <3>1. t[(i - 1) + 1] = s[i - 1]  BY <2>2, <2>5 DEF PutIn
    <3> QED BY <2>2, <2>5, <3>1
  <2> QED BY <1>1, <2>3, <2>4, <2>5
<1>4. Members(t) \subseteq {n} \cup Members(s)  BY <1>1, <1>2, <1>3 DEF Members
<1>5. ASSUME NEW m \in Members(s)  PROVE m \in Members(t)
  <2>1. PICK i \in 1..Len(s) : s[i] = m  BY <1>1
  <2>2. CASE i <= k
    <3>1. i \in 1..k /\ i \in DOMAIN t  BY <1>1, <1>2, <2>2
    <3> QED BY <2>1, <3>1 DEF PutIn, Members
  <2>3. CASE i > k
    <3>1. i \in (k + 1)..Len(s) /\ i + 1 \in DOMAIN t  BY <1>1, <1>2, <2>3
    <3> QED BY <2>1, <3>1 DEF PutIn, Members
  <2> QED BY <1>1, <2>2, <2>3
<1>6. n \in Members(t)
  <2>1. k + 1 \in DOMAIN t  BY <1>1, <1>2
  <2> QED BY <2>1 DEF PutIn, Members
<1>7. ASSUME n \notin Members(s), NoDuplicates(s)  PROVE NoDuplicates(t)
  <2> SUFFICES ASSUME NEW i \in 1..(Len(s) + 1), NEW j \in 1..(Len(s) + 1), t[i] = t[j]
               PROVE  i = j
    BY <1>2 DEF NoDuplicates
  <2>1. \A a, b \in 1..Len(s) : s[a] = s[b] => a = b  BY <1>1, <1>7 DEF NoDuplicates
  <2>2. CASE i = k + 1 \/ j = k + 1  BY <1>1, <1>3, <1>7, <2>2
  <2>3. CASE i # k + 1 /\ j # k + 1
    <3>1. PICK a \in 1..Len(s) : a = (IF i <= k THEN i ELSE i - 1) /\ t[i] = s[a]
      BY <1>3, <2>3
    <3>2. PICK b \in 1..Len(s) : b = (IF j <= k THEN j ELSE j - 1) /\ t[j] = s[b]
      BY <1>3, <2>3
    <3>3. a = b  BY <2>1, <3>1, <3>2
    <3> QED BY <1>1, <2>3, <3>1, <3>2, <3>3
  <2> QED BY <2>2, <2>3
<1> QED BY <1>2, <1>4, <1>5, <1>6, <1>7

(* Linking n in behind place k                                             *)
LEMMA RingInsert ==
    ASSUME NEW N, NEW B, NEW h \in TailqHeads, NEW s \in Seq(Elem), NoDuplicates(s),
           Ring(N, B, h, s), NEW k \in 0..Len(s), NEW n \in Elem, n \notin Members(s),
           NEW t, PutIn(s, k, n, t), NEW p, p = Place(h, s, k), NEW N2, NEW B2,
           LinksIn(N, B, N2, B2, CellsOf(h, t), h, p, n)
    PROVE  Ring(N2, B2, h, t)
<1>0. \A i \in 0..Len(s) : LinkedAt(N, B, h, s, i, Place(h, s, i))  BY RingAt
<1>1. Len(s) \in Nat /\ \A i \in 1..Len(s) : s[i] \in Elem /\ s[i] \in Members(s)
  BY MemberAt
<1>2. t \in Seq(Elem) /\ Members(t) = {n} \cup Members(s) /\ NoDuplicates(t)  BY PutInMembers
<1>3. Len(t) = Len(s) + 1 /\ \A i \in 1..Len(t) : t[i] \in Members(t)  BY <1>2, MemberAt DEF PutIn
<1>4. h \notin Elem /\ NULL \notin Elem /\ NULL # h  BY TailqAssumption DEF TailqCell
<1>5. /\ \A i \in 0..Len(s) : Place(h, s, i) \in CellsOf(h, s)
      /\ \A i \in 0..Len(s) : Place(h, s, i) = p => i = k
  BY PlaceApart
<1>6. n \notin CellsOf(h, s) /\ CellsOf(h, t) = {n} \cup CellsOf(h, s)
  BY <1>2, <1>4 DEF CellsOf
<1>7. \A i \in 0..Len(s) : i <= k => Place(h, t, i) = Place(h, s, i)
  <2> SUFFICES ASSUME NEW i \in 0..Len(s), i <= k, i # 0  PROVE t[i] = s[i]
    BY DEF Place
  <2>1. i \in 1..k  BY <1>1
  <2> QED BY <2>1 DEF PutIn
<1>8. \A i \in 0..Len(s) : i > k => Place(h, t, i + 1) = Place(h, s, i)
  <2> SUFFICES ASSUME NEW i \in 0..Len(s), i > k  PROVE t[i + 1] = s[i]
    BY <1>1 DEF Place
  <2>1. i \in (k + 1)..Len(s)  BY <1>1
  <2> QED BY <2>1 DEF PutIn
<1>9. Place(h, t, k + 1) = n  BY <1>1 DEF Place, PutIn
<1>10. ASSUME NEW i \in 0..Len(s), i # k
       PROVE  /\ N2[Place(h, s, i)] = N[Place(h, s, i)]
              /\ i < Len(s) => B2[s[i + 1]] = Place(h, s, i)
              /\ i = Len(s) => B2[h] = Place(h, s, i)
  <2>1. Place(h, s, i) # p /\ Place(h, s, i) # n /\ Place(h, s, i) \in CellsOf(h, t)
    BY <1>5, <1>6, <1>10
  <2>2. /\ i < Len(s) => s[i + 1] = Behind(N, h, Place(h, s, i)) /\ i + 1 \in 1..Len(s)
        /\ i = Len(s) => h = Behind(N, h, Place(h, s, i))
        /\ B[Behind(N, h, Place(h, s, i))] = Place(h, s, i)
    BY <1>0, <1>1 DEF LinkedAt
  <2>3. B[Behind(N, h, p)] = p  BY <1>0 DEF LinkedAt
  <2>4. Behind(N, h, Place(h, s, i)) # Behind(N, h, p)  BY <2>1, <2>2, <2>3
  <2>5. Behind(N, h, Place(h, s, i)) \in CellsOf(h, s)
    BY <1>1, <2>2 DEF CellsOf
  <2>6. B2[Behind(N, h, Place(h, s, i))] = Place(h, s, i)
    BY <1>6, <2>2, <2>4, <2>5 DEF LinksIn
  <2> QED BY <2>1, <2>2, <2>6 DEF LinksIn
<1>11. N2[p] = n /\ N2[n] = N[p] /\ B2[n] = p
  BY <1>5, <1>6 DEF LinksIn
<1>12. B2[Behind(N, h, p)] = n
  <2>1. Behind(N, h, p) \in CellsOf(h, s)
    BY <1>0, <1>1 DEF CellsOf, LinkedAt
  <2> QED BY <1>6, <2>1 DEF LinksIn
<1>13. ASSUME NEW j \in 1..Len(t)
       PROVE  N2[Place(h, t, j - 1)] = t[j] /\ B2[t[j]] = Place(h, t, j - 1)
  <2>1. CASE j <= k
    <3>1. j - 1 \in 0..Len(s) /\ j - 1 # k /\ j - 1 <= k /\ j - 1 < Len(s) /\ (j - 1) + 1 = j
          /\ j \in 1..k
      BY <1>1, <1>3, <2>1
    <3>2. t[j] = s[j] /\ Place(h, t, j - 1) = Place(h, s, j - 1)  BY <1>7, <3>1 DEF PutIn
    <3>3. N[Place(h, s, j - 1)] = s[j]  BY <1>0, <3>1 DEF LinkedAt
    <3> QED BY <1>10, <3>1, <3>2, <3>3
  <2>2. CASE j = k + 1
    <3>1. j - 1 = k /\ k <= k /\ k \in 0..Len(s) /\ t[j] = n  BY <1>1, <2>2 DEF PutIn
    <3>2. Place(h, t, j - 1) = p  BY <1>7, <3>1
    <3> QED BY <1>11, <3>1, <3>2
  <2>3. CASE j = k + 2
    <3>1. j - 1 = k + 1 /\ k < Len(s) /\ k + 1 \in (k + 1)..Len(s) /\ (k + 1) + 1 = j
      BY <1>1, <1>3, <2>3
    <3>2. t[j] = s[k + 1] /\ Place(h, t, j - 1) = n  BY <1>9, <3>1 DEF PutIn
    <3>3. N[p] = s[k + 1] /\ Behind(N, h, p) = s[k + 1]  BY <1>0, <3>1 DEF LinkedAt
    <3> QED BY <1>11, <1>12, <3>2, <3>3
  <2>4. CASE j > k + 2
    <3>1. PICK i \in 0..Len(s) : i = j - 2
      BY <1>1, <1>3, <2>4
    <3>2. /\ i # k /\ i > k /\ i < Len(s) /\ j - 1 = i + 1
          /\ i + 1 \in (k + 1)..Len(s) /\ j = (i + 1) + 1
      BY <1>1, <1>3, <2>4, <3>1
    <3>3. t[j] = s[i + 1] /\ Place(h, t, j - 1) = Place(h, s, i)
      BY <1>8, <3>2 DEF PutIn
    <3>4. N[Place(h, s, i)] = s[i + 1]  BY <1>0, <3>2 DEF LinkedAt
    <3> QED BY <1>10, <3>2, <3>3, <3>4
  <2> QED BY <1>1, <1>3, <2>1, <2>2, <2>3, <2>4
<1>14. N2[Place(h, t, Len(t))] = NULL /\ B2[h] = Place(h, t, Len(t))
  <2>1. CASE k = Len(s)
    <3>1. N[p] = NULL /\ Behind(N, h, p) = h  BY <1>0, <2>1 DEF LinkedAt
    <3> QED BY <1>3, <1>9, <1>11, <1>12, <2>1, <3>1
  <2>2. CASE k # Len(s)
    <3>1. Len(s) \in 0..Len(s) /\ Len(s) > k  BY <1>1, <2>2
    <3>2. N[Place(h, s, Len(s))] = NULL  BY <1>0, <3>1 DEF LinkedAt
    <3> QED BY <1>3, <1>8, <1>10, <2>2, <3>1, <3>2
  <2> QED BY <2>1, <2>2
<1> QED BY <1>13, <1>14 DEF Ring, Run

(* Unlinking n, which is behind place k                                    *)
LEMMA RingRemove ==
    ASSUME NEW N, NEW B, NEW h \in TailqHeads, NEW s \in Seq(Elem), NoDuplicates(s),
           Ring(N, B, h, s), NEW t \in Seq(Elem), NoDuplicates(t), NEW k \in 0..Len(t),
           NEW n \in Elem, n \notin Members(t), PutIn(t, k, n, s),
           NEW p, p = Place(h, s, k), NEW N2, NEW B2,
           LinksOut(N, B, N2, B2, CellsOf(h, t), h, p, n)
    PROVE  Ring(N2, B2, h, t)
<1>0. \A i \in 0..Len(s) : LinkedAt(N, B, h, s, i, Place(h, s, i))  BY RingAt
<1>1. Len(t) \in Nat /\ \A i \in 1..Len(t) : t[i] \in Elem /\ t[i] \in Members(t)
  BY MemberAt
<1>2. Len(s) = Len(t) + 1 /\ Members(s) = {n} \cup Members(t)  BY PutInMembers DEF PutIn
<1>3. \A i \in 1..Len(s) : s[i] \in Elem  BY MemberAt
<1>4. h \notin Elem /\ NULL \notin Elem /\ NULL # h  BY TailqAssumption DEF TailqCell
<1>5. /\ \A i \in 0..Len(t) : Place(h, t, i) \in CellsOf(h, t)
      /\ \A i, j \in 0..Len(t) : Place(h, t, i) = Place(h, t, j) => i = j
      /\ \A i, j \in 0..Len(s) : Place(h, s, i) = Place(h, s, j) => i = j
  BY PlaceApart
<1>6. n \notin CellsOf(h, t)  BY <1>4 DEF CellsOf
<1>7. \A i \in 0..Len(t) : i <= k => Place(h, t, i) = Place(h, s, i)
  <2> SUFFICES ASSUME NEW i \in 0..Len(t), i <= k, i # 0  PROVE t[i] = s[i]
    BY DEF Place
  <2>1. i \in 1..k  BY <1>1
  <2> QED BY <2>1 DEF PutIn
<1>8. \A i \in 0..Len(t) : i > k => Place(h, t, i) = Place(h, s, i + 1)
  <2> SUFFICES ASSUME NEW i \in 0..Len(t), i > k  PROVE t[i] = s[i + 1]
    BY <1>1 DEF Place
  <2>1. i \in (k + 1)..Len(t)  BY <1>1
  <2> QED BY <2>1 DEF PutIn
<1>9. Place(h, s, k + 1) = n /\ s[k + 1] = n  BY <1>1 DEF Place, PutIn
<1>10. /\ p = Place(h, t, k) /\ N[p] = n
       /\ k + 1 < Len(s) => N[n] = s[k + 2] /\ Behind(N, h, n) = s[k + 2]
       /\ k + 1 = Len(s) => N[n] = NULL /\ Behind(N, h, n) = h
  <2>1. k \in 0..Len(s) /\ k + 1 \in 0..Len(s) /\ k < Len(s) /\ (k + 1) + 1 = k + 2
    BY <1>1, <1>2
  <2>2. k <= k /\ k \in 0..Len(t)  BY <1>1
  <2>3. LinkedAt(N, B, h, s, k, p) /\ LinkedAt(N, B, h, s, k + 1, n)  BY <1>0, <1>9, <2>1
  <2> QED BY <1>7, <1>9, <2>1, <2>2, <2>3 DEF LinkedAt
<1>11. ASSUME NEW i \in 0..Len(t), i # k, NEW j \in 0..Len(s), j = (IF i < k THEN i ELSE i + 1)
       PROVE  /\ Place(h, t, i) = Place(h, s, j)
              /\ N2[Place(h, t, i)] = N[Place(h, s, j)]
              /\ B2[Behind(N, h, Place(h, s, j))] = Place(h, t, i)
  <2>1. Place(h, t, i) = Place(h, s, j)  BY <1>1, <1>7, <1>8, <1>11
  <2>2. Place(h, t, i) # p /\ Place(h, t, i) \in CellsOf(h, t)  BY <1>5, <1>10, <1>11
  <2>3. j # k /\ j # k + 1  BY <1>1, <1>11
  <2>4. LinkedAt(N, B, h, s, j, Place(h, s, j)) /\ LinkedAt(N, B, h, s, k, p)
        /\ LinkedAt(N, B, h, s, k + 1, n)
    <3>1. k \in 0..Len(s) /\ k + 1 \in 0..Len(s)  BY <1>1, <1>2
    <3> QED BY <1>0, <1>9, <3>1
  <2>5. Place(h, s, j) # n
    <3>1. k + 1 \in 0..Len(s)  BY <1>1, <1>2
    <3> QED BY <1>5, <1>9, <2>3, <3>1
  <2>6. Behind(N, h, Place(h, s, j)) # Behind(N, h, n)
    BY <2>4, <2>5 DEF LinkedAt
  <2>7. Behind(N, h, Place(h, s, j)) \in CellsOf(h, t)
    <3>1. CASE j = Len(s)  BY <2>4, <3>1 DEF LinkedAt, CellsOf
    <3>2. CASE j < Len(s)
      <4>1. Behind(N, h, Place(h, s, j)) = s[j + 1] /\ j + 1 \in 1..Len(s) /\ j + 1 # k + 1
        BY <1>1, <1>2, <2>3, <2>4, <3>2 DEF LinkedAt
      <4>2. s[j + 1] # n
        <5>1. j + 1 \in 0..Len(s) /\ k + 1 \in 0..Len(s) /\ j + 1 # 0  BY <1>1, <1>2, <4>1
        <5>2. Place(h, s, j + 1) = s[j + 1]  BY <5>1 DEF Place
        <5> QED BY <1>5, <1>9, <4>1, <5>1, <5>2
      <4>3. s[j + 1] \in Members(s)  BY <4>1, MemberAt
      <4> QED BY <1>2, <4>1, <4>2, <4>3 DEF CellsOf
    <3> QED BY <1>1, <1>2, <3>1, <3>2
  <2>8. B2[Behind(N, h, Place(h, s, j))] = Place(h, t, i)
    BY <2>1, <2>4, <2>6, <2>7 DEF LinkedAt, LinksOut
  <2> QED BY <2>1, <2>2, <2>8 DEF LinksOut
<1>12. N2[p] = N[n] /\ B2[Behind(N, h, n)] = p
  <2>1. p \in CellsOf(h, t)  BY <1>5, <1>10
  <2>2. Behind(N, h, n) \in CellsOf(h, t)
    <3>1. CASE k + 1 = Len(s)  BY <1>10, <3>1 DEF CellsOf
    <3>2. CASE k + 1 # Len(s)
      <4>1. k + 1 \in (k + 1)..Len(t) /\ k + 1 < Len(s) /\ k + 1 \in 1..Len(t)
            /\ (k + 1) + 1 = k + 2
        BY <1>1, <1>2, <3>2
      <4>2. t[k + 1] = s[k + 2]  BY <4>1 DEF PutIn
      <4> QED BY <1>1, <1>10, <4>1, <4>2 DEF CellsOf
    <3> QED BY <3>1, <3>2
  <2> QED BY <2>1, <2>2 DEF LinksOut
<1>13. ASSUME NEW j \in 1..Len(t)
       PROVE  N2[Place(h, t, j - 1)] = t[j] /\ B2[t[j]] = Place(h, t, j - 1)
  <2>1. CASE j <= k
    <3>1. /\ j - 1 \in 0..Len(t) /\ j - 1 \in 0..Len(s) /\ j - 1 # k /\ j - 1 < Len(s)
          /\ j - 1 < k /\ (j - 1) + 1 = j /\ j \in 1..k
      BY <1>1, <1>2, <2>1
    <3>2. t[j] = s[j]  BY <3>1 DEF PutIn
    <3>3. LinkedAt(N, B, h, s, j - 1, Place(h, s, j - 1))  BY <1>0, <3>1
    <3>4. N[Place(h, s, j - 1)] = s[j] /\ Behind(N, h, Place(h, s, j - 1)) = s[j]
      BY <3>1, <3>3 DEF LinkedAt
    <3> QED BY <1>11, <3>1, <3>2, <3>4
  <2>2. CASE j = k + 1
    <3>1. j - 1 = k /\ k + 1 < Len(s) /\ k + 1 \in (k + 1)..Len(t) /\ (k + 1) + 1 = k + 2
      BY <1>1, <1>2, <2>2
    <3>2. t[j] = s[k + 2]  BY <2>2, <3>1 DEF PutIn
    <3> QED BY <1>10, <1>12, <3>1, <3>2
  <2>3. CASE j > k + 1
    <3>1. /\ j - 1 \in 0..Len(t) /\ j - 1 # k /\ j \in 0..Len(s) /\ j < Len(s) /\ ~(j - 1 < k)
          /\ (j - 1) + 1 = j /\ j \in (k + 1)..Len(t)
      BY <1>1, <1>2, <2>3
    <3>2. t[j] = s[j + 1]  BY <3>1 DEF PutIn
    <3>3. LinkedAt(N, B, h, s, j, Place(h, s, j))  BY <1>0, <3>1
    <3>4. N[Place(h, s, j)] = s[j + 1] /\ Behind(N, h, Place(h, s, j)) = s[j + 1]
      BY <3>1, <3>3 DEF LinkedAt
    <3> QED BY <1>11, <3>1, <3>2, <3>4, SMTT(20)
  <2> QED BY <1>1, <2>1, <2>2, <2>3
<1>14. N2[Place(h, t, Len(t))] = NULL /\ B2[h] = Place(h, t, Len(t))
  <2>1. CASE k = Len(t)  BY <1>2, <1>10, <1>12, <2>1
  <2>2. CASE k # Len(t)
    <3>1. Len(t) \in 0..Len(t) /\ Len(s) \in 0..Len(s) /\ ~(Len(t) < k) /\ Len(t) + 1 = Len(s)
      BY <1>1, <1>2, <2>2
    <3>2. LinkedAt(N, B, h, s, Len(s), Place(h, s, Len(s)))  BY <1>0, <3>1
    <3>3. N[Place(h, s, Len(s))] = NULL /\ Behind(N, h, Place(h, s, Len(s))) = h
      BY <3>2 DEF LinkedAt
    <3> QED BY <1>11, <2>2, <3>1, <3>3
  <2> QED BY <2>1, <2>2
<1> QED BY <1>13, <1>14 DEF Ring, Run

(* A list that changes its head: another cell holds its two ends.          *)
LEMMA RingMoved ==
    ASSUME NEW N, NEW B, NEW g \in TailqHeads, NEW h \in TailqHeads, NEW s \in Seq(Elem),
           NoDuplicates(s), Ring(N, B, g, s), NEW N2, NEW B2,
           LinksMoved(N, B, N2, B2, Members(s), g, h)
    PROVE  Ring(N2, B2, h, s)
<1>0. \A i \in 0..Len(s) : LinkedAt(N, B, g, s, i, Place(g, s, i))  BY RingAt
<1>1. Len(s) \in Nat /\ \A i \in 1..Len(s) : s[i] \in Elem /\ s[i] \in Members(s)
  BY MemberAt
<1>2. \A i, j \in 0..Len(s) : Place(g, s, i) = Place(g, s, j) => i = j  BY PlaceApart
<1>3. \A i \in 1..Len(s) : /\ i - 1 \in 0..Len(s) /\ i - 1 < Len(s) /\ (i - 1) + 1 = i
                           /\ i \in 0..Len(s) /\ i # 0
  BY <1>1
<1>4. \A i \in 1..Len(s) : N[Place(g, s, i - 1)] = s[i] /\ B[s[i]] = Place(g, s, i - 1)
  BY <1>0, <1>3 DEF LinkedAt
<1>5. CASE Len(s) = 0
  <2>1. N[g] = NULL /\ B[g] = g  BY <1>0, <1>1, <1>5 DEF LinkedAt, Place
  <2>2. N2[h] = NULL /\ B2[h] = h  BY <2>1 DEF LinksMoved
  <2> QED BY <1>1, <1>5, <2>2 DEF Ring, Run, Place
<1>6. CASE Len(s) # 0
  <2>1. 1 \in 1..Len(s) /\ Len(s) \in 1..Len(s) /\ Len(s) \in 0..Len(s)  BY <1>1, <1>6
  <2>2. N[g] = s[1] /\ B[s[1]] = g /\ s[1] # NULL
    <3>1. 1 - 1 = 0 /\ Place(g, s, 0) = g /\ s[1] \in Elem  BY <1>1, <2>1 DEF Place
    <3> QED BY <1>4, <2>1, <3>1, TailqAssumption DEF TailqCell
  <2>3. N[s[Len(s)]] = NULL /\ B[g] = s[Len(s)]
    BY <1>0, <1>6, <2>1 DEF LinkedAt, Place
  <2>4. ASSUME NEW i \in 1..Len(s), i # 1
        PROVE  Place(h, s, i - 1) = s[i - 1] /\ Place(g, s, i - 1) = s[i - 1] /\ i - 1 \in 1..Len(s)
               /\ s[i] # s[1]
    <3>1. i - 1 # 0 /\ i - 1 \in 1..Len(s)  BY <1>1, <2>4
    <3>2. Place(g, s, i) = s[i] /\ Place(g, s, 1) = s[1]  BY <1>3 DEF Place
    <3> QED BY <1>2, <1>3, <2>1, <2>4, <3>1, <3>2 DEF Place
  <2>5. ASSUME NEW i \in 1..Len(s)
        PROVE  N2[Place(h, s, i - 1)] = s[i] /\ B2[s[i]] = Place(h, s, i - 1)
    <3>1. CASE i = 1
      <4>1. i - 1 = 0 /\ Place(h, s, i - 1) = h  BY <3>1 DEF Place
      <4> QED BY <1>1, <2>1, <2>2, <3>1, <4>1 DEF LinksMoved
    <3>2. CASE i # 1
      <4>1. Place(h, s, i - 1) = s[i - 1] /\ Place(g, s, i - 1) = s[i - 1] /\ i - 1 \in 1..Len(s)
            /\ s[i] # s[1]
        BY <2>4, <3>2
      <4>2. N2[s[i - 1]] = N[s[i - 1]] /\ B2[s[i]] = B[s[i]]  BY <1>1, <2>2, <4>1 DEF LinksMoved
      <4>3. N[s[i - 1]] = s[i] /\ B[s[i]] = s[i - 1]  BY <1>4, <4>1
      <4> QED BY <4>1, <4>2, <4>3
    <3> QED BY <3>1, <3>2
  <2>6. Place(h, s, Len(s)) = s[Len(s)]  BY <1>6 DEF Place
  <2>7. N2[s[Len(s)]] = NULL /\ B2[h] = s[Len(s)]  BY <1>1, <2>1, <2>2, <2>3 DEF LinksMoved
  <2> QED BY <2>5, <2>6, <2>7 DEF Ring, Run
<1> QED BY <1>5, <1>6

(* Appending r, the list of h, which is not empty, to that of g            *)
Joint(s, r) == s \o r

LEMMA RingConcat ==
    ASSUME NEW N, NEW B, NEW g \in TailqHeads, NEW s \in Seq(Elem), NoDuplicates(s),
           Ring(N, B, g, s),
           NEW h \in TailqHeads, NEW r \in Seq(Elem), NoDuplicates(r), Ring(N, B, h, r),
           Len(r) # 0, Members(s) \cap Members(r) = {},
           NEW t, t = Joint(s, r), NEW N2, NEW B2,
           LinksJoined(N, B, N2, B2, CellsOf(g, t), g, h)
    PROVE  /\ t \in Seq(Elem) /\ NoDuplicates(t) /\ Members(t) = Members(s) \cup Members(r)
           /\ Ring(N2, B2, g, t)
<1>1. /\ t \in Seq(Elem) /\ Len(t) = Len(s) + Len(r)
      /\ \A i \in 1..(Len(s) + Len(r)) : t[i] = IF i <= Len(s) THEN s[i] ELSE r[i - Len(s)]
  BY ConcatProperties DEF Joint
<1>2. /\ Len(s) \in Nat /\ Len(r) \in Nat \ {0} /\ DOMAIN t = 1..(Len(s) + Len(r))
      /\ DOMAIN s = 1..Len(s) /\ DOMAIN r = 1..Len(r)
      /\ \A i \in 1..Len(s) : s[i] \in Members(s) /\ s[i] \in Elem
      /\ \A i \in 1..Len(r) : r[i] \in Members(r) /\ r[i] \in Elem
      /\ \A n \in Members(s) : \E i \in 1..Len(s) : s[i] = n
      /\ \A n \in Members(r) : \E i \in 1..Len(r) : r[i] = n
  BY <1>1, MemberAt
<1>3. \A i \in 1..Len(s) : i \in DOMAIN t /\ t[i] = s[i]  BY <1>1, <1>2
<1>4. ASSUME NEW i \in 1..Len(r)  PROVE Len(s) + i \in DOMAIN t /\ t[Len(s) + i] = r[i]
  <2>1. Len(s) + i \in 1..(Len(s) + Len(r)) /\ ~(Len(s) + i <= Len(s)) /\ (Len(s) + i) - Len(s) = i
    BY <1>2
  <2> QED BY <1>1, <1>2, <2>1
<1>5. \A i \in DOMAIN t : \/ i \in 1..Len(s)
                          \/ i - Len(s) \in 1..Len(r) /\ i = Len(s) + (i - Len(s))
  BY <1>2
<1>6. Members(t) = Members(s) \cup Members(r)
  <2>1. Members(t) \subseteq Members(s) \cup Members(r)
    <3> SUFFICES ASSUME NEW i \in DOMAIN t  PROVE t[i] \in Members(s) \cup Members(r)
      BY DEF Members
    <3>1. CASE i \in 1..Len(s)  BY <1>2, <1>3, <3>1
    <3>2. CASE i \notin 1..Len(s)
      <4>1. PICK j \in 1..Len(r) : j = i - Len(s) /\ i = Len(s) + j  BY <1>5, <3>2
      <4> QED BY <1>2, <1>4, <4>1
    <3> QED BY <3>1, <3>2
  <2>2. Members(s) \subseteq Members(t)
    <3> SUFFICES ASSUME NEW n \in Members(s)  PROVE n \in Members(t)
      OBVIOUS
    <3>1. PICK i \in 1..Len(s) : s[i] = n  BY <1>2
    <3>2. i \in DOMAIN t /\ t[i] = n  BY <1>3, <3>1
    <3> QED BY <3>2 DEF Members
  <2>3. Members(r) \subseteq Members(t)
    <3> SUFFICES ASSUME NEW n \in Members(r)  PROVE n \in Members(t)
      OBVIOUS
    <3>1. PICK i \in 1..Len(r) : r[i] = n  BY <1>2
    <3>2. Len(s) + i \in DOMAIN t /\ t[Len(s) + i] = n  BY <1>4, <3>1
    <3> QED BY <3>2 DEF Members
  <2> QED BY <2>1, <2>2, <2>3
<1>7. NoDuplicates(t)
  <2> SUFFICES ASSUME NEW i \in DOMAIN t, NEW j \in DOMAIN t, t[i] = t[j]  PROVE i = j
    BY DEF NoDuplicates
  <2>1. /\ \A a, b \in 1..Len(s) : s[a] = s[b] => a = b
        /\ \A a, b \in 1..Len(r) : r[a] = r[b] => a = b
    BY <1>2 DEF NoDuplicates
  <2>2. CASE i \in 1..Len(s) /\ j \in 1..Len(s)  BY <1>3, <2>1, <2>2
  <2>3. CASE i \in 1..Len(s) /\ j \notin 1..Len(s)
    <3>1. t[i] \in Members(s) /\ t[j] \in Members(r)  BY <1>2, <1>3, <1>4, <1>5, <2>3
    <3> QED BY <3>1
  <2>4. CASE i \notin 1..Len(s) /\ j \in 1..Len(s)
    <3>1. t[j] \in Members(s) /\ t[i] \in Members(r)  BY <1>2, <1>3, <1>4, <1>5, <2>4
    <3> QED BY <3>1
  <2>5. CASE i \notin 1..Len(s) /\ j \notin 1..Len(s)
    <3>1. PICK a \in 1..Len(r) : a = i - Len(s) /\ i = Len(s) + a  BY <1>5, <2>5
    <3>2. PICK b \in 1..Len(r) : b = j - Len(s) /\ j = Len(s) + b  BY <1>5, <2>5
    <3>3. a = b  BY <1>4, <2>1, <3>1, <3>2
    <3> QED BY <3>1, <3>2, <3>3
  <2> QED BY <2>2, <2>3, <2>4, <2>5
<1>8. g \notin Elem /\ h \notin Elem  BY TailqAssumption
<1>9. /\ \A i \in 0..Len(s) : Place(g, s, i) \in CellsOf(g, s)
      /\ \A i, j \in 0..Len(s) : Place(g, s, i) = Place(g, s, j) => i = j
      /\ \A i, j \in 0..Len(r) : Place(h, r, i) = Place(h, r, j) => i = j
  BY PlaceApart
<1>10. /\ \A i \in 0..Len(s) : LinkedAt(N, B, g, s, i, Place(g, s, i))
       /\ \A i \in 0..Len(r) : LinkedAt(N, B, h, r, i, Place(h, r, i))
  BY RingAt
<1>11. /\ 0 \in 0..Len(r) /\ 0 < Len(r) /\ Len(r) \in 0..Len(r) /\ Len(s) \in 0..Len(s)
       /\ 1 \in 1..Len(r) /\ Len(r) \in 1..Len(r) /\ Len(r) # 0
  BY <1>2
<1>12. /\ N[h] = r[1] /\ B[g] = Place(g, s, Len(s))
       /\ B[h] = r[Len(r)] /\ N[r[Len(r)]] = NULL
  <2>1. /\ LinkedAt(N, B, h, r, 0, Place(h, r, 0))
        /\ LinkedAt(N, B, h, r, Len(r), Place(h, r, Len(r)))
        /\ LinkedAt(N, B, g, s, Len(s), Place(g, s, Len(s)))
    BY <1>10, <1>11
  <2>2. Place(h, r, 0) = h /\ Place(h, r, Len(r)) = r[Len(r)] /\ 0 + 1 = 1
    BY <1>11 DEF Place
  <2> QED BY <1>11, <2>1, <2>2 DEF LinkedAt
<1>13. /\ \A c \in CellsOf(g, s) : c \in CellsOf(g, t) /\ c \notin Members(r)
       /\ \A c \in Members(r) : c \in CellsOf(g, t) /\ c # g /\ c \notin CellsOf(g, s)
  BY <1>2, <1>6, <1>8 DEF CellsOf
<1>14. r[1] \in Members(r) /\ r[Len(r)] \in Members(r)  BY <1>2, <1>11
<1>15. \A i \in 0..Len(s) : Place(g, t, i) = Place(g, s, i)
  BY <1>2, <1>3 DEF Place
<1>16. \A i \in 1..Len(r) : Place(g, t, Len(s) + i) = r[i]
  BY <1>2, <1>4 DEF Place
<1>17. ASSUME NEW j \in 1..Len(t)
       PROVE  N2[Place(g, t, j - 1)] = t[j] /\ B2[t[j]] = Place(g, t, j - 1)
  <2>1. CASE j <= Len(s)
    <3>1. /\ j \in 1..Len(s) /\ j - 1 \in 0..Len(s) /\ j - 1 < Len(s) /\ (j - 1) + 1 = j
          /\ j - 1 # Len(s)
      BY <1>2, <2>1
    <3>2. N[Place(g, s, j - 1)] = s[j] /\ B[s[j]] = Place(g, s, j - 1)
      BY <1>10, <3>1 DEF LinkedAt
    <3>3. Place(g, s, j - 1) # B[g] /\ Place(g, s, j - 1) \in CellsOf(g, t)
      BY <1>9, <1>11, <1>12, <1>13, <3>1
    <3>4. s[j] \in CellsOf(g, t) /\ s[j] # g /\ s[j] # N[h]
      BY <1>2, <1>8, <1>12, <1>13, <1>14, <3>1 DEF CellsOf
    <3> QED BY <1>3, <1>15, <3>1, <3>2, <3>3, <3>4 DEF LinksJoined
  <2>2. CASE j = Len(s) + 1
    <3>1. j - 1 = Len(s) /\ t[j] = r[1]  BY <1>2, <1>4, <1>11, <2>2
    <3>2. Place(g, t, j - 1) = B[g] /\ B[g] \in CellsOf(g, t)
      BY <1>9, <1>11, <1>12, <1>13, <1>15, <3>1
    <3> QED BY <1>12, <1>13, <1>14, <3>1, <3>2 DEF LinksJoined
  <2>3. CASE j > Len(s) + 1
    <3>1. PICK i \in 1..Len(r) : j = Len(s) + (i + 1) /\ j - 1 = Len(s) + i /\ i + 1 \in 1..Len(r)
      <4>1. j - (Len(s) + 1) \in 1..Len(r) /\ j = Len(s) + ((j - (Len(s) + 1)) + 1)
            /\ j - 1 = Len(s) + (j - (Len(s) + 1)) /\ (j - (Len(s) + 1)) + 1 \in 1..Len(r)
        BY <1>1, <1>2, <2>3
      <4> QED BY <4>1
    <3>2. t[j] = r[i + 1] /\ Place(g, t, j - 1) = r[i]  BY <1>4, <1>16, <3>1
    <3>3. /\ i \in 0..Len(r) /\ i < Len(r) /\ i # 0 /\ i + 1 # 1
          /\ i + 1 \in 0..Len(r) /\ 1 \in 0..Len(r)
      BY <1>2, <3>1
    <3>4. N[r[i]] = r[i + 1] /\ B[r[i + 1]] = r[i]
      BY <1>10, <3>3 DEF LinkedAt, Place
    <3>5. r[i + 1] # r[1]
      <4>1. Place(h, r, i + 1) = r[i + 1] /\ Place(h, r, 1) = r[1]  BY <3>3 DEF Place
      <4> QED BY <1>9, <3>3, <4>1
    <3>6. B[g] \in CellsOf(g, s)  BY <1>9, <1>11, <1>12
    <3>7. r[i] \in Members(r) /\ r[i + 1] \in Members(r)  BY <1>2, <3>1
    <3> QED BY <1>12, <1>13, <3>2, <3>4, <3>5, <3>6, <3>7 DEF LinksJoined
  <2>4. j <= Len(s) \/ j = Len(s) + 1 \/ j > Len(s) + 1  BY <1>1, <1>2
  <2> QED BY <2>1, <2>2, <2>3, <2>4
<1>18. N2[Place(g, t, Len(t))] = NULL /\ B2[g] = Place(g, t, Len(t))
  <2>1. Place(g, t, Len(t)) = r[Len(r)]  BY <1>1, <1>11, <1>16
  <2>2. B[g] \in CellsOf(g, s) /\ g \in CellsOf(g, t)  BY <1>9, <1>11, <1>12 DEF CellsOf
  <2> QED BY <1>12, <1>13, <1>14, <2>1, <2>2 DEF LinksJoined
<1> QED BY <1>1, <1>6, <1>7, <1>17, <1>18 DEF Ring, Run

----------------------------------------------------------------------------
(* N and B are the links of lists with the elements c, which are apart.    *)
TailqLists(c) ==
    /\ c \in [TailqHeads -> Seq(Elem)]
    /\ \A h \in TailqHeads : NoDuplicates(c[h])
    /\ \A g, h \in TailqHeads : g # h => Members(c[g]) \cap Members(c[h]) = {}

Well(N, B, c) ==
    /\ N \in [TailqCell -> Elem \cup {NULL}] /\ B \in [TailqCell -> TailqCell]
    /\ TailqLists(c)
    /\ \A h \in TailqHeads : Ring(N, B, h, c[h])

LEMMA CellsApart ==
    ASSUME NEW c, TailqLists(c), NEW g \in TailqHeads, NEW h \in TailqHeads, g # h
    PROVE  CellsOf(g, c[g]) \cap CellsOf(h, c[h]) = {}
<1>1. c[g] \in Seq(Elem) /\ c[h] \in Seq(Elem) /\ Members(c[g]) \cap Members(c[h]) = {}
  BY DEF TailqLists
<1>2. Members(c[g]) \subseteq Elem /\ Members(c[h]) \subseteq Elem  BY <1>1, MemberAt
<1>3. g \notin Elem /\ h \notin Elem  BY TailqAssumption
<1> QED BY <1>1, <1>2, <1>3 DEF CellsOf

(* No list has n.                                                         *)
OnNoList(c, n) == \A g \in TailqHeads : n \notin Members(c[g])

(* A step that links the lists it changes, and leaves the others alone     *)
EachLinked(N, B, N2, B2, c, d) ==
    \A h \in TailqHeads : \/ Ring(N2, B2, h, d[h])
                          \/ d[h] = c[h] /\ LinksKept(N, B, N2, B2, CellsOf(h, c[h]))

LEMMA WellKept ==
    ASSUME NEW N, NEW B, NEW c, Well(N, B, c),
           NEW N2 \in [TailqCell -> Elem \cup {NULL}], NEW B2 \in [TailqCell -> TailqCell],
           NEW d, TailqLists(d), EachLinked(N, B, N2, B2, c, d)
    PROVE  Well(N2, B2, d)
<1>1. ASSUME NEW h \in TailqHeads, d[h] = c[h], LinksKept(N, B, N2, B2, CellsOf(h, c[h]))
      PROVE  Ring(N2, B2, h, d[h])
  <2>1. c[h] \in Seq(Elem) /\ NoDuplicates(c[h]) /\ Ring(N, B, h, c[h])  BY DEF Well, TailqLists
  <2>2. PICK s \in Seq(Elem) : s = c[h]  BY <2>1
  <2>3. NoDuplicates(s) /\ Ring(N, B, h, s) /\ LinksKept(N, B, N2, B2, CellsOf(h, s))
    BY <1>1, <2>1, <2>2
  <2>4. Ring(N2, B2, h, s)  BY <2>3, RingKept
  <2> QED BY <1>1, <2>2, <2>4
<1> QED BY <1>1 DEF Well, EachLinked

(* The lists after a change to one of them                                 *)
LEMMA ListsWith ==
    ASSUME NEW c, TailqLists(c), NEW h \in TailqHeads, NEW t \in Seq(Elem), NoDuplicates(t),
           \A g \in TailqHeads : g # h => Members(c[g]) \cap Members(t) = {}
    PROVE  TailqLists([c EXCEPT ![h] = t])
<1>1. PICK d : d = [c EXCEPT ![h] = t]  OBVIOUS
<1>2. /\ d \in [TailqHeads -> Seq(Elem)] /\ d[h] = t
      /\ \A g \in TailqHeads : g # h => d[g] = c[g]
  BY <1>1 DEF TailqLists
<1>3. \A g \in TailqHeads : NoDuplicates(d[g])  BY <1>2 DEF TailqLists
<1>4. ASSUME NEW g \in TailqHeads, NEW e \in TailqHeads, g # e
      PROVE  Members(d[g]) \cap Members(d[e]) = {}
  <2>1. CASE g = h
    <3>1. d[g] = t /\ d[e] = c[e] /\ Members(c[e]) \cap Members(t) = {}  BY <1>2, <1>4, <2>1
    <3> QED BY <3>1
  <2>2. CASE e = h
    <3>1. d[e] = t /\ d[g] = c[g] /\ Members(c[g]) \cap Members(t) = {}  BY <1>2, <1>4, <2>2
    <3> QED BY <3>1
  <2>3. CASE g # h /\ e # h
    <3>1. d[e] = c[e] /\ d[g] = c[g]  BY <1>2, <2>3
    <3> QED BY <1>4, <3>1 DEF TailqLists
  <2> QED BY <2>1, <2>2, <2>3
<1> QED BY <1>1, <1>2, <1>3, <1>4 DEF TailqLists

(* A new element, in any place of any list                                 *)
LEMMA WellInsert ==
    ASSUME NEW N, NEW B, NEW c, Well(N, B, c), NEW h \in TailqHeads, NEW n \in Elem,
           \A g \in TailqHeads : n \notin Members(c[g]),
           NEW k \in 0..Len(c[h]), NEW t, PutIn(c[h], k, n, t),
           NEW p, p = Place(h, c[h], k),
           NEW N2, N2 = [N EXCEPT ![n] = N[p], ![p] = n],
           NEW B2, B2 = [B EXCEPT ![Behind(N, h, p)] = n, ![n] = p]
    PROVE  Well(N2, B2, [c EXCEPT ![h] = t])
<1>1. PICK s \in Seq(Elem) : s = c[h]  BY DEF Well, TailqLists
<1>2. /\ NoDuplicates(s) /\ Ring(N, B, h, s) /\ n \notin Members(s) /\ k \in 0..Len(s)
      /\ PutIn(s, k, n, t) /\ p = Place(h, s, k)
  BY <1>1 DEF Well, TailqLists
<1>3. t \in Seq(Elem) /\ Members(t) = {n} \cup Members(s) /\ NoDuplicates(t)
  BY <1>2, PutInMembers
<1>4. p \in CellsOf(h, s) /\ LinkedAt(N, B, h, s, k, p) /\ Len(s) \in Nat
      /\ Members(s) \subseteq Elem /\ \A i \in 1..Len(s) : s[i] \in Members(s)
  BY <1>2, PlaceApart, RingAt, MemberAt
<1>5. Behind(N, h, p) \in CellsOf(h, s)
  <2>1. k < Len(s) => k + 1 \in 1..Len(s)  BY <1>2, <1>4
  <2> QED BY <1>2, <1>4, <2>1 DEF LinkedAt, CellsOf
<1>6. CellsOf(h, s) \subseteq TailqCell /\ n \in TailqCell /\ CellsOf(h, t) \subseteq TailqCell
  BY <1>3, <1>4 DEF CellsOf, TailqCell
<1>7. N \in [TailqCell -> Elem \cup {NULL}] /\ B \in [TailqCell -> TailqCell]  BY DEF Well
<1>8. /\ N2 \in [TailqCell -> Elem \cup {NULL}] /\ B2 \in [TailqCell -> TailqCell]
      /\ \A x \in TailqCell :
            /\ N2[x] = IF x = p THEN n ELSE IF x = n THEN N[p] ELSE N[x]
            /\ B2[x] = IF x = n THEN p ELSE IF x = Behind(N, h, p) THEN n ELSE B[x]
  BY <1>4, <1>5, <1>6, <1>7
<1>9. Ring(N2, B2, h, t)
  <2>1. LinksIn(N, B, N2, B2, CellsOf(h, t), h, p, n)  BY <1>6, <1>8 DEF LinksIn
  <2> QED BY <1>2, <2>1, RingInsert
<1>10. TailqLists([c EXCEPT ![h] = t])
  <2>1. \A g \in TailqHeads : g # h => Members(c[g]) \cap Members(t) = {}
    BY <1>1, <1>3 DEF Well, TailqLists
  <2> QED BY <1>3, <2>1, ListsWith DEF Well
<1>11. PICK d : d = [c EXCEPT ![h] = t]  OBVIOUS
<1>12. d[h] = t /\ \A g \in TailqHeads \ {h} : d[g] = c[g]  BY <1>11 DEF Well, TailqLists
<1>13. ASSUME NEW g \in TailqHeads \ {h}, NEW x \in CellsOf(g, c[g])
       PROVE  N2[x] = N[x] /\ B2[x] = B[x]
  <2>1. CellsOf(g, c[g]) \cap CellsOf(h, c[h]) = {}  BY CellsApart DEF Well
  <2>2. x \notin CellsOf(h, s) /\ x # n
    <3>1. n \notin Members(c[g]) /\ g # n  BY TailqAssumption
    <3> QED BY <1>1, <2>1, <3>1 DEF CellsOf
  <2>3. x \in TailqCell
    <3>1. c[g] \in Seq(Elem)  BY DEF Well, TailqLists
    <3>2. Members(c[g]) \subseteq Elem  BY <3>1, MemberAt
    <3> QED BY <3>2 DEF CellsOf, TailqCell
  <2> QED BY <1>4, <1>5, <1>8, <2>2, <2>3
<1>14. EachLinked(N, B, N2, B2, c, d)
  BY <1>9, <1>12, <1>13 DEF LinksKept, EachLinked
<1> QED BY <1>8, <1>10, <1>11, <1>14, WellKept

(* n is taken out from behind p.                                           *)
Unlinks(N, B, N2, B2, h, n, p) ==
    p = B[n] /\ N2 = [N EXCEPT ![p] = N[n]] /\ B2 = [B EXCEPT ![Behind(N, h, n)] = p]

(* One element less: its own links stay as they were.                      *)
LEMMA WellRemove ==
    ASSUME NEW N, NEW B, NEW c, Well(N, B, c), NEW h \in TailqHeads, NEW n \in Elem,
           NEW t \in Seq(Elem), NoDuplicates(t), n \notin Members(t),
           NEW k \in 0..Len(t), PutIn(t, k, n, c[h]),
           NEW N2, NEW B2, NEW p, Unlinks(N, B, N2, B2, h, n, p)
    PROVE  /\ Well(N2, B2, [c EXCEPT ![h] = t]) /\ p = Place(h, c[h], k)
           /\ OnNoList([c EXCEPT ![h] = t], n)
           /\ N2[p] = N[n] /\ Behind(N2, h, p) = Behind(N, h, n)
<1>0. p = B[n] /\ N2 = [N EXCEPT ![p] = N[n]] /\ B2 = [B EXCEPT ![Behind(N, h, n)] = p]
  BY DEF Unlinks
<1>1. PICK s \in Seq(Elem) : s = c[h]  BY DEF Well, TailqLists
<1>2. NoDuplicates(s) /\ Ring(N, B, h, s) /\ PutIn(t, k, n, s)
  BY <1>1 DEF Well, TailqLists
<1>3. Members(s) = {n} \cup Members(t) /\ Len(s) = Len(t) + 1 /\ Len(t) \in Nat
      /\ s[k + 1] = n
  <2>1. Members(s) = {n} \cup Members(t)  BY <1>2, PutInMembers
  <2>2. Len(t) \in Nat  BY MemberAt
  <2> QED BY <1>2, <2>1, <2>2 DEF PutIn
<1>4. /\ k \in 0..Len(s) /\ k + 1 \in 0..Len(s) /\ k < Len(s) /\ k + 1 \in 1..Len(s)
      /\ (k + 1) + 1 = k + 2
  BY <1>3
<1>5. /\ LinkedAt(N, B, h, s, k, Place(h, s, k)) /\ LinkedAt(N, B, h, s, k + 1, n)
      /\ Place(h, s, k) \in CellsOf(h, s) /\ n \in CellsOf(h, s)
      /\ Place(h, s, k) # n
  <2>1. Place(h, s, k + 1) = n  BY <1>3, <1>4 DEF Place
  <2>2. LinkedAt(N, B, h, s, k, Place(h, s, k)) /\ LinkedAt(N, B, h, s, k + 1, Place(h, s, k + 1))
    BY <1>2, <1>4, RingAt
  <2>3. /\ \A i \in 0..Len(s) : Place(h, s, i) \in CellsOf(h, s)
        /\ \A i, j \in 0..Len(s) : Place(h, s, i) = Place(h, s, j) => i = j
    BY <1>2, PlaceApart
  <2>4. Place(h, s, k) # Place(h, s, k + 1)  BY <1>4, <2>3
  <2> QED BY <1>4, <2>1, <2>2, <2>3, <2>4
<1>6. p = Place(h, s, k)  BY <1>0, <1>3, <1>4, <1>5 DEF LinkedAt
<1>7. Behind(N, h, n) \in CellsOf(h, s) /\ Behind(N, h, n) # n
  <2>1. CASE k + 1 = Len(s)
    <3>1. Behind(N, h, n) = h  BY <1>5, <2>1 DEF LinkedAt
    <3> QED BY <3>1, TailqAssumption DEF CellsOf
  <2>2. CASE k + 1 # Len(s)
    <3>1. k + 1 < Len(s) /\ k + 2 \in 1..Len(s)  BY <1>3, <1>4, <2>2
    <3>2. Behind(N, h, n) = s[k + 2] /\ s[k + 2] \in Members(s)
      BY <1>4, <1>5, <3>1, MemberAt DEF LinkedAt
    <3>3. s[k + 2] # n
      <4>1. k + 2 \in DOMAIN s /\ k + 1 \in DOMAIN s /\ k + 1 # k + 2  BY <1>3, <1>4, <3>1
      <4> QED BY <1>2, <1>3, <4>1 DEF NoDuplicates
    <3> QED BY <3>2, <3>3 DEF CellsOf
  <2> QED BY <2>1, <2>2
<1>8. Members(s) \subseteq Elem /\ Members(t) \subseteq Elem  BY MemberAt
<1>9. CellsOf(h, s) \subseteq TailqCell /\ CellsOf(h, t) \subseteq TailqCell
  BY <1>8 DEF CellsOf, TailqCell
<1>10. N \in [TailqCell -> Elem \cup {NULL}] /\ B \in [TailqCell -> TailqCell]  BY DEF Well
<1>11. /\ N2 \in [TailqCell -> Elem \cup {NULL}] /\ B2 \in [TailqCell -> TailqCell]
       /\ \A x \in TailqCell :
             /\ N2[x] = IF x = p THEN N[n] ELSE N[x]
             /\ B2[x] = IF x = Behind(N, h, n) THEN p ELSE B[x]
  BY <1>0, <1>5, <1>6, <1>7, <1>9, <1>10
<1>12. Ring(N2, B2, h, t)
  <2>1. LinksOut(N, B, N2, B2, CellsOf(h, t), h, p, n)  BY <1>9, <1>11 DEF LinksOut
  <2> QED BY <1>2, <1>6, <2>1, RingRemove
<1>13. PICK d : d = [c EXCEPT ![h] = t]  OBVIOUS
<1>14. TailqLists(d)
  <2>1. \A g \in TailqHeads : g # h => Members(c[g]) \cap Members(t) = {}
    BY <1>1, <1>3 DEF Well, TailqLists
  <2> QED BY <1>13, <2>1, ListsWith DEF Well
<1>15. d[h] = t /\ \A g \in TailqHeads \ {h} : d[g] = c[g]  BY <1>13 DEF Well, TailqLists
<1>16. \A g \in TailqHeads \ {h} : n \notin Members(d[g])
  BY <1>1, <1>3, <1>15 DEF Well, TailqLists
<1>17. ASSUME NEW g \in TailqHeads \ {h}, NEW x \in CellsOf(g, c[g])
       PROVE  N2[x] = N[x] /\ B2[x] = B[x]
  <2>1. CellsOf(g, c[g]) \cap CellsOf(h, c[h]) = {}  BY CellsApart DEF Well
  <2>2. x \notin CellsOf(h, s)  BY <1>1, <2>1
  <2>3. x \in TailqCell
    <3>1. c[g] \in Seq(Elem)  BY DEF Well, TailqLists
    <3>2. Members(c[g]) \subseteq Elem  BY <3>1, MemberAt
    <3> QED BY <3>2 DEF CellsOf, TailqCell
  <2> QED BY <1>5, <1>6, <1>7, <1>11, <2>2, <2>3
<1>18. Well(N2, B2, d)
  <2>1. EachLinked(N, B, N2, B2, c, d)  BY <1>12, <1>15, <1>17 DEF LinksKept, EachLinked
  <2> QED BY <1>11, <1>14, <2>1, WellKept
<1>19. N2[p] = N[n]
  BY <1>5, <1>6, <1>7, <1>9, <1>11
<1>20. OnNoList(d, n)  BY <1>15, <1>16 DEF OnNoList
<1> QED BY <1>1, <1>6, <1>13, <1>18, <1>19, <1>20 DEF Behind

(* What Well says of one list                                              *)
LEMMA WellList ==
    ASSUME NEW N, NEW B, NEW c, Well(N, B, c), NEW h \in TailqHeads
    PROVE  \E s \in Seq(Elem) :
              /\ s = c[h] /\ NoDuplicates(s) /\ Ring(N, B, h, s) /\ Len(s) \in Nat
              /\ Members(s) \subseteq Elem /\ CellsOf(h, s) \subseteq TailqCell
              /\ B[h] \in CellsOf(h, s)
              /\ N[h] = NULL <=> Len(s) = 0
              /\ N[h] # NULL => N[h] \in Members(s) /\ B[h] \in Members(s)
<1>1. PICK s \in Seq(Elem) : s = c[h]  BY DEF Well, TailqLists
<1>2. NoDuplicates(s) /\ Ring(N, B, h, s)  BY <1>1 DEF Well, TailqLists
<1>3. /\ Len(s) \in Nat /\ Members(s) \subseteq Elem
      /\ \A i \in 1..Len(s) : s[i] \in Members(s)
  BY MemberAt
<1>4. CellsOf(h, s) \subseteq TailqCell  BY <1>3 DEF CellsOf, TailqCell
<1>5. 0 \in 0..Len(s) /\ Len(s) \in 0..Len(s) /\ Place(h, s, 0) = h  BY <1>3 DEF Place
<1>6. LinkedAt(N, B, h, s, 0, h) /\ LinkedAt(N, B, h, s, Len(s), Place(h, s, Len(s)))
  BY <1>2, <1>5, RingAt
<1>7. CASE Len(s) = 0
  <2>1. N[h] = NULL /\ B[h] = h  BY <1>6, <1>7 DEF LinkedAt
  <2> QED BY <1>1, <1>2, <1>3, <1>4, <1>7, <2>1 DEF CellsOf
<1>8. CASE Len(s) # 0
  <2>1. 0 < Len(s) /\ 0 + 1 = 1 /\ 1 \in 1..Len(s) /\ Len(s) \in 1..Len(s)  BY <1>3, <1>8
  <2>2. N[h] = s[1] /\ N[h] # NULL /\ B[h] = s[Len(s)]
    BY <1>6, <1>8, <2>1 DEF LinkedAt, Place
  <2> QED BY <1>1, <1>2, <1>3, <1>4, <1>8, <2>1, <2>2 DEF CellsOf
<1> QED BY <1>7, <1>8

(* A head without elements                                                 *)
LEMMA RingEmpty ==
    ASSUME NEW N, NEW B, NEW h, N[h] = NULL, B[h] = h
    PROVE  Ring(N, B, h, <<>>)
<1>1. Len(<<>>) = 0  OBVIOUS
<1> QED BY <1>1 DEF Ring, Run, Place

(* All elements of h behind those of g                                     *)
LEMMA WellConcat ==
    ASSUME NEW N, NEW B, NEW c, Well(N, B, c), NEW g \in TailqHeads, NEW h \in TailqHeads,
           g # h, N[h] # NULL,
           NEW N1, N1 = [N EXCEPT ![B[g]] = N[h]], NEW N2, N2 = [N1 EXCEPT ![h] = NULL],
           NEW B1, B1 = [B EXCEPT ![N[h]] = B[g], ![g] = B[h]],
           NEW B2, B2 = [B1 EXCEPT ![h] = h]
    PROVE  Well(N2, B2, [c EXCEPT ![g] = c[g] \o c[h], ![h] = <<>>])
<1>1. PICK s \in Seq(Elem) :
         /\ s = c[g] /\ NoDuplicates(s) /\ Ring(N, B, g, s)
         /\ Members(s) \subseteq Elem /\ CellsOf(g, s) \subseteq TailqCell
         /\ B[g] \in CellsOf(g, s)
  BY WellList
<1>2. PICK r \in Seq(Elem) :
         /\ r = c[h] /\ NoDuplicates(r) /\ Ring(N, B, h, r) /\ Len(r) # 0
         /\ Members(r) \subseteq Elem /\ CellsOf(h, r) \subseteq TailqCell
         /\ N[h] \in Members(r) /\ B[h] \in Members(r)
  BY WellList
<1>3. Members(s) \cap Members(r) = {} /\ CellsOf(g, s) \cap CellsOf(h, r) = {}
  BY <1>1, <1>2, CellsApart DEF Well, TailqLists
<1>4. g \notin Elem /\ h \notin Elem  BY TailqAssumption
<1>5. N \in [TailqCell -> Elem \cup {NULL}] /\ B \in [TailqCell -> TailqCell]  BY DEF Well
<1>6. /\ B[g] \in TailqCell /\ N[h] \in TailqCell /\ N[h] \in Elem /\ B[h] \in TailqCell
      /\ g \in TailqCell /\ h \in TailqCell /\ B[g] # h /\ N[h] # h /\ N[h] # g
  BY <1>1, <1>2, <1>3, <1>4 DEF CellsOf, TailqCell
<1>7. /\ N1 \in [TailqCell -> Elem \cup {NULL}] /\ B1 \in [TailqCell -> TailqCell]
      /\ \A x \in TailqCell :
            /\ N1[x] = IF x = B[g] THEN N[h] ELSE N[x]
            /\ B1[x] = IF x = g THEN B[h] ELSE IF x = N[h] THEN B[g] ELSE B[x]
  BY <1>5, <1>6
<1>8. /\ N2 \in [TailqCell -> Elem \cup {NULL}] /\ B2 \in [TailqCell -> TailqCell]
      /\ N2[h] = NULL /\ B2[h] = h
      /\ \A x \in TailqCell : x # h => N2[x] = N1[x] /\ B2[x] = B1[x]
  BY <1>6, <1>7, SMTT(20)
<1>9. PICK t : t = Joint(s, r)  OBVIOUS
<1>10. t \in Seq(Elem) /\ \A i \in DOMAIN t : t[i] \in Members(s) \cup Members(r)
  <2>1. /\ t \in Seq(Elem) /\ Len(t) = Len(s) + Len(r)
        /\ \A i \in 1..(Len(s) + Len(r)) : t[i] = IF i <= Len(s) THEN s[i] ELSE r[i - Len(s)]
    BY <1>9, ConcatProperties DEF Joint
  <2>2. /\ Len(s) \in Nat /\ Len(r) \in Nat
        /\ \A i \in 1..Len(s) : s[i] \in Members(s)
        /\ \A i \in 1..Len(r) : r[i] \in Members(r)
    BY MemberAt
  <2>3. ASSUME NEW i \in 1..(Len(s) + Len(r))
        PROVE  \/ i <= Len(s) /\ i \in 1..Len(s)
               \/ ~(i <= Len(s)) /\ i - Len(s) \in 1..Len(r)
    BY <2>2
  <2>4. DOMAIN t = 1..(Len(s) + Len(r))  BY <2>1
  <2> QED BY <2>1, <2>2, <2>3, <2>4
<1>11. CellsOf(g, t) \subseteq TailqCell /\ h \notin CellsOf(g, t)
  BY <1>1, <1>2, <1>4, <1>6, <1>10 DEF CellsOf, Members, TailqCell
<1>12. LinksJoined(N, B, N2, B2, CellsOf(g, t), g, h)
  BY <1>7, <1>8, <1>11 DEF LinksJoined
<1>13. /\ t \in Seq(Elem) /\ NoDuplicates(t) /\ Members(t) = Members(s) \cup Members(r)
       /\ Ring(N2, B2, g, t)
  <2>1. Members(s) \cap Members(r) = {}  BY <1>3
  <2> QED BY <1>1, <1>2, <1>9, <1>12, <2>1, RingConcat
<1>14. Ring(N2, B2, h, <<>>)  BY <1>8, RingEmpty
<1>15. PICK b : b = [c EXCEPT ![h] = <<>>]  OBVIOUS
<1>16. PICK d : d = [b EXCEPT ![g] = t]  OBVIOUS
<1>17. /\ c \in [TailqHeads -> Seq(Elem)] /\ b \in [TailqHeads -> Seq(Elem)]
       /\ \A e \in TailqHeads : b[e] = IF e = h THEN <<>> ELSE c[e]
  <2>1. c \in [TailqHeads -> Seq(Elem)] /\ <<>> \in Seq(Elem)  BY DEF Well, TailqLists
  <2> QED BY <1>15, <2>1
<1>18. d \in [TailqHeads -> Seq(Elem)] /\ \A e \in TailqHeads : d[e] = IF e = g THEN t ELSE b[e]
  BY <1>13, <1>16, <1>17
<1>19. TailqLists(b)
  <2>1. Members(<<>>) = {} /\ NoDuplicates(<<>>) /\ <<>> \in Seq(Elem)
    BY DEF Members, NoDuplicates
  <2>2. \A e \in TailqHeads : e # h => Members(c[e]) \cap Members(<<>>) = {}  BY <2>1
  <2> QED BY <1>15, <2>1, <2>2, ListsWith DEF Well
<1>20. TailqLists(d)
  <2>1. ASSUME NEW e \in TailqHeads, e # g  PROVE Members(b[e]) \cap Members(t) = {}
    <3>1. CASE e = h  BY <1>17, <3>1 DEF Members
    <3>2. CASE e # h
      <4>1. /\ b[e] = c[e] /\ Members(c[e]) \cap Members(c[g]) = {}
            /\ Members(c[e]) \cap Members(c[h]) = {}
        BY <1>17, <2>1, <3>2 DEF Well, TailqLists
      <4> QED BY <1>1, <1>2, <1>13, <4>1
    <3> QED BY <3>1, <3>2
  <2> QED BY <1>13, <1>16, <1>19, <2>1, ListsWith
<1>21. ASSUME NEW e \in TailqHeads, e # g, e # h
       PROVE  d[e] = c[e] /\ LinksKept(N, B, N2, B2, CellsOf(e, c[e]))
  <2>1. d[e] = c[e]  BY <1>17, <1>18, <1>21
  <2>2. /\ CellsOf(e, c[e]) \cap CellsOf(g, s) = {} /\ CellsOf(e, c[e]) \cap CellsOf(h, r) = {}
        /\ CellsOf(e, c[e]) \subseteq TailqCell
    <3>1. CellsOf(e, c[e]) \subseteq TailqCell  BY WellList
    <3> QED BY <1>1, <1>2, <1>21, <3>1, CellsApart DEF Well
  <2>3. N[h] \in CellsOf(h, r) /\ h \in CellsOf(h, r) /\ g \in CellsOf(g, s)
    BY <1>2 DEF CellsOf
  <2>4. \A x \in CellsOf(e, c[e]) : x # h /\ x # g /\ x # N[h] /\ x # B[g] /\ x \in TailqCell
    BY <1>1, <2>2, <2>3
  <2> QED BY <1>7, <1>8, <2>1, <2>4 DEF LinksKept
<1>22. EachLinked(N, B, N2, B2, c, d)
  <2>1. d[g] = t /\ d[h] = <<>>  BY <1>17, <1>18
  <2> QED BY <1>13, <1>14, <1>21, <2>1 DEF EachLinked
<1>23. Well(N2, B2, d)  BY <1>8, <1>20, <1>22, WellKept
<1>24. d = [c EXCEPT ![g] = c[g] \o c[h], ![h] = <<>>]
  BY <1>1, <1>2, <1>9, <1>15, <1>16, <1>17 DEF Joint
<1> QED BY <1>23, <1>24

(* The lists of g and h change places.                                     *)
LEMMA WellSwap ==
    ASSUME NEW N, NEW B, NEW c, Well(N, B, c), NEW g \in TailqHeads, NEW h \in TailqHeads,
           g # h,
           NEW N2, N2 = [N EXCEPT ![g] = N[h], ![h] = N[g]],
           NEW B1, B1 = [B EXCEPT ![g] = B[h], ![h] = B[g]],
           NEW B2, B2 = [B1 EXCEPT ![Behind(N2, g, g)] = g],
           NEW B3, B3 = [B2 EXCEPT ![Behind(N2, h, h)] = h]
    PROVE  Well(N2, B3, [c EXCEPT ![g] = c[h], ![h] = c[g]])
<1>1. PICK s \in Seq(Elem) :
         /\ s = c[g] /\ NoDuplicates(s) /\ Ring(N, B, g, s)
         /\ Members(s) \subseteq Elem /\ CellsOf(g, s) \subseteq TailqCell
         /\ N[g] # NULL => N[g] \in Members(s)
  BY WellList
<1>2. PICK r \in Seq(Elem) :
         /\ r = c[h] /\ NoDuplicates(r) /\ Ring(N, B, h, r)
         /\ Members(r) \subseteq Elem /\ CellsOf(h, r) \subseteq TailqCell
         /\ N[h] # NULL => N[h] \in Members(r)
  BY WellList
<1>3. Members(s) \cap Members(r) = {}
  BY <1>1, <1>2 DEF Well, TailqLists
<1>4. g \notin Elem /\ h \notin Elem /\ g # NULL /\ h # NULL
  BY TailqAssumption DEF TailqCell
<1>5. N \in [TailqCell -> Elem \cup {NULL}] /\ B \in [TailqCell -> TailqCell]
      /\ g \in TailqCell /\ h \in TailqCell
  BY DEF Well, TailqCell
<1>6. /\ N2 \in [TailqCell -> Elem \cup {NULL}] /\ B1 \in [TailqCell -> TailqCell]
      /\ \A x \in TailqCell :
            /\ N2[x] = IF x = h THEN N[g] ELSE IF x = g THEN N[h] ELSE N[x]
            /\ B1[x] = IF x = h THEN B[g] ELSE IF x = g THEN B[h] ELSE B[x]
  BY <1>5
<1>7. /\ Behind(N2, g, g) = IF N[h] # NULL THEN N[h] ELSE g
      /\ Behind(N2, h, h) = IF N[g] # NULL THEN N[g] ELSE h
      /\ Behind(N2, g, g) \in TailqCell /\ Behind(N2, h, h) \in TailqCell
  BY <1>1, <1>2, <1>5, <1>6 DEF Behind, TailqCell
<1>8. /\ B3 \in [TailqCell -> TailqCell]
      /\ \A x \in TailqCell : B3[x] = IF x = Behind(N2, h, h) THEN h
                                      ELSE IF x = Behind(N2, g, g) THEN g ELSE B1[x]
  <2>1. /\ B2 \in [TailqCell -> TailqCell]
        /\ \A x \in TailqCell : B2[x] = IF x = Behind(N2, g, g) THEN g ELSE B1[x]
    BY <1>5, <1>6, <1>7
  <2> QED BY <1>5, <1>7, <2>1
<1>9. LinksMoved(N, B, N2, B3, Members(s), g, h)
  <2>1. \A n \in Members(s) : n \in TailqCell /\ n # g /\ n # h /\ n \notin Members(r)
    BY <1>1, <1>3, <1>4 DEF TailqCell
  <2>2. \A n \in Members(s) : n # Behind(N2, g, g) /\ (n = Behind(N2, h, h) <=> n = N[g])
    <3> SUFFICES ASSUME NEW n \in Members(s)
                 PROVE  n # Behind(N2, g, g) /\ (n = Behind(N2, h, h) <=> n = N[g])
      OBVIOUS
    <3>1. n # NULL  BY <1>1, TailqAssumption DEF TailqCell
    <3> QED BY <1>2, <1>7, <2>1, <3>1
  <2>3. B3[h] = IF N[g] = NULL THEN h ELSE B[g]
    <3>1. h # Behind(N2, g, g)  BY <1>2, <1>4, <1>7
    <3>2. h = Behind(N2, h, h) <=> N[g] = NULL  BY <1>1, <1>4, <1>7
    <3> QED BY <1>5, <1>6, <1>8, <3>1, <3>2
  <2>4. ASSUME NEW n \in Members(s)
        PROVE  N2[n] = N[n] /\ B3[n] = IF n = N[g] THEN h ELSE B[n]
    <3>1. n \in TailqCell /\ n # g /\ n # h  BY <2>1
    <3>2. n # Behind(N2, g, g) /\ (n = Behind(N2, h, h) <=> n = N[g])  BY <2>2
    <3>3. N2[n] = N[n] /\ B1[n] = B[n]  BY <1>6, <3>1
    <3> QED BY <1>8, <3>1, <3>2, <3>3
  <2>5. N2[h] = N[g]  BY <1>5, <1>6, <1>4
  <2> QED BY <2>3, <2>4, <2>5 DEF LinksMoved
<1>10. LinksMoved(N, B, N2, B3, Members(r), h, g)
  <2>1. \A n \in Members(r) : n \in TailqCell /\ n # g /\ n # h /\ n \notin Members(s)
    BY <1>2, <1>3, <1>4 DEF TailqCell
  <2>2. \A n \in Members(r) : n # Behind(N2, h, h) /\ (n = Behind(N2, g, g) <=> n = N[h])
    <3> SUFFICES ASSUME NEW n \in Members(r)
                 PROVE  n # Behind(N2, h, h) /\ (n = Behind(N2, g, g) <=> n = N[h])
      OBVIOUS
    <3>1. n # NULL  BY <1>2, TailqAssumption DEF TailqCell
    <3> QED BY <1>1, <1>7, <2>1, <3>1
  <2>3. B3[g] = IF N[h] = NULL THEN g ELSE B[h]
    <3>1. g # Behind(N2, h, h)  BY <1>1, <1>4, <1>7
    <3>2. g = Behind(N2, g, g) <=> N[h] = NULL  BY <1>2, <1>4, <1>7
    <3> QED BY <1>5, <1>6, <1>8, <3>1, <3>2
  <2>4. ASSUME NEW n \in Members(r)
        PROVE  N2[n] = N[n] /\ B3[n] = IF n = N[h] THEN g ELSE B[n]
    <3>1. n \in TailqCell /\ n # g /\ n # h  BY <2>1
    <3>2. n # Behind(N2, h, h) /\ (n = Behind(N2, g, g) <=> n = N[h])  BY <2>2
    <3>3. N2[n] = N[n] /\ B1[n] = B[n]  BY <1>6, <3>1
    <3> QED BY <1>8, <3>1, <3>2, <3>3
  <2>5. N2[g] = N[h]  BY <1>5, <1>6, <1>4
  <2> QED BY <2>3, <2>4, <2>5 DEF LinksMoved
<1>11. Ring(N2, B3, h, s)  BY <1>1, <1>9, RingMoved
<1>12. Ring(N2, B3, g, r)  BY <1>2, <1>10, RingMoved
<1>13. PICK d : d = [c EXCEPT ![g] = c[h], ![h] = c[g]]  OBVIOUS
<1>14. /\ c \in [TailqHeads -> Seq(Elem)] /\ d \in [TailqHeads -> Seq(Elem)]
       /\ \A e \in TailqHeads : d[e] = IF e = h THEN s ELSE IF e = g THEN r ELSE c[e]
  BY <1>1, <1>2, <1>13 DEF Well, TailqLists
<1>15. TailqLists(d)
  <2>1. \A e \in TailqHeads : NoDuplicates(d[e])  BY <1>1, <1>2, <1>14 DEF Well, TailqLists
  <2>2. ASSUME NEW a \in TailqHeads, NEW b \in TailqHeads, a # b
        PROVE  Members(d[a]) \cap Members(d[b]) = {}
    <3>1. \A e \in TailqHeads : /\ e # g => Members(c[e]) \cap Members(s) = {}
                                /\ e # h => Members(c[e]) \cap Members(r) = {}
      BY <1>1, <1>2 DEF Well, TailqLists
    <3>2. Members(c[a]) \cap Members(c[b]) = {}  BY <2>2 DEF Well, TailqLists
    <3>3. d[a] = (IF a = h THEN s ELSE IF a = g THEN r ELSE c[a])
          /\ d[b] = (IF b = h THEN s ELSE IF b = g THEN r ELSE c[b])
      BY <1>14
    <3>4. CASE a = h  BY <1>3, <2>2, <3>1, <3>3, <3>4
    <3>5. CASE a = g  BY <1>3, <2>2, <3>1, <3>3, <3>5
    <3>6. CASE a # g /\ a # h /\ (b = g \/ b = h)  BY <3>1, <3>3, <3>6
    <3>7. CASE a # g /\ a # h /\ b # g /\ b # h  BY <3>2, <3>3, <3>7
    <3> QED BY <3>4, <3>5, <3>6, <3>7
  <2> QED BY <1>14, <2>1, <2>2 DEF TailqLists
<1>16. ASSUME NEW e \in TailqHeads, e # g, e # h
       PROVE  d[e] = c[e] /\ LinksKept(N, B, N2, B3, CellsOf(e, c[e]))
  <2>1. d[e] = c[e]  BY <1>14, <1>16
  <2>2. /\ CellsOf(e, c[e]) \cap CellsOf(g, s) = {} /\ CellsOf(e, c[e]) \cap CellsOf(h, r) = {}
        /\ CellsOf(e, c[e]) \subseteq TailqCell
    <3>1. CellsOf(e, c[e]) \subseteq TailqCell  BY WellList
    <3> QED BY <1>1, <1>2, <1>16, <3>1, CellsApart DEF Well
  <2>3. /\ Behind(N2, g, g) \in CellsOf(h, r) \cup {g} /\ Behind(N2, h, h) \in CellsOf(g, s) \cup {h}
        /\ h \in CellsOf(h, r) /\ g \in CellsOf(g, s)
    BY <1>1, <1>2, <1>7 DEF CellsOf
  <2>4. \A x \in CellsOf(e, c[e]) : /\ x # h /\ x # g /\ x # Behind(N2, g, g)
                                    /\ x # Behind(N2, h, h) /\ x \in TailqCell
    BY <2>2, <2>3
  <2> QED BY <1>6, <1>8, <2>1, <2>4 DEF LinksKept
<1>17. EachLinked(N, B, N2, B3, c, d)
  <2>1. d[g] = r /\ d[h] = s  BY <1>14
  <2> QED BY <1>11, <1>12, <1>16, <2>1 DEF EachLinked
<1> QED BY <1>6, <1>8, <1>13, <1>15, <1>17, WellKept

----------------------------------------------------------------------------
(* A sequence without duplicates is no longer than there are elements.     *)
LEMMA NotLonger ==
    ASSUME NEW s \in Seq(Elem), NoDuplicates(s)
    PROVE  Len(s) <= Cardinality(Elem) /\ Cardinality(Elem) \in Nat /\ Len(s) \in Nat
<1>1. /\ Len(s) \in Nat /\ DOMAIN s = 1..Len(s) /\ Members(s) \subseteq Elem
      /\ \A k \in 1..Len(s) : s[k] \in Members(s)
  BY MemberAt
<1>2. s \in [1..Len(s) -> Members(s)]  BY <1>1
<1>3. s \in Surjection(1..Len(s), Members(s))
  BY <1>1, <1>2 DEF Surjection, Members
<1>4. s \in Injection(1..Len(s), Members(s))
  BY <1>1, <1>2 DEF Injection, IsInjective, NoDuplicates
<1>5. IsFiniteSet(1..Len(s)) /\ Cardinality(1..Len(s)) = Len(s)
  <2>1. PICK n \in Nat : n = Len(s)  BY <1>1
  <2>2. IsFiniteSet(1..n) /\ Cardinality(1..n) = IF 1 > n THEN 0 ELSE n - 1 + 1
    BY FS_Interval
  <2> QED BY <2>1, <2>2
<1>6. Cardinality(Members(s)) = Len(s)  BY <1>3, <1>4, <1>5, FS_Surjection
<1>7. IsFiniteSet(Elem)  BY TailqAssumption
<1> QED BY <1>1, <1>6, <1>7, FS_Subset, FS_CardinalityType

(* A walk along links from the first element of s to its last one          *)
LEMMA WalkIs ==
    ASSUME NEW link, NEW first, NEW s \in Seq(Elem), NoDuplicates(s),
           \A x \in Elem : link[x] \in Elem \cup {NULL}, Path(link, first, s)
    PROVE  Chain(link, first, Cardinality(Elem) + 1) = s
<1>1. NULL \notin Elem  BY TailqAssumption DEF TailqCell
<1>2. Len(s) < Cardinality(Elem) + 1 /\ Cardinality(Elem) + 1 \in Nat  BY NotLonger
<1>3. first \in Elem \cup {NULL}
  <2>1. s # <<>> => s[1] \in Elem  OBVIOUS
  <2> QED BY <2>1 DEF Path
<1> QED BY <1>1, <1>2, <1>3, ChainIs

LEMMA ElementsAre ==
    ASSUME NEW m, NEW c, Well(m.next, m.back, c), NEW h \in TailqHeads
    PROVE  TailqElements(m, h) = c[h]
<1>1. PICK s \in Seq(Elem) :
        s = c[h] /\ NoDuplicates(s) /\ Ring(m.next, m.back, h, s) /\ Len(s) \in Nat
  BY WellList
<1>2. \A i \in 0..Len(s) : LinkedAt(m.next, m.back, h, s, i, Place(h, s, i))  BY <1>1, RingAt
<1>3. Path(m.next, m.next[h], s)
  <2>1. CASE Len(s) = 0
    <3>1. m.next[h] = NULL /\ s = <<>>
      BY <1>1, <1>2, <2>1 DEF LinkedAt, Place
    <3> QED BY <3>1 DEF Path
  <2>2. CASE Len(s) # 0
    <3>1. 0 \in 0..Len(s) /\ 0 < Len(s) /\ Len(s) \in 0..Len(s) /\ 0 + 1 = 1 /\ s # <<>>
      BY <1>1, <2>2
    <3>2. m.next[h] = s[1] /\ m.next[s[Len(s)]] = NULL
      BY <1>2, <2>2, <3>1 DEF LinkedAt, Place
    <3>3. ASSUME NEW k \in 1..(Len(s) - 1)  PROVE m.next[s[k]] = s[k + 1]
      <4>1. k \in 0..Len(s) /\ k < Len(s) /\ k # 0  BY <1>1
      <4> QED BY <1>2, <4>1 DEF LinkedAt, Place
    <3> QED BY <3>1, <3>2, <3>3 DEF Path
  <2> QED BY <2>1, <2>2
<1>4. \A x \in Elem : m.next[x] \in Elem \cup {NULL}  BY DEF Well, TailqCell
<1> QED BY <1>1, <1>3, <1>4, WalkIs DEF TailqElements, TAILQ_FIRST

(* What the macros that look back find                                     *)
LEMMA LookingBack ==
    ASSUME NEW m, NEW c, Well(m.next, m.back, c), NEW h \in TailqHeads,
           NEW s \in Seq(Elem), s = c[h]
    PROVE  /\ TAILQ_LAST(m, h) = IF Len(s) = 0 THEN NULL ELSE s[Len(s)]
           /\ TAILQ_LAST_FAST(m, h) = IF Len(s) = 0 THEN NULL ELSE s[Len(s)]
           /\ \A i \in 1..Len(s) :
                 /\ TAILQ_NEXT(m, s[i]) = IF i = Len(s) THEN NULL ELSE s[i + 1]
                 /\ TAILQ_PREV(m, s[i]) = IF i = 1 THEN NULL ELSE s[i - 1]
                 /\ TAILQ_PREV_FAST(m, s[i]) = IF i = 1 THEN NULL ELSE s[i - 1]
<1>1. Ring(m.next, m.back, h, s) /\ NoDuplicates(s) /\ Len(s) \in Nat
      /\ \A i \in 1..Len(s) : s[i] \in Elem
  BY MemberAt DEF Well, TailqLists
<1>2. \A i \in 0..Len(s) : LinkedAt(m.next, m.back, h, s, i, Place(h, s, i))  BY <1>1, RingAt
<1>3. h \in TailqHeads /\ TailqHeads \cap Elem = {}  BY TailqAssumption
<1>4. \A i \in 1..Len(s) : m.next[Place(h, s, i - 1)] = s[i] /\ m.back[s[i]] = Place(h, s, i - 1)
  BY <1>1 DEF Ring, Run
<1>5. m.next[Place(h, s, Len(s))] = NULL /\ m.back[h] = Place(h, s, Len(s))
  BY <1>1 DEF Ring, Run
<1>6. \A i \in 1..Len(s) : Place(h, s, i) = s[i] /\ i # 0  BY <1>1 DEF Place
<1>7. Place(h, s, 0) = h  BY DEF Place
<1>8. ASSUME NEW i \in 1..Len(s)
      PROVE  /\ m.next[m.back[s[i]]] = s[i]
             /\ i = 1 => m.back[s[i]] = h
             /\ i # 1 => m.back[s[i]] = s[i - 1] /\ i - 1 \in 1..Len(s)
  <2>1. i # 1 => i - 1 \in 1..Len(s)  BY <1>1
  <2>2. i = 1 => i - 1 = 0  OBVIOUS
  <2> QED BY <1>4, <1>6, <1>7, <2>1, <2>2
<1>9. CASE Len(s) = 0
  <2>1. m.back[h] = h /\ m.next[h] = NULL  BY <1>5, <1>7, <1>9
  <2> QED BY <1>9, <2>1 DEF TAILQ_LAST, TAILQ_LAST_FAST, TAILQ_EMPTY
<1>10. CASE Len(s) # 0
  <2>1. 1 \in 1..Len(s) /\ Len(s) \in 1..Len(s)  BY <1>1, <1>10
  <2>2. m.back[h] = s[Len(s)] /\ m.next[s[Len(s)]] = NULL  BY <1>5, <1>6, <2>1
  <2>3. m.next[h] = s[1] /\ s[1] # NULL
    BY <1>1, <1>8, <2>1, TailqAssumption DEF TailqCell
  <2>4. TAILQ_LAST(m, h) = s[Len(s)] /\ TAILQ_LAST_FAST(m, h) = s[Len(s)]
    BY <1>8, <2>1, <2>2, <2>3 DEF TAILQ_LAST, TAILQ_LAST_FAST, TAILQ_EMPTY
  <2>5. ASSUME NEW i \in 1..Len(s)
        PROVE  TAILQ_NEXT(m, s[i]) = IF i = Len(s) THEN NULL ELSE s[i + 1]
    <3>1. i # Len(s) => i + 1 \in 1..Len(s) /\ (i + 1) - 1 = i  BY <1>1
    <3>2. i # Len(s) => m.next[s[i]] = s[i + 1]  BY <1>4, <1>6, <3>1
    <3> QED BY <2>2, <3>2 DEF TAILQ_NEXT
  <2>6. ASSUME NEW i \in 1..Len(s)
        PROVE  /\ TAILQ_PREV(m, s[i]) = IF i = 1 THEN NULL ELSE s[i - 1]
               /\ TAILQ_PREV_FAST(m, s[i]) = IF i = 1 THEN NULL ELSE s[i - 1]
    <3>1. CASE i = 1
      <4>1. m.back[s[i]] = h  BY <1>8, <3>1
      <4> QED BY <2>2, <3>1, <4>1 DEF TAILQ_PREV, TAILQ_PREV_FAST
    <3>2. CASE i # 1
      <4>1. m.back[s[i]] = s[i - 1] /\ i - 1 \in 1..Len(s)  BY <1>8, <3>2
      <4>2. m.next[m.back[s[i - 1]]] = s[i - 1]  BY <1>8, <4>1
      <4>3. s[i - 1] \notin TailqHeads  BY <1>1, <1>3, <4>1
      <4> QED BY <3>2, <4>1, <4>2, <4>3 DEF TAILQ_PREV, TAILQ_PREV_FAST
    <3> QED BY <3>1, <3>2
  <2> QED BY <1>10, <2>4, <2>5, <2>6
<1> QED BY <1>9, <1>10

(* A loop at place k of n places: how many it has yet to visit, which the  *)
(* i-th of them is, and the place after k.                                 *)
Rest(n, reverse, k) == IF reverse THEN k ELSE n + 1 - k
Turn(k, reverse, i) == IF reverse THEN k + 1 - i ELSE k - 1 + i
Beyond(k, reverse) == IF reverse THEN k - 1 ELSE k + 1

(* What it has yet to visit                                                *)
Ahead(s, reverse, k) == [i \in 1..Rest(Len(s), reverse, k) |-> s[Turn(k, reverse, i)]]

TurnsRight(n, reverse, k, m, e) ==
    /\ m \in Nat /\ m >= 1 /\ e \in Int /\ Turn(k, reverse, 1) = k
    /\ \A i \in 1..m : Turn(k, reverse, i) \in 1..n
    /\ \A i, j \in 1..m : Turn(k, reverse, i) = Turn(k, reverse, j) => i = j
    /\ e \in 1..n <=> m # 1
    /\ e \in 1..n => /\ Rest(n, reverse, e) = m - 1
                     /\ \A i \in 1..(m - 1) : Turn(e, reverse, i) = Turn(k, reverse, i + 1)
    /\ \A i \in 1..m :
          /\ i = m <=> Beyond(Turn(k, reverse, i), reverse) \notin 1..n
          /\ i # m => Beyond(Turn(k, reverse, i), reverse) = Turn(k, reverse, i + 1)

LEMMA Turns ==
    ASSUME NEW n \in Nat, NEW reverse \in BOOLEAN, NEW k \in 1..n
    PROVE  TurnsRight(n, reverse, k, Rest(n, reverse, k), Beyond(k, reverse))
<1>1. CASE reverse  BY <1>1 DEF Rest, Turn, Beyond, TurnsRight
<1>2. CASE ~reverse  BY <1>2 DEF Rest, Turn, Beyond, TurnsRight
<1> QED BY <1>1, <1>2

LEMMA AheadSeq ==
    ASSUME NEW s \in Seq(Elem), NoDuplicates(s), NEW reverse \in BOOLEAN, NEW k \in 1..Len(s)
    PROVE  LET a == Ahead(s, reverse, k) IN
           /\ a \in Seq(Elem) /\ NoDuplicates(a) /\ a # <<>> /\ a[1] = s[k]
           /\ Tail(a) = IF Beyond(k, reverse) \in 1..Len(s)
                        THEN Ahead(s, reverse, Beyond(k, reverse)) ELSE <<>>
<1>1. /\ Len(s) \in Nat /\ DOMAIN s = 1..Len(s) /\ \A i \in 1..Len(s) : s[i] \in Elem
      /\ \A i, j \in 1..Len(s) : s[i] = s[j] => i = j
  BY MemberAt DEF NoDuplicates
<1>2. PICK a : a = Ahead(s, reverse, k)  OBVIOUS
<1>0. TurnsRight(Len(s), reverse, k, Rest(Len(s), reverse, k), Beyond(k, reverse))
  BY <1>1, Turns
<1>3. PICK n \in Nat : n = Rest(Len(s), reverse, k) /\ n >= 1  BY <1>0 DEF TurnsRight
<1>4. PICK e \in Int : e = Beyond(k, reverse)  BY <1>0 DEF TurnsRight
<1>5. /\ Turn(k, reverse, 1) = k
      /\ \A i \in 1..n : Turn(k, reverse, i) \in 1..Len(s)
      /\ \A i, j \in 1..n : Turn(k, reverse, i) = Turn(k, reverse, j) => i = j
      /\ e \in 1..Len(s) <=> n # 1
      /\ e \in 1..Len(s) =>
            /\ Rest(Len(s), reverse, e) = n - 1
            /\ \A i \in 1..(n - 1) : Turn(e, reverse, i) = Turn(k, reverse, i + 1)
  BY <1>0, <1>3, <1>4 DEF TurnsRight
<1>6. /\ a \in Seq(Elem) /\ Len(a) = n /\ DOMAIN a = 1..n
      /\ \A i \in 1..n : a[i] = s[Turn(k, reverse, i)] /\ a[i] \in Elem
  <2>1. a = [i \in 1..n |-> s[Turn(k, reverse, i)]]  BY <1>2, <1>3 DEF Ahead
  <2>2. \A i \in 1..n : s[Turn(k, reverse, i)] \in Elem  BY <1>1, <1>5
  <2> QED BY <2>1, <2>2
<1>7. NoDuplicates(a)
  <2> SUFFICES ASSUME NEW i \in 1..n, NEW j \in 1..n, a[i] = a[j]  PROVE i = j
    BY <1>6 DEF NoDuplicates
  <2>1. s[Turn(k, reverse, i)] = s[Turn(k, reverse, j)]  BY <1>6
  <2>2. Turn(k, reverse, i) = Turn(k, reverse, j)  BY <1>1, <1>5, <2>1
  <2> QED BY <1>5, <2>2
<1>8. a # <<>> /\ a[1] = s[k]
  <2>1. 1 \in 1..n  BY <1>3
  <2> QED BY <1>5, <1>6, <2>1
<1>9. PICK b : b = Tail(a)  OBVIOUS
<1>10. b \in Seq(Elem) /\ Len(b) = n - 1 /\ \A i \in 1..(n - 1) : b[i] = a[i + 1]
  BY <1>3, <1>6, <1>8, <1>9, HeadTailProperties
<1>11. CASE e \notin 1..Len(s)
  <2>1. n = 1  BY <1>5, <1>11
  <2>2. b = <<>>  BY <1>10, <2>1
  <2> QED BY <1>2, <1>4, <1>6, <1>7, <1>8, <1>9, <1>11, <2>2
<1>12. CASE e \in 1..Len(s)
  <2>1. PICK z : z = Ahead(s, reverse, e)  OBVIOUS
  <2>2. z = [i \in 1..(n - 1) |-> s[Turn(e, reverse, i)]]
    BY <1>5, <1>12, <2>1 DEF Ahead
  <2>3. ASSUME NEW i \in 1..(n - 1)  PROVE b[i] = z[i] /\ z[i] \in Elem
    <3>1. i + 1 \in 1..n /\ Turn(e, reverse, i) = Turn(k, reverse, i + 1)
      BY <1>3, <1>5, <1>12
    <3> QED BY <1>6, <1>10, <2>2, <3>1
  <2>4. z \in Seq(Elem) /\ Len(z) = n - 1
    <3>1. n - 1 \in Nat  BY <1>3
    <3> QED BY <2>2, <2>3, <3>1
  <2>5. b = z  BY <1>10, <2>3, <2>4, SeqEqual
  <2> QED BY <1>2, <1>4, <1>6, <1>7, <1>8, <1>9, <1>12, <2>1, <2>5
<1> QED BY <1>11, <1>12

LEMMA AheadIs ==
    ASSUME NEW m, NEW c, Well(m.next, m.back, c), NEW h \in TailqHeads,
           NEW s \in Seq(Elem), s = c[h], NEW reverse \in BOOLEAN, NEW k \in 1..Len(s)
    PROVE  /\ Chain(Ways(m, reverse), s[k], Cardinality(Elem) + 1) = Ahead(s, reverse, k)
           /\ Onward(m, reverse, s[k]) = IF Beyond(k, reverse) \in 1..Len(s)
                                         THEN s[Beyond(k, reverse)] ELSE NULL
<1>1. NoDuplicates(s) /\ Len(s) \in Nat /\ \A i \in 1..Len(s) : s[i] \in Elem /\ s[i] # NULL
  BY MemberAt, TailqAssumption DEF Well, TailqLists, TailqCell
<1>2. PICK W : W = Ways(m, reverse)  OBVIOUS
<1>3. \A x \in Elem : W[x] \in Elem \cup {NULL}
  <2>1. ASSUME NEW x \in Elem  PROVE Onward(m, reverse, x) \in Elem \cup {NULL}
    <3>1. x \in TailqCell /\ Elem \subseteq TailqCell  BY DEF TailqCell
    <3>2. m.next[x] \in Elem \cup {NULL} /\ m.next[m.back[m.back[x]]] \in Elem \cup {NULL}
      BY <3>1 DEF Well
    <3> QED BY <3>2 DEF Onward, TAILQ_NEXT, TAILQ_PREV
  <2> QED BY <1>2, <2>1 DEF Ways
<1>4. ASSUME NEW i \in 1..Len(s)
      PROVE  Onward(m, reverse, s[i]) = IF Beyond(i, reverse) \in 1..Len(s)
                                        THEN s[Beyond(i, reverse)] ELSE NULL
  <2>1. /\ TAILQ_NEXT(m, s[i]) = IF i = Len(s) THEN NULL ELSE s[i + 1]
        /\ TAILQ_PREV(m, s[i]) = IF i = 1 THEN NULL ELSE s[i - 1]
    BY LookingBack
  <2>2. (i = Len(s) <=> i + 1 \notin 1..Len(s)) /\ (i = 1 <=> i - 1 \notin 1..Len(s))  BY <1>1
  <2> QED BY <1>1, <2>1, <2>2 DEF Onward, Beyond
<1>5. \A i \in 1..Len(s) : W[s[i]] = Onward(m, reverse, s[i])  BY <1>1, <1>2 DEF Ways
<1>6. PICK a \in Seq(Elem) : /\ a = Ahead(s, reverse, k) /\ NoDuplicates(a) /\ a # <<>> /\ a[1] = s[k]
  BY <1>1, AheadSeq
<1>0. TurnsRight(Len(s), reverse, k, Rest(Len(s), reverse, k), Beyond(k, reverse))
  BY <1>1, Turns
<1>7. PICK n \in Nat : n = Rest(Len(s), reverse, k) /\ n >= 1  BY <1>0 DEF TurnsRight
<1>8. \A i \in 1..n :
         /\ Turn(k, reverse, i) \in 1..Len(s)
         /\ i = n <=> Beyond(Turn(k, reverse, i), reverse) \notin 1..Len(s)
         /\ i # n => Beyond(Turn(k, reverse, i), reverse) = Turn(k, reverse, i + 1)
  BY <1>0, <1>7 DEF TurnsRight
<1>9. a = [i \in 1..n |-> s[Turn(k, reverse, i)]] /\ Len(a) = n
  <2>1. a = [i \in 1..n |-> s[Turn(k, reverse, i)]]  BY <1>6, <1>7 DEF Ahead
  <2> QED BY <1>7, <2>1
<1>10. ASSUME NEW i \in 1..n
       PROVE  W[a[i]] = IF i = n THEN NULL ELSE a[i + 1]
  <2>1. PICK j \in 1..Len(s) : j = Turn(k, reverse, i)  BY <1>8
  <2>2. a[i] = s[j]  BY <1>9, <2>1
  <2>3. W[a[i]] = IF Beyond(j, reverse) \in 1..Len(s) THEN s[Beyond(j, reverse)] ELSE NULL
    BY <1>4, <1>5, <2>2
  <2>4. i = n <=> Beyond(j, reverse) \notin 1..Len(s)  BY <1>8, <2>1
  <2>5. i # n => a[i + 1] = s[Beyond(j, reverse)]
    <3>1. i # n => i + 1 \in 1..n  BY <1>7
    <3> QED BY <1>8, <1>9, <2>1, <3>1
  <2> QED BY <2>3, <2>4, <2>5
<1>11. Path(W, s[k], a)
  <2>1. n \in 1..n /\ \A i \in 1..(n - 1) : i \in 1..n /\ i # n  BY <1>7
  <2> QED BY <1>6, <1>9, <1>10, <2>1 DEF Path
<1>12. Chain(W, s[k], Cardinality(Elem) + 1) = a  BY <1>3, <1>6, <1>11, WalkIs
<1> QED BY <1>2, <1>4, <1>6, <1>12

----------------------------------------------------------------------------
(* The sequences of QueueSpec.  How many elements come before one          *)
LEMMA BeforeIs ==
    ASSUME NEW s \in Seq(Elem), NoDuplicates(s), NEW k \in 1..Len(s)
    PROVE  Abstract!Before(s, s[k]) = k - 1
<1>1. Len(s) \in Nat /\ DOMAIN s = 1..Len(s) /\ \A i, j \in 1..Len(s) : s[i] = s[j] => i = j
  BY MemberAt DEF NoDuplicates
<1> DEFINE P(j) == (j < Len(s) => s[j + 1] = s[k]) /\ \A i \in 1..j : s[i] # s[k]
<1>2. k - 1 \in 0..Len(s) /\ P(k - 1)
  <2>1. k - 1 \in 0..Len(s) /\ (k - 1) + 1 = k  BY <1>1
  <2>2. \A i \in 1..(k - 1) : i \in 1..Len(s) /\ i # k  BY <1>1
  <2> QED BY <1>1, <2>1, <2>2
<1>3. ASSUME NEW j \in 0..Len(s), P(j)  PROVE j = k - 1
  <2>1. k \notin 1..j  BY <1>3
  <2>2. j < Len(s) /\ j + 1 \in 1..Len(s)  BY <1>1, <2>1
  <2>3. j + 1 = k  BY <1>1, <1>3, <2>2
  <2> QED BY <2>3
<1> HIDE DEF P
<1>4. (CHOOSE j \in 0..Len(s) : P(j)) = k - 1  BY <1>2, <1>3
<1> QED BY <1>4 DEF P, Abstract!Before

(* a holds m elements of s, those after the first i.                       *)
Slice(s, i, m, a) ==
    a \in Seq(Elem) /\ Len(a) = m /\ \A x \in 1..m : a[x] = s[i + x]

LEMMA SliceIs ==
    ASSUME NEW s \in Seq(Elem), NEW i \in Nat, NEW m \in Nat, i + m <= Len(s),
           NEW p \in Int, p = i + 1, NEW q \in Int, q = i + m
    PROVE  Slice(s, i, m, SubSeq(s, p, q))
<1>1. Len(s) \in Nat /\ \A x \in 1..Len(s) : s[x] \in Elem  BY MemberAt
<1>2. \A x \in p..q : s[x] \in Elem
  <2>1. \A x \in p..q : x \in 1..Len(s)  BY <1>1
  <2> QED BY <1>1, <2>1
<1>3. PICK a : a = SubSeq(s, p, q)  OBVIOUS
<1>4. /\ a \in Seq(Elem) /\ Len(a) = IF p <= q THEN q - p + 1 ELSE 0
      /\ \A x \in 1..(q - p + 1) : a[x] = s[p + x - 1]
  BY <1>2, <1>3, SubSeqProperties
<1>5. q - p + 1 = m /\ (p <= q \/ m = 0)  OBVIOUS
<1>6. Len(a) = m  BY <1>4, <1>5
<1>7. ASSUME NEW x \in 1..m  PROVE a[x] = s[i + x]
  <2>1. p + x - 1 = i + x  OBVIOUS
  <2> QED BY <1>4, <1>5, <2>1
<1> QED BY <1>3, <1>4, <1>6, <1>7 DEF Slice

LEMMA FirstSlice ==
    ASSUME NEW s \in Seq(Elem), NEW k \in Nat, k <= Len(s)
    PROVE  Slice(s, 0, k, SubSeq(s, 1, k))
<1>1. Len(s) \in Nat /\ \A x \in 1..Len(s) : s[x] \in Elem  BY MemberAt
<1>2. \A x \in 1..k : s[x] \in Elem
  <2>1. \A x \in 1..k : x \in 1..Len(s)  BY <1>1
  <2> QED BY <1>1, <2>1
<1>3. PICK a : a = SubSeq(s, 1, k)  OBVIOUS
<1>4. /\ a \in Seq(Elem) /\ Len(a) = IF 1 <= k THEN k - 1 + 1 ELSE 0
      /\ \A x \in 1..(k - 1 + 1) : a[x] = s[1 + x - 1]
  BY <1>2, <1>3, SubSeqProperties
<1>5. k - 1 + 1 = k /\ (1 <= k \/ k = 0)  OBVIOUS
<1>6. Len(a) = k  BY <1>4, <1>5
<1>7. ASSUME NEW x \in 1..k  PROVE a[x] = s[0 + x]
  <2>1. 1 + x - 1 = x /\ 0 + x = x  OBVIOUS
  <2> QED BY <1>4, <1>5, <2>1
<1> QED BY <1>3, <1>4, <1>6, <1>7 DEF Slice

(* a, n and b in a row                                                    *)
LEMMA SlicesPutIn ==
    ASSUME NEW s \in Seq(Elem), NEW L \in Nat, Len(s) = L, NEW k \in Nat, k <= L, NEW n \in Elem,
           NEW d \in Nat, k + d = L,
           NEW a, Slice(s, 0, k, a), NEW b, Slice(s, k, d, b)
    PROVE  PutIn(s, k, n, a \o <<n>> \o b)
<1>1. a \in Seq(Elem) /\ b \in Seq(Elem) /\ Len(a) = k /\ Len(b) = d
  BY DEF Slice
<1>2. /\ \A x \in 1..k : a[x] = s[x]
  <2> SUFFICES ASSUME NEW x \in 1..k PROVE a[x] = s[x]  OBVIOUS
  <2>1. 0 + x = x  OBVIOUS
  <2> QED BY <2>1 DEF Slice
<1>3. \A x \in 1..d : b[x] = s[k + x]  BY DEF Slice
<1>4. PICK u \in Seq(Elem) : u = <<n>> /\ Len(u) = 1 /\ u[1] = n
  <2>1. <<n>> \in Seq(Elem) /\ Len(<<n>>) = 1 /\ <<n>>[1] = n  OBVIOUS
  <2> QED BY <2>1
<1>5. PICK v : v = a \o u  OBVIOUS
<1>6. /\ v \in Seq(Elem) /\ Len(v) = k + 1
      /\ \A i \in 1..(k + 1) : v[i] = IF i <= k THEN a[i] ELSE u[i - k]
  BY <1>1, <1>4, <1>5, ConcatProperties
<1>7. v[k + 1] = n
  <2>1. k + 1 \in 1..(k + 1) /\ ~(k + 1 <= k) /\ (k + 1) - k = 1  OBVIOUS
  <2>2. v[k + 1] = u[(k + 1)-k] BY <1>6, <2>1
  <2> QED BY <2>1, <2>2, <1>4
<1>8. PICK t : t = v \o b  OBVIOUS
<1>9. /\ t \in Seq(Elem) /\ Len(t) = k + 1 + d
      /\ \A i \in 1..(k + 1 + d) : t[i] = IF i <= k + 1 THEN v[i] ELSE b[i - (k + 1)]
  <2>1. PICK e \in Nat : e = k + 1  OBVIOUS
  <2>2. v \in Seq(Elem) /\ Len(v) = e  BY <1>6, <2>1
  <2>3. b \in Seq(Elem) /\ Len(b) = d  BY <1>1
  <2>4. /\ t \in Seq(Elem) /\ Len(t) = e + d
        /\ \A i \in 1..(e + d) : t[i] = IF i <= e THEN v[i] ELSE b[i - e]
    BY <1>8, <2>2, <2>3, ConcatProperties
  <2> QED BY <2>1, <2>4
<1>10. Len(t) = L + 1 BY <1>9
<1>11. ASSUME NEW i \in 1..k PROVE t[i] = s[i]
  <2>1. i \in 1..(k + 1) /\ i \in 1..(k + 1 + d) /\ i <= k /\ i <= k + 1  OBVIOUS
  <2> QED BY <1>2, <1>6, <1>9, <2>1
<1>12. t[k + 1] = n
  <2>1. k + 1 \in 1..(k + 1 + d) /\ k + 1 <= k + 1  OBVIOUS
  <2> QED BY <1>7, <1>9, <2>1
<1>13. ASSUME NEW i \in (k + 1)..L PROVE t[i + 1] = s[i]
  <2>1. i + 1 \in 1..(k + 1 + d) /\ ~(i + 1 <= k + 1)  OBVIOUS
  <2>2. PICK x \in 1..d : x = i - k  OBVIOUS
  <2>3. (i + 1) - (k + 1) = x /\ k + x = i BY <2>2
  <2>4. t[i + 1] = b[x] BY <2>1, <2>3, <1>9
  <2> QED BY <1>3, <2>3, <2>4
<1> QED BY <1>4, <1>5, <1>8, <1>9, <1>10, <1>11, <1>12, <1>13 DEF PutIn

(* s without its element after the first k                                 *)
LEMMA SlicesWithout ==
    ASSUME NEW s \in Seq(Elem), NEW L \in Nat, Len(s) = L, NEW k \in Nat, k < L,
           NEW d \in Nat, k + 1 + d = L,
           NEW a, Slice(s, 0, k, a), NEW b, Slice(s, k + 1, d, b), NEW n, n = s[k + 1]
    PROVE  PutIn(a \o b, k, n, s) /\ Len(a \o b) = L - 1 /\ a \o b \in Seq(Elem)
<1>2. a \in Seq(Elem) /\ b \in Seq(Elem) /\ Len(a) = k /\ Len(b) = d
  BY DEF Slice
<1>3. PICK t : t = a \o b  OBVIOUS
<1>4. /\ t \in Seq(Elem) /\ Len(t) = k + d
      /\ \A i \in 1..(k + d) : t[i] = IF i <= k THEN a[i] ELSE b[i - k]
  BY <1>2, <1>3, ConcatProperties
<1>5. Len(t) = L - 1 /\ L = Len(t) + 1 /\ k + d = L - 1  BY <1>4
<1>6. ASSUME NEW i \in 1..k  PROVE t[i] = s[i]
  <2>1. i \in 1..(k + d) /\ i <= k /\ 0 + i = i  OBVIOUS
  <2>2. a[i] = s[0 + i]  BY DEF Slice
  <2> QED BY <1>4, <2>1, <2>2
<1>7. ASSUME NEW i \in (k + 1)..(L - 1)  PROVE t[i] = s[i + 1]
  <2>1. PICK x \in 1..d : x = i - k  OBVIOUS
  <2>2. i \in 1..(k + d) /\ ~(i <= k) /\ (k + 1) + x = i + 1  BY <2>1
  <2>3. b[x] = s[(k + 1) + x]  BY DEF Slice
  <2> QED BY <1>4, <2>1, <2>2, <2>3
<1>8. PutIn(t, k, n, s)
  <2>1. Len(s) = Len(t) + 1 /\ (k + 1)..Len(t) = (k + 1)..(L - 1)  BY <1>5
  <2> QED BY <1>6, <1>7, <2>1 DEF PutIn
<1> QED BY <1>3, <1>4, <1>5, <1>8

(* n put in by With, at the head and at the end                            *)
LEMMA WithIs ==
    ASSUME NEW s \in Seq(Elem), NEW k \in 0..Len(s), NEW n \in Elem
    PROVE  PutIn(s, k, n, Abstract!With(s, k, n))
<1>1. PICK L \in Nat : L = Len(s)  BY MemberAt
<1>2. PICK d \in Nat : d = L - k
  <2>1. L - k \in Nat  BY <1>1
  <2> QED BY <2>1
<1>3. k \in Nat /\ k <= L /\ 0 + k <= Len(s) /\ k + d = L /\ k + d <= Len(s)  BY <1>1, <1>2
<1>4. PICK a : a = SubSeq(s, 1, k) /\ Slice(s, 0, k, a)
  <2>1. k <= Len(s)  BY <1>1, <1>3
  <2> QED BY <1>3, <2>1, FirstSlice
<1>5. PICK b : b = SubSeq(s, k + 1, Len(s)) /\ Slice(s, k, d, b)
  <2>1. Len(s) = k + d /\ Len(s) \in Int /\ k + 1 \in Int  BY <1>1, <1>3
  <2> QED BY <1>3, <2>1, SliceIs
<1>6. PutIn(s, k, n, a \o <<n>> \o b)  BY <1>1, <1>3, <1>4, <1>5, SlicesPutIn
<1> QED BY <1>4, <1>5, <1>6 DEF Abstract!With

(* Two sequences with n in the same place are one.                         *)
LEMMA PutInOnce ==
    ASSUME NEW s \in Seq(Elem), NEW k \in 0..Len(s), NEW n, NEW t, PutIn(s, k, n, t),
           NEW u, PutIn(s, k, n, u)
    PROVE  t = u
<1>1. t \in Seq(Elem) /\ u \in Seq(Elem) /\ Len(t) = Len(u) /\ Len(t) = Len(s) + 1 /\ Len(s) \in Nat
  BY MemberAt DEF PutIn
<1>2. ASSUME NEW i \in 1..Len(t)  PROVE t[i] = u[i]
  <2>1. CASE i <= k
    <3>1. i \in 1..k  BY <2>1
    <3> QED BY <3>1 DEF PutIn
  <2>2. CASE i = k + 1  BY <2>2 DEF PutIn
  <2>3. CASE i > k + 1
    <3>1. PICK j \in (k + 1)..Len(s) : i = j + 1
      <4>1. i - 1 \in (k + 1)..Len(s) /\ i = (i - 1) + 1  BY <1>1, <2>3
      <4> QED BY <4>1
    <3> QED BY <3>1 DEF PutIn
  <2> QED BY <1>1, <2>1, <2>2, <2>3
<1> QED BY <1>1, <1>2, SeqEqual

LEMMA HeadAndEnd ==
    ASSUME NEW s \in Seq(Elem), NEW n \in Elem
    PROVE  /\ PutIn(s, 0, n, <<n>> \o s) /\ PutIn(s, Len(s), n, s \o <<n>>)
           /\ 0 \in 0..Len(s) /\ Len(s) \in 0..Len(s)
<1>1. Len(s) \in Nat  BY MemberAt
<1>2. PICK u \in Seq(Elem) : u = <<n>> /\ Len(u) = 1 /\ u[1] = n
  <2>1. <<n>> \in Seq(Elem) /\ Len(<<n>>) = 1 /\ <<n>>[1] = n  OBVIOUS
  <2> QED BY <2>1
<1>3. /\ u \o s \in Seq(Elem) /\ Len(u \o s) = Len(u) + Len(s)
      /\ \A i \in 1..(Len(u) + Len(s)) : (u \o s)[i] = IF i <= Len(u) THEN u[i] ELSE s[i - Len(u)]
  BY ConcatProperties
<1>4. /\ s \o u \in Seq(Elem) /\ Len(s \o u) = Len(s) + Len(u)
      /\ \A i \in 1..(Len(s) + Len(u)) : (s \o u)[i] = IF i <= Len(s) THEN s[i] ELSE u[i - Len(s)]
  BY ConcatProperties
<1>5. PutIn(s, 0, n, u \o s)
  <2>1. 1 \in 1..(Len(u) + Len(s)) /\ 0 + 1 = 1  BY <1>1, <1>2
  <2>2. \A i \in 1..Len(s) : i + 1 \in 1..(Len(u) + Len(s)) /\ ~(i + 1 <= 1) /\ (i + 1) - 1 = i
    BY <1>1, <1>2
  <2>3. Len(u \o s) = Len(s) + 1  BY <1>1, <1>2, <1>3
  <2> QED BY <1>2, <1>3, <2>1, <2>2, <2>3 DEF PutIn
<1>6. PutIn(s, Len(s), n, s \o u)
  <2>1. Len(s) + 1 \in 1..(Len(s) + Len(u)) /\ ~(Len(s) + 1 <= Len(s)) /\ (Len(s) + 1) - Len(s) = 1
    BY <1>1, <1>2
  <2>2. \A i \in 1..Len(s) : i \in 1..(Len(s) + Len(u)) /\ i <= Len(s)  BY <1>1, <1>2
  <2>3. (Len(s) + 1)..Len(s) = {}  BY <1>1
  <2> QED BY <1>2, <1>4, <2>1, <2>2, <2>3 DEF PutIn
<1> QED BY <1>1, <1>2, <1>5, <1>6

(* n taken out                                                             *)
LEMMA WithoutIs ==
    ASSUME NEW s \in Seq(Elem), NoDuplicates(s), NEW k \in 0..(Len(s) - 1), NEW n, n = s[k + 1],
           NEW t, t = Abstract!Without(s, n)
    PROVE  /\ t \in Seq(Elem) /\ Len(t) = Len(s) - 1 /\ PutIn(t, k, n, s) /\ k \in 0..Len(t)
           /\ NoDuplicates(t) /\ n \notin Members(t) /\ n \in Elem
           /\ Members(t) = Members(s) \ {n}
<1>1. /\ Len(s) \in Nat /\ DOMAIN s = 1..Len(s) /\ \A i \in 1..Len(s) : s[i] \in Elem
      /\ \A i, j \in 1..Len(s) : s[i] = s[j] => i = j
  BY MemberAt DEF NoDuplicates
<1>2. k + 1 \in 1..Len(s) /\ (k + 1) - 1 = k  BY <1>1
<1>3. Abstract!Before(s, n) = k  BY <1>2, BeforeIs
<1>4. PICK L \in Nat : L = Len(s)  BY <1>1
<1>5. PICK d \in Nat : d = L - (k + 1)  BY <1>4
<1>6. k \in Nat /\ k < L /\ 0 + k <= Len(s) /\ k + 1 + d = L /\ (k + 1) + d <= Len(s)
  BY <1>4, <1>5
<1>7. PICK a : a = SubSeq(s, 1, k) /\ Slice(s, 0, k, a)
  <2>1. k <= Len(s)  BY <1>4, <1>6
  <2> QED BY <1>6, <2>1, FirstSlice
<1>8. PICK b : b = SubSeq(s, k + 2, Len(s)) /\ Slice(s, k + 1, d, b)
  <2>1. /\ Len(s) = (k + 1) + d /\ Len(s) \in Int /\ k + 2 = (k + 1) + 1
        /\ k + 2 \in Int /\ k + 1 \in Nat
    BY <1>4, <1>6
  <2> QED BY <1>6, <2>1, SliceIs
<1>9. t = a \o b  BY <1>3, <1>7, <1>8 DEF Abstract!Without
<1>10. PutIn(t, k, n, s) /\ Len(t) = L - 1 /\ t \in Seq(Elem)
  <2>1. PutIn(a \o b, k, n, s) /\ Len(a \o b) = L - 1 /\ a \o b \in Seq(Elem)
    <3>1. Slice(s, 0, k, a) /\ Slice(s, k + 1, d, b)  BY <1>7, <1>8
    <3>2. /\ L \in Nat /\ Len(s) = L /\ k \in Nat /\ k < L /\ d \in Nat /\ k + 1 + d = L
          /\ s \in Seq(Elem) /\ n = s[k + 1]
      BY <1>4, <1>5, <1>6
    <3> QED BY <3>1, <3>2, SlicesWithout
  <2> QED BY <1>9, <2>1
<1>11. /\ PutIn(t, k, n, s) /\ Len(t) = L - 1 /\ t \in Seq(Elem)
       /\ \A i \in 1..k : t[i] = s[i]
       /\ \A i \in (k + 1)..(L - 1) : t[i] = s[i + 1]
  BY <1>10 DEF PutIn
<1>12. Len(t) = Len(s) - 1 /\ k \in 0..Len(t) /\ Len(t) \in Nat  BY <1>4, <1>6, <1>11
<1>13. DOMAIN t = 1..Len(t)  BY <1>11, MemberAt
<1>14. ASSUME NEW i \in 1..Len(t)
       PROVE  \E j \in 1..Len(s) : j = (IF i <= k THEN i ELSE i + 1) /\ j # k + 1 /\ t[i] = s[j]
  <2>1. i \in 1..(L - 1) /\ L = Len(s)  BY <1>4, <1>11
  <2>2. CASE i <= k
    <3>1. i \in 1..Len(s) /\ i # k + 1 /\ i \in 1..k  BY <1>6, <2>1, <2>2
    <3> QED BY <1>11, <2>2, <3>1
  <2>3. CASE ~(i <= k)
    <3>1. i + 1 \in 1..Len(s) /\ i + 1 # k + 1 /\ i \in (k + 1)..(L - 1)  BY <1>6, <2>1, <2>3
    <3>2. t[i] = s[i + 1]  BY <1>11, <3>1
    <3> QED BY <2>3, <3>1, <3>2
  <2> QED BY <2>2, <2>3
<1>15. NoDuplicates(t)
  <2> SUFFICES ASSUME NEW i \in 1..Len(t), NEW j \in 1..Len(t), t[i] = t[j]  PROVE i = j
    BY <1>13 DEF NoDuplicates
  <2>1. PICK x \in 1..Len(s) : x = (IF i <= k THEN i ELSE i + 1) /\ t[i] = s[x]  BY <1>14
  <2>2. PICK y \in 1..Len(s) : y = (IF j <= k THEN j ELSE j + 1) /\ t[j] = s[y]  BY <1>14
  <2>3. x = y  BY <1>1, <2>1, <2>2
  <2>4. i \in Nat /\ j \in Nat /\ k \in Nat  BY <1>6, <1>12
  <2> QED BY <2>1, <2>2, <2>3, <2>4
<1>16. n \notin Members(t) /\ n \in Elem
  <2>1. n \in Elem  BY <1>1, <1>2
  <2>2. ASSUME NEW i \in 1..Len(t), t[i] = n  PROVE FALSE
    <3>1. PICK x \in 1..Len(s) : x # k + 1 /\ t[i] = s[x]  BY <1>14
    <3> QED BY <1>1, <1>2, <2>2, <3>1
  <2> QED BY <1>13, <2>1, <2>2 DEF Members
<1>17. Members(s) = {n} \cup Members(t)  BY <1>11, <1>12, <1>16, PutInMembers
<1> QED BY <1>11, <1>12, <1>15, <1>16, <1>17

(* A loop whose element is taken out still has the others ahead of it.     *)
LEMMA AheadWithout ==
    ASSUME NEW s \in Seq(Elem), NEW t \in Seq(Elem), NEW n, NEW k \in 1..Len(s),
           PutIn(t, k - 1, n, s), NEW reverse \in BOOLEAN,
           NEW e \in 1..Len(s), e = Beyond(k, reverse)
    PROVE  \E f \in 1..Len(t) : t[f] = s[e] /\ Ahead(t, reverse, f) = Ahead(s, reverse, e)
<1>1. Len(s) = Len(t) + 1 /\ Len(t) \in Nat  BY MemberAt DEF PutIn
<1>2. CASE reverse
  <2>1. e = k - 1 /\ e \in 1..Len(t) /\ e \in 1..(k - 1)  BY <1>1, <1>2 DEF Beyond
  <2>2. \A i \in 1..e : e + 1 - i \in 1..(k - 1)  BY <2>1
  <2>3. \A i \in 1..(k - 1) : t[i] = s[i]  BY DEF PutIn
  <2>4. Rest(Len(t), reverse, e) = e /\ Rest(Len(s), reverse, e) = e
        /\ \A i \in 1..e : Turn(e, reverse, i) = e + 1 - i
    BY <1>2 DEF Rest, Turn
  <2>5. Ahead(t, reverse, e) = Ahead(s, reverse, e)  BY <2>2, <2>3, <2>4 DEF Ahead
  <2> QED BY <2>1, <2>3, <2>5
<1>3. CASE ~reverse
  <2>1. e = k + 1 /\ k \in 1..Len(t) /\ (k - 1) + 1 = k  BY <1>1, <1>3 DEF Beyond
  <2>2. \A i \in k..Len(t) : t[i] = s[i + 1]  BY <2>1 DEF PutIn
  <2>3. PICK m \in Nat : m = Len(t) + 1 - k
    <3>1. Len(t) + 1 - k \in Nat  BY <1>1
    <3> QED BY <3>1
  <2>4. Rest(Len(t), reverse, k) = m /\ Rest(Len(s), reverse, e) = m
        /\ \A i \in 1..m : Turn(k, reverse, i) = k - 1 + i /\ Turn(e, reverse, i) = k + i
    BY <1>1, <1>3, <2>1, <2>3 DEF Rest, Turn
  <2>5. \A i \in 1..m : k - 1 + i \in k..Len(t) /\ (k - 1 + i) + 1 = k + i  BY <1>1, <2>3
  <2>6. \A i \in 1..m : t[Turn(k, reverse, i)] = s[Turn(e, reverse, i)]
    BY <2>2, <2>4, <2>5
  <2>7. Ahead(t, reverse, k) = Ahead(s, reverse, e)  BY <2>4, <2>6 DEF Ahead
  <2>8. k \in k..Len(t)  BY <2>1
  <2> QED BY <2>1, <2>2, <2>7, <2>8
<1> QED BY <1>2, <1>3

(* The elements of a loop that starts at place k, as QueueSpec has them    *)
LEMMA StartsAt ==
    ASSUME NEW s \in Seq(Elem), NEW k \in 1..Len(s)
    PROVE  /\ SubSeq(s, k, Len(s)) = Ahead(s, FALSE, k)
           /\ Abstract!Reversed(SubSeq(s, 1, k)) = Ahead(s, TRUE, k)
           /\ k = 1 => s = Ahead(s, FALSE, k)
           /\ k = Len(s) => Abstract!Reversed(s) = Ahead(s, TRUE, k)
<1>1. Len(s) \in Nat /\ DOMAIN s = 1..Len(s) /\ \A i \in 1..Len(s) : s[i] \in Elem  BY MemberAt
<1>2. PICK L \in Nat : L = Len(s)  BY <1>1
<1>3. PICK m \in Nat : m = L + 1 - k  BY <1>2
<1>4. PICK b : b = SubSeq(s, k, Len(s)) /\ Slice(s, k - 1, m, b)
  <2>1. /\ k - 1 \in Nat /\ (k - 1) + m <= Len(s) /\ k = (k - 1) + 1 /\ Len(s) = (k - 1) + m
        /\ k \in Int /\ Len(s) \in Int
    BY <1>2, <1>3
  <2> QED BY <1>3, <2>1, SliceIs
<1>5. PICK a : a = SubSeq(s, 1, k) /\ Slice(s, 0, k, a)
  <2>1. k \in Nat /\ k <= Len(s)  BY <1>2
  <2> QED BY <2>1, FirstSlice
<1>6. Ahead(s, FALSE, k) = [i \in 1..(Len(s) + 1 - k) |-> s[k - 1 + i]]
      /\ Ahead(s, TRUE, k) = [i \in 1..k |-> s[k + 1 - i]]
  BY DEF Ahead, Rest, Turn
<1>7. b = [i \in 1..(Len(s) + 1 - k) |-> s[k - 1 + i]]
  <2>1. b \in Seq(Elem) /\ Len(b) = m /\ \A i \in 1..m : b[i] = s[k - 1 + i]  BY <1>4 DEF Slice
  <2>2. DOMAIN b = 1..m /\ b = [i \in 1..m |-> b[i]]  BY <2>1
  <2>3. Len(s) + 1 - k = m  BY <1>2, <1>3
  <2> QED BY <2>1, <2>2, <2>3
<1>8. Abstract!Reversed(a) = [i \in 1..k |-> s[k + 1 - i]]
  <2>1. a \in Seq(Elem) /\ Len(a) = k /\ \A i \in 1..k : a[i] = s[i]
    <3>1. \A i \in 1..k : 0 + i = i  OBVIOUS
    <3> QED BY <1>5, <3>1 DEF Slice
  <2>2. \A i \in 1..k : k + 1 - i \in 1..k  BY <1>1
  <2>3. DOMAIN a = 1..k  BY <2>1
  <2> QED BY <2>1, <2>2, <2>3 DEF Abstract!Reversed
<1>9. k = 1 => s = Ahead(s, FALSE, k)
  <2>1. k = 1 => Len(s) + 1 - k = Len(s) /\ \A i \in 1..Len(s) : k - 1 + i = i  BY <1>1
  <2>2. s = [i \in 1..Len(s) |-> s[i]]  BY <1>1
  <2> QED BY <1>6, <2>1, <2>2
<1>10. k = Len(s) => Abstract!Reversed(s) = Ahead(s, TRUE, k)
  BY <1>1, <1>6 DEF Abstract!Reversed
<1> QED BY <1>4, <1>5, <1>6, <1>7, <1>8, <1>9, <1>10
----------------------------------------------------------------------------
(* The macros.  m holds the lists c.                                       *)
Holds(m, c) == Well(m.next, m.back, c)

(* INSERT_HEAD and INSERT_AFTER, behind any place                          *)
LEMMA InsertAfterIs ==
    ASSUME NEW m, NEW c, Holds(m, c), NEW h \in TailqHeads, NEW n \in Elem, OnNoList(c, n),
           NEW k \in 0..Len(c[h]), NEW t, PutIn(c[h], k, n, t),
           NEW p, p = Place(h, c[h], k)
    PROVE  Holds(TAILQ_INSERT_AFTER(m, h, p, n), [c EXCEPT ![h] = t])
<1>1. PICK N : N = m.next  OBVIOUS
<1>2. PICK B : B = m.back  OBVIOUS
<1>3. PICK N2 : N2 = [N EXCEPT ![n] = N[p], ![p] = n]  OBVIOUS
<1>4. PICK B2 : B2 = [B EXCEPT ![Behind(N, h, p)] = n, ![n] = p]  OBVIOUS
<1>5. TAILQ_INSERT_AFTER(m, h, p, n) = [next |-> N2, back |-> B2]
  BY <1>1, <1>2, <1>3, <1>4 DEF TAILQ_INSERT_AFTER, After, Behind
<1>6. Well(N, B, c) /\ \A g \in TailqHeads : n \notin Members(c[g])
  BY <1>1, <1>2 DEF Holds, OnNoList
<1>7. Well(N2, B2, [c EXCEPT ![h] = t])  BY <1>3, <1>4, <1>6, WellInsert
<1> QED BY <1>5, <1>7 DEF Holds

(* What lies around place k of the list of h                               *)
LEMMA Around ==
    ASSUME NEW m, NEW c, Holds(m, c), NEW h \in TailqHeads,
           NEW k \in 0..Len(c[h]), NEW p, p = Place(h, c[h], k)
    PROVE  /\ p \in TailqCell
           /\ k < Len(c[h]) => /\ m.next[p] = c[h][k + 1] /\ m.back[c[h][k + 1]] = p
                               /\ After(m, h, p) = c[h][k + 1]
           /\ k = Len(c[h]) => m.next[p] = NULL /\ m.back[h] = p /\ After(m, h, p) = h
<1>1. PICK s \in Seq(Elem) : s = c[h]  BY DEF Holds, Well, TailqLists
<1>2. NoDuplicates(s) /\ Ring(m.next, m.back, h, s) /\ k \in 0..Len(s) /\ p = Place(h, s, k)
  BY <1>1 DEF Holds, Well, TailqLists
<1>3. LinkedAt(m.next, m.back, h, s, k, p)  BY <1>2, RingAt
<1>4. p \in TailqCell
  <2>1. p \in CellsOf(h, s)  BY <1>2, PlaceApart
  <2> QED BY <2>1, MemberAt DEF CellsOf, TailqCell
<1>5. After(m, h, p) = Behind(m.next, h, p)  BY DEF After, Behind
<1> QED BY <1>1, <1>3, <1>4, <1>5 DEF LinkedAt

LEMMA InsertTailIs ==
    ASSUME NEW m, NEW c, Holds(m, c), NEW h \in TailqHeads, NEW n \in Elem, OnNoList(c, n)
    PROVE  Holds(TAILQ_INSERT_TAIL(m, h, n), [c EXCEPT ![h] = c[h] \o <<n>>])
<1>1. PICK s \in Seq(Elem) : s = c[h] /\ n \notin Members(s)  BY DEF Holds, Well, TailqLists, OnNoList
<1>2. PICK t : t = s \o <<n>> /\ PutIn(s, Len(s), n, t)  BY HeadAndEnd
<1>3. Len(s) \in 0..Len(s)  BY HeadAndEnd
<1>4. PICK p : p = Place(h, s, Len(s))  OBVIOUS
<1>5. m.next[p] = NULL /\ m.back[h] = p /\ After(m, h, p) = h /\ p \in TailqCell
  BY <1>1, <1>3, <1>4, Around
<1>6. n # h /\ n \in TailqCell /\ h \in TailqCell  BY TailqAssumption DEF TailqCell
<1>7. TAILQ_INSERT_TAIL(m, h, n) = TAILQ_INSERT_AFTER(m, h, p, n)
  <2>1. [m.back EXCEPT ![n] = p, ![h] = n] = [m.back EXCEPT ![h] = n, ![n] = p]
    BY <1>6
  <2> QED BY <1>5, <2>1 DEF TAILQ_INSERT_TAIL, TAILQ_INSERT_AFTER
<1>8. Holds(TAILQ_INSERT_AFTER(m, h, p, n), [c EXCEPT ![h] = t])
  BY <1>1, <1>2, <1>3, <1>4, InsertAfterIs
<1> QED BY <1>1, <1>2, <1>7, <1>8

LEMMA InsertBeforeIs ==
    ASSUME NEW m, NEW c, Holds(m, c), NEW h \in TailqHeads, NEW n \in Elem, OnNoList(c, n),
           NEW k \in 0..Len(c[h]), k < Len(c[h]), NEW t, PutIn(c[h], k, n, t),
           NEW e, e = c[h][k + 1]
    PROVE  Holds(TAILQ_INSERT_BEFORE(m, e, n), [c EXCEPT ![h] = t])
<1>1. PICK p : p = Place(h, c[h], k)  OBVIOUS
<1>2. m.next[p] = e /\ m.back[e] = p /\ After(m, h, p) = e /\ p \in TailqCell  BY <1>1, Around
<1>3. n # e
  <2>1. PICK s \in Seq(Elem) : s = c[h] /\ n \notin Members(s)  BY DEF Holds, Well, TailqLists, OnNoList
  <2>2. k + 1 \in 1..Len(s)  BY <2>1, MemberAt
  <2> QED BY <2>1, <2>2, MemberAt
<1>4. TAILQ_INSERT_BEFORE(m, e, n) = TAILQ_INSERT_AFTER(m, h, p, n)
  <2>1. [m.back EXCEPT ![n] = p, ![e] = n] = [m.back EXCEPT ![e] = n, ![n] = p]  BY <1>3
  <2> QED BY <1>2, <2>1 DEF TAILQ_INSERT_BEFORE, TAILQ_INSERT_AFTER
<1> QED BY <1>1, <1>4, InsertAfterIs

LEMMA RemoveIs ==
    ASSUME NEW m, NEW c, Holds(m, c), NEW h \in TailqHeads, NEW n \in Elem,
           NEW t \in Seq(Elem), NoDuplicates(t), n \notin Members(t),
           NEW k \in 0..Len(t), PutIn(t, k, n, c[h])
    PROVE  Holds(TAILQ_REMOVE(m, h, n), [c EXCEPT ![h] = t]) /\ OnNoList([c EXCEPT ![h] = t], n)
<1>1. PICK N : N = m.next  OBVIOUS
<1>2. PICK B : B = m.back  OBVIOUS
<1>3. PICK p : p = B[n]  OBVIOUS
<1>4. PICK N2 : N2 = [N EXCEPT ![p] = N[n]]  OBVIOUS
<1>5. PICK B2 : B2 = [B EXCEPT ![Behind(N, h, n)] = p]  OBVIOUS
<1>6. TAILQ_REMOVE(m, h, n) = [next |-> N2, back |-> B2]
  BY <1>1, <1>2, <1>3, <1>4, <1>5 DEF TAILQ_REMOVE, After, Behind
<1>7. Well(N, B, c)  BY <1>1, <1>2 DEF Holds
<1>8. Unlinks(N, B, N2, B2, h, n, p)  BY <1>3, <1>4, <1>5 DEF Unlinks
<1>9. /\ Well(N2, B2, [c EXCEPT ![h] = t])
      /\ OnNoList([c EXCEPT ![h] = t], n)
  BY <1>7, <1>8, WellRemove
<1> QED BY <1>6, <1>9 DEF Holds

(* A replaced element is taken out and the new one put in its place.       *)
LEMMA ReplaceIs ==
    ASSUME NEW m, NEW c, Holds(m, c), NEW h \in TailqHeads, NEW n \in Elem, OnNoList(c, n),
           NEW e \in Elem,
           NEW t \in Seq(Elem), NoDuplicates(t), e \notin Members(t), n \notin Members(t),
           NEW k \in 0..Len(t), PutIn(t, k, e, c[h]), NEW u, PutIn(t, k, n, u)
    PROVE  Holds(TAILQ_REPLACE(m, h, e, n), [c EXCEPT ![h] = u])
<1>1. PICK N : N = m.next  OBVIOUS
<1>2. PICK B : B = m.back  OBVIOUS
<1>3. PICK p : p = B[e]  OBVIOUS
<1>4. PICK N1 : N1 = [N EXCEPT ![p] = N[e]]  OBVIOUS
<1>5. PICK B1 : B1 = [B EXCEPT ![Behind(N, h, e)] = p]  OBVIOUS
<1>6. Well(N, B, c)  BY <1>1, <1>2 DEF Holds
<1>7. PICK d : d = [c EXCEPT ![h] = t]  OBVIOUS
<1>8. /\ Well(N1, B1, d) /\ p = Place(h, c[h], k)
      /\ N1[p] = N[e] /\ Behind(N1, h, p) = Behind(N, h, e)
  <2>1. Unlinks(N, B, N1, B1, h, e, p)  BY <1>3, <1>4, <1>5 DEF Unlinks
  <2>2. /\ Well(N1, B1, [c EXCEPT ![h] = t]) /\ p = Place(h, c[h], k)
        /\ N1[p] = N[e] /\ Behind(N1, h, p) = Behind(N, h, e)
    BY <1>6, <2>1, WellRemove
  <2> QED BY <1>7, <2>2
<1>9. /\ c \in [TailqHeads -> Seq(Elem)] /\ c[h] \in Seq(Elem) /\ NoDuplicates(c[h])
      /\ N \in [TailqCell -> Elem \cup {NULL}] /\ B \in [TailqCell -> TailqCell]
      /\ n \notin Members(c[h])
  BY <1>6 DEF Well, TailqLists, OnNoList
<1>10. d[h] = t /\ [d EXCEPT ![h] = u] = [c EXCEPT ![h] = u]
       /\ \A g \in TailqHeads : n \notin Members(d[g])
  BY <1>7, <1>9 DEF OnNoList
<1>11. p = Place(h, d[h], k) /\ k \in 0..Len(d[h]) /\ PutIn(d[h], k, n, u)
  <2>1. Place(h, c[h], k) = Place(h, t, k)
    <3>1. k # 0 => k \in 1..k  OBVIOUS
    <3> QED BY <3>1 DEF Place, PutIn
  <2> QED BY <1>8, <1>10, <2>1
<1>12. PICK N2 : N2 = [N1 EXCEPT ![n] = N1[p], ![p] = n]  OBVIOUS
<1>13. PICK B2 : B2 = [B1 EXCEPT ![Behind(N1, h, p)] = n, ![n] = p]  OBVIOUS
<1>14. Well(N2, B2, [d EXCEPT ![h] = u])
  BY <1>8, <1>10, <1>11, <1>12, <1>13, WellInsert
<1>15. n # p /\ p \in TailqCell /\ n \in TailqCell
  <2>1. k \in 0..Len(c[h])  BY MemberAt DEF PutIn
  <2>2. p \in CellsOf(h, c[h])  BY <1>8, <1>9, <2>1, PlaceApart
  <2>3. n # h  BY TailqAssumption
  <2>4. Members(c[h]) \subseteq Elem  BY <1>9, MemberAt
  <2> QED BY <1>9, <2>2, <2>3, <2>4 DEF CellsOf, TailqCell
<1>16. N2 = [N EXCEPT ![n] = N[e], ![p] = n]  BY <1>4, <1>8, <1>9, <1>12, <1>15
<1>17. B2 = [B EXCEPT ![Behind(N, h, e)] = n, ![n] = p]  BY <1>5, <1>8, <1>9, <1>13
<1>18. TAILQ_REPLACE(m, h, e, n) = [next |-> N2, back |-> B2]
  BY <1>1, <1>2, <1>3, <1>16, <1>17 DEF TAILQ_REPLACE, After, Behind
<1> QED BY <1>10, <1>14, <1>18 DEF Holds

LEMMA ConcatIs ==
    ASSUME NEW m, NEW c, Holds(m, c), NEW g \in TailqHeads, NEW h \in TailqHeads, g # h
    PROVE  Holds(TAILQ_CONCAT(m, g, h), [c EXCEPT ![g] = c[g] \o c[h], ![h] = <<>>])
<1>1. PICK N : N = m.next  OBVIOUS
<1>2. PICK B : B = m.back  OBVIOUS
<1>3. Well(N, B, c)  BY <1>1, <1>2 DEF Holds
<1>4. CASE N[h] = NULL
  <2>1. PICK r \in Seq(Elem) : r = c[h] /\ (N[h] = NULL <=> Len(r) = 0)  BY <1>3, WellList
  <2>2. c[h] = <<>>  BY <1>4, <2>1
  <2>3. c \in [TailqHeads -> Seq(Elem)] /\ c[g] \in Seq(Elem)  BY <1>3 DEF Well, TailqLists
  <2>4. c[g] \o <<>> = c[g]  BY <2>3
  <2>5. [c EXCEPT ![g] = c[g] \o c[h], ![h] = <<>>] = c  BY <2>2, <2>3, <2>4
  <2>6. TAILQ_CONCAT(m, g, h) = m  BY <1>1, <1>4 DEF TAILQ_CONCAT, TAILQ_EMPTY
  <2> QED BY <2>5, <2>6
<1>5. CASE N[h] # NULL
  <2>1. PICK N1 : N1 = [N EXCEPT ![B[g]] = N[h]]  OBVIOUS
  <2>2. PICK N2 : N2 = [N1 EXCEPT ![h] = NULL]  OBVIOUS
  <2>3. PICK B1 : B1 = [B EXCEPT ![N[h]] = B[g], ![g] = B[h]]  OBVIOUS
  <2>4. PICK B2 : B2 = [B1 EXCEPT ![h] = h]  OBVIOUS
  <2>5. Well(N2, B2, [c EXCEPT ![g] = c[g] \o c[h], ![h] = <<>>])
    BY <1>3, <1>5, <2>1, <2>2, <2>3, <2>4, WellConcat
  <2>6. TAILQ_CONCAT(m, g, h) = TAILQ_INIT([next |-> N1, back |-> B1], h)
    BY <1>1, <1>2, <1>5, <2>1, <2>3 DEF TAILQ_CONCAT, TAILQ_EMPTY
  <2>7. TAILQ_CONCAT(m, g, h) = [next |-> N2, back |-> B2]
    BY <2>2, <2>4, <2>6 DEF TAILQ_INIT
  <2> QED BY <2>5, <2>7 DEF Holds
<1> QED BY <1>4, <1>5

LEMMA SwapIs ==
    ASSUME NEW m, NEW c, Holds(m, c), NEW g \in TailqHeads, NEW h \in TailqHeads, g # h
    PROVE  Holds(TAILQ_SWAP(m, g, h), [c EXCEPT ![g] = c[h], ![h] = c[g]])
<1>1. PICK N : N = m.next  OBVIOUS
<1>2. PICK B : B = m.back  OBVIOUS
<1>3. Well(N, B, c)  BY <1>1, <1>2 DEF Holds
<1>4. PICK N2 : N2 = [N EXCEPT ![g] = N[h], ![h] = N[g]]  OBVIOUS
<1>5. PICK B1 : B1 = [B EXCEPT ![g] = B[h], ![h] = B[g]]  OBVIOUS
<1>6. PICK B2 : B2 = [B1 EXCEPT ![Behind(N2, g, g)] = g]  OBVIOUS
<1>7. PICK B3 : B3 = [B2 EXCEPT ![Behind(N2, h, h)] = h]  OBVIOUS
<1>8. Well(N2, B3, [c EXCEPT ![g] = c[h], ![h] = c[g]])
  BY <1>3, <1>4, <1>5, <1>6, <1>7, WellSwap
<1>9. TAILQ_SWAP(m, g, h) = Anchor(Anchor([next |-> N2, back |-> B1], g), h)
  BY <1>1, <1>2, <1>4, <1>5 DEF TAILQ_SWAP
<1>10. Anchor([next |-> N2, back |-> B1], g) = [next |-> N2, back |-> B2]
  BY <1>6 DEF Anchor, After, Behind
<1>11. Anchor([next |-> N2, back |-> B2], h) = [next |-> N2, back |-> B3]
  BY <1>7 DEF Anchor, After, Behind
<1> QED BY <1>8, <1>9, <1>10, <1>11 DEF Holds

----------------------------------------------------------------------------
(* The elements a loop has yet to visit, and where it stands               *)
LEMMA NoneLeft ==
    ASSUME NEW m, NEW c, Holds(m, c), NEW reverse \in BOOLEAN
    PROVE  Chain(Ways(m, reverse), NULL, Cardinality(Elem) + 1) = <<>>
<1>1. ASSUME NEW x \in Elem  PROVE Onward(m, reverse, x) \in Elem \cup {NULL}
  <2>1. x \in TailqCell /\ Elem \subseteq TailqCell  BY DEF TailqCell
  <2>2. m.next[x] \in Elem \cup {NULL} /\ m.next[m.back[m.back[x]]] \in Elem \cup {NULL}
    BY <2>1 DEF Holds, Well
  <2> QED BY <2>2 DEF Onward, TAILQ_NEXT, TAILQ_PREV
<1>2. \A x \in Elem : Ways(m, reverse)[x] \in Elem \cup {NULL}  BY <1>1 DEF Ways
<1>3. <<>> \in Seq(Elem) /\ NoDuplicates(<<>>) /\ Path(Ways(m, reverse), NULL, <<>>)
  BY DEF NoDuplicates, Path
<1> QED BY <1>2, <1>3, WalkIs

(* A loop at place k of the list of h: it visits what is ahead of it.      *)
LEMMA LoopIs ==
    ASSUME NEW m, NEW c, Holds(m, c), NEW h \in TailqHeads, NEW reverse \in BOOLEAN,
           NEW s \in Seq(Elem), s = c[h], NEW k \in 1..Len(s),
           NEW l, l = LoopAt(m, reverse, h, s[k])
    PROVE  /\ l # NoLoop /\ l.var = s[k] /\ l.reverse = reverse /\ l.head = h
           /\ l.tvar = IF Beyond(k, reverse) \in 1..Len(s) THEN s[Beyond(k, reverse)] ELSE NULL
           /\ Onward(m, reverse, s[k]) = l.tvar
           /\ Chain(Ways(m, l.reverse), l.var, Cardinality(Elem) + 1) = Ahead(s, reverse, k)
<1>1. s[k] \in Elem /\ s[k] # NULL  BY MemberAt, TailqAssumption DEF TailqCell
<1>2. Well(m.next, m.back, c)  BY DEF Holds
<1>3. l = [var |-> s[k], tvar |-> Onward(m, reverse, s[k]), reverse |-> reverse, head |-> h]
  BY <1>1 DEF LoopAt
<1>4. /\ Chain(Ways(m, reverse), s[k], Cardinality(Elem) + 1) = Ahead(s, reverse, k)
      /\ Onward(m, reverse, s[k]) = IF Beyond(k, reverse) \in 1..Len(s)
                                    THEN s[Beyond(k, reverse)] ELSE NULL
  BY <1>2, AheadIs
<1>5. l # NoLoop  BY <1>1, <1>3 DEF NoLoop
<1> QED BY <1>3, <1>4, <1>5

(* An element replaced in its place                                        *)
Replaced(s, e, n) == [i \in DOMAIN s |-> IF s[i] = e THEN n ELSE s[i]]

LEMMA ReplacedIs ==
    ASSUME NEW s \in Seq(Elem), NoDuplicates(s), NEW e, NEW k \in 1..Len(s), e = s[k],
           NEW n \in Elem, n \notin Members(s), NEW u, u = Replaced(s, e, n)
    PROVE  \E t \in Seq(Elem) : \E j \in 0..Len(t) :
              /\ NoDuplicates(t) /\ e \notin Members(t) /\ n \notin Members(t)
              /\ PutIn(t, j, e, s) /\ PutIn(t, j, n, u)
<1>1. /\ Len(s) \in Nat /\ DOMAIN s = 1..Len(s) /\ \A i \in 1..Len(s) : s[i] \in Elem
      /\ \A i, j \in 1..Len(s) : s[i] = s[j] => i = j
  BY MemberAt DEF NoDuplicates
<1>2. PICK j \in 0..(Len(s) - 1) : k = j + 1
  <2>1. k - 1 \in 0..(Len(s) - 1) /\ k = (k - 1) + 1  BY <1>1
  <2> QED BY <2>1
<1>3. PICK t : t = Abstract!Without(s, e)  OBVIOUS
<1>4. /\ t \in Seq(Elem) /\ Len(t) = Len(s) - 1 /\ PutIn(t, j, e, s) /\ j \in 0..Len(t)
      /\ NoDuplicates(t) /\ e \notin Members(t) /\ Members(t) = Members(s) \ {e}
  BY <1>2, <1>3, WithoutIs
<1>5. u \in Seq(Elem) /\ Len(u) = Len(s) /\ \A i \in 1..Len(s) : u[i] = IF i = k THEN n ELSE s[i]
  <2>1. u = [i \in 1..Len(s) |-> IF i = k THEN n ELSE s[i]]  BY <1>1 DEF Replaced
  <2>2. \A i \in 1..Len(s) : (IF i = k THEN n ELSE s[i]) \in Elem  BY <1>1
  <2>3. u \in [1..Len(s) -> Elem]  BY <2>1, <2>2
  <2> QED BY <1>1, <2>1, <2>3
<1>6. PutIn(t, j, n, u)
  <2>1. Len(u) = Len(t) + 1  BY <1>1, <1>4, <1>5
  <2>2. ASSUME NEW i \in 1..j  PROVE u[i] = t[i]
    <3>1. i \in 1..Len(s) /\ i # k  BY <1>1, <1>2
    <3>2. s[i] = t[i]  BY <1>4 DEF PutIn
    <3> QED BY <1>5, <3>1, <3>2
  <2>3. u[j + 1] = n
    <3>1. j + 1 \in 1..Len(s)  BY <1>1, <1>2
    <3> QED BY <1>2, <1>5, <3>1
  <2>4. ASSUME NEW i \in (j + 1)..Len(t)  PROVE u[i + 1] = t[i]
    <3>1. i + 1 \in 1..Len(s) /\ i + 1 # k  BY <1>1, <1>2, <1>4
    <3>2. s[i + 1] = t[i]  BY <1>4 DEF PutIn
    <3> QED BY <1>5, <3>1, <3>2
  <2> QED BY <1>5, <2>1, <2>2, <2>3, <2>4 DEF PutIn
<1> QED BY <1>4, <1>6

----------------------------------------------------------------------------
(* The state: what the links hold, and where the loop stands in it         *)
LoopRight(m, c, l) ==
    \/ l = NoLoop
    \/ \E h \in TailqHeads, reverse \in BOOLEAN : \E k \in 1..Len(c[h]) :
          l = LoopAt(m, reverse, h, c[h][k])

TqInv == Holds(tqMem, Content) /\ LoopRight(tqMem, Content, tqLoop)

(* The elements that the links hold are the ones the macros find.          *)
LEMMA ContentIs ==
    ASSUME NEW m, NEW c, Holds(m, c)
    PROVE  [h \in TailqHeads |-> TailqElements(m, h)] = c
<1>1. \A h \in TailqHeads : TailqElements(m, h) = c[h]  BY ElementsAre DEF Holds
<1>2. c = [h \in TailqHeads |-> c[h]]  BY DEF Holds, Well, TailqLists
<1> QED BY <1>1, <1>2

LEMMA OnList ==
    ASSUME TqInv, NEW h \in TailqHeads, NEW n \in Elem
    PROVE  /\ Content[h] \in Seq(Elem) /\ NoDuplicates(Content[h])
           /\ Queued(tqMem, h, n) <=> n \in Members(Content[h])
           /\ Abstract!On(h, n) <=> n \in Members(Content[h])
<1>1. Content[h] \in Seq(Elem) /\ NoDuplicates(Content[h])
  BY DEF TqInv, Holds, Well, TailqLists
<1>2. Content[h] = TailqElements(tqMem, h)  BY DEF Content
<1>3. Abstract!On(h, n) <=> n \in Members(Content[h])  BY DEF Abstract!On, Members
<1> QED BY <1>1, <1>2, <1>3 DEF Queued

LEMMA OnNone ==
    ASSUME TqInv, NEW n \in Elem
    PROVE  /\ Unqueued(tqMem, n) <=> OnNoList(Content, n)
           /\ Abstract!Free(n) <=> OnNoList(Content, n)
<1>1. \A h \in TailqHeads : /\ Queued(tqMem, h, n) <=> n \in Members(Content[h])
                            /\ Abstract!On(h, n) <=> n \in Members(Content[h])
  BY OnList
<1> QED BY <1>1 DEF Unqueued, OnNoList, Abstract!Free

(* What is left to visit without a loop                                    *)
LEMMA NothingLeft ==
    ASSUME TqInv, tqLoop = NoLoop
    PROVE  Todo = <<>>
<1>1. PICK m : m = tqMem  OBVIOUS
<1>2. PICK c : c = Content  OBVIOUS
<1>3. Holds(m, c)  BY <1>1, <1>2 DEF TqInv
<1>4. tqLoop.var = NULL /\ tqLoop.reverse = FALSE  BY DEF NoLoop
<1>5. Chain(Ways(m, FALSE), NULL, Cardinality(Elem) + 1) = <<>>  BY <1>3, NoneLeft
<1> QED BY <1>1, <1>4, <1>5 DEF Todo

(* A call that leaves the lists d                                          *)
LEMMA CallDone ==
    ASSUME TqInv, NEW x, NEW m, Call(x, m), NEW d, Holds(m, d)
    PROVE  TqInv' /\ Content' = d /\ Todo = <<>> /\ Todo' = <<>> /\ tqCall' = x
<1>1. tqLoop = NoLoop /\ tqLoop' = NoLoop /\ tqCall' = x /\ tqMem' = m  BY DEF Call
<1>2. [h \in TailqHeads |-> TailqElements(m, h)] = d  BY ContentIs
<1>3. Content' = d  BY <1>1, <1>2 DEF Content
<1>4. TqInv'  BY <1>1, <1>3 DEF TqInv, LoopRight
<1>5. Todo = <<>>  BY <1>1, NothingLeft
<1>6. Todo' = <<>>
  <2>1. tqLoop'.var = NULL /\ tqLoop'.reverse = FALSE  BY <1>1 DEF NoLoop
  <2>2. Chain(Ways(m, FALSE), NULL, Cardinality(Elem) + 1) = <<>>  BY NoneLeft
  <2> QED BY <1>1, <2>1, <2>2 DEF Todo
<1> QED BY <1>1, <1>3, <1>4, <1>5, <1>6

LEMMA TqInsertStep ==
    ASSUME TqInv, NEW h \in TailqHeads, NEW n \in Elem, TqInsert(h, n)
    PROVE  TqInv' /\ Abstract!Next
<1>1. PICK m : m = tqMem  OBVIOUS
<1>2. PICK c : c = Content  OBVIOUS
<1>3. PICK s \in Seq(Elem) : s = c[h] /\ NoDuplicates(s) /\ Len(s) \in Nat
  BY <1>2, OnList, MemberAt
<1>4. Holds(m, c) /\ OnNoList(c, n) /\ Abstract!Free(n)
  BY <1>1, <1>2, OnNone DEF TqInv, TqInsert
<1>5. ASSUME NEW x, NEW m2, Call(x, m2), NEW t, Holds(m2, [c EXCEPT ![h] = t])
      PROVE  TqInv' /\ Abstract!Becomes(h, t) /\ Todo = <<>> /\ Todo' = <<>> /\ tqCall' = x
  <2>1. PICK d : d = [c EXCEPT ![h] = t]  OBVIOUS
  <2>2. TqInv' /\ Content' = d /\ Todo = <<>> /\ Todo' = <<>> /\ tqCall' = x
    BY <1>5, <2>1, CallDone
  <2> QED BY <1>2, <2>1, <2>2 DEF Abstract!Becomes
<1>6. CASE Call(<<"INSERT_HEAD", h, n>>, TAILQ_INSERT_HEAD(tqMem, h, n))
  <2>1. PICK m2 : m2 = TAILQ_INSERT_HEAD(m, h, n)  OBVIOUS
  <2>2. PICK t : t = <<n>> \o s /\ PutIn(s, 0, n, t) /\ 0 \in 0..Len(s)  BY HeadAndEnd
  <2>3. h = Place(h, s, 0)  BY DEF Place
  <2>4. Holds(m2, [c EXCEPT ![h] = t])
    BY <1>3, <1>4, <2>1, <2>2, <2>3, InsertAfterIs DEF TAILQ_INSERT_HEAD
  <2>5. PICK x : x = <<"INSERT_HEAD", h, n>>  OBVIOUS
  <2>6. Call(x, m2)  BY <1>1, <1>6, <2>1, <2>5
  <2>7. TqInv' /\ Abstract!Becomes(h, t) /\ Todo = <<>> /\ Todo' = <<>> /\ tqCall' = x
    BY <1>5, <2>4, <2>6
  <2>8. Abstract!Insert(h, n)
    BY <1>2, <1>3, <1>4, <2>2, <2>5, <2>7 DEF Abstract!Insert
  <2> QED BY <2>7, <2>8 DEF Abstract!Next, Abstract!Single
<1>7. CASE Call(<<"INSERT_TAIL", h, n>>, TAILQ_INSERT_TAIL(tqMem, h, n))
  <2>1. PICK m2 : m2 = TAILQ_INSERT_TAIL(m, h, n)  OBVIOUS
  <2>2. PICK t : t = s \o <<n>>  OBVIOUS
  <2>4. Holds(m2, [c EXCEPT ![h] = t])
    BY <1>3, <1>4, <2>1, <2>2, InsertTailIs
  <2>5. PICK x : x = <<"INSERT_TAIL", h, n>>  OBVIOUS
  <2>6. Call(x, m2)  BY <1>1, <1>7, <2>1, <2>5
  <2>7. TqInv' /\ Abstract!Becomes(h, t) /\ Todo = <<>> /\ Todo' = <<>> /\ tqCall' = x
    BY <1>5, <2>4, <2>6
  <2>8. Abstract!Insert(h, n)
    BY <1>2, <1>3, <1>4, <2>2, <2>5, <2>7 DEF Abstract!Insert
  <2> QED BY <2>7, <2>8 DEF Abstract!Next, Abstract!Single
<1>8. ASSUME NEW e \in Elem, Queued(tqMem, h, e)
      PROVE  /\ Abstract!On(h, e) /\ e \in Members(s)
             /\ \E k \in 1..Len(s) : e = s[k] /\ Abstract!Before(s, e) = k - 1
  <2>1. Abstract!On(h, e) /\ e \in Members(s)  BY <1>2, <1>3, <1>8, OnList
  <2>2. PICK k \in 1..Len(s) : e = s[k]  BY <2>1, MemberAt
  <2>3. Abstract!Before(s, s[k]) = k - 1  BY <1>3, BeforeIs
  <2> QED BY <2>1, <2>2, <2>3
<1>9. ASSUME NEW e \in Elem, Queued(tqMem, h, e),
             Call(<<"INSERT_AFTER", h, e, n>>, TAILQ_INSERT_AFTER(tqMem, h, e, n))
      PROVE  TqInv' /\ Abstract!Next
  <2>1. PICK k \in 1..Len(s) : e = s[k] /\ Abstract!Before(s, e) = k - 1  BY <1>8, <1>9
  <2>2. PICK t : t = Abstract!With(s, k, n)  OBVIOUS
  <2>3. k \in 0..Len(s) /\ PutIn(s, k, n, t)  BY <1>3, <2>2, WithIs
  <2>4. e = Place(h, s, k)  BY <1>3, <2>1 DEF Place
  <2>5. PICK m2 : m2 = TAILQ_INSERT_AFTER(m, h, e, n)  OBVIOUS
  <2>6. Holds(m2, [c EXCEPT ![h] = t])  BY <1>3, <1>4, <2>3, <2>4, <2>5, InsertAfterIs
  <2>7. PICK x : x = <<"INSERT_AFTER", h, e, n>>  OBVIOUS
  <2>8. Call(x, m2)  BY <1>1, <1>9, <2>5, <2>7
  <2>9. TqInv' /\ Abstract!Becomes(h, t) /\ Todo = <<>> /\ Todo' = <<>> /\ tqCall' = x
    BY <1>5, <2>6, <2>8
  <2>10. t = Abstract!With(s, Abstract!Before(s, e) + 1, n)
    <3>1. Abstract!Before(s, e) + 1 = k  BY <1>3, <2>1
    <3> QED BY <2>2, <3>1
  <2>11. Abstract!Insert(h, n)
    BY <1>2, <1>3, <1>4, <1>8, <1>9, <2>7, <2>9, <2>10 DEF Abstract!Insert
  <2> QED BY <2>9, <2>11 DEF Abstract!Next, Abstract!Single
<1>10. ASSUME NEW e \in Elem, Queued(tqMem, h, e),
              Call(<<"INSERT_BEFORE", h, e, n>>, TAILQ_INSERT_BEFORE(tqMem, e, n))
       PROVE  TqInv' /\ Abstract!Next
  <2>1. PICK k \in 1..Len(s) : e = s[k] /\ Abstract!Before(s, e) = k - 1  BY <1>8, <1>10
  <2>2. PICK j \in 0..Len(s) : j = k - 1 /\ j < Len(s) /\ e = s[j + 1] /\ Abstract!Before(s, e) = j
    <3>1. k - 1 \in 0..Len(s) /\ k - 1 < Len(s) /\ (k - 1) + 1 = k  BY <1>3
    <3> QED BY <2>1, <3>1
  <2>3. PICK t : t = Abstract!With(s, j, n)  OBVIOUS
  <2>4. PutIn(s, j, n, t)  BY <2>3, WithIs
  <2>5. PICK m2 : m2 = TAILQ_INSERT_BEFORE(m, e, n)  OBVIOUS
  <2>6. Holds(m2, [c EXCEPT ![h] = t])  BY <1>3, <1>4, <2>2, <2>4, <2>5, InsertBeforeIs
  <2>7. PICK x : x = <<"INSERT_BEFORE", h, e, n>>  OBVIOUS
  <2>8. Call(x, m2)  BY <1>1, <1>10, <2>5, <2>7
  <2>9. TqInv' /\ Abstract!Becomes(h, t) /\ Todo = <<>> /\ Todo' = <<>> /\ tqCall' = x
    BY <1>5, <2>6, <2>8
  <2>10. t = Abstract!With(s, Abstract!Before(s, e), n)  BY <2>2, <2>3
  <2>11. Abstract!Insert(h, n)
    BY <1>2, <1>3, <1>4, <1>8, <1>10, <2>7, <2>9, <2>10 DEF Abstract!Insert
  <2> QED BY <2>9, <2>11 DEF Abstract!Next, Abstract!Single
<1>11. ASSUME NEW e \in Elem, Queued(tqMem, h, e),
              Call(<<"REPLACE", h, e, n>>, TAILQ_REPLACE(tqMem, h, e, n))
       PROVE  TqInv' /\ Abstract!Next
  <2>1. PICK k \in 1..Len(s) : e = s[k]  BY <1>8, <1>11
  <2>2. PICK u : u = Replaced(s, e, n)  OBVIOUS
  <2>3. n \notin Members(s)  BY <1>3, <1>4 DEF OnNoList
  <2>4. PICK t \in Seq(Elem) : \E j \in 0..Len(t) :
           /\ NoDuplicates(t) /\ e \notin Members(t) /\ n \notin Members(t)
           /\ PutIn(t, j, e, s) /\ PutIn(t, j, n, u)
    BY <1>3, <2>1, <2>2, <2>3, ReplacedIs
  <2>5. PICK j \in 0..Len(t) :
           /\ NoDuplicates(t) /\ e \notin Members(t) /\ n \notin Members(t)
           /\ PutIn(t, j, e, s) /\ PutIn(t, j, n, u)
    BY <2>4
  <2>6. PICK m2 : m2 = TAILQ_REPLACE(m, h, e, n)  OBVIOUS
  <2>7. Holds(m2, [c EXCEPT ![h] = u])  BY <1>3, <1>4, <2>5, <2>6, ReplaceIs
  <2>8. PICK x : x = <<"REPLACE", h, e, n>>  OBVIOUS
  <2>9. Call(x, m2)  BY <1>1, <1>11, <2>6, <2>8
  <2>10. TqInv' /\ Abstract!Becomes(h, u) /\ Todo = <<>> /\ Todo' = <<>> /\ tqCall' = x
    BY <1>5, <2>7, <2>9
  <2>11. Abstract!Replace(h, e, n)
    BY <1>2, <1>3, <1>4, <1>8, <1>11, <2>2, <2>8, <2>10 DEF Abstract!Replace, Replaced
  <2> QED BY <2>10, <2>11 DEF Abstract!Next, Abstract!Single
<1> QED BY <1>6, <1>7, <1>9, <1>10, <1>11 DEF TqInsert

LEMMA TqRemoveStep ==
    ASSUME TqInv, NEW h \in TailqHeads, NEW n \in Elem, TqRemove(h, n)
    PROVE  TqInv' /\ Abstract!Next
<1>1. PICK m : m = tqMem  OBVIOUS
<1>2. PICK c : c = Content  OBVIOUS
<1>3. PICK s \in Seq(Elem) : s = c[h] /\ NoDuplicates(s) /\ Len(s) \in Nat
  BY <1>2, OnList, MemberAt
<1>4. Holds(m, c) /\ Abstract!On(h, n) /\ n \in Members(s)
  BY <1>1, <1>2, <1>3, OnList DEF TqInv, TqRemove
<1>5. PICK j \in 0..(Len(s) - 1) : n = s[j + 1]
  <2>1. PICK k \in 1..Len(s) : s[k] = n  BY <1>4, MemberAt
  <2>2. k - 1 \in 0..(Len(s) - 1) /\ (k - 1) + 1 = k  BY <1>3
  <2> QED BY <2>1, <2>2
<1>6. PICK t : t = Abstract!Without(s, n)  OBVIOUS
<1>7. /\ t \in Seq(Elem) /\ PutIn(t, j, n, s) /\ j \in 0..Len(t)
      /\ NoDuplicates(t) /\ n \notin Members(t)
  <2>1. NoDuplicates(s) /\ s \in Seq(Elem) /\ n = s[j + 1] /\ t = Abstract!Without(s, n)
    BY <1>3, <1>5, <1>6
  <2> QED BY <2>1, WithoutIs
<1>8. PICK m2 : m2 = TAILQ_REMOVE(m, h, n)  OBVIOUS
<1>9. PICK d : d = [c EXCEPT ![h] = t]  OBVIOUS
<1>10. Holds(m2, d)  BY <1>3, <1>4, <1>7, <1>8, <1>9, RemoveIs
<1>11. ASSUME NEW x, Call(x, m2)
       PROVE  TqInv' /\ Abstract!Becomes(h, t) /\ Todo = <<>> /\ Todo' = <<>> /\ tqCall' = x
  <2>1. TqInv' /\ Content' = d /\ Todo = <<>> /\ Todo' = <<>> /\ tqCall' = x
    BY <1>10, <1>11, CallDone
  <2> QED BY <1>2, <1>9, <2>1 DEF Abstract!Becomes
<1>12. CASE Call(<<"REMOVE", h, n>>, TAILQ_REMOVE(tqMem, h, n))
  <2>1. PICK x : x = <<"REMOVE", h, n>>  OBVIOUS
  <2>2. Call(x, m2)  BY <1>1, <1>8, <1>12, <2>1
  <2>3. TqInv' /\ Abstract!Becomes(h, t) /\ Todo = <<>> /\ Todo' = <<>> /\ tqCall' = x
    BY <1>11, <2>2
  <2>4. Abstract!Remove(h, n)  BY <1>2, <1>3, <1>4, <1>6, <2>1, <2>3 DEF Abstract!Remove
  <2> QED BY <2>3, <2>4 DEF Abstract!Next, Abstract!Single
<1>13. CASE n = TAILQ_FIRST(tqMem, h) /\ Call(<<"REMOVE_HEAD", h>>, TAILQ_REMOVE(tqMem, h, n))
  <2>1. PICK x : x = <<"REMOVE_HEAD", h>>  OBVIOUS
  <2>2. Call(x, m2)  BY <1>1, <1>8, <1>13, <2>1
  <2>3. TqInv' /\ Abstract!Becomes(h, t) /\ Todo = <<>> /\ Todo' = <<>> /\ tqCall' = x
    BY <1>11, <2>2
  <2>4. n = s[1]
    <3>1. 0 \in 0..Len(s) /\ h = Place(h, s, 0) /\ 0 < Len(s) /\ 0 + 1 = 1
      BY <1>3, <1>5 DEF Place
    <3>2. m.next[h] = s[0 + 1]  BY <1>3, <1>4, <3>1, Around
    <3> QED BY <1>1, <1>13, <3>1, <3>2 DEF TAILQ_FIRST
  <2>5. Abstract!Remove(h, n)
    BY <1>2, <1>3, <1>4, <1>6, <2>1, <2>3, <2>4 DEF Abstract!Remove
  <2> QED BY <2>3, <2>5 DEF Abstract!Next, Abstract!Single
<1> QED BY <1>12, <1>13 DEF TqRemove

LEMMA TqJoinStep ==
    ASSUME TqInv, NEW g \in TailqHeads, NEW h \in TailqHeads, TqJoin(g, h)
    PROVE  TqInv' /\ Abstract!Next
<1>1. PICK m : m = tqMem  OBVIOUS
<1>2. PICK c : c = Content  OBVIOUS
<1>3. Holds(m, c) /\ g # h /\ c \in [TailqHeads -> Seq(Elem)]
  BY <1>1, <1>2 DEF TqInv, TqJoin, Holds, Well, TailqLists
<1>4. CASE Call(<<"CONCAT", g, h>>, TAILQ_CONCAT(tqMem, g, h))
  <2>1. PICK x : x = <<"CONCAT", g, h>>  OBVIOUS
  <2>2. PICK m2 : m2 = TAILQ_CONCAT(m, g, h)  OBVIOUS
  <2>3. PICK d : d = [c EXCEPT ![g] = c[g] \o c[h], ![h] = <<>>]  OBVIOUS
  <2>4. Call(x, m2)  BY <1>1, <1>4, <2>1, <2>2
  <2>5. Holds(m2, d)  BY <1>3, <2>2, <2>3, ConcatIs
  <2>6. TqInv' /\ Content' = d /\ Todo = <<>> /\ Todo' = <<>> /\ tqCall' = x
    BY <2>4, <2>5, CallDone
  <2>7. Abstract!Concat(g, h)  BY <1>2, <2>1, <2>3, <2>6 DEF Abstract!Concat
  <2> QED BY <1>3, <2>6, <2>7 DEF Abstract!Next, Abstract!Single
<1>5. CASE Call(<<"SWAP", g, h>>, TAILQ_SWAP(tqMem, g, h))
  <2>1. PICK x : x = <<"SWAP", g, h>>  OBVIOUS
  <2>2. PICK m2 : m2 = TAILQ_SWAP(m, g, h)  OBVIOUS
  <2>3. PICK d : d = [c EXCEPT ![g] = c[h], ![h] = c[g]]  OBVIOUS
  <2>4. Call(x, m2)  BY <1>1, <1>5, <2>1, <2>2
  <2>5. Holds(m2, d)  BY <1>3, <2>2, <2>3, SwapIs
  <2>6. TqInv' /\ Content' = d /\ Todo = <<>> /\ Todo' = <<>> /\ tqCall' = x
    BY <2>4, <2>5, CallDone
  <2>7. Abstract!Swap(g, h)  BY <1>2, <2>1, <2>3, <2>6 DEF Abstract!Swap
  <2> QED BY <1>3, <2>6, <2>7 DEF Abstract!Next, Abstract!Single
<1> QED BY <1>4, <1>5 DEF TqJoin

(* A loop goes on at place k of the list of h,                             *)
LEMMA LoopGoesOn ==
    ASSUME NEW m, m = tqMem', NEW d, Holds(m, d), NEW h \in TailqHeads, NEW reverse \in BOOLEAN,
           NEW s \in Seq(Elem), s = d[h], NEW k \in 1..Len(s),
           tqLoop' = LoopAt(m, reverse, h, s[k])
    PROVE  TqInv' /\ Content' = d /\ Todo' = Ahead(s, reverse, k)
<1>1. [e \in TailqHeads |-> TailqElements(m, e)] = d  BY ContentIs
<1>2. Content' = d  BY <1>1 DEF Content
<1>3. PICK l : l = tqLoop'  OBVIOUS
<1>4. LoopRight(m, d, l)  BY <1>3 DEF LoopRight
<1>5. TqInv'  BY <1>2, <1>3, <1>4 DEF TqInv
<1>6. Chain(Ways(m, l.reverse), l.var, Cardinality(Elem) + 1) = Ahead(s, reverse, k)
  BY <1>3, LoopIs
<1>7. Todo' = Ahead(s, reverse, k)  BY <1>3, <1>6 DEF Todo
<1> QED BY <1>2, <1>5, <1>7

(* or ends.                                                                *)
LEMMA LoopEnds ==
    ASSUME NEW m, m = tqMem', NEW d, Holds(m, d), tqLoop' = NoLoop
    PROVE  TqInv' /\ Content' = d /\ Todo' = <<>>
<1>1. [e \in TailqHeads |-> TailqElements(m, e)] = d  BY ContentIs
<1>2. Content' = d  BY <1>1 DEF Content
<1>3. TqInv'  BY <1>2 DEF TqInv, LoopRight
<1>4. Todo' = <<>>
  <2>1. tqLoop'.var = NULL /\ tqLoop'.reverse = FALSE  BY DEF NoLoop
  <2>2. Chain(Ways(m, FALSE), NULL, Cardinality(Elem) + 1) = <<>>  BY NoneLeft
  <2> QED BY <2>1, <2>2 DEF Todo
<1> QED BY <1>2, <1>3, <1>4

LEMMA TqForeachStep ==
    ASSUME TqInv, NEW h \in TailqHeads, TqForeach(h)
    PROVE  TqInv' /\ Abstract!Next
<1>1. PICK m : m = tqMem /\ m = tqMem'  BY DEF TqForeach
<1>2. PICK c : c = Content  OBVIOUS
<1>3. PICK s \in Seq(Elem) : s = c[h] /\ Len(s) \in Nat /\ DOMAIN s = 1..Len(s)
  <2>1. c[h] \in Seq(Elem)  BY <1>2 DEF TqInv, Holds, Well, TailqLists
  <2> QED BY <2>1, MemberAt
<1>4. Holds(m, c)  BY <1>1, <1>2 DEF TqInv
<1>5. Todo = <<>>  BY NothingLeft DEF TqForeach
<1>6. ASSUME NEW k \in 1..Len(s), NEW reverse \in BOOLEAN, tqLoop' = LoopAt(m, reverse, h, s[k])
      PROVE  TqInv' /\ Content' = c /\ Todo' = Ahead(s, reverse, k)
  BY <1>1, <1>3, <1>4, <1>6, LoopGoesOn
<1>7. ASSUME tqLoop' = NoLoop  PROVE TqInv' /\ Content' = c /\ Todo' = <<>>
  BY <1>1, <1>4, <1>7, LoopEnds
<1>8. \A k \in 1..Len(s) :
         /\ SubSeq(s, k, Len(s)) = Ahead(s, FALSE, k)
         /\ Abstract!Reversed(SubSeq(s, 1, k)) = Ahead(s, TRUE, k)
         /\ k = 1 => s = Ahead(s, FALSE, k)
         /\ k = Len(s) => Abstract!Reversed(s) = Ahead(s, TRUE, k)
  BY StartsAt
<1>9. CASE tqCall' = <<"FOREACH", h>> /\ tqLoop' = LoopAt(tqMem, FALSE, h, TAILQ_FIRST(tqMem, h))
  <2>1. TqInv' /\ Content' = c /\ Todo' = s
    <3>1. 0 \in 0..Len(s) /\ h = Place(h, s, 0)  BY <1>3 DEF Place
    <3>2. CASE Len(s) = 0
      <4>1. m.next[h] = NULL  BY <1>3, <1>4, <3>1, <3>2, Around
      <4>2. tqLoop' = NoLoop  BY <1>1, <1>9, <4>1 DEF LoopAt, TAILQ_FIRST
      <4>3. s = <<>>  BY <3>2
      <4> QED BY <1>7, <4>2, <4>3
    <3>3. CASE Len(s) # 0
      <4>1. 0 < Len(s) /\ 0 + 1 = 1 /\ 1 \in 1..Len(s)  BY <1>3, <3>3
      <4>2. m.next[h] = s[0 + 1]  BY <1>3, <1>4, <3>1, <4>1, Around
      <4>3. tqLoop' = LoopAt(m, FALSE, h, s[1])  BY <1>1, <1>9, <4>1, <4>2 DEF TAILQ_FIRST
      <4> QED BY <1>6, <1>8, <4>1, <4>3
    <3> QED BY <3>2, <3>3
  <2>2. Abstract!Start(h)  BY <1>2, <1>3, <1>5, <1>9, <2>1 DEF Abstract!Start
  <2> QED BY <2>1, <2>2 DEF Abstract!Next
<1>10. CASE /\ tqCall' = <<"FOREACH_REVERSE", h>>
            /\ tqLoop' = LoopAt(tqMem, TRUE, h, TAILQ_LAST(tqMem, h))
  <2>1. TqInv' /\ Content' = c /\ Todo' = Abstract!Reversed(s)
    <3>1. TAILQ_LAST(m, h) = IF Len(s) = 0 THEN NULL ELSE s[Len(s)]
      BY <1>3, <1>4, LookingBack DEF Holds
    <3>2. CASE Len(s) = 0
      <4>1. tqLoop' = NoLoop  BY <1>1, <1>10, <3>1, <3>2 DEF LoopAt
      <4>2. s = <<>>  BY <3>2
      <4>3. Abstract!Reversed(<<>>) = <<>>  BY DEF Abstract!Reversed
      <4> QED BY <1>7, <4>1, <4>2, <4>3
    <3>3. CASE Len(s) # 0
      <4>1. Len(s) \in 1..Len(s)  BY <1>3, <3>3
      <4>2. tqLoop' = LoopAt(m, TRUE, h, s[Len(s)])  BY <1>1, <1>10, <3>1, <3>3
      <4>3. Abstract!Reversed(s) = Ahead(s, TRUE, Len(s))  BY <1>8, <4>1
      <4> QED BY <1>6, <4>1, <4>2, <4>3
    <3> QED BY <3>2, <3>3
  <2>2. Abstract!Start(h)  BY <1>2, <1>3, <1>5, <1>10, <2>1 DEF Abstract!Start
  <2> QED BY <2>1, <2>2 DEF Abstract!Next
<1>11. ASSUME NEW n \in Elem, Queued(tqMem, h, n)  PROVE \E k \in 1..Len(s) : n = s[k]
  <2>1. n \in Members(s)  BY <1>2, <1>3, <1>11, OnList
  <2> QED BY <2>1, MemberAt
<1>12. ASSUME NEW n \in Elem, Queued(tqMem, h, n), tqCall' = <<"FOREACH_FROM", h, n>>,
              tqLoop' = LoopAt(tqMem, FALSE, h, n)
       PROVE  TqInv' /\ Abstract!Next
  <2>1. PICK k \in 1..Len(s) : n = s[k]  BY <1>11, <1>12
  <2>2. TqInv' /\ Content' = c /\ Todo' = SubSeq(s, k, Len(s))
    BY <1>1, <1>6, <1>8, <1>12, <2>1
  <2>3. Abstract!Start(h)  BY <1>2, <1>3, <1>5, <1>12, <2>1, <2>2 DEF Abstract!Start
  <2> QED BY <2>2, <2>3 DEF Abstract!Next
<1>13. ASSUME NEW n \in Elem, Queued(tqMem, h, n), tqCall' = <<"FOREACH_REVERSE_FROM", h, n>>,
              tqLoop' = LoopAt(tqMem, TRUE, h, n)
       PROVE  TqInv' /\ Abstract!Next
  <2>1. PICK k \in 1..Len(s) : n = s[k]  BY <1>11, <1>13
  <2>2. TqInv' /\ Content' = c /\ Todo' = Abstract!Reversed(SubSeq(s, 1, k))
    BY <1>1, <1>6, <1>8, <1>13, <2>1
  <2>3. Abstract!Start(h)  BY <1>2, <1>3, <1>5, <1>13, <2>1, <2>2 DEF Abstract!Start
  <2> QED BY <2>2, <2>3 DEF Abstract!Next
<1> QED BY <1>9, <1>10, <1>12, <1>13 DEF TqForeach

(* Moving an element from one list to the head of another                  *)
LEMMA MovedIs ==
    ASSUME NEW m, NEW c, Holds(m, c), NEW g \in TailqHeads, NEW h \in TailqHeads, g # h,
           NEW n \in Elem, NEW t \in Seq(Elem), NoDuplicates(t), n \notin Members(t),
           NEW j \in 0..Len(t), PutIn(t, j, n, c[h])
    PROVE  Holds(Moved(m, h, n, g), [c EXCEPT ![h] = t, ![g] = <<n>> \o c[g]])
<1>1. PICK d : d = [c EXCEPT ![h] = t]  OBVIOUS
<1>2. PICK m1 : m1 = TAILQ_REMOVE(m, h, n)  OBVIOUS
<1>3. Holds(m1, d) /\ OnNoList(d, n)
  <2>1. Holds(m1, [c EXCEPT ![h] = t]) /\ OnNoList([c EXCEPT ![h] = t], n)  BY <1>2, RemoveIs
  <2> QED BY <1>1, <2>1
<1>4. c \in [TailqHeads -> Seq(Elem)]  BY DEF Holds, Well, TailqLists
<1>5. PICK s \in Seq(Elem) : s = c[g] /\ s = d[g]  BY <1>1, <1>4
<1>6. PICK u : u = <<n>> \o s /\ PutIn(s, 0, n, u) /\ 0 \in 0..Len(s)  BY HeadAndEnd
<1>7. g = Place(g, d[g], 0)  BY DEF Place
<1>8. Holds(TAILQ_INSERT_AFTER(m1, g, g, n), [d EXCEPT ![g] = u])
  BY <1>3, <1>5, <1>6, <1>7, InsertAfterIs
<1>9. Moved(m, h, n, g) = TAILQ_INSERT_AFTER(m1, g, g, n)
  BY <1>2 DEF Moved, TAILQ_INSERT_HEAD
<1>10. [d EXCEPT ![g] = u] = [c EXCEPT ![h] = t, ![g] = <<n>> \o c[g]]
  BY <1>1, <1>5, <1>6
<1> QED BY <1>8, <1>9, <1>10

LEMMA IterateStep ==
    ASSUME TqInv, Iterate
    PROVE  TqInv' /\ Abstract!Next
<1>1. PICK m : m = tqMem  OBVIOUS
<1>2. PICK c : c = Content  OBVIOUS
<1>3. PICK l : l = tqLoop  OBVIOUS
<1>4. Holds(m, c) /\ LoopRight(m, c, l) /\ l # NoLoop  BY <1>1, <1>2, <1>3 DEF TqInv, Iterate
<1>5. PICK h \in TailqHeads, reverse \in BOOLEAN : \E k \in 1..Len(c[h]) :
         l = LoopAt(m, reverse, h, c[h][k])
  BY <1>4 DEF LoopRight
<1>6. PICK s \in Seq(Elem) : s = c[h] /\ NoDuplicates(s) /\ Len(s) \in Nat
  <2>1. c[h] \in Seq(Elem) /\ NoDuplicates(c[h])  BY <1>4 DEF Holds, Well, TailqLists
  <2> QED BY <2>1, MemberAt
<1>7. PICK k \in 1..Len(s) : l = LoopAt(m, reverse, h, s[k])  BY <1>5, <1>6
<1>8. PICK e \in Int : e = Beyond(k, reverse)  BY <1>6 DEF Beyond
<1>9. PICK v : v = IF e \in 1..Len(s) THEN s[e] ELSE NULL  OBVIOUS
<1>10. /\ l.var = s[k] /\ l.reverse = reverse /\ l.head = h /\ l.tvar = v
       /\ Onward(m, reverse, s[k]) = v
       /\ Chain(Ways(m, l.reverse), l.var, Cardinality(Elem) + 1) = Ahead(s, reverse, k)
  BY <1>4, <1>6, <1>7, <1>8, <1>9, LoopIs
<1>11. PICK a : a = Ahead(s, reverse, k)  OBVIOUS
<1>12. /\ a # <<>> /\ a[1] = s[k]
       /\ Tail(a) = IF e \in 1..Len(s) THEN Ahead(s, reverse, e) ELSE <<>>
  <2>1. /\ Ahead(s, reverse, k) # <<>> /\ Ahead(s, reverse, k)[1] = s[k]
        /\ Tail(Ahead(s, reverse, k)) = IF Beyond(k, reverse) \in 1..Len(s)
                                        THEN Ahead(s, reverse, Beyond(k, reverse)) ELSE <<>>
    <3>1. NoDuplicates(s)  BY <1>6
    <3> QED BY <3>1, AheadSeq
  <2> QED BY <1>8, <1>11, <2>1
<1>13. Todo = a  BY <1>1, <1>3, <1>10, <1>11 DEF Todo
<1>14. PICK n \in Elem : n = s[k]  BY MemberAt
<1>15. tqCall' = <<"visit", n>>  BY <1>3, <1>10, <1>14 DEF Iterate
<1>16. \A m2 : LoopAt(m2, reverse, h, NULL) = NoLoop  BY DEF LoopAt
<1>17. CASE UNCHANGED tqMem /\ tqLoop' = LoopAt(m, reverse, h, v)
  <2>1. TqInv' /\ Content' = c /\ Todo' = Tail(a)
    <3>0. m = tqMem'  BY <1>1, <1>17
    <3>1. CASE e \in 1..Len(s)
      <4>1. v = s[e]  BY <1>9, <3>1
      <4>2. TqInv' /\ Content' = c /\ Todo' = Ahead(s, reverse, e)
        BY <1>4, <1>6, <1>17, <3>0, <3>1, <4>1, LoopGoesOn
      <4> QED BY <1>12, <3>1, <4>2
    <3>2. CASE e \notin 1..Len(s)
      <4>1. tqLoop' = NoLoop  BY <1>9, <1>16, <1>17, <3>2
      <4>2. TqInv' /\ Content' = c /\ Todo' = <<>>  BY <1>4, <3>0, <4>1, LoopEnds
      <4> QED BY <1>12, <3>2, <4>2
    <3> QED BY <3>1, <3>2
  <2>2. Abstract!Iterate
    BY <1>2, <1>12, <1>13, <1>14, <1>15, <2>1 DEF Abstract!Iterate
  <2> QED BY <2>1, <2>2 DEF Abstract!Next
<1>18. ASSUME NEW g \in TailqHeads, g # h, tqMem' = Moved(tqMem, h, n, g),
              tqLoop' = LoopAt(tqMem', reverse, h, v)
       PROVE  TqInv' /\ Abstract!Next
  <2>1. PICK m2 : m2 = Moved(m, h, n, g) /\ m2 = tqMem'  BY <1>1, <1>18
  <2>2. PICK j \in 0..(Len(s) - 1) : j = k - 1 /\ n = s[j + 1]
    <3>1. k - 1 \in 0..(Len(s) - 1) /\ (k - 1) + 1 = k  BY <1>6
    <3> QED BY <1>14, <3>1
  <2>3. PICK t : t = Abstract!Without(s, n)  OBVIOUS
  <2>4. /\ t \in Seq(Elem) /\ PutIn(t, j, n, s) /\ j \in 0..Len(t)
        /\ NoDuplicates(t) /\ n \notin Members(t)
    <3>1. NoDuplicates(s) /\ s \in Seq(Elem) /\ n = s[j + 1] /\ t = Abstract!Without(s, n)
      BY <1>6, <2>2, <2>3
    <3> QED BY <3>1, WithoutIs
  <2>5. PICK d : d = [c EXCEPT ![h] = t, ![g] = <<n>> \o c[g]]  OBVIOUS
  <2>6. Holds(m2, d)
    <3>1. PutIn(t, j, n, c[h])  BY <1>6, <2>4
    <3>2. Holds(Moved(m, h, n, g), [c EXCEPT ![h] = t, ![g] = <<n>> \o c[g]])
      BY <1>4, <1>18, <2>4, <3>1, MovedIs
    <3> QED BY <2>1, <2>5, <3>2
  <2>7. c \in [TailqHeads -> Seq(Elem)] /\ d[h] = t
    <3>1. c \in [TailqHeads -> Seq(Elem)]  BY <1>4 DEF Holds, Well, TailqLists
    <3> QED BY <1>18, <2>5, <3>1
  <2>8. tqLoop' = LoopAt(m2, reverse, h, v)  BY <1>18, <2>1
  <2>9. TqInv' /\ Content' = d /\ Todo' = Tail(a)
    <3>1. CASE e \in 1..Len(s)
      <4>1. v = s[e]  BY <1>9, <3>1
      <4>2. PutIn(t, k - 1, n, s)  BY <2>2, <2>4
      <4>3. PICK f \in 1..Len(t) : t[f] = s[e] /\ Ahead(t, reverse, f) = Ahead(s, reverse, e)
        BY <1>8, <2>4, <3>1, <4>2, AheadWithout
      <4>4. tqLoop' = LoopAt(m2, reverse, h, t[f])  BY <2>8, <4>1, <4>3
      <4>5. TqInv' /\ Content' = d /\ Todo' = Ahead(t, reverse, f)
        <5>1. m2 = tqMem' /\ Holds(m2, d) /\ t \in Seq(Elem) /\ t = d[h]
          BY <2>1, <2>4, <2>6, <2>7
        <5> QED BY <4>4, <5>1, LoopGoesOn
      <4> QED BY <1>12, <3>1, <4>3, <4>5
    <3>2. CASE e \notin 1..Len(s)
      <4>1. tqLoop' = NoLoop  BY <1>9, <1>16, <2>8, <3>2
      <4>2. TqInv' /\ Content' = d /\ Todo' = <<>>  BY <2>1, <2>6, <4>1, LoopEnds
      <4> QED BY <1>12, <3>2, <4>2
    <3> QED BY <3>1, <3>2
  <2>10. Abstract!On(h, n)
    <3>1. n \in Members(s)  BY <1>14, MemberAt
    <3> QED BY <1>2, <1>6, <3>1, OnList
  <2>11. Abstract!Iterate
    <3>1. d = [c EXCEPT ![h] = Abstract!Without(c[h], n), ![g] = <<n>> \o c[g]]
      BY <1>6, <2>3, <2>5
    <3>2. Content' = [Content EXCEPT ![h] = Abstract!Without(@, n), ![g] = <<n>> \o @]
      BY <1>2, <1>18, <2>7, <2>9, <3>1
    <3> QED BY <1>12, <1>13, <1>14, <1>15, <1>18, <2>9, <2>10, <3>2 DEF Abstract!Iterate
  <2> QED BY <2>9, <2>11 DEF Abstract!Next
<1> QED BY <1>1, <1>3, <1>10, <1>14, <1>17, <1>18 DEF Iterate

----------------------------------------------------------------------------
(* Empty heads, each pointing back to itself                               *)
LEMMA TqStart == TqInit => TqInv /\ Abstract!Init
<1> SUFFICES ASSUME TqInit  PROVE TqInv /\ Abstract!Init
  OBVIOUS
<1>1. PICK m : m = tqMem  OBVIOUS
<1>2. PICK c : c = [h \in TailqHeads |-> <<>>]  OBVIOUS
<1>3. /\ \A x \in TailqCell : m.next[x] = NULL /\ m.back[x] = x
      /\ m.next \in [TailqCell -> Elem \cup {NULL}] /\ m.back \in [TailqCell -> TailqCell]
  BY <1>1 DEF TqInit
<1>4. TailqLists(c)
  <2>1. <<>> \in Seq(Elem) /\ NoDuplicates(<<>>) /\ Members(<<>>) = {}
    BY DEF NoDuplicates, Members
  <2>2. c \in [TailqHeads -> Seq(Elem)] /\ \A h \in TailqHeads : c[h] = <<>>  BY <1>2, <2>1
  <2> QED BY <2>1, <2>2 DEF TailqLists
<1>5. \A h \in TailqHeads : Ring(m.next, m.back, h, c[h])
  <2> SUFFICES ASSUME NEW h \in TailqHeads  PROVE Ring(m.next, m.back, h, <<>>)
    BY <1>2
  <2>1. m.next[h] = NULL /\ m.back[h] = h  BY <1>3 DEF TailqCell
  <2> QED BY <2>1, RingEmpty
<1>6. Holds(m, c)  BY <1>3, <1>4, <1>5 DEF Holds, Well
<1>7. Content = c  BY <1>1, <1>6, ContentIs DEF Content
<1>8. TqInv  BY <1>1, <1>6, <1>7 DEF TqInv, TqInit, LoopRight
<1>9. Todo = <<>>  BY <1>8, NothingLeft DEF TqInit
<1> QED BY <1>2, <1>7, <1>8, <1>9 DEF Abstract!Init, TqInit

LEMMA TqStep ==
    ASSUME TqInv, [TqNext]_tqVars
    PROVE  TqInv' /\ [Abstract!Next]_<<Content, Todo, tqCall>>
<1>1. CASE TqNext
  <2>1. TqInv' /\ Abstract!Next
    BY <1>1, TqInsertStep, TqRemoveStep, TqJoinStep, TqForeachStep, IterateStep DEF TqNext
  <2> QED BY <2>1
<1>2. CASE UNCHANGED tqVars
  <2>1. tqMem' = tqMem /\ tqLoop' = tqLoop /\ tqCall' = tqCall  BY <1>2 DEF tqVars
  <2>2. Content' = Content  BY <2>1 DEF Content
  <2>3. Todo' = Todo  BY <2>1 DEF Todo
  <2> QED BY <2>1, <2>2, <2>3 DEF TqInv
<1> QED BY <1>1, <1>2

LEMMA TqSound == TqInv => TailqSound
<1> SUFFICES ASSUME TqInv  PROVE TailqSound
  OBVIOUS
<1>1. PICK m : m = tqMem  OBVIOUS
<1>2. PICK c : c = Content  OBVIOUS
<1>3. Holds(m, c) /\ Well(m.next, m.back, c)  BY <1>1, <1>2 DEF TqInv, Holds
<1>4. \A h \in TailqHeads : TailqElements(tqMem, h) = c[h]
  BY <1>1, <1>3, ElementsAre
<1>5. ASSUME NEW h \in TailqHeads, NEW s \in Seq(Elem), s = c[h], NEW k \in 0..Len(s)
      PROVE  /\ k < Len(s) => /\ m.next[Place(h, s, k)] = s[k + 1]
                              /\ m.back[s[k + 1]] = Place(h, s, k)
                              /\ After(m, h, Place(h, s, k)) = s[k + 1]
             /\ k = Len(s) => /\ m.next[Place(h, s, k)] = NULL /\ m.back[h] = Place(h, s, k)
                              /\ After(m, h, Place(h, s, k)) = h
  BY <1>3, <1>5, Around
<1>6. ASSUME NEW h \in TailqHeads
      PROVE  \E s \in Seq(Elem) : s = c[h] /\ NoDuplicates(s) /\ Len(s) \in Nat
  <2>1. c[h] \in Seq(Elem) /\ NoDuplicates(c[h])  BY <1>3 DEF Well, TailqLists
  <2> QED BY <2>1, MemberAt
<1>7. NeverPanics
  <2> SUFFICES ASSUME NEW h \in TailqHeads
               PROVE  /\ m.back[After(m, h, h)] = h
                      /\ m.next[m.back[h]] = NULL
                      /\ \A n \in Elem : n \in Members(c[h]) =>
                            m.back[After(m, h, n)] = n /\ m.next[m.back[n]] = n
    BY <1>1, <1>4 DEF NeverPanics, Queued
  <2>1. PICK s \in Seq(Elem) : s = c[h] /\ NoDuplicates(s) /\ Len(s) \in Nat  BY <1>6
  <2>2. ASSUME NEW k \in 0..Len(s)
        PROVE  m.back[After(m, h, Place(h, s, k))] = Place(h, s, k)
    <3>1. k < Len(s) \/ k = Len(s)  BY <2>1
    <3> QED BY <1>5, <2>1, <3>1
  <2>3. 0 \in 0..Len(s) /\ Len(s) \in 0..Len(s) /\ Place(h, s, 0) = h  BY <2>1 DEF Place
  <2>4. m.back[After(m, h, h)] = h  BY <2>2, <2>3
  <2>5. m.next[m.back[h]] = NULL  BY <1>5, <2>1, <2>3
  <2>6. ASSUME NEW n \in Elem, n \in Members(s)
        PROVE  m.back[After(m, h, n)] = n /\ m.next[m.back[n]] = n
    <3>1. PICK k \in 1..Len(s) : n = s[k]  BY <2>6, MemberAt
    <3>2. /\ k \in 0..Len(s) /\ Place(h, s, k) = n
          /\ k - 1 \in 0..Len(s) /\ k - 1 < Len(s) /\ (k - 1) + 1 = k
      BY <2>1, <3>1 DEF Place
    <3>3. m.back[After(m, h, n)] = n  BY <2>2, <3>2
    <3>4. m.next[Place(h, s, k - 1)] = s[(k - 1) + 1] /\ m.back[s[(k - 1) + 1]] = Place(h, s, k - 1)
      BY <1>5, <2>1, <3>2
    <3> QED BY <3>1, <3>2, <3>3, <3>4
  <2> QED BY <2>1, <2>4, <2>5, <2>6
<1>8. BothWays
  <2>1. \A g, h \in TailqHeads : g # h => Members(c[g]) \cap Members(c[h]) = {}
    BY <1>3 DEF Well, TailqLists
  <2>2. ASSUME NEW h \in TailqHeads, NEW s, s = c[h]
        PROVE  /\ Len(s) <= Cardinality(Elem)
               /\ TAILQ_LAST(m, h) = TAILQ_LAST_FAST(m, h)
               /\ TAILQ_LAST(m, h) = IF s = <<>> THEN NULL ELSE s[Len(s)]
               /\ \A i \in DOMAIN s :
                     /\ TAILQ_PREV(m, s[i]) = TAILQ_PREV_FAST(m, s[i])
                     /\ TAILQ_PREV(m, s[i]) = IF i = 1 THEN NULL ELSE s[i - 1]
    <3>1. s \in Seq(Elem) /\ NoDuplicates(s)  BY <1>6, <2>2
    <3>2. Len(s) <= Cardinality(Elem)  BY <3>1, NotLonger
    <3>3. DOMAIN s = 1..Len(s) /\ (s = <<>> <=> Len(s) = 0)  BY <3>1
    <3>4. /\ TAILQ_LAST(m, h) = IF Len(s) = 0 THEN NULL ELSE s[Len(s)]
          /\ TAILQ_LAST_FAST(m, h) = IF Len(s) = 0 THEN NULL ELSE s[Len(s)]
          /\ \A i \in 1..Len(s) :
                /\ TAILQ_PREV(m, s[i]) = IF i = 1 THEN NULL ELSE s[i - 1]
                /\ TAILQ_PREV_FAST(m, s[i]) = IF i = 1 THEN NULL ELSE s[i - 1]
      BY <1>3, <2>2, <3>1, LookingBack
    <3> QED BY <3>2, <3>3, <3>4
  <2>3. \A h \in TailqHeads :
          LET s == TailqElements(tqMem, h) IN
          /\ Len(s) <= Cardinality(Elem)
          /\ TAILQ_LAST(tqMem, h) = TAILQ_LAST_FAST(tqMem, h)
          /\ TAILQ_LAST(tqMem, h) = IF s = <<>> THEN NULL ELSE s[Len(s)]
          /\ \A i \in DOMAIN s :
                /\ TAILQ_PREV(tqMem, s[i]) = TAILQ_PREV_FAST(tqMem, s[i])
                /\ TAILQ_PREV(tqMem, s[i]) = IF i = 1 THEN NULL ELSE s[i - 1]
    BY <1>1, <1>4, <2>2
  <2> QED BY <1>4, <2>1, <2>3 DEF BothWays
<1> QED BY <1>7, <1>8 DEF TailqSound

(* Whatever calls are made in whatever order, also by the bodies of loops, *)
(* the tail queues stay linked as the macros take for granted: no check of *)
(* QMD_TAILQ_CHECK panics, no element is on two lists or twice on one, and *)
(* PREV and LAST find the same elements in both ways of reading them.      *)
THEOREM TailqsStaySound == TqSpec => []TailqSound
<1>1. TqInit => TqInv  BY TqStart
<1>2. TqInv /\ [TqNext]_tqVars => TqInv'  BY TqStep
<1>3. TqInv => TailqSound  BY TqSound
<1> QED BY <1>1, <1>2, <1>3, PTL DEF TqSpec

(* Every macro does to the sequence of elements what QueueSpec says, and a *)
(* loop visits each element once, also a _SAFE one that moves them away.   *)
THEOREM ImplementsQueue == TqSpec => TailqCalls
<1>1. TqInit => TqInv /\ Abstract!Init  BY TqStart
<1>2. TqInv /\ [TqNext]_tqVars => TqInv' /\ [Abstract!Next]_<<Content, Todo, tqCall>>
  BY TqStep
<1> QED BY <1>1, <1>2, PTL DEF TqSpec, TailqCalls, Abstract!Spec
=============================================================================
