---------------------------- MODULE MemoryProofs ----------------------------
(***************************************************************************)
(* What the linked structures in memory keep, for any number of nodes,     *)
(* lists, readers, objects and threads: the lists of ck_queue.h that are   *)
(* read without a lock (CkQueue), the doubly linked lists of the tutorial  *)
(* (Dll) and the tracked reference counts of ZFS (Refcount).               *)
(***************************************************************************)
EXTENDS CkQueue, Dll, Refcount,
        SequenceTheorems, FiniteSetTheorems, WellFoundedInduction, TLAPS

(* Induction over the numbers, for a set instead of a predicate.           *)
LEMMA InductNat ==
    ASSUME NEW S, 0 \in S, \A n \in Nat : n \in S => n + 1 \in S
    PROVE  Nat \subseteq S
<1> DEFINE T == Nat \ S
           R == OpToRel(<, Nat)
<1> SUFFICES ASSUME T # {} PROVE FALSE  OBVIOUS
<1>1. \A x, y \in Nat : y < x => <<y, x>> \in R  BY DEF OpToRel
<1>2. IsWellFoundedOn(R, Nat)  BY NatLessThanWellFounded
<1> HIDE DEF R
<1>3. PICK x \in T : \A y \in T : ~ (<<y, x>> \in R)  BY <1>2, WFMin
<1>4. x \in Nat /\ x # 0  OBVIOUS
<1>5. x - 1 \in Nat /\ x - 1 < x /\ (x - 1) + 1 = x  BY <1>4
<1>6. x - 1 \notin T  BY <1>1, <1>3, <1>4, <1>5
<1> QED BY <1>3, <1>5, <1>6

(* The cell after n more links, as the recursion of Chain has it.          *)
Follow(link, c) == IF c = NULL THEN NULL ELSE link[c]
Walk(f, link, first, max) ==
    f = [k \in 1..max |-> IF k = 1 THEN first ELSE Follow(link, f[k - 1])]

(* Where a walk ends, and what it has met until there                      *)
Ends(f, n, max) == (n > 0 => f[n] # NULL) /\ (n < max => f[n + 1] = NULL)
FirstOf(f, n) == [k \in 1..n |-> f[k]]

(* The recursion of Chain has a solution.                                  *)
LEMMA ChainUnfolds ==
    ASSUME NEW link, NEW first, NEW max \in Nat
    PROVE  \E f : /\ Walk(f, link, first, max)
                  /\ \E n \in 0..max : Ends(f, n, max) /\ Chain(link, first, max) = FirstOf(f, n)
<1> DEFINE Body(f, k) == IF k = 1 THEN first ELSE Follow(link, f[k - 1])
           Fits(f, m) == f = [k \in 1..m |-> Body(f, k)]
           Sizes == {m \in Nat : \E f : Fits(f, m)}
<1>1. 0 \in Sizes
  <2> DEFINE f == [k \in 1..0 |-> first]
  <2>1. Fits(f, 0)  OBVIOUS
  <2> QED BY <2>1
<1>2. ASSUME NEW m \in Nat, m \in Sizes  PROVE m + 1 \in Sizes
  <2>1. PICK f : Fits(f, m)  BY <1>2
  <2> DEFINE g == [k \in 1..(m + 1) |-> IF k <= m THEN f[k] ELSE Body(f, m + 1)]
  <2>2. \A k \in 1..m : f[k] = Body(f, k)  BY <2>1
  <2>3. \A k \in 1..(m + 1) : g[k] = Body(g, k)
    <3> SUFFICES ASSUME NEW k \in 1..(m + 1)  PROVE g[k] = Body(g, k)
      OBVIOUS
    <3>1. k # 1 => k - 1 \in 1..(m + 1) /\ k - 1 <= m  OBVIOUS
    <3>2. Body(g, k) = Body(f, k)  BY <3>1
    <3>3. CASE k <= m  BY <2>2, <3>2, <3>3
    <3>4. CASE k = m + 1  BY <3>2, <3>4
    <3> QED BY <3>3, <3>4
  <2> HIDE DEF Body
  <2>4. g = [k \in 1..(m + 1) |-> Body(g, k)]  BY <2>3
  <2> HIDE DEF g
  <2>5. Fits(g, m + 1)  BY <2>4
  <2> QED BY <2>5
<1>3. max \in Sizes
  <2> HIDE DEF Sizes
  <2> QED BY <1>1, <1>2, InductNat
<1>4. \E f : Fits(f, max)  BY <1>3
<1> DEFINE F == CHOOSE f : Fits(f, max)
           n == CHOOSE m \in 0..max : Ends(F, m, max)
<1>5. Fits(F, max)  BY <1>4
<1>6. \E m \in 0..max : Ends(F, m, max)
  <2> DEFINE Before == {m \in Nat : m <= max =>
                          \/ \E j \in 0..m : Ends(F, j, max)
                          \/ m > 0 => F[m] # NULL}
  <2>1. 0 \in Before  OBVIOUS
  <2>2. ASSUME NEW m \in Nat, m \in Before  PROVE m + 1 \in Before
    <3> SUFFICES ASSUME m + 1 <= max  PROVE \/ \E j \in 0..(m + 1) : Ends(F, j, max)
                                            \/ F[m + 1] # NULL
      OBVIOUS
    <3>1. CASE \E j \in 0..m : Ends(F, j, max)
      <4> HIDE DEF F
      <4> QED BY <3>1
    <3>2. CASE (m > 0 => F[m] # NULL) /\ F[m + 1] = NULL
      <4>1. Ends(F, m, max)  BY <3>2 DEF Ends
      <4>2. m \in 0..(m + 1)  OBVIOUS
      <4> HIDE DEF F
      <4> QED BY <4>1, <4>2
    <3> QED BY <2>2, <3>1, <3>2
  <2>3. max \in Before
    <3> HIDE DEF Before
    <3> QED BY <2>1, <2>2, InductNat
  <2>4. CASE max > 0 => F[max] # NULL
    <3>1. Ends(F, max, max)  BY <2>4 DEF Ends
    <3> HIDE DEF F
    <3> QED BY <3>1
  <2> QED BY <2>3, <2>4
<1>7. n \in 0..max /\ Ends(F, n, max)
  <2> HIDE DEF F
  <2> QED BY <1>6
<1>8. Chain(link, first, max) = FirstOf(F, n)  BY DEF Chain, Follow, Ends, FirstOf
<1>9. Walk(F, link, first, max)  BY <1>5 DEF Walk
<1> HIDE DEF F, n
<1> QED BY <1>7, <1>8, <1>9

(* What Chain returns follows the links, to their end or to its bound.     *)
LEMMA ChainFollows ==
    ASSUME NEW S, NULL \notin S, NEW link, NEW first \in S \cup {NULL}, NEW max \in Nat,
           \A x \in S : link[x] \in S \cup {NULL}
    PROVE  LET s == Chain(link, first, max)
           IN  /\ s \in Seq(S) /\ Len(s) \in Nat /\ Len(s) <= max
               /\ s # <<>> => s[1] = first
               /\ \A k \in 1..(Len(s) - 1) : link[s[k]] = s[k + 1]
               /\ Len(s) < max => IF s = <<>> THEN first = NULL ELSE link[s[Len(s)]] = NULL
<1>0. PICK f : /\ Walk(f, link, first, max)
               /\ \E n \in 0..max : Ends(f, n, max) /\ Chain(link, first, max) = FirstOf(f, n)
  BY ChainUnfolds
<1>1. PICK n \in 0..max :
         /\ Walk(f, link, first, max) /\ Ends(f, n, max)
         /\ Chain(link, first, max) = FirstOf(f, n)
  BY <1>0
<1>2. \A k \in 1..max : f[k] = IF k = 1 THEN first ELSE Follow(link, f[k - 1])
  BY <1>1 DEF Walk
<1>3. ASSUME NEW k \in 1..max, k + 1 \in 1..max  PROVE f[k + 1] = Follow(link, f[k])
  <2>1. k + 1 # 1 /\ (k + 1) - 1 = k  OBVIOUS
  <2> QED BY <1>2, <1>3, <2>1
<1>4. \A k \in 1..max : f[k] \in S \cup {NULL}
  <2> DEFINE T == {k \in Nat : k + 1 <= max => f[k + 1] \in S \cup {NULL}}
  <2>1. 0 \in T  BY <1>2
  <2>2. ASSUME NEW k \in Nat, k \in T  PROVE k + 1 \in T
    <3> SUFFICES ASSUME (k + 1) + 1 <= max  PROVE f[(k + 1) + 1] \in S \cup {NULL}
      OBVIOUS
    <3>1. k + 1 \in 1..max /\ (k + 1) + 1 \in 1..max /\ k + 1 <= max  OBVIOUS
    <3>2. f[k + 1] \in S \cup {NULL}  BY <2>2, <3>1
    <3>3. f[(k + 1) + 1] = Follow(link, f[k + 1])  BY <1>3, <3>1
    <3> QED BY <3>2, <3>3 DEF Follow
  <2>3. Nat \subseteq T
    <3> HIDE DEF T
    <3> QED BY <2>1, <2>2, InductNat
  <2> SUFFICES ASSUME NEW k \in 1..max  PROVE f[k] \in S \cup {NULL}
    OBVIOUS
  <2>4. k - 1 \in Nat /\ (k - 1) + 1 = k /\ k <= max  OBVIOUS
  <2>5. k - 1 \in T  BY <2>3, <2>4
  <2> QED BY <2>4, <2>5
<1>5. \A k \in 1..n : f[k] # NULL
  <2> DEFINE T == {j \in Nat : j < n => f[n - j] # NULL}
  <2>1. 0 \in T  BY <1>1 DEF Ends
  <2>2. ASSUME NEW j \in Nat, j \in T  PROVE j + 1 \in T
    <3> SUFFICES ASSUME j + 1 < n, f[n - (j + 1)] = NULL  PROVE FALSE
      OBVIOUS
    <3>1. PICK k : k = n - (j + 1)  OBVIOUS
    <3>2. k \in 1..max /\ k + 1 \in 1..max /\ k + 1 = n - j /\ j < n  BY <3>1
    <3>3. f[k] = NULL  BY <3>1
    <3>4. f[k + 1] = NULL  BY <1>3, <3>2, <3>3 DEF Follow
    <3>5. f[n - j] # NULL  BY <2>2, <3>2
    <3> QED BY <3>2, <3>4, <3>5
  <2>3. Nat \subseteq T
    <3> HIDE DEF T
    <3> QED BY <2>1, <2>2, InductNat
  <2> SUFFICES ASSUME NEW k \in 1..n  PROVE f[k] # NULL
    OBVIOUS
  <2>4. n - k \in Nat /\ n - k < n /\ n - (n - k) = k  OBVIOUS
  <2>5. n - k \in T  BY <2>3, <2>4
  <2> QED BY <2>4, <2>5
<1>6. PICK s : s = Chain(link, first, max)  OBVIOUS
<1>7. /\ s \in Seq(S) /\ Len(s) = n /\ (s # <<>> <=> n # 0)
      /\ \A k \in 1..n : s[k] = f[k] /\ s[k] \in S
  <2>1. \A k \in 1..n : k \in 1..max /\ f[k] \in S  BY <1>4, <1>5
  <2> QED BY <1>1, <1>6, <2>1 DEF FirstOf
<1>8. s # <<>> => s[1] = first
  <2>1. n # 0 => 1 \in 1..n /\ 1 \in 1..max  OBVIOUS
  <2> QED BY <1>2, <1>7, <2>1
<1>9. ASSUME NEW k \in 1..(Len(s) - 1)  PROVE link[s[k]] = s[k + 1]
  <2>1. k \in 1..n /\ k + 1 \in 1..n /\ k \in 1..max /\ k + 1 \in 1..max  BY <1>7
  <2> QED BY <1>3, <1>5, <1>7, <2>1 DEF Follow
<1>10. Len(s) < max => IF s = <<>> THEN first = NULL ELSE link[s[Len(s)]] = NULL
  <2> SUFFICES ASSUME n < max  PROVE IF s = <<>> THEN first = NULL ELSE link[s[n]] = NULL
    BY <1>7
  <2>1. f[n + 1] = NULL /\ n + 1 \in 1..max  BY <1>1 DEF Ends
  <2>2. CASE n = 0  BY <1>2, <1>7, <2>1, <2>2
  <2>3. CASE n # 0
    <3>1. n \in 1..n /\ n \in 1..max  BY <2>3
    <3> QED BY <1>3, <1>5, <1>7, <2>1, <3>1 DEF Follow
  <2> QED BY <2>2, <2>3
<1> QED BY <1>6, <1>7, <1>8, <1>9, <1>10

(* s is the cells from first on.                                           *)
Path(link, first, s) ==
    IF s = <<>> THEN first = NULL
    ELSE /\ s[1] = first /\ link[s[Len(s)]] = NULL
         /\ \A k \in 1..(Len(s) - 1) : link[s[k]] = s[k + 1]

(* Then it is what Chain returns.                                          *)
LEMMA ChainIs ==
    ASSUME NEW S, NULL \notin S, NEW link, NEW first \in S \cup {NULL}, NEW max \in Nat,
           \A x \in S : link[x] \in S \cup {NULL},
           NEW s \in Seq(S), Len(s) < max, Path(link, first, s)
    PROVE  Chain(link, first, max) = s
<1>1. PICK t : t = Chain(link, first, max)  OBVIOUS
<1>2. /\ t \in Seq(S) /\ Len(t) \in Nat /\ Len(t) <= max
      /\ t # <<>> => t[1] = first
      /\ \A k \in 1..(Len(t) - 1) : link[t[k]] = t[k + 1]
      /\ Len(t) < max => IF t = <<>> THEN first = NULL ELSE link[t[Len(t)]] = NULL
  <2>1. LET u == Chain(link, first, max)
        IN  /\ u \in Seq(S) /\ Len(u) \in Nat /\ Len(u) <= max
            /\ u # <<>> => u[1] = first
            /\ \A k \in 1..(Len(u) - 1) : link[u[k]] = u[k + 1]
            /\ Len(u) < max => IF u = <<>> THEN first = NULL ELSE link[u[Len(u)]] = NULL
    BY ChainFollows
  <2> QED BY <1>1, <2>1
<1>3. Len(s) \in Nat /\ (s = <<>> <=> Len(s) = 0) /\ (t = <<>> <=> Len(t) = 0)
  BY <1>2
<1>4. /\ \A k \in 1..Len(s) : s[k] \in S
      /\ \A k \in 1..Len(t) : t[k] \in S
  BY <1>2
<1> DEFINE Same == {k \in Nat : k + 1 <= Len(s) /\ k + 1 <= Len(t) => s[k + 1] = t[k + 1]}
<1>5. 0 \in Same  BY <1>2, <1>3 DEF Path
<1>6. ASSUME NEW k \in Nat, k \in Same  PROVE k + 1 \in Same
  <2> SUFFICES ASSUME (k + 1) + 1 <= Len(s), (k + 1) + 1 <= Len(t)
               PROVE  s[(k + 1) + 1] = t[(k + 1) + 1]
    OBVIOUS
  <2>1. s[k + 1] = t[k + 1]  BY <1>2, <1>3, <1>6
  <2>2. k + 1 \in 1..(Len(s) - 1) /\ k + 1 \in 1..(Len(t) - 1)  BY <1>2, <1>3
  <2>3. link[s[k + 1]] = s[(k + 1) + 1]  BY <1>3, <2>2 DEF Path
  <2>4. link[t[k + 1]] = t[(k + 1) + 1]  BY <1>2, <2>2
  <2> QED BY <2>1, <2>3, <2>4
<1>7. Nat \subseteq Same
  <2> HIDE DEF Same
  <2> QED BY <1>5, <1>6, InductNat
<1>8. ASSUME NEW k \in 1..Len(s), k <= Len(t)  PROVE s[k] = t[k]
  <2>1. k - 1 \in Nat /\ (k - 1) + 1 = k  OBVIOUS
  <2>2. k - 1 \in Same  BY <1>7, <2>1
  <2> QED BY <1>8, <2>1, <2>2
<1>9. ASSUME Len(t) < Len(s)  PROVE FALSE
  <2>1. IF t = <<>> THEN first = NULL ELSE link[t[Len(t)]] = NULL  BY <1>2, <1>3, <1>9
  <2>2. CASE t = <<>>  BY <1>3, <1>4, <1>9, <2>1, <2>2 DEF Path
  <2>3. CASE t # <<>>
    <3>1. Len(t) \in 1..(Len(s) - 1) /\ Len(t) + 1 \in 1..Len(s)  BY <1>2, <1>3, <1>9, <2>3
    <3>2. s[Len(t)] = t[Len(t)]  BY <1>8, <3>1
    <3>3. link[s[Len(t)]] = s[Len(t) + 1]  BY <1>3, <3>1 DEF Path
    <3> QED BY <1>4, <2>1, <2>3, <3>1, <3>2, <3>3
  <2> QED BY <2>2, <2>3
<1>10. ASSUME Len(s) < Len(t)  PROVE FALSE
  <2>1. CASE s = <<>>  BY <1>2, <1>3, <1>4, <1>10, <2>1 DEF Path
  <2>2. CASE s # <<>>
    <3>1. Len(s) \in 1..(Len(t) - 1) /\ Len(s) + 1 \in 1..Len(t) /\ Len(s) \in 1..Len(s)
      BY <1>2, <1>3, <1>10, <2>2
    <3>2. s[Len(s)] = t[Len(s)]  BY <1>8, <1>10, <3>1
    <3>3. link[t[Len(s)]] = t[Len(s) + 1]  BY <1>2, <3>1
    <3>4. link[s[Len(s)]] = NULL  BY <2>2 DEF Path
    <3> QED BY <1>4, <3>1, <3>2, <3>3, <3>4
  <2> QED BY <2>1, <2>2
<1>11. Len(s) = Len(t)  BY <1>2, <1>3, <1>9, <1>10
<1>12. s = t  BY <1>2, <1>8, <1>11, SeqEqual
<1> QED BY <1>1, <1>12

----------------------------------------------------------------------------
(* A sequence with one element more at its head,                           *)
LEMMA Pushed ==
    ASSUME NEW S, NEW c \in S, NEW s \in Seq(S)
    PROVE  /\ <<c>> \o s \in Seq(S) /\ Len(<<c>> \o s) = Len(s) + 1 /\ <<c>> \o s # <<>>
           /\ (<<c>> \o s)[1] = c
           /\ \A k \in 1..Len(s) : (<<c>> \o s)[k + 1] = s[k]
           /\ Members(<<c>> \o s) = {c} \cup Members(s)
           /\ NoDuplicates(s) /\ c \notin Members(s) => NoDuplicates(<<c>> \o s)
<1>1. PICK u \in Seq(S) : u = <<c>>
  <2>1. <<c>> \in Seq(S)  OBVIOUS
  <2> QED BY <2>1
<1>2. Len(u) = 1 /\ u[1] = c  BY <1>1
<1>3. PICK t : t = u \o s  OBVIOUS
<1>4. /\ t \in Seq(S) /\ Len(t) = Len(s) + 1 /\ t[1] = c
      /\ \A k \in 1..Len(s) : t[k + 1] = s[k]
  <2>1. /\ t \in Seq(S) /\ Len(t) = Len(u) + Len(s)
        /\ \A i \in 1..Len(u) : t[i] = u[i]
        /\ \A i \in 1..Len(s) : t[Len(u) + i] = s[i]
    BY <1>3, ConcatProperties
  <2>2. 1 \in 1..Len(u) /\ \A k \in 1..Len(s) : Len(u) + k = k + 1  BY <1>2
  <2> QED BY <1>2, <2>1, <2>2
<1>5. Len(s) \in Nat /\ DOMAIN t = 1..(Len(s) + 1) /\ DOMAIN s = 1..Len(s) /\ t # <<>>
  BY <1>4
<1>6. ASSUME NEW k \in 1..(Len(s) + 1), k # 1  PROVE k - 1 \in 1..Len(s) /\ t[k] = s[k - 1]
  <2>1. k - 1 \in 1..Len(s) /\ (k - 1) + 1 = k  BY <1>5, <1>6
  <2> QED BY <1>4, <2>1
<1>7. Members(t) \subseteq {c} \cup Members(s)
  <2> SUFFICES ASSUME NEW k \in DOMAIN t  PROVE t[k] \in {c} \cup Members(s)
    BY DEF Members
  <2>1. CASE k = 1  BY <1>4, <2>1
  <2>2. CASE k # 1  BY <1>5, <1>6, <2>2 DEF Members
  <2> QED BY <2>1, <2>2
<1>8. {c} \cup Members(s) \subseteq Members(t)
  <2>1. 1 \in DOMAIN t /\ \A k \in DOMAIN s : k + 1 \in DOMAIN t  BY <1>5
  <2> QED BY <1>4, <1>5, <2>1 DEF Members
<1>9. ASSUME NoDuplicates(s), c \notin Members(s)  PROVE NoDuplicates(t)
  <2> SUFFICES ASSUME NEW i \in DOMAIN t, NEW j \in DOMAIN t, t[i] = t[j]  PROVE i = j
    BY DEF NoDuplicates
  <2>1. \A k \in 1..(Len(s) + 1) : k # 1 => t[k] \in Members(s) /\ k - 1 \in DOMAIN s
    BY <1>5, <1>6 DEF Members
  <2>2. CASE i = 1 \/ j = 1  BY <1>4, <1>5, <1>9, <2>1, <2>2
  <2>3. CASE i # 1 /\ j # 1
    <3>1. s[i - 1] = s[j - 1] /\ i - 1 \in DOMAIN s /\ j - 1 \in DOMAIN s
      BY <1>5, <1>6, <2>1, <2>3
    <3>2. i - 1 = j - 1  BY <1>9, <3>1 DEF NoDuplicates
    <3> QED BY <1>5, <3>2
  <2> QED BY <2>2, <2>3
<1> QED BY <1>1, <1>3, <1>4, <1>5, <1>7, <1>8, <1>9

(* and with one less.                                                      *)
LEMMA Popped ==
    ASSUME NEW S, NEW s \in Seq(S), s # <<>>
    PROVE  /\ Tail(s) \in Seq(S) /\ Len(Tail(s)) = Len(s) - 1 /\ Len(s) \in Nat \ {0}
           /\ s[1] \in S /\ Head(s) = s[1]
           /\ \A k \in 1..(Len(s) - 1) : Tail(s)[k] = s[k + 1]
           /\ Members(s) = {s[1]} \cup Members(Tail(s))
           /\ NoDuplicates(s) => NoDuplicates(Tail(s)) /\ s[1] \notin Members(Tail(s))
<1>1. PICK t : t = Tail(s)  OBVIOUS
<1>2. /\ t \in Seq(S) /\ Len(t) = Len(s) - 1 /\ Len(s) \in Nat \ {0}
      /\ \A k \in 1..(Len(s) - 1) : t[k] = s[k + 1]
  BY <1>1
<1>3. DOMAIN t = 1..(Len(s) - 1) /\ DOMAIN s = 1..Len(s) /\ s[1] \in S /\ Head(s) = s[1]
  BY <1>2
<1>4. ASSUME NEW k \in 1..Len(s), k # 1  PROVE k - 1 \in 1..(Len(s) - 1) /\ t[k - 1] = s[k]
  <2>1. k - 1 \in 1..(Len(s) - 1) /\ (k - 1) + 1 = k  BY <1>2, <1>4
  <2> QED BY <1>2, <2>1
<1>5. Members(s) \subseteq {s[1]} \cup Members(t)  BY <1>2, <1>3, <1>4, SMTT(20) DEF Members
<1>6. {s[1]} \cup Members(t) \subseteq Members(s)
  <2>1. 1 \in DOMAIN s /\ \A k \in DOMAIN t : k + 1 \in DOMAIN s  BY <1>2, <1>3
  <2> QED BY <1>2, <1>3, <2>1 DEF Members
<1>7. ASSUME NoDuplicates(s)  PROVE NoDuplicates(t) /\ s[1] \notin Members(t)
  <2>1. \A k \in DOMAIN t : k + 1 \in DOMAIN s /\ t[k] = s[k + 1] /\ k + 1 # 1 /\ k \in Nat
    BY <1>2, <1>3
  <2>2. 1 \in DOMAIN s  BY <1>2, <1>3
  <2>3. s[1] \notin Members(t)  BY <1>7, <2>1, <2>2 DEF Members, NoDuplicates
  <2>4. \A i, j \in DOMAIN t : t[i] = t[j] => i = j
    <3> SUFFICES ASSUME NEW i \in DOMAIN t, NEW j \in DOMAIN t, t[i] = t[j]  PROVE i = j
      OBVIOUS
    <3>1. i + 1 = j + 1  BY <1>7, <2>1 DEF NoDuplicates
    <3> QED BY <2>1, <3>1
  <2> QED BY <2>3, <2>4 DEF NoDuplicates
<1> QED BY <1>1, <1>2, <1>3, <1>5, <1>6, <1>7

----------------------------------------------------------------------------
(* The lists of ck_queue.h.  What makes a walk without locks safe is an    *)
(* order that no operation ever changes: "after" gives for an element the  *)
(* elements behind it, and every pointer goes forward in it, those of      *)
(* elements taken off included.  An operation only adds an element to the  *)
(* order or takes one from the live ones.  CkInv says that such an order   *)
(* exists, and which stores of the operation under way are still to come.  *)

----------------------------------------------------------------------------
(* The nodes that are no longer free: on a list, or taken off it and still *)
(* as they were                                                            *)
Kept(live) == live \cup retired

(* after[n] are the nodes that come after n, for a reader: next leads to   *)
(* them, on the lists as they are or as they once were.                    *)
Ordered(after, live) ==
    /\ after \in [Entry -> SUBSET Entry]
    /\ \A x \in Entry : x \notin after[x]
    /\ \A x \in Entry : \A y \in after[x] :
          x \in Kept(live) /\ y \in Kept(live) /\ after[y] \subseteq after[x]

(* The links N lead forward, and skip nothing that is on a list.           *)
Graph(N, after, live) ==
    /\ live \subseteq Entry \ retired
    /\ \A c \in Heads \cup Kept(live) : N[c] # NULL =>
          N[c] \in Kept(live) /\ (c \in Entry => N[c] \in after[c])
    /\ \A x \in Entry : \A y \in after[x] \cap live :
          N[x] # NULL /\ (y = N[x] \/ y \in after[N[x]])

(* What a reader has seen is not after the place it is at; what stayed on  *)
(* the list is seen or still to come.                                      *)
Reads(after, live, r) ==
    /\ \A i, j \in DOMAIN seen[r] : i # j => seen[r][i] # seen[r][j]
    /\ stayed[r] \subseteq live
    /\ reader_at[r] \in Entry =>
          /\ reader_at[r] \in Kept(live)
          /\ \A s \in Members(seen[r]) : s = reader_at[r] \/ reader_at[r] \in after[s]
          /\ \A n \in stayed[r] : n \in Members(seen[r]) \/ n \in after[reader_at[r]]
    /\ reader_at[r] = NULL => stayed[r] \subseteq Members(seen[r])
    /\ reader_at[r] = None => seen[r] = <<>> /\ stayed[r] = {}

(* N and L are the links of disjoint lists, which together have the nodes  *)
(* of live, and own says whose list a node is on.                          *)
HeadsRight(N, L, live, own) ==
    \A h \in Heads :
        /\ N[h] = NULL <=> L[h] = h
        /\ N[h] = NULL => \A x \in live : own[x] # h
        /\ N[h] # NULL => /\ N[h] \in live /\ own[N[h]] = h
                          /\ L[h] \in live /\ own[L[h]] = h

NodesRight(N, L, after, live, own) ==
    \A x \in live :
        /\ own[x] \in Heads
        /\ N[x] = NULL <=> x = L[own[x]]
        /\ N[x] # NULL => N[x] \in live /\ own[N[x]] = own[x]
        /\ x = N[own[x]] \/ x \in after[N[own[x]]]

OwnersAgree(after, live, own) == \A x, y \in live : y \in after[x] => own[x] = own[y]

OneBefore(N, live) == \A c, d \in Heads \cup live : N[c] = N[d] /\ N[c] # NULL => c = d

Regular(N, L, after, live, own) ==
    /\ N \in [Cell -> Entry \cup {NULL}] /\ L \in [Heads -> Cell]
    /\ own \in [Entry -> Heads \cup {NULL}]
    /\ HeadsRight(N, L, live, own) /\ NodesRight(N, L, after, live, own)
    /\ OwnersAgree(after, live, own) /\ OneBefore(N, live)

PartOf(c, h, live, own) == c = h \/ (c \in live /\ own[c] = h)

(* The stores of an insertion before the node is linked, those of a        *)
(* removal and of a concatenation before the node before is changed        *)
Inserting(after, live, own) ==
    \E h \in Heads, c \in Cell, n \in Entry \ Kept(live) :
        /\ PartOf(c, h, live, own) /\ Regular(ck_next, last, after, live, own)
        /\ \/ stores = INSERT_AFTER(h, c, n)
           \/ ck_next[n] = ck_next[c] /\ stores = Tail(INSERT_AFTER(h, c, n))

Removing(after, live, own) ==
    \E h \in Heads, c \in Cell, m \in retired :
        /\ PartOf(c, h, live, own) /\ ck_next[c] = m /\ own[m] = h
        /\ Regular(ck_next, last, after, live \cup {m}, own)
        /\ stores = REMOVE_AFTER(h, c)

Joining(after, live, own) ==
    \E g, h \in Heads :
        /\ g # h /\ ck_next[g] # NULL /\ ck_next[h] # NULL
        /\ Regular(ck_next, last, after, live, own)
        /\ stores = CONCAT(g, h)

(* Otherwise what is still to be stored are pointers of heads: the list    *)
(* will be N and L.                                                        *)
StoreTo(e, var, h) == e.var = var /\ e.cell = h

(* What a variable that is now now is after the stores of s                *)
Final(s, var, h, v, now) ==
    \/ v = now /\ \A i \in DOMAIN s : ~ StoreTo(s[i], var, h)
    \/ \E i \in DOMAIN s :
          /\ StoreTo(s[i], var, h) /\ s[i].val = v
          /\ \A j \in DOMAIN s : j > i => ~ StoreTo(s[j], var, h)

HeadStore(live) ==
    [var : {"next"}, cell : Heads, val : live \cup {NULL}]
        \cup [var : {"last"}, cell : Heads, val : Cell]

(* The stores of s turn the links N0 and L0 into N and L.                  *)
Pending(s, N0, L0, N, L, live) ==
    /\ s \in Seq(HeadStore(live))
    /\ \A n \in Entry : N[n] = N0[n]
    /\ \A h \in Heads : Final(s, "next", h, N[h], N0[h]) /\ Final(s, "last", h, L[h], L0[h])

Finishing(after, live, own) ==
    \E N, L : Regular(N, L, after, live, own) /\ Pending(stores, ck_next, last, N, L, live)

Writes(after, live, own) ==
    \/ Inserting(after, live, own) \/ Removing(after, live, own)
    \/ Joining(after, live, own) \/ Finishing(after, live, own)

CkType ==
    /\ ck_next \in [Cell -> Entry \cup {NULL}] /\ last \in [Heads -> Cell]
    /\ reader_at \in [Walker -> Entry \cup {NULL, None}] /\ seen \in [Walker -> Seq(Entry)]
    /\ stayed \in [Walker -> SUBSET Entry] /\ retired \subseteq Entry

Ghosts(after, live, own) ==
    /\ Ordered(after, live) /\ Graph(ck_next, after, live)
    /\ \A r \in Walker : Reads(after, live, r)
    /\ Writes(after, live, own)

CkInv == CkType /\ \E after, live, own : Ghosts(after, live, own)

----------------------------------------------------------------------------
(* What the operations store, one store after another                      *)
LEMMA TwoStores ==
    ASSUME NEW S, NEW a \in S, NEW d \in S
    PROVE  Append(<<a>>, d) = <<a, d>>
<1>1. /\ <<a, d>> \in Seq(S) /\ Len(<<a, d>>) = 2
      /\ <<a>> \in Seq(S) /\ Len(<<a>>) = 1
  OBVIOUS
<1>2. /\ Append(<<a>>, d) \in Seq(S) /\ Len(Append(<<a>>, d)) = 2
      /\ Append(<<a>>, d)[1] = <<a>>[1] /\ Append(<<a>>, d)[2] = d
  BY <1>1, AppendProperties
<1>3. \A i \in 1..2 : <<a, d>>[i] = Append(<<a>>, d)[i]
  <2>1. \A i \in 1..2 : i = 1 \/ i = 2  OBVIOUS
  <2> QED BY <1>2, <2>1
<1> QED BY <1>1, <1>2, <1>3, SeqEqual

(* The same for three of them                                              *)
LEMMA ThreeStores ==
    ASSUME NEW S, NEW a \in S, NEW b \in S, NEW d \in S
    PROVE  Append(<<a, b>>, d) = <<a, b, d>>
<1>1. /\ <<a, b, d>> \in Seq(S) /\ Len(<<a, b, d>>) = 3
      /\ <<a, b>> \in Seq(S) /\ Len(<<a, b>>) = 2
  OBVIOUS
<1>2. /\ Append(<<a, b>>, d) \in Seq(S) /\ Len(Append(<<a, b>>, d)) = 3
      /\ Append(<<a, b>>, d)[1] = a /\ Append(<<a, b>>, d)[2] = b /\ Append(<<a, b>>, d)[3] = d
  BY <1>1, AppendProperties
<1>3. \A i \in 1..3 : <<a, b, d>>[i] = Append(<<a, b>>, d)[i]
  <2>1. \A i \in 1..3 : i = 1 \/ i = 2 \/ i = 3  OBVIOUS
  <2> QED BY <1>2, <2>1
<1> QED BY <1>1, <1>2, <1>3, SeqEqual

(* and for four.                                                           *)
LEMMA FourStores ==
    ASSUME NEW S, NEW a \in S, NEW b \in S, NEW c \in S, NEW d \in S
    PROVE  Append(<<a, b, c>>, d) = <<a, b, c, d>>
<1>1. /\ <<a, b, c, d>> \in Seq(S) /\ Len(<<a, b, c, d>>) = 4
      /\ <<a, b, c>> \in Seq(S) /\ Len(<<a, b, c>>) = 3
  OBVIOUS
<1>2. /\ Append(<<a, b, c>>, d) \in Seq(S) /\ Len(Append(<<a, b, c>>, d)) = 4
      /\ Append(<<a, b, c>>, d)[1] = a /\ Append(<<a, b, c>>, d)[2] = b
      /\ Append(<<a, b, c>>, d)[3] = c /\ Append(<<a, b, c>>, d)[4] = d
  BY <1>1, AppendProperties
<1>3. \A i \in 1..4 : <<a, b, c, d>>[i] = Append(<<a, b, c>>, d)[i]
  <2>1. \A i \in 1..4 : i = 1 \/ i = 2 \/ i = 3 \/ i = 4  OBVIOUS
  <2> QED BY <1>2, <2>1
<1> QED BY <1>1, <1>2, <1>3, SeqEqual

(* A store that an operation makes only under a condition                  *)
LEMMA WhenSeq ==
    ASSUME NEW S, NEW s \in Seq(S), NEW cond \in BOOLEAN, NEW d \in S
    PROVE  /\ s \o When(cond, d) = IF cond THEN Append(s, d) ELSE s
           /\ s \o When(cond, d) \in Seq(S)
<1>1. s \o <<d>> = Append(s, d) /\ Append(s, d) \in Seq(S)  OBVIOUS
<1>2. s \o <<>> = s  OBVIOUS
<1> QED BY <1>1, <1>2 DEF When

(* The first store of an operation, and what is left to store after it:    *)
(* with one store before the conditional one                               *)
LEMMA OneThen ==
    ASSUME NEW S, NEW a \in S, NEW cond \in BOOLEAN, NEW d \in S
    PROVE  /\ <<a>> \o When(cond, d) # <<>>
           /\ (<<a>> \o When(cond, d))[1] = a
           /\ Tail(<<a>> \o When(cond, d)) = When(cond, d)
<1>0. PICK s \in Seq(S) : s = <<a>>
  <2>1. <<a>> \in Seq(S)  OBVIOUS
  <2> QED BY <2>1
<1>1. s \o When(cond, d) = IF cond THEN Append(s, d) ELSE s  BY WhenSeq
<1>2. Append(<<a>>, d) = <<a, d>>  BY TwoStores
<1>3. Tail(<<a, d>>) = <<d>> /\ Tail(<<a>>) = <<>>  OBVIOUS
<1>4. /\ <<a, d>> # <<>> /\ <<a, d>>[1] = a
      /\ <<a>> # <<>> /\ <<a>>[1] = a
  OBVIOUS
<1> QED BY <1>0, <1>1, <1>2, <1>3, <1>4 DEF When

(* and with two before it.                                                 *)
LEMMA TwoThen ==
    ASSUME NEW S, NEW a \in S, NEW b \in S, NEW cond \in BOOLEAN, NEW d \in S
    PROVE  /\ <<a, b>> \o When(cond, d) # <<>>
           /\ (<<a, b>> \o When(cond, d))[1] = a
           /\ Tail(<<a, b>> \o When(cond, d)) = <<b>> \o When(cond, d)
<1>0. PICK s \in Seq(S), u \in Seq(S) : s = <<a, b>> /\ u = <<b>>
  <2>1. <<a, b>> \in Seq(S) /\ <<b>> \in Seq(S)  OBVIOUS
  <2> QED BY <2>1
<1>1. s \o When(cond, d) = IF cond THEN Append(s, d) ELSE s  BY WhenSeq
<1>2. u \o When(cond, d) = IF cond THEN Append(u, d) ELSE u  BY WhenSeq, SMTT(20)
<1>3. Append(<<a, b>>, d) = <<a, b, d>> /\ Append(<<b>>, d) = <<b, d>>
  BY TwoStores, ThreeStores
<1>4. Tail(<<a, b, d>>) = <<b, d>> /\ Tail(<<a, b>>) = <<b>>  OBVIOUS
<1>5. /\ <<a, b, d>> # <<>> /\ <<a, b, d>>[1] = a
      /\ <<a, b>> # <<>> /\ <<a, b>>[1] = a
  OBVIOUS
<1> QED BY <1>0, <1>1, <1>2, <1>3, <1>4, <1>5

(* What is stored last counts: with no store the value stays,              *)
LEMMA FinalEmpty ==
    ASSUME NEW var, NEW h, NEW v, NEW now
    PROVE  Final(<<>>, var, h, v, now) <=> v = now
BY DEF Final

(* a store at the end decides, if it is one to the variable,               *)
LEMMA FinalAppend ==
    ASSUME NEW S, NEW s \in Seq(S), NEW e \in S, NEW var, NEW h, NEW v, NEW now,
           IF StoreTo(e, var, h) THEN v = e.val ELSE Final(s, var, h, v, now)
    PROVE  Final(Append(s, e), var, h, v, now)
<1>1. PICK t : t = Append(s, e)  OBVIOUS
<1>2. /\ Len(s) \in Nat /\ DOMAIN s = 1..Len(s)
      /\ DOMAIN t = 1..(Len(s) + 1) /\ t[Len(s) + 1] = e
      /\ \A i \in 1..Len(s) : t[i] = s[i]
  BY <1>1, AppendProperties
<1>3. CASE StoreTo(e, var, h)
  <2>1. Len(s) + 1 \in DOMAIN t /\ \A j \in DOMAIN t : ~ (j > Len(s) + 1)  BY <1>2
  <2> QED BY <1>1, <1>2, <1>3, <2>1 DEF Final
<1>4. CASE ~ StoreTo(e, var, h) /\ v = now /\ \A i \in DOMAIN s : ~ StoreTo(s[i], var, h)
  <2>1. \A i \in DOMAIN t : ~ StoreTo(t[i], var, h)  BY <1>2, <1>4
  <2> QED BY <1>1, <1>4, <2>1 DEF Final
<1>5. CASE /\ ~ StoreTo(e, var, h)
           /\ \E i \in DOMAIN s : /\ StoreTo(s[i], var, h) /\ s[i].val = v
                                  /\ \A j \in DOMAIN s : j > i => ~ StoreTo(s[j], var, h)
  <2>1. PICK i \in DOMAIN s : /\ StoreTo(s[i], var, h) /\ s[i].val = v
                              /\ \A j \in DOMAIN s : j > i => ~ StoreTo(s[j], var, h)
    BY <1>5
  <2>2. i \in DOMAIN t /\ t[i] = s[i]  BY <1>2
  <2>3. \A j \in DOMAIN t : j > i => ~ StoreTo(t[j], var, h)  BY <1>2, <1>5, <2>1
  <2> QED BY <1>1, <2>1, <2>2, <2>3 DEF Final
<1> QED BY <1>3, <1>4, <1>5 DEF Final

(* and making the first store changes nothing of how it will end.          *)
LEMMA FinalFirst ==
    ASSUME NEW S, NEW s \in Seq(S), s # <<>>, NEW var, NEW h, NEW v, NEW now,
           Final(s, var, h, v, now)
    PROVE  Final(Tail(s), var, h, v, IF StoreTo(s[1], var, h) THEN s[1].val ELSE now)
<1>1. PICK t : t = Tail(s)  OBVIOUS
<1>2. /\ Len(s) \in Nat \ {0} /\ DOMAIN s = 1..Len(s)
      /\ DOMAIN t = 1..(Len(s) - 1)
      /\ \A i \in 1..(Len(s) - 1) : t[i] = s[i + 1]
  BY <1>1
<1>3. 1 \in DOMAIN s  BY <1>2
<1>4. CASE v = now /\ \A i \in DOMAIN s : ~ StoreTo(s[i], var, h)
  <2>1. \A i \in DOMAIN t : ~ StoreTo(t[i], var, h)  BY <1>2, <1>4
  <2> QED BY <1>1, <1>3, <1>4, <2>1 DEF Final
<1>5. ASSUME NEW i \in DOMAIN s, StoreTo(s[i], var, h), s[i].val = v,
             \A j \in DOMAIN s : j > i => ~ StoreTo(s[j], var, h)
      PROVE  Final(t, var, h, v, IF StoreTo(s[1], var, h) THEN s[1].val ELSE now)
  <2>1. CASE i = 1
    <3>1. \A j \in DOMAIN t : ~ StoreTo(t[j], var, h)  BY <1>2, <1>5, <2>1
    <3> QED BY <1>5, <2>1, <3>1 DEF Final
  <2>2. CASE i # 1
    <3>1. PICK k : k = i - 1  OBVIOUS
    <3>2. k \in DOMAIN t /\ t[k] = s[i]  BY <1>2, <2>2, <3>1
    <3>3. \A j \in DOMAIN t : j > k => ~ StoreTo(t[j], var, h)  BY <1>2, <1>5, <3>1
    <3> QED BY <1>5, <3>2, <3>3 DEF Final
  <2> QED BY <2>1, <2>2
<1> QED BY <1>1, <1>4, <1>5 DEF Final

(* The order when n has been put after those of up and before those of     *)
(* down, and when those of down have been put after those of up            *)
Inserted(after, up, down, n) ==
    [x \in Entry |-> IF x = n THEN down ELSE IF x \in up THEN after[x] \cup {n} ELSE after[x]]

Joined(after, up, down) ==
    [x \in Entry |-> IF x \in up THEN after[x] \cup down ELSE after[x]]

(* A node goes between those of up and those of down.                      *)
LEMMA OrderInsert ==
    ASSUME NEW after, NEW live, Ordered(after, live), NEW n \in Entry \ Kept(live),
           NEW up \in SUBSET Kept(live), NEW down \in SUBSET Kept(live),
           \A x \in up : down \subseteq after[x],
           \A x \in Entry : \A y \in after[x] : y \in up => x \in up,
           \A y \in down : after[y] \subseteq down,
           live \subseteq Entry, retired \subseteq Entry
    PROVE  Ordered(Inserted(after, up, down, n), live \cup {n})
<1> DEFINE new == Inserted(after, up, down, n)
<1>1. after[n] = {} /\ \A x \in Entry : n \notin after[x]  BY DEF Ordered
<1>2. n \notin up /\ n \notin down  OBVIOUS
<1>3. Kept(live) \subseteq Entry /\ Kept(live \cup {n}) = Kept(live) \cup {n}  BY DEF Kept
<1>4. new \in [Entry -> SUBSET Entry]  BY <1>3 DEF Ordered, Inserted
<1>5. \A x \in Entry : new[x] = IF x = n THEN down
                               ELSE IF x \in up THEN after[x] \cup {n} ELSE after[x]
  BY DEF Inserted
<1> HIDE DEF new
<1>6. \A x \in Entry : x \notin new[x]  BY <1>2, <1>5, ZenonT(40) DEF Ordered
<1>7. ASSUME NEW x \in Entry, NEW y \in new[x]
      PROVE  x \in Kept(live) \cup {n} /\ y \in Kept(live) \cup {n} /\ new[y] \subseteq new[x]
  <2>1. CASE x = n
    <3>1. y \in down /\ y # n /\ y \in Entry  BY <1>2, <1>3, <1>5, <2>1, ZenonT(40)
    <3>2. y \notin up  
      <4>1. y \in up => y \in after[y]  BY <3>1
      <4> QED BY <3>1, <4>1 DEF Ordered
    <3>3. new[y] = after[y] /\ new[x] = down  BY <1>5, <2>1, <3>1, <3>2
    <3> QED BY <2>1, <3>1, <3>3
  <2>2. CASE y = n
    <3>1. x # n /\ x \in up  BY <1>1, <1>2, <1>5, <1>6, <2>2
    <3>2. new[y] = down /\ after[x] \subseteq new[x]  BY <1>5, <2>2, <3>1, ZenonT(40)
    <3> QED BY <2>2, <3>1, <3>2
  <2>3. CASE x # n /\ y # n
    <3>1. y \in after[x]  BY <1>5, <2>3, ZenonT(40)
    <3>2. x \in Kept(live) /\ y \in Kept(live) /\ after[y] \subseteq after[x] /\ y \in Entry
      BY <1>3, <3>1 DEF Ordered
    <3>3. y \in up => x \in up  BY <3>1
    <3>4. new[x] = IF x \in up THEN after[x] \cup {n} ELSE after[x]  BY <1>5, <2>3
    <3>5. new[y] = IF y \in up THEN after[y] \cup {n} ELSE after[y]  BY <1>5, <2>3, <3>2
    <3>6. new[y] \subseteq new[x]  BY <3>2, <3>3, <3>4, <3>5
    <3> QED BY <3>2, <3>6
  <2> QED BY <2>1, <2>2, <2>3
<1>8. Ordered(new, live \cup {n})  BY <1>3, <1>4, <1>6, <1>7 DEF Ordered
<1> QED BY <1>8 DEF new

(* Those of up come before those of down.                                  *)
LEMMA OrderJoin ==
    ASSUME NEW after, NEW live, Ordered(after, live),
           NEW up \in SUBSET Kept(live), NEW down \in SUBSET Kept(live),
           up \cap down = {},
           \A x \in Entry : \A y \in after[x] : y \in up => x \in up,
           \A y \in down : after[y] \subseteq down,
           live \subseteq Entry, retired \subseteq Entry
    PROVE  Ordered(Joined(after, up, down), live)
<1> DEFINE new == Joined(after, up, down)
<1>1. Kept(live) \subseteq Entry  BY DEF Kept
<1>2. new \in [Entry -> SUBSET Entry]  BY <1>1 DEF Ordered, Joined
<1>3. \A x \in Entry : new[x] = IF x \in up THEN after[x] \cup down ELSE after[x]
  BY DEF Joined
<1> HIDE DEF new
<1>4. \A x \in Entry : x \notin new[x]
  <2>1. \A x \in up : x \notin down  OBVIOUS
  <2> QED BY <1>3, <2>1 DEF Ordered
<1>5. ASSUME NEW x \in Entry, NEW y \in new[x]
      PROVE  x \in Kept(live) /\ y \in Kept(live) /\ new[y] \subseteq new[x]
  <2>1. y \in Entry  BY <1>2
  <2>2. CASE y \in after[x]
    <3>1. x \in Kept(live) /\ y \in Kept(live) /\ after[y] \subseteq after[x]
      BY <2>2 DEF Ordered
    <3>2. y \in up => x \in up  BY <2>2
    <3> QED BY <1>3, <2>1, <3>1, <3>2
  <2>3. CASE y \notin after[x]
    <3>1. x \in up /\ y \in down /\ y \notin up  BY <1>3, <2>3
    <3>2. new[y] = after[y] /\ after[y] \subseteq down  BY <1>3, <2>1, <3>1
    <3> QED BY <1>3, <3>1, <3>2
  <2> QED BY <2>2, <2>3
<1>6. Ordered(new, live)  BY <1>2, <1>4, <1>5 DEF Ordered
<1> QED BY <1>6 DEF new
(* f with v for x                                                          *)
Put(f, x, v) == [f EXCEPT ![x] = v]

(* c and the nodes before it, and d and those after it                     *)
Before(c, after) == {x \in Entry : x = c \/ c \in after[x]}
From(d, after) == IF d = NULL THEN {} ELSE {d} \cup after[d]

(* Both are closed in the order: whoever comes before something in front   *)
(* of the place is in front of it, and likewise behind.                    *)
LEMMA BeforeAndFrom ==
    ASSUME retired \subseteq Entry, NEW after, NEW live, live \subseteq Entry,
           Ordered(after, live), NEW c \in Heads \cup Kept(live), NEW d \in Kept(live) \cup {NULL}
    PROVE  /\ Before(c, after) \subseteq Kept(live) /\ From(d, after) \subseteq Kept(live)
           /\ \A x \in Entry : \A y \in after[x] : y \in Before(c, after) => x \in Before(c, after)
           /\ \A y \in From(d, after) : after[y] \subseteq From(d, after)
<1>1. Kept(live) \subseteq Entry  BY DEF Kept
<1>2. ASSUME NEW x \in Before(c, after)  PROVE x \in Kept(live)
  BY CkAssumption, <1>1, <1>2 DEF Before, Ordered
<1>3. ASSUME NEW y \in From(d, after)  PROVE y \in Kept(live) /\ after[y] \subseteq From(d, after)
  BY <1>1, <1>3 DEF From, Ordered
<1>4. ASSUME NEW x \in Entry, NEW y \in after[x], y \in Before(c, after)
      PROVE  x \in Before(c, after)
  BY <1>4 DEF Before, Ordered
<1> QED BY <1>2, <1>3, <1>4

(* A node that is put after c, and then links to what c linked to: links   *)
(* lead forward and skip nothing, as before.                               *)
LEMMA GraphInsert ==
    ASSUME retired \subseteq Entry, NEW after, NEW live, NEW N,
           N \in [Cell -> Entry \cup {NULL}], Ordered(after, live), Graph(N, after, live),
           NEW c \in Cell, NEW h \in Heads, NEW own, PartOf(c, h, live, own),
           NEW n \in Entry \ Kept(live), N[n] = N[c],
           NEW new, new = Inserted(after, Before(c, after), From(N[c], after), n),
           NEW M, M = Put(N, c, n)
    PROVE  /\ Ordered(new, live \cup {n}) /\ Graph(M, new, live \cup {n})
           /\ \A x \in Entry : after[x] \subseteq new[x]
<1> DEFINE up == Before(c, after)
           down == From(N[c], after)
<1>1. /\ live \subseteq Entry \ retired /\ Kept(live) \subseteq Entry
      /\ Kept(live \cup {n}) = Kept(live) \cup {n} /\ n \notin Cell \ Entry /\ n # NULL
  BY CkAssumption DEF Graph, Kept, Cell
<1>0. c \in Heads \cup live  BY DEF PartOf
<1>2. /\ c \in Heads \cup Kept(live) /\ c \in Cell /\ c # n
      /\ N[c] \in Kept(live) \cup {NULL}
      /\ N[c] # NULL => (c \in Entry => N[c] \in after[c])
  BY CkAssumption, <1>0, <1>1 DEF Graph, Kept, Cell
<1>3. /\ up \subseteq Kept(live) /\ down \subseteq Kept(live)
      /\ \A x \in Entry : \A y \in after[x] : y \in up => x \in up
      /\ \A y \in down : after[y] \subseteq down
  BY <1>1, <1>2, BeforeAndFrom
<1>4. ASSUME NEW x \in up  PROVE down \subseteq after[x]
  <2>1. x \in Entry /\ (x = c \/ c \in after[x])  BY DEF Before
  <2>2. c \in Entry  BY <2>1 DEF Ordered
  <2>3. down \subseteq after[c]  BY <1>2, <2>2 DEF From, Ordered
  <2> QED BY <2>1, <2>3 DEF Ordered
<1>5. Ordered(new, live \cup {n})
  <2> HIDE DEF up, down
  <2>1. new = Inserted(after, up, down, n)  BY DEF up, down
  <2> QED BY <1>1, <1>3, <1>4, <2>1, OrderInsert
<1>6. /\ \A x \in Entry : new[x] = IF x = n THEN down
                                  ELSE IF x \in up THEN after[x] \cup {n} ELSE after[x]
      /\ \A x \in Entry : n \notin after[x]
      /\ new[n] = down /\ after[n] = {}
  BY <1>1 DEF Inserted, Ordered
<1>7. \A x \in Entry : after[x] \subseteq new[x]  BY <1>6
<1>8. /\ M[c] = n /\ \A x \in Cell : x # c => M[x] = N[x]
      /\ M[n] = N[c]
  BY <1>1, <1>2 DEF Cell, Put
<1> HIDE DEF up, down
<1>9. ASSUME NEW x \in Heads \cup Kept(live \cup {n}), M[x] # NULL
      PROVE  M[x] \in Kept(live \cup {n}) /\ (x \in Entry => M[x] \in new[x])
  <2>1. x \in Cell  BY <1>1 DEF Cell
  <2>2. CASE x = c
    <3>1. x \in Entry => x \in up  BY <2>2 DEF up, Before
    <3> QED BY <1>1, <1>2, <1>6, <1>8, <2>2, <3>1
  <2>3. CASE x = n
    <3>1. N[c] \in down  BY <1>8, <1>9, <2>3 DEF down, From
    <3>2. M[x] = N[c] /\ new[x] = down  BY <1>6, <1>8, <2>3
    <3> QED BY <1>1, <1>3, <3>1, <3>2
  <2>4. CASE x # c /\ x # n
    <3>1. x \in Heads \cup Kept(live) /\ M[x] = N[x]  BY <1>1, <1>8, <2>1, <2>4
    <3>2. N[x] \in Kept(live) /\ (x \in Entry => N[x] \in after[x])  BY <1>9, <3>1 DEF Graph
    <3> QED BY <1>1, <1>7, <3>1, <3>2
  <2> QED BY <2>2, <2>3, <2>4
<1>10. ASSUME NEW x \in Entry, NEW y \in new[x] \cap (live \cup {n})
       PROVE  M[x] # NULL /\ (y = M[x] \/ y \in new[M[x]])
  <2>1. x \in Cell  BY DEF Cell
  <2>2. \A z \in live : z \in after[x] => N[x] # NULL /\ (z = N[x] \/ z \in after[N[x]])
    BY DEF Graph
  <2>3. N[x] # NULL => N[x] \in Entry  BY <2>1
  <2>4. CASE x = n
    <3>1. y \in down  BY <1>6, <2>4
    <3>2. N[c] # NULL /\ (y = N[c] \/ y \in after[N[c]])  BY <3>1 DEF down, From
    <3> QED BY <1>1, <1>2, <1>7, <1>8, <2>4, <3>2
  <2>5. CASE x = c
    <3>1. y \in {n} \cup after[c]  BY <1>2, <1>6, <2>5
    <3>2. y # n => y \in live  BY <1>1
    <3>3. y # n => y \in down  BY <2>2, <2>5, <3>1, <3>2 DEF down, From
    <3> QED BY <1>1, <1>6, <1>8, <2>5, <3>3
  <2>6. CASE x # n /\ x # c /\ y = n
    <3>1. x \in up  BY <1>6, <2>6
    <3>2. c \in after[x]  BY <2>6, <3>1 DEF up, Before
    <3>3. c \in live  BY CkAssumption, <1>0, <3>2 DEF Ordered
    <3>4. N[x] # NULL /\ (c = N[x] \/ c \in after[N[x]])  BY <2>2, <3>2, <3>3
    <3>5. N[x] \in up  BY <2>3, <3>4 DEF up, Before
    <3>6. N[x] \in Entry /\ N[x] # n  BY <1>1, <1>3, <3>5
    <3>7. n \in new[N[x]]  BY <1>6, <3>5, <3>6
    <3> QED BY <1>8, <2>1, <2>6, <3>4, <3>7
  <2>7. CASE x # n /\ x # c /\ y # n
    <3>1. y \in after[x] /\ y \in live  BY <1>6, <2>7
    <3> QED BY <1>7, <1>8, <2>1, <2>2, <2>3, <2>7, <3>1
  <2> QED BY <2>4, <2>5, <2>6, <2>7
<1>11. live \cup {n} \subseteq Entry \ retired  BY <1>1 DEF Kept
<1>12. Graph(M, new, live \cup {n})  BY <1>9, <1>10, <1>11 DEF Graph
<1> QED BY <1>5, <1>7, <1>12

(* The lists have the node as well, after c.                               *)
LEMMA RegularInsert ==
    ASSUME retired \subseteq Entry, NEW after, NEW live, NEW own, NEW N, NEW L,
           Ordered(after, live), Graph(N, after, live), Regular(N, L, after, live, own),
           NEW h \in Heads, NEW c \in Cell, PartOf(c, h, live, own),
           NEW n \in Entry \ Kept(live), N[n] = N[c],
           NEW new, new = Inserted(after, Before(c, after), From(N[c], after), n),
           NEW M, M = Put(N, c, n),
           NEW K, K = (IF N[c] = NULL THEN Put(L, h, n) ELSE L),
           NEW mine, mine = Put(own, n, h)
    PROVE  Regular(M, K, new, live \cup {n}, mine)
<1> DEFINE up == Before(c, after)
           down == From(N[c], after)
<1>1. /\ live \subseteq Entry /\ live \subseteq Kept(live) /\ Kept(live) \subseteq Entry
      /\ n \in Entry /\ n \notin live /\ n # NULL /\ n \notin Heads
      /\ \A x \in live : x # NULL /\ x \notin Heads
      /\ NULL \notin Heads
  BY CkAssumption DEF Graph, Kept, Cell
<1>2. /\ N \in [Cell -> Entry \cup {NULL}] /\ L \in [Heads -> Cell]
      /\ own \in [Entry -> Heads \cup {NULL}]
  BY DEF Regular
<1>3. c # n /\ c \in Heads \cup live /\ (c \in Heads => c = h) /\ (c \notin Heads => own[c] = h)
  BY <1>1 DEF PartOf
<1>4. /\ M \in [Cell -> Entry \cup {NULL}] /\ K \in [Heads -> Cell]
      /\ mine \in [Entry -> Heads \cup {NULL}]
  BY <1>2 DEF Cell, Put
<1>5. /\ M[c] = n /\ M[n] = N[c] /\ \A x \in Cell : x # c => M[x] = N[x]
      /\ K[h] = IF N[c] = NULL THEN n ELSE L[h]
      /\ \A k \in Heads : k # h => K[k] = L[k]
      /\ mine[n] = h /\ \A x \in live : mine[x] = own[x]
  BY <1>1, <1>2, <1>3 DEF Cell, Put
<1>6. /\ \A x \in Entry : new[x] = IF x = n THEN down
                                  ELSE IF x \in up THEN after[x] \cup {n} ELSE after[x]
      /\ \A x \in Entry : n \notin after[x]
      /\ new[n] = down
  BY <1>1 DEF Inserted, Ordered
<1>7. \A x \in Entry : after[x] \subseteq new[x]
  <2>1. after[n] = {}  BY DEF Ordered
  <2> QED BY <1>6, <2>1
<1>8. /\ HeadsRight(N, L, live, own) /\ NodesRight(N, L, after, live, own)
      /\ OwnersAgree(after, live, own) /\ OneBefore(N, live)
  BY DEF Regular
<1>9. N[c] # NULL => N[c] \in live /\ own[N[c]] = h
  BY <1>3, <1>8 DEF HeadsRight, NodesRight
<1>10. c \in live => N[h] # NULL /\ N[h] \in live /\ (c = N[h] \/ c \in after[N[h]])
  BY <1>1, <1>3, <1>8 DEF HeadsRight, NodesRight
<1> HIDE DEF up, down
<1>11. HeadsRight(M, K, live \cup {n}, mine)
  <2> SUFFICES ASSUME NEW k \in Heads
               PROVE  /\ M[k] = NULL <=> K[k] = k
                      /\ M[k] = NULL => \A x \in live \cup {n} : mine[x] # k
                      /\ M[k] # NULL => /\ M[k] \in live \cup {n} /\ mine[M[k]] = k
                                        /\ K[k] \in live \cup {n} /\ mine[K[k]] = k
    BY DEF HeadsRight
  <2>0. k \in Cell  BY DEF Cell
  <2>1. /\ N[k] = NULL <=> L[k] = k
        /\ N[k] = NULL => \A x \in live : own[x] # k
        /\ N[k] # NULL => N[k] \in live /\ own[N[k]] = k /\ L[k] \in live /\ own[L[k]] = k
    BY <1>8 DEF HeadsRight
  <2>2. CASE k # h
    <3>1. M[k] = N[k] /\ K[k] = L[k]  BY <1>3, <1>5, <2>0, <2>2
    <3>2. mine[n] # k  BY <1>5, <2>2
    <3> QED BY <1>5, <2>1, <3>1, <3>2
  <2>3. CASE k = h
    <3>1. M[k] # NULL /\ M[k] \in live \cup {n} /\ mine[M[k]] = k
      <4>1. CASE c = h  BY <1>1, <1>5, <2>3, <4>1
      <4>2. CASE c # h
        <5>1. c \in live /\ M[k] = N[k]  BY <1>3, <1>5, <2>0, <2>3, <4>2
        <5> QED BY <1>5, <1>10, <2>1, <2>3, <5>1
      <4> QED BY <4>1, <4>2
    <3>2. K[k] \in live \cup {n} /\ mine[K[k]] = k
      <4>1. CASE N[c] = NULL  BY <1>5, <2>3, <4>1
      <4>2. CASE N[c] # NULL
        <5>1. N[h] # NULL  BY <1>3, <1>10, <4>2
        <5> QED BY <1>5, <2>1, <2>3, <4>2, <5>1
      <4> QED BY <4>1, <4>2
    <3>3. K[k] # k  BY <1>1, <3>2
    <3> QED BY <3>1, <3>2, <3>3
  <2> QED BY <2>2, <2>3
<1>12. NodesRight(M, K, new, live \cup {n}, mine)
  <2> SUFFICES ASSUME NEW x \in live \cup {n}
               PROVE  /\ mine[x] \in Heads
                      /\ M[x] = NULL <=> x = K[mine[x]]
                      /\ M[x] # NULL => M[x] \in live \cup {n} /\ mine[M[x]] = mine[x]
                      /\ x = M[mine[x]] \/ x \in new[M[mine[x]]]
    BY DEF NodesRight
  <2>0. h \in Cell /\ x \in Cell  BY <1>1 DEF Cell
  <2>1. CASE x = n
    <3>1. mine[x] = h /\ M[x] = N[c]  BY <1>5, <2>1
    <3>2. N[c] # NULL => K[h] # n
      <4>1. L[h] \in live \/ L[h] = h  BY <1>8 DEF HeadsRight
      <4> QED BY <1>1, <1>5, <4>1
    <3>3. n = M[h] \/ n \in new[M[h]]
      <4>1. CASE c = h  BY <1>5, <4>1
      <4>2. CASE c # h
        <5>1. c \in live /\ M[h] = N[h]  BY <1>3, <1>5, <2>0, <4>2
        <5>2. N[h] \in up  BY <1>1, <1>10, <5>1 DEF up, Before
        <5>3. N[h] \in Entry /\ N[h] # n  BY <1>1, <1>10, <5>1
        <5>4. n \in new[N[h]]  BY <1>6, <5>2, <5>3
        <5> QED BY <5>1, <5>4
      <4> QED BY <4>1, <4>2
    <3>4. N[c] # NULL => N[c] \in live \cup {n} /\ mine[N[c]] = h  BY <1>5, <1>9
    <3>5. N[c] = NULL => K[h] = n  BY <1>5
    <3> QED BY <2>1, <3>1, <3>2, <3>3, <3>4, <3>5
  <2>2. CASE x # n
    <3>0. x \in live /\ mine[x] = own[x] /\ x \in Entry /\ x # h
      BY <1>1, <1>5, <2>2
    <3>1. /\ own[x] \in Heads
          /\ N[x] = NULL <=> x = L[own[x]]
          /\ N[x] # NULL => N[x] \in live /\ own[N[x]] = own[x]
          /\ x = N[own[x]] \/ x \in after[N[own[x]]]
      BY <1>8, <3>0 DEF NodesRight
    <3>2. own[x] = h => N[h] # NULL /\ N[h] \in live  BY <1>8, <3>0 DEF HeadsRight
    <3>3. M[x] = NULL <=> x = K[own[x]]
      <4>1. CASE x = c
        <5>1. own[x] = h /\ M[x] = n /\ N[h] # NULL  BY <1>1, <1>3, <1>5, <3>0, <3>2, <4>1
        <5>2. N[c] = NULL => K[h] = n  BY <1>5
        <5>3. N[c] # NULL => K[h] = L[h] /\ x # L[h]  BY <1>5, <3>1, <4>1, <5>1
        <5> QED BY <1>1, <2>2, <5>1, <5>2, <5>3
      <4>2. CASE x # c
        <5>1. M[x] = N[x]  BY <1>5, <2>0, <4>2
        <5>2. CASE own[x] = h /\ N[c] = NULL
          <6>1. c \in live  BY <1>3, <3>2, <5>2
          <6>2. c = L[h]  BY <1>1, <1>3, <1>8, <5>2, <6>1 DEF NodesRight
          <6> QED BY <1>5, <2>2, <3>1, <4>2, <5>1, <5>2, <6>2
        <5>3. CASE ~ (own[x] = h /\ N[c] = NULL)
          <6>1. K[own[x]] = L[own[x]]  BY <1>5, <3>1, <5>3
          <6> QED BY <3>1, <5>1, <6>1
        <5> QED BY <5>2, <5>3
      <4> QED BY <4>1, <4>2
    <3>4. M[x] # NULL => M[x] \in live \cup {n} /\ mine[M[x]] = own[x]
      <4>1. CASE x = c
        <5>1. own[x] = h /\ M[x] = n  BY <1>1, <1>3, <1>5, <3>0, <4>1
        <5> QED BY <1>5, <5>1
      <4>2. CASE x # c  BY <1>5, <2>0, <3>1, <4>2
      <4> QED BY <4>1, <4>2
    <3>5. x = M[own[x]] \/ x \in new[M[own[x]]]
      <4>1. CASE own[x] = c
        <5>1. c = h /\ M[c] = n /\ N[c] # NULL  BY <1>3, <1>5, <3>1, <3>2, <4>1
        <5>2. x \in down  BY <3>1, <4>1, <5>1 DEF down, From
        <5> QED BY <1>6, <4>1, <5>1, <5>2
      <4>2. CASE own[x] # c
        <5>1. own[x] \in Cell  BY <3>1 DEF Cell
        <5>2. M[own[x]] = N[own[x]]  BY <1>5, <4>2, <5>1
        <5>3. N[own[x]] # NULL /\ N[own[x]] \in live  BY <1>8, <3>0, <3>1 DEF HeadsRight
        <5> QED BY <1>1, <1>7, <3>1, <5>2, <5>3
      <4> QED BY <4>1, <4>2
    <3> QED BY <3>0, <3>1, <3>3, <3>4, <3>5
  <2> QED BY <2>1, <2>2
<1>13. OwnersAgree(new, live \cup {n}, mine)
  <2> SUFFICES ASSUME NEW x \in live \cup {n}, NEW y \in live \cup {n}, y \in new[x]
               PROVE  mine[x] = mine[y]
    BY DEF OwnersAgree
  <2>1. CASE x = n
    <3>1. y \in down /\ N[c] # NULL /\ (y = N[c] \/ y \in after[N[c]])
      BY <1>6, <2>1 DEF down, From
    <3>2. y # n  BY <1>1, <1>6, <1>9, <3>1
    <3>3. own[y] = h  BY <1>8, <1>9, <3>1, <3>2 DEF OwnersAgree
    <3> QED BY <1>5, <2>1, <3>2, <3>3
  <2>2. CASE x # n /\ y = n
    <3>1. x \in up /\ x \in live  BY <1>1, <1>6, <2>2
    <3>2. c \in live  BY CkAssumption, <1>1, <1>3, <3>1 DEF up, Before, Ordered
    <3>3. x = c \/ c \in after[x]  BY <3>1 DEF up, Before
    <3>4. own[x] = h  BY <1>1, <1>3, <1>8, <3>1, <3>2, <3>3 DEF OwnersAgree
    <3> QED BY <1>5, <2>2, <3>1, <3>4
  <2>3. CASE x # n /\ y # n
    <3>1. x \in live /\ y \in live /\ y \in after[x]  BY <1>1, <1>6, <2>3
    <3>2. own[x] = own[y]  BY <1>8, <3>1 DEF OwnersAgree
    <3> QED BY <1>5, <3>1, <3>2
  <2> QED BY <2>1, <2>2, <2>3
<1>14. OneBefore(M, live \cup {n})
  <2>1. \A x \in Heads \cup live : N[x] # n
    BY <1>1, <1>8 DEF HeadsRight, NodesRight
  <2>2. \A x \in Heads \cup live : x \in Cell /\ x # n  BY <1>1 DEF Cell
  <2>3. \A x, y \in Heads \cup live : N[x] = N[y] /\ N[x] # NULL => x = y
    BY <1>8 DEF OneBefore
  <2>4. N[c] # n  BY <1>3, <2>1
  <2> SUFFICES ASSUME NEW x \in Heads \cup (live \cup {n}), NEW y \in Heads \cup (live \cup {n}),
                      M[x] = M[y], M[x] # NULL
               PROVE  x = y
    BY DEF OneBefore
  <2>5. CASE x = c \/ y = c
    BY <1>3, <1>5, <2>1, <2>2, <2>4, <2>5
  <2>6. CASE x # c /\ y # c /\ (x = n \/ y = n)
    BY <1>3, <1>5, <2>2, <2>3, <2>6
  <2>7. CASE x # c /\ y # c /\ x # n /\ y # n
    BY <1>5, <2>2, <2>3, <2>7
  <2> QED BY <2>5, <2>6, <2>7
<1> QED BY <1>4, <1>11, <1>12, <1>13, <1>14 DEF Regular

(* A node that has been taken off is left out: c links to the next one.    *)
LEMMA GraphRemove ==
    ASSUME retired \subseteq Entry, NEW after, NEW live, NEW N,
           N \in [Cell -> Entry \cup {NULL}], Ordered(after, live), Graph(N, after, live),
           NEW c \in Heads \cup live, N[c] \in retired
    PROVE  Graph(Put(N, c, N[N[c]]), after, live)
<1> DEFINE m == N[c]
           M == Put(N, c, N[m])
<1>1. /\ live \subseteq Entry \ retired /\ Kept(live) \subseteq Entry
      /\ \A x \in Heads \cup Kept(live) : N[x] # NULL =>
            N[x] \in Kept(live) /\ (x \in Entry => N[x] \in after[x])
      /\ \A x \in Entry : \A y \in after[x] \cap live :
            N[x] # NULL /\ (y = N[x] \/ y \in after[N[x]])
  BY DEF Graph, Kept
<1>2. /\ m \in Kept(live) /\ m \in Entry /\ m # NULL /\ m \notin live
      /\ c \in Cell /\ c \in Heads \cup Kept(live)
  BY CkAssumption, <1>1 DEF Kept, Cell
<1>3. M[c] = N[m] /\ \A x \in Cell : x # c => M[x] = N[x]
  BY <1>2 DEF Put
<1> HIDE DEF M
<1>4. ASSUME NEW x \in Heads \cup Kept(live), M[x] # NULL
      PROVE  M[x] \in Kept(live) /\ (x \in Entry => M[x] \in after[x])
  <2>0. x \in Cell  BY <1>1 DEF Cell
  <2>1. CASE x = c
    <3>1. N[m] \in Kept(live) /\ N[m] \in after[m]  BY <1>1, <1>2, <1>3, <1>4, <2>1
    <3>2. c \in Entry => m \in after[c]  BY <1>1, <1>2
    <3>3. c \in Entry => after[m] \subseteq after[c]  BY <3>2 DEF Ordered
    <3> QED BY <1>3, <2>1, <3>1, <3>3
  <2>2. CASE x # c  BY <1>1, <1>3, <1>4, <2>0, <2>2
  <2> QED BY <2>1, <2>2
<1>5. ASSUME NEW x \in Entry, NEW y \in after[x] \cap live
      PROVE  M[x] # NULL /\ (y = M[x] \/ y \in after[M[x]])
  <2>0. x \in Cell  BY DEF Cell
  <2>1. N[x] # NULL /\ (y = N[x] \/ y \in after[N[x]])  BY <1>1
  <2>2. CASE x = c
    <3>1. y \in after[m] /\ y \in live  BY <1>2, <2>1, <2>2
    <3>2. N[m] # NULL /\ (y = N[m] \/ y \in after[N[m]])  BY <1>1, <1>2, <3>1
    <3> QED BY <1>3, <2>2, <3>2
  <2>3. CASE x # c  BY <1>3, <2>0, <2>1, <2>3
  <2> QED BY <2>2, <2>3
<1>6. Graph(M, after, live)  BY <1>1, <1>4, <1>5 DEF Graph
<1> QED BY <1>6 DEF M

(* The lists are without the node, and nothing else changes.               *)
LEMMA RegularRemove ==
    ASSUME NEW after, NEW live, NEW own, NEW N, NEW L,
           NEW m \in Entry \ live, live \subseteq Entry, Graph(N, after, live),
           Regular(N, L, after, live \cup {m}, own),
           NEW h \in Heads, NEW c \in Cell, PartOf(c, h, live, own), N[c] = m, own[m] = h,
           NEW M, M = Put(N, c, N[m]),
           NEW K, K = (IF N[m] = NULL THEN Put(L, h, c) ELSE L)
    PROVE  Regular(M, K, after, live, own)
<1> DEFINE all == live \cup {m}
           e == N[m]
<1>1. /\ m # NULL /\ m \notin Heads /\ NULL \notin Heads
      /\ \A x \in live : x # NULL /\ x \notin Heads /\ x # m
      /\ c # m /\ c \in Heads \cup live /\ (c \in Heads => c = h)
      /\ (c \notin Heads => own[c] = h)
  BY CkAssumption DEF Cell, PartOf
<1>2. /\ N \in [Cell -> Entry \cup {NULL}] /\ L \in [Heads -> Cell]
      /\ own \in [Entry -> Heads \cup {NULL}]
      /\ HeadsRight(N, L, all, own) /\ NodesRight(N, L, after, all, own)
      /\ OwnersAgree(after, all, own) /\ OneBefore(N, all)
  BY DEF Regular
<1>3. m \in Cell /\ e \in Entry \cup {NULL} /\ \A x \in all : x \in Cell
  BY <1>2 DEF Cell
<1>4. M \in [Cell -> Entry \cup {NULL}] /\ K \in [Heads -> Cell]
  BY <1>2, <1>3 DEF Cell, Put
<1>5. /\ M[c] = e /\ \A x \in Cell : x # c => M[x] = N[x]
      /\ K[h] = IF e = NULL THEN c ELSE L[h]
      /\ \A k \in Heads : k # h => K[k] = L[k]
  BY <1>2, <1>3 DEF Cell, Put
<1> HIDE DEF e, all
<1>6. /\ \A x \in Heads \cup all : N[x] = m => x = c
      /\ \A x, y \in Heads \cup all : N[x] = N[y] /\ N[x] # NULL => x = y
      /\ N[c] = m /\ N[m] = e
  <2>1. \A x, y \in Heads \cup all : N[x] = N[y] /\ N[x] # NULL => x = y
    BY <1>2 DEF OneBefore
  <2> QED BY <1>1, <2>1 DEF all, e
<1>7. /\ e = NULL <=> m = L[h]
      /\ e # NULL => e \in live /\ own[e] = h
      /\ m = N[h] \/ m \in after[N[h]]
  <2>1. /\ e = NULL <=> m = L[h]
        /\ e # NULL => e \in all /\ own[e] = h
        /\ m = N[h] \/ m \in after[N[h]]
    BY <1>2 DEF NodesRight, e, all
  <2>2. e # m
    <3>1. e = m => m = c  BY <1>6 DEF all
    <3> QED BY <1>1, <3>1
  <2> QED BY <2>1, <2>2 DEF all
<1>8. c # h => /\ N[h] # m /\ N[h] \in live /\ own[N[h]] = h /\ M[h] = N[h]
               /\ c \in live /\ own[c] = h
  <2> SUFFICES ASSUME c # h
               PROVE /\ N[h] # m /\ N[h] \in live /\ own[N[h]] = h /\ M[h] = N[h]
                     /\ c \in live /\ own[c] = h
    OBVIOUS
  <2>1. c \in live /\ own[c] = h  BY <1>1
  <2>2. N[h] # m  BY <1>6
  <2>3. N[h] # NULL /\ N[h] \in all /\ own[N[h]] = h  BY <1>2, <2>1 DEF HeadsRight, all
  <2>4. M[h] = N[h]  BY <1>5 DEF Cell
  <2> QED BY <2>1, <2>2, <2>3, <2>4 DEF all
<1>9. \A x \in live : x \in after[m] => e # NULL /\ (x = e \/ x \in after[e])
  BY DEF Graph, e
<1>10. \A x \in live : own[x] = c => /\ c = h /\ e # NULL
                                     /\ x = e \/ x \in after[e]
  <2> SUFFICES ASSUME NEW x \in live, own[x] = c
               PROVE  c = h /\ e # NULL /\ (x = e \/ x \in after[e])
    OBVIOUS
  <2>1. own[x] \in Heads /\ (x = N[own[x]] \/ x \in after[N[own[x]]])
    BY <1>2 DEF NodesRight, all
  <2>2. c = h /\ x \in after[m]  BY <1>1, <1>6, <2>1
  <2> QED BY <1>9, <2>2
<1>11. HeadsRight(M, K, live, own)
  <2> SUFFICES ASSUME NEW k \in Heads
               PROVE  /\ M[k] = NULL <=> K[k] = k
                      /\ M[k] = NULL => \A x \in live : own[x] # k
                      /\ M[k] # NULL => /\ M[k] \in live /\ own[M[k]] = k
                                        /\ K[k] \in live /\ own[K[k]] = k
    BY DEF HeadsRight
  <2>0. k \in Cell  BY DEF Cell
  <2>1. /\ N[k] = NULL <=> L[k] = k
        /\ N[k] = NULL => \A x \in all : own[x] # k
        /\ N[k] # NULL => N[k] \in all /\ own[N[k]] = k /\ L[k] \in all /\ own[L[k]] = k
    BY <1>2 DEF HeadsRight
  <2>2. CASE k # h
    <3>1. M[k] = N[k] /\ K[k] = L[k] /\ k # c  BY <1>1, <1>5, <2>0, <2>2
    <3>2. N[k] # NULL => N[k] # m /\ L[k] # m  BY <2>1, <2>2
    <3> QED BY <2>1, <3>1, <3>2 DEF all
  <2>3. CASE k = h /\ c = h
    <3>1. M[h] = e /\ N[h] = m  BY <1>5, <1>6, <2>3
    <3>2. e = NULL => \A x \in live : own[x] # h  BY <1>10, <2>3
    <3>3. e # NULL => L[h] # m /\ L[h] \in all /\ own[L[h]] = h /\ K[h] = L[h]
      BY <1>1, <1>5, <1>7, <2>1, <2>3, <3>1
    <3>4. e = NULL => K[h] = h  BY <1>5, <2>3
    <3>5. e # NULL => L[h] \in live /\ L[h] # h  BY <1>1, <3>3 DEF all
    <3> QED BY <1>7, <2>3, <3>1, <3>2, <3>3, <3>4, <3>5
  <2>4. CASE k = h /\ c # h
    <3>1. /\ M[h] \in live /\ own[M[h]] = h /\ c \in live /\ own[c] = h
          /\ N[h] # NULL /\ N[h] = M[h]
      BY <1>1, <1>8, <2>4
    <3>2. K[h] \in live /\ own[K[h]] = h
      <4>1. e # NULL => L[h] # m  BY <1>7
      <4> QED BY <1>5, <2>1, <2>4, <3>1, <4>1 DEF all
    <3> QED BY <1>1, <2>4, <3>1, <3>2
  <2> QED BY <2>2, <2>3, <2>4
<1>12. NodesRight(M, K, after, live, own)
  <2> SUFFICES ASSUME NEW x \in live
               PROVE  /\ own[x] \in Heads
                      /\ M[x] = NULL <=> x = K[own[x]]
                      /\ M[x] # NULL => M[x] \in live /\ own[M[x]] = own[x]
                      /\ x = M[own[x]] \/ x \in after[M[own[x]]]
    BY DEF NodesRight
  <2>0. x \in Cell /\ x \in all  BY <1>3 DEF all
  <2>1. /\ own[x] \in Heads
        /\ N[x] = NULL <=> x = L[own[x]]
        /\ N[x] # NULL => N[x] \in all /\ own[N[x]] = own[x]
        /\ x = N[own[x]] \/ x \in after[N[own[x]]]
    BY <1>2, <2>0 DEF NodesRight
  <2>2. M[x] = NULL <=> x = K[own[x]]
    <3>1. CASE x = c
      <4>1. own[x] = h /\ M[x] = e /\ N[x] # NULL  BY <1>1, <1>5, <1>6, <3>1
      <4> QED BY <1>5, <2>1, <3>1, <4>1
    <3>2. CASE x # c /\ own[x] = h /\ e = NULL
      <4>1. L[h] = m /\ K[h] = c /\ M[x] = N[x]  BY <1>5, <1>7, <2>0, <3>2
      <4> QED BY <1>1, <2>1, <3>2, <4>1
    <3>3. CASE x # c /\ ~ (own[x] = h /\ e = NULL)
      <4>1. K[own[x]] = L[own[x]] /\ M[x] = N[x]  BY <1>5, <2>0, <2>1, <3>3
      <4> QED BY <2>1, <4>1
    <3> QED BY <3>1, <3>2, <3>3
  <2>3. M[x] # NULL => M[x] \in live /\ own[M[x]] = own[x]
    <3>1. CASE x = c  BY <1>1, <1>5, <1>7, <3>1
    <3>2. CASE x # c
      <4>1. M[x] = N[x] /\ N[x] # m  BY <1>5, <1>6, <2>0, <3>2
      <4> QED BY <2>1, <4>1 DEF all
    <3> QED BY <3>1, <3>2
  <2>4. x = M[own[x]] \/ x \in after[M[own[x]]]
    <3>1. CASE own[x] = c  BY <1>5, <1>10, <3>1
    <3>2. CASE own[x] # c
      <4>1. own[x] \in Cell  BY <2>1 DEF Cell
      <4> QED BY <1>5, <2>1, <3>2, <4>1
    <3> QED BY <3>1, <3>2
  <2> QED BY <2>1, <2>2, <2>3, <2>4
<1>13. OwnersAgree(after, live, own)  BY <1>2 DEF OwnersAgree, all
<1>14. OneBefore(M, live)
  <2>1. \A x \in Heads \cup live : x \in Cell /\ x # m /\ x \in Heads \cup all
    BY <1>1, <1>3 DEF Cell, all
  <2>2. m \in Heads \cup all  BY DEF all
  <2> SUFFICES ASSUME NEW x \in Heads \cup live, NEW y \in Heads \cup live,
                      M[x] = M[y], M[x] # NULL
               PROVE  x = y
    BY DEF OneBefore
  <2>3. CASE x = c \/ y = c  BY <1>5, <1>6, <2>1, <2>2, <2>3
  <2>4. CASE x # c /\ y # c  BY <1>5, <1>6, <2>1, <2>4
  <2> QED BY <2>3, <2>4
<1> QED BY <1>4, <1>11, <1>12, <1>13, <1>14 DEF Regular

(* The last node c of one list links to the first node of another.         *)
LEMMA GraphJoin ==
    ASSUME retired \subseteq Entry, NEW after, NEW live, NEW own, NEW N,
           N \in [Cell -> Entry \cup {NULL}], Ordered(after, live), Graph(N, after, live),
           OwnersAgree(after, live, own), NEW c \in live, N[c] = NULL, NEW d \in live, own[c] # own[d],
           NEW new, new = Joined(after, Before(c, after), From(d, after))
    PROVE  /\ Ordered(new, live) /\ Graph(Put(N, c, d), new, live)
           /\ \A x \in Entry : after[x] \subseteq new[x]
<1> DEFINE up == Before(c, after)
           down == From(d, after)
           M == Put(N, c, d)
<1>1. /\ live \subseteq Entry \ retired /\ Kept(live) \subseteq Entry
      /\ live \subseteq Kept(live) /\ live \subseteq Entry
      /\ \A x \in Heads \cup Kept(live) : N[x] # NULL =>
            N[x] \in Kept(live) /\ (x \in Entry => N[x] \in after[x])
      /\ \A x \in Entry : \A y \in after[x] \cap live :
            N[x] # NULL /\ (y = N[x] \/ y \in after[N[x]])
  BY DEF Graph, Kept
<1>2. d # NULL /\ c \in Cell  BY CkAssumption, <1>1 DEF Cell
<1>3. /\ up \subseteq Kept(live) /\ down \subseteq Kept(live)
      /\ \A x \in Entry : \A y \in after[x] : y \in up => x \in up
      /\ \A y \in down : after[y] \subseteq down
  BY <1>1, BeforeAndFrom
<1>4. c \in up /\ d \in down /\ down = {d} \cup after[d]  BY <1>1, <1>2 DEF Before, From
<1>5. up \cap down = {}
  <2> SUFFICES ASSUME NEW x \in Entry, x \in up, x \in down  PROVE FALSE
    BY <1>1, <1>3
  <2>1. c = d \/ c \in after[d]
    <3>1. x = c \/ c \in after[x]  BY DEF Before
    <3>2. after[x] \subseteq down  BY <1>3
    <3> QED BY <1>4, <3>1, <3>2
  <2> QED BY <2>1 DEF OwnersAgree
<1>6. Ordered(new, live)
  <2> HIDE DEF up, down
  <2>1. new = Joined(after, up, down)  BY DEF up, down
  <2> QED BY <1>1, <1>3, <1>5, <2>1, OrderJoin
<1>7. \A x \in Entry : new[x] = IF x \in up THEN after[x] \cup down ELSE after[x]
  BY DEF Joined
<1>8. \A x \in Entry : after[x] \subseteq new[x]  BY <1>7
<1>9. M[c] = d /\ \A x \in Cell : x # c => M[x] = N[x]
  BY <1>2 DEF Put
<1> HIDE DEF M, up, down
<1>10. ASSUME NEW x \in Heads \cup Kept(live), M[x] # NULL
       PROVE  M[x] \in Kept(live) /\ (x \in Entry => M[x] \in new[x])
  <2>0. x \in Cell  BY <1>1 DEF Cell
  <2>1. CASE x = c  BY <1>1, <1>4, <1>7, <1>9, <2>1
  <2>2. CASE x # c  BY <1>1, <1>8, <1>9, <1>10, <2>0, <2>2
  <2> QED BY <2>1, <2>2
<1>11. ASSUME NEW x \in Entry, NEW y \in new[x] \cap live
       PROVE  M[x] # NULL /\ (y = M[x] \/ y \in new[M[x]])
  <2>0. x \in Cell  BY DEF Cell
  <2>1. CASE x = c
    <3>1. y \notin after[c]  BY <1>1, <2>1
    <3>2. y \in down  BY <1>7, <2>1, <3>1
    <3>3. y = d \/ y \in after[d]  BY <1>4, <3>2
    <3> QED BY <1>1, <1>2, <1>8, <1>9, <2>1, <3>3
  <2>2. CASE x # c /\ y \in after[x]
    <3>1. N[x] # NULL /\ (y = N[x] \/ y \in after[N[x]])  BY <1>1, <2>2
    <3>2. N[x] \in Entry  BY <2>0, <3>1
    <3> QED BY <1>8, <1>9, <2>0, <2>2, <3>1, <3>2
  <2>3. CASE x # c /\ y \notin after[x]
    <3>1. x \in up /\ y \in down  BY <1>7, <2>3
    <3>2. c \in after[x]  BY <2>3, <3>1 DEF up, Before
    <3>3. N[x] # NULL /\ (c = N[x] \/ c \in after[N[x]])  BY <1>1, <3>2
    <3>4. N[x] \in Entry /\ N[x] \in up  BY <2>0, <3>3 DEF up, Before
    <3>5. y \in new[N[x]]  BY <1>7, <3>1, <3>4
    <3> QED BY <1>9, <2>0, <2>3, <3>3, <3>5
  <2> QED BY <2>1, <2>2, <2>3
<1>12. Graph(M, new, live)  BY <1>1, <1>10, <1>11 DEF Graph
<1> QED BY <1>6, <1>8, <1>12 DEF M

(* What was h's is g's.                                                    *)
Given(own, h, g) == [x \in Entry |-> IF own[x] = h THEN g ELSE own[x]]

(* Of two lists that are not empty the first has all, the second nothing.  *)
LEMMA RegularJoin ==
    ASSUME retired \subseteq Entry, NEW after, NEW live, NEW own, NEW N, NEW L,
           Ordered(after, live), live \subseteq Entry, Regular(N, L, after, live, own),
           NEW g \in Heads, NEW h \in Heads, g # h, N[g] # NULL, N[h] # NULL,
           NEW c, c = L[g], NEW d, d = N[h],
           NEW new, new = Joined(after, Before(c, after), From(d, after)),
           NEW M, M = Put(Put(N, c, d), h, NULL),
           NEW K, K = Put(Put(L, g, L[h]), h, h),
           NEW mine, mine = Given(own, h, g)
    PROVE  Regular(M, K, new, live, mine)
<1> DEFINE up == Before(c, after)
           down == From(d, after)
<1>1. /\ N \in [Cell -> Entry \cup {NULL}] /\ L \in [Heads -> Cell]
      /\ own \in [Entry -> Heads \cup {NULL}]
      /\ HeadsRight(N, L, live, own) /\ NodesRight(N, L, after, live, own)
      /\ OwnersAgree(after, live, own) /\ OneBefore(N, live)
  BY DEF Regular
<1>2. \A x \in live : x \in Entry /\ x \in Cell /\ x # NULL /\ x \notin Heads
  BY CkAssumption DEF Cell
<1>3. c \in live /\ own[c] = g /\ d \in live /\ own[d] = h /\ N[c] = NULL
  <2>1. c \in live /\ own[c] = g /\ d \in live /\ own[d] = h  BY <1>1 DEF HeadsRight
  <2> QED BY <1>1, <2>1 DEF NodesRight
<1>4. /\ M \in [Cell -> Entry \cup {NULL}] /\ K \in [Heads -> Cell]
      /\ mine \in [Entry -> Heads \cup {NULL}]
  BY <1>1, <1>2, <1>3 DEF Cell, Put, Given
<1>5. /\ M[c] = d /\ M[h] = NULL /\ \A x \in Cell : x # c /\ x # h => M[x] = N[x]
      /\ K[g] = L[h] /\ K[h] = h /\ \A k \in Heads : k # g /\ k # h => K[k] = L[k]
      /\ \A x \in Entry : mine[x] = IF own[x] = h THEN g ELSE own[x]
  BY <1>1, <1>2, <1>3 DEF Cell, Put, Given
<1>6. /\ c \in up /\ down = {d} \cup after[d]
      /\ \A x \in Entry : new[x] = IF x \in up THEN after[x] \cup down ELSE after[x]
  BY <1>2, <1>3 DEF Before, From, Joined
<1> HIDE DEF up, down
<1>7. HeadsRight(M, K, live, mine)
  <2> SUFFICES ASSUME NEW k \in Heads
               PROVE  /\ M[k] = NULL <=> K[k] = k
                      /\ M[k] = NULL => \A x \in live : mine[x] # k
                      /\ M[k] # NULL => /\ M[k] \in live /\ mine[M[k]] = k
                                        /\ K[k] \in live /\ mine[K[k]] = k
    BY DEF HeadsRight
  <2>0. k \in Cell /\ k # c  BY <1>2, <1>3 DEF Cell
  <2>1. \A j \in Heads : /\ N[j] = NULL <=> L[j] = j
                         /\ N[j] = NULL => \A x \in live : own[x] # j
                         /\ N[j] # NULL => /\ N[j] \in live /\ own[N[j]] = j
                                           /\ L[j] \in live /\ own[L[j]] = j
    BY <1>1 DEF HeadsRight
  <2>2. CASE k = h  BY <1>2, <1>5, <2>2
  <2>3. CASE k = g
    <3>1. M[k] = N[g] /\ K[k] = L[h]  BY <1>5, <2>0, <2>3
    <3>2. N[g] \in live /\ own[N[g]] = g /\ L[h] \in live /\ own[L[h]] = h  BY <2>1
    <3>3. mine[N[g]] = g /\ mine[L[h]] = g /\ L[h] # g  BY <1>2, <1>5, <3>2
    <3> QED BY <2>3, <3>1, <3>2, <3>3
  <2>4. CASE k # g /\ k # h
    <3>1. M[k] = N[k] /\ K[k] = L[k]  BY <1>5, <2>0, <2>4
    <3>2. \A x \in live : own[x] = k <=> mine[x] = k  BY <1>2, <1>5, <2>4
    <3> QED BY <2>1, <3>1, <3>2
  <2> QED BY <2>2, <2>3, <2>4
<1>8. NodesRight(M, K, new, live, mine)
  <2> SUFFICES ASSUME NEW x \in live
               PROVE  /\ mine[x] \in Heads
                      /\ M[x] = NULL <=> x = K[mine[x]]
                      /\ M[x] # NULL => M[x] \in live /\ mine[M[x]] = mine[x]
                      /\ x = M[mine[x]] \/ x \in new[M[mine[x]]]
    BY DEF NodesRight
  <2>0. x \in Entry /\ x \in Cell /\ x # h /\ x # NULL  BY <1>2
  <2>1. /\ own[x] \in Heads
        /\ N[x] = NULL <=> x = L[own[x]]
        /\ N[x] # NULL => N[x] \in live /\ own[N[x]] = own[x]
        /\ x = N[own[x]] \/ x \in after[N[own[x]]]
    BY <1>1 DEF NodesRight
  <2>2. mine[x] \in Heads  BY <1>5, <2>0, <2>1
  <2>3. own[L[h]] = h  BY <1>1 DEF HeadsRight
  <2>4. M[x] = NULL <=> x = K[mine[x]]
    <3>1. CASE x = c
      <4>1. mine[x] = g /\ M[x] # NULL  BY <1>2, <1>3, <1>5, <2>0, <3>1
      <4> QED BY <1>3, <1>5, <2>3, <3>1, <4>1
    <3>2. CASE x # c
      <4>1. M[x] = N[x]  BY <1>5, <2>0, <3>2
      <4>2. CASE own[x] = h  BY <1>5, <2>0, <2>1, <4>1, <4>2
      <4>3. CASE own[x] = g
        <5>1. N[x] # NULL  BY <2>1, <3>2, <4>3
        <5> QED BY <1>5, <2>0, <2>3, <4>1, <4>3, <5>1
      <4>4. CASE own[x] # h /\ own[x] # g
        <5>1. mine[x] = own[x] /\ K[own[x]] = L[own[x]]  BY <1>5, <2>0, <2>1, <4>4
        <5> QED BY <2>1, <4>1, <5>1
      <4> QED BY <4>2, <4>3, <4>4
    <3> QED BY <3>1, <3>2
  <2>5. M[x] # NULL => M[x] \in live /\ mine[M[x]] = mine[x]
    <3>1. CASE x = c  BY <1>2, <1>3, <1>5, <3>1
    <3>2. CASE x # c
      <4>1. M[x] = N[x]  BY <1>5, <2>0, <3>2
      <4>2. N[x] # NULL => N[x] \in Entry  BY <1>2, <2>1
      <4> QED BY <1>5, <2>0, <2>1, <4>1, <4>2
    <3> QED BY <3>1, <3>2
  <2>6. x = M[mine[x]] \/ x \in new[M[mine[x]]]
    <3>0. /\ \A k \in Heads : k # h => M[k] = N[k]
          /\ N[g] \in live /\ own[x] # NULL /\ N[own[x]] \in live
      <4>1. \A k \in Heads : k \in Cell /\ k # c  BY <1>2, <1>3 DEF Cell
      <4>2. N[g] \in live /\ N[own[x]] \in live  BY <1>1, <2>1 DEF HeadsRight
      <4>3. NULL \notin Heads  BY CkAssumption DEF Cell
      <4> QED BY <1>5, <2>1, <4>1, <4>2, <4>3
    <3>1. CASE own[x] = h
      <4>1. c = N[g] \/ c \in after[N[g]]  BY <1>1, <1>3 DEF NodesRight
      <4>2. N[g] \in up  BY <1>2, <3>0, <4>1 DEF up, Before
      <4>3. x \in down  BY <1>6, <2>1, <3>1
      <4>4. x \in new[N[g]]  BY <1>2, <1>6, <3>0, <4>2, <4>3
      <4> QED BY <1>5, <2>0, <3>0, <3>1, <4>4
    <3>2. CASE own[x] # h
      <4>1. mine[x] = own[x] /\ M[own[x]] = N[own[x]]  BY <1>5, <2>0, <2>1, <3>0, <3>2
      <4>2. after[N[own[x]]] \subseteq new[N[own[x]]]  BY <1>2, <1>6, <3>0
      <4> QED BY <2>1, <4>1, <4>2
    <3> QED BY <3>1, <3>2
  <2> QED BY <2>2, <2>4, <2>5, <2>6
<1>9. OwnersAgree(new, live, mine)
  <2> SUFFICES ASSUME NEW x \in live, NEW y \in live, y \in new[x]
               PROVE  mine[x] = mine[y]
    BY DEF OwnersAgree
  <2>1. CASE y \in after[x]
    <3>1. own[x] = own[y]  BY <1>1, <2>1 DEF OwnersAgree
    <3> QED BY <1>2, <1>5, <3>1
  <2>2. CASE y \notin after[x]
    <3>1. x \in up /\ y \in down  BY <1>2, <1>6, <2>2
    <3>2. x = c \/ c \in after[x]  BY <3>1 DEF up, Before
    <3>3. own[x] = g  BY <1>1, <1>3, <3>2 DEF OwnersAgree
    <3>4. own[y] = h  BY <1>1, <1>3, <1>6, <3>1 DEF OwnersAgree
    <3> QED BY <1>2, <1>5, <3>3, <3>4
  <2> QED BY <2>1, <2>2
<1>10. OneBefore(M, live)
  <2>1. \A x \in Heads \cup live : x \in Cell  BY <1>2 DEF Cell
  <2>2. \A x, y \in Heads \cup live : N[x] = N[y] /\ N[x] # NULL => x = y
    BY <1>1 DEF OneBefore
  <2> SUFFICES ASSUME NEW x \in Heads \cup live, NEW y \in Heads \cup live,
                      M[x] = M[y], M[x] # NULL
               PROVE  x = y
    BY DEF OneBefore
  <2>3. x # h /\ y # h  BY <1>5
  <2>4. CASE x = c \/ y = c
    <3>1. \A z \in Heads \cup live : z # h => N[z] # d  BY <2>2
    <3> QED BY <1>5, <2>1, <2>3, <2>4, <3>1
  <2>5. CASE x # c /\ y # c  BY <1>5, <2>1, <2>2, <2>3, <2>5
  <2> QED BY <2>4, <2>5
<1> QED BY <1>4, <1>7, <1>8, <1>9, <1>10 DEF Regular

(* Two lists have changed places: what CONCAT to an empty list, SWAP, and  *)
(* MOVE with the INIT after it will have done.                             *)
Swapped(N, g, h) == [N EXCEPT ![g] = N[h], ![h] = N[g]]
SwappedEnds(N, L, g, h) == [L EXCEPT ![g] = IF N[h] = NULL THEN g ELSE L[h],
                                     ![h] = IF N[g] = NULL THEN h ELSE L[g]]
Exchanged(own, g, h) ==
    [x \in Entry |-> IF own[x] = h THEN g ELSE IF own[x] = g THEN h ELSE own[x]]

(* The lists keep their nodes in order, under the other's head.            *)
LEMMA RegularSwap ==
    ASSUME NEW after, NEW live, NEW own, NEW N, NEW L,
           live \subseteq Entry, Regular(N, L, after, live, own),
           NEW g \in Heads, NEW h \in Heads, g # h,
           NEW M, M = Swapped(N, g, h), NEW K, K = SwappedEnds(N, L, g, h),
           NEW mine, mine = Exchanged(own, g, h)
    PROVE  Regular(M, K, after, live, mine)
<1>1. /\ N \in [Cell -> Entry \cup {NULL}] /\ L \in [Heads -> Cell]
      /\ own \in [Entry -> Heads \cup {NULL}]
      /\ HeadsRight(N, L, live, own) /\ NodesRight(N, L, after, live, own)
      /\ OwnersAgree(after, live, own) /\ OneBefore(N, live)
  BY DEF Regular
<1>2. /\ \A x \in live : x \in Entry /\ x \in Cell /\ x # NULL /\ x \notin Heads
      /\ NULL \notin Heads
  BY CkAssumption DEF Cell
<1>4. /\ M \in [Cell -> Entry \cup {NULL}] /\ K \in [Heads -> Cell]
      /\ mine \in [Entry -> Heads \cup {NULL}]
  BY <1>1 DEF Cell, Swapped, SwappedEnds, Exchanged
<1>5. /\ M[g] = N[h] /\ M[h] = N[g] /\ \A x \in Cell : x # g /\ x # h => M[x] = N[x]
      /\ K[g] = IF N[h] = NULL THEN g ELSE L[h]
      /\ K[h] = IF N[g] = NULL THEN h ELSE L[g]
      /\ \A k \in Heads : k # g /\ k # h => K[k] = L[k]
      /\ \A x \in Entry : mine[x] = IF own[x] = h THEN g
                                   ELSE IF own[x] = g THEN h ELSE own[x]
  BY <1>1 DEF Cell, Swapped, SwappedEnds, Exchanged
<1>6. \A j \in Heads : /\ N[j] = NULL <=> L[j] = j
                       /\ N[j] = NULL => \A x \in live : own[x] # j
                       /\ N[j] # NULL => /\ N[j] \in live /\ own[N[j]] = j
                                         /\ L[j] \in live /\ own[L[j]] = j
  BY <1>1 DEF HeadsRight
<1>7. HeadsRight(M, K, live, mine)
  <2> SUFFICES ASSUME NEW k \in Heads
               PROVE  /\ M[k] = NULL <=> K[k] = k
                      /\ M[k] = NULL => \A x \in live : mine[x] # k
                      /\ M[k] # NULL => /\ M[k] \in live /\ mine[M[k]] = k
                                        /\ K[k] \in live /\ mine[K[k]] = k
    BY DEF HeadsRight
  <2>0. k \in Cell  BY DEF Cell
  <2>1. CASE k = g
    <3>1. \A x \in live : own[x] = h <=> mine[x] = g  BY <1>2, <1>5
    <3>2. M[k] = N[h]  BY <1>5, <2>1
    <3>3. N[h] # NULL => K[k] = L[h] /\ L[h] # g  BY <1>2, <1>5, <1>6, <2>1
    <3> QED BY <1>5, <1>6, <2>1, <3>1, <3>2, <3>3
  <2>2. CASE k = h
    <3>1. \A x \in live : own[x] = g <=> mine[x] = h  BY <1>2, <1>5
    <3>2. M[k] = N[g]  BY <1>5, <2>2
    <3>3. N[g] # NULL => K[k] = L[g] /\ L[g] # h  BY <1>2, <1>5, <1>6, <2>2
    <3> QED BY <1>5, <1>6, <2>2, <3>1, <3>2, <3>3
  <2>3. CASE k # g /\ k # h
    <3>1. M[k] = N[k] /\ K[k] = L[k]  BY <1>5, <2>0, <2>3
    <3>2. \A x \in live : own[x] = k <=> mine[x] = k  BY <1>2, <1>5, <2>3
    <3> QED BY <1>6, <3>1, <3>2
  <2> QED BY <2>1, <2>2, <2>3
<1>8. NodesRight(M, K, after, live, mine)
  <2> SUFFICES ASSUME NEW x \in live
               PROVE  /\ mine[x] \in Heads
                      /\ M[x] = NULL <=> x = K[mine[x]]
                      /\ M[x] # NULL => M[x] \in live /\ mine[M[x]] = mine[x]
                      /\ x = M[mine[x]] \/ x \in after[M[mine[x]]]
    BY DEF NodesRight
  <2>0. x \in Entry /\ x \in Cell /\ x # h /\ x # g  BY <1>2
  <2>1. /\ own[x] \in Heads
        /\ N[x] = NULL <=> x = L[own[x]]
        /\ N[x] # NULL => N[x] \in live /\ own[N[x]] = own[x]
        /\ x = N[own[x]] \/ x \in after[N[own[x]]]
    BY <1>1 DEF NodesRight
  <2>2. M[x] = N[x] /\ mine[x] \in Heads  BY <1>5, <2>0, <2>1
  <2>3. M[mine[x]] = N[own[x]] /\ K[mine[x]] = L[own[x]]
    <3>1. N[own[x]] # NULL  BY <1>6, <2>1
    <3>2. own[x] \in Cell  BY <2>1 DEF Cell
    <3> QED BY <1>5, <2>0, <2>1, <3>1, <3>2
  <2>4. N[x] # NULL => mine[N[x]] = mine[x]
    <3>1. N[x] # NULL => N[x] \in Entry  BY <1>2, <2>1
    <3> QED BY <1>5, <2>0, <2>1, <3>1
  <2> QED BY <2>1, <2>2, <2>3, <2>4
<1>9. OwnersAgree(after, live, mine)  BY <1>1, <1>2, <1>5 DEF OwnersAgree
<1>10. OneBefore(M, live)
  <2>1. \A x \in Heads \cup live : x \in Cell  BY <1>2 DEF Cell
  <2>2. \A x, y \in Heads \cup live : N[x] = N[y] /\ N[x] # NULL => x = y
    BY <1>1 DEF OneBefore
  <2>3. PICK f : f = [x \in Heads \cup live |-> IF x = g THEN h ELSE IF x = h THEN g ELSE x]
    OBVIOUS
  <2>4. \A x \in Heads \cup live : f[x] \in Heads \cup live /\ M[x] = N[f[x]]
    BY <1>5, <2>1, <2>3
  <2>5. \A x, y \in Heads \cup live : f[x] = f[y] => x = y  BY <2>3
  <2> QED BY <2>2, <2>4, <2>5 DEF OneBefore
<1> QED BY <1>4, <1>7, <1>8, <1>9, <1>10 DEF Regular

----------------------------------------------------------------------------
(* Whatever the writer is doing, the nodes on the chain of h are the first *)
(* and nodes after it.                                                     *)
LEMMA ChainForward ==
    ASSUME CkType, NEW after, NEW live, Ordered(after, live),
           Graph(ck_next, after, live), NEW h \in Heads, NEW n \in Entry, OnChain(h, n)
    PROVE  /\ ck_next[h] # NULL /\ ck_next[h] \in Kept(live) /\ n \in Kept(live)
           /\ n = ck_next[h] \/ n \in after[ck_next[h]]
<1> DEFINE S == From(ck_next[h], after)
           max == Cardinality(Entry) + 1
<1>1. max \in Nat  BY CkAssumption, FS_CardinalityType
<1>2. /\ Kept(live) \subseteq Entry /\ NULL \notin Kept(live) /\ live \subseteq Entry
      /\ ck_next[h] # NULL => ck_next[h] \in Kept(live)
  BY CkAssumption DEF Graph, CkType, Kept, Cell
<1>3. S \subseteq Kept(live) /\ \A y \in S : after[y] \subseteq S
  BY <1>2, BeforeAndFrom DEF CkType
<1>4. ck_next[h] \in S \cup {NULL}  BY DEF From
<1>5. \A x \in S : ck_next[x] \in S \cup {NULL}  BY <1>2, <1>3 DEF Graph
<1> HIDE DEF S, max
<1>6. Chain(ck_next, ck_next[h], max) \in Seq(S)
  <2>1. NULL \notin S  BY <1>2, <1>3
  <2> QED BY <1>1, <1>4, <1>5, <2>1, ChainFollows
<1>7. Elements(h) \in Seq(S)  BY <1>6 DEF Elements, FIRST, max
<1>8. n \in S  BY <1>7 DEF OnChain
<1>9. ck_next[h] # NULL  BY <1>8 DEF S, From
<1> QED BY <1>2, <1>3, <1>8, <1>9 DEF S, From

(* Between operations the chain of a head is the list that own says.       *)
LEMMA ChainOfList ==
    ASSUME CkType, NEW after, NEW live, NEW own, Ordered(after, live),
           Graph(ck_next, after, live), Regular(ck_next, last, after, live, own), NEW h \in Heads,
           NEW s, s = Elements(h)
    PROVE  /\ s \in Seq(Entry) /\ \A k \in 1..Len(s) : s[k] \in live /\ own[s[k]] = h
           /\ \A n \in Entry : OnChain(h, n) <=> n \in live /\ own[n] = h
           /\ s # <<>> => s[1] = ck_next[h] /\ ck_next[s[Len(s)]] = NULL
           /\ \A k \in 1..(Len(s) - 1) : ck_next[s[k]] = s[k + 1]
<1> DEFINE S == {x \in live : own[x] = h}
           max == Cardinality(Entry) + 1
<1>1. Cardinality(Entry) \in Nat /\ max \in Nat  BY CkAssumption, FS_CardinalityType
<1>2. /\ live \subseteq Entry /\ S \subseteq Entry /\ NULL \notin S
      /\ live \subseteq Kept(live)
  BY CkAssumption DEF Graph, Cell, Kept
<1>3. ck_next[h] \in S \cup {NULL} /\ (ck_next[h] = NULL => S = {})
  BY DEF Regular, HeadsRight
<1>4. \A x \in S : ck_next[x] \in S \cup {NULL}  BY DEF Regular, NodesRight
<1>5. \A x \in S : x = ck_next[h] \/ x \in after[ck_next[h]]  BY DEF Regular, NodesRight
<1>6. /\ \A x \in S : ck_next[x] # NULL => ck_next[x] \in after[x]
      /\ \A x \in S : \A y \in S : y \in after[x] =>
            ck_next[x] # NULL /\ (y = ck_next[x] \/ y \in after[ck_next[x]])
  BY <1>2 DEF Graph
<1> HIDE DEF S, max
<1>7. /\ s \in Seq(S) /\ Len(s) \in Nat /\ Len(s) <= max
      /\ s # <<>> => s[1] = ck_next[h]
      /\ \A k \in 1..(Len(s) - 1) : ck_next[s[k]] = s[k + 1]
      /\ Len(s) < max => IF s = <<>> THEN ck_next[h] = NULL ELSE ck_next[s[Len(s)]] = NULL
  <2>1. LET t == Chain(ck_next, ck_next[h], max)
        IN  /\ t \in Seq(S) /\ Len(t) \in Nat /\ Len(t) <= max
            /\ t # <<>> => t[1] = ck_next[h]
            /\ \A k \in 1..(Len(t) - 1) : ck_next[t[k]] = t[k + 1]
            /\ Len(t) < max => IF t = <<>> THEN ck_next[h] = NULL ELSE ck_next[t[Len(t)]] = NULL
    BY <1>1, <1>2, <1>3, <1>4, ChainFollows
  <2> QED BY <2>1 DEF Elements, FIRST, max
<1>8. DOMAIN s = 1..Len(s) /\ \A k \in 1..Len(s) : s[k] \in S  BY <1>7
<1>9. \A k \in 1..Len(s) : \A j \in 1..Len(s) : j < k => s[k] \in after[s[j]]
  <2> DEFINE Fine == {k \in Nat : k <= Len(s) => \A j \in 1..Len(s) : j < k => s[k] \in after[s[j]]}
  <2>1. 0 \in Fine  OBVIOUS
  <2>2. ASSUME NEW k \in Nat, k \in Fine  PROVE k + 1 \in Fine
    <3> SUFFICES ASSUME k + 1 <= Len(s), NEW j \in 1..Len(s), j < k + 1
                 PROVE  s[k + 1] \in after[s[j]]
      OBVIOUS
    <3>1. k \in 1..Len(s) /\ k \in 1..(Len(s) - 1) /\ k + 1 \in 1..Len(s)  BY <1>7
    <3>2. ck_next[s[k]] = s[k + 1] /\ s[k] \in S /\ s[k + 1] \in S  BY <1>7, <1>8, <3>1
    <3>3. s[k + 1] \in after[s[k]]  BY <1>2, <1>6, <3>2
    <3>4. CASE j = k  BY <3>3, <3>4
    <3>5. CASE j < k
      <4>1. s[k] \in after[s[j]]  BY <2>2, <3>1, <3>5
      <4>2. s[j] \in Entry  BY <1>2, <1>8
      <4> QED BY <3>3, <4>1, <4>2 DEF Ordered
    <3> QED BY <3>1, <3>4, <3>5
  <2> HIDE DEF Fine
  <2>3. Nat \subseteq Fine  BY <2>1, <2>2, InductNat
  <2> QED BY <1>7, <2>3 DEF Fine
<1>10. \A i, j \in 1..Len(s) : s[i] = s[j] => i = j
  <2>1. \A i \in 1..Len(s) : s[i] \in Entry /\ s[i] \notin after[s[i]]
    BY <1>2, <1>8 DEF Ordered
  <2>2. \A i, j \in 1..Len(s) : i < j => s[i] # s[j]  BY <1>9, <2>1
  <2> QED BY <1>7, <2>2
<1>11. Len(s) < max
  <2> SUFFICES ASSUME Cardinality(Entry) < Len(s)  PROVE FALSE
    BY <1>1, <1>7 DEF max
  <2>1. IsFiniteSet(1..Len(s)) /\ Cardinality(1..Len(s)) = Len(s)
    BY <1>7, FS_Interval, SMTT(20)
  <2>2. PICK f \in [1..Len(s) -> Entry] : \A i \in 1..Len(s) : f[i] = s[i]
    <3>1. [i \in 1..Len(s) |-> s[i]] \in [1..Len(s) -> Entry]  BY <1>2, <1>8
    <3> QED BY <3>1
  <2>3. \E x, y \in 1..Len(s) : x # y /\ f[x] = f[y]
    BY CkAssumption, <2>1, FS_PigeonHole
  <2> QED BY <1>10, <2>2, <2>3
<1>12. ASSUME NEW n \in S  PROVE \E i \in DOMAIN s : s[i] = n
  <2> SUFFICES ASSUME \A i \in DOMAIN s : s[i] # n  PROVE FALSE  OBVIOUS
  <2>1. s # <<>> /\ Len(s) \in 1..Len(s) /\ 1 \in 1..Len(s)
    <3>1. ck_next[h] # NULL  BY <1>3
    <3>2. s # <<>>  BY <1>7, <1>11, <3>1
    <3> QED BY <1>7, <3>2
  <2> DEFINE Fine == {k \in Nat : k + 1 <= Len(s) => n \in after[s[k + 1]]}
  <2>2. 0 \in Fine  BY <1>5, <1>7, <1>8, <2>1
  <2>3. ASSUME NEW k \in Nat, k \in Fine  PROVE k + 1 \in Fine
    <3> SUFFICES ASSUME (k + 1) + 1 <= Len(s)  PROVE n \in after[s[(k + 1) + 1]]
      OBVIOUS
    <3>1. k + 1 \in 1..(Len(s) - 1) /\ k + 1 \in 1..Len(s) /\ (k + 1) + 1 \in 1..Len(s)
      BY <1>7
    <3>2. n \in after[s[k + 1]] /\ s[k + 1] \in S /\ ck_next[s[k + 1]] = s[(k + 1) + 1]
      BY <1>7, <1>8, <2>3, <3>1
    <3>3. n = ck_next[s[k + 1]] \/ n \in after[ck_next[s[k + 1]]]  BY <1>6, <3>2
    <3> QED BY <1>8, <3>1, <3>2, <3>3
  <2> HIDE DEF Fine
  <2>4. Nat \subseteq Fine  BY <2>2, <2>3, InductNat
  <2>5. PICK k \in Nat : k + 1 = Len(s)
    <3>1. Len(s) - 1 \in Nat /\ (Len(s) - 1) + 1 = Len(s)  BY <1>7, <2>1
    <3> QED BY <3>1
  <2>6. n \in after[s[Len(s)]]  BY <2>4, <2>5 DEF Fine
  <2>7. ck_next[s[Len(s)]] # NULL  BY <1>6, <1>8, <2>1, <2>6
  <2> QED BY <1>7, <1>11, <2>1, <2>7
<1>13. \A n \in Entry : OnChain(h, n) <=> n \in S  BY <1>8, <1>12 DEF OnChain
<1>14. s # <<>> => ck_next[s[Len(s)]] = NULL  BY <1>7, <1>11
<1>15. s \in Seq(Entry)  BY <1>2, <1>7
<1> QED BY <1>7, <1>8, <1>13, <1>14, <1>15 DEF S

(* A node is on a list exactly if it is live and owned by its head.        *)
LEMMA OnChainIs ==
    ASSUME CkType, NEW after, NEW live, NEW own, Ordered(after, live),
           Graph(ck_next, after, live), Regular(ck_next, last, after, live, own)
    PROVE  \A h \in Heads : \A n \in Entry : OnChain(h, n) <=> n \in live /\ own[n] = h
<1> SUFFICES ASSUME NEW h \in Heads
             PROVE  \A n \in Entry : OnChain(h, n) <=> n \in live /\ own[n] = h
  OBVIOUS
<1>1. PICK s : s = Elements(h)  OBVIOUS
<1>2. /\ s \in Seq(Entry) /\ \A k \in 1..Len(s) : s[k] \in live /\ own[s[k]] = h
      /\ \A n \in Entry : OnChain(h, n) <=> n \in live /\ own[n] = h
      /\ s # <<>> => s[1] = ck_next[h] /\ ck_next[s[Len(s)]] = NULL
      /\ \A k \in 1..(Len(s) - 1) : ck_next[s[k]] = s[k + 1]
  BY <1>1, ChainOfList
<1> QED BY <1>2

----------------------------------------------------------------------------
(* The stores of each operation, from the first on                         *)
LEMMA InsertStores ==
    ASSUME NEW h, NEW c, NEW n, NEW s, s = INSERT_AFTER(h, c, n)
    PROVE  /\ s # <<>> /\ s[1] = Next_(n, ck_next[c])
           /\ Tail(s) # <<>> /\ Tail(s)[1] = Next_(c, n)
           /\ Tail(Tail(s)) = When(ck_next[c] = NULL, Last_(h, n))
<1> DEFINE a == Next_(n, ck_next[c])
           b == Next_(c, n)
           d == Last_(h, n)
           S == {a, b, d}
           cond == ck_next[c] = NULL
<1>1. s = <<a, b>> \o When(cond, d)  BY DEF INSERT_AFTER
<1>2. a \in S /\ b \in S /\ d \in S /\ cond \in BOOLEAN  OBVIOUS
<1> HIDE DEF a, b, d, S, cond
<1>3. s # <<>> /\ s[1] = a /\ Tail(s) = <<b>> \o When(cond, d)
  BY <1>1, <1>2, TwoThen
<1>4. /\ <<b>> \o When(cond, d) # <<>> /\ (<<b>> \o When(cond, d))[1] = b
      /\ Tail(<<b>> \o When(cond, d)) = When(cond, d)
  BY <1>2, OneThen
<1> QED BY <1>3, <1>4 DEF a, b, d, cond

(* The stores of REMOVE_AFTER: the one that unlinks, then last             *)
LEMMA RemoveStores ==
    ASSUME NEW h, NEW c, NEW s, s = REMOVE_AFTER(h, c)
    PROVE  /\ s # <<>> /\ s[1] = Next_(c, ck_next[ck_next[c]])
           /\ Tail(s) = When(ck_next[ck_next[c]] = NULL, Last_(h, c))
<1> DEFINE a == Next_(c, ck_next[ck_next[c]])
           d == Last_(h, c)
           S == {a, d}
           cond == ck_next[ck_next[c]] = NULL
<1>1. s = <<a>> \o When(cond, d)  BY DEF REMOVE_AFTER
<1>2. a \in S /\ d \in S /\ cond \in BOOLEAN  OBVIOUS
<1> HIDE DEF a, d, S, cond
<1>3. s # <<>> /\ s[1] = a /\ Tail(s) = When(cond, d)  BY <1>1, <1>2, OneThen
<1> QED BY <1>3 DEF a, d, cond

(* The stores of CONCAT, from the one that links the lists on              *)
LEMMA ConcatStores ==
    ASSUME NEW g, NEW h, ck_next[h] # NULL, NEW s, s = CONCAT(g, h)
    PROVE  /\ s = <<Next_(last[g], ck_next[h]), Last_(g, last[h]), Next_(h, NULL), Last_(h, h)>>
           /\ s # <<>> /\ s[1] = Next_(last[g], ck_next[h])
           /\ Tail(s) = <<Last_(g, last[h]), Next_(h, NULL), Last_(h, h)>>
<1> DEFINE a == Next_(last[g], ck_next[h])
           b == Last_(g, last[h])
           c == Next_(h, NULL)
           d == Last_(h, h)
           S == {a, b, c, d}
<1>1. s = <<a, b>> \o <<c, d>>  BY DEF CONCAT, EMPTY, FIRST, INIT
<1>2. a \in S /\ b \in S /\ c \in S /\ d \in S  OBVIOUS
<1> HIDE DEF a, b, c, d, S
<1>3. PICK u \in Seq(S) : u = <<a, b>>
  <2>1. <<a, b>> \in Seq(S)  BY <1>2
  <2> QED BY <2>1
<1>4. u \o <<c, d>> = Append(Append(u, c), d)  BY <1>2
<1>5. s = <<a, b, c, d>>
  <2>1. Append(<<a, b>>, c) = <<a, b, c>>  BY <1>2, ThreeStores
  <2>2. Append(<<a, b, c>>, d) = <<a, b, c, d>>  BY <1>2, FourStores
  <2> QED BY <1>1, <1>3, <1>4, <2>1, <2>2
<1>6. s # <<>> /\ s[1] = a /\ Tail(s) = <<b, c, d>>  BY <1>5
<1> QED BY <1>5, <1>6 DEF a, b, c, d

(* When nothing is to be stored the lists are what next and last say.      *)
LEMMA Idle ==
    ASSUME CkType, NEW after, NEW live, NEW own, Writes(after, live, own),
           stores = <<>>
    PROVE  Regular(ck_next, last, after, live, own)
<1>1. ~ Inserting(after, live, own)  BY InsertStores, SMTT(20) DEF Inserting
<1>2. ~ Removing(after, live, own)  BY RemoveStores DEF Removing
<1>3. ~ Joining(after, live, own)  BY ConcatStores DEF Joining
<1>4. Finishing(after, live, own)  BY <1>1, <1>2, <1>3 DEF Writes
<1>5. PICK N, L : Regular(N, L, after, live, own) /\ Pending(<<>>, ck_next, last, N, L, live)
  BY <1>4 DEF Finishing
<1>6. \A h \in Heads : N[h] = ck_next[h] /\ L[h] = last[h]  BY <1>5, FinalEmpty DEF Pending
<1>7. N = ck_next
  <2>1. N \in [Cell -> Entry \cup {NULL}] /\ ck_next \in [Cell -> Entry \cup {NULL}]
    BY <1>5 DEF Regular, CkType
  <2>2. \A c \in Cell : N[c] = ck_next[c]  BY <1>5, <1>6 DEF Pending, Cell
  <2> QED BY <2>1, <2>2
<1>8. L = last  BY <1>5, <1>6 DEF Regular, CkType
<1> QED BY <1>5, <1>7, <1>8

(* More stores to heads change more of the links they lead to.             *)
LEMMA PendingEmpty ==
    ASSUME NEW N, NEW L, NEW live
    PROVE  Pending(<<>>, N, L, N, L, live)
<1>1. <<>> \in Seq(HeadStore(live))  OBVIOUS
<1> QED BY <1>1, FinalEmpty DEF Pending

(* One more store to come, to a head's next,                               *)
LEMMA NextLater ==
    ASSUME NEW s, NEW N0, NEW L0, NEW N, NEW L, NEW live,
           Pending(s, N0, L0, N, L, live), N \in [Cell -> Entry \cup {NULL}],
           NEW k \in Heads, NEW v \in live \cup {NULL}
    PROVE  Pending(Append(s, Next_(k, v)), N0, L0, Put(N, k, v), L, live)
<1> DEFINE e == Next_(k, v)
           M == Put(N, k, v)
           S == HeadStore(live)
<1>1. e \in S /\ e.var = "next" /\ e.cell = k /\ e.val = v  BY DEF Next_, HeadStore
<1>2. s \in Seq(S)  BY DEF Pending
<1>3. k \in Cell /\ k \notin Entry /\ Heads \subseteq Cell /\ Entry \subseteq Cell
  BY CkAssumption DEF Cell
<1>4. M[k] = v /\ \A c \in Cell : c # k => M[c] = N[c]  BY <1>3 DEF Put
<1>5. /\ \A n \in Entry : N[n] = N0[n]
      /\ \A h \in Heads : Final(s, "next", h, N[h], N0[h]) /\ Final(s, "last", h, L[h], L0[h])
  BY DEF Pending
<1> HIDE DEF e, M, S
<1>6. Append(s, e) \in Seq(S)  BY <1>1, <1>2
<1>7. \A n \in Entry : M[n] = N0[n]  BY <1>3, <1>4, <1>5
<1>8. ASSUME NEW h \in Heads
      PROVE  /\ Final(Append(s, e), "next", h, M[h], N0[h])
             /\ Final(Append(s, e), "last", h, L[h], L0[h])
  <2>1. StoreTo(e, "next", h) <=> h = k  BY <1>1 DEF StoreTo
  <2>2. ~ StoreTo(e, "last", h)  BY <1>1 DEF StoreTo
  <2>3. IF StoreTo(e, "next", h) THEN M[h] = e.val ELSE Final(s, "next", h, M[h], N0[h])
    BY <1>1, <1>3, <1>4, <1>5, <2>1
  <2>4. Final(Append(s, e), "next", h, M[h], N0[h])  BY <1>1, <1>2, <2>3, FinalAppend
  <2>5. IF StoreTo(e, "last", h) THEN L[h] = e.val ELSE Final(s, "last", h, L[h], L0[h])
    BY <1>5, <2>2
  <2>6. Final(Append(s, e), "last", h, L[h], L0[h])  BY <1>1, <1>2, <2>5, FinalAppend
  <2> QED BY <2>4, <2>6
<1>9. Pending(Append(s, e), N0, L0, M, L, live)  BY <1>6, <1>7, <1>8 DEF Pending, S
<1> QED BY <1>9 DEF e, M

(* to a head's last,                                                       *)
LEMMA LastLater ==
    ASSUME NEW s, NEW N0, NEW L0, NEW N, NEW L, NEW live,
           Pending(s, N0, L0, N, L, live), L \in [Heads -> Cell],
           NEW k \in Heads, NEW c \in Cell
    PROVE  Pending(Append(s, Last_(k, c)), N0, L0, N, Put(L, k, c), live)
<1> DEFINE e == Last_(k, c)
           K == Put(L, k, c)
           S == HeadStore(live)
<1>1. e \in S /\ e.var = "last" /\ e.cell = k /\ e.val = c  BY DEF Last_, HeadStore
<1>2. s \in Seq(S)  BY DEF Pending
<1>4. K[k] = c /\ \A h \in Heads : h # k => K[h] = L[h]  BY DEF Put
<1>5. /\ \A n \in Entry : N[n] = N0[n]
      /\ \A h \in Heads : Final(s, "next", h, N[h], N0[h]) /\ Final(s, "last", h, L[h], L0[h])
  BY DEF Pending
<1> HIDE DEF e, K, S
<1>6. Append(s, e) \in Seq(S)  BY <1>1, <1>2
<1>8. ASSUME NEW h \in Heads
      PROVE  /\ Final(Append(s, e), "next", h, N[h], N0[h])
             /\ Final(Append(s, e), "last", h, K[h], L0[h])
  <2>1. StoreTo(e, "last", h) <=> h = k  BY <1>1 DEF StoreTo
  <2>2. ~ StoreTo(e, "next", h)  BY <1>1 DEF StoreTo
  <2>3. IF StoreTo(e, "last", h) THEN K[h] = e.val ELSE Final(s, "last", h, K[h], L0[h])
    BY <1>1, <1>4, <1>5, <2>1
  <2>4. Final(Append(s, e), "last", h, K[h], L0[h])  BY <1>1, <1>2, <2>3, FinalAppend
  <2>5. IF StoreTo(e, "next", h) THEN N[h] = e.val ELSE Final(s, "next", h, N[h], N0[h])
    BY <1>5, <2>2
  <2>6. Final(Append(s, e), "next", h, N[h], N0[h])  BY <1>1, <1>2, <2>5, FinalAppend
  <2> QED BY <2>4, <2>6
<1>9. Pending(Append(s, e), N0, L0, N, K, live)  BY <1>5, <1>6, <1>8 DEF Pending, S
<1> QED BY <1>9 DEF e, K

(* or to a head's last under a condition.                                  *)
LEMMA LastPerhaps ==
    ASSUME NEW s, NEW N0, NEW L0, NEW N, NEW L, NEW live,
           Pending(s, N0, L0, N, L, live), L \in [Heads -> Cell],
           NEW k \in Heads, NEW c \in Cell, NEW cond \in BOOLEAN
    PROVE  Pending(s \o When(cond, Last_(k, c)), N0, L0, N,
                   IF cond THEN Put(L, k, c) ELSE L, live)
<1>1. s \in Seq(HeadStore(live)) /\ Last_(k, c) \in HeadStore(live)
  BY DEF Pending, Last_, HeadStore
<1>2. s \o When(cond, Last_(k, c)) = IF cond THEN Append(s, Last_(k, c)) ELSE s
  BY <1>1, WhenSeq
<1>3. Pending(Append(s, Last_(k, c)), N0, L0, N, Put(L, k, c), live)
  BY LastLater
<1> QED BY <1>2, <1>3

(* The first of them is done.                                              *)
LEMMA PendingFirst ==
    ASSUME NEW s, s # <<>>, NEW N0, NEW L0, NEW N, NEW L, NEW live,
           Pending(s, N0, L0, N, L, live), N0 \in [Cell -> Entry \cup {NULL}],
           L0 \in [Heads -> Cell],
           NEW N1, N1 = (IF s[1].var = "next" THEN [N0 EXCEPT ![s[1].cell] = s[1].val] ELSE N0),
           NEW L1, L1 = (IF s[1].var = "last" THEN [L0 EXCEPT ![s[1].cell] = s[1].val] ELSE L0)
    PROVE  Pending(Tail(s), N1, L1, N, L, live)
<1> DEFINE S == HeadStore(live)
           e == s[1]
<1>1. s \in Seq(S)  BY DEF Pending
<1>2. Tail(s) \in Seq(S)  BY <1>1
<1>3. e \in S  BY <1>1
<1>4. e.cell \in Heads /\ e.var \in {"next", "last"}  BY <1>3 DEF HeadStore
<1>5. Heads \subseteq Cell /\ Entry \subseteq Cell /\ e.cell \notin Entry
  BY CkAssumption, <1>4 DEF Cell
<1>6. /\ \A n \in Entry : N[n] = N0[n]
      /\ \A h \in Heads : Final(s, "next", h, N[h], N0[h]) /\ Final(s, "last", h, L[h], L0[h])
  BY DEF Pending
<1> HIDE DEF S, e
<1>7. /\ \A c \in Cell : N1[c] = IF StoreTo(e, "next", c) THEN e.val ELSE N0[c]
      /\ \A h \in Heads : L1[h] = IF StoreTo(e, "last", h) THEN e.val ELSE L0[h]
  BY <1>4, <1>5 DEF StoreTo, e
<1>8. \A n \in Entry : N[n] = N1[n]  BY <1>5, <1>6, <1>7 DEF StoreTo
<1>9. ASSUME NEW h \in Heads
      PROVE  Final(Tail(s), "next", h, N[h], N1[h]) /\ Final(Tail(s), "last", h, L[h], L1[h])
  <2>1. Final(Tail(s), "next", h, N[h], IF StoreTo(e, "next", h) THEN e.val ELSE N0[h])
    BY <1>1, <1>6, FinalFirst DEF e
  <2>2. Final(Tail(s), "last", h, L[h], IF StoreTo(e, "last", h) THEN e.val ELSE L0[h])
    BY <1>1, <1>6, FinalFirst DEF e
  <2> QED BY <1>5, <1>7, <2>1, <2>2
<1> QED BY <1>2, <1>8, <1>9 DEF Pending, S

(* Nodes not on any list, and not taken off, are in nobody's way.          *)
LEMMA UnusedIsFree ==
    ASSUME CkType, NEW after, NEW live, NEW own, Ordered(after, live),
           Graph(ck_next, after, live), Regular(ck_next, last, after, live, own),
           NEW n \in Entry, Unused(n)
    PROVE  n \notin Kept(live)
<1>1. n \notin retired /\ \A h \in Heads : ~ OnChain(h, n)  BY DEF Unused
<1>2. \A h \in Heads : OnChain(h, n) <=> n \in live /\ own[n] = h  BY OnChainIs
<1>3. n \in live => own[n] \in Heads  BY DEF Regular, NodesRight
<1> QED BY <1>1, <1>2, <1>3 DEF Kept

----------------------------------------------------------------------------
(* FOREACH begins, at any moment of the writer's.                          *)
LEMMA ForeachStep ==
    ASSUME CkInv, NEW r \in Walker, NEW h \in Heads, Foreach(r, h)
    PROVE  CkInv'
<1>1. PICK after, live, own : Ghosts(after, live, own)  BY DEF CkInv
<1>2. CkType  BY DEF CkInv
<1>3. /\ Ordered(after, live) /\ Graph(ck_next, after, live)
      /\ \A q \in Walker : Reads(after, live, q)
      /\ Writes(after, live, own)
  BY <1>1 DEF Ghosts
<1>4. UNCHANGED <<ck_next, last, stores, retired>>  BY DEF Foreach
<1>5. h \in Cell /\ ck_next[h] \in Entry \cup {NULL}  BY <1>2 DEF CkType, Cell
<1>6. PICK S \in SUBSET Entry : S = {n \in Entry \ retired : OnChain(h, n)}  OBVIOUS
<1>7. /\ reader_at' = [reader_at EXCEPT ![r] = ck_next[h]]
      /\ seen' = [seen EXCEPT ![r] = IF ck_next[h] = NULL THEN <<>> ELSE <<ck_next[h]>>]
      /\ stayed' = [stayed EXCEPT ![r] = S]
  BY <1>6 DEF Foreach, FIRST, EMPTY
<1>8. CkType'
  <2>1. (IF ck_next[h] = NULL THEN <<>> ELSE <<ck_next[h]>>) \in Seq(Entry)  BY <1>5
  <2> QED BY <1>2, <1>4, <1>5, <1>7, <2>1 DEF CkType
<1>9. \A n \in S : n \in live /\ ck_next[h] # NULL /\ (n = ck_next[h] \/ n \in after[ck_next[h]])
  <2> SUFFICES ASSUME NEW n \in S
               PROVE  n \in live /\ ck_next[h] # NULL /\ (n = ck_next[h] \/ n \in after[ck_next[h]])
    OBVIOUS
  <2>1. n \in Entry \ retired /\ OnChain(h, n)  BY <1>6
  <2> QED BY <1>2, <1>3, <2>1, ChainForward DEF Kept
<1>10. ck_next[h] # NULL => ck_next[h] \in Kept(live)  BY <1>3 DEF Graph
<1>11. ASSUME NEW q \in Walker  PROVE Reads(after, live, q)'
  <2>1. CASE q = r
    <3>1. /\ reader_at'[r] = ck_next[h] /\ stayed'[r] = S
          /\ seen'[r] = IF ck_next[h] = NULL THEN <<>> ELSE <<ck_next[h]>>
      BY <1>2, <1>7 DEF CkType
    <3>2. ck_next[h] # None  BY CkAssumption, <1>5
    <3>3. CASE ck_next[h] = NULL
      <4>1. S = {} /\ seen'[r] = <<>>  BY <1>9, <3>1, <3>3
      <4> QED BY CkAssumption, <1>5, <2>1, <3>1, <3>2, <3>3, <4>1 DEF Reads, Kept, Cell
    <3>4. CASE ck_next[h] # NULL
      <4>1. PICK s \in Seq(Entry) : s = seen'[r] /\ Members(s) = {ck_next[h]} /\ Len(s) = 1
        <5>1. seen'[r] = <<ck_next[h]>>  BY <3>1, <3>4
        <5>2. <<ck_next[h]>> \in Seq(Entry) /\ Len(<<ck_next[h]>>) = 1  BY <1>5, <3>4
        <5>3. Members(<<ck_next[h]>>) = {ck_next[h]}  BY DEF Members
        <5> QED BY <5>1, <5>2, <5>3
      <4>2. \A i, j \in DOMAIN s : i = j  BY <4>1
      <4> QED BY <1>4, <1>9, <1>10, <2>1, <3>1, <3>2, <3>4, <4>1, <4>2 DEF Reads, Kept
    <3> QED BY <3>3, <3>4
  <2>2. CASE q # r
    <3>1. reader_at'[q] = reader_at[q] /\ seen'[q] = seen[q] /\ stayed'[q] = stayed[q]
      BY <1>2, <1>7, <2>2 DEF CkType
    <3>2. Reads(after, live, q)  BY <1>3
    <3> QED BY <1>4, <3>1, <3>2 DEF Reads, Kept
  <2> QED BY <2>1, <2>2
<1>12. Ordered(after, live)' /\ Graph(ck_next, after, live)'
  BY <1>3, <1>4 DEF Ordered, Graph, Kept
<1>13. Writes(after, live, own)'
  BY <1>3, <1>4, ZenonT(40) DEF Writes, Inserting, Removing, Joining, Finishing, Pending, Kept,
     INSERT_AFTER, REMOVE_AFTER, CONCAT, INIT, FIRST, EMPTY
<1> QED BY <1>8, <1>11, <1>12, <1>13 DEF CkInv, Ghosts

(* A reader goes on to the next node.                                      *)
LEMMA StepStep ==
    ASSUME CkInv, NEW r \in Walker, Step(r)
    PROVE  CkInv'
<1>1. PICK after, live, own : Ghosts(after, live, own)  BY DEF CkInv
<1>2. CkType  BY DEF CkInv
<1>3. /\ Ordered(after, live) /\ Graph(ck_next, after, live)
      /\ \A q \in Walker : Reads(after, live, q)
      /\ Writes(after, live, own)
  BY <1>1 DEF Ghosts
<1>4. UNCHANGED <<ck_next, last, stores, stayed, retired>>  BY DEF Step
<1>5. PICK a \in Entry, v \in Entry \cup {NULL} : a = reader_at[r] /\ v = ck_next[a]
  <2>1. reader_at[r] \in Entry /\ reader_at[r] \in Cell  BY DEF Step, Cell
  <2> QED BY <1>2, <2>1 DEF CkType
<1>6. PICK s \in Seq(Entry) : s = seen[r]  BY <1>2 DEF CkType
<1>7. PICK t \in Seq(Entry) : t = IF v = NULL THEN s ELSE Append(s, v)
  <2>1. v # NULL => Append(s, v) \in Seq(Entry)  BY <1>5
  <2> QED BY <2>1
<1>8. /\ reader_at' = [reader_at EXCEPT ![r] = v] /\ seen' = [seen EXCEPT ![r] = t]
      /\ reader_at'[r] = v /\ seen'[r] = t /\ stayed'[r] = stayed[r]
      /\ \A q \in Walker : q # r => reader_at'[q] = reader_at[q] /\ seen'[q] = seen[q]
  <2>1. reader_at' = [reader_at EXCEPT ![r] = v]  BY <1>5 DEF Step, Visit
  <2>2. seen' = [seen EXCEPT ![r] = IF v = NULL THEN @ ELSE Append(@, v)]
    BY <1>5 DEF Step, Visit
  <2>3. seen' = [seen EXCEPT ![r] = t]  BY <1>2, <1>6, <1>7, <2>2 DEF CkType
  <2> QED BY <1>2, <1>4, <2>1, <2>3 DEF CkType
<1>9. CkType'  BY <1>2, <1>4, <1>5, <1>7, <1>8 DEF CkType
<1>10. /\ \A i, j \in DOMAIN s : i # j => s[i] # s[j]
       /\ stayed[r] \subseteq live
       /\ a \in Kept(live)
       /\ \A x \in Members(s) : x = a \/ a \in after[x]
       /\ \A n \in stayed[r] : n \in Members(s) \/ n \in after[a]
  BY <1>3, <1>5, <1>6 DEF Reads
<1>11. /\ live \subseteq Entry \ retired /\ Kept(live) \subseteq Entry
       /\ v # NULL => v \in Kept(live) /\ v \in after[a]
       /\ \A y \in after[a] \cap live : v # NULL /\ (y = v \/ y \in after[v])
  BY <1>2, <1>3, <1>5, <1>10 DEF Graph, Kept, CkType
<1>12. Reads(after, live, r)'
  <2>1. CASE v = NULL
    <3>1. t = s /\ stayed[r] \subseteq Members(s)  BY <1>7, <1>10, <1>11, <2>1
    <3>2. reader_at'[r] \notin Entry /\ reader_at'[r] # None  BY CkAssumption, <1>8, <2>1 DEF Cell
    <3> QED BY <1>8, <1>10, <2>1, <3>1, <3>2 DEF Reads
  <2>2. CASE v # NULL
    <3>1. /\ t = Append(s, v) /\ v \in Entry  BY <1>7, <1>5, <2>2
    <3>2. /\ Len(s) \in Nat /\ DOMAIN s = 1..Len(s) /\ DOMAIN t = 1..(Len(s) + 1)
          /\ \A i \in 1..Len(s) : t[i] = s[i]
          /\ t[Len(s) + 1] = v
      BY <3>1, AppendProperties
    <3>3. \A x \in Members(s) : x \in Entry /\ v \in after[x] /\ x # v
      <4> SUFFICES ASSUME NEW x \in Members(s)  PROVE x \in Entry /\ v \in after[x] /\ x # v
        OBVIOUS
      <4>1. x \in Entry  BY DEF Members
      <4>2. v \in after[x]
        <5>1. v \in after[a]  BY <1>11, <2>2
        <5> QED BY <1>3, <1>10, <4>1, <5>1 DEF Ordered
      <4> QED BY <1>3, <4>1, <4>2 DEF Ordered
    <3>4. \A i \in DOMAIN s : s[i] # v  BY <3>3 DEF Members
    <3>5. \A i, j \in DOMAIN t : i # j => t[i] # t[j]
      <4> SUFFICES ASSUME NEW i \in DOMAIN t, NEW j \in DOMAIN t, i # j  PROVE t[i] # t[j]
        OBVIOUS
      <4>1. CASE i \in DOMAIN s /\ j \in DOMAIN s  BY <1>10, <3>2, <4>1
      <4>2. CASE i = Len(s) + 1
        <5>1. j \in DOMAIN s  BY <3>2, <4>2
        <5> QED BY <3>2, <3>4, <4>2, <5>1
      <4>3. CASE j = Len(s) + 1
        <5>1. i \in DOMAIN s  BY <3>2, <4>3
        <5> QED BY <3>2, <3>4, <4>3, <5>1
      <4> QED BY <3>2, <4>1, <4>2, <4>3
    <3>6. Members(t) = Members(s) \cup {v}
      <4>1. \A i \in DOMAIN s : i \in DOMAIN t /\ t[i] = s[i]  BY <3>2
      <4>2. \A i \in DOMAIN t : i \in DOMAIN s \/ i = Len(s) + 1  BY <3>2
      <4>3. Len(s) + 1 \in DOMAIN t  BY <3>2
      <4>4. \A x \in Members(t) : x \in Members(s) \cup {v}  BY <3>2, <4>1, <4>2 DEF Members
      <4>5. \A x \in Members(s) \cup {v} : x \in Members(t)  BY <3>2, <4>1, <4>3 DEF Members
      <4> QED BY <4>4, <4>5
    <3>7. \A n \in stayed[r] : n \in Members(t) \/ n \in after[v]
      BY <1>10, <1>11, <3>6
    <3>8. v \in Kept(live) /\ v # NULL /\ v # None
      BY CkAssumption, <1>11, <2>2, <3>1
    <3>9. Kept(live)' = Kept(live)  BY <1>4 DEF Kept
    <3> QED BY <1>8, <1>10, <3>3, <3>5, <3>6, <3>7, <3>8, <3>9 DEF Reads
  <2> QED BY <2>1, <2>2
<1>13. ASSUME NEW q \in Walker, q # r  PROVE Reads(after, live, q)'
  <2>1. Reads(after, live, q)  BY <1>3
  <2>2. reader_at'[q] = reader_at[q] /\ seen'[q] = seen[q] /\ stayed'[q] = stayed[q] /\ Kept(live)' = Kept(live)
    BY <1>4, <1>8, <1>13 DEF Kept
  <2> QED BY <2>1, <2>2 DEF Reads
<1>14. Ordered(after, live)' /\ Graph(ck_next, after, live)'
  BY <1>3, <1>4 DEF Ordered, Graph, Kept
<1>15. Writes(after, live, own)'
  BY <1>3, <1>4, ZenonT(40) DEF Writes, Inserting, Removing, Joining, Finishing, Pending, Kept,
     INSERT_AFTER, REMOVE_AFTER, CONCAT, INIT, FIRST, EMPTY
<1> QED BY <1>9, <1>12, <1>13, <1>14, <1>15 DEF CkInv, Ghosts

(* It is done.                                                             *)
LEMMA DoneStep ==
    ASSUME CkInv, NEW r \in Walker, Done(r)
    PROVE  CkInv'
<1>1. PICK after, live, own : Ghosts(after, live, own)  BY DEF CkInv
<1>2. CkType  BY DEF CkInv
<1>3. /\ Ordered(after, live) /\ Graph(ck_next, after, live)
      /\ \A q \in Walker : Reads(after, live, q)
      /\ Writes(after, live, own)
  BY <1>1 DEF Ghosts
<1>4. /\ UNCHANGED <<ck_next, last, stores, retired>>
      /\ reader_at' = [reader_at EXCEPT ![r] = None] /\ seen' = [seen EXCEPT ![r] = <<>>]
      /\ stayed' = [stayed EXCEPT ![r] = {}]
  BY DEF Done
<1>5. CkType'
  <2>1. <<>> \in Seq(Entry)  OBVIOUS
  <2> QED BY <1>2, <1>4, <2>1 DEF CkType
<1>6. ASSUME NEW q \in Walker  PROVE Reads(after, live, q)'
  <2>1. CASE q = r
    <3>1. reader_at'[r] = None /\ seen'[r] = <<>> /\ stayed'[r] = {}  BY <1>2, <1>4 DEF CkType
    <3>2. None \notin Entry /\ None # NULL  BY CkAssumption
    <3> QED BY <2>1, <3>1, <3>2 DEF Reads
  <2>2. CASE q # r
    <3>1. Reads(after, live, q)  BY <1>3
    <3>2. reader_at'[q] = reader_at[q] /\ seen'[q] = seen[q] /\ stayed'[q] = stayed[q] /\ Kept(live)' = Kept(live)
      BY <1>2, <1>4, <2>2 DEF Kept, CkType
    <3> QED BY <3>1, <3>2 DEF Reads
  <2> QED BY <2>1, <2>2
<1>7. Ordered(after, live)' /\ Graph(ck_next, after, live)'
  BY <1>3, <1>4 DEF Ordered, Graph, Kept
<1>8. Writes(after, live, own)'
  BY <1>3, <1>4 DEF Writes, Inserting, Removing, Joining, Finishing, Pending, Kept,
     INSERT_AFTER, REMOVE_AFTER, CONCAT, INIT, FIRST, EMPTY
<1> QED BY <1>5, <1>6, <1>7, <1>8 DEF CkInv, Ghosts

(* What was taken off may be used again: nobody reads.                     *)
LEMMA ReclaimStep ==
    ASSUME CkInv, Reclaim
    PROVE  CkInv'
<1>1. PICK after, live, own : Ghosts(after, live, own)  BY DEF CkInv
<1>2. CkType  BY DEF CkInv
<1>3. /\ Ordered(after, live) /\ Graph(ck_next, after, live)
      /\ \A q \in Walker : Reads(after, live, q)
      /\ Writes(after, live, own)
  BY <1>1 DEF Ghosts
<1>4. /\ UNCHANGED <<ck_next, last, stores, reader_at, seen, stayed>> /\ stores = <<>>
      /\ retired' = {}
      /\ \A r \in Walker : reader_at[r] = None
  BY DEF Reclaim, Reading
<1>5. Regular(ck_next, last, after, live, own)  BY <1>2, <1>3, <1>4, Idle
<1>6. PICK new : new = [x \in Entry |-> IF x \in live THEN after[x] \cap live ELSE {}]
  OBVIOUS
<1>7. /\ live \subseteq Entry /\ live \subseteq Kept(live) /\ Kept(live)' = live
      /\ \A x \in live : x # NULL /\ x \in Entry
  BY CkAssumption, <1>3, <1>4 DEF Graph, Kept, Cell
<1>8. /\ \A x \in Entry : new[x] \subseteq after[x]
      /\ \A x \in live : new[x] = after[x] \cap live
      /\ \A x \in Entry \ live : new[x] = {}
      /\ new \in [Entry -> SUBSET Entry]
  BY <1>6, <1>7
<1>9. Ordered(new, live)'
  <2>1. \A x \in Entry : x \notin new[x]  BY <1>3, <1>8 DEF Ordered
  <2>2. ASSUME NEW x \in Entry, NEW y \in new[x]
        PROVE  x \in live /\ y \in live /\ new[y] \subseteq new[x]
    <3>1. x \in live /\ y \in after[x] /\ y \in live  BY <1>8
    <3>2. after[y] \subseteq after[x]  BY <1>3, <3>1 DEF Ordered
    <3> QED BY <1>8, <3>1, <3>2
  <2> QED BY <1>7, <1>8, <2>1, <2>2 DEF Ordered
<1>10. Graph(ck_next, new, live)'
  <2>1. \A c \in Heads \cup live : ck_next[c] # NULL =>
           ck_next[c] \in live /\ (c \in Entry => ck_next[c] \in new[c])
    <3> SUFFICES ASSUME NEW c \in Heads \cup live, ck_next[c] # NULL
                 PROVE  ck_next[c] \in live /\ (c \in Entry => ck_next[c] \in new[c])
      OBVIOUS
    <3>1. ck_next[c] \in live  BY <1>5 DEF Regular, HeadsRight, NodesRight
    <3>2. c \in Entry => c \in live  BY CkAssumption
    <3>3. c \in live => ck_next[c] \in after[c]  BY <1>3, <1>7 DEF Graph
    <3> QED BY <1>8, <3>1, <3>2, <3>3
  <2>2. ASSUME NEW x \in Entry, NEW y \in new[x] \cap live
        PROVE  ck_next[x] # NULL /\ (y = ck_next[x] \/ y \in new[ck_next[x]])
    <3>1. x \in live /\ y \in after[x]  BY <1>8
    <3>2. ck_next[x] # NULL /\ (y = ck_next[x] \/ y \in after[ck_next[x]])  BY <1>3, <3>1 DEF Graph
    <3>3. ck_next[x] \in live  BY <2>1, <3>1, <3>2
    <3> QED BY <1>8, <3>2, <3>3
  <2> QED BY <1>4, <1>7, <2>1, <2>2 DEF Graph
<1>11. \A q \in Walker : Reads(new, live, q)'
  <2>1. None \notin Entry /\ None # NULL  BY CkAssumption
  <2>2. ASSUME NEW q \in Walker  PROVE Reads(new, live, q)'
    <3>1. reader_at[q] = None /\ seen[q] = <<>> /\ stayed[q] = {}  BY <1>3, <1>4 DEF Reads
    <3> QED BY <1>4, <2>1, <3>1 DEF Reads
  <2> QED BY <2>2
<1>12. Writes(new, live, own)'
  <2>1. HeadsRight(ck_next, last, live, own) /\ NodesRight(ck_next, last, after, live, own)
    BY <1>5 DEF Regular
  <2>2. \A x \in live : ck_next[own[x]] \in live  BY <2>1 DEF HeadsRight, NodesRight
  <2>3. NodesRight(ck_next, last, new, live, own)  BY <1>8, <2>1, <2>2 DEF NodesRight
  <2>4. OwnersAgree(new, live, own)  BY <1>5, <1>7, <1>8 DEF Regular, OwnersAgree
  <2>5. Regular(ck_next, last, new, live, own)  BY <1>5, <2>3, <2>4 DEF Regular
  <2>6. Pending(<<>>, ck_next, last, ck_next, last, live)  BY PendingEmpty
  <2>7. Finishing(new, live, own)  BY <1>4, <2>5, <2>6 DEF Finishing
  <2> QED BY <1>4, <2>7 DEF Finishing, Pending, Writes
<1>13. CkType'  BY <1>2, <1>4 DEF CkType
<1> QED BY <1>9, <1>10, <1>11, <1>12, <1>13 DEF CkInv, Ghosts

----------------------------------------------------------------------------
(* The writer begins: only what is to be stored changes.                   *)
LEMMA OnlyStores ==
    ASSUME CkType, NEW after, NEW live, NEW own, Ordered(after, live),
           Graph(ck_next, after, live), \A r \in Walker : Reads(after, live, r),
           UNCHANGED <<ck_next, last, reader_at, seen, stayed, retired>>, Writes(after, live, own)'
    PROVE  CkInv'
<1>1. CkType'  BY DEF CkType
<1>2. Ordered(after, live)' /\ Graph(ck_next, after, live)'  BY DEF Ordered, Graph, Kept
<1>3. (\A r \in Walker : Reads(after, live, r))'  BY DEF Reads, Kept
<1> QED BY <1>1, <1>2, <1>3 DEF CkInv, Ghosts

(* INSERT_TAIL is INSERT_AFTER the last cell.                              *)
LEMMA TailIsAfterLast ==
    ASSUME NEW h, NEW n, ck_next[last[h]] = NULL
    PROVE  INSERT_TAIL(h, n) = INSERT_AFTER(h, last[h], n)
<1> DEFINE a == Next_(n, NULL)
           b == Next_(last[h], n)
           d == Last_(h, n)
           S == {a, b, d}
<1>1. a \in S /\ b \in S /\ d \in S  OBVIOUS
<1>2. INSERT_TAIL(h, n) = <<a, b, d>>  BY DEF INSERT_TAIL
<1>3. INSERT_AFTER(h, last[h], n) = <<a, b>> \o <<d>>  BY DEF INSERT_AFTER, When
<1> HIDE DEF a, b, d, S
<1>4. PICK u \in Seq(S) : u = <<a, b>>
  <2>1. <<a, b>> \in Seq(S)  BY <1>1
  <2> QED BY <2>1
<1>5. u \o <<d>> = Append(u, d)  BY <1>1
<1>6. Append(<<a, b>>, d) = <<a, b, d>>  BY <1>1, ThreeStores
<1> QED BY <1>2, <1>3, <1>4, <1>5, <1>6

(* An insertion begins: the order has the node, its stores are pending.    *)
LEMMA InsertStep ==
    ASSUME CkInv, NEW h \in Heads, NEW n \in Entry, CkInsert(h, n)
    PROVE  CkInv'
<1>1. PICK after, live, own : Ghosts(after, live, own)  BY DEF CkInv
<1>2. CkType  BY DEF CkInv
<1>3. /\ Ordered(after, live) /\ Graph(ck_next, after, live)
      /\ \A q \in Walker : Reads(after, live, q)
      /\ Writes(after, live, own)
  BY <1>1 DEF Ghosts
<1>4. /\ UNCHANGED <<ck_next, last, reader_at, seen, stayed, retired>> /\ stores = <<>> /\ Unused(n)
      /\ \/ stores' = INSERT_HEAD(h, n)
         \/ stores' = INSERT_TAIL(h, n)
         \/ \E e \in Entry : OnChain(h, e) /\ stores' = INSERT_AFTER(h, e, n)
  BY DEF CkInsert, Begin
<1>5. Regular(ck_next, last, after, live, own)  BY <1>2, <1>3, <1>4, Idle
<1>6. n \notin Kept(live)  BY <1>2, <1>3, <1>4, <1>5, UnusedIsFree
<1>7. \E c \in Cell : PartOf(c, h, live, own) /\ stores' = INSERT_AFTER(h, c, n)
  <2>1. CASE stores' = INSERT_HEAD(h, n)
    <3>1. h \in Cell /\ PartOf(h, h, live, own)  BY DEF Cell, PartOf
    <3> QED BY <2>1, <3>1 DEF INSERT_HEAD
  <2>2. CASE stores' = INSERT_TAIL(h, n)
    <3>1. last[h] \in Cell  BY <1>2 DEF CkType
    <3>2. last[h] = h \/ (last[h] \in live /\ own[last[h]] = h)
      BY <1>5 DEF Regular, HeadsRight
    <3>3. ck_next[last[h]] = NULL
      <4>1. CASE last[h] = h  BY <1>5, <4>1 DEF Regular, HeadsRight
      <4>2. CASE last[h] \in live /\ own[last[h]] = h
        BY <1>5, <4>2 DEF Regular, NodesRight
      <4> QED BY <3>2, <4>1, <4>2
    <3>4. PartOf(last[h], h, live, own)  BY <3>2 DEF PartOf
    <3> QED BY <2>2, <3>1, <3>3, <3>4, TailIsAfterLast
  <2>3. ASSUME NEW e \in Entry, OnChain(h, e), stores' = INSERT_AFTER(h, e, n)
        PROVE  \E c \in Cell : PartOf(c, h, live, own) /\ stores' = INSERT_AFTER(h, c, n)
    <3>1. e \in live /\ own[e] = h  BY <1>2, <1>3, <1>5, <2>3, OnChainIs
    <3>2. e \in Cell /\ PartOf(e, h, live, own)  BY <3>1 DEF Cell, PartOf
    <3> QED BY <2>3, <3>2
  <2> QED BY <1>4, <2>1, <2>2, <2>3
<1>8. Inserting(after, live, own)'
  <2>1. PICK c \in Cell : PartOf(c, h, live, own) /\ stores' = INSERT_AFTER(h, c, n)
    BY <1>7
  <2>2. (stores = INSERT_AFTER(h, c, n))'  BY <1>4, <2>1 DEF INSERT_AFTER
  <2>3. Regular(ck_next, last, after, live, own)' /\ (n \in Entry \ Kept(live))'
    BY <1>4, <1>5, <1>6 DEF Kept
  <2> QED BY <2>1, <2>2, <2>3 DEF Inserting
<1>9. Writes(after, live, own)'  BY <1>8 DEF Writes
<1> QED BY <1>2, <1>3, <1>4, <1>9, OnlyStores

(* The node taken off stays where it is in the order.                      *)
LEMMA RemoveStep ==
    ASSUME CkInv, NEW h \in Heads, NEW n \in Entry, Remove(h, n)
    PROVE  CkInv'
<1>1. PICK after, live, own : Ghosts(after, live, own)  BY DEF CkInv
<1>2. CkType  BY DEF CkInv
<1>3. /\ Ordered(after, live) /\ Graph(ck_next, after, live)
      /\ \A q \in Walker : Reads(after, live, q)
      /\ Writes(after, live, own)
  BY <1>1 DEF Ghosts
<1>4. /\ UNCHANGED <<ck_next, last, reader_at, seen>> /\ stores = <<>> /\ OnChain(h, n)
      /\ stores' = REMOVE(h, n) /\ retired' = retired \cup {n}
      /\ stayed' = [r \in Walker |-> stayed[r] \ {n}]
  BY DEF Remove, Begin
<1>5. Regular(ck_next, last, after, live, own)  BY <1>2, <1>3, <1>4, Idle
<1>6. n \in live /\ own[n] = h  BY <1>2, <1>3, <1>4, <1>5, OnChainIs
<1>7. PICK rest : rest = live \ {n}  OBVIOUS
<1>8. /\ rest \cup {n} = live /\ rest \subseteq live /\ n \notin rest
      /\ live \subseteq Entry \ retired /\ Kept(rest)' = Kept(live)
      /\ rest \subseteq Entry \ retired'
  BY <1>3, <1>4, <1>6, <1>7 DEF Kept, Graph
<1>9. \E c \in Cell : PartOf(c, h, rest, own) /\ ck_next[c] = n /\ stores' = REMOVE_AFTER(h, c)
  <2>1. CASE ck_next[h] = n
    <3>1. h \in Cell /\ PartOf(h, h, rest, own)  BY DEF Cell, PartOf
    <3> QED BY <1>4, <2>1, <3>1 DEF REMOVE, REMOVE_HEAD, FIRST
  <2>2. CASE ck_next[h] # n
    <3>1. PICK s : s = Elements(h)  OBVIOUS
    <3>2. /\ s \in Seq(Entry) /\ \A k \in 1..Len(s) : s[k] \in live /\ own[s[k]] = h
          /\ \A m \in Entry : OnChain(h, m) <=> m \in live /\ own[m] = h
          /\ s # <<>> => s[1] = ck_next[h] /\ ck_next[s[Len(s)]] = NULL
          /\ \A k \in 1..(Len(s) - 1) : ck_next[s[k]] = s[k + 1]
      BY <1>2, <1>3, <1>5, <3>1, ChainOfList
    <3>3. Len(s) \in Nat /\ DOMAIN s = 1..Len(s) /\ (s # <<>> <=> Len(s) # 0)  BY <3>2
    <3>4. PICK i \in 1..Len(s) : s[i] = n  BY <1>4, <3>1, <3>3 DEF OnChain
    <3>5. i # 1  BY <2>2, <3>2, <3>3, <3>4
    <3>6. i - 1 \in DOMAIN s /\ i - 1 \in 1..(Len(s) - 1) /\ (i - 1) + 1 = i
      BY <3>3, <3>5
    <3>7. ck_next[s[i - 1]] = n  BY <3>2, <3>4, <3>6
    <3>8. PICK k : k = CHOOSE j \in DOMAIN s : ck_next[s[j]] = n  OBVIOUS
    <3>9. k \in DOMAIN s /\ ck_next[s[k]] = n  BY <3>6, <3>7, <3>8
    <3>10. stores' = REMOVE_AFTER(h, s[k])  BY <1>4, <2>2, <3>1, <3>8 DEF REMOVE, FIRST
    <3>11. s[k] \in live /\ own[s[k]] = h  BY <3>2, <3>3, <3>9
    <3>12. s[k] # n
      <4>1. n \in Entry /\ n # NULL  BY CkAssumption DEF Cell
      <4>2. s[k] \in Entry /\ s[k] \in Kept(live)  BY <1>8, <3>11 DEF Kept
      <4>3. n \in after[s[k]]  BY <1>3, <3>9, <4>1, <4>2 DEF Graph
      <4> QED BY <1>3, <4>2, <4>3 DEF Ordered
    <3>13. s[k] \in Cell /\ PartOf(s[k], h, rest, own)
      BY <1>7, <1>8, <3>11, <3>12 DEF Cell, PartOf
    <3> QED BY <3>9, <3>10, <3>13
  <2> QED BY <2>1, <2>2
<1>10. Removing(after, rest, own)'
  <2>1. PICK c \in Cell : PartOf(c, h, rest, own) /\ ck_next[c] = n /\ stores' = REMOVE_AFTER(h, c)
    BY <1>9
  <2>2. (stores = REMOVE_AFTER(h, c))'  BY <1>4, <2>1 DEF REMOVE_AFTER
  <2>3. Regular(ck_next, last, after, rest \cup {n}, own)' /\ n \in retired' /\ ck_next'[c] = n
    BY <1>4, <1>5, <1>8, <2>1
  <2> QED BY <1>6, <2>1, <2>2, <2>3 DEF Removing
<1>11. CkType'
  <2>1. stayed' \in [Walker -> SUBSET Entry]  BY <1>2, <1>4 DEF CkType
  <2> QED BY <1>2, <1>4, <2>1 DEF CkType
<1>12. Ordered(after, rest)'  BY <1>3, <1>8 DEF Ordered
<1>13. Graph(ck_next, after, rest)'  BY <1>3, <1>4, <1>8 DEF Graph
<1>14. ASSUME NEW r \in Walker  PROVE Reads(after, rest, r)'
  <2>1. Reads(after, live, r)  BY <1>3
  <2>2. stayed'[r] = stayed[r] \ {n} /\ stayed'[r] \subseteq rest
    BY <1>4, <1>7, <2>1 DEF Reads
  <2>3. reader_at'[r] = reader_at[r] /\ seen'[r] = seen[r]  BY <1>4
  <2> QED BY <1>8, <2>1, <2>2, <2>3 DEF Reads
<1>15. Writes(after, rest, own)'  BY <1>10 DEF Writes
<1> QED BY <1>11, <1>12, <1>13, <1>14, <1>15 DEF CkInv, Ghosts

(* What CONCAT to an empty list, SWAP, and MOVE then INIT have in common   *)
LEMMA JoinStores ==
    ASSUME CkType, NEW after, NEW live, NEW own, live \subseteq Entry,
           Regular(ck_next, last, after, live, own), NEW g \in Heads, NEW h \in Heads, g # h,
           NEW s,
           \/ ck_next[g] = NULL /\ ck_next[h] # NULL /\ s = CONCAT(g, h)
           \/ s = SWAP(g, h)
           \/ ck_next[g] = NULL /\ s = MOVE(g, h) \o INIT(h)
    PROVE  Pending(s, ck_next, last, Swapped(ck_next, g, h), SwappedEnds(ck_next, last, g, h), live)
<1> DEFINE N1 == Put(ck_next, g, ck_next[h])
           L1 == Put(last, g, last[h])
           s2 == Append(Append(<<>>, Next_(g, ck_next[h])), Last_(g, last[h]))
           S == HeadStore(live)
<1>1. /\ ck_next \in [Cell -> Entry \cup {NULL}] /\ last \in [Heads -> Cell]
      /\ \A k \in Heads : ck_next[k] \in live \cup {NULL} /\ last[k] \in Cell /\ k \in Cell
      /\ \A k \in Heads : ck_next[k] = NULL <=> last[k] = k
      /\ NULL \in live \cup {NULL}
  BY DEF CkType, Regular, HeadsRight, Cell
<1>2. /\ N1 \in [Cell -> Entry \cup {NULL}] /\ L1 \in [Heads -> Cell]
      /\ N1[g] = ck_next[h] /\ \A c \in Cell : c # g => N1[c] = ck_next[c]
      /\ L1[g] = last[h] /\ \A k \in Heads : k # g => L1[k] = last[k]
  BY <1>1 DEF Put
<1>3. Pending(s2, ck_next, last, N1, L1, live)
  <2>1. Pending(<<>>, ck_next, last, ck_next, last, live)  BY PendingEmpty
  <2>2. Pending(Append(<<>>, Next_(g, ck_next[h])), ck_next, last, N1, last, live)
    BY <1>1, <2>1, NextLater
  <2> HIDE DEF N1
  <2> QED BY <1>1, <2>2, LastLater
<1>4. \A c \in Cell, k \in Heads, v \in live \cup {NULL} :
         Last_(k, c) \in S /\ Next_(k, v) \in S
  BY DEF Last_, Next_, HeadStore
<1>5. s2 \in Seq(S) /\ s2 = <<Next_(g, ck_next[h]), Last_(g, last[h])>>
  <2>1. Next_(g, ck_next[h]) \in S /\ Last_(g, last[h]) \in S  BY <1>1, <1>4
  <2>2. Append(<<>>, Next_(g, ck_next[h])) = <<Next_(g, ck_next[h])>>  OBVIOUS
  <2>3. s2 = <<Next_(g, ck_next[h]), Last_(g, last[h])>>  BY <2>1, <2>2, TwoStores
  <2>4. s2 \in Seq(S)  BY <1>3 DEF Pending
  <2> QED BY <2>3, <2>4
<1>6. /\ Swapped(ck_next, g, h) \in [Cell -> Entry \cup {NULL}]
      /\ SwappedEnds(ck_next, last, g, h) \in [Heads -> Cell]
      /\ Swapped(ck_next, g, h)[g] = ck_next[h] /\ Swapped(ck_next, g, h)[h] = ck_next[g]
      /\ \A c \in Cell : c # g /\ c # h => Swapped(ck_next, g, h)[c] = ck_next[c]
      /\ SwappedEnds(ck_next, last, g, h)[g] = (IF ck_next[h] = NULL THEN g ELSE last[h])
      /\ SwappedEnds(ck_next, last, g, h)[h] = (IF ck_next[g] = NULL THEN h ELSE last[g])
      /\ \A k \in Heads : k # g /\ k # h => SwappedEnds(ck_next, last, g, h)[k] = last[k]
  BY <1>1 DEF Swapped, SwappedEnds
<1> HIDE DEF N1, L1, s2, S
<1>7. CASE ck_next[g] = NULL /\ ck_next[h] # NULL /\ s = CONCAT(g, h)
  <2> DEFINE M == Put(N1, h, NULL)
             K == Put(L1, h, h)
  <2>1. s = s2 \o <<Next_(h, NULL), Last_(h, h)>>
    <3>1. last[g] = g  BY <1>1, <1>7
    <3> QED BY <1>5, <1>7, <3>1 DEF CONCAT, EMPTY, FIRST, INIT
  <2>2. s = Append(Append(s2, Next_(h, NULL)), Last_(h, h))
    BY <1>1, <1>4, <1>5, <2>1
  <2>3. Pending(Append(s2, Next_(h, NULL)), ck_next, last, M, L1, live)
    BY <1>1, <1>2, <1>3, NextLater
  <2>4. M = Swapped(ck_next, g, h) /\ K = SwappedEnds(ck_next, last, g, h)
    <3>1. M \in [Cell -> Entry \cup {NULL}] /\ K \in [Heads -> Cell]  BY <1>1, <1>2 DEF Put
    <3>2. \A c \in Cell : M[c] = Swapped(ck_next, g, h)[c]  BY <1>1, <1>2, <1>6, <1>7 DEF Put
    <3>3. \A k \in Heads : K[k] = SwappedEnds(ck_next, last, g, h)[k]  BY <1>1, <1>2, <1>6, <1>7 DEF Put
    <3> QED BY <1>6, <3>1, <3>2, <3>3
  <2> HIDE DEF M
  <2>5. Pending(Append(Append(s2, Next_(h, NULL)), Last_(h, h)), ck_next, last, M, K, live)
    BY <1>1, <1>2, <2>3, LastLater
  <2> QED BY <2>2, <2>4, <2>5
<1>8. CASE s = SWAP(g, h)
  <2> DEFINE M == Put(N1, h, ck_next[g])
             L2 == Put(L1, h, last[g])
             L3 == IF ck_next[h] = NULL THEN Put(L2, g, g) ELSE L2
             K == IF ck_next[g] = NULL THEN Put(L3, h, h) ELSE L3
             s4 == Append(Append(s2, Next_(h, ck_next[g])), Last_(h, last[g]))
             s5 == s4 \o When(ck_next[h] = NULL, Last_(g, g))
  <2>1. s = s5 \o When(ck_next[g] = NULL, Last_(h, h))
    <3> DEFINE a == Next_(g, ck_next[h])
               b == Last_(g, last[h])
               c == Next_(h, ck_next[g])
               d == Last_(h, last[g])
    <3>1. a \in S /\ b \in S /\ c \in S /\ d \in S  BY <1>1, <1>4
    <3>2. SWAP(g, h) = (<<a, b, c, d>> \o When(ck_next[h] = NULL, Last_(g, g)))
                          \o When(ck_next[g] = NULL, Last_(h, h))
      BY DEF SWAP, FIRST, EMPTY
    <3>3. s2 = <<a, b>> /\ s4 = Append(Append(s2, c), d)  BY <1>5
    <3> HIDE DEF a, b, c, d, s4
    <3>4. Append(<<a, b>>, c) = <<a, b, c>>  BY <3>1, ThreeStores
    <3>5. Append(<<a, b, c>>, d) = <<a, b, c, d>>  BY <3>1, FourStores
    <3>6. s4 = <<a, b, c, d>>  BY <3>3, <3>4, <3>5
    <3> QED BY <1>8, <3>2, <3>6
  <2>2. M \in [Cell -> Entry \cup {NULL}] /\ L2 \in [Heads -> Cell] /\ L3 \in [Heads -> Cell]
    BY <1>1, <1>2 DEF Put
  <2>3. Pending(Append(s2, Next_(h, ck_next[g])), ck_next, last, M, L1, live)
    BY <1>1, <1>2, <1>3, NextLater
  <2>4. M = Swapped(ck_next, g, h) /\ K = SwappedEnds(ck_next, last, g, h)
    <3>1. M \in [Cell -> Entry \cup {NULL}] /\ K \in [Heads -> Cell]  BY <1>1, <1>2 DEF Put
    <3>2. \A c \in Cell : M[c] = Swapped(ck_next, g, h)[c]  BY <1>1, <1>2, <1>6 DEF Put
    <3>3. \A k \in Heads : K[k] = SwappedEnds(ck_next, last, g, h)[k]
      <4>1. L2[h] = last[g] /\ \A k \in Heads : k # h => L2[k] = L1[k]  BY <1>2 DEF Put
      <4>2. L3[g] = (IF ck_next[h] = NULL THEN g ELSE last[h]) /\ \A k \in Heads : k # g => L3[k] = L2[k]
        BY <1>2, <2>2, <4>1 DEF Put
      <4>3. /\ K[h] = (IF ck_next[g] = NULL THEN h ELSE last[g])
            /\ \A k \in Heads : k # h => K[k] = L3[k]
        BY <2>2, <4>1, <4>2 DEF Put
      <4> HIDE DEF K, L2, L3
      <4> QED BY <1>2, <1>6, <4>1, <4>2, <4>3
    <3> QED BY <1>6, <3>1, <3>2, <3>3
  <2> HIDE DEF M
  <2>5. Pending(s4, ck_next, last, M, L2, live)  BY <1>1, <1>2, <2>3, LastLater
  <2> HIDE DEF L2, s4
  <2>6. Pending(s5, ck_next, last, M, L3, live)
    <3>1. (ck_next[h] = NULL) \in BOOLEAN /\ g \in Cell  BY <1>1
    <3> QED BY <2>2, <2>5, <3>1, LastPerhaps
  <2> HIDE DEF L3, s5
  <2>7. Pending(s5 \o When(ck_next[g] = NULL, Last_(h, h)), ck_next, last, M, K, live)
    <3>1. (ck_next[g] = NULL) \in BOOLEAN /\ h \in Cell  BY <1>1
    <3> QED BY <2>2, <2>6, <3>1, LastPerhaps
  <2> QED BY <2>1, <2>4, <2>7
<1>9. CASE ck_next[g] = NULL /\ s = MOVE(g, h) \o INIT(h)
  <2> DEFINE M == Put(N1, h, NULL)
             L2 == IF last[h] = h THEN Put(L1, g, g) ELSE L1
             K == Put(L2, h, h)
             s3 == s2 \o When(last[h] = h, Last_(g, g))
  <2>1. s = s3 \o <<Next_(h, NULL), Last_(h, h)>>
    BY <1>5, <1>9 DEF MOVE, INIT, FIRST
  <2>2. L2 \in [Heads -> Cell] /\ M \in [Cell -> Entry \cup {NULL}]  BY <1>1, <1>2 DEF Put
  <2>3. M = Swapped(ck_next, g, h) /\ K = SwappedEnds(ck_next, last, g, h)
    <3>1. M \in [Cell -> Entry \cup {NULL}] /\ K \in [Heads -> Cell]  BY <1>1, <2>2 DEF Put
    <3>2. \A c \in Cell : M[c] = Swapped(ck_next, g, h)[c]  BY <1>1, <1>2, <1>6, <1>9 DEF Put
    <3>3. \A k \in Heads : K[k] = SwappedEnds(ck_next, last, g, h)[k]
      <4>1. L2[g] = (IF ck_next[h] = NULL THEN g ELSE last[h]) /\ \A k \in Heads : k # g => L2[k] = last[k]
        BY <1>1, <1>2 DEF Put
      <4>2. K[h] = h /\ \A k \in Heads : k # h => K[k] = L2[k]  BY <1>1, <2>2 DEF Put
      <4> HIDE DEF K, L2
      <4> QED BY <1>6, <1>9, <4>1, <4>2
    <3> QED BY <1>6, <3>1, <3>2, <3>3
  <2> HIDE DEF M
  <2>4. Pending(s3, ck_next, last, N1, L2, live)
    <3>1. (last[h] = h) \in BOOLEAN /\ g \in Cell  BY <1>1
    <3> QED BY <1>2, <1>3, <3>1, LastPerhaps
  <2> HIDE DEF L2, s3
  <2>5. s3 \in Seq(S)  BY <2>4 DEF Pending, S
  <2>6. s = Append(Append(s3, Next_(h, NULL)), Last_(h, h))  BY <1>1, <1>4, <2>1, <2>5
  <2>7. Pending(Append(s3, Next_(h, NULL)), ck_next, last, M, L2, live)
    BY <1>1, <1>2, <2>4, NextLater DEF M
  <2>8. Pending(Append(Append(s3, Next_(h, NULL)), Last_(h, h)), ck_next, last, M, K, live)
    BY <1>1, <2>2, <2>7, LastLater
  <2> QED BY <2>3, <2>6, <2>8
<1> QED BY <1>7, <1>8, <1>9

(* CONCAT, SWAP or MOVE begins.                                            *)
LEMMA JoinStep ==
    ASSUME CkInv, NEW g \in Heads, NEW h \in Heads, Join(g, h)
    PROVE  CkInv'
<1>1. PICK after, live, own : Ghosts(after, live, own)  BY DEF CkInv
<1>2. CkType  BY DEF CkInv
<1>3. /\ Ordered(after, live) /\ Graph(ck_next, after, live)
      /\ \A q \in Walker : Reads(after, live, q)
      /\ Writes(after, live, own) /\ live \subseteq Entry
  BY <1>1 DEF Ghosts, Graph
<1>4. /\ UNCHANGED <<ck_next, last, reader_at, seen, stayed, retired>> /\ stores = <<>> /\ g # h
      /\ \/ stores' = CONCAT(g, h) /\ stores' # <<>>
         \/ stores' = SWAP(g, h)
         \/ ck_next[g] = NULL /\ stores' = MOVE(g, h) \o INIT(h)
  BY DEF Join, Begin, EMPTY
<1>5. Regular(ck_next, last, after, live, own)  BY <1>2, <1>3, <1>4, Idle
<1>6. stores' = CONCAT(g, h) /\ stores' # <<>> => ck_next[h] # NULL  BY DEF CONCAT, EMPTY
<1>7. CASE stores' = CONCAT(g, h) /\ stores' # <<>> /\ ck_next[g] # NULL
  <2>1. (stores = CONCAT(g, h))'  BY <1>4, <1>7 DEF CONCAT, INIT, EMPTY, FIRST
  <2>2. Joining(after, live, own)'  BY <1>4, <1>5, <1>6, <1>7, <2>1 DEF Joining
  <2>3. Writes(after, live, own)'  BY <2>2 DEF Writes
  <2> QED BY <1>2, <1>3, <1>4, <2>3, OnlyStores
<1>8. CASE \/ stores' = CONCAT(g, h) /\ stores' # <<>> /\ ck_next[g] = NULL
           \/ stores' = SWAP(g, h)
           \/ ck_next[g] = NULL /\ stores' = MOVE(g, h) \o INIT(h)
  <2>1. PICK s : s = stores'  OBVIOUS
  <2>2. PICK M, K, mine :
           /\ M = Swapped(ck_next, g, h) /\ K = SwappedEnds(ck_next, last, g, h)
           /\ mine = Exchanged(own, g, h)
    OBVIOUS
  <2>3. Pending(s, ck_next, last, M, K, live)
    BY <1>2, <1>3, <1>4, <1>5, <1>6, <1>8, <2>1, <2>2, JoinStores
  <2>4. Regular(M, K, after, live, mine)
    <3>1. g # h  BY <1>4
    <3> QED BY <1>3, <1>5, <2>2, <3>1, RegularSwap
  <2>5. Pending(stores, ck_next, last, M, K, live)'
    BY <1>4, <2>1, <2>3 DEF Pending
  <2>6. Finishing(after, live, mine)'  BY <1>4, <2>4, <2>5 DEF Finishing
  <2>7. Writes(after, live, mine)'  BY <2>6 DEF Writes
  <2> QED BY <1>2, <1>3, <1>4, <2>7, OnlyStores
<1> QED BY <1>4, <1>7, <1>8

----------------------------------------------------------------------------
(* What one store does                                                     *)
LEMMA StoreOne ==
    ASSUME CkStore
    PROVE  /\ stores # <<>> /\ stores' = Tail(stores)
           /\ UNCHANGED <<reader_at, seen, stayed, retired>>
           /\ \A c, v : stores[1] = Next_(c, v) => ck_next' = Put(ck_next, c, v) /\ last' = last
           /\ \A h, c : stores[1] = Last_(h, c) => last' = Put(last, h, c) /\ ck_next' = ck_next
BY DEF CkStore, Next_, Last_, Put

(* A reader is none the worse for more nodes, or more order, or another    *)
(* link of the writer's.                                                   *)
LEMMA ReadsMore ==
    ASSUME CkType, NEW after, NEW live, NEW new, NEW more, \A r \in Walker : Reads(after, live, r),
           \A x \in Entry : after[x] \subseteq new[x], live \subseteq more,
           UNCHANGED <<reader_at, seen, stayed, retired>>
    PROVE  (\A r \in Walker : Reads(new, more, r))'
<1> SUFFICES ASSUME NEW r \in Walker  PROVE Reads(new, more, r)'  OBVIOUS
<1>1. Reads(after, live, r)  OBVIOUS
<1>2. Kept(live) \subseteq Kept(more)'  BY DEF Kept
<1>3. \A s \in Members(seen[r]) : s \in Entry  BY DEF CkType, Members
<1> QED BY <1>1, <1>2, <1>3 DEF Reads

(* The node's own next is set.                                             *)
LEMMA StoreNodesNext ==
    ASSUME CkType, CkStore, NEW after, NEW live, NEW own, Ordered(after, live),
           Graph(ck_next, after, live), \A r \in Walker : Reads(after, live, r),
           NEW h \in Heads, NEW c \in Cell, NEW n \in Entry \ Kept(live),
           PartOf(c, h, live, own), Regular(ck_next, last, after, live, own),
           stores = INSERT_AFTER(h, c, n)
    PROVE  CkInv'
<1>1. stores # <<>> /\ stores[1] = Next_(n, ck_next[c])  BY InsertStores
<1>2. /\ ck_next' = Put(ck_next, n, ck_next[c]) /\ last' = last /\ stores' = Tail(stores)
      /\ UNCHANGED <<reader_at, seen, stayed, retired>>
  BY <1>1, StoreOne
<1>3. /\ live \subseteq Entry \ retired /\ Kept(live) \subseteq Entry
      /\ live \subseteq Kept(live) /\ Kept(live)' = Kept(live)
      /\ n \in Cell /\ n \notin Heads
  BY CkAssumption, <1>2 DEF Graph, CkType, Kept, Cell
<1>4. ck_next' \in [Cell -> Entry \cup {NULL}] /\ \A x \in Cell : x # n => ck_next'[x] = ck_next[x]
  BY <1>2, <1>3 DEF CkType, Put
<1>5. \A x \in Heads \cup Kept(live) : x \in Cell /\ ck_next'[x] = ck_next[x]
  BY <1>3, <1>4 DEF Cell
<1>6. CkType'  BY <1>2, <1>4 DEF CkType
<1>7. Ordered(after, live)'  BY <1>3 DEF Ordered
<1>8. Graph(ck_next, after, live)'
  <2>1. \A x \in Heads \cup Kept(live) : ck_next'[x] # NULL =>
           ck_next'[x] \in Kept(live) /\ (x \in Entry => ck_next'[x] \in after[x])
    BY <1>5 DEF Graph
  <2>2. ASSUME NEW x \in Entry, NEW y \in after[x] \cap live
        PROVE  ck_next'[x] # NULL /\ (y = ck_next'[x] \/ y \in after[ck_next'[x]])
    <3>1. x \in Kept(live)  BY DEF Ordered
    <3> QED BY <1>5, <3>1 DEF Graph
  <2> QED BY <1>2, <1>3, <2>1, <2>2 DEF Graph
<1>9. (\A r \in Walker : Reads(after, live, r))'  BY <1>2, ReadsMore
<1>10. Regular(ck_next, last, after, live, own)'
  <2>1. \A x \in Heads \cup live : ck_next'[x] = ck_next[x]  BY <1>3, <1>5
  <2>2. HeadsRight(ck_next', last, live, own)  BY <2>1 DEF Regular, HeadsRight
  <2>3. NodesRight(ck_next', last, after, live, own)  BY <2>1 DEF Regular, NodesRight
  <2>4. OneBefore(ck_next', live)  BY <2>1 DEF Regular, OneBefore
  <2>5. Regular(ck_next', last, after, live, own)  BY <1>4, <2>2, <2>3, <2>4 DEF Regular
  <2> QED BY <1>2, <2>5
<1>11. Inserting(after, live, own)'
  <2>1. c # n /\ ck_next'[c] = ck_next[c]  BY <1>3, <1>4 DEF PartOf
  <2>2. ck_next'[n] = ck_next'[c]  BY <1>2, <1>3, <2>1 DEF CkType, Put
  <2>3. (stores = Tail(INSERT_AFTER(h, c, n)))'  BY <1>2, <2>1 DEF INSERT_AFTER
  <2>4. (n \in Entry \ Kept(live))'  BY <1>3
  <2> QED BY <1>10, <2>2, <2>3, <2>4 DEF Inserting
<1>12. Writes(after, live, own)'  BY <1>11 DEF Writes
<1> QED BY <1>6, <1>7, <1>8, <1>9, <1>12 DEF CkInv, Ghosts

(* Then the cell before it is, and it is on the list.                      *)
LEMMA StoreLinksIn ==
    ASSUME CkType, CkStore, NEW after, NEW live, NEW own, Ordered(after, live),
           Graph(ck_next, after, live), \A r \in Walker : Reads(after, live, r),
           NEW h \in Heads, NEW c \in Cell, NEW n \in Entry \ Kept(live),
           PartOf(c, h, live, own), Regular(ck_next, last, after, live, own),
           ck_next[n] = ck_next[c], stores = Tail(INSERT_AFTER(h, c, n))
    PROVE  CkInv'
<1>1. /\ stores # <<>> /\ stores[1] = Next_(c, n)
      /\ Tail(stores) = When(ck_next[c] = NULL, Last_(h, n))
  BY InsertStores
<1>2. /\ ck_next' = Put(ck_next, c, n) /\ last' = last
      /\ stores' = When(ck_next[c] = NULL, Last_(h, n))
      /\ UNCHANGED <<reader_at, seen, stayed, retired>>
  BY <1>1, StoreOne
<1>3. PICK new, more, mine, K :
         /\ new = Inserted(after, Before(c, after), From(ck_next[c], after), n)
         /\ more = live \cup {n} /\ mine = Put(own, n, h)
         /\ K = IF ck_next[c] = NULL THEN Put(last, h, n) ELSE last
  OBVIOUS
<1>4. retired \subseteq Entry /\ ck_next \in [Cell -> Entry \cup {NULL}] /\ last \in [Heads -> Cell]
  BY DEF CkType
<1>6. /\ Ordered(new, more) /\ Graph(Put(ck_next, c, n), new, more)
      /\ \A x \in Entry : after[x] \subseteq new[x]
  <2>0. new = Inserted(after, Before(c, after), From(ck_next[c], after), n)  BY <1>3
  <2>1. PICK M : M = Put(ck_next, c, n)  OBVIOUS
  <2>2. Ordered(new, live \cup {n})  BY <1>4, <2>0, <2>1, GraphInsert
  <2>3. Graph(M, new, live \cup {n})  BY <1>4, <2>0, <2>1, GraphInsert
  <2>4. \A x \in Entry : after[x] \subseteq new[x]  BY <2>0 DEF Inserted, Ordered
  <2> QED BY <1>3, <2>1, <2>2, <2>3, <2>4
<1>7. Regular(Put(ck_next, c, n), K, new, more, mine)
  <2>1. PICK M : M = Put(ck_next, c, n)  OBVIOUS
  <2>2. Regular(M, K, new, live \cup {n}, mine)  BY <1>3, <1>4, <2>1, RegularInsert
  <2> QED BY <1>3, <2>1, <2>2
<1>8. CkType'  BY <1>2, <1>4 DEF CkType, Put
<1>9. (\A r \in Walker : Reads(new, more, r))'  BY <1>2, <1>3, <1>6, ReadsMore
<1>10. Ordered(new, more)' /\ Graph(ck_next, new, more)'
  BY <1>2, <1>6 DEF Ordered, Graph, Kept
<1>11. Pending(stores', ck_next', last', ck_next', K, more)
  <2>1. PICK cond \in BOOLEAN : cond = (ck_next[c] = NULL)  OBVIOUS
  <2>2. Pending(<<>>, ck_next', last, ck_next', last, more)  BY PendingEmpty
  <2>3. n \in Cell  BY DEF Cell
  <2>4. Pending(<<>> \o When(cond, Last_(h, n)), ck_next', last, ck_next',
                IF cond THEN Put(last, h, n) ELSE last, more)
    BY <1>4, <2>2, <2>3, LastPerhaps
  <2>5. <<>> \o When(cond, Last_(h, n)) = When(cond, Last_(h, n))
    BY DEF When
  <2> QED BY <1>2, <1>3, <2>1, <2>4, <2>5
<1>12. Finishing(new, more, mine)'  BY <1>2, <1>7, <1>11 DEF Finishing
<1>13. Writes(new, more, mine)'  BY <1>12 DEF Writes
<1> QED BY <1>8, <1>9, <1>10, <1>13 DEF CkInv, Ghosts

(* The cell before the one taken off links to the one after it.            *)
LEMMA StoreLinksOut ==
    ASSUME CkType, CkStore, NEW after, NEW live, NEW own, Ordered(after, live),
           Graph(ck_next, after, live), \A r \in Walker : Reads(after, live, r),
           NEW h \in Heads, NEW c \in Cell, NEW m \in retired,
           PartOf(c, h, live, own), ck_next[c] = m, own[m] = h,
           Regular(ck_next, last, after, live \cup {m}, own), stores = REMOVE_AFTER(h, c)
    PROVE  CkInv'
<1>1. /\ stores # <<>> /\ stores[1] = Next_(c, ck_next[m])
      /\ Tail(stores) = When(ck_next[m] = NULL, Last_(h, c))
  BY RemoveStores
<1>2. /\ ck_next' = Put(ck_next, c, ck_next[m]) /\ last' = last
      /\ stores' = When(ck_next[m] = NULL, Last_(h, c))
      /\ UNCHANGED <<reader_at, seen, stayed, retired>>
  BY <1>1, StoreOne
<1>3. PICK K : K = IF ck_next[m] = NULL THEN Put(last, h, c) ELSE last  OBVIOUS
<1>4. /\ retired \subseteq Entry /\ ck_next \in [Cell -> Entry \cup {NULL}] /\ last \in [Heads -> Cell]
      /\ live \subseteq Entry \ retired /\ m \in Entry \ live /\ m \in Cell
  BY DEF CkType, Graph, Cell
<1>5. c \in Heads \cup live  BY DEF PartOf
<1>6. Graph(Put(ck_next, c, ck_next[m]), after, live)
  BY <1>4, <1>5, GraphRemove
<1>7. Regular(Put(ck_next, c, ck_next[m]), K, after, live, own)
  <2>1. PICK M : M = Put(ck_next, c, ck_next[m])  OBVIOUS
  <2>2. Regular(M, K, after, live, own)  BY <1>3, <1>4, <2>1, RegularRemove
  <2> QED BY <2>1, <2>2
<1>8. CkType'  BY <1>2, <1>4 DEF CkType, Put
<1>9. (\A r \in Walker : Reads(after, live, r))'  BY <1>2, ReadsMore
<1>10. Ordered(after, live)' /\ Graph(ck_next, after, live)'
  BY <1>2, <1>6 DEF Ordered, Graph, Kept
<1>11. Pending(stores', ck_next', last', ck_next', K, live)
  <2>1. PICK cond \in BOOLEAN : cond = (ck_next[m] = NULL)  OBVIOUS
  <2>2. Pending(<<>>, ck_next', last, ck_next', last, live)  BY PendingEmpty
  <2>4. Pending(<<>> \o When(cond, Last_(h, c)), ck_next', last, ck_next',
                IF cond THEN Put(last, h, c) ELSE last, live)
    BY <1>4, <2>2, LastPerhaps
  <2>5. <<>> \o When(cond, Last_(h, c)) = When(cond, Last_(h, c))
    BY DEF When
  <2> QED BY <1>2, <1>3, <2>1, <2>4, <2>5
<1>12. Finishing(after, live, own)'  BY <1>2, <1>7, <1>11 DEF Finishing
<1>13. Writes(after, live, own)'  BY <1>12 DEF Writes
<1> QED BY <1>8, <1>9, <1>10, <1>13 DEF CkInv, Ghosts

(* The last node of one list links to the first of the other.              *)
LEMMA StoreJoins ==
    ASSUME CkType, CkStore, NEW after, NEW live, NEW own, Ordered(after, live),
           Graph(ck_next, after, live), \A r \in Walker : Reads(after, live, r),
           NEW g \in Heads, NEW h \in Heads, g # h, ck_next[g] # NULL, ck_next[h] # NULL,
           Regular(ck_next, last, after, live, own), stores = CONCAT(g, h)
    PROVE  CkInv'
<1>1. /\ stores # <<>> /\ stores[1] = Next_(last[g], ck_next[h])
      /\ Tail(stores) = <<Last_(g, last[h]), Next_(h, NULL), Last_(h, h)>>
  BY ConcatStores
<1>2. /\ ck_next' = Put(ck_next, last[g], ck_next[h]) /\ last' = last
      /\ stores' = <<Last_(g, last[h]), Next_(h, NULL), Last_(h, h)>>
      /\ UNCHANGED <<reader_at, seen, stayed, retired>>
  BY <1>1, StoreOne
<1>3. PICK c, d, new, mine, M, K :
         /\ c = last[g] /\ d = ck_next[h]
         /\ new = Joined(after, Before(c, after), From(d, after))
         /\ mine = Given(own, h, g)
         /\ M = Put(Put(ck_next, c, d), h, NULL)
         /\ K = Put(Put(last, g, last[h]), h, h)
  OBVIOUS
<1>4. /\ retired \subseteq Entry /\ ck_next \in [Cell -> Entry \cup {NULL}] /\ last \in [Heads -> Cell]
      /\ live \subseteq Entry
  BY DEF CkType, Graph
<1>5. c \in live /\ own[c] = g /\ d \in live /\ own[d] = h /\ ck_next[c] = NULL
  <2>1. c \in live /\ own[c] = g /\ d \in live /\ own[d] = h
    BY <1>3 DEF Regular, HeadsRight
  <2> QED BY <1>3, <2>1 DEF Regular, NodesRight
<1>6. /\ Ordered(new, live) /\ Graph(Put(ck_next, c, d), new, live)
      /\ \A x \in Entry : after[x] \subseteq new[x]
  <2>1. OwnersAgree(after, live, own)  BY DEF Regular
  <2> QED BY <1>3, <1>4, <1>5, <2>1, GraphJoin
<1>7. Regular(M, K, new, live, mine)  BY <1>3, <1>4, RegularJoin
<1>8. CkType'
  <2>1. d \in Entry  BY <1>4, <1>5
  <2> QED BY <1>2, <1>3, <1>4, <2>1 DEF CkType, Put
<1>9. (\A r \in Walker : Reads(new, live, r))'  BY <1>2, <1>6, ReadsMore
<1>10. Ordered(new, live)' /\ Graph(ck_next, new, live)'
  BY <1>2, <1>3, <1>6 DEF Ordered, Graph, Kept
<1>11. Pending(stores', ck_next', last', M, K, live)
  <2> DEFINE L1 == Put(last, g, last[h])
             a == Last_(g, last[h])
             b == Next_(h, NULL)
             e == Last_(h, h)
             S == HeadStore(live)
  <2>1. ck_next' \in [Cell -> Entry \cup {NULL}]  BY <1>8 DEF CkType
  <2>2. Pending(<<>>, ck_next', last, ck_next', last, live)  BY PendingEmpty
  <2>3. /\ last[h] \in Cell /\ h \in Cell /\ NULL \in live \cup {NULL}
        /\ L1 \in [Heads -> Cell] /\ K = Put(L1, h, h)
    BY <1>3, <1>4 DEF Cell, Put
  <2>4. M = Put(ck_next', h, NULL)  BY <1>2, <1>3
  <2>5. Pending(Append(<<>>, a), ck_next', last, ck_next', L1, live)
    BY <1>4, <2>2, <2>3, LastLater
  <2> HIDE DEF L1, a
  <2>6. Pending(Append(Append(<<>>, a), b), ck_next', last, M, L1, live)
    BY <2>1, <2>3, <2>4, <2>5, NextLater
  <2> HIDE DEF b
  <2>7. Pending(Append(Append(Append(<<>>, a), b), e), ck_next', last, M, K, live)
    BY <2>3, <2>6, LastLater
  <2>8. a \in S /\ b \in S /\ e \in S
    BY <2>3 DEF a, b, Last_, Next_, HeadStore
  <2> HIDE DEF e, S
  <2>9. Append(Append(Append(<<>>, a), b), e) = <<a, b, e>>
    <3>1. Append(<<>>, a) = <<a>>  OBVIOUS
    <3>2. Append(<<a>>, b) = <<a, b>>  BY <2>8, TwoStores
    <3>3. Append(<<a, b>>, e) = <<a, b, e>>  BY <2>8, ThreeStores
    <3> QED BY <3>1, <3>2, <3>3
  <2> QED BY <1>2, <2>7, <2>9 DEF a, b, e
<1>12. Finishing(new, live, mine)'  BY <1>2, <1>7, <1>11 DEF Finishing
<1>13. Writes(new, live, mine)'  BY <1>12 DEF Writes
<1> QED BY <1>8, <1>9, <1>10, <1>13 DEF CkInv, Ghosts

(* A head is set.                                                          *)
LEMMA StoreHead ==
    ASSUME CkType, CkStore, NEW after, NEW live, NEW own, Ordered(after, live),
           Graph(ck_next, after, live), \A r \in Walker : Reads(after, live, r),
           NEW N, NEW L, Regular(N, L, after, live, own),
           Pending(stores, ck_next, last, N, L, live)
    PROVE  CkInv'
<1>1. /\ stores # <<>> /\ stores' = Tail(stores) /\ UNCHANGED <<reader_at, seen, stayed, retired>>
      /\ \/ stores[1].var = "next" /\ ck_next' = [ck_next EXCEPT ![stores[1].cell] = stores[1].val]
            /\ last' = last
         \/ stores[1].var = "last" /\ last' = [last EXCEPT ![stores[1].cell] = stores[1].val]
            /\ ck_next' = ck_next
  BY DEF CkStore
<1>2. /\ ck_next \in [Cell -> Entry \cup {NULL}] /\ last \in [Heads -> Cell]
      /\ live \subseteq Entry /\ live \subseteq Kept(live)
  BY DEF CkType, Graph, Kept
<1>3. PICK e \in HeadStore(live) : e = stores[1]
  <2>1. stores \in Seq(HeadStore(live))  BY DEF Pending
  <2> QED BY <1>1, <2>1
<1>4. /\ e.cell \in Heads
      /\ \/ e.var = "next" /\ e.val \in live \cup {NULL}
         \/ e.var = "last" /\ e.val \in Cell
  BY DEF HeadStore
<1>5. /\ ck_next' = (IF e.var = "next" THEN [ck_next EXCEPT ![e.cell] = e.val] ELSE ck_next)
      /\ last' = (IF e.var = "last" THEN [last EXCEPT ![e.cell] = e.val] ELSE last)
  BY <1>1, <1>3
<1>6. CkType'
  <2>1. ck_next' \in [Cell -> Entry \cup {NULL}] /\ last' \in [Heads -> Cell]
    BY <1>2, <1>4, <1>5
  <2> QED BY <1>1, <2>1 DEF CkType
<1>7. Pending(stores', ck_next', last', N, L, live)
  BY <1>1, <1>2, <1>3, <1>5, PendingFirst, ZenonT(40)
<1>8. Finishing(after, live, own)'  BY <1>7 DEF Finishing
<1>9. Writes(after, live, own)'  BY <1>8 DEF Writes
<1>10. Ordered(after, live)'  BY <1>1 DEF Ordered, Kept
<1>11. Graph(ck_next, after, live)'
  <2>1. \A x \in Entry : ck_next'[x] = ck_next[x]
    BY CkAssumption, <1>2, <1>4, <1>5 DEF Cell
  <2>2. \A x \in Heads : ck_next'[x] = ck_next[x] \/ ck_next'[x] \in live \cup {NULL}
    BY <1>2, <1>4, <1>5 DEF Cell
  <2>3. Kept(live) \subseteq Entry /\ Kept(live)' = Kept(live)
    BY <1>1, <1>2 DEF Kept, CkType
  <2>4. ASSUME NEW x \in Heads \cup Kept(live), ck_next'[x] # NULL
        PROVE  ck_next'[x] \in Kept(live) /\ (x \in Entry => ck_next'[x] \in after[x])
    <3>1. CASE x \in Entry
      <4>1. x \in Kept(live)  BY CkAssumption, <3>1
      <4> QED BY <2>1, <2>4, <3>1, <4>1 DEF Graph
    <3>2. CASE x \notin Entry
      <4>1. x \in Heads  BY <2>3, <3>2
      <4> QED BY <1>2, <2>2, <2>4, <3>2, <4>1 DEF Graph
    <3> QED BY <3>1, <3>2
  <2>5. \A x \in Entry : \A y \in after[x] \cap live :
           ck_next'[x] # NULL /\ (y = ck_next'[x] \/ y \in after[ck_next'[x]])
    BY <2>1 DEF Graph
  <2> QED BY <1>1, <2>3, <2>4, <2>5 DEF Graph
<1>12. (\A r \in Walker : Reads(after, live, r))'  BY <1>1, ReadsMore
<1> QED BY <1>6, <1>9, <1>10, <1>11, <1>12 DEF CkInv, Ghosts

(* The writer's next store: the one that links, unlinks or joins moves     *)
(* to the lists to come, those before and after it stay on the way there.  *)
LEMMA StoreStep ==
    ASSUME CkInv, CkStore
    PROVE  CkInv'
<1>1. PICK after, live, own : Ghosts(after, live, own)  BY DEF CkInv
<1>2. CkType  BY DEF CkInv
<1>3. /\ Ordered(after, live) /\ Graph(ck_next, after, live)
      /\ \A q \in Walker : Reads(after, live, q)
      /\ Writes(after, live, own)
  BY <1>1 DEF Ghosts
<1>4. CASE Inserting(after, live, own)
  <2>1. PICK h \in Heads, c \in Cell, n \in Entry \ Kept(live) :
          /\ PartOf(c, h, live, own) /\ Regular(ck_next, last, after, live, own)
          /\ \/ stores = INSERT_AFTER(h, c, n)
             \/ ck_next[n] = ck_next[c] /\ stores = Tail(INSERT_AFTER(h, c, n))
    BY <1>4 DEF Inserting
  <2> QED BY <1>2, <1>3, <2>1, StoreNodesNext, StoreLinksIn
<1>5. CASE Removing(after, live, own)
  <2>1. PICK h \in Heads, c \in Cell, m \in retired :
          /\ PartOf(c, h, live, own) /\ ck_next[c] = m /\ own[m] = h
          /\ Regular(ck_next, last, after, live \cup {m}, own)
          /\ stores = REMOVE_AFTER(h, c)
    BY <1>5 DEF Removing
  <2> QED BY <1>2, <1>3, <2>1, StoreLinksOut
<1>6. CASE Joining(after, live, own)
  <2>1. PICK g \in Heads, h \in Heads :
          /\ g # h /\ ck_next[g] # NULL /\ ck_next[h] # NULL
          /\ Regular(ck_next, last, after, live, own)
          /\ stores = CONCAT(g, h)
    BY <1>6 DEF Joining
  <2> QED BY <1>2, <1>3, <2>1, StoreJoins
<1>7. CASE Finishing(after, live, own)
  <2>1. PICK N, L : Regular(N, L, after, live, own) /\ Pending(stores, ck_next, last, N, L, live)
    BY <1>7 DEF Finishing
  <2> QED BY <1>2, <1>3, <2>1, StoreHead
<1> QED BY <1>3, <1>4, <1>5, <1>6, <1>7 DEF Writes


----------------------------------------------------------------------------
(* At first no element is live, and the order is empty.                    *)
LEMMA InitCk ==
    ASSUME CkInit
    PROVE  CkInv
<1>1. PICK after, live, own :
         after = [x \in Entry |-> {}] /\ live = {} /\ own = [x \in Entry |-> NULL]
  OBVIOUS
<1>2. /\ ck_next = [c \in Cell |-> NULL] /\ last = [h \in Heads |-> h] /\ stores = <<>>
      /\ reader_at = [r \in Walker |-> None] /\ seen = [r \in Walker |-> <<>>]
      /\ stayed = [r \in Walker |-> {}] /\ retired = {}
  BY DEF CkInit
<1>3. \A h \in Heads : h \in Cell  BY DEF Cell
<1>4. CkType
  <2>1. <<>> \in Seq(Entry)  OBVIOUS
  <2> QED BY <1>2, <1>3, <2>1 DEF CkType
<1>5. Ordered(after, live)  BY <1>1 DEF Ordered
<1>6. Graph(ck_next, after, live)
  <2>1. \A c \in Heads \cup Kept(live) : ck_next[c] = NULL  BY <1>1, <1>2, <1>3 DEF Kept
  <2> QED BY <1>1, <2>1 DEF Graph
<1>7. ASSUME NEW r \in Walker  PROVE Reads(after, live, r)
  <2>1. None \notin Entry /\ None # NULL  BY CkAssumption
  <2> QED BY <1>1, <1>2, <2>1 DEF Reads
<1>8. Regular(ck_next, last, after, live, own)
  <2>1. HeadsRight(ck_next, last, live, own)  BY <1>1, <1>2, <1>3 DEF HeadsRight
  <2>2. NodesRight(ck_next, last, after, live, own)  BY <1>1 DEF NodesRight
  <2>3. OwnersAgree(after, live, own)  BY <1>1 DEF OwnersAgree
  <2>4. OneBefore(ck_next, live)  BY <1>1, <1>2, <1>3 DEF OneBefore
  <2>5. own \in [Entry -> Heads \cup {NULL}]  BY <1>1
  <2> QED BY <1>4, <2>1, <2>2, <2>3, <2>4, <2>5 DEF Regular, CkType
<1>9. Pending(stores, ck_next, last, ck_next, last, live)  BY <1>2, PendingEmpty
<1>10. Finishing(after, live, own)  BY <1>8, <1>9 DEF Finishing
<1>11. Writes(after, live, own)  BY <1>10 DEF Writes
<1> QED BY <1>4, <1>5, <1>6, <1>7, <1>11 DEF CkInv, Ghosts

(* Every step of the writer and of the readers keeps the invariant.        *)
LEMMA NextCk ==
    ASSUME CkInv, [CkNext]_ckVars
    PROVE  CkInv'
<1>1. CASE UNCHANGED ckVars
  <2>1. PICK after, live, own : Ghosts(after, live, own)  BY DEF CkInv
  <2>2. /\ Ordered(after, live) /\ Graph(ck_next, after, live)
        /\ \A q \in Walker : Reads(after, live, q)
        /\ Writes(after, live, own)
    BY <2>1 DEF Ghosts
  <2>3. UNCHANGED <<ck_next, last, stores, reader_at, seen, stayed, retired>>  BY <1>1 DEF ckVars
  <2>4. Writes(after, live, own)'
    BY <2>2, <2>3, ZenonT(40) DEF Writes, Inserting, Removing, Joining, Finishing, Pending, Kept,
       INSERT_AFTER, REMOVE_AFTER, CONCAT, INIT, FIRST, EMPTY
  <2> QED BY <2>2, <2>3, <2>4, OnlyStores DEF CkInv
<1>2. CASE CkNext
  <2>1. ASSUME NEW h \in Heads, NEW n \in Entry, CkInsert(h, n)  PROVE CkInv'
    BY <2>1, InsertStep
  <2>2. ASSUME NEW h \in Heads, NEW n \in Entry, Remove(h, n)  PROVE CkInv'
    BY <2>2, RemoveStep
  <2>3. ASSUME NEW g \in Heads, NEW h \in Heads, Join(g, h)  PROVE CkInv'
    BY <2>3, JoinStep
  <2>4. ASSUME CkStore  PROVE CkInv'  BY <2>4, StoreStep
  <2>5. ASSUME Reclaim  PROVE CkInv'  BY <2>5, ReclaimStep
  <2>6. ASSUME NEW r \in Walker, NEW h \in Heads, Foreach(r, h)  PROVE CkInv'
    BY <2>6, ForeachStep
  <2>7. ASSUME NEW r \in Walker, Step(r)  PROVE CkInv'  BY <2>7, StepStep
  <2>8. ASSUME NEW r \in Walker, Done(r)  PROVE CkInv'  BY <2>8, DoneStep
  <2> QED BY <1>2, <2>1, <2>2, <2>3, <2>4, <2>5, <2>6, <2>7, <2>8 DEF CkNext, WriterNext, ReaderNext
<1> QED BY <1>1, <1>2

(* For any heads, elements and readers: whatever the writer has done of    *)
(* whatever operation, the ghosts exist.                                   *)
THEOREM CkInvariance == CkSpec => []CkInv
<1>1. CkInit => CkInv  BY InitCk
<1>2. CkInv /\ [CkNext]_ckVars => CkInv'  BY NextCk
<1> QED BY <1>1, <1>2, PTL DEF CkSpec

(* A reader that gets to the end has been at every element that stayed on  *)
(* the list, and nowhere twice, however the writer's stores and any        *)
(* number of readers' loads are interleaved.                               *)
THEOREM ForeachIsSafe == CkSpec => []SeesWhatStayed
<1>1. CkInv => SeesWhatStayed
  <2> SUFFICES ASSUME CkInv, NEW r \in Walker
               PROVE  /\ reader_at[r] = NULL => \A n \in stayed[r] : \E i \in DOMAIN seen[r] : seen[r][i] = n
                      /\ \A i, j \in DOMAIN seen[r] : i # j => seen[r][i] # seen[r][j]
    BY DEF SeesWhatStayed
  <2>1. PICK after, live, own : Ghosts(after, live, own)  BY DEF CkInv
  <2>2. Reads(after, live, r)  BY <2>1 DEF Ghosts
  <2> QED BY <2>2 DEF Reads, Members
<1> QED BY <1>1, CkInvariance, PTL

(* Between operations a head's last is the cell with the final NULL.       *)
THEOREM EndStaysLast == CkSpec => []EndIsLast
<1>1. CkInv => EndIsLast
  <2> SUFFICES ASSUME CkInv, stores = <<>>, NEW h \in Heads
               PROVE  last[h] = IF EMPTY(h) THEN h ELSE Elements(h)[Len(Elements(h))]
    BY DEF EndIsLast
  <2>1. PICK after, live, own : Ghosts(after, live, own)  BY DEF CkInv
  <2>2. CkType /\ Ordered(after, live) /\ Graph(ck_next, after, live) /\ Writes(after, live, own)
    BY <2>1 DEF CkInv, Ghosts
  <2>3. Regular(ck_next, last, after, live, own)  BY <2>2, Idle
  <2>4. HeadsRight(ck_next, last, live, own) /\ NodesRight(ck_next, last, after, live, own)
    BY <2>3 DEF Regular
  <2>5. CASE ck_next[h] = NULL  BY <2>4, <2>5 DEF HeadsRight, EMPTY
  <2>6. CASE ck_next[h] # NULL
    <3>1. PICK s : s = Elements(h)  OBVIOUS
    <3>2. /\ s \in Seq(Entry) /\ \A k \in 1..Len(s) : s[k] \in live /\ own[s[k]] = h
          /\ \A n \in Entry : OnChain(h, n) <=> n \in live /\ own[n] = h
          /\ s # <<>> => s[1] = ck_next[h] /\ ck_next[s[Len(s)]] = NULL
          /\ \A k \in 1..(Len(s) - 1) : ck_next[s[k]] = s[k + 1]
      BY <2>2, <2>3, <3>1, ChainOfList
    <3>3. s # <<>>
      <4>1. ck_next[h] \in live /\ own[ck_next[h]] = h /\ ck_next[h] \in Entry
        BY <2>2, <2>4, <2>6 DEF HeadsRight, Graph
      <4>2. OnChain(h, ck_next[h])  BY <3>2, <4>1
      <4> QED BY <3>1, <4>2 DEF OnChain
    <3>4. Len(s) \in 1..Len(s)  BY <3>2, <3>3
    <3>5. s[Len(s)] \in live /\ own[s[Len(s)]] = h /\ ck_next[s[Len(s)]] = NULL
      BY <3>2, <3>3, <3>4
    <3>6. s[Len(s)] = last[h]  BY <2>4, <3>5 DEF NodesRight
    <3> QED BY <2>6, <3>1, <3>6 DEF EMPTY
  <2> QED BY <2>5, <2>6
<1> QED BY <1>1, CkInvariance, PTL

(* Between operations no element is on two lists.                          *)
THEOREM ListsStayApart == CkSpec => []ListsApart
<1>1. CkInv => ListsApart
  <2> SUFFICES ASSUME CkInv, stores = <<>>, NEW g \in Heads, NEW h \in Heads, g # h,
                      NEW n \in Entry
               PROVE  ~ (OnChain(g, n) /\ OnChain(h, n))
    BY DEF ListsApart
  <2>1. PICK after, live, own : Ghosts(after, live, own)  BY DEF CkInv
  <2>2. CkType /\ Ordered(after, live) /\ Graph(ck_next, after, live) /\ Writes(after, live, own)
    BY <2>1 DEF CkInv, Ghosts
  <2>3. Regular(ck_next, last, after, live, own)  BY <2>2, Idle
  <2>4. \A k \in Heads : \A m \in Entry : OnChain(k, m) <=> m \in live /\ own[m] = k
    BY <2>2, <2>3, OnChainIs
  <2> QED BY <2>4
<1> QED BY <1>1, CkInvariance, PTL

----------------------------------------------------------------------------
(* The doubly linked lists of the tutorial.  The proof gives every list    *)
(* the sequences of its nodes to the left and to the right of the caller's *)
(* place; a step of one caller changes those of its list and leaves every  *)
(* node of the others alone (Took).                                        *)

(* What follows n in a list, c itself at place 0                           *)
Place(c, s, k) == IF k = 0 THEN c ELSE s[k]

(* s is what the links f meet behind c, to their end; b are the links back. *)
Run(f, b, c, s) ==
    /\ \A k \in 1..Len(s) : f[Place(c, s, k - 1)] = s[k] /\ b[s[k]] = Place(c, s, k - 1)
    /\ f[Place(c, s, Len(s))] = NULL

(* The nodes of a list whose caller is at c, with lft and rgt of it, and   *)
(* that P and N are its links                                              *)
Held(c, lft, rgt) == IF c = NULL THEN {} ELSE {c} \cup Members(lft) \cup Members(rgt)

Zip(P, N, c, lft, rgt) ==
    IF c = NULL THEN lft = <<>> /\ rgt = <<>>
    ELSE /\ Run(P, N, c, lft) /\ Run(N, P, c, rgt)
         /\ c \notin Members(lft) \cup Members(rgt) /\ Members(lft) \cap Members(rgt) = {}
         /\ NoDuplicates(lft) /\ NoDuplicates(rgt)

(* This of every list, and they have no node in common and all that are    *)
(* owned.                                                                  *)
Good(P, N, A, O, lft, rgt) ==
    /\ \A l \in List : Zip(P, N, A[l], lft[l], rgt[l])
    /\ \A k, l \in List : k # l => Held(A[k], lft[k], rgt[k]) \cap Held(A[l], lft[l], rgt[l]) = {}
    /\ O = UNION {Held(A[l], lft[l], rgt[l]) : l \in List}

(* What an owned node holds                                                *)
Filled(d, O) == \A n \in O : d[n] \in Element

Sides(lft, rgt) == lft \in [List -> Seq(Node)] /\ rgt \in [List -> Seq(Node)]

DllInv ==
    /\ DllTypeOK
    /\ Filled(data, owned)
    /\ \E lft, rgt : Sides(lft, rgt) /\ Good(prev, next, at, owned, lft, rgt)

LinkType(f) == f \in [Node -> Node \cup {NULL}]
PlaceType(A) == A \in [List -> Node \cup {NULL}]

----------------------------------------------------------------------------
LEMMA RunFirst ==
    ASSUME NEW f, NEW b, NEW c, NEW s \in Seq(Node), Run(f, b, c, s)
    PROVE  /\ s = <<>> => f[c] = NULL
           /\ s # <<>> => f[c] = s[1] /\ b[s[1]] = c
<1>1. Len(s) \in Nat /\ (s = <<>> <=> Len(s) = 0)  OBVIOUS
<1>2. CASE s = <<>>  BY <1>1, <1>2 DEF Run, Place
<1>3. CASE s # <<>>
  <2>1. 1 \in 1..Len(s) /\ 1 - 1 = 0  BY <1>1, <1>3
  <2>2. Place(c, s, 1 - 1) = c  BY <2>1 DEF Place
  <2> QED BY <1>3, <2>1, <2>2 DEF Run
<1> QED BY <1>2, <1>3

(* The links that lead out of c may be those out of another node.          *)
LEMMA RunFrom ==
    ASSUME NEW f, NEW b, NEW c, NEW s \in Seq(Node), Run(f, b, c, s),
           NEW F, NEW B, NEW d, F[d] = f[c], s # <<>> => B[s[1]] = d,
           \A k \in 1..Len(s) : F[s[k]] = f[s[k]],
           \A k \in 2..Len(s) : B[s[k]] = b[s[k]]
    PROVE  Run(F, B, d, s)
<1>1. Len(s) \in Nat /\ (s = <<>> <=> Len(s) = 0)  OBVIOUS
<1>2. ASSUME NEW k \in 1..Len(s)
      PROVE  F[Place(d, s, k - 1)] = s[k] /\ B[s[k]] = Place(d, s, k - 1)
  <2>1. f[Place(c, s, k - 1)] = s[k] /\ b[s[k]] = Place(c, s, k - 1)  BY DEF Run
  <2>2. CASE k = 1
    <3>1. Place(c, s, k - 1) = c /\ Place(d, s, k - 1) = d  BY <2>2 DEF Place
    <3> QED BY <1>1, <2>1, <2>2, <3>1
  <2>3. CASE k # 1
    <3>1. k - 1 \in 1..Len(s) /\ k \in 2..Len(s) /\ k - 1 # 0  BY <1>1, <2>3
    <3>2. Place(c, s, k - 1) = s[k - 1] /\ Place(d, s, k - 1) = s[k - 1]  BY <3>1 DEF Place
    <3> QED BY <2>1, <3>1, <3>2
  <2> QED BY <2>2, <2>3
<1>3. F[Place(d, s, Len(s))] = NULL
  <2>1. f[Place(c, s, Len(s))] = NULL  BY DEF Run
  <2>2. CASE Len(s) = 0  BY <2>1, <2>2 DEF Place
  <2>3. CASE Len(s) # 0
    <3>1. Len(s) \in 1..Len(s)  BY <1>1, <2>3
    <3> QED BY <2>1, <2>3, <3>1 DEF Place
  <2> QED BY <2>2, <2>3
<1> QED BY <1>2, <1>3 DEF Run

(* One node more behind d,                                                 *)
LEMMA RunPush ==
    ASSUME NEW f, NEW b, NEW c \in Node, NEW s \in Seq(Node), Run(f, b, c, s),
           NEW d, f[d] = c, b[c] = d
    PROVE  Run(f, b, d, <<c>> \o s)
<1>1. PICK t : t = <<c>> \o s  OBVIOUS
<1>2. /\ t \in Seq(Node) /\ Len(t) = Len(s) + 1 /\ t[1] = c
      /\ \A k \in 1..Len(s) : t[k + 1] = s[k]
  BY <1>1, Pushed
<1>3. Len(s) \in Nat  OBVIOUS
<1>4. ASSUME NEW k \in 0..Len(s)  PROVE Place(d, t, k + 1) = Place(c, s, k)
  <2>1. k + 1 # 0  OBVIOUS
  <2>2. CASE k = 0  BY <1>2, <2>1, <2>2 DEF Place
  <2>3. CASE k # 0
    <3>1. k \in 1..Len(s)  BY <2>3
    <3> QED BY <1>2, <2>1, <2>3, <3>1 DEF Place
  <2> QED BY <2>2, <2>3
<1>5. ASSUME NEW k \in 1..Len(t)
      PROVE  f[Place(d, t, k - 1)] = t[k] /\ b[t[k]] = Place(d, t, k - 1)
  <2>1. CASE k = 1
    <3>1. Place(d, t, k - 1) = d  BY <2>1 DEF Place
    <3> QED BY <1>2, <2>1, <3>1
  <2>2. CASE k # 1
    <3>1. PICK j \in 1..Len(s) : k = j + 1
      <4>1. k - 1 \in 1..Len(s) /\ k = (k - 1) + 1  BY <1>2, <1>3, <2>2
      <4> QED BY <4>1
    <3>2. t[k] = s[j]  BY <1>2, <3>1
    <3>3. k - 1 = (j - 1) + 1 /\ j - 1 \in 0..Len(s)  BY <1>3, <3>1
    <3>4. Place(d, t, k - 1) = Place(c, s, j - 1)  BY <1>4, <3>3
    <3> QED BY <3>1, <3>2, <3>4 DEF Run
  <2> QED BY <2>1, <2>2
<1>6. Place(d, t, Len(t)) = Place(c, s, Len(s))
  <2>1. Len(s) \in 0..Len(s)  BY <1>3
  <2> QED BY <1>2, <1>4, <2>1
<1>7. f[Place(d, t, Len(t))] = NULL  BY <1>6 DEF Run
<1>8. Run(f, b, d, t)  BY <1>5, <1>7 DEF Run
<1> QED BY <1>1, <1>8

(* and one node less.                                                      *)
LEMMA RunPop ==
    ASSUME NEW f, NEW b, NEW c, NEW s \in Seq(Node), Run(f, b, c, s), s # <<>>
    PROVE  Run(f, b, s[1], Tail(s))
<1>1. PICK t : t = Tail(s)  OBVIOUS
<1>2. /\ t \in Seq(Node) /\ Len(t) = Len(s) - 1 /\ Len(s) \in Nat \ {0}
      /\ \A k \in 1..(Len(s) - 1) : t[k] = s[k + 1]
  BY <1>1, Popped
<1>3. ASSUME NEW k \in 0..Len(t)  PROVE Place(s[1], t, k) = Place(c, s, k + 1)
  <2>1. k + 1 # 0  OBVIOUS
  <2>2. CASE k = 0  BY <2>1, <2>2 DEF Place
  <2>3. CASE k # 0
    <3>1. k \in 1..(Len(s) - 1)  BY <1>2, <2>3
    <3> QED BY <1>2, <2>1, <2>3, <3>1 DEF Place
  <2> QED BY <2>2, <2>3
<1>4. ASSUME NEW k \in 1..Len(t)
      PROVE  f[Place(s[1], t, k - 1)] = t[k] /\ b[t[k]] = Place(s[1], t, k - 1)
  <2>1. k - 1 \in 0..Len(t) /\ (k - 1) + 1 = k /\ k + 1 \in 1..Len(s) /\ (k + 1) - 1 = k
    BY <1>2
  <2>2. Place(s[1], t, k - 1) = Place(c, s, k)  BY <1>3, <2>1
  <2>3. t[k] = s[k + 1]  BY <1>2
  <2>4. f[Place(c, s, k)] = s[k + 1] /\ b[s[k + 1]] = Place(c, s, k)  BY <2>1 DEF Run
  <2> QED BY <2>2, <2>3, <2>4
<1>5. Place(s[1], t, Len(t)) = Place(c, s, Len(s))
  <2>1. Len(t) \in 0..Len(t) /\ Len(t) + 1 = Len(s)  BY <1>2
  <2> QED BY <1>3, <2>1
<1>6. f[Place(s[1], t, Len(t))] = NULL  BY <1>5 DEF Run
<1>7. Run(f, b, s[1], t)  BY <1>4, <1>6 DEF Run
<1> QED BY <1>1, <1>7

LEMMA NodesFinite == NULL \notin Node /\ IsFiniteSet(Node)
<1>1. Nodes \in Int /\ 1 \in Int  BY DllAssumption
<1>2. IsFiniteSet(1..Nodes)  BY <1>1, FS_Interval
<1> QED BY <1>2, DllAssumption DEF Node

(* A sequence without duplicates has as many elements as it is long.       *)
LEMMA MembersCount ==
    ASSUME NEW s \in Seq(Node), NoDuplicates(s)
    PROVE  /\ IsFiniteSet(Members(s)) /\ Cardinality(Members(s)) = Len(s)
           /\ Members(s) \subseteq Node /\ Len(s) <= Cardinality(Node)
<1>1. Len(s) \in Nat /\ DOMAIN s = 1..Len(s) /\ \A k \in 1..Len(s) : s[k] \in Node
  OBVIOUS
<1>2. s \in [1..Len(s) -> Members(s)]  BY <1>1 DEF Members
<1>3. s \in Surjection(1..Len(s), Members(s))
  BY <1>1, <1>2 DEF Surjection, Members
<1>4. s \in Injection(1..Len(s), Members(s))
  BY <1>1, <1>2 DEF Injection, IsInjective, NoDuplicates
<1>5. IsFiniteSet(1..Len(s)) /\ Cardinality(1..Len(s)) = Len(s)
  <2>1. PICK n \in Nat : n = Len(s)  BY <1>1
  <2>2. IsFiniteSet(1..n) /\ Cardinality(1..n) = IF 1 > n THEN 0 ELSE n - 1 + 1
    BY FS_Interval
  <2> QED BY <2>1, <2>2
<1>6. IsFiniteSet(Members(s)) /\ Cardinality(Members(s)) = Len(s)
  BY <1>3, <1>4, <1>5, FS_Surjection
<1>7. Members(s) \subseteq Node  BY <1>1 DEF Members
<1>8. IsFiniteSet(Node)  BY NodesFinite
<1> QED BY <1>6, <1>7, <1>8, FS_Subset
(* The run behind c is the chain from there.                               *)
LEMMA RunChain ==
    ASSUME NEW f, LinkType(f), NEW b, NEW c \in Node, NEW s \in Seq(Node), Run(f, b, c, s),
           NoDuplicates(s)
    PROVE  Chain(f, f[c], Size) = s
<1>1. /\ Len(s) \in Nat /\ (s = <<>> <=> Len(s) = 0) /\ \A k \in 1..Len(s) : s[k] \in Node
      /\ NULL \notin Node /\ IsFiniteSet(Node)
  BY NodesFinite
<1>2. f[c] \in Node \cup {NULL} /\ \A x \in Node : f[x] \in Node \cup {NULL}
  BY DEF LinkType
<1>3. Size \in Nat /\ Len(s) < Size  BY <1>1, MembersCount, FS_CardinalityType DEF Size
<1>4. Path(f, f[c], s)
  <2>1. CASE s = <<>>
    <3>1. f[c] = NULL  BY <1>1, <2>1 DEF Run, Place
    <3> QED BY <2>1, <3>1 DEF Path
  <2>2. CASE s # <<>>
    <3>1. s[1] = f[c]  BY <2>2, RunFirst
    <3>2. f[s[Len(s)]] = NULL  BY <1>1, <2>2 DEF Run, Place
    <3>3. ASSUME NEW k \in 1..(Len(s) - 1)  PROVE f[s[k]] = s[k + 1]
      <4>1. k + 1 \in 1..Len(s) /\ (k + 1) - 1 = k /\ k # 0  BY <1>1
      <4> QED BY <4>1 DEF Run, Place
    <3> QED BY <2>2, <3>1, <3>2, <3>3 DEF Path
  <2> QED BY <2>1, <2>2
<1> HIDE DEF Node
<1> QED BY <1>1, <1>2, <1>3, <1>4, ChainIs

(* So is c and the run behind it.                                          *)
LEMMA RunChainWith ==
    ASSUME NEW f, LinkType(f), NEW b, NEW c \in Node, NEW s \in Seq(Node), Run(f, b, c, s),
           NoDuplicates(s), c \notin Members(s)
    PROVE  Chain(f, c, Size) = <<c>> \o s
<1>1. /\ Len(s) \in Nat /\ (s = <<>> <=> Len(s) = 0) /\ \A k \in 1..Len(s) : s[k] \in Node
      /\ NULL \notin Node /\ IsFiniteSet(Node)
  BY NodesFinite
<1>2. \A x \in Node : f[x] \in Node \cup {NULL}
  BY DEF LinkType
<1>3. PICK t : t = <<c>> \o s  OBVIOUS
<1>4. /\ t \in Seq(Node) /\ Len(t) = Len(s) + 1 /\ t # <<>> /\ t[1] = c
      /\ \A k \in 1..Len(s) : t[k + 1] = s[k]
      /\ NoDuplicates(t)
  BY <1>3, Pushed
<1>5. Size \in Nat /\ Len(t) < Size  BY <1>1, <1>4, MembersCount, FS_CardinalityType DEF Size
<1>6. ASSUME NEW k \in 0..Len(s)  PROVE Place(c, s, k) = t[k + 1]
  <2>1. CASE k = 0  BY <1>4, <2>1 DEF Place
  <2>2. CASE k # 0
    <3>1. k \in 1..Len(s)  BY <1>1, <2>2
    <3> QED BY <1>4, <2>2, <3>1 DEF Place
  <2> QED BY <2>1, <2>2
<1>7. Path(f, c, t)
  <2>1. f[t[Len(t)]] = NULL
    <3>1. Len(s) \in 0..Len(s)  BY <1>1
    <3> QED BY <1>4, <1>6, <3>1 DEF Run
  <2>2. ASSUME NEW k \in 1..(Len(t) - 1)  PROVE f[t[k]] = t[k + 1]
    <3>1. k \in 1..Len(s) /\ k - 1 \in 0..Len(s) /\ (k - 1) + 1 = k  BY <1>1, <1>4
    <3>2. f[Place(c, s, k - 1)] = s[k]  BY <3>1 DEF Run
    <3> QED BY <1>4, <1>6, <3>1, <3>2
  <2> QED BY <1>4, <2>1, <2>2 DEF Path
<1> HIDE DEF Node
<1>8. Chain(f, c, Size) = t  BY <1>1, <1>2, <1>4, <1>5, <1>7, ChainIs
<1> QED BY <1>3, <1>8

(* The chains of a list                                                    *)
LEMMA ZipChains ==
    ASSUME NEW P, LinkType(P), NEW N, LinkType(N), NEW c \in Node \cup {NULL},
           NEW lft \in Seq(Node), NEW rgt \in Seq(Node), Zip(P, N, c, lft, rgt)
    PROVE  /\ c # NULL => /\ Chain(P, P[c], Size) = lft /\ Chain(N, N[c], Size) = rgt
                          /\ Chain(N, c, Size) = <<c>> \o rgt
           /\ Chain(N, NULL, Size) = <<>>
<1>1. ASSUME c # NULL
      PROVE  /\ Chain(P, P[c], Size) = lft /\ Chain(N, N[c], Size) = rgt
             /\ Chain(N, c, Size) = <<c>> \o rgt
  BY <1>1, RunChain, RunChainWith, SMTT(20) DEF Zip
<1>2. Chain(N, NULL, Size) = <<>>
  <2>1. NULL \notin Node /\ IsFiniteSet(Node)  BY NodesFinite
  <2>2. Size \in Nat /\ Len(<<>>) < Size  BY <2>1, FS_CardinalityType DEF Size
  <2>3. \A x \in Node : N[x] \in Node \cup {NULL}  BY DEF LinkType
  <2>4. <<>> \in Seq(Node) /\ Path(N, NULL, <<>>)  BY DEF Path
  <2> HIDE DEF Node
  <2> QED BY <2>1, <2>2, <2>3, <2>4, ChainIs
<1> QED BY <1>1, <1>2
----------------------------------------------------------------------------
(* What a step does to the list of one caller: it is at c now, and the     *)
(* nodes of the other lists stay as they are.                              *)
Others(l, lft, rgt) == owned \ Held(at[l], lft[l], rgt[l])

Took(l, c, lf, rg, lft, rgt) ==
    /\ c \in Node \cup {NULL} /\ lf \in Seq(Node) /\ rg \in Seq(Node)
    /\ at' = [at EXCEPT ![l] = c]
    /\ Zip(prev', next', c, lf, rg)
    /\ owned' = Others(l, lft, rgt) \cup Held(c, lf, rg)
    /\ Held(c, lf, rg) \cap Others(l, lft, rgt) = {}
    /\ \A n \in Others(l, lft, rgt) :
          prev'[n] = prev[n] /\ next'[n] = next[n] /\ data'[n] = data[n]

(* The nodes that follow c when the caller goes on to a node beside it     *)
PushedOn(c, s) == IF c = NULL THEN <<>> ELSE <<c>> \o s

LEMMA FreshIsFree ==
    ASSUME DllTypeOK, owned # Node
    PROVE  Fresh \in Node \ owned
<1> DEFINE free == Node \ owned
<1>1. free # {} /\ free \subseteq Nat
  <2>1. owned \subseteq Node  BY DEF DllTypeOK
  <2>2. Node \subseteq Nat  BY DEF Node
  <2> HIDE DEF Node
  <2> QED BY <2>1, <2>2
<1>2. \E x \in free : \A y \in free : x <= y
  <2> DEFINE R == OpToRel(<, Nat)
  <2>1. \A x, y \in Nat : y < x => <<y, x>> \in R  BY DEF OpToRel
  <2>2. IsWellFoundedOn(R, Nat)  BY NatLessThanWellFounded
  <2> HIDE DEF R, free
  <2>3. PICK x \in free : \A y \in free : ~ (<<y, x>> \in R)  BY <1>1, <2>2, WFMin
  <2>4. \A y \in free : ~ (y < x)  BY <1>1, <2>1, <2>3
  <2> QED BY <1>1, <2>3, <2>4
<1> HIDE DEF free
<1>3. Min(free) \in free  BY <1>2 DEF Min
<1> QED BY <1>3 DEF free, Fresh

(* The node of a list is owned, those beside it are other nodes.           *)
LEMMA ZipNodes ==
    ASSUME NEW P, NEW N, NEW c \in Node, NEW lft \in Seq(Node), NEW rgt \in Seq(Node),
           Zip(P, N, c, lft, rgt)
    PROVE  /\ Run(P, N, c, lft) /\ Run(N, P, c, rgt)
           /\ c \notin Members(lft) /\ c \notin Members(rgt) /\ Members(lft) \cap Members(rgt) = {}
           /\ NoDuplicates(lft) /\ NoDuplicates(rgt)
           /\ Held(c, lft, rgt) = {c} \cup Members(lft) \cup Members(rgt)
BY NodesFinite DEF Zip, Held

(* The first node of a run comes once.                                     *)
LEMMA FirstOnce ==
    ASSUME NEW s \in Seq(Node), NoDuplicates(s)
    PROVE  /\ \A k \in 1..Len(s) : s[k] \in Members(s) /\ s[k] \in Node
           /\ \A k \in 2..Len(s) : s[k] # s[1]
<1>1. Len(s) \in Nat /\ DOMAIN s = 1..Len(s)  OBVIOUS
<1>2. \A k \in 2..Len(s) : k \in DOMAIN s /\ 1 \in DOMAIN s /\ k # 1  BY <1>1
<1> QED BY <1>1, <1>2 DEF Members, NoDuplicates

LEMMA AddTakes ==
    ASSUME DllTypeOK, NEW lft, NEW rgt, Sides(lft, rgt), Good(prev, next, at, owned, lft, rgt),
           NEW l \in List, NEW x \in Element, add(l, x)
    PROVE  /\ Fresh \in Node \ owned /\ data' = [data EXCEPT ![Fresh] = x] /\ removed' = removed
           /\ Took(l, Fresh, PushedOn(at[l], lft[l]), rgt[l], lft, rgt)
<1>1. PICK m \in Node \ owned : m = Fresh  BY FreshIsFree DEF add, malloc
<1>2. /\ data' = [data EXCEPT ![m] = x] /\ removed' = removed /\ owned' = owned \cup {m}
      /\ at' = [at EXCEPT ![l] = m]
      /\ \/ /\ at[l] = NULL
            /\ prev' = [prev EXCEPT ![m] = NULL]
            /\ next' = [next EXCEPT ![m] = NULL]
         \/ /\ at[l] # NULL
            /\ next' = [next EXCEPT ![m] = next[at[l]], ![at[l]] = m]
            /\ prev' = [n \in Node |-> IF n = m THEN at[l]
                                       ELSE IF n = next[at[l]] THEN m ELSE prev[n]]
  BY <1>1 DEF add, malloc
<1>3. /\ data \in [Node -> Element \cup {NULL}]
      /\ prev \in [Node -> Node \cup {NULL}] /\ next \in [Node -> Node \cup {NULL}]
      /\ owned \subseteq Node /\ NULL \notin Node
  BY NodesFinite DEF DllTypeOK
<1>4. PICK lf \in Seq(Node), rg \in Seq(Node) : lf = lft[l] /\ rg = rgt[l]
  BY DEF Sides
<1>5. PICK n \in Node \cup {NULL} : n = at[l]  BY DEF DllTypeOK
<1>6. Zip(prev, next, n, lf, rg) /\ Held(n, lf, rg) \subseteq owned
  BY <1>4, <1>5 DEF Good
<1>7. PICK rest : rest = Others(l, lft, rgt)  OBVIOUS
<1>8. rest = owned \ Held(n, lf, rg)  BY <1>4, <1>5, <1>7 DEF Others
<1>9. CASE n = NULL
  <2>1. lf = <<>> /\ rg = <<>> /\ Held(n, lf, rg) = {}  BY <1>6, <1>9 DEF Zip, Held
  <2>2. PICK e \in Seq(Node) : e = <<>>
    <3>1. <<>> \in Seq(Node)  OBVIOUS
    <3> QED BY <3>1
  <2>3. Len(e) = 0 /\ Members(e) = {} /\ NoDuplicates(e)
    BY <2>2 DEF Members, NoDuplicates
  <2>4. prev'[m] = NULL /\ next'[m] = NULL  BY <1>2, <1>3, <1>5, <1>9
  <2>5. Zip(prev', next', m, e, e)  BY <1>3, <2>3, <2>4 DEF Zip, Run, Place
  <2>6. Held(m, e, e) = {m}  BY <1>3, <2>3 DEF Held
  <2>7. \A k \in rest : prev'[k] = prev[k] /\ next'[k] = next[k] /\ data'[k] = data[k]
    BY <1>2, <1>3, <1>5, <1>8, <1>9
  <2>8. owned' = rest \cup {m} /\ {m} \cap rest = {}  BY <1>2, <1>8, <2>1
  <2>9. Took(l, m, e, e, lft, rgt)
    BY <1>2, <1>7, <2>5, <2>6, <2>7, <2>8 DEF Took
  <2> QED BY <1>1, <1>2, <1>4, <1>5, <1>9, <2>1, <2>2, <2>9 DEF PushedOn
<1>10. CASE n # NULL
  <2>1. /\ Run(prev, next, n, lf) /\ Run(next, prev, n, rg)
        /\ n \notin Members(lf) /\ n \notin Members(rg) /\ Members(lf) \cap Members(rg) = {}
        /\ NoDuplicates(lf) /\ NoDuplicates(rg)
        /\ Held(n, lf, rg) = {n} \cup Members(lf) \cup Members(rg)
    BY <1>6, <1>10, ZipNodes
  <2>2. n \in Node /\ m # n /\ m \notin Members(lf) /\ m \notin Members(rg)
    BY <1>6, <1>10, <2>1
  <2>3. /\ next' = [next EXCEPT ![m] = next[n], ![n] = m]
        /\ prev' = [k \in Node |-> IF k = m THEN n ELSE IF k = next[n] THEN m ELSE prev[k]]
    BY <1>2, <1>5, <1>10
  <2>4. /\ next'[m] = next[n] /\ next'[n] = m /\ \A k \in Node \ {m, n} : next'[k] = next[k]
        /\ prev'[m] = n /\ \A k \in Node \ {m} : prev'[k] = IF k = next[n] THEN m ELSE prev[k]
    BY <1>3, <2>2, <2>3
  <2>5. /\ \A k \in 1..Len(lf) : lf[k] \in Members(lf) /\ lf[k] \in Node
        /\ \A k \in 1..Len(rg) : rg[k] \in Members(rg) /\ rg[k] \in Node
        /\ \A k \in 2..Len(rg) : rg[k] # rg[1]
    BY <2>1, FirstOnce
  <2>6. /\ rg = <<>> => next[n] = NULL
        /\ rg # <<>> => next[n] = rg[1] /\ rg[1] \in Members(rg)
    <3>1. /\ rg = <<>> => next[n] = NULL
          /\ rg # <<>> => next[n] = rg[1]
      BY <2>1, RunFirst
    <3>2. rg # <<>> => 1 \in 1..Len(rg)  OBVIOUS
    <3> QED BY <2>5, <3>1, <3>2
  <2>7. next[n] \notin Members(lf) \cup {n}
    <3>1. NULL \notin Members(lf)  BY <1>3 DEF Members
    <3> QED BY <1>3, <2>1, <2>2, <2>6, <3>1
  <2>8. Run(prev', next', n, lf)
    <3>1. prev'[n] = prev[n]  BY <2>2, <2>4, <2>7
    <3>2. ASSUME NEW k \in 1..Len(lf)  PROVE prev'[lf[k]] = prev[lf[k]] /\ next'[lf[k]] = next[lf[k]]
      BY <2>1, <2>2, <2>4, <2>5, <2>7
    <3>3. \A k \in 2..Len(lf) : k \in 1..Len(lf)  OBVIOUS
    <3>4. lf # <<>> => next'[lf[1]] = n
      <4>1. lf # <<>> => next[lf[1]] = n /\ 1 \in 1..Len(lf)  BY <2>1, RunFirst
      <4> QED BY <3>2, <4>1
    <3> QED BY <2>1, <3>1, <3>2, <3>3, <3>4, RunFrom
  <2>9. Run(prev', next', m, <<n>> \o lf)
    BY <2>2, <2>4, <2>8, RunPush
  <2>10. Run(next', prev', m, rg)
    <3>1. ASSUME NEW k \in 1..Len(rg)  PROVE next'[rg[k]] = next[rg[k]]
      BY <2>1, <2>2, <2>4, <2>5
    <3>2. ASSUME NEW k \in 2..Len(rg)  PROVE prev'[rg[k]] = prev[rg[k]]
      <4>1. k \in 1..Len(rg) /\ rg # <<>>  OBVIOUS
      <4>2. rg[k] # next[n] /\ rg[k] # m /\ rg[k] \in Node  BY <2>2, <2>5, <2>6, <4>1
      <4> QED BY <2>4, <4>2
    <3>3. rg # <<>> => prev'[rg[1]] = m
      <4>1. rg # <<>> => rg[1] \in Node /\ rg[1] # m /\ rg[1] = next[n]
        BY <1>3, <2>2, <2>6 DEF Members
      <4> QED BY <2>4, <4>1
    <3> QED BY <2>1, <2>4, <3>1, <3>2, <3>3, RunFrom
  <2>11. PICK nl \in Seq(Node) : nl = <<n>> \o lf  BY <2>2, Pushed
  <2>12. Members(nl) = {n} \cup Members(lf) /\ NoDuplicates(nl)
    BY <2>1, <2>2, <2>11, Pushed
  <2>13. Zip(prev', next', m, nl, rg)
    BY <1>3, <2>1, <2>2, <2>9, <2>10, <2>11, <2>12 DEF Zip
  <2>14. Held(m, nl, rg) = {m} \cup Held(n, lf, rg)
    BY <1>3, <2>1, <2>12 DEF Held
  <2>15. owned' = rest \cup Held(m, nl, rg) /\ Held(m, nl, rg) \cap rest = {}
    BY <1>2, <1>6, <1>8, <2>14
  <2>16. ASSUME NEW k \in rest
         PROVE  prev'[k] = prev[k] /\ next'[k] = next[k] /\ data'[k] = data[k]
    <3>1. k \in Node \ {m, n} /\ k # next[n]  BY <1>3, <1>8, <2>1, <2>2, <2>6
    <3> QED BY <1>2, <1>3, <2>4, <3>1
  <2>17. Took(l, m, nl, rg, lft, rgt)
    BY <1>2, <1>7, <2>13, <2>15, <2>16 DEF Took
  <2> QED BY <1>1, <1>2, <1>4, <1>5, <1>10, <2>11, <2>17 DEF PushedOn
<1> QED BY <1>9, <1>10
(* Field f after n was unlinked from its neighbour                         *)
LEMMA RelinkedIs ==
    ASSUME NEW f, NEW n \in Node, NEW w, NEW v
    PROVE  \A k \in Node \ {n} : Relinked(f, n, w, v)[k] = IF k = w THEN v ELSE f[k]
BY DEF Relinked

LEMMA RemoveTakes ==
    ASSUME DllTypeOK, NEW lft, NEW rgt, Sides(lft, rgt), Good(prev, next, at, owned, lft, rgt),
           NEW l \in List, remove(l)
    PROVE  /\ at[l] \in Node /\ at[l] \in owned /\ removed' = <<data[at[l]]>>
           /\ \A k \in Node \ {at[l]} : data'[k] = data[k]
           /\ rgt[l] # <<>> => Took(l, rgt[l][1], lft[l], Tail(rgt[l]), lft, rgt)
           /\ rgt[l] = <<>> /\ lft[l] # <<>> => Took(l, lft[l][1], Tail(lft[l]), rgt[l], lft, rgt)
           /\ rgt[l] = <<>> /\ lft[l] = <<>> => Took(l, NULL, lft[l], rgt[l], lft, rgt)
<1>1. PICK n \in Node : n = at[l]  BY DEF DllTypeOK, remove
<1>2. /\ next' = Relinked(next, n, prev[n], next[n])
      /\ prev' = Relinked(prev, n, next[n], prev[n])
      /\ at' = [at EXCEPT ![l] = IF next[n] = NULL THEN prev[n] ELSE next[n]]
      /\ owned' = owned \ {n}
      /\ data' = [data EXCEPT ![n] = NULL]
      /\ removed' = <<data[n]>>
  BY <1>1 DEF remove
<1>3. /\ data \in [Node -> Element \cup {NULL}]
      /\ prev \in [Node -> Node \cup {NULL}] /\ next \in [Node -> Node \cup {NULL}]
      /\ owned \subseteq Node /\ NULL \notin Node
  BY NodesFinite DEF DllTypeOK
<1>4. PICK lf \in Seq(Node), rg \in Seq(Node) : lf = lft[l] /\ rg = rgt[l]
  BY DEF Sides
<1>5. Zip(prev, next, n, lf, rg) /\ Held(n, lf, rg) \subseteq owned
  BY <1>1, <1>4 DEF Good
<1>6. PICK rest : rest = Others(l, lft, rgt)  OBVIOUS
<1>7. rest = owned \ Held(n, lf, rg)  BY <1>1, <1>4, <1>6 DEF Others
<1>8. /\ Run(prev, next, n, lf) /\ Run(next, prev, n, rg)
      /\ n \notin Members(lf) /\ n \notin Members(rg) /\ Members(lf) \cap Members(rg) = {}
      /\ NoDuplicates(lf) /\ NoDuplicates(rg)
      /\ Held(n, lf, rg) = {n} \cup Members(lf) \cup Members(rg)
  <2>1. n \in Node /\ Zip(prev, next, n, lf, rg)  BY <1>5
  <2>2. n # NULL  BY <1>3
  <2> QED BY <2>1, <2>2 DEF Zip, Held
<1>9. /\ \A k \in Node \ {n} : next'[k] = IF k = prev[n] THEN next[n] ELSE next[k]
      /\ \A k \in Node \ {n} : prev'[k] = IF k = next[n] THEN prev[n] ELSE prev[k]
  BY <1>2, RelinkedIs
<1>10. /\ \A k \in 1..Len(lf) : lf[k] \in Members(lf) /\ lf[k] \in Node
       /\ \A k \in 1..Len(rg) : rg[k] \in Members(rg) /\ rg[k] \in Node
       /\ \A k \in 2..Len(lf) : lf[k] # lf[1]
       /\ \A k \in 2..Len(rg) : rg[k] # rg[1]
  BY <1>8, FirstOnce
<1>11. /\ rg = <<>> => next[n] = NULL
       /\ rg # <<>> => next[n] = rg[1] /\ rg[1] \in Members(rg) /\ rg[1] \in Node
       /\ lf = <<>> => prev[n] = NULL
       /\ lf # <<>> => prev[n] = lf[1] /\ lf[1] \in Members(lf) /\ lf[1] \in Node
  <2>1. /\ rg = <<>> => next[n] = NULL
        /\ rg # <<>> => next[n] = rg[1]
    BY <1>8, RunFirst
  <2>2. /\ lf = <<>> => prev[n] = NULL
        /\ lf # <<>> => prev[n] = lf[1]
    BY <1>8, RunFirst
  <2>3. (rg # <<>> => 1 \in 1..Len(rg)) /\ (lf # <<>> => 1 \in 1..Len(lf))  OBVIOUS
  <2> QED BY <1>10, <2>1, <2>2, <2>3
<1>12. ASSUME NEW k \in rest
       PROVE  prev'[k] = prev[k] /\ next'[k] = next[k] /\ data'[k] = data[k]
  <2>1. k \in Node \ {n} /\ k # next[n] /\ k # prev[n]  BY <1>3, <1>7, <1>8, <1>11
  <2> QED BY <1>2, <1>3, <1>9, <2>1
<1>13. \A k \in Node \ {n} : data'[k] = data[k]  BY <1>2, <1>3
<1>14. NULL \notin Members(lf) /\ NULL \notin Members(rg)  BY <1>3 DEF Members
<1>15. ASSUME rg # <<>>  PROVE Took(l, rg[1], lf, Tail(rg), lft, rgt)
  <2>1. PICK r \in Node : r = rg[1]  BY <1>11, <1>15
  <2>2. PICK rt \in Seq(Node) : rt = Tail(rg)  BY <1>15, Popped
  <2>3. /\ Members(rg) = {r} \cup Members(rt) /\ r \notin Members(rt) /\ NoDuplicates(rt)
        /\ Len(rt) = Len(rg) - 1 /\ Len(rg) \in Nat \ {0}
        /\ \A k \in 1..(Len(rg) - 1) : rt[k] = rg[k + 1]
    BY <1>8, <1>15, <2>1, <2>2, Popped
  <2>4. Run(next, prev, r, rt)  BY <1>8, <1>15, <2>1, <2>2, RunPop
  <2>5. next[n] = r /\ r # n /\ r \notin Members(lf) /\ n \notin Members(rt)
    BY <1>8, <1>11, <1>15, <2>1, <2>3
  <2>6. prev[n] \notin Members(rg) /\ prev[n] # n
    BY <1>8, <1>11, <1>14, <1>3
  <2>7. /\ \A k \in 1..Len(rt) : rt[k] \in Members(rt) /\ rt[k] \in Node
    BY <2>3, FirstOnce
  <2>8. Run(next', prev', r, rt)
    <3>1. next'[r] = next[r]  BY <1>9, <2>3, <2>5, <2>6
    <3>2. ASSUME NEW k \in 1..Len(rt)  PROVE next'[rt[k]] = next[rt[k]] /\ prev'[rt[k]] = prev[rt[k]]
      <4>1. rt[k] \in Node \ {n} /\ rt[k] # prev[n] /\ rt[k] # next[n]
        BY <2>3, <2>5, <2>6, <2>7
      <4> QED BY <1>9, <4>1
    <3>3. \A k \in 2..Len(rt) : k \in 1..Len(rt)  OBVIOUS
    <3>4. rt # <<>> => prev'[rt[1]] = r
      <4>1. rt # <<>> => prev[rt[1]] = r /\ 1 \in 1..Len(rt)  BY <2>4, RunFirst
      <4> QED BY <3>2, <4>1
    <3> QED BY <2>4, <3>1, <3>2, <3>3, <3>4, RunFrom
  <2>9. Run(prev', next', r, lf)
    <3>1. prev'[r] = prev[n]  BY <1>9, <2>5
    <3>2. ASSUME NEW k \in 1..Len(lf)  PROVE prev'[lf[k]] = prev[lf[k]]
      <4>1. lf[k] \in Node \ {n} /\ lf[k] # next[n]  BY <1>8, <1>10, <2>5
      <4> QED BY <1>9, <4>1
    <3>3. ASSUME NEW k \in 2..Len(lf)  PROVE next'[lf[k]] = next[lf[k]]
      <4>1. k \in 1..Len(lf) /\ lf # <<>>  OBVIOUS
      <4>2. lf[k] \in Node \ {n} /\ lf[k] # prev[n]  BY <1>8, <1>10, <1>11, <4>1
      <4> QED BY <1>9, <4>2
    <3>4. lf # <<>> => next'[lf[1]] = r
      <4>1. lf # <<>> => lf[1] \in Node \ {n} /\ lf[1] = prev[n]  BY <1>8, <1>11
      <4> QED BY <1>9, <2>5, <4>1
    <3> QED BY <1>8, <3>1, <3>2, <3>3, <3>4, RunFrom
  <2>10. Zip(prev', next', r, lf, rt)
    BY <1>3, <1>8, <2>3, <2>5, <2>8, <2>9 DEF Zip
  <2>11. Held(r, lf, rt) = Held(n, lf, rg) \ {n}
    BY <1>3, <1>8, <2>3, <2>5 DEF Held
  <2>12. owned' = rest \cup Held(r, lf, rt) /\ Held(r, lf, rt) \cap rest = {}
    BY <1>2, <1>5, <1>7, <1>8, <2>11
  <2>13. at' = [at EXCEPT ![l] = r]  BY <1>2, <1>3, <2>5
  <2>14. Took(l, r, lf, rt, lft, rgt)
    BY <1>6, <1>12, <2>10, <2>12, <2>13 DEF Took
  <2> QED BY <2>1, <2>2, <2>14
<1>16. ASSUME rg = <<>>, lf # <<>>  PROVE Took(l, lf[1], Tail(lf), rg, lft, rgt)
  <2>1. PICK p \in Node : p = lf[1]  BY <1>11, <1>16
  <2>2. PICK lt \in Seq(Node) : lt = Tail(lf)  BY <1>16, Popped
  <2>3. /\ Members(lf) = {p} \cup Members(lt) /\ p \notin Members(lt) /\ NoDuplicates(lt)
    BY <1>8, <1>16, <2>1, <2>2, Popped
  <2>4. Run(prev, next, p, lt)  BY <1>8, <1>16, <2>1, <2>2, RunPop
  <2>5. /\ prev[n] = p /\ next[n] = NULL /\ p # n /\ n \notin Members(lt)
        /\ Members(rg) = {} /\ Len(rg) = 0
    <3>1. Len(rg) = 0  BY <1>16
    <3>2. Members(rg) = {}  BY <1>16 DEF Members
    <3>3. prev[n] = p /\ next[n] = NULL /\ p \in Members(lf)  BY <1>11, <1>16, <2>1
    <3>4. p # n /\ n \notin Members(lt)  BY <1>8, <2>3, <3>3
    <3> QED BY <3>1, <3>2, <3>3, <3>4
  <2>6. \A k \in 1..Len(lt) : lt[k] \in Members(lt) /\ lt[k] \in Node
    BY <2>3, FirstOnce
  <2>7. Run(prev', next', p, lt)
    <3>1. prev'[p] = prev[p]  BY <1>3, <1>9, <2>5
    <3>2. ASSUME NEW k \in 1..Len(lt)  PROVE prev'[lt[k]] = prev[lt[k]] /\ next'[lt[k]] = next[lt[k]]
      <4>1. lt[k] \in Node \ {n} /\ lt[k] # prev[n] /\ lt[k] # next[n]
        BY <1>3, <2>3, <2>5, <2>6
      <4> QED BY <1>9, <4>1
    <3>3. \A k \in 2..Len(lt) : k \in 1..Len(lt)  OBVIOUS
    <3>4. lt # <<>> => next'[lt[1]] = p
      <4>1. lt # <<>> => next[lt[1]] = p /\ 1 \in 1..Len(lt)  BY <2>4, RunFirst
      <4> QED BY <3>2, <4>1
    <3> QED BY <2>4, <3>1, <3>2, <3>3, <3>4, RunFrom
  <2>8. Run(next', prev', p, rg)
    <3>1. next'[p] = NULL  BY <1>9, <2>5
    <3> QED BY <2>5, <3>1 DEF Run, Place
  <2>9. Zip(prev', next', p, lt, rg)
    BY <1>3, <1>8, <2>3, <2>5, <2>7, <2>8 DEF Zip
  <2>10. Held(p, lt, rg) = Held(n, lf, rg) \ {n}
    BY <1>3, <1>8, <2>3, <2>5 DEF Held
  <2>11. owned' = rest \cup Held(p, lt, rg) /\ Held(p, lt, rg) \cap rest = {}
    BY <1>2, <1>5, <1>7, <1>8, <2>10
  <2>12. at' = [at EXCEPT ![l] = p]  BY <1>2, <2>5
  <2>13. Took(l, p, lt, rg, lft, rgt)
    BY <1>6, <1>12, <2>9, <2>11, <2>12 DEF Took
  <2> QED BY <2>1, <2>2, <2>13
<1>17. ASSUME rg = <<>>, lf = <<>>  PROVE Took(l, NULL, lf, rg, lft, rgt)
  <2>1. prev[n] = NULL /\ next[n] = NULL /\ Members(lf) = {} /\ Members(rg) = {}
    BY <1>11, <1>17 DEF Members
  <2>2. Zip(prev', next', NULL, lf, rg) /\ Held(NULL, lf, rg) = {}  BY <1>17 DEF Zip, Held
  <2>3. owned' = rest  BY <1>2, <1>7, <1>8, <2>1
  <2>4. at' = [at EXCEPT ![l] = NULL]  BY <1>2, <2>1
  <2> QED BY <1>6, <1>12, <2>2, <2>3, <2>4 DEF Took
<1> QED BY <1>1, <1>2, <1>4, <1>5, <1>8, <1>13, <1>15, <1>16, <1>17

(* Read from right to left, a list is a list.                              *)
LEMMA ZipTurned ==
    ASSUME NEW P, NEW N, NEW c, NEW lft, NEW rgt, Zip(P, N, c, lft, rgt)
    PROVE  Zip(N, P, c, rgt, lft) /\ Held(c, rgt, lft) = Held(c, lft, rgt)
BY DEF Zip, Held

(* A place further on it is the same list.                                 *)
LEMMA ZipMoves ==
    ASSUME NEW P, NEW N, NEW c \in Node, NEW lft \in Seq(Node), NEW rgt \in Seq(Node),
           Zip(P, N, c, lft, rgt), rgt # <<>>
    PROVE  /\ N[c] = rgt[1] /\ rgt[1] \in Node
           /\ Zip(P, N, rgt[1], <<c>> \o lft, Tail(rgt))
           /\ Held(rgt[1], <<c>> \o lft, Tail(rgt)) = Held(c, lft, rgt)
<1>0. NULL \notin Node  BY NodesFinite
<1>1. /\ Run(P, N, c, lft) /\ Run(N, P, c, rgt)
      /\ c \notin Members(lft) /\ c \notin Members(rgt) /\ Members(lft) \cap Members(rgt) = {}
      /\ NoDuplicates(lft) /\ NoDuplicates(rgt)
      /\ Held(c, lft, rgt) = {c} \cup Members(lft) \cup Members(rgt)
  BY <1>0 DEF Zip, Held
<1>2. PICK r \in Node : r = rgt[1]  BY Popped
<1>3. PICK rt \in Seq(Node) : rt = Tail(rgt)  BY Popped
<1>4. Members(rgt) = {r} \cup Members(rt) /\ r \notin Members(rt) /\ NoDuplicates(rt)
  BY <1>1, <1>2, <1>3, Popped
<1>5. N[c] = r /\ P[r] = c  BY <1>1, <1>2, RunFirst
<1>6. PICK ln \in Seq(Node) : ln = <<c>> \o lft  BY Pushed
<1>7. Members(ln) = {c} \cup Members(lft) /\ NoDuplicates(ln)
  BY <1>1, <1>6, Pushed
<1>8. Run(N, P, r, rt)  BY <1>1, <1>2, <1>3, RunPop
<1>9. Run(P, N, r, ln)  BY <1>1, <1>5, <1>6, RunPush
<1>10. Zip(P, N, r, ln, rt) /\ Held(r, ln, rt) = Held(c, lft, rgt)
  BY <1>0, <1>1, <1>4, <1>7, <1>8, <1>9 DEF Zip, Held
<1> QED BY <1>2, <1>3, <1>5, <1>6, <1>10

LEMMA WalkTakes ==
    ASSUME DllTypeOK, NEW lft, NEW rgt, Sides(lft, rgt), Good(prev, next, at, owned, lft, rgt),
           NEW l \in List, walk(l)
    PROVE  /\ at[l] \in Node /\ data' = data /\ removed' = removed
           /\ \/ rgt[l] # <<>> /\ Took(l, rgt[l][1], <<at[l]>> \o lft[l], Tail(rgt[l]), lft, rgt)
              \/ lft[l] # <<>> /\ Took(l, lft[l][1], Tail(lft[l]), <<at[l]>> \o rgt[l], lft, rgt)
<1>1. PICK c \in Node : c = at[l]  BY DEF DllTypeOK, walk
<1>2. PICK n : n \in {prev[c], next[c]} \ {NULL} /\ at' = [at EXCEPT ![l] = n]
  BY <1>1 DEF walk
<1>3. data' = data /\ prev' = prev /\ next' = next /\ owned' = owned /\ removed' = removed
  BY DEF walk
<1>4. PICK lf \in Seq(Node), rg \in Seq(Node) : lf = lft[l] /\ rg = rgt[l]
  BY DEF Sides
<1>5. Zip(prev, next, c, lf, rg) /\ Held(c, lf, rg) \subseteq owned
  BY <1>1, <1>4 DEF Good
<1>6. PICK rest : rest = Others(l, lft, rgt)  OBVIOUS
<1>7. rest = owned \ Held(c, lf, rg)  BY <1>1, <1>4, <1>6 DEF Others
<1>8. owned = rest \cup Held(c, lf, rg) /\ Held(c, lf, rg) \cap rest = {}
  BY <1>5, <1>7
<1>9. Run(prev, next, c, lf) /\ Run(next, prev, c, rg)  BY <1>5, NodesFinite DEF Zip
<1>10. (rg = <<>> => next[c] = NULL) /\ (lf = <<>> => prev[c] = NULL)
  BY <1>9, RunFirst
<1>11. CASE n = next[c]
  <2>1. rg # <<>>  BY <1>2, <1>10, <1>11
  <2>2. /\ n = rg[1] /\ n \in Node
        /\ Zip(prev, next, rg[1], <<c>> \o lf, Tail(rg))
        /\ Held(rg[1], <<c>> \o lf, Tail(rg)) = Held(c, lf, rg)
    BY <1>5, <1>11, <2>1, ZipMoves
  <2>3. <<c>> \o lf \in Seq(Node) /\ Tail(rg) \in Seq(Node)  BY <2>1, Pushed, Popped
  <2>4. PICK nl, nr : nl = <<c>> \o lf /\ nr = Tail(rg)  OBVIOUS
  <2>5. Took(l, n, nl, nr, lft, rgt)
    BY <1>2, <1>3, <1>6, <1>8, <2>2, <2>3, <2>4 DEF Took
  <2> QED BY <1>1, <1>3, <1>4, <2>1, <2>2, <2>4, <2>5
<1>12. CASE n = prev[c]
  <2>1. lf # <<>>  BY <1>2, <1>10, <1>12
  <2>2. Zip(next, prev, c, rg, lf) /\ Held(c, rg, lf) = Held(c, lf, rg)  BY <1>5, ZipTurned
  <2>3. /\ n = lf[1] /\ n \in Node
        /\ Zip(next, prev, lf[1], <<c>> \o rg, Tail(lf))
        /\ Held(lf[1], <<c>> \o rg, Tail(lf)) = Held(c, rg, lf)
    BY <1>12, <2>1, <2>2, ZipMoves
  <2>4. <<c>> \o rg \in Seq(Node) /\ Tail(lf) \in Seq(Node)  BY <2>1, Pushed, Popped
  <2>5. PICK nl, nr : nr = <<c>> \o rg /\ nl = Tail(lf)  OBVIOUS
  <2>6. Zip(prev, next, n, nl, nr) /\ Held(n, nl, nr) = Held(c, lf, rg)
    BY <2>2, <2>3, <2>5, ZipTurned
  <2>7. Took(l, n, nl, nr, lft, rgt)
    BY <1>2, <1>3, <1>6, <1>8, <2>3, <2>4, <2>5, <2>6 DEF Took
  <2> QED BY <1>1, <1>3, <1>4, <2>1, <2>3, <2>5, <2>7
<1> QED BY <1>2, <1>11, <1>12

(* A list of one's own is added to none.                                   *)
LEMMA SingletonIsAdd ==
    ASSUME NEW l \in List, NEW x, singleton(l, x)
    PROVE  add(l, x)
BY DEF singleton, add

----------------------------------------------------------------------------
(* A list whose nodes keep their links is the same list.                   *)
LEMMA ZipKept ==
    ASSUME NEW P, NEW N, NEW c \in Node \cup {NULL}, NEW lft \in Seq(Node), NEW rgt \in Seq(Node),
           Zip(P, N, c, lft, rgt), NEW Q, NEW M,
           \A n \in Held(c, lft, rgt) : Q[n] = P[n] /\ M[n] = N[n]
    PROVE  Zip(Q, M, c, lft, rgt)
<1>1. CASE c = NULL  BY <1>1 DEF Zip
<1>2. CASE c # NULL
  <2>1. /\ Run(P, N, c, lft) /\ Run(N, P, c, rgt)
        /\ c \notin Members(lft) \cup Members(rgt) /\ Members(lft) \cap Members(rgt) = {}
        /\ NoDuplicates(lft) /\ NoDuplicates(rgt)
    BY <1>2 DEF Zip
  <2>2. Q[c] = P[c] /\ M[c] = N[c]  BY <1>2 DEF Held
  <2>3. /\ \A k \in 1..Len(lft) : Q[lft[k]] = P[lft[k]] /\ M[lft[k]] = N[lft[k]]
        /\ \A k \in 1..Len(rgt) : Q[rgt[k]] = P[rgt[k]] /\ M[rgt[k]] = N[rgt[k]]
    BY <1>2 DEF Held, Members
  <2>4. /\ lft # <<>> => M[lft[1]] = c
        /\ rgt # <<>> => Q[rgt[1]] = c
    <3>1. /\ lft # <<>> => N[lft[1]] = c /\ 1 \in 1..Len(lft)
          /\ rgt # <<>> => P[rgt[1]] = c /\ 1 \in 1..Len(rgt)
      BY <2>1, RunFirst
    <3> QED BY <2>3, <3>1
  <2>5. /\ \A k \in 2..Len(lft) : k \in 1..Len(lft)
        /\ \A k \in 2..Len(rgt) : k \in 1..Len(rgt)
    OBVIOUS
  <2>6. Run(Q, M, c, lft)  BY <2>1, <2>2, <2>3, <2>4, <2>5, RunFrom
  <2>7. Run(M, Q, c, rgt)  BY <2>1, <2>2, <2>3, <2>4, <2>5, RunFrom
  <2> QED BY <1>2, <2>1, <2>6, <2>7 DEF Zip
<1> QED BY <1>1, <1>2

(* The lists of all callers after a step of one                            *)
LEMMA ListStep ==
    ASSUME DllTypeOK, NEW lft, NEW rgt, Sides(lft, rgt), Good(prev, next, at, owned, lft, rgt),
           NEW l \in List, NEW c, NEW lf, NEW rg, Took(l, c, lf, rg, lft, rgt)
    PROVE  /\ Sides(Put(lft, l, lf), Put(rgt, l, rg))
           /\ Good(prev', next', at', owned', Put(lft, l, lf), Put(rgt, l, rg))
<1>1. PICK nl, nr : nl = Put(lft, l, lf) /\ nr = Put(rgt, l, rg)  OBVIOUS
<1>2. /\ c \in Node \cup {NULL} /\ lf \in Seq(Node) /\ rg \in Seq(Node)
      /\ at' = [at EXCEPT ![l] = c]
      /\ Zip(prev', next', c, lf, rg)
      /\ owned' = Others(l, lft, rgt) \cup Held(c, lf, rg)
      /\ Held(c, lf, rg) \cap Others(l, lft, rgt) = {}
      /\ \A n \in Others(l, lft, rgt) :
            prev'[n] = prev[n] /\ next'[n] = next[n] /\ data'[n] = data[n]
  BY DEF Took
<1>3. /\ nl \in [List -> Seq(Node)] /\ nl[l] = lf /\ \A k \in List \ {l} : nl[k] = lft[k]
      /\ nr \in [List -> Seq(Node)] /\ nr[l] = rg /\ \A k \in List \ {l} : nr[k] = rgt[k]
  <2>1. /\ lft \in [List -> Seq(Node)] /\ rgt \in [List -> Seq(Node)]
        /\ lf \in Seq(Node) /\ rg \in Seq(Node)
    BY <1>2 DEF Sides
  <2>2. nl \in [List -> Seq(Node)] /\ nl[l] = lf /\ \A k \in List \ {l} : nl[k] = lft[k]
    <3>1. /\ Put(lft, l, lf) \in [List -> Seq(Node)] /\ Put(lft, l, lf)[l] = lf
          /\ \A k \in List \ {l} : Put(lft, l, lf)[k] = lft[k]
      BY <2>1 DEF Put
    <3> QED BY <1>1, <3>1
  <2>3. nr \in [List -> Seq(Node)] /\ nr[l] = rg /\ \A k \in List \ {l} : nr[k] = rgt[k]
    <3>1. /\ Put(rgt, l, rg) \in [List -> Seq(Node)] /\ Put(rgt, l, rg)[l] = rg
          /\ \A k \in List \ {l} : Put(rgt, l, rg)[k] = rgt[k]
      BY <2>1 DEF Put
    <3> QED BY <1>1, <3>1
  <2> QED BY <2>2, <2>3
<1>4. at'[l] = c /\ \A k \in List \ {l} : at'[k] = at[k] /\ at[k] \in Node \cup {NULL}
  BY <1>2 DEF DllTypeOK
<1>5. PICK H : H = [k \in List |-> Held(at[k], lft[k], rgt[k])]  OBVIOUS
<1>6. /\ \A k \in List \ {l} : H[k] \cap H[l] = {} /\ H[k] \subseteq owned
      /\ \A k, m \in List : k # m => H[k] \cap H[m] = {}
      /\ owned = UNION {H[k] : k \in List}
      /\ Others(l, lft, rgt) = owned \ H[l]
  BY <1>5 DEF Good, Others
<1>7. ASSUME NEW k \in List \ {l}
      PROVE  /\ Held(at'[k], nl[k], nr[k]) = H[k]
             /\ H[k] \subseteq Others(l, lft, rgt)
             /\ Zip(prev', next', at'[k], nl[k], nr[k])
  <2>1. Held(at'[k], nl[k], nr[k]) = H[k]  BY <1>3, <1>4, <1>5
  <2>2. H[k] \subseteq Others(l, lft, rgt)  BY <1>6
  <2>3. Zip(prev, next, at[k], lft[k], rgt[k])  BY DEF Good
  <2>4. \A n \in Held(at[k], lft[k], rgt[k]) : prev'[n] = prev[n] /\ next'[n] = next[n]
    BY <1>2, <1>5, <2>2
  <2>5. lft[k] \in Seq(Node) /\ rgt[k] \in Seq(Node)  BY DEF Sides
  <2>6. Zip(prev', next', at[k], lft[k], rgt[k])
    <3>1. PICK d \in Node \cup {NULL}, ls \in Seq(Node), rs \in Seq(Node) :
             d = at[k] /\ ls = lft[k] /\ rs = rgt[k]
      BY <1>4, <2>5
    <3>2. PICK Q, M : Q = prev' /\ M = next'  OBVIOUS
    <3>3. Zip(prev, next, d, ls, rs)  BY <2>3, <3>1
    <3>4. \A n \in Held(d, ls, rs) : Q[n] = prev[n] /\ M[n] = next[n]  BY <2>4, <3>1, <3>2
    <3>5. Zip(Q, M, d, ls, rs)  BY <3>3, <3>4, ZipKept
    <3> QED BY <3>1, <3>2, <3>5
  <2> QED BY <1>3, <1>4, <2>1, <2>2, <2>6
<1>8. Held(at'[l], nl[l], nr[l]) = Held(c, lf, rg)  BY <1>3, <1>4
<1>9. PICK K : K = [k \in List |-> Held(at'[k], nl[k], nr[k])]  OBVIOUS
<1>10. /\ K[l] = Held(c, lf, rg)
       /\ \A k \in List \ {l} : K[k] = H[k] /\ K[k] \cap K[l] = {}
  BY <1>2, <1>7, <1>8, <1>9
<1>11. \A k, m \in List : k # m => K[k] \cap K[m] = {}  BY <1>6, <1>10
<1>12. owned' = UNION {K[k] : k \in List}
  <2>1. Others(l, lft, rgt) = UNION {H[k] : k \in List \ {l}}  BY <1>6
  <2> QED BY <1>2, <1>10, <2>1
<1>13. \A k \in List : Zip(prev', next', at'[k], nl[k], nr[k])
  <2>1. Zip(prev', next', at'[l], nl[l], nr[l])  BY <1>2, <1>3, <1>4
  <2> QED BY <1>7, <2>1
<1>14. Good(prev', next', at', owned', nl, nr)  BY <1>9, <1>11, <1>12, <1>13 DEF Good
<1>15. Sides(nl, nr)  BY <1>3 DEF Sides
<1> QED BY <1>1, <1>14, <1>15

----------------------------------------------------------------------------
LEMMA TypeStep ==
    ASSUME DllTypeOK, [DllNext]_dllVars,
           \A l \in List : remove(l) => at[l] \in owned /\ data[at[l]] \in Element
    PROVE  DllTypeOK'
<1>0. /\ data \in [Node -> Element \cup {NULL}]
      /\ prev \in [Node -> Node \cup {NULL}] /\ next \in [Node -> Node \cup {NULL}]
      /\ owned \in SUBSET Node
      /\ at \in [List -> Node \cup {NULL}]
      /\ removed \in {<<>>} \cup {<<x>> : x \in Element}
  BY DEF DllTypeOK
<1>1. ASSUME NEW l \in List, NEW x \in Element, add(l, x)  PROVE DllTypeOK'
  <2>1. PICK m \in Node \ owned : m = Fresh  BY <1>1, FreshIsFree DEF add, malloc
  <2>2. /\ data' = [data EXCEPT ![m] = x] /\ removed' = removed /\ owned' = owned \cup {m}
        /\ at' = [at EXCEPT ![l] = m]
        /\ \/ /\ at[l] = NULL
              /\ prev' = [prev EXCEPT ![m] = NULL]
              /\ next' = [next EXCEPT ![m] = NULL]
           \/ /\ at[l] # NULL
              /\ next' = [next EXCEPT ![m] = next[at[l]], ![at[l]] = m]
              /\ prev' = [n \in Node |-> IF n = m THEN at[l]
                                         ELSE IF n = next[at[l]] THEN m ELSE prev[n]]
    BY <1>1, <2>1 DEF add, malloc
  <2>3. at' \in [List -> Node \cup {NULL}] /\ at[l] \in Node \cup {NULL}  BY <1>0, <2>2
  <2>4. prev' \in [Node -> Node \cup {NULL}] /\ next' \in [Node -> Node \cup {NULL}]
    BY <1>0, <2>2, <2>3
  <2>5. data' \in [Node -> Element \cup {NULL}] /\ owned' \in SUBSET Node  BY <1>0, <2>2
  <2> QED BY <1>0, <2>2, <2>3, <2>4, <2>5 DEF DllTypeOK
<1>2. ASSUME NEW l \in List, remove(l)  PROVE DllTypeOK'
  <2>1. PICK n \in Node : n = at[l]  BY <1>0, <1>2 DEF remove
  <2>2. /\ next' = Relinked(next, n, prev[n], next[n])
        /\ prev' = Relinked(prev, n, next[n], prev[n])
        /\ at' = [at EXCEPT ![l] = IF next[n] = NULL THEN prev[n] ELSE next[n]]
        /\ owned' = owned \ {n}
        /\ data' = [data EXCEPT ![n] = NULL]
        /\ removed' = <<data[n]>>
    BY <1>2, <2>1 DEF remove
  <2>3. next' \in [Node -> Node \cup {NULL}]  BY <1>0, <2>2 DEF Relinked
  <2>4. prev' \in [Node -> Node \cup {NULL}]  BY <1>0, <2>2 DEF Relinked
  <2>5. at' \in [List -> Node \cup {NULL}]  BY <1>0, <2>2
  <2>6. data' \in [Node -> Element \cup {NULL}] /\ owned' \in SUBSET Node  BY <1>0, <2>2
  <2>7. removed' \in {<<y>> : y \in Element}  BY <1>2, <2>1, <2>2
  <2> QED BY <2>3, <2>4, <2>5, <2>6, <2>7 DEF DllTypeOK
<1>3. ASSUME NEW l \in List, walk(l)  PROVE DllTypeOK'
  <2>1. PICK n : n \in {prev[at[l]], next[at[l]]} \ {NULL} /\ at' = [at EXCEPT ![l] = n]
    BY <1>3 DEF walk
  <2>2. at[l] \in Node  BY <1>0, <1>3 DEF walk
  <2>3. at' \in [List -> Node \cup {NULL}]  BY <1>0, <2>1, <2>2
  <2> QED BY <1>0, <1>3, <2>3 DEF DllTypeOK, walk
<1>4. CASE UNCHANGED dllVars  BY <1>0, <1>4 DEF DllTypeOK, dllVars
<1>5. CASE DllNext  BY <1>1, <1>2, <1>3, <1>5, SingletonIsAdd DEF DllNext
<1> QED BY <1>4, <1>5

----------------------------------------------------------------------------
(* What the nodes of s hold                                                *)
Values(d, s) == [i \in DOMAIN s |-> d[s[i]]]

LEMMA ValuesSame ==
    ASSUME NEW d, NEW e, NEW s \in Seq(Node), \A n \in Members(s) : d[n] = e[n]
    PROVE  Values(d, s) = Values(e, s)
<1>1. \A i \in DOMAIN s : s[i] \in Members(s)  BY DEF Members
<1> QED BY <1>1 DEF Values

LEMMA ValuesEmpty ==
    ASSUME NEW d
    PROVE  Values(d, <<>>) = <<>>
BY DEF Values

LEMMA ValuesSeq ==
    ASSUME NEW S, NEW d, NEW s \in Seq(Node), \A n \in Members(s) : d[n] \in S
    PROVE  /\ Values(d, s) \in Seq(S) /\ Len(Values(d, s)) = Len(s)
           /\ \A i \in 1..Len(s) : Values(d, s)[i] = d[s[i]]
<1>1. Len(s) \in Nat /\ DOMAIN s = 1..Len(s)  OBVIOUS
<1>2. \A i \in 1..Len(s) : d[s[i]] \in S  BY <1>1 DEF Members
<1>3. PICK v : v = [i \in 1..Len(s) |-> d[s[i]]]  OBVIOUS
<1>4. v = Values(d, s)  BY <1>1, <1>3 DEF Values
<1>5. v \in Seq(S) /\ Len(v) = Len(s)  BY <1>1, <1>2, <1>3
<1> QED BY <1>3, <1>4, <1>5

On(c, s) == <<c>> \o s
HoldIn(d, X, S) == \A n \in X : d[n] \in S

LEMMA ValuesPush ==
    ASSUME NEW S, NEW d, NEW c \in Node, NEW s \in Seq(Node), HoldIn(d, {c} \cup Members(s), S),
           NEW r, r = On(c, s), NEW z, z = On(d[c], Values(d, s))
    PROVE  Values(d, r) = z
<1>1. PICK t \in Seq(Node) : t = r /\ t = <<c>> \o s  BY Pushed DEF On
<1>2. /\ Len(t) = Len(s) + 1 /\ t[1] = c /\ \A k \in 1..Len(s) : t[k + 1] = s[k]
      /\ Members(t) = {c} \cup Members(s)
  BY <1>1, Pushed
<1>0. d[c] \in S /\ \A n \in Members(s) : d[n] \in S  BY DEF HoldIn
<1>3. PICK v \in Seq(S) : v = Values(d, s)  BY <1>0, ValuesSeq
<1>4. Len(v) = Len(s) /\ Len(s) \in Nat /\ \A i \in 1..Len(s) : v[i] = d[s[i]]
  BY <1>0, <1>3, ValuesSeq
<1>5. PICK w \in Seq(S) : w = <<d[c]>> \o v
  <2>1. <<d[c]>> \o v \in Seq(S)  BY <1>0, Pushed
  <2> QED BY <2>1
<1>6. Len(w) = Len(s) + 1 /\ w[1] = d[c] /\ \A k \in 1..Len(s) : w[k + 1] = v[k]
  BY <1>0, <1>4, <1>5, Pushed
<1>7. PICK u \in Seq(S) : u = Values(d, t)
  <2>1. \A n \in Members(t) : d[n] \in S  BY <1>0, <1>2
  <2> QED BY <2>1, ValuesSeq
<1>8. Len(u) = Len(t) /\ \A i \in 1..Len(t) : u[i] = d[t[i]]
  <2>1. \A n \in Members(t) : d[n] \in S  BY <1>0, <1>2
  <2> QED BY <1>7, <2>1, ValuesSeq
<1>9. ASSUME NEW k \in 1..(Len(s) + 1)  PROVE u[k] = w[k]
  <2>1. u[k] = d[t[k]]  BY <1>2, <1>8
  <2>2. CASE k = 1  BY <1>2, <1>6, <2>1, <2>2
  <2>3. CASE k # 1
    <3>1. PICK j \in 1..Len(s) : k = j + 1
      <4>1. k - 1 \in 1..Len(s) /\ k = (k - 1) + 1  BY <1>4, <2>3
      <4> QED BY <4>1
    <3>2. t[k] = s[j] /\ w[k] = v[j] /\ v[j] = d[s[j]]  BY <1>2, <1>4, <1>6, <3>1
    <3> QED BY <2>1, <3>2
  <2> QED BY <2>2, <2>3
<1>10. u = w
  <2>1. Len(u) = Len(w) /\ \A k \in 1..Len(u) : u[k] = w[k]  BY <1>2, <1>4, <1>6, <1>8, <1>9
  <2> QED BY <2>1, SeqEqual
<1> QED BY <1>1, <1>3, <1>5, <1>7, <1>10 DEF On

LEMMA ValuesPop ==
    ASSUME NEW S, NEW d, NEW s \in Seq(Node), s # <<>>, \A n \in Members(s) : d[n] \in S
    PROVE  /\ Values(d, s) # <<>> /\ Head(Values(d, s)) = d[s[1]]
           /\ Values(d, Tail(s)) = Tail(Values(d, s))
<1>1. PICK t \in Seq(Node) : t = Tail(s)  BY Popped
<1>2. /\ Len(t) = Len(s) - 1 /\ Len(s) \in Nat \ {0}
      /\ \A k \in 1..(Len(s) - 1) : t[k] = s[k + 1]
      /\ Members(s) = {s[1]} \cup Members(t)
  BY <1>1, Popped
<1>3. PICK v \in Seq(S) : v = Values(d, s)  BY ValuesSeq
<1>4. Len(v) = Len(s) /\ \A i \in 1..Len(s) : v[i] = d[s[i]]
  BY <1>3, ValuesSeq
<1>5. v # <<>> /\ Head(v) = d[s[1]] /\ Tail(v) \in Seq(S) /\ Len(Tail(v)) = Len(s) - 1
      /\ \A k \in 1..(Len(s) - 1) : Tail(v)[k] = v[k + 1]
  <2>1. v # <<>> /\ 1 \in 1..Len(s)  BY <1>2, <1>4
  <2>2. /\ Tail(v) \in Seq(S) /\ Len(Tail(v)) = Len(v) - 1 /\ Head(v) = v[1]
        /\ \A k \in 1..(Len(v) - 1) : Tail(v)[k] = v[k + 1]
    BY <2>1, Popped
  <2> QED BY <1>4, <2>1, <2>2
<1>6. PICK u \in Seq(S) : u = Values(d, t)
  <2>1. \A n \in Members(t) : d[n] \in S  BY <1>2
  <2> QED BY <2>1, ValuesSeq
<1>7. Len(u) = Len(t) /\ \A i \in 1..Len(t) : u[i] = d[t[i]]
  <2>1. \A n \in Members(t) : d[n] \in S  BY <1>2
  <2> QED BY <1>6, <2>1, ValuesSeq
<1>8. u = Tail(v)
  <2>1. ASSUME NEW k \in 1..(Len(s) - 1)  PROVE u[k] = Tail(v)[k]
    <3>1. k + 1 \in 1..Len(s) /\ k \in 1..Len(t)  BY <1>2
    <3> QED BY <1>2, <1>4, <1>5, <1>7, <3>1
  <2>2. PICK w \in Seq(S) : w = Tail(v)  BY <1>5
  <2>3. Len(u) = Len(w) /\ \A k \in 1..Len(u) : u[k] = w[k]  BY <1>2, <1>5, <1>7, <2>1, <2>2
  <2>4. u = w  BY <2>3, SeqEqual
  <2> QED BY <2>2, <2>4
<1> QED BY <1>1, <1>3, <1>5, <1>6, <1>8

----------------------------------------------------------------------------
(* What the lists of the specification are, of links and places            *)
BackOf(P, A, l) == IF A[l] = NULL THEN <<>> ELSE Chain(P, P[A[l]], Size)
FrontOf(N, A, l) == IF A[l] = NULL THEN <<>> ELSE Chain(N, N[A[l]], Size)
HereOf(d, A, l) == IF A[l] = NULL THEN <<>> ELSE <<d[A[l]]>>

LEMMA MappingIs ==
    /\ Left = [l \in List |-> Values(data, BackOf(prev, at, l))]
    /\ Curr = [l \in List |-> HereOf(data, at, l)]
    /\ Right = [l \in List |-> Values(data, FrontOf(next, at, l))]
    /\ Left' = [l \in List |-> Values(data', BackOf(prev', at', l))]
    /\ Curr' = [l \in List |-> HereOf(data', at', l)]
    /\ Right' = [l \in List |-> Values(data', FrontOf(next', at', l))]
<1>1. Left = [l \in List |-> Values(data, BackOf(prev, at, l))]
  BY DEF Left, Data, Backwards, Values, BackOf
<1>2. Curr = [l \in List |-> HereOf(data, at, l)]  BY DEF Curr, HereOf
<1>3. Right = [l \in List |-> Values(data, FrontOf(next, at, l))]
  <2>1. ASSUME NEW l \in List
        PROVE  (IF at[l] = NULL THEN <<>> ELSE Data(Chain(next, next[at[l]], Size)))
                 = Values(data, FrontOf(next, at, l))
    <3>1. CASE at[l] = NULL  BY <3>1, ValuesEmpty DEF FrontOf
    <3>2. CASE at[l] # NULL  BY <3>2 DEF FrontOf, Data, Values
    <3> QED BY <3>1, <3>2
  <2> QED BY <2>1 DEF Right
<1>4. Left' = [l \in List |-> Values(data', BackOf(prev', at', l))]
  BY DEF Left, Data, Backwards, Values, BackOf
<1>5. Curr' = [l \in List |-> HereOf(data', at', l)]  BY DEF Curr, HereOf
<1>6. Right' = [l \in List |-> Values(data', FrontOf(next', at', l))]
  <2>1. ASSUME NEW l \in List
        PROVE  (IF at'[l] = NULL THEN <<>> ELSE Data(Chain(next, next[at[l]], Size))')
                 = Values(data', FrontOf(next', at', l))
    <3>1. CASE at'[l] = NULL  BY <3>1, ValuesEmpty DEF FrontOf
    <3>2. CASE at'[l] # NULL  BY <3>2 DEF FrontOf, Data, Values
    <3> QED BY <3>1, <3>2
  <2> QED BY <2>1 DEF Right
<1> QED BY <1>1, <1>2, <1>3, <1>4, <1>5, <1>6

LEMMA ChainsAre ==
    ASSUME NEW P, LinkType(P), NEW N, LinkType(N), NEW A, PlaceType(A), NEW O,
           NEW lft, NEW rgt, Sides(lft, rgt), Good(P, N, A, O, lft, rgt), NEW l \in List
    PROVE  /\ BackOf(P, A, l) = lft[l] /\ FrontOf(N, A, l) = rgt[l]
           /\ Chain(N, A[l], Size) = IF A[l] = NULL THEN <<>> ELSE <<A[l]>> \o rgt[l]
<1>1. PICK c \in Node \cup {NULL} : c = A[l]  BY DEF PlaceType
<1>2. PICK lf \in Seq(Node), rg \in Seq(Node) : lf = lft[l] /\ rg = rgt[l]
  BY DEF Sides
<1>3. Zip(P, N, c, lf, rg)  BY <1>1, <1>2 DEF Good
<1>4. /\ c # NULL => /\ Chain(P, P[c], Size) = lf /\ Chain(N, N[c], Size) = rg
                     /\ Chain(N, c, Size) = <<c>> \o rg
      /\ Chain(N, NULL, Size) = <<>>
  BY <1>3, ZipChains
<1>5. c = NULL => lf = <<>> /\ rg = <<>>  BY <1>3 DEF Zip
<1> QED BY <1>1, <1>2, <1>4, <1>5 DEF BackOf, FrontOf

(* The nodes of another list hold what they held.                          *)
LEMMA OthersKeep ==
    ASSUME DllTypeOK, NEW lft, NEW rgt, Sides(lft, rgt), Good(prev, next, at, owned, lft, rgt),
           NEW l \in List, NEW c, NEW lf, NEW rg, Took(l, c, lf, rg, lft, rgt),
           NEW k \in List \ {l}
    PROVE  /\ Values(data', lft[k]) = Values(data, lft[k])
           /\ Values(data', rgt[k]) = Values(data, rgt[k])
           /\ HereOf(data', at', k) = HereOf(data, at, k)
<1>1. PICK d \in Node \cup {NULL} : d = at[k]  BY DEF DllTypeOK
<1>2. PICK ls \in Seq(Node), rs \in Seq(Node) : ls = lft[k] /\ rs = rgt[k]
  BY DEF Sides
<1>3. at'[k] = d  BY <1>1 DEF Took, DllTypeOK
<1>4. Zip(prev, next, d, ls, rs)  BY <1>1, <1>2 DEF Good
<1>5. Held(d, ls, rs) \subseteq Others(l, lft, rgt)
  BY <1>1, <1>2 DEF Good, Others
<1>6. PICK D, E : D = data /\ E = data'  OBVIOUS
<1>7. \A n \in Held(d, ls, rs) : E[n] = D[n]  BY <1>5, <1>6 DEF Took
<1>8. Members(ls) \subseteq Held(d, ls, rs) /\ Members(rs) \subseteq Held(d, ls, rs)
  <2>1. CASE d = NULL
    <3>1. ls = <<>> /\ rs = <<>>  BY <1>4, <2>1 DEF Zip
    <3> QED BY <3>1 DEF Members
  <2>2. CASE d # NULL  BY <2>2 DEF Held
  <2> QED BY <2>1, <2>2
<1>9. Values(E, ls) = Values(D, ls)
  <2>1. \A n \in Members(ls) : E[n] = D[n]  BY <1>7, <1>8
  <2> QED BY <2>1, ValuesSame
<1>10. Values(E, rs) = Values(D, rs)
  <2>1. \A n \in Members(rs) : E[n] = D[n]  BY <1>7, <1>8
  <2> QED BY <2>1, ValuesSame
<1>11. d # NULL => E[d] = D[d]  BY <1>7 DEF Held
<1> QED BY <1>1, <1>2, <1>3, <1>6, <1>9, <1>10, <1>11 DEF HereOf

(* In the specification, too, only the list of the caller changes.         *)
LEMMA MapStep ==
    ASSUME DllTypeOK, DllTypeOK', NEW lft, NEW rgt, Sides(lft, rgt),
           Good(prev, next, at, owned, lft, rgt),
           NEW l \in List, NEW c, NEW lf, NEW rg, Took(l, c, lf, rg, lft, rgt),
           NEW u, u = Values(data', lf), NEW v, v = IF c = NULL THEN <<>> ELSE <<data'[c]>>,
           NEW w, w = Values(data', rg)
    PROVE  Zipper!Is(l, u, v, w)
<1>1. PICK nl, nr : nl = Put(lft, l, lf) /\ nr = Put(rgt, l, rg)  OBVIOUS
<1>2. Sides(nl, nr) /\ Good(prev', next', at', owned', nl, nr)
  BY <1>1, ListStep
<1>3. /\ lf \in Seq(Node) /\ rg \in Seq(Node)
      /\ lft \in [List -> Seq(Node)] /\ rgt \in [List -> Seq(Node)]
  BY DEF Took, Sides
<1>4. /\ nl[l] = lf /\ \A k \in List \ {l} : nl[k] = lft[k]
      /\ nr[l] = rg /\ \A k \in List \ {l} : nr[k] = rgt[k]
  BY <1>1, <1>3 DEF Put
<1>5. /\ LinkType(prev) /\ LinkType(next) /\ PlaceType(at)
      /\ LinkType(prev') /\ LinkType(next') /\ PlaceType(at')
  BY DEF DllTypeOK, LinkType, PlaceType
<1>6. ASSUME NEW k \in List
      PROVE  BackOf(prev, at, k) = lft[k] /\ FrontOf(next, at, k) = rgt[k]
  <2>1. PICK P, N, A, O : P = prev /\ N = next /\ A = at /\ O = owned  OBVIOUS
  <2>2. LinkType(P) /\ LinkType(N) /\ PlaceType(A) /\ Good(P, N, A, O, lft, rgt)
    BY <1>5, <2>1
  <2>3. /\ BackOf(P, A, k) = lft[k] /\ FrontOf(N, A, k) = rgt[k]
        /\ Chain(N, A[k], Size) = IF A[k] = NULL THEN <<>> ELSE <<A[k]>> \o rgt[k]
    BY <2>2, ChainsAre
  <2> QED BY <2>1, <2>3
<1>7. ASSUME NEW k \in List
      PROVE  BackOf(prev', at', k) = nl[k] /\ FrontOf(next', at', k) = nr[k]
  <2>1. PICK P, N, A, O : P = prev' /\ N = next' /\ A = at' /\ O = owned'  OBVIOUS
  <2>2. LinkType(P) /\ LinkType(N) /\ PlaceType(A) /\ Good(P, N, A, O, nl, nr)
    BY <1>2, <1>5, <2>1
  <2>3. /\ BackOf(P, A, k) = nl[k] /\ FrontOf(N, A, k) = nr[k]
        /\ Chain(N, A[k], Size) = IF A[k] = NULL THEN <<>> ELSE <<A[k]>> \o nr[k]
    BY <1>2, <2>2, ChainsAre
  <2> QED BY <2>1, <2>3
<1>8. \A k \in List \ {l} : /\ Values(data', lft[k]) = Values(data, lft[k])
                            /\ Values(data', rgt[k]) = Values(data, rgt[k])
                            /\ HereOf(data', at', k) = HereOf(data, at, k)
  BY OthersKeep
<1>9. HereOf(data', at', l) = v  BY <1>5 DEF HereOf, Took, PlaceType
<1>10. Left' = [Left EXCEPT ![l] = u]
  <2>1. /\ Left = [k \in List |-> Values(data, lft[k])]
        /\ Left' = [k \in List |-> Values(data', nl[k])]
    BY <1>6, <1>7, MappingIs
  <2> QED BY <1>4, <1>8, <2>1
<1>11. Right' = [Right EXCEPT ![l] = w]
  <2>1. /\ Right = [k \in List |-> Values(data, rgt[k])]
        /\ Right' = [k \in List |-> Values(data', nr[k])]
    BY <1>6, <1>7, MappingIs
  <2> QED BY <1>4, <1>8, <2>1
<1>12. Curr' = [Curr EXCEPT ![l] = v]
  <2>1. /\ Curr = [k \in List |-> HereOf(data, at, k)]
        /\ Curr' = [k \in List |-> HereOf(data', at', k)]
    BY MappingIs
  <2> QED BY <1>8, <1>9, <2>1
<1> QED BY <1>10, <1>11, <1>12 DEF Zipper!Is

LEMMA ListIs ==
    ASSUME DllTypeOK, NEW lft, NEW rgt, Sides(lft, rgt), Good(prev, next, at, owned, lft, rgt),
           NEW l \in List
    PROVE  /\ Left[l] = Values(data, lft[l]) /\ Right[l] = Values(data, rgt[l])
           /\ Curr[l] = IF at[l] = NULL THEN <<>> ELSE <<data[at[l]]>>
<1>1. PICK P, N, A, O : P = prev /\ N = next /\ A = at /\ O = owned  OBVIOUS
<1>2. LinkType(P) /\ LinkType(N) /\ PlaceType(A) /\ Good(P, N, A, O, lft, rgt)
  BY <1>1 DEF DllTypeOK, LinkType, PlaceType
<1>3. /\ BackOf(P, A, l) = lft[l] /\ FrontOf(N, A, l) = rgt[l]
      /\ Chain(N, A[l], Size) = IF A[l] = NULL THEN <<>> ELSE <<A[l]>> \o rgt[l]
  BY <1>2, ChainsAre
<1>4. /\ Left = [k \in List |-> Values(data, BackOf(prev, at, k))]
      /\ Curr = [k \in List |-> HereOf(data, at, k)]
      /\ Right = [k \in List |-> Values(data, FrontOf(next, at, k))]
  BY MappingIs
<1> QED BY <1>1, <1>3, <1>4 DEF HereOf

(* The nodes of the list of l                                              *)
LEMMA ListNodes ==
    ASSUME DllTypeOK, NEW lft, NEW rgt, Sides(lft, rgt), Good(prev, next, at, owned, lft, rgt),
           NEW l \in List
    PROVE  /\ lft[l] \in Seq(Node) /\ rgt[l] \in Seq(Node)
           /\ Members(lft[l]) \subseteq owned /\ Members(rgt[l]) \subseteq owned
           /\ at[l] = NULL => lft[l] = <<>> /\ rgt[l] = <<>>
           /\ at[l] # NULL => /\ at[l] \in owned
                              /\ at[l] \notin Members(lft[l]) /\ at[l] \notin Members(rgt[l])
<1>1. lft[l] \in Seq(Node) /\ rgt[l] \in Seq(Node)  BY DEF Sides
<1>2. Zip(prev, next, at[l], lft[l], rgt[l])  BY DEF Good
<1>3. Held(at[l], lft[l], rgt[l]) \subseteq owned  BY DEF Good
<1>4. CASE at[l] = NULL
  <2>1. lft[l] = <<>> /\ rgt[l] = <<>>  BY <1>2, <1>4 DEF Zip
  <2>2. Members(lft[l]) = {} /\ Members(rgt[l]) = {}  BY <2>1 DEF Members
  <2> QED BY <1>1, <1>4, <2>1, <2>2
<1>5. CASE at[l] # NULL
  <2>1. at[l] \notin Members(lft[l]) \cup Members(rgt[l])  BY <1>2, <1>5 DEF Zip
  <2>2. {at[l]} \cup Members(lft[l]) \cup Members(rgt[l]) \subseteq owned
    BY <1>3, <1>5 DEF Held
  <2> QED BY <1>1, <1>5, <2>1, <2>2
<1> QED BY <1>4, <1>5

LEMMA AddIsAdd ==
    ASSUME DllTypeOK, DllTypeOK', NEW lft, NEW rgt, Sides(lft, rgt),
           Good(prev, next, at, owned, lft, rgt), NEW l \in List, NEW x \in Element, add(l, x)
    PROVE  Zipper!Add(l, x)
<1>1. PICK m \in Node \ owned : m = Fresh  BY FreshIsFree DEF add, malloc
<1>2. PICK lf, rg : lf = lft[l] /\ rg = rgt[l]  OBVIOUS
<1>3. /\ data' = [data EXCEPT ![m] = x] /\ removed' = removed
      /\ Took(l, m, PushedOn(at[l], lf), rg, lft, rgt)
  BY <1>1, <1>2, AddTakes
<1>4. /\ lf \in Seq(Node) /\ rg \in Seq(Node)
      /\ Members(lf) \subseteq owned /\ Members(rg) \subseteq owned
      /\ at[l] = NULL => lf = <<>> /\ rg = <<>>
      /\ at[l] # NULL => at[l] \in owned
  BY <1>2, ListNodes
<1>5. PICK D, E : D = data /\ E = data'  OBVIOUS
<1>6. D \in [Node -> Element \cup {NULL}] /\ E = [D EXCEPT ![m] = x] /\ owned \subseteq Node
  BY <1>3, <1>5 DEF DllTypeOK
<1>7. E[m] = x /\ \A n \in owned : E[n] = D[n] /\ E[n] \in Element \cup {NULL}
  BY <1>1, <1>6
<1>8. /\ \A n \in Members(lf) : E[n] = D[n] /\ E[n] \in Element \cup {NULL}
      /\ \A n \in Members(rg) : E[n] = D[n]
  BY <1>4, <1>7
<1>9. Values(E, lf) = Values(D, lf)  BY <1>4, <1>8, ValuesSame
<1>10. Values(E, rg) = Values(D, rg)  BY <1>4, <1>8, ValuesSame
<1>11. /\ Left[l] = Values(D, lf) /\ Right[l] = Values(D, rg)
       /\ Curr[l] = IF at[l] = NULL THEN <<>> ELSE <<D[at[l]]>>
  BY <1>2, <1>5, ListIs
<1>12. PICK pl : pl = PushedOn(at[l], lf)  OBVIOUS
<1>13. Values(E, pl) = Curr[l] \o Left[l]
  <2>1. CASE at[l] = NULL
    <3>1. pl = <<>> /\ Curr[l] = <<>>  BY <1>11, <1>12, <2>1 DEF PushedOn
    <3>2. Left[l] = <<>>  BY <1>4, <1>11, <2>1, ValuesEmpty
    <3>3. Values(E, pl) = <<>>  BY <3>1, ValuesEmpty
    <3>4. <<>> \o <<>> = <<>>
      <4>1. <<>> \in Seq(Node)  OBVIOUS
      <4> QED BY <4>1, ConcatEmptySeq
    <3> QED BY <3>1, <3>2, <3>3, <3>4
  <2>2. CASE at[l] # NULL
    <3>1. PICK c \in Node : c = at[l]  BY <1>4, <1>6, <2>2
    <3>2. pl = <<c>> \o lf  BY <1>12, <2>2, <3>1 DEF PushedOn
    <3>3. E[c] = D[c] /\ E[c] \in Element \cup {NULL}  BY <1>4, <1>7, <2>2, <3>1
    <3>4. PICK z : z = <<E[c]>> \o Values(E, lf)  OBVIOUS
    <3>5. Values(E, pl) = z
      <4>1. PICK V : V = Element \cup {NULL}  OBVIOUS
      <4>2. HoldIn(E, {c} \cup Members(lf), V)  BY <1>8, <3>3, <4>1 DEF HoldIn
      <4>3. pl = On(c, lf) /\ z = On(E[c], Values(E, lf))  BY <3>2, <3>4 DEF On
      <4> QED BY <1>4, <4>2, <4>3, ValuesPush
    <3>6. Curr[l] = <<D[c]>>  BY <1>11, <2>2, <3>1
    <3> QED BY <1>9, <1>11, <3>3, <3>4, <3>5, <3>6
  <2> QED BY <2>1, <2>2
<1>14. PICK u, v, w : u = Values(E, pl) /\ v = <<x>> /\ w = Values(E, rg)  OBVIOUS
<1>15. Zipper!Is(l, u, v, w)
  <2>1. m # NULL  BY NodesFinite
  <2>2. v = IF m = NULL THEN <<>> ELSE <<data'[m]>>  BY <1>5, <1>7, <1>14, <2>1
  <2>3. Took(l, m, pl, rg, lft, rgt)  BY <1>3, <1>12
  <2>4. u = Values(data', pl) /\ w = Values(data', rg)  BY <1>5, <1>14
  <2> QED BY <2>2, <2>3, <2>4, MapStep
<1> QED BY <1>3, <1>10, <1>11, <1>13, <1>14, <1>15 DEF Zipper!Add

LEMMA RemoveIsRemove ==
    ASSUME DllTypeOK, DllTypeOK', NEW lft, NEW rgt, Sides(lft, rgt),
           Good(prev, next, at, owned, lft, rgt), NEW l \in List, remove(l)
    PROVE  Zipper!Remove(l)
<1>1. PICK lf, rg, c : lf = lft[l] /\ rg = rgt[l] /\ c = at[l]  OBVIOUS
<1>2. /\ c \in Node /\ removed' = <<data[c]>> /\ \A k \in Node \ {c} : data'[k] = data[k]
      /\ rg # <<>> => Took(l, rg[1], lf, Tail(rg), lft, rgt)
      /\ rg = <<>> /\ lf # <<>> => Took(l, lf[1], Tail(lf), rg, lft, rgt)
      /\ rg = <<>> /\ lf = <<>> => Took(l, NULL, lf, rg, lft, rgt)
  BY <1>1, RemoveTakes
<1>3. c # NULL  BY <1>2, NodesFinite
<1>4. /\ lf \in Seq(Node) /\ rg \in Seq(Node)
      /\ Members(lf) \subseteq Node \ {c} /\ Members(rg) \subseteq Node \ {c}
  <2>1. owned \subseteq Node  BY DEF DllTypeOK
  <2>2. /\ lf \in Seq(Node) /\ rg \in Seq(Node)
        /\ Members(lf) \subseteq owned /\ Members(rg) \subseteq owned
        /\ c \notin Members(lf) /\ c \notin Members(rg)
    BY <1>1, <1>3, ListNodes
  <2> QED BY <2>1, <2>2
<1>5. PICK D, E : D = data /\ E = data'  OBVIOUS
<1>6. /\ \A n \in Members(lf) : E[n] = D[n] /\ D[n] \in Element \cup {NULL}
      /\ \A n \in Members(rg) : E[n] = D[n] /\ D[n] \in Element \cup {NULL}
  <2>1. \A n \in Node \ {c} : E[n] = D[n]  BY <1>2, <1>5
  <2>2. \A n \in Node : D[n] \in Element \cup {NULL}  BY <1>5 DEF DllTypeOK
  <2> QED BY <1>4, <2>1, <2>2
<1>7. Values(E, lf) = Values(D, lf)  BY <1>4, <1>6, ValuesSame
<1>8. Values(E, rg) = Values(D, rg)  BY <1>4, <1>6, ValuesSame
<1>9. /\ Left[l] = Values(D, lf) /\ Right[l] = Values(D, rg)
      /\ Curr[l] = IF at[l] = NULL THEN <<>> ELSE <<D[at[l]]>>
  BY <1>1, <1>5, ListIs
<1>10. Curr[l] = <<D[c]>> /\ Curr[l] # <<>>  BY <1>1, <1>3, <1>9
<1>11. removed' = Curr[l]  BY <1>2, <1>5, <1>10
<1>12. CASE rg # <<>>
  <2>1. PICK r : r = rg[1]  OBVIOUS
  <2>2. PICK rt \in Seq(Node) : rt = Tail(rg)  BY <1>4, <1>12, Popped
  <2>3. Members(rg) = {r} \cup Members(rt) /\ r \in Node
    BY <1>4, <1>12, <2>1, <2>2, Popped
  <2>4. /\ Values(D, rg) # <<>> /\ Head(Values(D, rg)) = D[rg[1]]
        /\ Values(D, Tail(rg)) = Tail(Values(D, rg))
    <3>1. PICK V : V = Element \cup {NULL}  OBVIOUS
    <3>2. \A n \in Members(rg) : D[n] \in V  BY <1>6, <3>1
    <3> QED BY <1>4, <1>12, <3>2, ValuesPop
  <2>5. Values(E, rt) = Values(D, rt)
    <3>1. \A n \in Members(rt) : E[n] = D[n]  BY <1>6, <2>3
    <3> QED BY <3>1, ValuesSame
  <2>6. E[r] = D[r]  BY <1>6, <2>3
  <2>7. PICK u, v, w : u = Values(E, lf) /\ v = <<E[r]>> /\ w = Values(E, rt)  OBVIOUS
  <2>8. Zipper!Is(l, u, v, w)
    <3>1. Took(l, r, lf, rt, lft, rgt) /\ r # NULL  BY <1>2, <1>12, <2>1, <2>2, <2>3, NodesFinite
    <3>2. v = IF r = NULL THEN <<>> ELSE <<data'[r]>>  BY <1>5, <2>7, <3>1
    <3>3. u = Values(data', lf) /\ w = Values(data', rt)  BY <1>5, <2>7
    <3> QED BY <3>1, <3>2, <3>3, MapStep
  <2>9. Right[l] # <<>> /\ u = Left[l] /\ v = <<Head(Right[l])>> /\ w = Tail(Right[l])
    BY <1>7, <1>9, <2>1, <2>2, <2>4, <2>5, <2>6, <2>7
  <2> QED BY <1>10, <1>11, <2>8, <2>9 DEF Zipper!Remove
<1>13. CASE rg = <<>> /\ lf # <<>>
  <2>1. PICK p : p = lf[1]  OBVIOUS
  <2>2. PICK lt \in Seq(Node) : lt = Tail(lf)  BY <1>4, <1>13, Popped
  <2>3. Members(lf) = {p} \cup Members(lt) /\ p \in Node
    BY <1>4, <1>13, <2>1, <2>2, Popped
  <2>4. /\ Values(D, lf) # <<>> /\ Head(Values(D, lf)) = D[lf[1]]
        /\ Values(D, Tail(lf)) = Tail(Values(D, lf))
    <3>1. PICK V : V = Element \cup {NULL}  OBVIOUS
    <3>2. \A n \in Members(lf) : D[n] \in V  BY <1>6, <3>1
    <3> QED BY <1>4, <1>13, <3>2, ValuesPop
  <2>5. Values(E, lt) = Values(D, lt)
    <3>1. \A n \in Members(lt) : E[n] = D[n]  BY <1>6, <2>3
    <3> QED BY <3>1, ValuesSame
  <2>6. E[p] = D[p]  BY <1>6, <2>3
  <2>7. PICK u, v, w : u = Values(E, lt) /\ v = <<E[p]>> /\ w = Values(E, rg)  OBVIOUS
  <2>8. Zipper!Is(l, u, v, w)
    <3>1. Took(l, p, lt, rg, lft, rgt) /\ p # NULL  BY <1>2, <1>13, <2>1, <2>2, <2>3, NodesFinite
    <3>2. v = IF p = NULL THEN <<>> ELSE <<data'[p]>>  BY <1>5, <2>7, <3>1
    <3>3. u = Values(data', lt) /\ w = Values(data', rg)  BY <1>5, <2>7
    <3> QED BY <3>1, <3>2, <3>3, MapStep
  <2>9. w = <<>> /\ Right[l] = <<>>  BY <1>9, <1>13, <2>7, ValuesEmpty
  <2>10. Left[l] # <<>> /\ u = Tail(Left[l]) /\ v = <<Head(Left[l])>>
    BY <1>9, <2>1, <2>2, <2>4, <2>5, <2>6, <2>7
  <2> QED BY <1>10, <1>11, <2>8, <2>9, <2>10 DEF Zipper!Remove
<1>14. CASE rg = <<>> /\ lf = <<>>
  <2>1. PICK u, v, w : u = Values(E, lf) /\ v = <<>> /\ w = Values(E, rg)  OBVIOUS
  <2>2. Zipper!Is(l, u, v, w)
    <3>1. PICK z : z = NULL  OBVIOUS
    <3>2. Took(l, z, lf, rg, lft, rgt)  BY <1>2, <1>14, <3>1
    <3>3. v = IF z = NULL THEN <<>> ELSE <<data'[z]>>  BY <2>1, <3>1
    <3>4. u = Values(data', lf) /\ w = Values(data', rg)  BY <1>5, <2>1
    <3> QED BY <3>2, <3>3, <3>4, MapStep
  <2>3. u = <<>> /\ w = <<>> /\ Left[l] = <<>> /\ Right[l] = <<>>
    BY <1>9, <1>14, <2>1, ValuesEmpty
  <2> QED BY <1>10, <1>11, <2>1, <2>2, <2>3 DEF Zipper!Remove
<1> QED BY <1>12, <1>13, <1>14

LEMMA WalkIsMove ==
    ASSUME DllTypeOK, DllTypeOK', NEW lft, NEW rgt, Sides(lft, rgt),
           Good(prev, next, at, owned, lft, rgt), NEW l \in List, walk(l)
    PROVE  Zipper!Move(l)
<1>1. PICK lf, rg, c : lf = lft[l] /\ rg = rgt[l] /\ c = at[l]  OBVIOUS
<1>2. /\ c \in Node /\ data' = data /\ removed' = removed
      /\ \/ rg # <<>> /\ Took(l, rg[1], On(c, lf), Tail(rg), lft, rgt)
         \/ lf # <<>> /\ Took(l, lf[1], Tail(lf), On(c, rg), lft, rgt)
  BY <1>1, WalkTakes DEF On
<1>3. c # NULL  BY <1>2, NodesFinite
<1>4. /\ lf \in Seq(Node) /\ rg \in Seq(Node)
      /\ Members(lf) \subseteq Node /\ Members(rg) \subseteq Node
  <2>1. owned \subseteq Node  BY DEF DllTypeOK
  <2>2. /\ lf \in Seq(Node) /\ rg \in Seq(Node)
        /\ Members(lf) \subseteq owned /\ Members(rg) \subseteq owned
    BY <1>1, ListNodes
  <2> QED BY <2>1, <2>2
<1>5. PICK D : D = data  OBVIOUS
<1>6. PICK V : V = Element \cup {NULL}  OBVIOUS
<1>7. /\ \A n \in Members(lf) : D[n] \in V
      /\ \A n \in Members(rg) : D[n] \in V
      /\ HoldIn(D, {c} \cup Members(lf), V) /\ HoldIn(D, {c} \cup Members(rg), V)
  <2>1. \A n \in Node : D[n] \in V  BY <1>5, <1>6 DEF DllTypeOK
  <2> QED BY <1>2, <1>4, <2>1 DEF HoldIn
<1>8. /\ Left[l] = Values(D, lf) /\ Right[l] = Values(D, rg)
      /\ Curr[l] = IF at[l] = NULL THEN <<>> ELSE <<D[at[l]]>>
  BY <1>1, <1>5, ListIs
<1>9. Curr[l] = <<D[c]>>  BY <1>1, <1>3, <1>8
<1>10. CASE rg # <<>> /\ Took(l, rg[1], On(c, lf), Tail(rg), lft, rgt)
  <2>1. PICK r, rt, ln : r = rg[1] /\ rt = Tail(rg) /\ ln = On(c, lf)  OBVIOUS
  <2>2. r \in Node /\ r # NULL  BY <1>4, <1>10, <2>1, Popped, NodesFinite
  <2>3. /\ Values(D, rg) # <<>> /\ Head(Values(D, rg)) = D[rg[1]]
        /\ Values(D, Tail(rg)) = Tail(Values(D, rg))
    BY <1>4, <1>7, <1>10, ValuesPop
  <2>4. PICK z : z = On(D[c], Values(D, lf))  OBVIOUS
  <2>5. Values(D, ln) = z  BY <1>2, <1>4, <1>7, <2>1, <2>4, ValuesPush
  <2>6. PICK u, v, w : u = Values(D, ln) /\ v = <<D[r]>> /\ w = Values(D, rt)  OBVIOUS
  <2>7. Zipper!Is(l, u, v, w)
    <3>1. Took(l, r, ln, rt, lft, rgt)  BY <1>10, <2>1
    <3>2. v = IF r = NULL THEN <<>> ELSE <<data'[r]>>  BY <1>2, <1>5, <2>2, <2>6
    <3>3. u = Values(data', ln) /\ w = Values(data', rt)  BY <1>2, <1>5, <2>6
    <3> QED BY <3>1, <3>2, <3>3, MapStep
  <2>8. /\ Right[l] # <<>> /\ v = <<Head(Right[l])>> /\ w = Tail(Right[l])
        /\ u = Curr[l] \o Left[l]
    BY <1>8, <1>9, <2>1, <2>3, <2>4, <2>5, <2>6 DEF On
  <2> QED BY <1>2, <2>7, <2>8 DEF Zipper!Move
<1>11. CASE lf # <<>> /\ Took(l, lf[1], Tail(lf), On(c, rg), lft, rgt)
  <2>1. PICK r, lt, rn : r = lf[1] /\ lt = Tail(lf) /\ rn = On(c, rg)  OBVIOUS
  <2>2. r \in Node /\ r # NULL  BY <1>4, <1>11, <2>1, Popped, NodesFinite
  <2>3. /\ Values(D, lf) # <<>> /\ Head(Values(D, lf)) = D[lf[1]]
        /\ Values(D, Tail(lf)) = Tail(Values(D, lf))
    BY <1>4, <1>7, <1>11, ValuesPop
  <2>4. PICK z : z = On(D[c], Values(D, rg))  OBVIOUS
  <2>5. Values(D, rn) = z  BY <1>2, <1>4, <1>7, <2>1, <2>4, ValuesPush
  <2>6. PICK u, v, w : u = Values(D, lt) /\ v = <<D[r]>> /\ w = Values(D, rn)  OBVIOUS
  <2>7. Zipper!Is(l, u, v, w)
    <3>1. Took(l, r, lt, rn, lft, rgt)  BY <1>11, <2>1
    <3>2. v = IF r = NULL THEN <<>> ELSE <<data'[r]>>  BY <1>2, <1>5, <2>2, <2>6
    <3>3. u = Values(data', lt) /\ w = Values(data', rn)  BY <1>2, <1>5, <2>6
    <3> QED BY <3>1, <3>2, <3>3, MapStep
  <2>8. /\ Left[l] # <<>> /\ v = <<Head(Left[l])>> /\ u = Tail(Left[l])
        /\ w = Curr[l] \o Right[l]
    BY <1>8, <1>9, <2>1, <2>3, <2>4, <2>5, <2>6 DEF On
  <2> QED BY <1>2, <2>7, <2>8 DEF Zipper!Move
<1> QED BY <1>2, <1>10, <1>11

----------------------------------------------------------------------------
LEMMA DllStarts == DllInit => DllInv /\ Zipper!Init
<1> SUFFICES ASSUME DllInit  PROVE DllInv /\ Zipper!Init
  OBVIOUS
<1>1. /\ data = [n \in Node |-> NULL]
      /\ prev = [n \in Node |-> NULL] /\ next = [n \in Node |-> NULL]
      /\ owned = {} /\ at = [l \in List |-> NULL] /\ removed = <<>>
  BY DEF DllInit
<1>2. DllTypeOK  BY <1>1 DEF DllTypeOK
<1>3. PICK none : none = [l \in List |-> <<>>]  OBVIOUS
<1>4. Sides(none, none)  BY <1>3 DEF Sides
<1>5. \A l \in List : /\ Zip(prev, next, at[l], none[l], none[l])
                      /\ Held(at[l], none[l], none[l]) = {}
  BY <1>1, <1>3 DEF Zip, Held
<1>6. Good(prev, next, at, owned, none, none)
  <2>1. owned = UNION {Held(at[l], none[l], none[l]) : l \in List}  BY <1>1, <1>5
  <2> QED BY <1>5, <2>1 DEF Good
<1>7. Filled(data, owned)  BY <1>1 DEF Filled
<1>8. DllInv  BY <1>2, <1>4, <1>6, <1>7 DEF DllInv
<1>9. \A l \in List : at[l] = NULL  BY <1>1
<1>10. Left = [l \in List |-> <<>>] /\ Curr = [l \in List |-> <<>>] /\ Right = [l \in List |-> <<>>]
  <2>1. \A l \in List : Values(data, BackOf(prev, at, l)) = <<>>
    BY <1>9, ValuesEmpty DEF BackOf
  <2>2. \A l \in List : Values(data, FrontOf(next, at, l)) = <<>>
    BY <1>9, ValuesEmpty DEF FrontOf
  <2>3. \A l \in List : HereOf(data, at, l) = <<>>  BY <1>9 DEF HereOf
  <2>4. /\ Left = [l \in List |-> Values(data, BackOf(prev, at, l))]
        /\ Curr = [l \in List |-> HereOf(data, at, l)]
        /\ Right = [l \in List |-> Values(data, FrontOf(next, at, l))]
    BY MappingIs
  <2> QED BY <2>1, <2>2, <2>3, <2>4
<1> QED BY <1>1, <1>8, <1>10 DEF Zipper!Init

LEMMA DllKept ==
    ASSUME DllInv, [DllNext]_dllVars
    PROVE  DllInv' /\ [Zipper!Next]_<<Left, Curr, Right, removed>>
<1>1. DllTypeOK /\ Filled(data, owned)  BY DEF DllInv
<1>2. PICK lft, rgt : Sides(lft, rgt) /\ Good(prev, next, at, owned, lft, rgt)
  BY DEF DllInv
<1>3. DllTypeOK'
  <2>1. ASSUME NEW l \in List, remove(l)  PROVE at[l] \in owned /\ data[at[l]] \in Element
    <3>1. at[l] \in owned  BY <1>1, <1>2, <2>1, RemoveTakes
    <3> QED BY <1>1, <3>1 DEF Filled
  <2> QED BY <1>1, <2>1, TypeStep
<1>4. ASSUME NEW l \in List, NEW c, NEW lf, NEW rg, Took(l, c, lf, rg, lft, rgt),
             Filled(data', owned')
      PROVE  DllInv'
  <2>1. PICK nl, nr : nl = Put(lft, l, lf) /\ nr = Put(rgt, l, rg)  OBVIOUS
  <2>2. Sides(nl, nr) /\ Good(prev', next', at', owned', nl, nr)
    BY <1>1, <1>2, <1>4, <2>1, ListStep
  <2> QED BY <1>3, <1>4, <2>2 DEF DllInv
<1>5. ASSUME NEW l \in List, NEW x \in Element, add(l, x)
      PROVE  DllInv' /\ Zipper!Next
  <2>1. PICK m, nl, rg : m = Fresh /\ nl = PushedOn(at[l], lft[l]) /\ rg = rgt[l]  OBVIOUS
  <2>2. /\ m \in Node \ owned /\ data' = [data EXCEPT ![m] = x]
        /\ Took(l, m, nl, rg, lft, rgt)
    BY <1>1, <1>2, <1>5, <2>1, AddTakes
  <2>3. owned' = owned \cup {m}  BY <1>5, <2>1 DEF add, malloc
  <2>4. Filled(data', owned')  BY <1>1, <2>2, <2>3 DEF Filled, DllTypeOK
  <2>5. Zipper!Add(l, x)  BY <1>1, <1>2, <1>3, <1>5, AddIsAdd
  <2> QED BY <1>4, <2>2, <2>4, <2>5 DEF Zipper!Next
<1>6. ASSUME NEW l \in List, remove(l)
      PROVE  DllInv' /\ Zipper!Next
  <2>1. PICK n, lf, rg : n = at[l] /\ lf = lft[l] /\ rg = rgt[l]  OBVIOUS
  <2>2. /\ \A k \in Node \ {n} : data'[k] = data[k]
        /\ rg # <<>> => Took(l, rg[1], lf, Tail(rg), lft, rgt)
        /\ rg = <<>> /\ lf # <<>> => Took(l, lf[1], Tail(lf), rg, lft, rgt)
        /\ rg = <<>> /\ lf = <<>> => Took(l, NULL, lf, rg, lft, rgt)
    BY <1>1, <1>2, <1>6, <2>1, RemoveTakes
  <2>3. owned' = owned \ {n}  BY <1>6, <2>1 DEF remove
  <2>4. Filled(data', owned')  BY <1>1, <2>2, <2>3 DEF Filled, DllTypeOK
  <2>5. PICK c, nl, nr : Took(l, c, nl, nr, lft, rgt)  BY <2>2
  <2>6. Zipper!Remove(l)  BY <1>1, <1>2, <1>3, <1>6, RemoveIsRemove
  <2> QED BY <1>4, <2>4, <2>5, <2>6 DEF Zipper!Next
<1>7. ASSUME NEW l \in List, walk(l)
      PROVE  DllInv' /\ Zipper!Next
  <2>1. PICK n, lf, rg : n = at[l] /\ lf = lft[l] /\ rg = rgt[l]  OBVIOUS
  <2>2. /\ data' = data
        /\ \/ rg # <<>> /\ Took(l, rg[1], <<n>> \o lf, Tail(rg), lft, rgt)
           \/ lf # <<>> /\ Took(l, lf[1], Tail(lf), <<n>> \o rg, lft, rgt)
    BY <1>1, <1>2, <1>7, <2>1, WalkTakes
  <2>3. owned' = owned  BY <1>7 DEF walk
  <2>4. Filled(data', owned')  BY <1>1, <2>2, <2>3 DEF Filled
  <2>5. PICK c, nl, nr : Took(l, c, nl, nr, lft, rgt)  BY <2>2
  <2>6. Zipper!Move(l)  BY <1>1, <1>2, <1>3, <1>7, WalkIsMove
  <2> QED BY <1>4, <2>4, <2>5, <2>6 DEF Zipper!Next
<1>8. CASE UNCHANGED dllVars
  <2>1. data' = data /\ prev' = prev /\ next' = next /\ owned' = owned /\ at' = at
        /\ removed' = removed
    BY <1>8 DEF dllVars
  <2>2. DllInv'  BY <1>1, <1>2, <1>3, <2>1 DEF DllInv
  <2>3. Left' = Left /\ Curr' = Curr /\ Right' = Right  BY <2>1, MappingIs
  <2> QED BY <2>1, <2>2, <2>3
<1>9. CASE DllNext
  <2>1. PICK l \in List : \/ \E x \in Element : singleton(l, x) \/ add(l, x)
                          \/ remove(l)
                          \/ walk(l)
    BY <1>9 DEF DllNext
  <2>2. CASE \E x \in Element : singleton(l, x) \/ add(l, x)
    <3>1. PICK x \in Element : add(l, x)  BY <2>2, SingletonIsAdd
    <3> QED BY <1>5, <3>1
  <2> QED BY <1>6, <1>7, <2>1, <2>2
<1> QED BY <1>8, <1>9

----------------------------------------------------------------------------
(* In a run, the links there and back are each other's converse.           *)
LEMMA RunLinks ==
    ASSUME NEW f, NEW b, NEW c, NEW s \in Seq(Node), Run(f, b, c, s),
           NEW n \in {c} \cup Members(s)
    PROVE  /\ f[n] # NULL => f[n] \in Members(s) /\ b[f[n]] = n
           /\ n \in Members(s) /\ n # c => b[n] \in {c} \cup Members(s) /\ f[b[n]] = n
<1>1. Len(s) \in Nat /\ DOMAIN s = 1..Len(s)  OBVIOUS
<1>2. PICK k \in 0..Len(s) : n = Place(c, s, k) /\ (n # c => k # 0)
  <2>1. CASE n = c
    <3>1. 0 \in 0..Len(s) /\ Place(c, s, 0) = c  BY <1>1 DEF Place
    <3> QED BY <2>1, <3>1
  <2>2. CASE n # c
    <3>1. PICK k \in 1..Len(s) : n = s[k]  BY <1>1, <2>2 DEF Members
    <3>2. k \in 0..Len(s) /\ k # 0  BY <1>1
    <3> QED BY <3>1, <3>2 DEF Place
  <2> QED BY <2>1, <2>2
<1>3. CASE k = Len(s)
  <2>1. f[n] = NULL  BY <1>2, <1>3 DEF Run
  <2>2. ASSUME n # c  PROVE b[n] \in {c} \cup Members(s) /\ f[b[n]] = n
    <3>1. k \in 1..Len(s)  BY <1>1, <1>2, <2>2
    <3>2. n = s[k]  BY <1>2, <2>2 DEF Place
    <3>3. b[n] = Place(c, s, k - 1) /\ f[b[n]] = n  BY <3>1, <3>2 DEF Run
    <3>4. Place(c, s, k - 1) \in {c} \cup Members(s)
      <4>1. k - 1 = 0 \/ k - 1 \in 1..Len(s)  BY <3>1
      <4> QED BY <1>1, <4>1 DEF Place, Members
    <3> QED BY <3>3, <3>4
  <2> QED BY <2>1, <2>2
<1>4. CASE k # Len(s)
  <2>1. PICK j \in 1..Len(s) : j = k + 1 /\ j - 1 = k
    <3>1. PICK m \in Nat : m = Len(s)  BY <1>1
    <3>2. k \in 0..m /\ k # m  BY <1>4, <3>1
    <3>3. k + 1 \in 1..m /\ (k + 1) - 1 = k  BY <3>2
    <3> QED BY <3>1, <3>3
  <2>2. f[n] = s[j] /\ b[s[j]] = n  BY <1>2, <2>1 DEF Run
  <2>3. s[j] \in Members(s)  BY <1>1 DEF Members
  <2>4. ASSUME n # c  PROVE b[n] \in {c} \cup Members(s) /\ f[b[n]] = n
    <3>1. k \in 1..Len(s)  BY <1>1, <1>2, <2>4
    <3>2. n = s[k]  BY <1>2, <2>4 DEF Place
    <3>3. b[n] = Place(c, s, k - 1) /\ f[b[n]] = n  BY <3>1, <3>2 DEF Run
    <3>4. Place(c, s, k - 1) \in {c} \cup Members(s)
      <4>1. k - 1 = 0 \/ k - 1 \in 1..Len(s)  BY <3>1
      <4> QED BY <1>1, <4>1 DEF Place, Members
    <3> QED BY <3>3, <3>4
  <2> QED BY <2>2, <2>3, <2>4
<1> QED BY <1>3, <1>4

(* So they are in a list.                                                  *)
LEMMA ZipLinks ==
    ASSUME NEW P, NEW N, NEW c, NEW lft \in Seq(Node), NEW rgt \in Seq(Node),
           Zip(P, N, c, lft, rgt), NEW n \in Held(c, lft, rgt)
    PROVE  N[n] = NULL \/ (N[n] \in Held(c, lft, rgt) /\ P[N[n]] = n)
<1>1. /\ c # NULL /\ Held(c, lft, rgt) = {c} \cup Members(lft) \cup Members(rgt)
      /\ Run(P, N, c, lft) /\ Run(N, P, c, rgt) /\ c \notin Members(lft)
  BY DEF Zip, Held
<1>2. CASE n \in {c} \cup Members(rgt)
  <2>1. N[n] # NULL => N[n] \in Members(rgt) /\ P[N[n]] = n  BY <1>1, <1>2, RunLinks
  <2> QED BY <1>1, <2>1
<1>3. CASE n \in Members(lft)
  <2>1. N[n] \in {c} \cup Members(lft) /\ P[N[n]] = n  BY <1>1, <1>3, RunLinks
  <2> QED BY <1>1, <2>1
<1> QED BY <1>1, <1>2, <1>3

(* The nodes of a list, as Backwards and Forwards meet them                *)
LEMMA ListMeets ==
    ASSUME DllTypeOK, NEW lft, NEW rgt, Sides(lft, rgt), Good(prev, next, at, owned, lft, rgt),
           NEW l \in List
    PROVE  /\ NodesOf(l) = Held(at[l], lft[l], rgt[l])
           /\ Len(Backwards(l)) + Len(Forwards(l)) = Cardinality(NodesOf(l))
<1>1. PICK P, N, A, O : P = prev /\ N = next /\ A = at /\ O = owned  OBVIOUS
<1>2. LinkType(P) /\ LinkType(N) /\ PlaceType(A) /\ Good(P, N, A, O, lft, rgt)
  BY <1>1 DEF DllTypeOK, LinkType, PlaceType
<1>3. PICK lf \in Seq(Node), rg \in Seq(Node), c \in Node \cup {NULL} :
         lf = lft[l] /\ rg = rgt[l] /\ c = at[l]
  BY DEF Sides, DllTypeOK
<1>4. /\ BackOf(P, A, l) = lft[l] /\ FrontOf(N, A, l) = rgt[l]
      /\ Chain(N, A[l], Size) = IF A[l] = NULL THEN <<>> ELSE <<A[l]>> \o rgt[l]
  BY <1>2, ChainsAre
<1>5. Backwards(l) = lf /\ Forwards(l) = IF c = NULL THEN <<>> ELSE <<c>> \o rg
  BY <1>1, <1>3, <1>4 DEF Backwards, Forwards, BackOf
<1>6. NodesOf(l) = Members(Backwards(l)) \cup Members(Forwards(l))
  BY DEF NodesOf, Members
<1>7. Zip(prev, next, c, lf, rg)  BY <1>3 DEF Good
<1>8. CASE c = NULL
  <2>1. PICK e \in Seq(Node) : e = <<>>
    <3>1. <<>> \in Seq(Node)  OBVIOUS
    <3> QED BY <3>1
  <2>2. Len(e) = 0 /\ Members(e) = {} /\ NoDuplicates(e)
    BY <2>1 DEF Members, NoDuplicates
  <2>3. Backwards(l) = e /\ Forwards(l) = e  BY <1>5, <1>7, <1>8, <2>1 DEF Zip
  <2>4. NodesOf(l) = {} /\ Cardinality(NodesOf(l)) = 0
    BY <1>6, <2>2, <2>3, FS_EmptySet
  <2>5. Held(c, lf, rg) = {}  BY <1>8 DEF Held
  <2> QED BY <1>3, <2>2, <2>3, <2>4, <2>5
<1>9. CASE c # NULL
  <2>1. /\ c \notin Members(lf) /\ c \notin Members(rg) /\ Members(lf) \cap Members(rg) = {}
        /\ NoDuplicates(lf) /\ NoDuplicates(rg)
        /\ Held(c, lf, rg) = {c} \cup Members(lf) \cup Members(rg)
    BY <1>7, <1>9 DEF Zip, Held
  <2>2. PICK rn \in Seq(Node) : rn = <<c>> \o rg  BY <1>9, Pushed
  <2>3. Members(rn) = {c} \cup Members(rg) /\ NoDuplicates(rn)
    BY <1>9, <2>1, <2>2, Pushed
  <2>4. Backwards(l) = lf /\ Forwards(l) = rn  BY <1>5, <1>9, <2>2
  <2>5. NodesOf(l) = Members(lf) \cup Members(rn)  BY <1>6, <2>4
  <2>6. /\ IsFiniteSet(Members(lf)) /\ Cardinality(Members(lf)) = Len(lf)
        /\ IsFiniteSet(Members(rn)) /\ Cardinality(Members(rn)) = Len(rn)
    BY <2>1, <2>3, MembersCount
  <2>7. PICK X, Y : X = Members(lf) /\ Y = Members(rn)  OBVIOUS
  <2>8. X \cap Y = {}  BY <2>1, <2>3, <2>7
  <2>9. Cardinality(X \cup Y) = Cardinality(X) + Cardinality(Y)
    <3>1. Cardinality(X \cup Y) = Cardinality(X) + Cardinality(Y) - Cardinality(X \cap Y)
      BY <2>6, <2>7, FS_Union
    <3>2. Cardinality(X \cap Y) = 0  BY <2>8, FS_EmptySet
    <3>3. Cardinality(X) \in Nat /\ Cardinality(Y) \in Nat  BY <2>6, <2>7
    <3> QED BY <3>1, <3>2, <3>3
  <2>10. Cardinality(NodesOf(l)) = Len(lf) + Len(rn)  BY <2>5, <2>6, <2>7, <2>9
  <2> QED BY <1>3, <2>1, <2>3, <2>4, <2>5, <2>10
<1> QED BY <1>8, <1>9

LEMMA DllInvIsEnough == DllInv => ListsOwnTheirNodes
<1> SUFFICES ASSUME DllInv  PROVE ListsOwnTheirNodes
  OBVIOUS
<1>1. DllTypeOK  BY DEF DllInv
<1>2. PICK lft, rgt : Sides(lft, rgt) /\ Good(prev, next, at, owned, lft, rgt)
  BY DEF DllInv
<1>3. ASSUME NEW l \in List
      PROVE  /\ NodesOf(l) = Held(at[l], lft[l], rgt[l])
             /\ Len(Backwards(l)) + Len(Forwards(l)) = Cardinality(NodesOf(l))
  BY <1>1, <1>2, ListMeets
<1>4. ASSUME NEW n \in owned
      PROVE  /\ next[n] # NULL => next[n] \in owned /\ prev[next[n]] = n
             /\ prev[n] # NULL => prev[n] \in owned /\ next[prev[n]] = n
  <2>1. PICK l \in List : n \in Held(at[l], lft[l], rgt[l])  BY <1>2 DEF Good
  <2>2. PICK lf \in Seq(Node), rg \in Seq(Node) : lf = lft[l] /\ rg = rgt[l]
    BY <1>2 DEF Sides
  <2>3. PICK P, N, c : P = prev /\ N = next /\ c = at[l]  OBVIOUS
  <2>4. Zip(P, N, c, lf, rg) /\ n \in Held(c, lf, rg) /\ Held(c, lf, rg) \subseteq owned
    BY <1>2, <2>1, <2>2, <2>3 DEF Good
  <2>5. N[n] = NULL \/ (N[n] \in Held(c, lf, rg) /\ P[N[n]] = n)
    BY <2>4, ZipLinks
  <2>6. Held(c, rg, lf) = Held(c, lf, rg)  BY <2>4, ZipTurned
  <2>7. Zip(N, P, c, rg, lf) /\ n \in Held(c, rg, lf)  BY <2>4, <2>6, ZipTurned
  <2>8. P[n] = NULL \/ (P[n] \in Held(c, rg, lf) /\ N[P[n]] = n)
    BY <2>7, ZipLinks
  <2> QED BY <2>3, <2>4, <2>5, <2>6, <2>8
<1>5. ASSUME NEW k \in List, NEW l \in List, k # l  PROVE NodesOf(k) \cap NodesOf(l) = {}
  BY <1>2, <1>3, <1>5 DEF Good
<1>6. owned = UNION {NodesOf(l) : l \in List}
  <2>1. owned = UNION {Held(at[l], lft[l], rgt[l]) : l \in List}  BY <1>2 DEF Good
  <2> QED BY <1>3, <2>1
<1> QED BY <1>3, <1>4, <1>5, <1>6 DEF ListsOwnTheirNodes

THEOREM ListsStaySound == SpecDll => []ListsOwnTheirNodes
<1>1. DllInit => DllInv  BY DllStarts
<1>2. DllInv /\ [DllNext]_dllVars => DllInv'  BY DllKept
<1>3. DllInv => ListsOwnTheirNodes  BY DllInvIsEnough
<1> QED BY <1>1, <1>2, <1>3, PTL DEF SpecDll

THEOREM ImplementsZipper == SpecDll => ZipperSpec
<1>1. DllInit => DllInv /\ Zipper!Init  BY DllStarts
<1>2. DllInv /\ [DllNext]_dllVars => DllInv' /\ [Zipper!Next]_<<Left, Curr, Right, removed>>
  BY DllKept
<1> QED BY <1>1, <1>2, PTL DEF SpecDll, ZipperSpec, Zipper!Spec

------------------------------------------------------------
(* The sum of the numbers of a finite set of references is what Number_    *)
(* returns, whatever the order it takes them in.                           *)
FirstRef(s) == CHOOSE r \in s : TRUE

SumOf(f, s) == IF s = {} THEN 0 ELSE Number[FirstRef(s)] + f[s \ {FirstRef(s)}]

(* f solves the recursion on the subsets of S with at most n elements      *)
Small(S, n) == {s \in SUBSET S : Cardinality(s) <= n}
SumsUpTo(f, S, n) == f = [s \in Small(S, n) |-> SumOf(f, s)]

(* and on all of them.                                                     *)
Sums(f, S) == f = [s \in SUBSET S |-> SumOf(f, s)]

(* One element less, as the recursion takes it.                            *)
LEMMA OneLess ==
    ASSUME NEW s, IsFiniteSet(s), s # {}
    PROVE  /\ FirstRef(s) \in s /\ IsFiniteSet(s \ {FirstRef(s)})
           /\ Cardinality(s) \in Nat /\ Cardinality(s \ {FirstRef(s)}) = Cardinality(s) - 1
<1>1. FirstRef(s) \in s  BY DEF FirstRef
<1> QED BY <1>1, FS_CardinalityType, FS_RemoveElement

LEMMA SumsExist ==
    ASSUME NEW S, IsFiniteSet(S)
    PROVE  \E f : Sums(f, S)
<1> DEFINE Levels == {n \in Nat : \E f : SumsUpTo(f, S, n)}
<1>0. \A s \in SUBSET S : IsFiniteSet(s) /\ Cardinality(s) \in Nat
  BY FS_Subset, FS_CardinalityType
<1>1. 0 \in Levels
  <2> DEFINE f == [s \in Small(S, 0) |-> 0]
  <2>1. \A s \in Small(S, 0) : s = {}
    <3> SUFFICES ASSUME NEW s \in Small(S, 0)  PROVE s = {}
      OBVIOUS
    <3>1. Cardinality(s) = 0  BY <1>0 DEF Small
    <3> QED BY <1>0, <3>1, FS_EmptySet DEF Small
  <2>2. \A s \in Small(S, 0) : SumOf(f, s) = 0  BY <2>1 DEF SumOf
  <2> HIDE DEF f
  <2>3. f = [s \in Small(S, 0) |-> 0]  BY DEF f
  <2>4. SumsUpTo(f, S, 0)  BY <2>2, <2>3 DEF SumsUpTo
  <2> QED BY <2>4
<1>2. ASSUME NEW n \in Nat, n \in Levels  PROVE n + 1 \in Levels
  <2>1. PICK f : SumsUpTo(f, S, n)  BY <1>2
  <2> DEFINE g == [s \in Small(S, n + 1) |-> IF Cardinality(s) <= n THEN f[s] ELSE SumOf(f, s)]
  <2>2. \A s \in Small(S, n) : f[s] = SumOf(f, s)  BY <2>1 DEF SumsUpTo
  <2>3. \A s \in Small(S, n + 1) : g[s] = SumOf(f, s)  BY <2>2 DEF Small
  <2>4. ASSUME NEW s \in Small(S, n + 1)  PROVE SumOf(g, s) = SumOf(f, s)
    <3>1. CASE s = {}  BY <3>1 DEF SumOf
    <3>2. CASE s # {}
      <4>1. s \in SUBSET S /\ IsFiniteSet(s) /\ Cardinality(s) <= n + 1  BY <1>0 DEF Small
      <4>2. PICK t : t = s \ {FirstRef(s)}  OBVIOUS
      <4>3. t \in SUBSET S /\ Cardinality(t) <= n
        <5>1. Cardinality(s) \in Nat /\ Cardinality(t) = Cardinality(s) - 1
          BY <3>2, <4>1, <4>2, OneLess
        <5> QED BY <4>1, <4>2, <5>1
      <4>4. t \in Small(S, n + 1)  BY <4>3, <1>0 DEF Small
      <4>5. g[t] = f[t]  BY <4>3, <4>4
      <4> HIDE DEF g
      <4> QED BY <3>2, <4>2, <4>5 DEF SumOf
    <3> QED BY <3>1, <3>2
  <2>5. g = [s \in Small(S, n + 1) |-> g[s]]  OBVIOUS
  <2> HIDE DEF g
  <2>6. SumsUpTo(g, S, n + 1)  BY <2>3, <2>4, <2>5 DEF SumsUpTo
  <2> QED BY <2>6
<1>3. Cardinality(S) \in Levels
  <2> HIDE DEF Levels
  <2> QED BY <1>1, <1>2, InductNat, FS_CardinalityType
<1>4. Small(S, Cardinality(S)) = SUBSET S
  <2>1. \A s \in SUBSET S : Cardinality(s) <= Cardinality(S)  BY FS_Subset
  <2> QED BY <2>1 DEF Small
<1> QED BY <1>3, <1>4 DEF SumsUpTo, Sums

(* The sum of a set does not depend on the set it is taken from.           *)
LEMMA SumsAgree ==
    ASSUME NEW S, NEW T, NEW f, NEW g, Sums(f, S), Sums(g, T),
           NEW s, s \subseteq S, s \subseteq T, IsFiniteSet(s)
    PROVE  f[s] = g[s]
<1> DEFINE Agreed == {n \in Nat : \A u \in SUBSET s : Cardinality(u) = n => f[u] = g[u]}
<1>0. \A u \in SUBSET s : /\ IsFiniteSet(u) /\ Cardinality(u) \in Nat
                          /\ f[u] = SumOf(f, u) /\ g[u] = SumOf(g, u)
  BY FS_Subset, FS_CardinalityType DEF Sums
<1>1. 0 \in Agreed
  <2> SUFFICES ASSUME NEW u \in SUBSET s, Cardinality(u) = 0  PROVE f[u] = g[u]
    OBVIOUS
  <2>1. u = {}  BY <1>0, FS_EmptySet
  <2> QED BY <1>0, <2>1 DEF SumOf
<1>2. ASSUME NEW n \in Nat, n \in Agreed  PROVE n + 1 \in Agreed
  <2> SUFFICES ASSUME NEW u \in SUBSET s, Cardinality(u) = n + 1  PROVE f[u] = g[u]
    OBVIOUS
  <2>1. u # {}  BY <1>0, FS_EmptySet
  <2>2. PICK t : t = u \ {FirstRef(u)}  OBVIOUS
  <2>3. t \in SUBSET s /\ Cardinality(t) = n  BY <1>0, <2>1, <2>2, OneLess
  <2>4. f[t] = g[t]  BY <1>2, <2>3
  <2> QED BY <1>0, <2>1, <2>2, <2>4 DEF SumOf
<1>3. Nat \subseteq Agreed
  <2> HIDE DEF Agreed
  <2> QED BY <1>1, <1>2, InductNat
<1>4. s \in SUBSET s /\ Cardinality(s) \in Nat  BY FS_CardinalityType
<1> QED BY <1>3, <1>4

LEMMA SumUnfolds ==
    ASSUME NEW S, IsFiniteSet(S)
    PROVE  /\ Number_({}) = 0
           /\ S # {} => Number_(S) = Number[FirstRef(S)] + Number_(S \ {FirstRef(S)})
<1>1. ASSUME NEW T, IsFiniteSet(T), NEW f, Sums(f, T)  PROVE Number_(T) = f[T]
  <2>1. Number_(T) = (CHOOSE g : Sums(g, T))[T]
    BY DEF Number_, MapThenSumSet, MapThenFoldSet, Sums, SumOf, FirstRef
  <2>2. PICK g : g = CHOOSE h : Sums(h, T)  OBVIOUS
  <2>3. Sums(g, T)  BY <1>1, <2>2
  <2>4. g[T] = f[T]  BY <1>1, <2>3, SumsAgree
  <2> QED BY <2>1, <2>2, <2>4
<1>2. Number_({}) = 0
  <2>1. IsFiniteSet({})  BY FS_EmptySet
  <2>2. PICK f : Sums(f, {})  BY <2>1, SumsExist
  <2>3. f[{}] = 0  BY <2>2 DEF Sums, SumOf
  <2> QED BY <1>1, <2>1, <2>2, <2>3
<1>3. ASSUME S # {}  PROVE Number_(S) = Number[FirstRef(S)] + Number_(S \ {FirstRef(S)})
  <2>1. PICK T : T = S \ {FirstRef(S)}  OBVIOUS
  <2>2. IsFiniteSet(T) /\ T \subseteq S  BY <1>3, <2>1, OneLess
  <2>3. PICK f : Sums(f, S)  BY SumsExist
  <2>4. PICK g : Sums(g, T)  BY <2>2, SumsExist
  <2>5. f[T] = g[T]  BY <2>2, <2>3, <2>4, SumsAgree
  <2>6. f[S] = SumOf(f, S)  BY <2>3 DEF Sums
  <2>7. f[S] = Number[FirstRef(S)] + f[T]  BY <1>3, <2>1, <2>6 DEF SumOf
  <2> QED BY <1>1, <2>1, <2>2, <2>3, <2>4, <2>5, <2>7
<1> QED BY <1>2, <1>3

(* Sums are numbers.                                                       *)
LEMMA SumNat ==
    ASSUME RefAssumption, NEW S \in SUBSET Refs, IsFiniteSet(S)
    PROVE  Number_(S) \in Nat
<1> DEFINE Sizes == {n \in Nat : \A s \in SUBSET S : Cardinality(s) = n => Number_(s) \in Nat}
<1>0. \A s \in SUBSET S : IsFiniteSet(s) /\ Cardinality(s) \in Nat
  BY FS_Subset, FS_CardinalityType
<1>1. 0 \in Sizes
  <2> SUFFICES ASSUME NEW s \in SUBSET S, Cardinality(s) = 0  PROVE Number_(s) \in Nat
    OBVIOUS
  <2>1. s = {}  BY <1>0, FS_EmptySet
  <2> QED BY <1>0, <2>1, SumUnfolds
<1>2. ASSUME NEW n \in Nat, n \in Sizes  PROVE n + 1 \in Sizes
  <2> SUFFICES ASSUME NEW s \in SUBSET S, Cardinality(s) = n + 1  PROVE Number_(s) \in Nat
    OBVIOUS
  <2>1. s # {} /\ IsFiniteSet(s)  BY <1>0, FS_EmptySet
  <2>2. PICK t : t = s \ {FirstRef(s)}  OBVIOUS
  <2>0. /\ FirstRef(s) \in s /\ IsFiniteSet(s \ {FirstRef(s)})
        /\ Cardinality(s) \in Nat /\ Cardinality(s \ {FirstRef(s)}) = Cardinality(s) - 1
    BY <2>1, OneLess
  <2>3. FirstRef(s) \in s /\ Cardinality(t) = n  BY <2>0, <2>2
  <2>4. Number_(t) \in Nat  BY <1>2, <2>2, <2>3
  <2>5. Number_(s) = Number[FirstRef(s)] + Number_(t)  BY <2>1, <2>2, SumUnfolds
  <2>6. FirstRef(s) \in Refs  BY <2>3
  <2>7. Number[FirstRef(s)] \in Nat  BY <2>6 DEF RefAssumption
  <2> QED BY <2>4, <2>5, <2>7
<1>3. Nat \subseteq Sizes
  <2> HIDE DEF Sizes
  <2> QED BY <1>1, <1>2, InductNat
<1>4. S \in SUBSET S /\ Cardinality(S) \in Nat  BY FS_CardinalityType
<1> QED BY <1>3, <1>4

(* One reference less is its number less.                                  *)
LEMMA SumRemove ==
    ASSUME RefAssumption, NEW S \in SUBSET Refs, IsFiniteSet(S), NEW r \in S
    PROVE  Number_(S) = Number_(S \ {r}) + Number[r]
<1> DEFINE Sizes ==
      {n \in Nat : \A s \in SUBSET S : Cardinality(s) = n =>
          \A x \in s : Number_(s) = Number_(s \ {x}) + Number[x]}
<1>0. \A s \in SUBSET S : IsFiniteSet(s) /\ Cardinality(s) \in Nat /\ Number_(s) \in Nat
  BY FS_Subset, FS_CardinalityType, SumNat
<1>1. 0 \in Sizes
  <2> SUFFICES ASSUME NEW s \in SUBSET S, Cardinality(s) = 0
               PROVE  \A x \in s : Number_(s) = Number_(s \ {x}) + Number[x]
    OBVIOUS
  <2>1. s = {}  BY <1>0, FS_EmptySet
  <2> QED BY <2>1
<1>2. ASSUME NEW n \in Nat, n \in Sizes  PROVE n + 1 \in Sizes
  <2> SUFFICES ASSUME NEW s \in SUBSET S, Cardinality(s) = n + 1, NEW x \in s
               PROVE  Number_(s) = Number_(s \ {x}) + Number[x]
    OBVIOUS
  <2>1. s # {} /\ IsFiniteSet(s)  BY <1>0
  <2>2. PICK y : y = FirstRef(s)  OBVIOUS
  <2>3. y \in s  BY <2>1, <2>2, OneLess
  <2>4. Number_(s) = Number[y] + Number_(s \ {y})  BY <2>1, <2>2, SumUnfolds
  <2>5. Number[x] \in Nat /\ Number[y] \in Nat  BY <2>3 DEF RefAssumption
  <2>6. ASSUME NEW z \in s  PROVE s \ {z} \in SUBSET S /\ Cardinality(s \ {z}) = n
    <3>1. Cardinality(s \ {z}) = Cardinality(s) - 1  BY <2>1, FS_RemoveElement
    <3> QED BY <3>1
  <2>7. CASE x = y  BY <1>0, <2>4, <2>5, <2>6, <2>7
  <2>8. CASE x # y
    <3>1. PICK u : u = (s \ {x}) \ {y}  OBVIOUS
    <3>2. u = (s \ {y}) \ {x} /\ u \in SUBSET S  BY <3>1
    <3>3. x \in s \ {y} /\ y \in s \ {x}  BY <2>3, <2>8
    <3>4. Number_(s \ {y}) = Number_(u) + Number[x]  BY <1>2, <2>3, <2>6, <3>2, <3>3
    <3>5. Number_(s \ {x}) = Number_(u) + Number[y]  BY <1>2, <2>6, <3>1, <3>3
    <3>6. Number_(u) \in Nat  BY <1>0, <3>2
    <3> QED BY <2>4, <2>5, <3>4, <3>5, <3>6
  <2> QED BY <2>7, <2>8
<1>3. Nat \subseteq Sizes
  <2> HIDE DEF Sizes
  <2> QED BY <1>1, <1>2, InductNat
<1>4. S \in SUBSET S /\ Cardinality(S) \in Nat  BY FS_CardinalityType
<1> QED BY <1>3, <1>4

(* One reference more is its number more.                                  *)
LEMMA SumAdd ==
    ASSUME RefAssumption, NEW S \in SUBSET Refs, IsFiniteSet(S), NEW r \in Refs \ S
    PROVE  IsFiniteSet(S \cup {r}) /\ Number_(S \cup {r}) = Number_(S) + Number[r]
<1>1. PICK T : T = S \cup {r}  OBVIOUS
<1>2. T \in SUBSET Refs /\ r \in T /\ T \ {r} = S  BY <1>1
<1>3. IsFiniteSet(T)  BY <1>1, FS_AddElement
<1> QED BY <1>1, <1>2, <1>3, SumRemove

(* The sum of disjoint sets is that of their sums.                         *)
LEMMA SumUnion ==
    ASSUME RefAssumption, NEW S \in SUBSET Refs, IsFiniteSet(S),
           NEW T \in SUBSET Refs, IsFiniteSet(T), S \cap T = {}
    PROVE  IsFiniteSet(S \cup T) /\ Number_(S \cup T) = Number_(S) + Number_(T)
<1> DEFINE Sizes == {n \in Nat : \A u \in SUBSET T : Cardinality(u) = n =>
                        Number_(S \cup u) = Number_(S) + Number_(u)}
<1>0. \A u \in SUBSET T : /\ IsFiniteSet(u) /\ Cardinality(u) \in Nat /\ Number_(u) \in Nat
                          /\ IsFiniteSet(S \cup u)
  BY FS_Subset, FS_CardinalityType, SumNat, FS_Union
<1>1. 0 \in Sizes
  <2> SUFFICES ASSUME NEW u \in SUBSET T, Cardinality(u) = 0
               PROVE  Number_(S \cup u) = Number_(S) + Number_(u)
    OBVIOUS
  <2>1. u = {} /\ S \cup u = S  BY <1>0, FS_EmptySet
  <2>2. Number_(u) = 0 /\ Number_(S) \in Nat  BY <2>1, SumUnfolds, SumNat
  <2> QED BY <2>1, <2>2
<1>2. ASSUME NEW n \in Nat, n \in Sizes  PROVE n + 1 \in Sizes
  <2> SUFFICES ASSUME NEW u \in SUBSET T, Cardinality(u) = n + 1
               PROVE  Number_(S \cup u) = Number_(S) + Number_(u)
    OBVIOUS
  <2>0. u # {}  BY <1>0, FS_EmptySet
  <2>1. PICK x \in u : TRUE  BY <2>0
  <2>2. PICK v : v = u \ {x}  OBVIOUS
  <2>3. v \in SUBSET T /\ Cardinality(v) = n
    <3>1. Cardinality(v) = Cardinality(u) - 1  BY <1>0, <2>2, FS_RemoveElement
    <3> QED BY <2>2, <3>1
  <2>4. Number_(S \cup v) = Number_(S) + Number_(v)  BY <1>2, <2>3
  <2>5. Number_(u) = Number_(v) + Number[x]  BY <1>0, <2>2, SumRemove
  <2>6. PICK w : w = S \cup u  OBVIOUS
  <2>7. w \in SUBSET Refs /\ IsFiniteSet(w) /\ x \in w /\ w \ {x} = S \cup v
    BY <1>0, <2>1, <2>2, <2>6
  <2>8. Number_(w) = Number_(S \cup v) + Number[x]  BY <2>7, SumRemove
  <2>9. Number_(S) \in Nat /\ Number_(v) \in Nat /\ Number[x] \in Nat
    BY <1>0, <2>3, SumNat DEF RefAssumption
  <2> QED BY <2>4, <2>5, <2>6, <2>8, <2>9
<1>3. Nat \subseteq Sizes
  <2> HIDE DEF Sizes
  <2> QED BY <1>1, <1>2, InductNat
<1>4. T \in SUBSET T /\ Cardinality(T) \in Nat  BY FS_CardinalityType
<1> QED BY <1>0, <1>3, <1>4

----------------------------------------------------------------------------
(* Counting modulo a width: adding is adding what was counted,             *)
LEMMA CountAdds ==
    ASSUME NEW w \in Nat \ {0}, NEW a \in Nat, NEW b \in Nat
    PROVE  ((a % w) + (b % w)) % w = (a + b) % w /\ (a + b) % w \in 0..(w - 1)
<1>1. PICK q \in Nat, r \in 0..(w - 1) : a = w * q + r /\ a % w = r
  <2>1. /\ a = w * (a \div w) + (a % w) /\ (a % w) \in 0..(w - 1)
        /\ a \div w \in Nat
    OBVIOUS
  <2> QED BY <2>1
<1>2. PICK p \in Nat, s \in 0..(w - 1) : b = w * p + s /\ b % w = s
  <2>1. /\ b = w * (b \div w) + (b % w) /\ (b % w) \in 0..(w - 1)
        /\ b \div w \in Nat
    OBVIOUS
  <2> QED BY <2>1
<1>3. PICK c \in Nat : c = r + s  OBVIOUS
<1>4. PICK m \in Nat, t \in 0..(w - 1) : c = w * m + t /\ c % w = t
  <2>1. /\ c = w * (c \div w) + (c % w) /\ (c % w) \in 0..(w - 1)
        /\ c \div w \in Nat
    OBVIOUS
  <2> QED BY <2>1
<1>5. PICK k \in Nat : k = q + p + m  OBVIOUS
<1>6. w * k = w * q + w * p + w * m /\ w * q \in Nat /\ w * p \in Nat /\ w * m \in Nat
  BY <1>5
<1>7. PICK d \in Nat : d = a + b  OBVIOUS
<1>8. d = w * k + t  BY <1>1, <1>2, <1>3, <1>4, <1>6, <1>7
<1>9. d % w = t  BY <1>8
<1> QED BY <1>1, <1>2, <1>3, <1>4, <1>7, <1>9

(* and one less is one less, unless the count is 0.                        *)
LEMMA CountLess ==
    ASSUME NEW w \in Nat \ {0}, NEW a \in Nat, a % w # 0
    PROVE  a - 1 \in Nat /\ (a - 1) % w = (a % w) - 1 /\ (a % w) - 1 \in 0..(w - 1)
<1>1. PICK q \in Nat, r \in 0..(w - 1) : a = w * q + r /\ a % w = r
  <2>1. /\ a = w * (a \div w) + (a % w) /\ (a % w) \in 0..(w - 1)
        /\ a \div w \in Nat
    OBVIOUS
  <2> QED BY <2>1
<1>2. PICK d : d = a - 1  OBVIOUS
<1>3. r # 0 /\ w * q \in Nat  BY <1>1
<1>4. d \in Nat /\ r - 1 \in 0..(w - 1) /\ d = w * q + (r - 1)  BY <1>1, <1>2, <1>3
<1>5. d % w = r - 1  BY <1>4
<1> QED BY <1>1, <1>2, <1>4, <1>5
----------------------------------------------------------------------------
(* References that compare equal are the same one.                         *)
LEMMA CompareTellsApart ==
    ASSUME RefAssumption, NEW r \in Refs, NEW s \in Refs, r # s
    PROVE  zfs_refcount_compare(r, s) # 0
<1>1. r \in Int /\ s \in Int  BY DEF RefAssumption
<1>2. Cmp(r, s) # 0  BY <1>1 DEF Cmp
<1> QED BY <1>2 DEF zfs_refcount_compare

(* Objects as the operations make them                                     *)
LEMMA EmptyObject ==
    ASSUME RefAssumption
    PROVE  CountedRight(zfs_refcount_create) /\ Has(zfs_refcount_create) = {}
<1>1. IsFiniteSet({}) /\ Number_({}) = 0  BY FS_EmptySet, SumUnfolds
<1>2. <<>> \in Seq(Refs) /\ Len(<<>>) = 0 /\ 0 \in 0..(Width - 1)  BY DEF RefAssumption
<1>3. 0 % Width = 0  BY DEF RefAssumption
<1> QED BY <1>1, <1>2, <1>3 DEF CountedRight, zfs_refcount_create, Object, Has

(* What each field of an object that counts right is                       *)
LEMMA ObjectFields ==
    ASSUME NEW o, CountedRight(o)
    PROVE  /\ o.rc_tree \in SUBSET Refs /\ IsFiniteSet(o.rc_tree)
           /\ o.rc_removed \in Seq(Refs) /\ Len(o.rc_removed) \in Nat
           /\ o.rc_count = Number_(o.rc_tree) /\ o.rc_count \in Int
           /\ o.rc_removed_count = Len(o.rc_removed) % Width
           /\ o.rc_removed_count \in 0..(Width - 1)
           /\ o = [rc_tree |-> o.rc_tree, rc_removed |-> o.rc_removed, rc_count |-> o.rc_count,
                   rc_removed_count |-> o.rc_removed_count]
BY DEF CountedRight, Object

Made(tree, gone, count, removed_count) ==
    [rc_tree |-> tree, rc_removed |-> gone, rc_count |-> count,
     rc_removed_count |-> removed_count]

(* The elements of a sequence                                              *)
LEMMA MadeRight ==
    ASSUME NEW tree \in SUBSET Refs, NEW gone \in Seq(Refs), NEW count \in Int,
           NEW left \in 0..(Width - 1), IsFiniteSet(tree),
           count = Number_(tree), left = Len(gone) % Width
    PROVE  /\ CountedRight(Made(tree, gone, count, left))
           /\ Has(Made(tree, gone, count, left)) = tree \cup Members(gone)
BY DEF Made, CountedRight, Object, Has, Members

LEMMA ElementsJoined ==
    ASSUME NEW s \in Seq(Refs), NEW t \in Seq(Refs)
    PROVE  /\ s \o t \in Seq(Refs) /\ Len(s \o t) = Len(s) + Len(t)
           /\ Members(s \o t) = Members(s) \cup Members(t)
<1>1. s \o t \in Seq(Refs) /\ Len(s \o t) = Len(s) + Len(t)  BY ConcatProperties
<1>2. \A i \in 1..Len(s) : (s \o t)[i] = s[i]  BY ConcatProperties
<1>3. \A i \in 1..Len(t) : (s \o t)[Len(s) + i] = t[i] /\ Len(s) + i \in 1..(Len(s) + Len(t))
  BY ConcatProperties
<1>4. \A i \in 1..(Len(s) + Len(t)) : i \in 1..Len(s) \/ \E j \in 1..Len(t) : i = Len(s) + j
  <2> SUFFICES ASSUME NEW i \in 1..(Len(s) + Len(t)), i \notin 1..Len(s)
               PROVE  \E j \in 1..Len(t) : i = Len(s) + j
    OBVIOUS
  <2>1. i - Len(s) \in 1..Len(t) /\ i = Len(s) + (i - Len(s))  OBVIOUS
  <2> QED BY <2>1
<1>5. DOMAIN (s \o t) = 1..(Len(s) + Len(t)) /\ DOMAIN s = 1..Len(s) /\ DOMAIN t = 1..Len(t)
  BY <1>1
<1>6. Members(s \o t) \subseteq Members(s) \cup Members(t)
  BY <1>2, <1>3, <1>4, <1>5, SMTT(20) DEF Members
<1>7. Members(s) \subseteq Members(s \o t)  BY <1>2, <1>5 DEF Members
<1>8. Members(t) \subseteq Members(s \o t)  BY <1>3, <1>5 DEF Members
<1> QED BY <1>1, <1>6, <1>7, <1>8

LEMMA ElementsCut ==
    ASSUME NEW s \in Seq(Refs), s # <<>>
    PROVE  /\ SubSeq(s, 1, Len(s) - 1) \in Seq(Refs)
           /\ Len(SubSeq(s, 1, Len(s) - 1)) = Len(s) - 1
           /\ Members(SubSeq(s, 1, Len(s) - 1)) \subseteq Members(s)
<1>1. PICK t : t = SubSeq(s, 1, Len(s) - 1)  OBVIOUS
<1>2. t \in Seq(Refs) /\ Len(t) = Len(s) - 1 /\ \A i \in 1..(Len(s) - 1) : t[i] = s[i]
  <2>1. PICK n : n = Len(s) - 1  OBVIOUS
  <2>2. n \in Nat /\ n <= Len(s) /\ t = SubSeq(s, 1, n)  BY <1>1, <2>1
  <2>3. /\ \A i \in 1..n : s[i] \in Refs
        /\ t = [i \in 1..n |-> s[i]]
    BY <2>2
  <2> QED BY <2>1, <2>2, <2>3
<1> QED BY <1>1, <1>2 DEF Members

LEMMA AddCounts ==
    ASSUME RefAssumption, NEW o, CountedRight(o), NEW r \in Refs \ Has(o)
    PROVE  LET p == Made(o.rc_tree \cup {r}, o.rc_removed, o.rc_count + Number[r],
                         o.rc_removed_count)
           IN  CountedRight(p) /\ Has(p) = Has(o) \cup {r}
<1>1. r \in Refs \ o.rc_tree  BY DEF Has
<1>2. PICK tree : tree = o.rc_tree \cup {r}  OBVIOUS
<1>3. tree \in SUBSET Refs /\ IsFiniteSet(tree) /\ Number_(tree) = o.rc_count + Number[r]
  BY <1>1, <1>2, SumAdd, ObjectFields
<1>4. PICK count : count = o.rc_count + Number[r]  OBVIOUS
<1>5. count \in Int /\ count = Number_(tree)  BY <1>3, <1>4, ObjectFields DEF RefAssumption
<1>6. /\ o.rc_removed \in Seq(Refs) /\ o.rc_removed_count \in 0..(Width - 1)
      /\ o.rc_removed_count = Len(o.rc_removed) % Width
  BY ObjectFields
<1>7. PICK p : p = Made(tree, o.rc_removed, count, o.rc_removed_count)  OBVIOUS
<1>8. CountedRight(p) /\ Has(p) = tree \cup Members(o.rc_removed)
  BY <1>3, <1>5, <1>6, <1>7, MadeRight
<1>9. Has(o) = o.rc_tree \cup Members(o.rc_removed)  BY DEF Has, Members
<1>10. Has(p) = Has(o) \cup {r}  BY <1>2, <1>8, <1>9
<1> QED BY <1>2, <1>4, <1>7, <1>8, <1>10

(* Nothing is lost or made up, but the oldest removed one forgotten.       *)
LEMMA RemoveCounts ==
    ASSUME RefAssumption, NEW o, CountedRight(o), NEW r \in o.rc_tree
    PROVE  LET p == Trimmed(Made(o.rc_tree \ {r}, <<r>> \o o.rc_removed, o.rc_count - Number[r],
                                 (o.rc_removed_count + 1) % Width))
           IN  CountedRight(p) /\ Has(p) \subseteq Has(o)
<1>1. PICK tree : tree = o.rc_tree \ {r}  OBVIOUS
<1>2. r \in Refs /\ tree \in SUBSET Refs /\ IsFiniteSet(tree)
  BY <1>1, ObjectFields, FS_Subset
<1>3. Number_(o.rc_tree) = Number_(tree) + Number[r] /\ Number_(tree) \in Nat
  BY <1>1, <1>2, SumRemove, SumNat, ObjectFields
<1>4. Number[r] \in Nat  BY <1>2 DEF RefAssumption
<1>5. PICK count : count = o.rc_count - Number[r]  OBVIOUS
<1>6. count \in Int /\ count = Number_(tree)  BY <1>3, <1>4, <1>5, ObjectFields
<1>7. PICK gone : gone = <<r>> \o o.rc_removed  OBVIOUS
<1>8. /\ gone \in Seq(Refs) /\ Len(gone) = Len(o.rc_removed) + 1 /\ gone # <<>>
      /\ Members(gone) = Members(<<r>>) \cup Members(o.rc_removed)
  <2>1. PICK u \in Seq(Refs) : u = <<r>>
    <3>1. <<r>> \in Seq(Refs)  BY <1>2
    <3> QED BY <3>1
  <2>2. /\ u \o o.rc_removed \in Seq(Refs)
        /\ Len(u \o o.rc_removed) = Len(u) + Len(o.rc_removed)
        /\ Members(u \o o.rc_removed) = Members(u) \cup Members(o.rc_removed)
    BY ElementsJoined, ObjectFields
  <2>3. Len(u) = 1 /\ Len(o.rc_removed) \in Nat  BY <2>1, ObjectFields
  <2> QED BY <1>7, <2>1, <2>2, <2>3
<1>9. Members(<<r>>) = {r}  BY DEF Members
<1>10. PICK left : left = (o.rc_removed_count + 1) % Width  OBVIOUS
<1>11. left \in 0..(Width - 1) /\ left = Len(gone) % Width
  <2>1. PICK w \in Nat \ {0}, n \in Nat : w = Width /\ n = Len(o.rc_removed)
    BY ObjectFields DEF RefAssumption
  <2>2. o.rc_removed_count = n % w  BY <2>1, ObjectFields
  <2>3. ((n % w) + (1 % w)) % w = (n + 1) % w /\ (n + 1) % w \in 0..(w - 1)
    BY CountAdds
  <2>4. CASE w = 1
    <3>1. n % w \in 0..(w - 1)  BY <2>1, ObjectFields
    <3>2. n % w = 0 /\ (0 + 1) % w = 0 /\ (n + 1) % w = 0  BY <2>3, <2>4, <3>1
    <3> QED BY <1>8, <1>10, <2>1, <2>2, <2>3, <3>2
  <2>5. CASE w # 1
    <3>1. 1 % w = 1  BY <2>5
    <3> QED BY <1>8, <1>10, <2>1, <2>2, <2>3, <3>1
  <2> QED BY <2>4, <2>5
<1>12. PICK q : q = Made(tree, gone, count, left)  OBVIOUS
<1>13. CountedRight(q) /\ Has(q) = tree \cup Members(gone)
  BY <1>2, <1>6, <1>8, <1>11, <1>12, MadeRight
<1>14. Has(q) \subseteq Has(o)
  BY <1>1, <1>8, <1>9, <1>13 DEF Has, Members
<1>15. CASE left > reference_history
  <2>1. PICK cut : cut = SubSeq(gone, 1, Len(gone) - 1)  OBVIOUS
  <2>0. cut \in Seq(Refs) /\ Len(cut) = Len(gone) - 1 /\ Members(cut) \subseteq Members(gone)
    BY <1>8, <2>1, ElementsCut
  <2>2. PICK p : p = Made(tree, cut, count, left - 1)  OBVIOUS
  <2>3. Trimmed(q) = p
    <3>1. /\ q.rc_removed_count = left /\ q.rc_removed = gone
          /\ q = [rc_tree |-> tree, rc_removed |-> gone, rc_count |-> count,
                  rc_removed_count |-> left]
      BY <1>12 DEF Made
    <3>2. Trimmed(q) = [q EXCEPT !.rc_removed = SubSeq(@, 1, Len(@) - 1), !.rc_removed_count = @ - 1]
      BY <1>15, <3>1 DEF Trimmed
    <3>3. PICK m : m = [q EXCEPT !.rc_removed = cut]  OBVIOUS
    <3>4. q \in Object  BY <1>13 DEF CountedRight
    <3>5. /\ m \in Object /\ m.rc_tree = tree /\ m.rc_removed = cut
          /\ m.rc_count = count /\ m.rc_removed_count = left
      <4>1. m \in Object  BY <2>0, <3>3, <3>4 DEF Object
      <4>2. m.rc_tree = q.rc_tree /\ m.rc_removed = cut  BY <3>3, <3>4 DEF Object
      <4>3. m.rc_count = q.rc_count /\ m.rc_removed_count = q.rc_removed_count
        BY <3>3, <3>4 DEF Object
      <4> QED BY <3>1, <4>1, <4>2, <4>3
    <3>6. Trimmed(q) = [m EXCEPT !.rc_removed_count = left - 1]
      BY <2>1, <3>1, <3>2, <3>3
    <3>7. left - 1 \in 0..(Width - 1)  BY <1>11, <1>15 DEF RefAssumption
    <3>8. Trimmed(q) = [rc_tree |-> tree, rc_removed |-> cut, rc_count |-> count,
                        rc_removed_count |-> left - 1]
      BY <3>5, <3>6, <3>7 DEF Object
    <3> QED BY <2>2, <3>8 DEF Made
  <2>5. left - 1 \in 0..(Width - 1) /\ left - 1 = Len(cut) % Width
    <3>0. Width \in Nat \ {0} /\ Len(gone) \in Nat  BY <1>8 DEF RefAssumption
    <3>1. PICK w \in Nat \ {0}, n \in Nat : w = Width /\ n = Len(gone)  BY <3>0
    <3>2. n % w # 0  BY <1>11, <1>15, <3>1 DEF RefAssumption
    <3>3. (n - 1) % w = (n % w) - 1 /\ (n % w) - 1 \in 0..(w - 1)  BY <3>2, CountLess
    <3> QED BY <1>11, <2>0, <3>1, <3>3
  <2>6. CountedRight(p) /\ Has(p) = tree \cup Members(cut)
    BY <1>2, <1>6, <2>2, <2>0, <2>5, MadeRight
  <2>7. Has(p) \subseteq Has(o)  BY <1>13, <1>14, <2>0, <2>6
  <2> QED BY <1>1, <1>5, <1>7, <1>10, <1>12, <2>3, <2>6, <2>7
<1>16. CASE ~ (left > reference_history)
  <2>1. Trimmed(q) = q  BY <1>12, <1>16 DEF Trimmed, Made
  <2> QED BY <1>1, <1>5, <1>7, <1>10, <1>12, <1>13, <1>14, <2>1
<1> QED BY <1>15, <1>16

LEMMA TransferCounts ==
    ASSUME RefAssumption, NEW o, CountedRight(o), NEW p, CountedRight(p), Has(o) \cap Has(p) = {}
    PROVE  LET q == Made(o.rc_tree \cup p.rc_tree, o.rc_removed \o p.rc_removed,
                         o.rc_count + p.rc_count,
                         (o.rc_removed_count + p.rc_removed_count) % Width)
           IN  CountedRight(q) /\ Has(q) = Has(o) \cup Has(p)
<1>1. PICK tree : tree = o.rc_tree \cup p.rc_tree  OBVIOUS
<1>2. o.rc_tree \cap p.rc_tree = {}  BY DEF Has
<1>3. IsFiniteSet(tree) /\ Number_(tree) = Number_(o.rc_tree) + Number_(p.rc_tree)
  BY <1>1, <1>2, SumUnion, ObjectFields
<1>4. tree \in SUBSET Refs  BY <1>1, ObjectFields
<1>5. PICK gone : gone = o.rc_removed \o p.rc_removed  OBVIOUS
<1>6. /\ gone \in Seq(Refs) /\ Len(gone) = Len(o.rc_removed) + Len(p.rc_removed)
      /\ Members(gone) = Members(o.rc_removed) \cup Members(p.rc_removed)
  BY <1>5, ElementsJoined, ObjectFields
<1>7. PICK count : count = o.rc_count + p.rc_count  OBVIOUS
<1>8. count \in Int /\ count = Number_(tree)  BY <1>3, <1>7, ObjectFields
<1>9. PICK left : left = (o.rc_removed_count + p.rc_removed_count) % Width  OBVIOUS
<1>10. left \in 0..(Width - 1) /\ left = Len(gone) % Width
  <2>1. PICK w \in Nat \ {0}, n \in Nat, m \in Nat :
           w = Width /\ n = Len(o.rc_removed) /\ m = Len(p.rc_removed)
    BY ObjectFields DEF RefAssumption
  <2>2. o.rc_removed_count = n % w /\ p.rc_removed_count = m % w  BY <2>1, ObjectFields
  <2>3. ((n % w) + (m % w)) % w = (n + m) % w /\ (n + m) % w \in 0..(w - 1)
    BY CountAdds
  <2> QED BY <1>6, <1>9, <2>1, <2>2, <2>3
<1>11. PICK q : q = Made(tree, gone, count, left)  OBVIOUS
<1>12. CountedRight(q) /\ Has(q) = tree \cup Members(gone)
  <2>1. /\ tree \in SUBSET Refs /\ IsFiniteSet(tree) /\ gone \in Seq(Refs)
        /\ count \in Int /\ count = Number_(tree)
        /\ left \in 0..(Width - 1) /\ left = Len(gone) % Width
    BY <1>3, <1>4, <1>6, <1>8, <1>10
  <2> QED BY <1>11, <2>1, MadeRight
<1>13. Has(q) = Has(o) \cup Has(p)  BY <1>1, <1>6, <1>12 DEF Has, Members
<1> QED BY <1>1, <1>5, <1>7, <1>9, <1>11, <1>12, <1>13
----------------------------------------------------------------------------
(* A step that gives one object only what nobody has                       *)
LEMMA ObjectStep ==
    ASSUME RefInv, NEW c \in Counts, NEW p, CountedRight(p), NEW X,
           Has(p) \subseteq Has(rc[c]) \cup X, X \cap InUse = {},
           rc' = [rc EXCEPT ![c] = p], UNCHANGED moving
    PROVE  RefInv'
<1>1. /\ rc \in [Counts -> Object] /\ moving \in [Thread -> Transfer \cup {Nothing}]
      /\ \A d \in Counts : CountedRight(rc[d])
      /\ \A t \in Thread : CountedRight(moving[t].part)
      /\ Apart
  BY DEF RefInv
<1>2. /\ rc' \in [Counts -> Object] /\ rc'[c] = p
      /\ \A d \in Counts : d # c => rc'[d] = rc[d]
  BY <1>1 DEF CountedRight
<1>3. /\ \A d \in Counts : Has(rc[d]) \subseteq InUse
      /\ \A t \in Thread : Has(moving[t].part) \subseteq InUse
  BY DEF InUse
<1>4. \A d \in Counts : CountedRight(rc'[d])  BY <1>1, <1>2
<1>5. ASSUME NEW d \in Counts, d # c  PROVE Has(p) \cap Has(rc[d]) = {}
  BY <1>1, <1>3, <1>5 DEF Apart
<1>6. ASSUME NEW t \in Thread  PROVE Has(p) \cap Has(moving[t].part) = {}
  BY <1>1, <1>3, <1>6 DEF Apart
<1>7. \A d, e \in Counts : d # e => Has(rc'[d]) \cap Has(rc'[e]) = {}
  BY <1>1, <1>2, <1>5 DEF Apart
<1>8. \A d \in Counts, t \in Thread : Has(rc'[d]) \cap Has(moving[t].part) = {}
  BY <1>1, <1>2, <1>6 DEF Apart
<1>9. Apart'  BY <1>1, <1>7, <1>8 DEF Apart
<1>10. \A d \in Counts : CountedRight(rc[d])'  BY <1>4 DEF CountedRight, Object
<1>11. \A t \in Thread : CountedRight(moving[t].part)'
  BY <1>1 DEF CountedRight, Object
<1> QED BY <1>1, <1>2, <1>9, <1>10, <1>11 DEF RefInv, Transfer, Object, Nothing, zfs_refcount_create

LEMMA AddReferenceStep ==
    ASSUME RefAssumption, RefInv, NEW c \in Counts, NEW r \in Refs, AddReference(c, r)
    PROVE  RefInv'
<1>1. rc \in [Counts -> Object] /\ CountedRight(rc[c])  BY DEF RefInv
<1>2. PICK o : o = rc[c]  OBVIOUS
<1>3. r \notin Has(o)  BY <1>2 DEF AddReference, InUse
<1>4. PICK p : p = Made(o.rc_tree \cup {r}, o.rc_removed, o.rc_count + Number[r],
                        o.rc_removed_count)
  OBVIOUS
<1>5. CountedRight(p) /\ Has(p) = Has(o) \cup {r}
  BY <1>1, <1>2, <1>3, <1>4, AddCounts
<1>6. rc' = [rc EXCEPT ![c] = p]
  <2>1. o \in Object  BY <1>1, <1>2
  <2>2. PICK m : m = [o EXCEPT !.rc_tree = o.rc_tree \cup {r}]  OBVIOUS
  <2>3. /\ m \in Object /\ m.rc_tree = o.rc_tree \cup {r} /\ m.rc_removed = o.rc_removed
        /\ m.rc_count = o.rc_count /\ m.rc_removed_count = o.rc_removed_count
    <3>1. o.rc_tree \cup {r} \in SUBSET Refs  BY <2>1 DEF Object
    <3>2. m \in Object  BY <2>1, <2>2, <3>1 DEF Object
    <3>3. m.rc_tree = o.rc_tree \cup {r} /\ m.rc_removed = o.rc_removed
      BY <2>1, <2>2 DEF Object
    <3>4. m.rc_count = o.rc_count /\ m.rc_removed_count = o.rc_removed_count
      BY <2>1, <2>2 DEF Object
    <3> QED BY <3>2, <3>3, <3>4
  <2>4. PICK count \in Int : count = o.rc_count + Number[r]
    BY <2>1 DEF Object, RefAssumption
  <2>5. PICK q : q = [m EXCEPT !.rc_count = count]  OBVIOUS
  <2>6. q = [rc_tree |-> m.rc_tree, rc_removed |-> m.rc_removed, rc_count |-> count,
             rc_removed_count |-> m.rc_removed_count]
    BY <2>3, <2>5 DEF Object
  <2>8. q = p  BY <1>4, <2>3, <2>4, <2>6 DEF Made
  <2>7. rc' = [rc EXCEPT ![c] = q]  BY <1>1, <1>2, <2>2, <2>3, <2>4, <2>5 DEF AddReference
  <2> QED BY <2>7, <2>8
<1>7. Has(p) \subseteq Has(rc[c]) \cup {r} /\ {r} \cap InUse = {} /\ UNCHANGED moving
  BY <1>2, <1>5 DEF AddReference
<1> QED BY <1>5, <1>6, <1>7, ObjectStep

LEMMA RemoveReferenceStep ==
    ASSUME RefAssumption, RefInv, NEW c \in Counts, NEW r \in Refs, RemoveReference(c, r)
    PROVE  RefInv'
<1>1. CountedRight(rc[c]) /\ r \in rc[c].rc_tree /\ UNCHANGED moving  BY DEF RefInv, RemoveReference
<1>2. PICK o : o = rc[c]  OBVIOUS
<1>3. PICK p : p = Trimmed(Made(o.rc_tree \ {r}, <<r>> \o o.rc_removed, o.rc_count - Number[r],
                                (o.rc_removed_count + 1) % Width))
  OBVIOUS
<1>4. CountedRight(p) /\ Has(p) \subseteq Has(o)  BY <1>1, <1>2, <1>3, RemoveCounts
<1>5. rc' = [rc EXCEPT ![c] = p]  BY <1>2, <1>3 DEF RemoveReference, Made
<1>6. PICK X : X = {}  OBVIOUS
<1>7. Has(p) \subseteq Has(rc[c]) \cup X /\ X \cap InUse = {}  BY <1>2, <1>4, <1>6
<1> QED BY <1>1, <1>4, <1>5, <1>7, ObjectStep

LEMMA DestroyStep ==
    ASSUME RefAssumption, RefInv, NEW c \in Counts, zfs_refcount_destroy_many(c)
    PROVE  RefInv'
<1>1. PICK p : p = zfs_refcount_create  OBVIOUS
<1>2. CountedRight(p) /\ Has(p) = {}  BY <1>1, EmptyObject
<1>3. rc' = [rc EXCEPT ![c] = p] /\ UNCHANGED moving
  BY <1>1 DEF zfs_refcount_destroy_many
<1>4. PICK X : X = {}  OBVIOUS
<1>5. Has(p) \subseteq Has(rc[c]) \cup X /\ X \cap InUse = {}  BY <1>2, <1>4
<1> QED BY <1>2, <1>3, <1>5, ObjectStep

(* A step that also gives a transfer other references, or takes them:      *)
(* together the two have what they had.                                    *)
LEMMA TransferStep ==
    ASSUME RefInv, NEW c \in Counts, NEW p, CountedRight(p),
           NEW t \in Thread, NEW m \in Transfer \cup {Nothing}, CountedRight(m.part),
           Has(p) \cup Has(m.part) \subseteq Has(rc[c]) \cup Has(moving[t].part),
           Has(p) \cap Has(m.part) = {},
           rc' = [rc EXCEPT ![c] = p], moving' = [moving EXCEPT ![t] = m]
    PROVE  RefInv'
<1>1. /\ rc \in [Counts -> Object] /\ moving \in [Thread -> Transfer \cup {Nothing}]
      /\ \A d \in Counts : CountedRight(rc[d])
      /\ \A u \in Thread : CountedRight(moving[u].part)
      /\ Apart
  BY DEF RefInv
<1>2. /\ rc' \in [Counts -> Object] /\ rc'[c] = p
      /\ \A d \in Counts : d # c => rc'[d] = rc[d]
  BY <1>1 DEF CountedRight
<1>3. /\ moving' \in [Thread -> Transfer \cup {Nothing}] /\ moving'[t] = m
      /\ \A u \in Thread : u # t => moving'[u] = moving[u]
  BY <1>1
<1>4. \A d \in Counts : CountedRight(rc'[d])  BY <1>1, <1>2
<1>5. \A u \in Thread : CountedRight(moving'[u].part)  BY <1>1, <1>3
<1>6. ASSUME NEW d \in Counts, d # c
      PROVE  Has(p) \cap Has(rc[d]) = {} /\ Has(m.part) \cap Has(rc[d]) = {}
  BY <1>1, <1>6 DEF Apart
<1>7. ASSUME NEW u \in Thread, u # t
      PROVE  Has(p) \cap Has(moving[u].part) = {} /\ Has(m.part) \cap Has(moving[u].part) = {}
  BY <1>1, <1>7 DEF Apart
<1>8. \A d, e \in Counts : d # e => Has(rc'[d]) \cap Has(rc'[e]) = {}
  BY <1>1, <1>2, <1>6 DEF Apart
<1>9. \A u, v \in Thread : u # v => Has(moving'[u].part) \cap Has(moving'[v].part) = {}
  BY <1>1, <1>3, <1>7 DEF Apart
<1>10. ASSUME NEW d \in Counts, NEW u \in Thread  PROVE Has(rc'[d]) \cap Has(moving'[u].part) = {}
  <2>1. CASE d = c /\ u = t  BY <1>2, <1>3, <2>1
  <2>2. CASE d = c /\ u # t  BY <1>2, <1>3, <1>7, <2>2
  <2>3. CASE d # c /\ u = t  BY <1>2, <1>3, <1>6, <2>3
  <2>4. CASE d # c /\ u # t  BY <1>1, <1>2, <1>3, <2>4 DEF Apart
  <2> QED BY <2>1, <2>2, <2>3, <2>4
<1>11. Apart'  BY <1>8, <1>9, <1>10 DEF Apart, Has
<1>12. \A d \in Counts : CountedRight(rc[d])'  BY <1>4 DEF CountedRight, Object
<1>13. \A u \in Thread : CountedRight(moving[u].part)'  BY <1>5 DEF CountedRight, Object
<1> QED BY <1>2, <1>3, <1>11, <1>12, <1>13 DEF RefInv, Transfer, Object, Nothing, zfs_refcount_create
LEMMA TransferOutStep ==
    ASSUME RefAssumption, RefInv, NEW t \in Thread, NEW dst \in Counts, NEW src \in Counts,
           TransferOut(t, dst, src)
    PROVE  RefInv'
<1>1. CountedRight(rc[src]) /\ rc[src] \in Object  BY DEF RefInv
<1>2. PICK m : m = [from |-> src, to |-> dst, part |-> rc[src]]  OBVIOUS
<1>3. m \in Transfer /\ m.part = rc[src]  BY <1>1, <1>2 DEF Transfer
<1>4. PICK p : p = zfs_refcount_create  OBVIOUS
<1>5. CountedRight(p) /\ Has(p) = {}  BY <1>4, EmptyObject
<1>6. moving' = [moving EXCEPT ![t] = m] /\ rc' = [rc EXCEPT ![src] = p]
  BY <1>2, <1>4 DEF TransferOut
<1>7. /\ Has(p) \cup Has(m.part) \subseteq Has(rc[src]) \cup Has(moving[t].part)
      /\ Has(p) \cap Has(m.part) = {}
  BY <1>3, <1>5
<1> QED BY <1>1, <1>3, <1>5, <1>6, <1>7, TransferStep

LEMMA TransferInStep ==
    ASSUME RefAssumption, RefInv, NEW t \in Thread, TransferIn(t)
    PROVE  RefInv'
<1>1. moving[t] \in Transfer /\ CountedRight(moving[t].part)  BY DEF RefInv, TransferIn
<1>2. PICK c \in Counts : c = moving[t].to  BY <1>1 DEF Transfer
<1>3. PICK o : o = rc[c]  OBVIOUS
<1>4. PICK part : part = moving[t].part  OBVIOUS
<1>5. CountedRight(o) /\ CountedRight(part) /\ Has(o) \cap Has(part) = {}
  BY <1>1, <1>3, <1>4 DEF RefInv, Apart
<1>6. PICK p : p = Made(o.rc_tree \cup part.rc_tree, o.rc_removed \o part.rc_removed,
                        o.rc_count + part.rc_count,
                        (o.rc_removed_count + part.rc_removed_count) % Width)
  OBVIOUS
<1>7. CountedRight(p) /\ Has(p) = Has(o) \cup Has(part)
  BY <1>5, <1>6, TransferCounts
<1>8. PICK m : m = Nothing  OBVIOUS
<1>9. m \in Transfer \cup {Nothing} /\ CountedRight(m.part) /\ Has(m.part) = {}
  <2>1. m.part = zfs_refcount_create  BY <1>8 DEF Nothing
  <2> QED BY <1>8, <2>1, EmptyObject
<1>10. rc' = [rc EXCEPT ![c] = p] /\ moving' = [moving EXCEPT ![t] = m]
  BY <1>2, <1>3, <1>4, <1>6, <1>8 DEF TransferIn, Made
<1>11. /\ Has(p) \cup Has(m.part) \subseteq Has(rc[c]) \cup Has(moving[t].part)
       /\ Has(p) \cap Has(m.part) = {}
  BY <1>3, <1>4, <1>7, <1>9
<1> QED BY <1>7, <1>9, <1>10, <1>11, TransferStep

LEMMA RefInitInv ==
    ASSUME RefAssumption, RefInit
    PROVE  RefInv
<1>1. CountedRight(zfs_refcount_create) /\ Has(zfs_refcount_create) = {}  BY EmptyObject
<1>2. zfs_refcount_create \in Object /\ Nothing.part = zfs_refcount_create
  BY <1>1 DEF CountedRight, Nothing
<1>3. /\ rc \in [Counts -> Object] /\ moving \in [Thread -> Transfer \cup {Nothing}]
      /\ \A c \in Counts : rc[c] = zfs_refcount_create
      /\ \A t \in Thread : moving[t].part = zfs_refcount_create
  BY <1>2 DEF RefInit
<1>4. Apart  BY <1>1, <1>3 DEF Apart
<1> QED BY <1>1, <1>3, <1>4 DEF RefInv

LEMMA RefNextInv ==
    ASSUME RefAssumption, RefInv, [RefNext]_refVars
    PROVE  RefInv'
<1>1. CASE \E c \in Counts, r \in Refs : AddReference(c, r) \/ RemoveReference(c, r)
  BY <1>1, AddReferenceStep, RemoveReferenceStep
<1>2. CASE \E c \in Counts : zfs_refcount_destroy_many(c)
  BY <1>2, DestroyStep
<1>3. CASE \E t \in Thread, c, d \in Counts : TransferOut(t, c, d)
  BY <1>3, TransferOutStep
<1>4. CASE \E t \in Thread : TransferIn(t)
  BY <1>4, TransferInStep
<1>5. CASE UNCHANGED refVars
  <2>1. rc' = rc /\ moving' = moving  BY <1>5 DEF refVars
  <2>2. /\ \A c \in Counts : CountedRight(rc[c])'
        /\ \A t \in Thread : CountedRight(moving[t].part)'
    BY <2>1 DEF RefInv, CountedRight, Object
  <2>3. Apart'
    <3>1. Apart  BY DEF RefInv
    <3> QED BY <2>1, <3>1 DEF Apart
  <2> QED BY <2>1, <2>2, <2>3 DEF RefInv, Transfer, Object, Nothing, zfs_refcount_create
<1> QED BY <1>1, <1>2, <1>3, <1>4, <1>5 DEF RefNext

(* What the invariant says of the references                               *)
LEMMA RefInvCounts ==
    ASSUME RefAssumption, RefInv
    PROVE  ReferencesCounted
<1>1. /\ \A c \in Counts : rc[c].rc_count = Number_(rc[c].rc_tree)
      /\ \A t \in Thread : moving[t].part.rc_count = Number_(moving[t].part.rc_tree)
  BY DEF RefInv, CountedRight
<1>2. ASSUME NEW t \in Thread, moving[t] # Nothing, NEW r \in moving[t].part.rc_tree
      PROVE  CanAdd(rc[moving[t].to].rc_tree, r)
  <2>1. moving[t] \in Transfer /\ CountedRight(moving[t].part)  BY <1>2 DEF RefInv
  <2>2. PICK c \in Counts : c = moving[t].to  BY <2>1 DEF Transfer
  <2>3. r \in Refs /\ r \in Has(moving[t].part)  BY <1>2, <2>1, ObjectFields DEF Has
  <2>4. ASSUME NEW s \in rc[c].rc_tree  PROVE zfs_refcount_compare(r, s) # 0
    <3>1. s \in Refs /\ s \in Has(rc[c])  BY <2>4, ObjectFields DEF RefInv, Has
    <3>2. r # s  BY <2>3, <3>1 DEF RefInv, Apart
    <3> QED BY <2>3, <3>1, <3>2, CompareTellsApart
  <2> QED BY <2>2, <2>4 DEF CanAdd
<1>3. RemovedCounted  BY DEF RemovedCounted, RefInv, CountedRight
<1> QED BY <1>1, <1>2, <1>3 DEF ReferencesCounted, CountsTheTree, RefInv

THEOREM TransfersCountRight == RefSpec => []ReferencesCounted
<1>1. RefInit => RefInv  BY RefInitInv, RefAssumption
<1>2. RefInv /\ [RefNext]_refVars => RefInv'  BY RefNextInv, RefAssumption
<1>3. RefInv => ReferencesCounted  BY RefInvCounts, RefAssumption
<1> QED BY <1>1, <1>2, <1>3, PTL DEF RefSpec
=============================================================================
