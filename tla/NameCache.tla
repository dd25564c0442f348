------------------------------ MODULE NameCache ------------------------------
(* The name cache's hash table, whose chains are the plain lists of        *)
(* ck_queue.h, and the two sysctls that scan it.  The calls that would     *)
(* lock its buckets are commented out in this copy, so a writer changes    *)
(* chains, one store at a time, while a scan walks them, and nothing keeps *)
(* an entry from being used again, or chains from changing places, under   *)
(* the scan.                                                               *)
EXTENDS Integers, Sequences, FiniteSets, Lists

CONSTANTS nchash,     \* the greatest index of the table
          Node,       \* struct namecache
          Garbage,    \* what malloc leaves in an int of cntbuf
          Percent,    \* 100
          Sizes,      \* numbers of buckets to try the rate with
          Most,       \* bound: entries counted in a bucket
          Shakes      \* bound: times that entries are reused or chains moved in a scan

Chains == 0..nchash
None == "none"

VARIABLES next,       \* csle_next of an entry, cslh_first of a bucket
          stores,     \* of the writer's operation, those to come
          retired,    \* entries taken off, not used again yet
          scan,       \* which sysctl runs
          ncpp, ncp,  \* its bucket and entry
          count, used, maxlength, cntbuf,
          counted,    \* the entries it has counted, per bucket
          stayed,     \* those on a chain ever since it began
          shaky       \* buckets in whose scan entries were reused or chains moved

listVars == <<next, stores, retired>>
resultVars == <<count, used, maxlength, cntbuf>>
historyVars == <<counted, stayed, shaky>>
vars == <<listVars, scan, ncpp, ncp, resultVars, historyVars>>

Cells == Chains \cup Node
FIRST(h) == next[h]
Elements(h) == Chain(next, FIRST(h), Cardinality(Node) + 1)
OnChain(h, n) == \E i \in DOMAIN Elements(h) : Elements(h)[i] = n

Put(c, v) == [cell |-> c, val |-> v]

INSERT_AFTER(c, n) == <<Put(n, next[c]), Put(c, n)>>

INSERT_HEAD(h, n) == <<Put(n, FIRST(h)), Put(h, n)>>

(* FOREACH_PREVPTR leaves varp at the cell that holds var.                 *)
PrevOf(h, n) == CHOOSE c \in Cells : next[c] = n /\ (c = h \/ OnChain(h, c))

INSERT_PREVPTR(c, n) == <<Put(n, next[c]), Put(c, n)>>
REMOVE_AFTER(c) == <<Put(c, next[next[c]])>>
REMOVE_HEAD(h) == <<Put(h, next[FIRST(h)])>>

REMOVE(h, n) == IF FIRST(h) = n THEN REMOVE_HEAD(h) ELSE REMOVE_AFTER(PrevOf(h, n))

MOVE(g, h) == [next EXCEPT ![g] = FIRST(h)]
SWAP(g, h) == [next EXCEPT ![g] = FIRST(h), ![h] = FIRST(g)]

Init ==
    /\ next = [c \in Cells |-> NULL]
    /\ stores = <<>> /\ retired = {}
    /\ scan = None /\ ncpp = 0 /\ ncp = None
    /\ count = 0 /\ used = 0 /\ maxlength = 0 /\ cntbuf = [b \in Chains |-> 0]
    /\ counted = [b \in Chains |-> <<>>] /\ stayed = [b \in Chains |-> {}]
    /\ shaky = {}

(* The writer *)
Begin(ops) == stores = <<>> /\ stores' = ops

Insert(h, n) ==
    /\ n \notin retired /\ \A b \in Chains : ~OnChain(b, n)
    /\ \/ Begin(INSERT_HEAD(h, n))
       \/ \E e \in Node : OnChain(h, e) /\ Begin(INSERT_AFTER(e, n))
       \/ \E e \in Node : OnChain(h, e) /\ Begin(INSERT_PREVPTR(PrevOf(h, e), n))
    /\ UNCHANGED <<next, retired, scan, ncpp, ncp, resultVars, historyVars>>

Remove(h, n) ==
    /\ OnChain(h, n)
    /\ Begin(REMOVE(h, n))
    /\ retired' = retired \cup {n}
    /\ stayed' = [b \in Chains |-> stayed[b] \ {n}]
    /\ UNCHANGED <<next, scan, ncpp, ncp, resultVars, counted, shaky>>

(* A scan that runs meanwhile may be led astray in the bucket it is in.    *)
Shaken ==
    \/ scan = None /\ UNCHANGED shaky
    \/ scan # None /\ Cardinality(shaky) < Shakes /\ shaky' = shaky \cup {ncpp}

(* Chains change places, with SWAP's stores as one step.  MOVE only copies *)
(* a head; its caller empties the old one.                                 *)
Rehash(g, h) ==
    /\ stores = <<>> /\ g # h
    /\ \/ next' = SWAP(g, h)
       \/ FIRST(g) = NULL /\ next' = [MOVE(g, h) EXCEPT ![h] = NULL]
    /\ Shaken
    /\ stayed' = [stayed EXCEPT ![g] = {}, ![h] = {}]
    /\ UNCHANGED <<stores, retired, scan, ncpp, ncp, resultVars, counted>>

Store ==
    /\ stores # <<>>
    /\ next' = [next EXCEPT ![stores[1].cell] = stores[1].val]
    /\ stores' = Tail(stores)
    /\ UNCHANGED <<retired, scan, ncpp, ncp, resultVars, historyVars>>

(* The sysctls: "nchash" counts used buckets and the longest chain, and    *)
(* "rawnchash" increments an int per bucket that malloc did not set.       *)
Sysctl(name) ==
    /\ scan = None
    /\ scan' = name /\ ncpp' = 0 /\ ncp' = FIRST(0)
    /\ count' = 0 /\ used' = 0 /\ maxlength' = 0
    /\ cntbuf' = [b \in Chains |-> IF name = "rawnchash" THEN Garbage ELSE 0]
    /\ counted' = [b \in Chains |-> <<>>]
    /\ stayed' = [b \in Chains |-> {n \in Node \ retired : OnChain(b, n)}] /\ shaky' = {}
    /\ UNCHANGED listVars

(* The body of CK_SLIST_FOREACH, and the load of the next entry            *)
CountEntry ==
    /\ ncp \in Node /\ Len(counted[ncpp]) < Most
    /\ IF scan = "nchash" THEN count' = count + 1 /\ UNCHANGED cntbuf
                          ELSE cntbuf' = [cntbuf EXCEPT ![ncpp] = @ + 1] /\ UNCHANGED count
    /\ counted' = [counted EXCEPT ![ncpp] = Append(@, ncp)]
    /\ ncp' = next[ncp]
    /\ UNCHANGED <<listVars, scan, ncpp, used, maxlength, stayed, shaky>>

NextBucket ==
    /\ ncpp' = ncpp + 1
    /\ ncp' = IF ncpp < nchash THEN FIRST(ncpp + 1) ELSE None

BucketDone ==
    /\ scan # None /\ ncp = NULL
    /\ used' = used + IF scan = "nchash" /\ count > 0 THEN 1 ELSE 0
    /\ maxlength' = IF maxlength < count THEN count ELSE maxlength
    /\ count' = 0
    /\ NextBucket
    /\ UNCHANGED <<listVars, scan, cntbuf, historyVars>>

(* In hundredths of a percent; below 100 buckets the code divides by zero. *)
pct(n_nchash) == (used * Percent) \div (n_nchash \div Percent)

Return ==
    /\ scan # None /\ ncpp > nchash
    /\ scan' = None /\ ncpp' = 0
    /\ count' = 0 /\ used' = 0 /\ maxlength' = 0 /\ cntbuf' = [b \in Chains |-> 0]
    /\ counted' = [b \in Chains |-> <<>>] /\ stayed' = [b \in Chains |-> {}]
    /\ shaky' = {}
    /\ UNCHANGED <<listVars, ncp>>

(* The entries taken off may be used again, also while a scan is at one.   *)
Reclaim ==
    /\ stores = <<>> /\ retired # {}
    /\ retired' = {} /\ Shaken
    /\ UNCHANGED <<next, stores, scan, ncpp, ncp, resultVars, counted, stayed>>

Next ==
    \/ \E h \in Chains, n \in Node : Insert(h, n) \/ Remove(h, n)
    \/ \E g, h \in Chains : Rehash(g, h)
    \/ Store
    \/ \E name \in {"nchash", "rawnchash"} : Sysctl(name)
    \/ CountEntry \/ BucketDone \/ Return \/ Reclaim

Spec == Init /\ [][Next]_vars

----------------------------------------------------------------------------
SetOf(s) == {s[i] : i \in DOMAIN s}
Scanned == 0..ncpp - 1

(* However a chain changes under the scan, an entry that is on it all the  *)
(* while is counted, and none twice, unless entries were used again or     *)
(* chains exchanged while the scan was in that bucket; over all buckets    *)
(* none is counted twice unless that happened somewhere.                   *)
CountsWhatStayed ==
    scan # None =>
        /\ \A b \in Scanned \ shaky : stayed[b] \subseteq SetOf(counted[b])
        /\ \A b, c \in Chains : (b = c /\ b \notin shaky) \/ shaky = {} =>
              \A i \in DOMAIN counted[b], j \in DOMAIN counted[c] :
                  counted[b][i] = counted[c][j] => b = c /\ i = j

(* What is returned is what was counted: buckets in use and the longest    *)
(* chain, or ints that are as far from the truth as malloc left them.  The *)
(* rate is truncated twice: in a table of any size it is less than one     *)
(* below the true one, and less than twice as high.                        *)
ReturnsTheCounts ==
    /\ scan = "nchash" =>
          /\ used = Cardinality({b \in Scanned : counted[b] # <<>>})
          /\ \A b \in Scanned : Len(counted[b]) <= maxlength
          /\ maxlength > 0 => \E b \in Scanned : Len(counted[b]) = maxlength
          /\ ncpp > nchash => \A n \in Sizes :
                /\ (pct(n) + 1) * n > used * Percent * Percent
                /\ pct(n) > 0 => pct(n) * n < 2 * used * Percent * Percent
    /\ scan = "rawnchash" => \A b \in Chains : cntbuf[b] = Garbage + Len(counted[b])
==============================================================================
