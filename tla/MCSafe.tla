------------------------------- MODULE MCSafe -------------------------------
(* Parts of the archive that have nothing to do with each other, for TLC   *)
(* in one run without fairness: the first step of a behaviour picks a part *)
(* and only it takes steps from then on.                                   *)
EXTENDS PppoeSid, QueueTailq, CkQueue, Dll, Refcount, TLC

(* Model values the parts share, so that there are few permutations.       *)
CONSTANTS x1, x2, x3, y1, y2

MCSessHash == [v \in 0..MaxSid |-> v % 2]

(* Three references of one holder, two of them with the same number.       *)
MCHolder == [r \in 1..3 |-> 1]
MCNumber == [r \in 1..3 |-> IF r = 3 THEN 2 ELSE 1]

VARIABLES
    active,                                           \* the part that runs
    liMem, liLoop, liCall,                            \* list
    stMem, stLoop, stCall,                            \* stailq
    lMem, list, stack, lReturned,                     \* sll
    bMem, tree,                                       \* bst
    oldRc, oldMoving,                                 \* oldcount
    ncNext, ncStores, ncRetired, scan, ncpp, ncp,     \* names
    count, used, maxlength, cntbuf, counted,
    ncStayed, shaky,
    prog, rustPc, heap, scope, my, numbers,           \* ownership
    favorite, size, elements, rustI, favIndex,
    rustUsed, shown,
    sawA, sawDoing, sawI, sawJ, j_min, res, points,   \* saw
    cMem, held, lost, cCall, cRet,                    \* cells
    array, was, doing, low, high, key, sorting,       \* loops
    ret,
    file, run, loc, glob,                             \* challenges
    d, ledBuf, printed,                               \* led
    channel, setpoint, readings, modes, vote               \* trips

listVars == <<liMem, liLoop, liCall>>
stailqVars == <<stMem, stLoop, stCall>>
sllVars == <<lMem, list, stack, lReturned>>
bstVars == <<bMem, tree>>
oldcountVars == <<oldRc, oldMoving>>
namesVars ==
    <<ncNext, ncStores, ncRetired, scan, ncpp, ncp, count, used, maxlength, cntbuf, counted, ncStayed, shaky>>
ownershipVars ==
    <<prog, rustPc, heap, scope, my, numbers, favorite, size, elements, rustI, favIndex, rustUsed, shown>>
sawVars == <<sawA, sawDoing, sawI, sawJ, j_min, res, points>>
cellsVars == <<cMem, held, lost, cCall, cRet>>
loopsVars == <<array, was, doing, low, high, key, sorting, ret>>
challengesVars == <<file, run, loc, glob>>
ledVars == <<d, ledBuf, printed>>
tripsVars == <<channel, setpoint, readings, modes, vote>>

Three == {x1, x2, x3}
Two == {y1, y2}

Dlist == INSTANCE QueueList WITH
    Heads <- Two, Node <- Three, mem <- liMem, loop <- liLoop, call <- liCall

Stailq == INSTANCE QueueStailq WITH
    Heads <- Two, Node <- Three, mem <- stMem, loop <- stLoop, call <- stCall

Sll == INSTANCE SllLists WITH
    List <- Three, Cells <- 4, Value <- {1, 2}, mem <- lMem, returned <- lReturned

Bst == INSTANCE Bst WITH
    Tree <- Two, Nodes <- 4, Value <- {-1, 1, 2}, Width <- 2, mem <- bMem

OldCount == INSTANCE RefcountBefore WITH
    Counts <- Two, Refs <- 1..3, Holder <- MCHolder, Number <- MCNumber, Thread <- {"t", "u"},
    reference_history <- 1,
    rc <- oldRc, moving <- oldMoving

(* Two chains; the rate in tables where either truncation loses something. *)
Names == INSTANCE NameCache WITH
    nchash <- 1, Node <- Two, Garbage <- 7, Percent <- 3, Sizes <- 3..9, Most <- 3, Shakes <- 1,
    next <- ncNext, stores <- ncStores, retired <- ncRetired, stayed <- ncStayed

Rust == INSTANCE Ownership WITH
    Blocks <- {"b1", "b2"}, Size <- 5,
    pc <- rustPc, i <- rustI, index <- favIndex, used <- rustUsed

Saw == INSTANCE SawArrays WITH
    Lens <- {1, 3}, Top <- 4, Cells <- 1..3,
    a <- sawA, doing <- sawDoing, i <- sawI, j <- sawJ, heap <- points

Tutorial == INSTANCE Cells WITH
    Cell <- Three, Width <- 2,
    mem <- cMem, call <- cCall, ret <- cRet

Loops == INSTANCE ArrayLoops WITH
    Lens <- 0..4, Value <- {0, 1, 2}, MaxInt <- 7, Fill <- 7, Block <- 99,
    a <- array, calls <- sorting

(* Both signs; every case and a few that are none.                         *)
Programs == INSTANCE Challenges WITH
    Ints <- {-2, 0, 1}, Commands <- {0, 1, 4, 8, 16, 20, 24, 255},
    Squares <- {0, 3, 10, 24, 25}, Greatest <- 40

Display == INSTANCE Led WITH
    Numbers <- {0, 3, 10, 47, 98, 1256, 1234567}, MAX_DIGITS <- 32,
    buf <- ledBuf, shown <- printed

(* A reading below the setpoint, on it and above it                        *)
Instrumentation == INSTANCE TripLogic WITH
    Width <- 2, Readings <- 0..2, ch <- channel, val <- readings, mode <- modes

Parts == {"sid", "tailq", "list", "stailq", "ck", "dll", "sll", "bst", "refcount", "oldcount",
          "names", "ownership", "saw", "cells", "loops", "challenges", "led", "trips"}

SafeInit ==
    /\ active = "none"
    /\ Init /\ TqInit /\ Dlist!Init /\ Stailq!Init /\ CkInit /\ DllInit
    /\ Sll!Init /\ Bst!Init /\ RefInit /\ OldCount!Init /\ Names!Init /\ Rust!Init
    /\ Saw!Init /\ Tutorial!Init /\ Loops!Init /\ Programs!Init /\ Display!Init
    /\ Instrumentation!Init

Still(p) ==
    CASE p = "sid" -> UNCHANGED vars
      [] p = "tailq" -> UNCHANGED tqVars
      [] p = "list" -> UNCHANGED listVars
      [] p = "stailq" -> UNCHANGED stailqVars
      [] p = "ck" -> UNCHANGED ckVars
      [] p = "dll" -> UNCHANGED dllVars
      [] p = "sll" -> UNCHANGED sllVars
      [] p = "bst" -> UNCHANGED bstVars
      [] p = "refcount" -> UNCHANGED refVars
      [] p = "oldcount" -> UNCHANGED oldcountVars
      [] p = "names" -> UNCHANGED namesVars
      [] p = "ownership" -> UNCHANGED ownershipVars
      [] p = "saw" -> UNCHANGED sawVars
      [] p = "cells" -> UNCHANGED cellsVars
      [] p = "loops" -> UNCHANGED loopsVars
      [] p = "challenges" -> UNCHANGED challengesVars
      [] p = "led" -> UNCHANGED ledVars
      [] p = "trips" -> UNCHANGED tripsVars

Pick ==
    /\ active = "none" /\ active' \in Parts
    /\ \A p \in Parts : Still(p)

Runs(p) == active = p /\ UNCHANGED active /\ \A q \in Parts \ {p} : Still(q)

SafeNext ==
    \/ Pick
    \/ Runs("sid") /\ Next
    \/ Runs("tailq") /\ TqNext
    \/ Runs("list") /\ Dlist!Next
    \/ Runs("stailq") /\ Stailq!Next
    \/ Runs("ck") /\ CkNext
    \/ Runs("dll") /\ DllNext
    \/ Runs("sll") /\ Sll!Next
    \/ Runs("bst") /\ Bst!Next
    \/ Runs("refcount") /\ RefNext
    \/ Runs("oldcount") /\ OldCount!Next
    \/ Runs("names") /\ Names!Next
    \/ Runs("ownership") /\ Rust!Next
    \/ Runs("saw") /\ Saw!Next
    \/ Runs("cells") /\ Tutorial!Next
    \/ Runs("loops") /\ Loops!Next
    \/ Runs("challenges") /\ Programs!Next
    \/ Runs("led") /\ Display!Next
    \/ Runs("trips") /\ Instrumentation!Next

allVars == <<active, vars, tqVars, listVars, stailqVars, ckVars, dllVars, sllVars, bstVars,
             refVars, oldcountVars, namesVars, ownershipVars, sawVars, cellsVars,
             loopsVars, challengesVars, ledVars, tripsVars>>

SafeSpec == SafeInit /\ [][SafeNext]_allVars

(* No part tells the members of these sets apart.                          *)
Symmetry == Permutations(Three) \cup Permutations(Two)

----------------------------------------------------------------------------
(* The properties of the parts, each stated and explained in its module.   *)
(* While another part runs, or none does, a part is as it began, so TLC    *)
(* need not look: Only leaves a step, In a state, of the idle parts alone. *)
Only(p, step) == active = p => step
In(p, invariant) == active = p => invariant



(* The same of calls as a whole: what they change, and what they must not. *)
(* The list and stailq macros do to the sequences of elements what their   *)
(* names say, and a loop visits every element once, also when its body     *)
(* moves the elements away (QueueSpec); functions on lists and trees do    *)
(* what their contracts say of sequences (SllSpec) and bags of values      *)
(* (Bst); the tracked reference counts with lists implement the later ones *)
(* with trees (Refcount).                                                  *)
CallsAsPromised ==
    /\ OldCount!Later!RefInit
    /\ [][Only("oldcount", OldCount!Later!RefNext)]_<<oldRc, oldMoving>>
    /\ Dlist!Abstract!Init
    /\ [][Only("list", Dlist!Abstract!Next)]_<<Dlist!Content, Dlist!Todo, liCall>>
    /\ Stailq!Abstract!Init
    /\ [][Only("stailq", Stailq!Abstract!Next)]_<<Stailq!Content, Stailq!Todo, stCall>>
    /\ Sll!Abstract!Init
    /\ [][Only("sll", Sll!Abstract!Next)]_<<Sll!AllLists, Sll!Contents(stack.data), lReturned>>
    /\ Bst!BagsOfValues
    /\ Rust!OnlyTheBrokenOne
    /\ Saw!Exchanges /\ Saw!AddsPoints
    /\ Tutorial!ContractsHold /\ Tutorial!OthersLeftAlone
=============================================================================
