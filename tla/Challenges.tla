------------------------------ MODULE Challenges ------------------------------
(* The Java program verification challenges, as their C translations do    *)
(* them.  Each is a file of its own, known by its number; its functions    *)
(* are called one after the other, and its globals stay between calls.     *)
EXTENDS Integers, Sequences

CONSTANTS
    Ints,      \* the values of ints in arguments and arrays
    Commands,  \* of the unsigned char cmd
    Squares,   \* arguments of isqrt
    Greatest   \* bound on what many calls add up to

VARIABLES
    file,      \* the program
    run,       \* the function that runs and where it is
    loc,       \* its locals
    glob       \* b, mode, m, ia and the A object's k and m

vars == <<file, run, loc, glob>>

NoLocals == <<0, 0, 0>>

Init ==
    /\ file = 0
    /\ run = <<"none", "idle">>
    /\ loc = NoLocals
    /\ glob = [result |-> <<>>, b |-> TRUE, ia |-> <<>>, old |-> <<>>, m |-> 20, mode |-> 0,
               k |-> 0, am |-> 0]

Choose(n) == file = 0 /\ file' = n /\ UNCHANGED <<run, loc, glob>>

Idle(n) == file = n /\ UNCHANGED file /\ run = <<"none", "idle">>
Runs(f, pc) == run = <<f, pc>> /\ UNCHANGED file
Goes(f, pc) == run' = <<f, pc>>
Returns == run' = <<"none", "idle">> /\ loc' = NoLocals

(* 00001: an object whose field a is the object itself.                    *)
createC == [a |-> "NULL", i |-> 1]

Aliasing ==
    LET heap == [createC EXCEPT !.a = "c", !.i = 2]
        At(p) == IF p = "c" THEN heap ELSE createC
    IN  /\ Idle(1) /\ glob' = [glob EXCEPT !.result = <<heap.i + At(heap.a).i>>]
        /\ UNCHANGED <<run, loc>>

(* 00002: f toggles b in the middle of the expressions of m.               *)
f(b) == ~b

SideEffects ==
    LET first == f(glob.b)
        second == IF first THEN first ELSE f(first)
        third == f(second)
        fourth == IF ~third THEN f(third) ELSE third
    IN  /\ Idle(2)
        /\ glob' = [glob EXCEPT !.b = fourth, !.result = <<first \/ ~second, ~third /\ fourth>>]
        /\ UNCHANGED <<run, loc>>

(* 00003: the loop of negateFirst, at element loc[1].                      *)
CallNegateFirst(ia) ==
    /\ Idle(3) /\ Goes("negateFirst", "loop") /\ loc' = <<1, 0, 0>>
    /\ glob' = [glob EXCEPT !.ia = ia, !.old = ia]

negateFirst ==
    LET i == loc[1] IN
    /\ Runs("negateFirst", "loop")
    /\ \/ i > Len(glob.ia) /\ Returns /\ UNCHANGED glob
       \/ /\ i <= Len(glob.ia) /\ glob.ia[i] < 0
          /\ glob' = [glob EXCEPT !.ia[i] = -@]
          /\ Returns
       \/ /\ i <= Len(glob.ia) /\ glob.ia[i] >= 0
          /\ loc' = <<i + 1, 0, 0>> /\ UNCHANGED <<run, glob>>

(* 00004: the division comes before m += 10, and rounds towards zero.      *)
Quotient(x, d) == LET abs(v) == IF v < 0 THEN -v ELSE v
                      q == abs(x) \div abs(d)
                  IN  IF (x < 0) = (d < 0) THEN q ELSE -q

returnfinally(d) ==
    /\ Idle(4) /\ glob.m < Greatest
    /\ Goes("returnfinally", "return")
    /\ loc' = <<d, glob.m, IF d = 0 THEN glob.m ELSE Quotient(glob.m, d)>>
    /\ glob' = [glob EXCEPT !.m = @ + 10]

(* 00005: the low three bits select, then the high five.                   *)
select_mode(cmd) ==
    LET cmd1 == cmd % 8
        cmd2 == cmd \div 8
        Set(mode) == glob' = [glob EXCEPT !.mode = mode] /\ loc' = <<cmd, glob.mode, 0>>
    IN  /\ Idle(5) /\ Goes("select_mode", "return")
        /\ \/ cmd1 = 0 /\ cmd2 = 0 /\ Set(1)
           \/ cmd1 = 0 /\ cmd2 = 2 /\ Set(2)
           \/ cmd1 = 4 /\ cmd2 = 0 /\ Set(3)
           \/ cmd1 = 4 /\ cmd2 = 2 /\ Set(4)
           \/ /\ cmd1 \notin {0, 4} \/ cmd2 \notin {0, 2}
              /\ loc' = <<cmd, glob.mode, -1>> /\ UNCHANGED glob

Return == run[2] = "return" /\ UNCHANGED file /\ Returns /\ UNCHANGED glob

(* 00006: increment_k calls decrement_k while k + m is 1.                  *)
decrement_k == glob' = [glob EXCEPT !.k = @ - 1, !.am = @ + 1]

DecrementK == Idle(6) /\ glob.am < Greatest /\ decrement_k /\ UNCHANGED <<run, loc>>

IncrementK ==
    /\ Idle(6) /\ Goes("increment_k", "callback")
    /\ glob' = [glob EXCEPT !.k = @ + 1] /\ UNCHANGED loc

Callback == Runs("increment_k", "callback") /\ Goes("increment_k", "last") /\ decrement_k /\ UNCHANGED loc

IncrementKEnds ==
    Runs("increment_k", "last") /\ Returns /\ glob' = [glob EXCEPT !.am = @ - 1]

(* 00007: the statics are set before anything runs, then initialize copies *)
(* two of them and m all four.                                             *)
StaticInit ==
    LET bl == TRUE
        dl == TRUE
        d2 == TRUE
        initialized == [bl |-> d2, b2 |-> dl]
    IN  /\ Idle(7) /\ glob' = [glob EXCEPT !.result = <<initialized.bl, initialized.b2, dl, d2>>]
        /\ UNCHANGED <<run, loc>>

(* 00008: the objects by their slots for equal; p2 claims to be more.      *)
Object == [pl |-> <<"Point_equal">>, p2 |-> <<"ColorPoint_equal">>,
           cp |-> <<"Point_equal", "ColorPoint_equal">>]
Equal(m) == IF m = "Point_equal" THEN 1 ELSE 2

(* The slot of a ColorPoint read from a Point is past its end: either      *)
(* function may be called.                                                 *)
Point_equal_wrapper(self, other) ==
    /\ Idle(8) /\ UNCHANGED <<run, loc>>
    /\ \E m \in IF Object[self][1] # "ColorPoint_equal" THEN {Object[self][1]}
                ELSE IF Len(Object[self]) = 2 THEN {Object[self][2]}
                ELSE {"Point_equal", "ColorPoint_equal"} :
          glob' = [glob EXCEPT !.result = <<self, Equal(m)>>]

(* 00009: the instance's type selects the m that generic_m calls.  run is  *)
(* the method that runs, loc[1] 1 for an Inheritance and 0 for a C.        *)
Inheritance_test(type) ==
    /\ Idle(9) /\ loc' = <<type, 0, 0>> /\ UNCHANGED glob
    /\ IF type = 1 THEN Goes("C_m", "dispatch") ELSE Goes("EXCEPTION", "return")

CallC == Idle(9) /\ loc' = <<0, 0, 0>> /\ Goes("C_m", "dispatch") /\ UNCHANGED glob

generic_m ==
    /\ Runs("C_m", "dispatch")
    /\ IF loc[1] = 1 THEN Goes("EXCEPTION", "return") ELSE Goes("C_m", "dispatch")
    /\ UNCHANGED <<loc, glob>>

(* 00010: one round of the loop on the unsigned char b, then b++.          *)
CallForever == Idle(10) /\ Goes("m", "loop") /\ loc' = NoLocals /\ UNCHANGED glob

Forever ==
    /\ Runs("m", "loop") /\ UNCHANGED <<run, glob>>
    /\ LET b == IF loc[1] = 255 THEN (-1) % 256 ELSE loc[1]
       IN  loc' = <<(b + 1) % 256, 0, 0>>

(* 00011: loc is count, sum and x.                                         *)
iabs(x) == IF x < 0 THEN -x ELSE x

CallIsqrt(x) == Idle(11) /\ Goes("isqrt", "loop") /\ loc' = <<0, 1, x>> /\ UNCHANGED glob

isqrt ==
    /\ Runs("isqrt", "loop") /\ UNCHANGED glob
    /\ IF loc[2] <= loc[3]
       THEN loc' = <<loc[1] + 1, loc[2] + 2 * (loc[1] + 1) + 1, loc[3]>> /\ UNCHANGED run
       ELSE Goes("isqrt", "return") /\ UNCHANGED loc

Work ==
    \/ negateFirst \/ Return \/ Callback \/ IncrementKEnds
    \/ generic_m \/ Forever \/ isqrt

Next ==
    \/ Work
    \/ \E n \in 1..11 : Choose(n)
    \/ Aliasing \/ SideEffects \/ StaticInit \/ DecrementK \/ IncrementK \/ CallC \/ CallForever
    \/ \E len \in 1..3 : \E ia \in [1..len -> Ints] : CallNegateFirst(ia)
    \/ \E d \in Ints : returnfinally(d)
    \/ \E cmd \in Commands : select_mode(cmd)
    \/ \E self, other \in DOMAIN Object : Point_equal_wrapper(self, other)
    \/ \E type \in {0, 1} : Inheritance_test(type)
    \/ \E x \in Squares : CallIsqrt(x)

Spec == Init /\ [][Next]_vars /\ WF_vars(Work)

----------------------------------------------------------------------------
(* The class invariant k + m = 0 holds whenever no method of A runs, also  *)
(* after calls that broke it on the way; the callback itself is made with  *)
(* the invariant broken, which decrement_k's contract does not allow.      *)
InvariantBetweenCalls ==
    glob.k + glob.am = CASE run = <<"increment_k", "callback">> -> 1
                         [] run = <<"increment_k", "last">> -> 1
                         [] OTHER -> 0

(* What the comments before the functions ensure of their results.         *)
ContractsKept ==
    /\ file = 1 /\ glob.result # <<>> => glob.result = <<4>>
    /\ file = 7 /\ glob.result # <<>> => glob.result = <<TRUE, TRUE, TRUE, TRUE>>
    /\ file = 8 /\ glob.result # <<>> /\ glob.result[1] # "p2" => glob.result[2] = 1
    /\ run = <<"none", "idle">> => \A i \in DOMAIN glob.ia :
          LET negated == glob.old[i] < 0 /\ \A j \in 1..i - 1 : glob.old[j] >= 0
          IN  glob.ia[i] = IF negated THEN -glob.old[i] ELSE glob.old[i]
    /\ run = <<"returnfinally", "return">> =>
          /\ glob.m = loc[2] + 10
          /\ loc[3] = IF loc[1] = 0 THEN loc[2] ELSE Quotient(loc[2], loc[1])
    /\ run = <<"isqrt", "return">> =>
          /\ loc[1] * loc[1] <= loc[3]
          /\ loc[3] < (iabs(loc[1]) + 1) * (iabs(loc[1]) + 1)
    /\ run = <<"select_mode", "return">> =>
          IF loc[1] \in {0, 16, 4, 20}
          THEN loc[3] = 0 /\ <<loc[1], glob.mode>> \in {<<0, 1>>, <<16, 2>>, <<4, 3>>, <<20, 4>>}
          ELSE loc[3] = -1 /\ glob.mode = loc[2]
===============================================================================
