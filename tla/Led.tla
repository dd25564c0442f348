-------------------------------- MODULE Led --------------------------------
(***************************************************************************)
(* print_led of c-testsuite 00182: a number as a seven-segment display     *)
(* shows it, in three lines of text.  The digits are kept in d, a static   *)
(* array, the least significant one first, and stay there between calls.   *)
(* Numbers have few enough digits for the caller's buffer, which holds 13. *)
(***************************************************************************)
EXTENDS Integers, Sequences

CONSTANTS
    Numbers,     \* numbers to print
    MAX_DIGITS

VARIABLES
    d,      \* the static array
    buf,    \* the three lines: for each digit, which of 3 places are lit
    shown   \* the number printed last

vars == <<d, buf, shown>>

----------------------------------------------------------------------------
(* Which of the characters '_' and '|' are there; the others are blanks.   *)
topline(x) == <<FALSE, x \in {0, 2, 3, 5, 7, 8, 9}, FALSE>>

midline(x) ==
    <<x \in {0, 4, 5, 6, 8, 9}, x \in {2, 3, 4, 5, 6, 8, 9},
      x \in {0, 1, 2, 3, 4, 7, 8, 9}>>

botline(x) ==
    <<x \in {0, 2, 6, 8}, x \in {0, 2, 3, 5, 6, 8}, x \in {0, 1, 3, 4, 5, 6, 7, 8, 9}>>

(* The digits of x, the least significant one first                        *)
digits[x \in Nat] == IF x = 0 THEN <<>> ELSE <<x % 10>> \o digits[x \div 10]

(* 0 "is a digit, hence a special case": it has one digit, which is what   *)
(* the loop before left in d[0].                                           *)
print_led(x) ==
    LET e == digits[x]
        n == IF x = 0 THEN 1 ELSE Len(e)
        Line(segments(_)) == [i \in 1..n |-> segments(d'[n - i])]
    IN  /\ d' = [i \in 0..(MAX_DIGITS - 1) |-> IF i < Len(e) THEN e[i + 1] ELSE d[i]]
        /\ buf' = <<Line(topline), Line(midline), Line(botline)>>

Init ==
    /\ d = [i \in 0..(MAX_DIGITS - 1) |-> 0]
    /\ buf = <<<<>>, <<>>, <<>>>> /\ shown = 0

Next == \E x \in Numbers : print_led(x) /\ shown' = x

Spec == Init /\ [][Next]_vars

----------------------------------------------------------------------------
(* A reader of the three lines can tell which digits they show,            *)
Read(i) == {x \in 0..9 : <<topline(x), midline(x), botline(x)>> = <<buf[1][i], buf[2][i], buf[3][i]>>}

(* and they are those of the number printed, the most significant first.   *)
(* 0 shows the last digit of the number printed before it.                 *)
ShowsTheNumber ==
    LET e == digits[shown] IN
    /\ shown # 0 => /\ Len(buf[1]) = Len(e)
                    /\ \A i \in DOMAIN e : Read(i) = {e[Len(e) + 1 - i]}
    /\ shown = 0 /\ buf[1] # <<>> => Len(buf[1]) = 1 /\ Read(1) = {d[0]}
=============================================================================
