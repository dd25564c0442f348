----------------------------- MODULE TripLogic -----------------------------
(* The instrumentation of a reactor trip system and the vote on it         *)
(* (example-archive/open-sut): four divisions read one quantity each, a    *)
(* division trips by its reading or by its mode, and two of four decide.   *)
EXTENDS Integers, FiniteSets

CONSTANTS
    Width,      \* bits of a reading, 32 in the code
    Readings    \* the words a sensor may give

Division == 0..3
Channel == 0..2   \* the channels 0 and 1 trip above their setpoint, 2 below

VARIABLES ch, setpoint,   \* what the divisions look at
          val, mode,      \* of every division; modes: 0 bypass, 1 operate, 2 trip
          vote            \* of the last round, -1 before it

vars == <<ch, setpoint, val, mode, vote>>

(* The cast of an unsigned word to a signed one.                           *)
Signed(w) == IF w < 2^(Width - 1) THEN w ELSE w - 2^Width

Bit(b) == IF b THEN 1 ELSE 0

Trip(v, s, c) == IF c <= 1 THEN Bit(s < v) ELSE Bit(Signed(v) < Signed(s))

(* One bit for each channel.                                               *)
Generate_Sensor_Trips(vals, setpoints) ==
    Trip(vals[0], setpoints[0], 0) + 2 * Trip(vals[1], setpoints[1], 1)
        + 4 * Trip(vals[2], setpoints[2], 2)

Is_Ch_Tripped(m, sensor_tripped) == m = 2 \/ (m = 1 /\ sensor_tripped # 0)

And(x, y) == x * y
Or(x, y) == x + y - x * y

Coincidence_2_4(trips) ==
    LET v == [d \in Division |-> Bit(trips[d] # 0)]
    IN  Or(Or(And(v[0], v[1]), And(Or(v[0], v[1]), Or(v[2], v[3]))), And(v[2], v[3]))

Init ==
    /\ ch = 0 /\ setpoint = 1
    /\ val = [d \in Division |-> setpoint]
    /\ mode = [d \in Division |-> 1]
    /\ vote = -1

(* The files have the functions and not their caller: a division looks at  *)
(* one bit of the trips, and the vote counts it as tripped by Is_Ch_Tripped. *)
(* The bit of channel c in the word of trips, and so 2^c, not only 1.      *)
SensorBit(c, v) ==
    LET trips == Generate_Sensor_Trips([k \in Channel |-> IF k = c THEN v ELSE setpoint],
                                       [k \in Channel |-> setpoint])
    IN  ((trips \div 2^c) % 2) * 2^c

(* The vote takes any byte but 0 for a trip.                               *)
Division_Trip(c, v, m) == IF Is_Ch_Tripped(m, SensorBit(c, v)) THEN 1 + m ELSE 0

(* A round: all divisions read, in the modes the operators chose.          *)
Round ==
    /\ vote = -1
    /\ ch' \in Channel
    /\ val' \in [Division -> Readings] /\ mode' \in [Division -> 0..2]
    /\ vote' = Coincidence_2_4([d \in Division |-> Division_Trip(ch', val'[d], mode'[d])])
    /\ UNCHANGED setpoint

Again ==
    /\ vote # -1 /\ vote' = -1
    /\ ch' = 0
    /\ val' = [d \in Division |-> setpoint] /\ mode' = [d \in Division |-> 1]
    /\ UNCHANGED setpoint

Next == Round \/ Again

Spec == Init /\ [][Next]_vars

----------------------------------------------------------------------------
OutOfBounds(d) == IF ch <= 1 THEN val[d] > setpoint ELSE val[d] < setpoint

(* ACTUATION_LOGIC_VOTE_TEMPERATURE: the vote is for a trip when two or    *)
(* more divisions are for one, because their mode says so or because they  *)
(* operate and their reading is out of bounds.  "Identified by SAW: vals[2] *)
(* and setpoints[2] must be less than 0x80000000": only such readings are  *)
(* asked for.                                                              *)
TwoOfFour ==
    vote # -1 /\ (\A d \in Division : ch = 2 => val[d] < 2^(Width - 1)) =>
        vote =
            Bit(Cardinality({d \in Division : mode[d] = 2 \/ (mode[d] = 1 /\ OutOfBounds(d))}) >= 2)
=============================================================================
