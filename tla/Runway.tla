------------------------------- MODULE Runway -------------------------------
(* The airport of the tutorial (src/src/examples/runway): one runway, used *)
(* for arrivals and for departures, and a function tick that runs once a   *)
(* minute.  Its C functions take a struct State and return the next one;   *)
(* here they are operators on records.  An operator marked "Mutant" is a   *)
(* slip the properties must notice.                                        *)
EXTENDS Integers, TLAPS

CONSTANT MaxWaiting   \* bound: the most planes waiting for one mode

(* What the theorems ask of the bound.                                     *)
WaitingAssumption == MaxWaiting \in Nat

INACTIVE == 0
ACTIVE == 1

VARIABLE s   \* the struct State of the day

(* init *)
initial == [ModeA |-> INACTIVE, ModeD |-> INACTIVE, W_A |-> 0, W_D |-> 0,
            Runway_Time |-> 0, Plane_Counter |-> 0]

increment_Plane_Counter(t) == [t EXCEPT !.Plane_Counter = @ + 1]
reset_Plane_Counter(t) == [t EXCEPT !.Plane_Counter = 0]
increment_Runway_Time(t) == [t EXCEPT !.Runway_Time = @ + 1]
reset_Runway_Time(t) == [t EXCEPT !.Runway_Time = 0]

arrive(t) ==
    LET u == [t EXCEPT !.W_A = @ - 1]
    IN  IF t.W_D > 0 THEN increment_Plane_Counter(u) ELSE u

depart(t) ==
    LET u == [t EXCEPT !.W_D = @ - 1]
    IN  IF t.W_A > 0 THEN increment_Plane_Counter(u) ELSE u

Opposite(mode) == IF mode = INACTIVE THEN ACTIVE ELSE INACTIVE

switch_modes(t) == [t EXCEPT !.ModeA = Opposite(t.ModeA), !.ModeD = Opposite(t.ModeD)]

(* The plane that starts to arrive, or to depart, takes the runway.        *)
Arrival(t) == increment_Runway_Time(arrive(t))
Departure(t) == increment_Runway_Time(depart(t))

Switched(t) == switch_modes(reset_Plane_Counter(t))

Free(t) == t.Runway_Time = 0
MayArrive(t) == t.ModeA = ACTIVE /\ t.W_A > 0 /\ t.Plane_Counter < 3
MayDepart(t) == t.ModeD = ACTIVE /\ t.W_D > 0 /\ t.Plane_Counter < 3
Stuck(t) == Free(t) /\ ~MayArrive(t) /\ ~MayDepart(t)

Init == s = initial

----------------------------------------------------------------------------
(* Mutant: six minutes on the runway.                                        *)
Occupied_Six ==
    /\ ~Free(s)
    /\ s' = IF s.Runway_Time = 6 THEN reset_Runway_Time(s) ELSE increment_Runway_Time(s)

(* The branches of tick, one minute each.                                  *)
Occupied ==
    /\ ~Free(s)
    /\ s' = IF s.Runway_Time = 5 THEN reset_Runway_Time(s) ELSE increment_Runway_Time(s)

NextArrival == Free(s) /\ MayArrive(s) /\ s' = Arrival(s)

NextDeparture == Free(s) /\ MayDepart(s) /\ s' = Departure(s)

(* Mutant: arrivals that wait keep the mode when their three are through.  *)
ToDepartures_Never ==
    /\ Stuck(s)
    /\ s.ModeA = ACTIVE /\ s.W_A = 0
    /\ s' = IF s.W_D > 0 THEN Departure(Switched(s)) ELSE Switched(s)

ToDepartures ==
    /\ Stuck(s)
    /\ s.ModeA = ACTIVE
    /\ s' = IF s.W_D > 0 THEN Departure(Switched(s)) ELSE Switched(s)

ToArrivals ==
    /\ Stuck(s)
    /\ s.ModeA # ACTIVE /\ s.ModeD = ACTIVE
    /\ s' = IF s.W_A > 0 THEN Arrival(Switched(s)) ELSE Switched(s)

(* The beginning of the day: arrivals first, and arrival mode if nobody    *)
(* waits.                                                                  *)
FirstOfDay ==
    /\ Stuck(s)
    /\ s.ModeA # ACTIVE /\ s.ModeD # ACTIVE
    /\ \/ s.W_A > 0 /\ s' = Arrival([s EXCEPT !.ModeA = ACTIVE])
       \/ s.W_A = 0 /\ s.W_D > 0 /\ s' = Departure([s EXCEPT !.ModeD = ACTIVE])
       \/ s.W_A = 0 /\ s.W_D = 0 /\ s' = [s EXCEPT !.ModeA = ACTIVE]

tick ==
    \/ Occupied \/ NextArrival \/ NextDeparture
    \/ ToDepartures \/ ToArrivals \/ FirstOfDay

(* Planes get ready at any time, several in a minute; the code that counts *)
(* them up is the caller's.                                                *)
ReadyToArrive == s.W_A < MaxWaiting /\ s' = [s EXCEPT !.W_A = @ + 1]
ReadyToDepart == s.W_D < MaxWaiting /\ s' = [s EXCEPT !.W_D = @ + 1]

Next == tick \/ ReadyToArrive \/ ReadyToDepart

Spec == Init /\ [][Next]_s

(* Minutes keep passing.                                                   *)
FairSpec == Spec /\ WF_s(tick)

----------------------------------------------------------------------------
(* The fields of the state have the values of valid_state's first lines.   *)
TypeOK ==
    s \in [ModeA : {INACTIVE, ACTIVE}, ModeD : {INACTIVE, ACTIVE},
           W_A : 0..MaxWaiting, W_D : 0..MaxWaiting,
           Runway_Time : 0..5, Plane_Counter : 0..3]

(* valid_state, the contract of every function: never both modes, no plane *)
(* on the runway in no mode, and planes are only counted against planes    *)
(* that wait for the other mode.                                           *)
valid_state ==
    /\ TypeOK
    /\ s.ModeA = INACTIVE \/ s.ModeD = INACTIVE
    /\ s.ModeA = INACTIVE /\ s.ModeD = INACTIVE => s.Plane_Counter = 0
    /\ s.Runway_Time > 0 => s.ModeA = ACTIVE \/ s.ModeD = ACTIVE
    /\ s.Plane_Counter > 0 /\ s.ModeA = ACTIVE => s.W_D > 0
    /\ s.Plane_Counter > 0 /\ s.ModeD = ACTIVE => s.W_A > 0

(* One plane at a time (tutorial.adoc 1679-1691): a plane stops waiting    *)
(* only by taking a free runway in its own mode, no two at once, and no    *)
(* mode changes while the runway is taken.                                 *)
OneAtATime ==
    [][/\ s'.W_A < s.W_A => /\ s'.W_A = s.W_A - 1 /\ s'.W_D = s.W_D
                            /\ s.Runway_Time = 0 /\ s'.Runway_Time = 1
                            /\ s'.ModeA = ACTIVE
       /\ s'.W_D < s.W_D => /\ s'.W_D = s.W_D - 1 /\ s'.W_A = s.W_A
                            /\ s.Runway_Time = 0 /\ s'.Runway_Time = 1
                            /\ s'.ModeD = ACTIVE
       /\ s.Runway_Time > 0 => s'.ModeA = s.ModeA /\ s'.ModeD = s.ModeD]_s

(* Nobody waits forever: whoever waits to arrive, or to depart, sees a     *)
(* plane of its kind take the runway.                                      *)
Served ==
    /\ s.W_A > 0 ~> s.ModeA = ACTIVE /\ s.Runway_Time = 1
    /\ s.W_D > 0 ~> s.ModeD = ACTIVE /\ s.Runway_Time = 1

----------------------------------------------------------------------------
(* The airport with a clock: for each kind of plane, how many minutes and  *)
(* how many planes of the other kind it has seen go by since somebody      *)
(* waits for it in an inactive mode.  The program keeps no such record; it *)
(* is what the rules of the airport (tutorial.adoc 1696-1711) are about.   *)
Kind == {"A", "D"}

VARIABLES minutes,   \* of waiting for an inactive mode, per kind
          planes     \* of the other kind that took the runway meanwhile

clockVars == <<s, minutes, planes>>

Kept(t, k) ==
    IF k = "A" THEN t.W_A > 0 /\ t.ModeA = INACTIVE
               ELSE t.W_D > 0 /\ t.ModeD = INACTIVE

Others(t, k) == IF k = "A" THEN t.W_D ELSE t.W_A

ClockInit ==
    /\ Init
    /\ minutes = [k \in Kind |-> 0]
    /\ planes = [k \in Kind |-> 0]

StillKept(k) == Kept(s, k) /\ Kept(s', k)

TimedTick ==
    /\ tick
    /\ minutes' = [k \in Kind |-> IF StillKept(k) THEN minutes[k] + 1 ELSE 0]
    /\ planes' = [k \in Kind |-> IF StillKept(k) THEN planes[k] + Others(s, k) - Others(s', k)
                                                 ELSE 0]

TimedReady == (ReadyToArrive \/ ReadyToDepart) /\ UNCHANGED <<minutes, planes>>

ClockNext == TimedTick \/ TimedReady

ClockSpec == ClockInit /\ [][ClockNext]_clockVars

----------------------------------------------------------------------------
(* The 3-plane limit (tutorial.adoc 1702-1708): while a plane waits for an *)
(* inactive mode, at most 3 planes of the other kind take the runway, no   *)
(* matter when it started to wait.                                         *)
ThreePlanes == \A k \in Kind : planes[k] <= 3

(* The wait for an inactive mode ends with the 24th minute: 5 for a plane  *)
(* that has just taken the runway, 6 for each of 3 more, and the one that  *)
(* switches the modes.                                                     *)
SwitchInTime == \A k \in Kind : Kept(s, k) => minutes[k] < 24

(* The 15 minutes of tutorial.adoc 1709-1711, "5 minutes for each of 3     *)
(* planes"; in the code a plane keeps the runway from others for 6 ticks.  *)
SwitchIn15 == \A k \in Kind : Kept(s, k) => minutes[k] < 15

(* Why: the minutes left are bounded by the planes not yet counted.        *)
Left(t) ==
    (IF t.Runway_Time > 0 THEN 6 - t.Runway_Time ELSE 0) + 6 * (3 - t.Plane_Counter) + 1

ClockInv ==
    /\ valid_state
    /\ minutes \in [Kind -> Nat]
    /\ planes \in [Kind -> Nat]
    /\ \A k \in Kind : planes[k] <= s.Plane_Counter
    /\ \A k \in Kind : ~Kept(s, k) => minutes[k] = 0
    /\ \A k \in Kind : Kept(s, k) => minutes[k] + Left(s) <= 24

----------------------------------------------------------------------------
(* Proofs, for any number of waiting planes.                               *)

State == [ModeA : {INACTIVE, ACTIVE}, ModeD : {INACTIVE, ACTIVE}, W_A : Int, W_D : Int,
          Runway_Time : Int, Plane_Counter : Int]

(* The state with these fields.                                            *)
Of(a, d, wa, wd, rt, pc) ==
    [ModeA |-> a, ModeD |-> d, W_A |-> wa, W_D |-> wd,
     Runway_Time |-> rt, Plane_Counter |-> pc]

----------------------------------------------------------------------------
(* What the functions return, field by field.                              *)

(* A plane starts to arrive.                                               *)
LEMMA ArrivalIs ==
    ASSUME NEW t \in State
    PROVE  Arrival(t) = Of(t.ModeA, t.ModeD, t.W_A - 1, t.W_D, t.Runway_Time + 1,
                           IF t.W_D > 0 THEN t.Plane_Counter + 1 ELSE t.Plane_Counter)
  <1>. DEFINE u == [t EXCEPT !.W_A = @ - 1]
  <1>1. u = Of(t.ModeA, t.ModeD, t.W_A - 1, t.W_D, t.Runway_Time, t.Plane_Counter)
    BY DEF State, Of
  <1>2. arrive(t) = IF t.W_D > 0 THEN increment_Plane_Counter(u) ELSE u
    BY DEF arrive
  <1>. HIDE DEF u
  <1>3. increment_Plane_Counter(u) =
          Of(t.ModeA, t.ModeD, t.W_A - 1, t.W_D, t.Runway_Time, t.Plane_Counter + 1)
    BY <1>1 DEF increment_Plane_Counter, Of
  <1>4. arrive(t) = Of(t.ModeA, t.ModeD, t.W_A - 1, t.W_D, t.Runway_Time,
                       IF t.W_D > 0 THEN t.Plane_Counter + 1 ELSE t.Plane_Counter)
    BY <1>1, <1>2, <1>3
  <1>. QED BY <1>4 DEF Arrival, increment_Runway_Time, Of

(* A plane starts to depart.                                               *)
LEMMA DepartureIs ==
    ASSUME NEW t \in State
    PROVE  Departure(t) = Of(t.ModeA, t.ModeD, t.W_A, t.W_D - 1, t.Runway_Time + 1,
                             IF t.W_A > 0 THEN t.Plane_Counter + 1 ELSE t.Plane_Counter)
  <1>. DEFINE u == [t EXCEPT !.W_D = @ - 1]
  <1>1. u = Of(t.ModeA, t.ModeD, t.W_A, t.W_D - 1, t.Runway_Time, t.Plane_Counter)
    BY DEF State, Of
  <1>2. depart(t) = IF t.W_A > 0 THEN increment_Plane_Counter(u) ELSE u
    BY DEF depart
  <1>. HIDE DEF u
  <1>3. increment_Plane_Counter(u) =
          Of(t.ModeA, t.ModeD, t.W_A, t.W_D - 1, t.Runway_Time, t.Plane_Counter + 1)
    BY <1>1 DEF increment_Plane_Counter, Of
  <1>4. depart(t) = Of(t.ModeA, t.ModeD, t.W_A, t.W_D - 1, t.Runway_Time,
                       IF t.W_A > 0 THEN t.Plane_Counter + 1 ELSE t.Plane_Counter)
    BY <1>1, <1>2, <1>3
  <1>. QED BY <1>4 DEF Departure, increment_Runway_Time, Of

(* The modes are exchanged and the count starts anew.                      *)
LEMMA SwitchedIs ==
    ASSUME NEW t \in State
    PROVE  Switched(t) = Of(Opposite(t.ModeA), Opposite(t.ModeD), t.W_A, t.W_D,
                            t.Runway_Time, 0)
  <1>. DEFINE u == reset_Plane_Counter(t)
  <1>1. u = Of(t.ModeA, t.ModeD, t.W_A, t.W_D, t.Runway_Time, 0)
    BY DEF State, Of, reset_Plane_Counter
  <1>2. Switched(t) = switch_modes(u)
    BY DEF Switched
  <1>. HIDE DEF u
  <1>. QED BY <1>1, <1>2 DEF switch_modes, Of

(* Such a record is a state.                                               *)
LEMMA OfIsState ==
    ASSUME NEW a \in {INACTIVE, ACTIVE}, NEW d \in {INACTIVE, ACTIVE},
           NEW wa \in Int, NEW wd \in Int, NEW rt \in Int, NEW pc \in Int
    PROVE  /\ Of(a, d, wa, wd, rt, pc) \in State
           /\ Of(a, d, wa, wd, rt, pc).ModeA = a
           /\ Of(a, d, wa, wd, rt, pc).ModeD = d
           /\ Of(a, d, wa, wd, rt, pc).W_A = wa
           /\ Of(a, d, wa, wd, rt, pc).W_D = wd
           /\ Of(a, d, wa, wd, rt, pc).Runway_Time = rt
           /\ Of(a, d, wa, wd, rt, pc).Plane_Counter = pc
  BY DEF State, Of

(* The fields of s after each branch of tick.                              *)
LEMMA TickIs ==
    ASSUME s \in State, tick
    PROVE  /\ s' \in State
           /\ \/ /\ s.Runway_Time # 0
                 /\ s' = Of(s.ModeA, s.ModeD, s.W_A, s.W_D,
                            IF s.Runway_Time = 5 THEN 0 ELSE s.Runway_Time + 1,
                            s.Plane_Counter)
              \/ /\ s.Runway_Time = 0 /\ s.ModeA = ACTIVE /\ s.W_A > 0 /\ s.Plane_Counter < 3
                 /\ s' = Of(s.ModeA, s.ModeD, s.W_A - 1, s.W_D, 1,
                            IF s.W_D > 0 THEN s.Plane_Counter + 1 ELSE s.Plane_Counter)
              \/ /\ s.Runway_Time = 0 /\ s.ModeD = ACTIVE /\ s.W_D > 0 /\ s.Plane_Counter < 3
                 /\ s' = Of(s.ModeA, s.ModeD, s.W_A, s.W_D - 1, 1,
                            IF s.W_A > 0 THEN s.Plane_Counter + 1 ELSE s.Plane_Counter)
              \/ /\ s.Runway_Time = 0 /\ s.ModeA = ACTIVE
                 /\ s.W_A > 0 => s.Plane_Counter >= 3
                 /\ s' = Of(INACTIVE, Opposite(s.ModeD), s.W_A,
                            IF s.W_D > 0 THEN s.W_D - 1 ELSE s.W_D,
                            IF s.W_D > 0 THEN 1 ELSE 0,
                            IF s.W_D > 0 /\ s.W_A > 0 THEN 1 ELSE 0)
              \/ /\ s.Runway_Time = 0 /\ s.ModeA = INACTIVE /\ s.ModeD = ACTIVE
                 /\ s.W_D > 0 => s.Plane_Counter >= 3
                 /\ s' = Of(ACTIVE, INACTIVE, IF s.W_A > 0 THEN s.W_A - 1 ELSE s.W_A,
                            s.W_D, IF s.W_A > 0 THEN 1 ELSE 0,
                            IF s.W_A > 0 /\ s.W_D > 0 THEN 1 ELSE 0)
              \/ /\ s.Runway_Time = 0 /\ s.ModeA = INACTIVE /\ s.ModeD = INACTIVE
                 /\ \/ /\ s.W_A > 0
                       /\ s' = Of(ACTIVE, INACTIVE, s.W_A - 1, s.W_D, 1,
                                  IF s.W_D > 0 THEN s.Plane_Counter + 1
                                               ELSE s.Plane_Counter)
                    \/ /\ s.W_A = 0 /\ s.W_D > 0
                       /\ s' = Of(INACTIVE, ACTIVE, s.W_A, s.W_D - 1, 1, s.Plane_Counter)
                    \/ /\ s.W_A = 0 /\ s.W_D = 0
                       /\ s' = Of(ACTIVE, INACTIVE, s.W_A, s.W_D, 0, s.Plane_Counter)
  <1>. USE DEF Free, MayArrive, MayDepart, Stuck
  <1>0. /\ s.ModeA \in {INACTIVE, ACTIVE} /\ s.ModeD \in {INACTIVE, ACTIVE}
        /\ s.W_A \in Int /\ s.W_D \in Int /\ s.Runway_Time \in Int
        /\ s.Plane_Counter \in Int
        /\ INACTIVE = 0 /\ ACTIVE = 1
        /\ Opposite(INACTIVE) = ACTIVE /\ Opposite(ACTIVE) = INACTIVE
    BY DEF State, Opposite, INACTIVE, ACTIVE
  <1>1. CASE Occupied
    BY <1>1, <1>0 DEF Occupied, reset_Runway_Time, increment_Runway_Time, State, Of
  <1>2. CASE NextArrival
    <2>1. s' = Of(s.ModeA, s.ModeD, s.W_A - 1, s.W_D, 0 + 1,
                  IF s.W_D > 0 THEN s.Plane_Counter + 1 ELSE s.Plane_Counter)
      BY <1>2, ArrivalIs DEF NextArrival
    <2>2. s' \in State
      BY <2>1, <1>0 DEF State, Of
    <2>3. Free(s) /\ MayArrive(s)
      BY <1>2 DEF NextArrival
    <2>. QED BY <2>1, <2>2, <2>3, <1>0
  <1>3. CASE NextDeparture
    <2>1. s' = Of(s.ModeA, s.ModeD, s.W_A, s.W_D - 1, 0 + 1,
                  IF s.W_A > 0 THEN s.Plane_Counter + 1 ELSE s.Plane_Counter)
      BY <1>3, DepartureIs DEF NextDeparture
    <2>2. s' \in State
      BY <2>1, <1>0 DEF State, Of
    <2>3. Free(s) /\ MayDepart(s)
      BY <1>3 DEF NextDeparture
    <2>. QED BY <2>1, <2>2, <2>3, <1>0
  <1>4. CASE ToDepartures
    <2>. DEFINE u == Switched(s)
    <2>6. u = Of(INACTIVE, Opposite(s.ModeD), s.W_A, s.W_D, 0, 0)
      BY <1>4, <1>0, SwitchedIs DEF ToDepartures
    <2>1. /\ u \in State
          /\ u.ModeA = INACTIVE /\ u.ModeD = Opposite(s.ModeD)
          /\ u.W_A = s.W_A /\ u.W_D = s.W_D /\ u.Runway_Time = 0 /\ u.Plane_Counter = 0
      BY <2>6, <1>0 DEF State, Of
    <2>2. Departure(u) = Of(INACTIVE, Opposite(s.ModeD), s.W_A, s.W_D - 1, 1,
                            IF s.W_A > 0 THEN 1 ELSE 0)
      BY <2>1, DepartureIs
    <2>. HIDE DEF u
    <2>3. s' = IF s.W_D > 0 THEN Departure(u) ELSE u
      BY <1>4 DEF ToDepartures, u
    <2>0. Free(s) /\ s.ModeA = ACTIVE /\ (s.W_A > 0 => s.Plane_Counter >= 3)
      BY <1>4, <1>0 DEF ToDepartures
    <2>4. CASE s.W_D > 0
      <3>1. s' = Of(INACTIVE, Opposite(s.ModeD), s.W_A, s.W_D - 1, 1, IF s.W_A > 0 THEN 1 ELSE 0)
        BY <2>2, <2>3, <2>4
      <3>2. s' \in State
        BY <3>1, <1>0 DEF State, Of
      <3>. QED BY <3>1, <3>2, <2>4, <1>0, <2>0
    <2>5. CASE ~(s.W_D > 0)
      <3>1. s' = Of(INACTIVE, Opposite(s.ModeD), s.W_A, s.W_D, 0, 0)
        BY <2>6, <2>3, <2>5
      <3>2. s' \in State
        BY <3>1, <1>0 DEF State, Of
      <3>. QED BY <3>1, <3>2, <2>5, <1>0, <2>0
    <2>. QED BY <2>4, <2>5
  <1>5. CASE ToArrivals
    <2>. DEFINE u == Switched(s)
    <2>6. u = Of(ACTIVE, INACTIVE, s.W_A, s.W_D, 0, 0)
      BY <1>5, <1>0, SwitchedIs DEF ToArrivals
    <2>1. /\ u \in State
          /\ u.ModeA = ACTIVE /\ u.ModeD = INACTIVE
          /\ u.W_A = s.W_A /\ u.W_D = s.W_D /\ u.Runway_Time = 0 /\ u.Plane_Counter = 0
      BY <2>6, <1>0 DEF State, Of
    <2>2. Arrival(u) = Of(ACTIVE, INACTIVE, s.W_A - 1, s.W_D, 1,
                          IF s.W_D > 0 THEN 1 ELSE 0)
      BY <2>1, ArrivalIs
    <2>. HIDE DEF u
    <2>3. s' = IF s.W_A > 0 THEN Arrival(u) ELSE u
      BY <1>5 DEF ToArrivals, u
    <2>0. /\ Free(s) /\ s.ModeA = INACTIVE /\ s.ModeD = ACTIVE
          /\ s.W_D > 0 => s.Plane_Counter >= 3
      BY <1>5, <1>0 DEF ToArrivals
    <2>4. CASE s.W_A > 0
      <3>1. s' = Of(ACTIVE, INACTIVE, s.W_A - 1, s.W_D, 1, IF s.W_D > 0 THEN 1 ELSE 0)
        BY <2>2, <2>3, <2>4
      <3>2. s' \in State
        BY <3>1, <1>0 DEF State, Of
      <3>. QED BY <3>1, <3>2, <2>4, <1>0, <2>0
    <2>5. CASE ~(s.W_A > 0)
      <3>1. s' = Of(ACTIVE, INACTIVE, s.W_A, s.W_D, 0, 0)
        BY <2>6, <2>3, <2>5
      <3>2. s' \in State
        BY <3>1, <1>0 DEF State, Of
      <3>. QED BY <3>1, <3>2, <2>5, <1>0, <2>0
    <2>. QED BY <2>4, <2>5
  <1>6. CASE FirstOfDay
    <2>. DEFINE u == [s EXCEPT !.ModeA = ACTIVE]
                v == [s EXCEPT !.ModeD = ACTIVE]
    <2>1. /\ s.Runway_Time = 0 /\ s.ModeA = INACTIVE /\ s.ModeD = INACTIVE
      BY <1>6, <1>0 DEF FirstOfDay
    <2>2. u = Of(ACTIVE, INACTIVE, s.W_A, s.W_D, 0, s.Plane_Counter)
      BY <2>1 DEF State, Of
    <2>3. v = Of(INACTIVE, ACTIVE, s.W_A, s.W_D, 0, s.Plane_Counter)
      BY <2>1 DEF State, Of
    <2>4. \/ s.W_A > 0 /\ s' = Arrival(u)
          \/ s.W_A = 0 /\ s.W_D > 0 /\ s' = Departure(v)
          \/ s.W_A = 0 /\ s.W_D = 0 /\ s' = u
      BY <1>6 DEF FirstOfDay
    <2>. HIDE DEF u, v
    <2>5. /\ u \in State /\ u.ModeA = ACTIVE /\ u.ModeD = INACTIVE /\ u.W_A = s.W_A
          /\ u.W_D = s.W_D /\ u.Runway_Time = 0 /\ u.Plane_Counter = s.Plane_Counter
      BY <2>2, <1>0 DEF State, Of
    <2>6. /\ v \in State /\ v.ModeA = INACTIVE /\ v.ModeD = ACTIVE /\ v.W_A = s.W_A
          /\ v.W_D = s.W_D /\ v.Runway_Time = 0 /\ v.Plane_Counter = s.Plane_Counter
      BY <2>3, <1>0 DEF State, Of
    <2>7. Arrival(u) = Of(ACTIVE, INACTIVE, s.W_A - 1, s.W_D, 0 + 1,
                          IF s.W_D > 0 THEN s.Plane_Counter + 1 ELSE s.Plane_Counter)
      BY <2>5, ArrivalIs
    <2>8. Departure(v) = Of(INACTIVE, ACTIVE, s.W_A, s.W_D - 1, 0 + 1,
                            IF s.W_A > 0 THEN s.Plane_Counter + 1 ELSE s.Plane_Counter)
      BY <2>6, DepartureIs
    <2>9. CASE s.W_A > 0 /\ s' = Arrival(u)
      <3>1. s' = Of(ACTIVE, INACTIVE, s.W_A - 1, s.W_D, 1,
                    IF s.W_D > 0 THEN s.Plane_Counter + 1 ELSE s.Plane_Counter)
        BY <2>7, <2>9
      <3>2. s' \in State
        BY <3>1, <1>0 DEF State, Of
      <3>. QED BY <3>1, <3>2, <2>9, <1>0, <2>1
    <2>10. CASE s.W_A = 0 /\ s.W_D > 0 /\ s' = Departure(v)
      <3>1. s' = Of(INACTIVE, ACTIVE, s.W_A, s.W_D - 1, 1, s.Plane_Counter)
        BY <2>8, <2>10
      <3>2. s' \in State
        BY <3>1, <1>0 DEF State, Of
      <3>. QED BY <3>1, <3>2, <2>10, <1>0, <2>1
    <2>11. CASE s.W_A = 0 /\ s.W_D = 0 /\ s' = u
      <3>1. s' = Of(ACTIVE, INACTIVE, s.W_A, s.W_D, 0, s.Plane_Counter)
        BY <2>2, <2>11
      <3>2. s' \in State
        BY <3>1, <1>0 DEF State, Of
      <3>. QED BY <3>1, <3>2, <2>11, <1>0, <2>1
    <2>. QED BY <2>4, <2>9, <2>10, <2>11
  <1>. QED BY <1>1, <1>2, <1>3, <1>4, <1>5, <1>6 DEF tick

----------------------------------------------------------------------------
(* The contract of valid_state.h.                                          *)

(* A valid state has the fields of a state.                                *)
LEMMA ValidIsState == ASSUME WaitingAssumption, valid_state PROVE s \in State
  BY DEF WaitingAssumption, valid_state, TypeOK, State

(* Each branch of tick keeps the state valid.                              *)
LEMMA TickValid == ASSUME WaitingAssumption, valid_state, tick PROVE valid_state'
  <1>1. s \in State
    BY ValidIsState
  <1>. QED BY <1>1, TickIs
           DEF WaitingAssumption, valid_state, TypeOK, Of, Opposite, INACTIVE, ACTIVE

(* So does a plane that gets ready.                                        *)
LEMMA ReadyValid ==
    ASSUME WaitingAssumption, valid_state, ReadyToArrive \/ ReadyToDepart
    PROVE  valid_state'
  BY DEF WaitingAssumption, valid_state, TypeOK, ReadyToArrive, ReadyToDepart, INACTIVE, ACTIVE

(* The day starts in a valid state.                                        *)
LEMMA InitValid == ASSUME WaitingAssumption, Init PROVE valid_state
  BY DEF WaitingAssumption, Init, initial, valid_state, TypeOK, INACTIVE, ACTIVE

(* Every state the functions of the airport return is valid: the contract  *)
(* of valid_state.h holds of the whole day, not only of each function.     *)
THEOREM AlwaysValid == ASSUME WaitingAssumption PROVE Spec => []valid_state
  <1>1. valid_state /\ [Next]_s => valid_state'
    BY TickValid, ReadyValid DEF Next, valid_state, TypeOK
  <1>. QED BY InitValid, <1>1, PTL DEF Spec

(* A plane leaves the queue only onto a free runway, alone, in its mode.   *)
THEOREM AlwaysOneAtATime == ASSUME WaitingAssumption PROVE Spec => OneAtATime
  <1>. DEFINE Alone ==
         /\ s'.W_A < s.W_A => /\ s'.W_A = s.W_A - 1 /\ s'.W_D = s.W_D
                              /\ s.Runway_Time = 0 /\ s'.Runway_Time = 1
                              /\ s'.ModeA = ACTIVE
         /\ s'.W_D < s.W_D => /\ s'.W_D = s.W_D - 1 /\ s'.W_A = s.W_A
                              /\ s.Runway_Time = 0 /\ s'.Runway_Time = 1
                              /\ s'.ModeD = ACTIVE
         /\ s.Runway_Time > 0 => s'.ModeA = s.ModeA /\ s'.ModeD = s.ModeD
  <1>1. valid_state /\ [Next]_s => [Alone]_s
    <2>. SUFFICES ASSUME valid_state, Next PROVE Alone
      OBVIOUS
    <2>0. s \in State
      BY ValidIsState
    <2>1. CASE tick
      BY <2>0, <2>1, TickIs DEF valid_state, TypeOK, State, Of, Opposite, INACTIVE, ACTIVE
    <2>2. CASE ReadyToArrive \/ ReadyToDepart
      BY <2>0, <2>2 DEF State, ReadyToArrive, ReadyToDepart
    <2>. QED BY <2>1, <2>2 DEF Next
  <1>. QED BY AlwaysValid, <1>1, PTL DEF Spec, OneAtATime

----------------------------------------------------------------------------
(* The waits.                                                              *)

(* A waiting time that has not begun is within the bounds.                 *)
LEMMA LeftBounded == ASSUME WaitingAssumption, valid_state PROVE Left(s) \in 1..24
  BY DEF valid_state, TypeOK, Left

(* A minute that a plane still waits is a minute less to wait, and counts  *)
(* the plane that overtakes it.                                            *)
LEMMA MinuteLess ==
    ASSUME WaitingAssumption, valid_state, tick, NEW k \in Kind, StillKept(k)
    PROVE  /\ Left(s') + 1 <= Left(s)
           /\ Others(s, k) - Others(s', k) \in Nat
           /\ s'.Plane_Counter = s.Plane_Counter + (Others(s, k) - Others(s', k))
  <1>1. s \in State
    BY ValidIsState
  <1>0. /\ s.Runway_Time \in 0..5 /\ s.Plane_Counter \in 0..3
        /\ s.ModeA = 0 \/ s.ModeD = 0
        /\ s.ModeA = 0 /\ s.ModeD = 0 => s.Runway_Time = 0 /\ s.Plane_Counter = 0
    BY DEF valid_state, TypeOK, INACTIVE, ACTIVE
  <1>2. CASE k = "A"
    <2>1. /\ s.W_A > 0 /\ s.ModeA = 0 /\ s'.W_A > 0 /\ s'.ModeA = 0
      BY <1>2 DEF StillKept, Kept, INACTIVE
    <2>2. Others(s, k) = s.W_D /\ Others(s', k) = s'.W_D
      BY <1>2 DEF Others
    <2>. QED BY <1>0, <1>1, <2>1, <2>2, TickIs
             DEF State, Of, Opposite, Left, INACTIVE, ACTIVE
  <1>3. CASE k = "D"
    <2>1. /\ s.W_D > 0 /\ s.ModeD = 0 /\ s'.W_D > 0 /\ s'.ModeD = 0
      BY <1>3 DEF StillKept, Kept, INACTIVE
    <2>2. Others(s, k) = s.W_A /\ Others(s', k) = s'.W_A
      BY <1>3 DEF Others
    <2>. QED BY <1>0, <1>1, <2>1, <2>2, TickIs
             DEF State, Of, Opposite, Left, INACTIVE, ACTIVE
  <1>. QED BY <1>2, <1>3 DEF Kind

(* One step keeps the bounds on the waits.                                 *)
LEMMA ClockStep ==
    ASSUME WaitingAssumption, ClockInv, [ClockNext]_clockVars
    PROVE  ClockInv'
  <1>1. CASE UNCHANGED clockVars
    BY <1>1 DEF ClockInv, clockVars, valid_state, TypeOK, Kept, Left
  <1>2. CASE TimedTick
    <2>1. valid_state /\ tick /\ valid_state'
      BY <1>2, TickValid DEF ClockInv, TimedTick
    <2>2. s'.Plane_Counter \in Nat
      BY <2>1 DEF valid_state, TypeOK
    <2>3. ASSUME NEW k \in Kind
          PROVE  /\ minutes'[k] \in Nat /\ planes'[k] \in Nat
                 /\ planes'[k] <= s'.Plane_Counter
                 /\ ~Kept(s', k) => minutes'[k] = 0
                 /\ Kept(s', k) => minutes'[k] + Left(s') <= 24
      <3>1. Left(s') \in 1..24 /\ Left(s) \in 1..24
        BY <2>1, LeftBounded DEF valid_state, TypeOK, Left
      <3>2. CASE StillKept(k)
        <4>1. minutes'[k] = minutes[k] + 1
              /\ planes'[k] = planes[k] + (Others(s, k) - Others(s', k))
          <5>1. planes'[k] = planes[k] + Others(s, k) - Others(s', k)
            BY <1>2, <3>2 DEF TimedTick
          <5>2. planes[k] \in Int /\ Others(s, k) \in Int /\ Others(s', k) \in Int
            BY <2>1 DEF ClockInv, Others, valid_state, TypeOK
          <5>. QED BY <1>2, <3>2, <5>1, <5>2 DEF TimedTick
        <4>2. /\ Left(s') + 1 <= Left(s)
              /\ Others(s, k) - Others(s', k) \in Nat
              /\ s'.Plane_Counter = s.Plane_Counter + (Others(s, k) - Others(s', k))
          BY <2>1, <3>2, MinuteLess
        <4>3. /\ minutes[k] \in Nat /\ planes[k] \in Nat /\ planes[k] <= s.Plane_Counter
              /\ minutes[k] + Left(s) <= 24 /\ s.Plane_Counter \in Nat /\ Kept(s', k)
          BY <3>2 DEF ClockInv, StillKept, valid_state, TypeOK
        <4>. QED BY <3>1, <4>1, <4>2, <4>3
      <3>3. CASE ~StillKept(k)
        <4>1. minutes'[k] = 0 /\ planes'[k] = 0
          BY <1>2, <3>3 DEF TimedTick
        <4>. QED BY <2>2, <3>1, <4>1
      <3>. QED BY <3>2, <3>3
    <2>4. minutes' \in [Kind -> Nat] /\ planes' \in [Kind -> Nat]
      <3>1. minutes' = [k \in Kind |-> minutes'[k]] /\ planes' = [k \in Kind |-> planes'[k]]
        BY <1>2 DEF TimedTick
      <3>. QED BY <3>1, <2>3
    <2>. QED BY <2>1, <2>3, <2>4 DEF ClockInv
  <1>3. CASE TimedReady
    <2>1. valid_state /\ valid_state' /\ minutes' = minutes /\ planes' = planes
      BY <1>3, ReadyValid DEF ClockInv, TimedReady
    <2>2. /\ s'.Plane_Counter = s.Plane_Counter /\ s'.Runway_Time = s.Runway_Time
          /\ s'.ModeA = s.ModeA /\ s'.ModeD = s.ModeD
          /\ s'.W_A >= s.W_A /\ s'.W_D >= s.W_D
      BY <1>3 DEF TimedReady, ReadyToArrive, ReadyToDepart, ClockInv, valid_state, TypeOK
    <2>3. Left(s') = Left(s) /\ Left(s) \in 1..24
      BY <2>1, <2>2, LeftBounded DEF Left
    <2>4. ASSUME NEW k \in Kind PROVE Kept(s, k) => Kept(s', k)
      BY <2>1, <2>2 DEF Kept, valid_state, TypeOK
    <2>. QED BY <2>1, <2>2, <2>3, <2>4 DEF ClockInv
  <1>. QED BY <1>1, <1>2, <1>3 DEF ClockNext

(* Whoever waits for an inactive mode is overtaken by at most 3 planes and *)
(* has the mode switched within 24 minutes, however many planes wait and   *)
(* whenever they get ready.                                                *)
THEOREM WaitsAreBounded ==
    ASSUME WaitingAssumption
    PROVE  ClockSpec => [](ClockInv /\ ThreePlanes /\ SwitchInTime)
  <1>1. ClockInit => ClockInv
    <2>. SUFFICES ASSUME ClockInit PROVE ClockInv
      OBVIOUS
    <2>1. valid_state
      BY InitValid DEF ClockInit
    <2>2. \A k \in Kind : ~Kept(s, k)
      BY DEF ClockInit, Init, initial, Kept
    <2>. QED BY <2>1, <2>2 DEF ClockInit, ClockInv, Init, initial
  <1>2. ClockInv => ThreePlanes /\ SwitchInTime
    <2>. SUFFICES ASSUME ClockInv PROVE ThreePlanes /\ SwitchInTime
      OBVIOUS
    <2>1. Left(s) \in 1..24 /\ s.Plane_Counter \in 0..3
      BY LeftBounded DEF ClockInv, valid_state, TypeOK
    <2>. QED BY <2>1 DEF ClockInv, ThreePlanes, SwitchInTime
  <1>3. ClockInv /\ [ClockNext]_clockVars => ClockInv'
    BY ClockStep
  <1>. QED BY <1>1, <1>2, <1>3, PTL DEF ClockSpec

=============================================================================
