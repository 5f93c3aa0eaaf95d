------------------------------ MODULE Pointing ------------------------------
(***************************************************************************)
(* tasks/pointing_task.py with drivers/rw_driver.py and vesc_interface.py:   *)
(* the reaction wheel through spin-up, stabilising, pointing and             *)
(* desaturation, over a serial link that can fall silent or disappear.       *)
(*                                                                         *)
(* Speeds are 0..Top, Rest in the middle standing for 1500 rpm.  The         *)
(* controllers' output is any speed; what their PID computes is left out.    *)
(* Times are ages in cycles that stop growing at Horizon.                    *)
(***************************************************************************)
EXTENDS Integers, FiniteSetsExt

CONSTANTS
    Top, Rest,     \* 3000 and 1500 rpm
    Spinup,        \* spinup_rpm
    SpinupFor,     \* spinup_s
    SettleFor,     \* stability_threshold
    SaturatedFor,  \* saturation_s
    DesaturateFor, \* the 5 s of _desaturate()
    GiveUp,        \* the 300 s of _stabilize()
    Window,        \* length of the window of yaw rates
    Rates,         \* what the median of that window can be
    Quiet, Unruly, \* the rates up to stabilize_, those above unstable_yaw_rate
    Horizon,
    MaxLosses      \* bound on what happens to the link

ASSUME SpeedsAssumption ==
    /\ Top \in Nat /\ Rest \in 1..Top-1 /\ Spinup \in 0..Top
ASSUME TimesAssumption ==
    /\ {SpinupFor, SettleFor, SaturatedFor, DesaturateFor, Window, MaxLosses} \subseteq Nat
    /\ Horizon \in Nat /\ GiveUp \in 0..Horizon-1
    /\ {SpinupFor, SettleFor, SaturatedFor, DesaturateFor} \subseteq 0..Horizon
ASSUME RatesAssumption == Quiet \subseteq Rates /\ Unruly \subseteq Rates

VARIABLES
    pc,          \* where the thread of the task is
    st,          \* PointingTask._state
    passed,      \* PointingTask.passed
    age,         \* cycles since each saved instant, Never if there is none
    fill,        \* len(_yaw_rate_window)
    rpm,         \* rw.rpm in the DataStore
    last,        \* RWDriver._last_rpm
    motor,       \* is RWDriver.motor there?
    stopEvent,   \* _stop_event
    told,        \* the last speed the VESC received
    wheel,       \* the speed of the wheel
    vesc,        \* does the VESC answer, is it mute, or is its port gone?
    window,      \* event.pointing_active: before, in or after its one window
    losses,
    abandoned,   \* history: a teardown could not stop the wheel
    closedFirst, \* history: was the window over when the running cycle began?
    late,        \* history: cycles that began after it and commanded a speed
    calm         \* history: cycles in a row with a quiet rate in this state

control == <<st, age, fill, calm>>
link == <<told, last>>
task == <<pc, control, passed, rpm, motor, stopEvent, link, abandoned, closedFirst, late>>
world == <<wheel, vesc, window, losses>>
vars == <<task, world>>

States == {"IDLE", "SPINUP", "STABILIZE", "POINTING", "SATURATED"}
Instants == {"state", "stable", "unstable", "saturated"}
Never == -1

TypeOK ==
    /\ pc \in {"setup", "cycle", "look", "act", "teardown", "backoff", "ended"}
    /\ st \in States
    /\ age \in [Instants -> {Never} \cup 0..Horizon]
    /\ fill \in 0..Window
    /\ {rpm, last, told, wheel} \subseteq 0..Top
    /\ {passed, motor, stopEvent, abandoned, closedFirst} \subseteq BOOLEAN
    /\ vesc \in {"answers", "mute", "gone"} /\ window \in {"before", "open", "over"}
    /\ losses \in 0..MaxLosses /\ late \in 0..2 /\ calm \in 0..Horizon

Fresh == [i \in Instants |-> IF i = "state" THEN 0 ELSE Never]

Init ==
    /\ pc = "setup" /\ st = "IDLE" /\ passed = FALSE
    /\ age = Fresh /\ fill = 0 /\ rpm = 0 /\ last = 0 /\ motor = FALSE
    /\ stopEvent = FALSE /\ told = 0 /\ wheel = 0 /\ window = "before" /\ losses = 0
    /\ vesc \in {"answers", "gone"}
    /\ abandoned = FALSE /\ closedFirst = FALSE /\ late = 0 /\ calm = 0

-----------------------------------------------------------------------------
(* RWDriver *)

\* set_rpm() with a speed it has clipped: remembered before the write, which raises
\* without a port.
Command(speed, next) ==
    /\ last' = speed
    /\ IF motor /\ vesc = "gone"
         THEN pc' = "teardown" /\ UNCHANGED <<told, late>>
         ELSE /\ pc' = next
              /\ told' = IF motor THEN speed ELSE told
              /\ late' = IF closedFirst /\ next = "cycle" THEN Min({late + 1, 2}) ELSE late

NoCommand(next) == pc' = next /\ UNCHANGED <<link, late>>

\* Mutant: the ramp steps across the resting speed.
RampedAcross == IF last < Rest THEN last + 1 ELSE last - 1

\* decelerate(): one step of the ramp towards the resting speed.
Ramped == IF last < Rest THEN last + 1 ELSE IF last > Rest THEN last - 1 ELSE Rest

-----------------------------------------------------------------------------
(* setup() *)

Setup ==
    /\ pc = "setup"
    /\ passed' = FALSE /\ st' = "IDLE" /\ age' = Fresh /\ fill' = 0 /\ calm' = 0
    /\ motor' = (vesc = "answers")
    /\ pc' = IF motor' THEN "cycle" ELSE "backoff"
    /\ UNCHANGED <<rpm, stopEvent, link, abandoned, closedFirst, late, world>>

-----------------------------------------------------------------------------
(* execute() *)

LeaveLoop ==
    /\ pc = "cycle" /\ stopEvent
    /\ pc' = "teardown"
    /\ UNCHANGED <<control, passed, rpm, motor, stopEvent, link, abandoned, closedFirst,
                   late, world>>

Older(i) == IF age[i] = Never THEN Never ELSE Min({age[i] + 1, Horizon})

\* _store(): a mute VESC leaves the old speed in the DataStore and goes unnoticed.
Store ==
    /\ pc = "cycle" /\ ~stopEvent
    /\ age' = [i \in Instants |-> Older(i)]
    /\ rpm' = IF vesc = "answers" THEN wheel ELSE rpm
    /\ pc' = IF vesc = "gone" THEN "teardown" ELSE "look"
    /\ closedFirst' = (window = "over")
    /\ UNCHANGED <<st, fill, calm, passed, motor, stopEvent, link, abandoned, late, world>>

\* _set_state(): only a change touches the instants.
Enter(s) ==
    /\ st' = s
    /\ age' = IF s = st THEN age ELSE Fresh
    /\ fill' = IF s # st /\ s \in {"IDLE", "SPINUP", "SATURATED"} THEN 0 ELSE fill
    /\ calm' = IF s = st THEN calm ELSE 0

\* The first cycle that sees the window open leaves IDLE, once in a session.
Look ==
    /\ pc = "look"
    /\ IF window = "open" /\ ~passed
         THEN passed' = TRUE /\ Enter(IF Spinup # 0 THEN "SPINUP" ELSE "STABILIZE")
         ELSE UNCHANGED <<passed, control>>
    /\ pc' = IF st' = "IDLE" THEN "cycle" ELSE "act"
    /\ UNCHANGED <<rpm, motor, stopEvent, link, abandoned, closedFirst, late, world>>

\* Mutant: the desaturation does not look at the window.
CheckLess == stopEvent' = (stopEvent \/ (window # "open" /\ st # "SATURATED"))

\* _check(): the stop is noted, and the cycle goes on.
Check == stopEvent' = (stopEvent \/ window # "open")

Act(s) ==
    /\ pc = "act" /\ st = s
    /\ Check
    /\ UNCHANGED <<passed, rpm, motor, abandoned, closedFirst, world>>

SpinUp ==
    /\ Act("SPINUP")
    /\ \/ age["state"] < SpinupFor /\ Command(Spinup, "cycle") /\ UNCHANGED control
       \* The next state's turn comes in the same cycle.
       \/ /\ age["state"] >= SpinupFor
          /\ Command(Spinup, "act")
          /\ IF pc' = "act" THEN Enter("STABILIZE") ELSE UNCHANGED control

\* _is_saturated(): the instant of the first reading at either end.
AtEnd == rpm \in {0, Top}
SatAge == IF ~AtEnd THEN Never ELSE IF age["saturated"] = Never THEN 0 ELSE age["saturated"]
Saturated == AtEnd /\ SatAge >= SaturatedFor

\* _filtered_yaw_rate() has no answer until the window is full.
NewFill == Min({fill + 1, Window})

\* Mutant: a loud rate does not start the wait afresh.
StableAgeSticky(rate) ==
    IF NewFill < Window THEN Never
    ELSE IF age["stable"] = Never THEN (IF rate \in Quiet THEN 0 ELSE Never)
    ELSE age["stable"]

\* _is_stable(): the age of the quiet, Never while there is none.
StableAge(rate) ==
    IF NewFill < Window \/ rate \notin Quiet THEN Never
    ELSE IF age["stable"] = Never THEN 0 ELSE age["stable"]

Stable(rate) ==
    /\ NewFill = Window /\ rate \in Quiet
    /\ age["stable"] # Never /\ age["stable"] >= SettleFor

\* _is_unstable(): without a full window nothing is decided and nothing forgotten.
UnstableAge(rate) ==
    IF NewFill < Window THEN age["unstable"]
    ELSE IF rate \notin Unruly THEN Never
    ELSE IF age["unstable"] = Never THEN 0 ELSE age["unstable"]

Unstable(rate) ==
    /\ NewFill = Window /\ rate \in Unruly
    /\ age["unstable"] # Never /\ age["unstable"] >= SettleFor

Calmer(rate) ==
    calm' = IF NewFill = Window /\ rate \in Quiet THEN Min({calm + 1, Horizon}) ELSE 0

Stay(instant, value) ==
    /\ st' = st
    /\ age' = [age EXCEPT !["saturated"] = SatAge, ![instant] = value]
    /\ fill' = NewFill

Stabilize ==
    /\ Act("STABILIZE")
    /\ \/ Saturated /\ Enter("SATURATED") /\ NoCommand("cycle")
       \/ /\ ~Saturated
          /\ \E rate \in Rates :
                IF Stable(rate) \/ age["state"] > GiveUp
                  THEN Enter("POINTING") /\ NoCommand("cycle")
                  ELSE /\ Stay("stable", StableAge(rate)) /\ Calmer(rate)
                       /\ \E speed \in 0..Top : Command(speed, "cycle")

Point ==
    /\ Act("POINTING")
    /\ \/ Saturated /\ Enter("SATURATED") /\ NoCommand("cycle")
       \/ /\ ~Saturated
          /\ \E rate \in Rates :
                IF Unstable(rate)
                  THEN Enter("STABILIZE") /\ NoCommand("cycle")
                  ELSE /\ Stay("unstable", UnstableAge(rate)) /\ UNCHANGED calm
                       /\ \E speed \in 0..Top : Command(speed, "cycle")

Desaturate ==
    /\ Act("SATURATED")
    /\ Command(Ramped, "cycle")
    /\ IF pc' = "cycle" /\ age["state"] >= DesaturateFor /\ rpm = Rest
         THEN Enter("STABILIZE")
         ELSE UNCHANGED control

-----------------------------------------------------------------------------
(* teardown(), and the restart *)

\* RWDriver.close(): a write that raises leaves the motor object behind.
CanStop == motor => vesc # "gone"

\* Mutant: the port is closed and the wheel not told.
StopsNot == told

Stops == IF motor THEN 0 ELSE told

Teardown ==
    /\ pc = "teardown"
    /\ IF CanStop THEN told' = Stops /\ motor' = FALSE /\ UNCHANGED abandoned
                  ELSE abandoned' = TRUE /\ UNCHANGED <<told, motor>>
    /\ pc' = IF stopEvent THEN "ended" ELSE "backoff"
    /\ UNCHANGED <<control, passed, rpm, stopEvent, last, closedFirst, late, world>>

Restart ==
    /\ pc = "backoff"
    /\ pc' = IF stopEvent THEN "ended" ELSE "setup"
    /\ UNCHANGED <<control, passed, rpm, motor, stopEvent, link, abandoned, closedFirst,
                   late, world>>

Thread ==
    \/ Setup \/ LeaveLoop \/ Store \/ Look
    \/ SpinUp \/ Stabilize \/ Point \/ Desaturate
    \/ Teardown \/ Restart

-----------------------------------------------------------------------------
(* The others *)

\* FlightStageTask: the window opens and closes once.
WindowTurns ==
    /\ window # "over"
    /\ window' = IF window = "before" THEN "open" ELSE "over"
    /\ UNCHANGED <<task, wheel, vesc, losses>>

\* FlightStageTask._stop_motor_tasks().
StopAtApogee ==
    /\ ~stopEvent /\ stopEvent' = TRUE
    /\ UNCHANGED <<pc, control, passed, rpm, motor, link, abandoned, closedFirst, late, world>>

Wheel ==
    /\ wheel # told
    /\ wheel' = IF wheel < told THEN wheel + 1 ELSE wheel - 1
    /\ UNCHANGED <<task, vesc, window, losses>>

LinkChanges ==
    /\ losses < MaxLosses /\ losses' = losses + 1
    /\ vesc' \in {"answers", "mute", "gone"} \ {vesc}
    /\ UNCHANGED <<task, wheel, window>>

Next == Thread \/ WindowTurns \/ StopAtApogee \/ Wheel \/ LinkChanges

Spec == Init /\ [][Next]_vars /\ WF_vars(Thread) /\ WF_vars(Wheel)

-----------------------------------------------------------------------------
(* Properties *)

\* Outside a session the wheel has been told to stop, unless a teardown met a port that
\* was gone; whatever happened inside, a restart or an end leaves no speed behind.
NoSpeedLeftBehind ==
    /\ TypeOK
    /\ pc \in {"setup", "backoff", "ended"} => told = 0 \/ abandoned

\* The check of the window does not end the cycle, so one cycle that began after the
\* window still commands the wheel; no second one does, in whatever state it was and
\* whatever restarts.
OneLateCycle == late <= 1

\* The wheel points only after the rates have been quiet for the whole threshold, without
\* a loud one among them, or when stabilising has been given up.
PointsAfterQuiet ==
    [][st # "POINTING" /\ st' = "POINTING" => calm >= SettleFor \/ age["state"] > GiveUp]_vars

\* Desaturation has no timeout; it ends because the wheel follows the ramp and the VESC
\* reports it.
SaturationEnds ==
    st = "SATURATED" ~> (st # "SATURATED" \/ vesc # "answers" \/ pc = "ended")

=============================================================================
