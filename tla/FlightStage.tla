---------------------------- MODULE FlightStage ----------------------------
(***************************************************************************)
(* tasks/flight_stage_task.py: the task that drives the flight stage.  One  *)
(* Cycle is one call of FlightStageTask.execute(): it polls the command     *)
(* keys of the DataStore, updates the apogee and the pointing window, runs  *)
(* _transition() and publishes event.*.                                     *)
(*                                                                         *)
(* Time.  execute() reads the clock once and compares it with instants it   *)
(* saved before.  The model keeps the age of each saved instant instead,    *)
(* saturating at Horizon, which is above every threshold an age is compared *)
(* with; `gap' is the time since the previous cycle.                        *)
(*                                                                         *)
(* event.* and the shadow dictionary _flags are written together by         *)
(* _write_flag(), so `flags' stands for both.  The altitude history is left *)
(* out: only _detect_launch() reads it, and nothing calls that.             *)
(***************************************************************************)
EXTENDS Integers

CONSTANTS
    Alts,           \* barometric altitudes the autopilot can report
    Settings,       \* values the settings can take together
    Gaps,           \* times between two cycles
    Horizon,        \* the age at which a saved instant stops aging
    Sensors,        \* data sources that can be up or down between cycles
    Require,        \* flight_stage.require: the sources that must be up
    Debounce,       \* flight_stage.preflight_debounce_s
    RwTimeout,      \* _RW_CONNECT_TIMEOUT_S
    Lockout,        \* _ASCENT_LOCKOUT_S
    BurstWindow,    \* _BURST_RATE_WINDOW_S
    Band            \* _STATIONARY_BAND_M

\* The settings the ground can change, and switches that are fixed at startup (1 for true).
LiveNames ==
    {"termination_altitude", "ascent_detect_gain", "apogee_percent", "landing_percent",
     "recovery_stationary", "termination_confirm_drop", "termination_confirm_window",
     "pointing_activate_altitude", "pointing_duration"}

SwitchNames == {"auto_advance", "bypass_launch_altitude_checks"}

SettingNames == LiveNames \union SwitchNames

ASSUME AltsAssumption == Alts \subseteq Nat
ASSUME SettingsAssumption == Settings \subseteq [SettingNames -> Nat]
ASSUME TimeAssumption ==
    /\ Gaps \subseteq Nat
    /\ Horizon \in Nat
    /\ {Debounce, RwTimeout, Lockout, BurstWindow, Band} \subseteq Nat
ASSUME HorizonAssumption ==
    /\ {Debounce, RwTimeout, Lockout, BurstWindow} \subseteq 0 .. Horizon - 1
    /\ \A s \in Settings :
         {s["recovery_stationary"], s["termination_confirm_window"], s["pointing_duration"]}
             \subseteq 0 .. Horizon - 1

VARIABLES
    stage,        \* _stage, and event.flight_stage
    flags,        \* the 0/1 entries of _flags, and their event.* keys
    apogee,       \* _measured_apogee
    launchAlt,    \* _launch_ok_alt
    cutAlt,       \* _cutdown_triggered_alt
    stillAlt,     \* _stationary_ref_alt
    timer,        \* ages of the saved instants, None where none is saved
    armPending,   \* _arm_cmd_pending
    rwCheck,      \* _actuator_checks.rw_connected
    command,      \* command.* keys that hold 1.0
    cfg,          \* the settings.* keys, and the switches of the configuration
    motors,       \* the motor tasks whose threads have not been stopped
    alt,          \* the altitude the last cycle read
    pulses        \* how often _hw_fire_cutdown() was called

vars == <<stage, flags, apogee, launchAlt, cutAlt, stillAlt, timer, armPending, rwCheck,
          command, cfg, motors, alt, pulses>>

PREFLIGHT   == 0
ARMED       == 1
LAUNCH      == 2
ASCENT      == 3
TERMINATION == 4
BURST       == 5
DESCENT     == 6
LANDING     == 7
RECOVERY    == 8

Stages == PREFLIGHT .. RECOVERY

None == -1

Flags == {"preflight_ok", "arm_checks_ok", "arm_state", "launch_initiated",
          "ascent_active", "termination_fired", "burst_detected", "descent_active",
          "landing_detected", "recovery_active", "cutdown_fired", "pointing_active"}

Timers == {"preflight_ok", "rw", "pointing", "ascent", "cutdown", "falling", "still"}

Commands == {"arm", "launch_ok"}

MotorTasks == {"pointing", "lighting"}

Init ==
    /\ stage = PREFLIGHT
    /\ flags = [f \in Flags |-> FALSE]
    /\ apogee = 0
    /\ launchAlt = None
    /\ cutAlt = None
    /\ stillAlt = None
    /\ timer = [t \in Timers |-> None]
    /\ armPending = FALSE
    /\ rwCheck = "pending"
    /\ command = {}
    /\ cfg \in Settings
    /\ motors = MotorTasks
    /\ alt \in Alts
    /\ pulses = 0

AutoAdvance == cfg["auto_advance"] = 1

BypassLaunchChecks == cfg["bypass_launch_altitude_checks"] = 1

-----------------------------------------------------------------------------
(* Time                                                                      *)

\* now - instant, for every saved instant, `gap' after the previous cycle.
Aged(gap) ==
    [t \in Timers |->
        IF timer[t] = None THEN None
        ELSE IF timer[t] + gap > Horizon THEN Horizon ELSE timer[t] + gap]

\* `now - (instant or now)'.
Elapsed(T, t) == IF T[t] = None THEN 0 ELSE T[t]

-----------------------------------------------------------------------------
(* Checks                                                                    *)

CheckPreflight(up) == (Require \intersect {"mavlink", "rw_vesc", "mm_vesc"}) \subseteq up

CheckArm(up) == (Require \intersect {"gps", "rw_vesc", "mm_vesc"}) \subseteq up

\* One step of the actuator check.
RwStep(T, up) ==
    IF rwCheck = "pending" THEN "running"
    ELSE IF rwCheck = "running"
         THEN IF "rw_connected" \in up THEN "passed"
              ELSE IF T["rw"] > RwTimeout THEN "failed" ELSE "running"
         ELSE rwCheck

\* A failed check is reset and tried again.
AfterFailure(rw) == IF rw = "failed" THEN "pending" ELSE rw

AtOrBelow(a, percent) == apogee > 0 /\ a * 100 <= apogee * percent

-----------------------------------------------------------------------------
(* Commands polled at the top of execute()                                   *)

ArmPolled == armPending \/ ("arm" \in command /\ stage = PREFLIGHT)

\* Mutant: LAUNCH_OK is honoured in every stage once the arm checks have passed.
LaunchAcceptedInAnyStage == "launch_ok" \in command /\ flags["arm_checks_ok"]

LaunchAccepted == "launch_ok" \in command /\ stage = ARMED /\ flags["arm_checks_ok"]

StagePolled == IF LaunchAccepted THEN LAUNCH ELSE stage

-----------------------------------------------------------------------------
(* The pointing window: opened once, closed after pointing_duration          *)

\* Mutant: the window is opened again whenever the altitude is high enough.
PointingOpensAgain(T, a) ==
    /\ StagePolled >= LAUNCH
    /\ a >= cfg["pointing_activate_altitude"]

PointingOpens(T, a) ==
    /\ StagePolled >= LAUNCH
    /\ a >= cfg["pointing_activate_altitude"]
    /\ T["pointing"] = None

PointingCloses(T) ==
    /\ T["pointing"] # None
    /\ T["pointing"] >= cfg["pointing_duration"]

PointingTimer(T, a) == IF PointingOpens(T, a) THEN [T EXCEPT !["pointing"] = 0] ELSE T

\* Mutant: LAUNCH_OK changes the stage without reporting launch_initiated.
FlagsPolledSilently(T, a) ==
    [flags EXCEPT
        !["pointing_active"] = PointingOpens(T, a) \/ (@ /\ ~PointingCloses(T))]

\* The flags as they are when _transition() is called.
FlagsPolled(T, a) ==
    [flags EXCEPT
        !["launch_initiated"] = @ \/ LaunchAccepted,
        !["pointing_active"] = PointingOpens(T, a) \/ (@ /\ ~PointingCloses(T))]

-----------------------------------------------------------------------------
(* _transition(): one operator per branch.  T are the ages and F the flags   *)
(* at the call, a the altitude read.                                         *)

PreflightBranch(T, F, up) ==
    LET ok == CheckPreflight(up)
        since == IF ok THEN Elapsed(T, "preflight_ok") ELSE None
        pending == ArmPolled \/ (AutoAdvance /\ ok /\ since >= Debounce)
        arm == pending /\ CheckArm(up)
    IN  /\ StagePolled = PREFLIGHT
        /\ stage' = IF arm THEN ARMED ELSE PREFLIGHT
        /\ flags' = [F EXCEPT !["preflight_ok"] = ok,
                              !["arm_checks_ok"] = @ \/ arm,
                              !["arm_state"] = @ \/ arm]
        /\ armPending' = (pending /\ ~arm)
        /\ timer' = [T EXCEPT !["preflight_ok"] = since,
                              !["rw"] = IF arm THEN None ELSE @]
        /\ rwCheck' = IF arm THEN "pending" ELSE rwCheck
        /\ UNCHANGED <<apogee, launchAlt, cutAlt, stillAlt, motors, pulses>>

\* The altitude bypass comes first: with it the actuator checks never run.
ArmedBranch(T, F, a, up) ==
    LET rw == IF BypassLaunchChecks THEN rwCheck ELSE RwStep(T, up)
        launch == BypassLaunchChecks \/ rw = "passed"
    IN  /\ StagePolled = ARMED
        /\ stage' = IF launch THEN LAUNCH ELSE ARMED
        /\ flags' = [F EXCEPT !["arm_state"] = TRUE,
                              !["launch_initiated"] = @ \/ launch]
        /\ launchAlt' = IF launch THEN a ELSE launchAlt
        /\ rwCheck' = AfterFailure(rw)
        /\ timer' = [T EXCEPT !["rw"] =
                        IF rw = "failed" THEN None
                        ELSE IF rw = "running" /\ rwCheck = "pending" THEN 0 ELSE @]
        /\ armPending' = ArmPolled
        /\ UNCHANGED <<apogee, cutAlt, stillAlt, motors, pulses>>

\* _detect_ascent() compares with the altitude saved when LAUNCH was entered.
DetectAscent(reference, a) ==
    reference # None /\ a - reference >= cfg["ascent_detect_gain"]

LaunchBranch(T, F, a) ==
    LET reference == IF LaunchAccepted THEN a ELSE launchAlt
        ascent == BypassLaunchChecks \/ DetectAscent(reference, a)
    IN  /\ StagePolled = LAUNCH
        /\ stage' = IF ascent THEN ASCENT ELSE LAUNCH
        /\ flags' = [F EXCEPT !["ascent_active"] = @ \/ ascent]
        /\ launchAlt' = reference
        /\ apogee' = IF ascent THEN a ELSE apogee
        /\ timer' = [T EXCEPT !["ascent"] = IF ascent THEN 0 ELSE @]
        /\ armPending' = ArmPolled
        /\ UNCHANGED <<cutAlt, stillAlt, rwCheck, motors, pulses>>

\* Mutant: no lockout.
InNoLockout(T) == FALSE

InLockout(T) == Elapsed(T, "ascent") < Lockout

\* Mutant: the altitude itself is not enough.
CutdownDueAbove(T, F, a) == a > cfg["termination_altitude"] /\ ~F["cutdown_fired"]

\* Above the termination altitude and not fired yet; the lockout does not matter.
CutdownDue(T, F, a) == a >= cfg["termination_altitude"] /\ ~F["cutdown_fired"]

\* Mutant: every falling cycle starts the age anew.
FallingSinceNow(T, F, falling) == IF falling THEN 0 ELSE None

\* The age of "climb < -0.5 m/s"; only looked at after the lockout and without cutdown.
FallingSince(T, F, falling) ==
    IF InLockout(T) \/ F["cutdown_fired"] THEN T["falling"]
    ELSE IF falling THEN Elapsed(T, "falling") ELSE None

\* Mutant: the apogee stays the altitude at which Ascent was entered.
ApogeeAtEntry(a) == apogee

\* The apogee is updated before the transition, in Ascent only.
ApogeeUpdated(a) == IF a > apogee THEN a ELSE apogee

\* _stop_motor_tasks(): the tasks are stopped before the new stage is published.
StopMotorTasks == motors \ MotorTasks

AscentBranch(T, F, a, falling) ==
    LET fire == CutdownDue(T, F, a)
        F1 == [F EXCEPT !["cutdown_fired"] = @ \/ fire]
        T1 == IF fire THEN [T EXCEPT !["cutdown"] = 0] ELSE T
        reference == IF fire THEN a ELSE cutAlt
        T2 == [T1 EXCEPT !["falling"] = FallingSince(T1, F1, falling)]
        age == Elapsed(T1, "cutdown")
        watch == ~InLockout(T) /\ F1["cutdown_fired"] /\ reference # None
        confirmed == watch /\ reference - a >= cfg["termination_confirm_drop"]
                           /\ age <= cfg["termination_confirm_window"]
        unconfirmed == watch /\ ~confirmed /\ age > cfg["termination_confirm_window"]
        natural == /\ ~InLockout(T) /\ ~F1["cutdown_fired"]
                   /\ falling /\ T1["falling"] # None /\ T1["falling"] >= BurstWindow
        burst == unconfirmed \/ natural
    IN  /\ StagePolled = ASCENT
        /\ stage' = IF confirmed THEN TERMINATION ELSE IF burst THEN BURST ELSE ASCENT
        /\ flags' = [F1 EXCEPT !["termination_fired"] = @ \/ confirmed,
                               !["burst_detected"] = @ \/ burst]
        /\ apogee' = ApogeeUpdated(a)
        /\ cutAlt' = reference
        /\ timer' = T2
        /\ motors' = IF confirmed \/ burst THEN StopMotorTasks ELSE motors
        /\ pulses' = IF fire THEN pulses + 1 ELSE pulses
        /\ armPending' = ArmPolled
        /\ UNCHANGED <<launchAlt, stillAlt, rwCheck>>

ApogeePassedBranch(T, F, a) ==
    LET descent == AtOrBelow(a, cfg["apogee_percent"])
    IN  /\ StagePolled \in {TERMINATION, BURST}
        /\ stage' = IF descent THEN DESCENT ELSE stage
        /\ flags' = [F EXCEPT !["ascent_active"] = @ /\ ~descent,
                              !["descent_active"] = @ \/ descent]
        /\ timer' = T
        /\ armPending' = ArmPolled
        /\ UNCHANGED <<apogee, launchAlt, cutAlt, stillAlt, rwCheck, motors, pulses>>

DescentBranch(T, F, a) ==
    LET landing == AtOrBelow(a, cfg["landing_percent"])
    IN  /\ StagePolled = DESCENT
        /\ stage' = IF landing THEN LANDING ELSE DESCENT
        /\ flags' = [F EXCEPT !["descent_active"] = @ /\ ~landing,
                              !["landing_detected"] = @ \/ landing]
        /\ timer' = T
        /\ armPending' = ArmPolled
        /\ UNCHANGED <<apogee, launchAlt, cutAlt, stillAlt, rwCheck, motors, pulses>>

\* Within the band of the reference altitude; the reference is replaced otherwise.
Stationary(a) == stillAlt # None /\ a - stillAlt <= Band /\ stillAlt - a <= Band

LandingBranch(T, F, a) ==
    LET recovered == /\ Stationary(a)
                     /\ Elapsed(T, "still") >= cfg["recovery_stationary"]
    IN  /\ StagePolled = LANDING
        /\ stage' = IF recovered THEN RECOVERY ELSE LANDING
        /\ flags' = [F EXCEPT !["recovery_active"] = @ \/ recovered]
        /\ stillAlt' = IF Stationary(a) THEN stillAlt ELSE a
        /\ timer' = IF Stationary(a) THEN T ELSE [T EXCEPT !["still"] = 0]
        /\ armPending' = ArmPolled
        /\ UNCHANGED <<apogee, launchAlt, cutAlt, rwCheck, motors, pulses>>

RecoveryBranch(T, F) ==
    /\ StagePolled = RECOVERY
    /\ flags' = F
    /\ timer' = T
    /\ armPending' = ArmPolled
    /\ UNCHANGED <<stage, apogee, launchAlt, cutAlt, stillAlt, rwCheck, motors, pulses>>

Transition(T, F, a, falling, up) ==
    \/ PreflightBranch(T, F, up)
    \/ ArmedBranch(T, F, a, up)
    \/ LaunchBranch(T, F, a)
    \/ AscentBranch(T, F, a, falling)
    \/ ApogeePassedBranch(T, F, a)
    \/ DescentBranch(T, F, a)
    \/ LandingBranch(T, F, a)
    \/ RecoveryBranch(T, F)

-----------------------------------------------------------------------------
(* Actions                                                                   *)

\* One call of execute(), `gap' after the previous one.
Cycle(gap, a, falling, up) ==
    LET T == Aged(gap)
    IN  /\ Transition(PointingTimer(T, a), FlagsPolled(T, a), a, falling, up)
        /\ command' = {}
        /\ alt' = a
        /\ UNCHANGED cfg

\* CommandReceiverTask writes a command key of the DataStore.
ReceiveCommand(c) ==
    /\ command' = command \union {c}
    /\ UNCHANGED <<stage, flags, apogee, launchAlt, cutAlt, stillAlt, timer, armPending,
                   rwCheck, cfg, motors, alt, pulses>>

\* CommandReceiverTask changes one settings.* key.
UpdateSetting(s) ==
    /\ \E n \in LiveNames : s # cfg /\ s = [cfg EXCEPT ![n] = s[n]]
    /\ cfg' = s
    /\ UNCHANGED <<stage, flags, apogee, launchAlt, cutAlt, stillAlt, timer, armPending,
                   rwCheck, command, motors, alt, pulses>>

Next ==
    \/ \E gap \in Gaps, a \in Alts, falling \in BOOLEAN, up \in SUBSET Sensors :
          Cycle(gap, a, falling, up)
    \/ \E c \in Commands : ReceiveCommand(c)
    \/ \E s \in Settings : UpdateSetting(s)

Spec == Init /\ [][Next]_vars

-----------------------------------------------------------------------------
(* Properties                                                                *)

\* Every attribute of the task keeps its type and every age stays below the horizon.
TypeOK ==
    /\ stage \in Stages
    /\ flags \in [Flags -> BOOLEAN]
    /\ apogee \in Nat
    /\ launchAlt \in Nat \union {None}
    /\ cutAlt \in Nat \union {None}
    /\ stillAlt \in Nat \union {None}
    /\ timer \in [Timers -> {None} \union (0 .. Horizon)]
    /\ armPending \in BOOLEAN
    /\ rwCheck \in {"pending", "running", "passed"}
    /\ command \in SUBSET Commands
    /\ cfg \in Settings
    /\ motors \in SUBSET MotorTasks
    /\ alt \in Nat
    /\ pulses \in Nat

\* The event.* flags that other tasks and the ground read agree with the stage at the
\* end of every cycle, whichever of the ways into a stage was taken: LAUNCH_OK, the
\* bypass or the actuator check; confirmed cutdown, unconfirmed cutdown or burst.
FlagsMatchStage ==
    /\ flags["arm_state"] <=> stage >= ARMED
    /\ flags["arm_checks_ok"] <=> stage >= ARMED
    /\ flags["launch_initiated"] <=> stage >= LAUNCH
    /\ flags["ascent_active"] <=> stage \in {ASCENT, TERMINATION, BURST}
    /\ flags["descent_active"] <=> stage = DESCENT
    /\ flags["landing_detected"] <=> stage >= LANDING
    /\ flags["recovery_active"] <=> stage = RECOVERY
    /\ stage = TERMINATION => flags["termination_fired"]
    /\ stage = BURST => flags["burst_detected"]
    /\ stage > BURST => (flags["termination_fired"] <=> ~flags["burst_detected"])

\* The cutdown output is driven at most once however the altitude, the termination
\* altitude setting and the lockout vary, and cutdown_fired reports exactly that pulse.
CutdownOnce == pulses = IF flags["cutdown_fired"] THEN 1 ELSE 0

\* A Termination verdict needs a cutdown, and the altitude it fired at is covered by the
\* measured apogee (which execute() updates before the transition that fires it), so that
\* the descent thresholds are never taken from an apogee below the cutdown altitude.
CutdownBelowApogee ==
    /\ flags["termination_fired"] => flags["cutdown_fired"]
    /\ flags["cutdown_fired"] => cutAlt # None /\ cutAlt <= apogee

\* _stop_motor_tasks() has run exactly when the ascent is over: no stage after it is
\* reached with the pointing or the lighting task still running, and none is stopped early.
MotorsStoppedAfterAscent == motors = IF stage > ASCENT THEN {} ELSE MotorTasks

\* The pointing window is one shot: once closed it never opens again, whatever happens to
\* the altitude and to the pointing settings, and it is open only after launch.
PointingOneShot ==
    [][/\ (timer["pointing"] # None /\ ~flags["pointing_active"]) => ~flags'["pointing_active"]
       /\ flags'["pointing_active"] => stage' >= LAUNCH]_vars

\* No verdict on the flight (termination or burst) is given before the lockout has passed,
\* while the cutdown itself is not delayed by it: a cycle in Ascent that reads an altitude
\* above the termination altitude leaves with cutdown_fired set.
LockoutDelaysVerdictOnly ==
    [][/\ (stage = ASCENT /\ stage' # ASCENT) => timer'["ascent"] >= Lockout
       /\ (stage = ASCENT /\ alt' # alt /\ alt' >= cfg["termination_altitude"])
             => flags'["cutdown_fired"]]_vars

\* The documented stage sequence.
Sequence == INSTANCE StageSequence WITH cutdown <- flags["cutdown_fired"]

\* The task implements the stage sequence its docstring promises.
ImplementsSequence == Sequence!Spec
=============================================================================
