--------------------------- MODULE BalloonFlight ---------------------------
(***************************************************************************)
(* FlightStage flown on a balloon: the altitude and the climb rate that the *)
(* autopilot reports come from a flight that rises, bursts (or is cut down) *)
(* and falls back to the ground, one level per cycle.  The balloon, the     *)
(* autopilot and the cutdown hardware are external to the flight computer.  *)
(***************************************************************************)
EXTENDS FlightStage

CONSTANTS
    Ground,      \* altitude of the launch and landing site
    MinBurst,    \* lowest altitude the balloon may burst at
    MaxHeight,   \* altitude it bursts at in any case
    MaxReboots   \* bound on the restarts of the flight computer's process

ASSUME BalloonAssumption ==
    /\ {Ground, MinBurst, MaxHeight} \subseteq Nat
    /\ Ground < MinBurst /\ MinBurst <= MaxHeight
    /\ MaxReboots \in Nat

VARIABLES
    height,    \* where the balloon is
    phase,     \* what it is doing: "ground", "rising", "falling" or "landed"
    reboots    \* restarts of the process so far

flightVars == <<vars, height, phase, reboots>>

FlightInit ==
    /\ Init
    /\ alt = Ground
    /\ height = Ground
    /\ phase = "ground"
    /\ reboots = 0

\* The crew holds the balloon until the machine has left Armed.
Wait == phase = "ground" /\ UNCHANGED <<height, phase>>

Release == phase = "ground" /\ stage >= LAUNCH /\ phase' = "rising" /\ UNCHANGED height

Rise == phase = "rising" /\ height < MaxHeight /\ height' = height + 1 /\ UNCHANGED phase

\* A balloon can also stop rising and float, for as long as it likes.
Float == phase = "rising" /\ UNCHANGED <<height, phase>>

\* It bursts by itself, or separates when the cutdown has been driven (and worked).
Separate ==
    /\ phase = "rising"
    /\ height >= MinBurst \/ pulses > 0
    /\ phase' = "falling"
    /\ UNCHANGED height

Fall ==
    /\ phase = "falling"
    /\ height' = IF height > Ground THEN height - 1 ELSE height
    /\ phase' = IF height' = Ground THEN "landed" ELSE "falling"

Rest == phase = "landed" /\ UNCHANGED <<height, phase>>

Move == Wait \/ Release \/ Rise \/ Float \/ Separate \/ Fall \/ Rest

\* The balloon moves and one cycle reads where it is; every data source is up.
FlyOneCycle ==
    /\ Move
    /\ \E gap \in Gaps : Cycle(gap, height', phase' = "falling", Sensors)
    /\ UNCHANGED reboots

GiveCommand == (\E c \in Commands : ReceiveCommand(c)) /\ UNCHANGED <<height, phase, reboots>>

\* The process dies and is started again (flight.service: Restart=on-failure).  Nothing of
\* the task or of the DataStore survives; the settings come from settings.toml.
Reboot ==
    /\ reboots < MaxReboots
    /\ reboots' = reboots + 1
    /\ stage' = PREFLIGHT
    /\ flags' = [f \in Flags |-> FALSE]
    /\ apogee' = 0
    /\ launchAlt' = None /\ cutAlt' = None /\ stillAlt' = None
    /\ timer' = [t \in Timers |-> None]
    /\ armPending' = FALSE
    /\ rwCheck' = "pending"
    /\ command' = {}
    /\ motors' = MotorTasks
    /\ pulses' = 0
    /\ UNCHANGED <<cfg, alt, height, phase>>

FlightNext == FlyOneCycle \/ GiveCommand \/ Reboot

\* The task runs every period, so a cycle is never put off for ever.  That is all that is
\* assumed: the crew may never release the balloon, the ground may never command.
FlightSpec == FlightInit /\ [][FlightNext]_flightVars /\ WF_flightVars(FlyOneCycle)

\* A balloon that comes down has an orderly end: from altitudes alone the machine
\* recognises the end of the ascent, the descent and the landing, and reaches Recovery
\* (unless the process is restarted on the way).
FlightEndsInRecovery ==
    (phase = "falling" /\ reboots = 0) ~> (stage = RECOVERY \/ reboots > 0)

\* With the switches as settings.toml has them, a balloon that floats at or above the
\* termination altitude is cut down, even when the process has been restarted in the air
\* and has gone through Preflight again with nobody commanding it.
FloaterIsCutDown ==
    (/\ phase = "rising" /\ height >= cfg["termination_altitude"]
     /\ AutoAdvance /\ BypassLaunchChecks)
        ~> (flags["cutdown_fired"] \/ phase # "rising")

\* "Burst (5) [if natural burst or unconfirmed cutdown]": a natural burst ends the Ascent.
BurstRecognised == (phase = "falling") ~> (stage > ASCENT)

============================================================================
