------------------------------ MODULE Lighting ------------------------------
(***************************************************************************)
(* tasks/lighting_task.py on the drivers of the LED board: the sphere source *)
(* under its current loop, the spotter beacon behind its relay, and the DAC *)
(* they share.  Every write of a channel sends the codes of ALL channels,   *)
(* one I2C transaction each (mcp4728_driver.c), after the cached code has    *)
(* been changed; a failed write has sent some of them and raises.            *)
(*                                                                         *)
(* One step is one such write.  The control law is left out: what is kept   *)
(* of it is that a step moves the code by at most MaxStep.  The clock is     *)
(* `flash', whether the schedule wants the beacon lit now.                   *)
(***************************************************************************)
EXTENDS Integers

CONSTANTS
    Targets,      \* the currents the ground may command, 0 among them
    Configured,   \* the values sphere_target_current_a of settings.toml may have
    NoTarget,     \* None: no such value
    MaxCode,      \* the DAC's largest code
    MaxStep,      \* _max_code_step of the sphere's loop
    Brightness,   \* beacon_dac_code
    Retries,      \* _MAX_I2C_RETRIES of the ADC
    MaxFaults,    \* bound on the I2C transactions that fail
    MaxCommands   \* bound on the commands of the ground

ASSUME TargetsAssumption ==
    /\ Targets \subseteq Nat /\ 0 \in Targets
    /\ NoTarget \notin Targets
    /\ Configured \subseteq Targets \cup {NoTarget}
ASSUME CodesAssumption ==
    /\ MaxCode \in Nat \ {0}
    /\ MaxStep \in 1..MaxCode
    /\ Brightness \in 0..MaxCode
ASSUME BoundsAssumption == {Retries, MaxFaults, MaxCommands} \subseteq Nat

VARIABLES
    pc,         \* where the thread of the task is
    codes,      \* LedBoard._codes
    hw,         \* what the DAC puts out
    loop,       \* the current the sphere's loop holds, NoTarget if disengaged
    board,      \* is LightingTask._board there?
    sphereOn,   \* LightingTask._sphere_on
    beaconOn,   \* LightingTask._beacon_on
    target,     \* LightingTask._sphere_target_current_a
    wish,       \* beacon_should_flash_on of the running cycle
    setting,    \* settings.sphere_target_current_a, NoTarget before a command
    flash,      \* the schedule at this moment: in a window, in the lit half
    stop,       \* _stop_event: the flight stage task stops the lights at apogee
    faults, commands

task == <<loop, board, sphereOn, beaconOn, target, wish>>
outside == <<setting, flash, stop, commands>>
vars == <<pc, codes, hw, task, outside, faults>>

Channels == {"sphere", "beacon", "relay"}
Dark == [c \in Channels |-> 0]
On == MaxCode

Labels == {"setup", "cycle", "zero", "update", "switch", "join", "close", "rise", "fall",
           "break", "report", "off1", "off2", "off3", "off4", "stopped"}

TypeOK ==
    /\ pc \in Labels
    /\ codes \in [Channels -> 0..MaxCode] /\ hw \in [Channels -> 0..MaxCode]
    /\ {loop, target, setting} \subseteq Targets \cup {NoTarget}
    /\ {board, sphereOn, beaconOn, wish, flash, stop} \subseteq BOOLEAN
    /\ faults \in 0..MaxFaults /\ commands \in 0..MaxCommands

Init ==
    /\ pc = "setup"
    /\ codes = Dark /\ hw = Dark
    /\ loop = NoTarget /\ target \in Configured
    /\ board = FALSE /\ sphereOn = FALSE /\ beaconOn = FALSE /\ wish = FALSE
    /\ setting = NoTarget /\ flash = FALSE /\ stop = FALSE
    /\ faults = 0 /\ commands = 0

-----------------------------------------------------------------------------
(* The board *)

\* A write that fails has reached the channels in front of the one that failed.
Prefixes == {{}, {"sphere"}, {"sphere", "beacon"}}

Send(to, done) == hw' = [c \in Channels |-> IF c \in done THEN to[c] ELSE hw[c]]

\* Mutant: a failed write is logged and the caller goes on.
AfterFailureLogged(next) == next

\* _flush() raises: out of execute() into teardown(), out of teardown() to the restart.
AfterFailure(next) ==
    CASE pc \in {"off1", "off2", "off3"} -> IF stop THEN "stopped" ELSE "setup"
      [] OTHER -> "off1"

\* write_channel() and all_off(): cache, then send everything.
Write(channel, code, next) ==
    LET new == [codes EXCEPT ![channel] = code] IN
    /\ codes' = new
    /\ \/ /\ Send(new, Channels)
          /\ pc' = next
          /\ UNCHANGED faults
       \/ /\ faults < MaxFaults
          /\ \E done \in Prefixes : Send(new, done)
          /\ pc' = AfterFailure(next)
          /\ faults' = faults + 1

\* read_volts() gives up after its last attempt.
SenseFails ==
    /\ faults + Retries <= MaxFaults
    /\ faults' = faults + Retries
    /\ pc' = AfterFailure("off1")
    /\ UNCHANGED <<codes, hw>>

-----------------------------------------------------------------------------
(* setup(): the constructor of the board zeroes every channel *)

SetupSucceeds ==
    /\ pc = "setup"
    /\ pc' = "cycle"
    /\ codes' = Dark /\ Send(Dark, Channels)
    /\ board' = TRUE
    /\ loop' = NoTarget

\* Whatever is raised is swallowed, and the task runs without a board.
SetupFails ==
    /\ pc = "setup"
    /\ faults < MaxFaults /\ faults' = faults + 1
    /\ pc' = "cycle"
    /\ \E done \in Prefixes : Send(Dark, done)
    /\ codes' = Dark
    /\ board' = FALSE
    /\ loop' = NoTarget

\* Mutant: the latches of the session before survive the restart.
LatchesKept == UNCHANGED <<sphereOn, beaconOn>>

Latches == sphereOn' = FALSE /\ beaconOn' = FALSE

Setup ==
    /\ (SetupSucceeds /\ UNCHANGED faults) \/ SetupFails
    /\ Latches /\ wish' = FALSE
    /\ UNCHANGED <<target, outside>>

\* The loop of the task may see the stop before a setup.
StopBeforeSetup ==
    /\ pc = "setup" /\ stop
    /\ pc' = "stopped"
    /\ UNCHANGED <<codes, hw, task, outside, faults>>

-----------------------------------------------------------------------------
(* execute() *)

\* Mutant: the loop of the task is left without the teardown.
AfterStopAtOnce == "stopped"

AfterStop == IF board THEN "off1" ELSE "stopped"

Stop ==
    /\ pc = "cycle" /\ stop
    /\ pc' = AfterStop
    /\ UNCHANGED <<codes, hw, task, outside, faults>>

\* The clock is read once, at the top; without a board nothing else happens.
BeginCycle ==
    /\ pc = "cycle" /\ ~stop
    /\ wish' = flash
    /\ board
    /\ UNCHANGED <<codes, hw, board, beaconOn, outside, faults>>

\* The first cycle engages the loop with the task's own target.
Engage ==
    /\ BeginCycle
    /\ ~sphereOn /\ target # NoTarget
    /\ loop' = target /\ sphereOn' = TRUE
    /\ pc' = "update"
    /\ UNCHANGED target

Commanded == setting \notin {NoTarget, target}

\* The later ones look whether the ground has commanded another.
Poll ==
    /\ BeginCycle
    /\ sphereOn
    /\ IF Commanded
         THEN /\ target' = setting
              /\ loop' = IF setting = 0 THEN NoTarget ELSE setting
              /\ pc' = IF setting = 0 THEN "zero" ELSE "update"
         ELSE pc' = "update" /\ UNCHANGED <<loop, target>>
    /\ UNCHANGED sphereOn

Unconfigured ==
    /\ BeginCycle
    /\ ~sphereOn /\ target = NoTarget
    /\ pc' = "switch"
    /\ UNCHANGED <<loop, sphereOn, target>>

ZeroSphere ==
    /\ pc = "zero"
    /\ Write("sphere", 0, "update")
    /\ UNCHANGED <<task, outside>>

Near(code) == {c \in 0..MaxCode : c - code \in -MaxStep..MaxStep}

\* SphereLedSource.update(): two readings, then a bounded correction if it is needed.
Update ==
    /\ pc = "update"
    /\ \/ SenseFails
       \/ pc' = "switch" /\ UNCHANGED <<codes, hw, faults>>
       \/ loop # NoTarget /\ \E c \in Near(codes["sphere"]) : Write("sphere", c, "switch")
    /\ UNCHANGED <<task, outside>>

\* _set_beacon(): only on a change of the cached flag.
Switch ==
    /\ pc = "switch"
    /\ pc' = IF wish = beaconOn THEN "report" ELSE IF wish THEN "join" ELSE "fall"
    /\ UNCHANGED <<codes, hw, task, outside, faults>>

\* BeaconChannel.on(): no current, contact, then the ramp up ...
Join == pc = "join" /\ Write("beacon", 0, "close") /\ UNCHANGED <<task, outside>>

Close == pc = "close" /\ Write("relay", On, "rise") /\ UNCHANGED <<task, outside>>

Rise ==
    /\ pc = "rise"
    /\ IF codes["beacon"] < Brightness
         THEN Write("beacon", codes["beacon"] + 1, "rise") /\ UNCHANGED beaconOn
         ELSE pc' = "report" /\ beaconOn' = TRUE /\ UNCHANGED <<codes, hw, faults>>
    /\ UNCHANGED <<loop, board, sphereOn, target, wish, outside>>

\* Mutant: the relay opens before the ramp is over.
FallTooShort == codes["beacon"] <= 1

FallOver == codes["beacon"] = 0

\* ... and BeaconChannel.off(): the ramp down, then the contact.
Fall ==
    /\ pc = "fall"
    /\ IF FallOver THEN pc' = "break" /\ UNCHANGED <<codes, hw, faults>>
                   ELSE Write("beacon", codes["beacon"] - 1, "fall")
    /\ UNCHANGED <<task, outside>>

Break ==
    /\ pc = "break"
    /\ Write("relay", 0, "report")
    /\ beaconOn' = IF pc' = "report" THEN FALSE ELSE beaconOn
    /\ UNCHANGED <<loop, board, sphereOn, target, wish, outside>>

\* _write_channel_telemetry() reads the sensors once more, and can raise.
Report ==
    /\ pc = "report"
    /\ SenseFails \/ (pc' = "cycle" /\ UNCHANGED <<codes, hw, faults>>)
    /\ UNCHANGED <<task, outside>>

-----------------------------------------------------------------------------
(* teardown(): an exception leaves the rest of it undone *)

OffSphere ==
    /\ pc = "off1"
    /\ Write("sphere", 0, "off2")
    /\ loop' = NoTarget
    /\ UNCHANGED <<board, sphereOn, beaconOn, target, wish, outside>>

OffBeacon == pc = "off2" /\ Write("beacon", 0, "off3") /\ UNCHANGED <<task, outside>>

OffRelay == pc = "off3" /\ Write("relay", 0, "off4") /\ UNCHANGED <<task, outside>>

\* LedBoard.close() zeroes once more and swallows the failure.
CloseBoard ==
    /\ pc = "off4"
    /\ pc' = IF stop THEN "stopped" ELSE "setup"
    /\ codes' = Dark
    /\ \/ Send(Dark, Channels) /\ UNCHANGED faults
       \/ /\ faults < MaxFaults /\ faults' = faults + 1
          /\ \E done \in Prefixes : Send(Dark, done)
    /\ UNCHANGED <<task, outside>>

Teardown == OffSphere \/ OffBeacon \/ OffRelay \/ CloseBoard

-----------------------------------------------------------------------------
(* The others *)

\* UpdateSettingCommandPacket, field 18.
CommandTarget(t) ==
    /\ commands < MaxCommands /\ commands' = commands + 1
    /\ setting' = t
    /\ UNCHANGED <<pc, codes, hw, task, flash, stop, faults>>

ClockTurns ==
    /\ flash' = ~flash
    /\ UNCHANGED <<pc, codes, hw, task, setting, stop, commands, faults>>

\* FlightStageTask._stop_motor_tasks().
StopLights ==
    /\ ~stop /\ stop' = TRUE
    /\ UNCHANGED <<pc, codes, hw, task, setting, flash, commands, faults>>

Thread ==
    \/ Setup \/ StopBeforeSetup \/ Stop
    \/ Engage \/ Poll \/ Unconfigured \/ ZeroSphere \/ Update
    \/ Switch \/ Join \/ Close \/ Rise \/ Fall \/ Break \/ Report
    \/ Teardown

Next ==
    \/ Thread
    \/ \E t \in Targets : CommandTarget(t)
    \/ ClockTurns \/ StopLights

Spec == Init /\ [][Next]_vars /\ WF_vars(Thread)

-----------------------------------------------------------------------------
(* Properties *)

\* Between two cycles the outputs are what the task believes and what the schedule and
\* the ground asked for: no code is cached and unsent, the beacon burns at its
\* brightness exactly when the schedule wanted it at the top of the cycle, and the
\* sphere's loop holds the task's target (a target of 0 reached by a command disengages
\* it).  A restart that keeps a latch, or a failed write that goes unnoticed, breaks it.
OutputsAreCommanded ==
    /\ TypeOK
    /\ pc = "cycle" /\ board =>
         /\ hw = codes
         /\ beaconOn = wish
         /\ hw["relay"] = (IF beaconOn THEN On ELSE 0)
         /\ hw["beacon"] = (IF beaconOn THEN Brightness ELSE 0)
         /\ sphereOn => /\ loop \in {target, NoTarget}
                        /\ loop = NoTarget => target = 0 /\ hw["sphere"] = 0
         /\ ~sphereOn => hw["sphere"] = 0 /\ loop = NoTarget

\* beacon_led.py: "on()/off() never let the relay's contacts make or break while current
\* is flowing through the LED" -- and no failed write, retried by the flush of another
\* channel, no teardown and no restart does either.
CurrentlessSwitching ==
    [][hw'["relay"] # hw["relay"] => hw'["beacon"] = 0]_vars

\* The rate limit of the loop is one of the output too: after a failed write the cached
\* code is ahead of the DAC, and the next flush must not make up for several steps.
NoCurrentJump ==
    [][hw'["sphere"] <= hw["sphere"] + MaxStep]_vars

\* A stop at apogee ends with every output dark, unless a transaction fails on the way.
StopDarkens ==
    \A f \in 0..MaxFaults :
        (stop /\ board /\ pc = "cycle" /\ faults = f)
            ~> (faults > f \/ (pc = "stopped" /\ hw = Dark))

=============================================================================
