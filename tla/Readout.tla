------------------------------ MODULE Readout ------------------------------
(***************************************************************************)
(* The photodiode readout board and who holds what of it: the constructor     *)
(* and the close() of UVICPDRO as PhotodiodeTask calls them, with a failure    *)
(* at every step, and the port expander that the board shares with GpsTask.    *)
(* Each of the two tasks has an MCP23017 object of its own for the one chip,   *)
(* with shadow registers that it read when it was constructed, and writes      *)
(* whole ports from them.                                                   *)
(*                                                                         *)
(* Port A only, with the pins of the integrators as one. The descriptor of     *)
(* the GPS receiver and the sample log change no step and are left out.       *)
(***************************************************************************)
EXTENDS Naturals, SequencesExt

CONSTANTS
    Readouts,    \* the readout paths in the order in which they are opened
    BackupCs,    \* the chip select lines of the backup boards
    MaxFaults    \* bound on the I2C, SPI and GPIO operations that fail

Paths == ToSet(Readouts)

ASSUME ConstantsAssumption ==
    /\ Readouts \in Seq(Paths) /\ Readouts # <<>> /\ IsInjective(Readouts)
    /\ IsFiniteSet(BackupCs) /\ MaxFaults \in Nat

Pins == {"led", "pdReset", "integrators"}
Tasks == {"photodiode", "gps"}
Inputs == {"reset", "tia", "temperature"}

VARIABLES
    dir,      \* the pins of the chip that are outputs (IODIRA)
    latch,    \* the pins whose output latch is high
    pulled,   \* the pins that are high while nobody drives them
    shadow,   \* task -> the _iodir and _gpio of its MCP23017
    ppc,      \* where the photodiode task is
    todo,     \* the readouts that the loop it is in has still to visit
    held,     \* the backup boards' chip selects that are held high
    adcs,     \* the readouts whose ADC is open
    dacs,     \* the readouts whose DAC is open
    mux,      \* readout -> the input its ADC is configured for
    relay,    \* readout -> is its signal path closed?
    bias,     \* readout -> has its DAC a bias?
    missed,   \* history: the readouts whose last way to the safe state failed
    taken,    \* readout -> the input that the code read in this cycle is from
    gpc,      \* where the GPS task is
    stopped,  \* the tasks whose stop event is set
    faults

chip == <<dir, latch, pulled>>
lines == <<held, adcs, dacs>>
analog == <<mux, relay, bias, missed, taken>>
vars == <<chip, shadow, ppc, todo, lines, analog, gpc, stopped, faults>>

TypeOK ==
    /\ dir \subseteq Pins /\ latch \subseteq Pins /\ pulled \subseteq Pins
    /\ shadow \in [Tasks -> [dir : SUBSET Pins, gpio : SUBSET Pins]]
    /\ ToSet(todo) \subseteq Paths
    /\ held \subseteq BackupCs /\ adcs \subseteq Paths /\ dacs \subseteq Paths
    /\ mux \in [Paths -> Inputs] /\ taken \in [Paths -> Inputs \cup {"none"}]
    /\ relay \in [Paths -> BOOLEAN] /\ bias \in [Paths -> BOOLEAN]
    /\ missed \subseteq Paths /\ stopped \subseteq Tasks /\ faults \in 0..MaxFaults

\* Power-up: every pin of the chip is an input.
Init ==
    /\ dir = {} /\ latch = {} /\ pulled \in {{}, {"pdReset"}}
    /\ shadow = [t \in Tasks |-> [dir |-> {}, gpio |-> {}]]
    /\ ppc = "hold" /\ todo = <<>> /\ held = {} /\ adcs = {} /\ dacs = {}
    /\ mux = [r \in Paths |-> "reset"] /\ relay = [r \in Paths |-> FALSE]
    /\ bias = [r \in Paths |-> FALSE] /\ missed = {} /\ taken = [r \in Paths |-> "none"]
    /\ gpc = "open" /\ stopped = {} /\ faults = 0

Fault == faults < MaxFaults /\ faults' = faults + 1

-----------------------------------------------------------------------------
(* The expander *)

High(pin) == pin \in (IF pin \in dir THEN latch ELSE pulled)
Enabled == High("pdReset")

\* The registers of the chip change; an ADC whose enable line is low is in reset.
Drive(newDir, newLatch) ==
    LET up == IF "pdReset" \in newDir THEN "pdReset" \in newLatch ELSE "pdReset" \in pulled IN
    /\ dir' = newDir /\ latch' = newLatch
    /\ mux' = IF up THEN mux ELSE [r \in Paths |-> "reset"]
    /\ relay' = IF up THEN relay ELSE [r \in Paths |-> FALSE]
    /\ UNCHANGED <<pulled, bias, missed, taken>>

Remember(t, newDir, newGpio) == shadow' = [shadow EXCEPT ![t] = [dir |-> newDir, gpio |-> newGpio]]

\* The two halves of __init__(): IODIR, then GPIO, which reads the pins.
ReadDir(t) == Remember(t, dir, {}) /\ UNCHANGED <<chip, analog>>
ReadGpio(t) == Remember(t, shadow[t].dir, {p \in Pins : High(p)}) /\ UNCHANGED <<chip, analog>>

\* set_output() and set(): the pin in the shadow, and the shadow into the chip.
SetOutput(t, pin) ==
    /\ Remember(t, shadow[t].dir \cup {pin}, shadow[t].gpio)
    /\ Drive(shadow[t].dir \cup {pin}, latch)

Port(t, pin, on) == IF on THEN shadow[t].gpio \cup {pin} ELSE shadow[t].gpio \ {pin}
SetPin(t, pin, on) == Remember(t, shadow[t].dir, Port(t, pin, on)) /\ Drive(dir, Port(t, pin, on))

\* The write of either fails: the shadow has changed before it, the chip has not.
SetOutputFails(t, pin) ==
    Fault /\ Remember(t, shadow[t].dir \cup {pin}, shadow[t].gpio) /\ UNCHANGED <<chip, analog>>
SetPinFails(t, pin, on) ==
    Fault /\ Remember(t, shadow[t].dir, Port(t, pin, on)) /\ UNCHANGED <<chip, analog>>

-----------------------------------------------------------------------------
(* PhotodiodeTask.setup(): the constructor of UVICPDRO, step by step *)

\* What the constructor has opened when a step fails: the integrators are reset only if
\* there is a driver for them.
CloseFrom == IF ppc \in {"hold", "dir", "gpio", "outReset", "outIntegrators", "reset",
                         "enable", "verify"} THEN "closeIo" ELSE "closeIntegrators"

\* A step raises.
Raise == ppc' = CloseFrom /\ UNCHANGED <<todo, lines, gpc, stopped>>

\* A step that ends in one I2C operation.
Bus(next) == ppc' = next /\ UNCHANGED <<todo, lines, gpc, stopped, faults>>

HoldBackup(cs) ==
    /\ ppc = "hold" /\ cs \in BackupCs \ held
    /\ held' = held \cup {cs}
    /\ ppc' = IF held' = BackupCs THEN "dir" ELSE "hold"
    /\ UNCHANGED <<todo, chip, shadow, adcs, dacs, analog, gpc, stopped, faults>>

OpenExpander ==
    \/ ppc = "dir" /\ ReadDir("photodiode") /\ Bus("gpio")
    \/ ppc = "gpio" /\ ReadGpio("photodiode") /\ Bus("outReset")

\* IntegratorDriver: every pin an output, the integrators reset, the ADCs enabled.
OpenIntegrators ==
    \/ ppc = "outReset" /\ SetOutput("photodiode", "pdReset") /\ Bus("outIntegrators")
    \/ ppc = "outIntegrators" /\ SetOutput("photodiode", "integrators") /\ Bus("reset")
    \/ ppc = "reset" /\ SetPin("photodiode", "integrators", FALSE) /\ Bus("enable")
    \/ ppc = "enable" /\ SetPin("photodiode", "pdReset", TRUE) /\ Bus("verify")

VerifyEnabled ==
    /\ ppc = "verify"
    /\ IF Enabled THEN ppc' = "adc" /\ todo' = Readouts ELSE ppc' = "closeIo" /\ UNCHANGED todo
    /\ UNCHANGED <<chip, shadow, lines, analog, gpc, stopped, faults>>

\* An SPI write to an ADC of which nobody learns whether it arrived: it is lost if the
\* transfer fails, which is logged, or the ADC is in reset.
Lost == Fault \/ (~Enabled /\ UNCHANGED faults)
Arrives == Enabled /\ UNCHANGED faults

OpenAdc ==
    /\ ppc = "adc"
    /\ adcs' = adcs \cup {Head(todo)}
    /\ \/ Arrives /\ mux' = [mux EXCEPT ![Head(todo)] = "reset"]
                  /\ relay' = [relay EXCEPT ![Head(todo)] = FALSE]
       \/ Lost /\ UNCHANGED <<mux, relay>>
    /\ ppc' = "dac"
    /\ UNCHANGED <<todo, chip, shadow, held, dacs, bias, missed, taken, gpc, stopped>>

OpenDac ==
    /\ ppc = "dac"
    /\ dacs' = dacs \cup {Head(todo)}
    /\ ppc' = "zero"
    /\ UNCHANGED <<todo, chip, shadow, held, adcs, analog, gpc, stopped, faults>>

\* Mutant: the ADC is left open.
CloseHalfKept == adcs

\* What is still open of the ADCs when the DAC of a readout cannot be opened.
CloseHalf == adcs \ {Head(todo)}

OpenDacFails ==
    /\ ppc = "dac" /\ Fault
    /\ adcs' = CloseHalf
    /\ ppc' = "closeIntegrators"
    /\ UNCHANGED <<todo, chip, shadow, held, dacs, analog, gpc, stopped>>

\* set_relays(0) and set_voltage(0): each may fail without anybody knowing.
ToSafe(r) ==
    \/ /\ relay' = [relay EXCEPT ![r] = FALSE] /\ bias' = [bias EXCEPT ![r] = FALSE]
       /\ missed' = missed \ {r} /\ UNCHANGED <<mux, taken, faults>>
    \/ /\ Fault /\ missed' = missed \cup {r}
       /\ relay' \in {relay, [relay EXCEPT ![r] = FALSE]}
       /\ bias' \in {bias, [bias EXCEPT ![r] = FALSE]}
       /\ UNCHANGED <<mux, taken>>

\* The loop goes on with the next readout, or is over.
Onward(again, over, next) ==
    IF Tail(todo) # <<>> THEN ppc' = again /\ todo' = Tail(todo) ELSE ppc' = over /\ todo' = next

Zero ==
    /\ ppc = "zero"
    /\ ToSafe(Head(todo)) /\ Onward("adc", "prepare", Readouts)
    /\ UNCHANGED <<chip, shadow, lines, gpc, stopped>>

\* configure_input(): fails with the input changed or not.
Configure(r, input) == mux' = IF Enabled THEN [mux EXCEPT ![r] = input] ELSE mux
ConfigureFails(r, input) == Fault /\ (Configure(r, input) \/ UNCHANGED mux)

\* A bias and a path are lost unnoticed when the transfer fails.
SetBias(r) == bias' \in {bias, [bias EXCEPT ![r] = TRUE]}
SetSignalPaths(r) == relay' \in {relay, [relay EXCEPT ![r] = Enabled]}

\* The rest of setup(): bias, relays and input of each readout.
Prepare ==
    /\ ppc = "prepare"
    /\ SetBias(Head(todo)) /\ SetSignalPaths(Head(todo))
    /\ \/ /\ Configure(Head(todo), "tia") /\ UNCHANGED faults
          /\ Onward("prepare", "log", <<>>)
       \/ /\ ConfigureFails(Head(todo), "tia")
          /\ ppc' = "closeIntegrators" /\ UNCHANGED todo
    /\ UNCHANGED <<chip, shadow, lines, missed, taken, gpc, stopped>>

OpenLog ==
    /\ ppc = "log"
    /\ ppc' = "sample" /\ todo' = Readouts
    /\ UNCHANGED <<chip, shadow, lines, analog, gpc, stopped, faults>>

\* A GPIO line cannot be claimed, the bus fails, or the sample log cannot be opened.
SetupFails ==
    /\ \/ /\ ppc \in {"hold", "dir", "gpio", "verify", "adc", "log"}
          /\ Fault /\ UNCHANGED <<chip, shadow, analog>>
       \/ ppc = "outReset" /\ SetOutputFails("photodiode", "pdReset")
       \/ ppc = "outIntegrators" /\ SetOutputFails("photodiode", "integrators")
       \/ ppc = "reset" /\ SetPinFails("photodiode", "integrators", FALSE)
       \/ ppc = "enable" /\ SetPinFails("photodiode", "pdReset", TRUE)
    /\ Raise

-----------------------------------------------------------------------------
(* PhotodiodeTask.execute() and teardown() *)

\* One conversion of each ADC as it is configured. An ADC in reset never signals that
\* it is ready; the edges of earlier resets and conversions have been drained.
Convert ==
    /\ ppc = "sample" /\ (todo = Readouts => "photodiode" \notin stopped)
    /\ \/ Arrives /\ taken' = [taken EXCEPT ![Head(todo)] = mux[Head(todo)]]
       \/ Lost /\ taken' = [taken EXCEPT ![Head(todo)] = "none"]
    /\ Onward("sample", "record", <<>>)
    /\ UNCHANGED <<chip, shadow, lines, mux, relay, bias, missed, gpc, stopped>>

\* The codes are logged and buffered, or the log cannot be written. Now and then the
\* temperatures follow: of both boards, then of both diodes.
Record ==
    /\ ppc = "record" /\ taken' = [r \in Paths |-> "none"]
    /\ \/ ppc' = "sample" /\ todo' = Readouts /\ UNCHANGED faults
       \/ ppc' = "temperatures" /\ todo' = Readouts \o Readouts /\ UNCHANGED faults
       \/ Fault /\ ppc' = "closeIntegrators" /\ UNCHANGED todo
    /\ UNCHANGED <<chip, shadow, lines, mux, relay, bias, missed, gpc, stopped>>

\* Each configures the ADC for another input, or fails to, and converts, which leaves
\* nothing but a count of failures.
ReadThermistor ==
    /\ ppc = "temperatures"
    /\ \/ Configure(Head(todo), "temperature") /\ UNCHANGED faults
       \/ ConfigureFails(Head(todo), "temperature")
    /\ Onward("temperatures", "restore", Readouts)
    /\ UNCHANGED <<chip, shadow, lines, relay, bias, missed, taken, gpc, stopped>>

\* Mutant: a failure to restore the input is not raised.
RestoreFailedGoesOn == Onward("restore", "sample", Readouts)

RestoreFailed == ppc' = "closeIntegrators" /\ UNCHANGED todo

RestoreInput ==
    /\ ppc = "restore"
    /\ \/ /\ Configure(Head(todo), "tia") /\ UNCHANGED faults
          /\ Onward("restore", "sample", Readouts)
       \/ ConfigureFails(Head(todo), "tia") /\ RestoreFailed
    /\ UNCHANGED <<chip, shadow, lines, relay, bias, missed, taken, gpc, stopped>>

StopPhotodiode ==
    /\ ppc = "sample" /\ todo = Readouts /\ "photodiode" \in stopped
    /\ ppc' = "closeIntegrators"
    /\ UNCHANGED <<todo, chip, shadow, lines, analog, gpc, stopped, faults>>

\* Where _close_resources() goes on when the integrators cannot be reset.
\* Mutant: the exception is not caught there.
ResetFailedLeaves == "closeIo"

ResetFailed == "closeReadout"

CloseIntegrators ==
    /\ ppc = "closeIntegrators"
    /\ todo' = <<>>
    /\ \/ SetPin("photodiode", "integrators", FALSE) /\ ppc' = "closeReadout" /\ UNCHANGED faults
       \/ SetPinFails("photodiode", "integrators", FALSE) /\ ppc' = ResetFailed
    /\ UNCHANGED <<lines, gpc, stopped>>

\* The readouts are closed in the order in which they were opened.
CloseReadout ==
    LET open == {i \in DOMAIN Readouts : Readouts[i] \in adcs \cap dacs} IN
    /\ ppc = "closeReadout"
    /\ \/ open = {} /\ ppc' = "closeIo" /\ UNCHANGED <<adcs, dacs, analog, faults>>
       \/ \E i \in open :
            /\ \A j \in open : i <= j
            /\ ToSafe(Readouts[i])
            /\ adcs' = adcs \ {Readouts[i]} /\ dacs' = dacs \ {Readouts[i]}
            /\ UNCHANGED ppc
    /\ UNCHANGED <<todo, chip, shadow, held, gpc, stopped>>

\* The expander, whose close() touches no pin, and then the holds.
CloseIo ==
    /\ ppc = "closeIo"
    /\ held' = {} /\ ppc' = "down" /\ todo' = <<>>
    /\ UNCHANGED <<chip, shadow, adcs, dacs, analog, gpc, stopped, faults>>

\* _run_loop(): from the start after a back-off, unless it was told to stop.
Restart ==
    /\ ppc = "down"
    /\ ppc' = IF "photodiode" \in stopped THEN "end" ELSE "hold"
    /\ UNCHANGED <<todo, chip, shadow, lines, analog, gpc, stopped, faults>>

Photodiode ==
    \/ \E cs \in BackupCs : HoldBackup(cs)
    \/ OpenExpander \/ OpenIntegrators \/ VerifyEnabled \/ OpenAdc \/ OpenDac \/ OpenDacFails
    \/ Zero \/ Prepare \/ OpenLog \/ SetupFails \/ Convert \/ Record \/ ReadThermistor
    \/ RestoreInput \/ StopPhotodiode
    \/ CloseIntegrators \/ CloseReadout \/ CloseIo \/ Restart

-----------------------------------------------------------------------------
(* GpsTask *)

Gps(next) == gpc' = next /\ UNCHANGED <<ppc, todo, lines, stopped>>

GpsSetup ==
    \/ gpc = "open" /\ ReadDir("gps") /\ Gps("gpio") /\ UNCHANGED faults
    \/ gpc = "gpio" /\ ReadGpio("gps") /\ Gps("out") /\ UNCHANGED faults
    \/ gpc = "out" /\ SetOutput("gps", "led") /\ Gps("run") /\ UNCHANGED faults

\* The receiver or the chip does not answer: setup() raises, and there is no teardown().
GpsSetupFails ==
    /\ \/ gpc \in {"open", "gpio"} /\ Fault /\ UNCHANGED <<chip, shadow, analog>>
       \/ gpc = "out" /\ SetOutputFails("gps", "led")
    /\ Gps("down")

\* A fix: the LED shows whether it is valid.
ShowFix ==
    /\ gpc = "run" /\ "gps" \notin stopped
    /\ \E valid \in BOOLEAN :
         \/ SetPin("gps", "led", valid) /\ Gps("run") /\ UNCHANGED faults
         \/ SetPinFails("gps", "led", valid) /\ Gps("off")

StopGps == gpc = "run" /\ "gps" \in stopped /\ Gps("off") /\ UNCHANGED <<chip, shadow, analog, faults>>

GpsTeardown ==
    /\ gpc = "off"
    /\ \/ SetPin("gps", "led", FALSE) /\ UNCHANGED faults
       \/ SetPinFails("gps", "led", FALSE)
    /\ Gps("down")

GpsRestart ==
    /\ gpc = "down"
    /\ Gps(IF "gps" \in stopped THEN "end" ELSE "open")
    /\ UNCHANGED <<chip, shadow, analog, faults>>

GpsThread == GpsSetup \/ GpsSetupFails \/ ShowFix \/ StopGps \/ GpsTeardown \/ GpsRestart

\* stop_all() reaches the task.
Stop(t) ==
    /\ stopped' = stopped \cup {t}
    /\ UNCHANGED <<chip, shadow, ppc, todo, lines, analog, gpc, faults>>

Next == Photodiode \/ GpsThread \/ \E t \in Tasks : Stop(t)

Spec == Init /\ [][Next]_vars

-----------------------------------------------------------------------------
(* Properties *)

AtRest == ppc \in {"down", "end"}

\* Whatever fails and wherever, a task that is down has given back every GPIO line, so
\* that its next setup() can claim them, and no device of the board is open while a
\* backup board's chip select floats.
LinesAreReleased ==
    /\ TypeOK
    /\ AtRest => held = {} /\ adcs = {} /\ dacs = {}
    /\ adcs \cup dacs # {} => held = BackupCs

\* A board that nobody drives has its relays open and no bias, whichever step of the
\* opening or the closing failed, except where the very write that should have done it was
\* lost.
SafeAtRest == AtRest => \A r \in Paths \ missed : ~relay[r] /\ ~bias[r]

\* What is recorded as a photodiode sample was converted from the photodiode: no code of
\* a cycle comes from another input of its ADC, after every poll of the temperatures and
\* whatever the other owner of the expander has done to the reset line in the meantime.
SamplesAreOfTheDiode == \A r \in Paths : taken[r] \in {"none", "tia"}

\* uvic_pdro.py and integrator_driver.py: no SPI command before the enable line is high.
AdcsStayEnabled ==
    ppc \in {"adc", "zero", "prepare", "sample", "temperatures", "restore"} => Enabled

=============================================================================
