---------------------------- MODULE RadioConfig ----------------------------
(***************************************************************************)
(* tasks/radio_config_task.py: the task that changes the configuration of   *)
(* the LR900P modem when the ground asks for it, and takes it back to the   *)
(* defaults of settings.toml when the ground then stays silent.             *)
(*                                                                         *)
(* The command comes through three keys of the DataStore, which             *)
(* CommandReceiverTask writes one by one and this task reads and clears one *)
(* by one; every access is a step.  An exchange with the modem is one step  *)
(* that may be lost; the modem and the serial link are external (module     *)
(* Transport has the exchange itself).  config_enabled is true: without it  *)
(* the task does nothing.                                                   *)
(*                                                                         *)
(* The watchdog compares two instants.  The model keeps what the comparisons*)
(* tell: whether the deadline is set and has passed, and whether a contact  *)
(* was recorded since it was set.                                           *)
(***************************************************************************)
EXTENDS Integers, Sequences

CONSTANTS
    Default,         \* the configuration of settings.toml
    Requests,        \* the configurations the ground may ask for
    Limits,          \* the largest value write_config() takes, for each field
    MaxCommands,     \* bound on the RADIO_CONFIG commands
    MaxLostWrites,   \* bound on the writes that do not reach the modem
    MaxLostReads     \* bound on the reads that are not answered

Fields == 1 .. 3     \* data_rate, tx_power, channel, in the order of DATASTORE_KEYS

ASSUME ConfigurationsAssumption ==
    /\ Limits \in [Fields -> Nat]
    /\ Requests \subseteq [Fields -> Nat]
    /\ Default \in [Fields -> Nat] /\ \A i \in Fields : Default[i] <= Limits[i]
ASSUME BoundsAssumption == {MaxCommands, MaxLostWrites, MaxLostReads} \subseteq Nat

VARIABLES
    ground,      \* is the ground still talking?
    commands,    \* RADIO_CONFIG commands so far
    request,     \* CommandReceiverTask: the command it is dispatching
    key,         \* and the next of its keys to write, 0 for none
    keys,        \* command.radio_*
    armed,       \* event.flight_stage >= STAGE_ARMED
    pc,          \* where RadioConfigTask is
    f,           \* the field it reads or clears next
    got,         \* dr, txp, ch of execute()
    pending,     \* did execute() find a command?
    target,      \* the arguments of _switch()
    deadline,    \* _watchdog_deadline: "off", "running" or "passed"
    contact,     \* deadline is set, and last_gs_contact_t > deadline - watchdog_s
    modem,       \* the modem's configuration
    published,   \* radio.*
    lostWrites,  \* writes lost so far
    lostReads,   \* reads lost so far
    abandoned,   \* history: the defaults were to be applied and were not
    unconfirmed, \* history: the last configuration was not read back
    lateSwitches \* history: commands applied while armed, up to 2

receiverVars == <<commands, request, key>>
taskVars == <<pc, f, got, pending, target, deadline>>
modemVars == <<modem, lostWrites, lostReads>>
historyVars == <<abandoned, unconfirmed, lateSwitches>>
vars == <<ground, receiverVars, keys, armed, taskVars, contact, modemVars, published,
          historyVars>>

\* write_config() raises ValueError for any other.
Valid(c) == \A i \in Fields : c[i] <= Limits[i]

None == -1
Nothing == [i \in Fields |-> None]

Init ==
    /\ ground = TRUE /\ armed = FALSE
    /\ commands = 0 /\ request = Default /\ key = 0
    /\ keys = Nothing
    /\ pc = "setup" /\ f = 1 /\ got = Nothing /\ pending = FALSE /\ target = Default
    /\ deadline = "off" /\ contact = FALSE
    /\ modem \in {c \in Requests \union {Default} : \A i \in Fields : c[i] <= Limits[i]}
    /\ published = Nothing
    /\ lostWrites = 0 /\ lostReads = 0
    /\ abandoned = FALSE /\ unconfirmed = TRUE /\ lateSwitches = 0

-----------------------------------------------------------------------------
(* The ground and CommandReceiverTask                                        *)

\* The frame of a RADIO_CONFIG command has been decoded; no field's range is checked.
ReceiveConfig(c) ==
    /\ ground
    /\ key = 0
    /\ commands < MaxCommands
    /\ commands' = commands + 1
    /\ request' = c
    /\ key' = 1
    /\ UNCHANGED <<ground, keys, armed, taskVars, contact, modemVars, published, historyVars>>

WriteKey ==
    /\ key \in Fields
    /\ keys' = [keys EXCEPT ![key] = request[key]]
    /\ key' = key + 1
    /\ UNCHANGED <<ground, commands, request, armed, taskVars, contact, modemVars, published,
                   historyVars>>

\* The contact is recorded after the keys.
RecordContact ==
    /\ key = 4
    /\ key' = 0
    /\ contact' = (deadline # "off")
    /\ UNCHANGED <<ground, commands, request, keys, armed, taskVars, modemVars, published,
                   historyVars>>

Receiver == WriteKey \/ RecordContact

\* Any other command is a contact, too.
OtherCommand ==
    /\ ground
    /\ key = 0
    /\ contact' = (deadline # "off")
    /\ UNCHANGED <<ground, receiverVars, keys, armed, taskVars, modemVars, published,
                   historyVars>>

GroundFallsSilent ==
    /\ ground
    /\ ground' = FALSE
    /\ UNCHANGED <<receiverVars, keys, armed, taskVars, contact, modemVars, published,
                   historyVars>>

Arm ==
    /\ ~armed
    /\ armed' = TRUE
    /\ UNCHANGED <<ground, receiverVars, keys, taskVars, contact, modemVars, published,
                   historyVars>>

\* watchdog_s seconds have passed.
DeadlinePasses ==
    /\ deadline = "running"
    /\ deadline' = "passed"
    /\ UNCHANGED <<ground, receiverVars, keys, armed, pc, f, got, pending, target, contact,
                   modemVars, published, historyVars>>

-----------------------------------------------------------------------------
(* RadioConfigTask.setup()                                                   *)

\* The configuration is read, published, and corrected when it is not the default.
SetupReads ==
    /\ pc = "setup"
    /\ published' = modem
    /\ unconfirmed' = FALSE
    /\ pc' = IF modem = Default THEN "top" ELSE "write"
    /\ target' = Default
    /\ pending' = FALSE
    /\ UNCHANGED <<ground, receiverVars, keys, armed, f, got, deadline, contact, modemVars,
                   abandoned, lateSwitches>>

\* The port is not open, or the modem does not answer: nothing is tried again.
SetupGivesUp ==
    /\ pc = "setup"
    /\ lostReads < MaxLostReads
    /\ lostReads' = lostReads + 1
    /\ pc' = "top"
    /\ abandoned' = (modem # Default)
    /\ unconfirmed' = TRUE
    /\ UNCHANGED <<ground, receiverVars, keys, armed, f, got, pending, target, deadline,
                   contact, modem, lostWrites, published, lateSwitches>>

-----------------------------------------------------------------------------
(* RadioConfigTask.execute(): the watchdog, the stage, the keys              *)

\* Mutant: the watchdog is looked at after the stage, with the commands.
ExpiredBelowArmed == deadline = "passed" /\ ~contact /\ ~armed

Expired == deadline = "passed" /\ ~contact

CheckWatchdog ==
    /\ pc = "top"
    /\ pending' = FALSE
    /\ \/ /\ Expired
          /\ deadline' = "off"
          /\ target' = Default
          /\ pc' = "write"
          /\ UNCHANGED contact
       \/ /\ contact
          /\ deadline' = "running"
          /\ contact' = FALSE
          /\ pc' = "stage"
          /\ UNCHANGED target
       \/ /\ ~Expired /\ ~contact
          /\ pc' = "stage"
          /\ UNCHANGED <<deadline, contact, target>>
    /\ UNCHANGED <<ground, receiverVars, keys, armed, f, got, modemVars, published,
                   historyVars>>

\* Mutant: commands are not discarded once armed.
BlockedNever == FALSE

Blocked == armed

CheckStage ==
    /\ pc = "stage"
    /\ pc' = IF Blocked THEN "clear" ELSE "read"
    /\ f' = 1
    /\ UNCHANGED <<ground, receiverVars, keys, armed, got, pending, target, deadline, contact,
                   modemVars, published, historyVars>>

\* A command is there when none of the three reads was None.
ReadKey ==
    /\ pc = "read"
    /\ got' = [got EXCEPT ![f] = keys[f]]
    /\ f' = IF f = 3 THEN 1 ELSE f + 1
    /\ pending' = (f = 3 /\ \A i \in Fields : got'[i] # None)
    /\ pc' = IF f < 3 THEN "read" ELSE IF pending' THEN "clear" ELSE "top"
    /\ UNCHANGED <<ground, receiverVars, keys, armed, target, deadline, contact, modemVars,
                   published, historyVars>>

\* The end of _clear_command_keys() is followed by the wait for the ACK to go out.
ClearKey ==
    /\ pc = "clear"
    /\ keys' = [keys EXCEPT ![f] = None]
    /\ f' = IF f = 3 THEN 1 ELSE f + 1
    /\ pc' = IF f < 3 THEN "clear" ELSE IF pending THEN "write" ELSE "top"
    /\ target' = IF pending THEN got ELSE target
    /\ UNCHANGED <<ground, receiverVars, armed, got, pending, deadline, contact, modemVars,
                   published, historyVars>>

-----------------------------------------------------------------------------
(* _switch(), and what execute() does after it                               *)

\* write_config() raises: the task is restarted through setup().
WriteRaises ==
    /\ pc = "write"
    /\ ~Valid(target)
    /\ pc' = "setup"
    /\ UNCHANGED <<ground, receiverVars, keys, armed, f, got, pending, target, deadline,
                   contact, modemVars, published, historyVars>>

WriteReachesModem ==
    /\ pc = "write"
    /\ Valid(target)
    /\ modem' = target
    /\ pc' = "confirm"
    /\ abandoned' = (abandoned /\ target # Default)
    /\ lateSwitches' = IF pending /\ armed /\ lateSwitches < 2 THEN lateSwitches + 1
                                                              ELSE lateSwitches
    /\ UNCHANGED <<ground, receiverVars, keys, armed, f, got, pending, target, deadline,
                   contact, lostWrites, lostReads, published, unconfirmed>>

\* The exchange times out before the modem got the request; the caller goes on all the same.
WriteIsLost ==
    /\ pc = "write"
    /\ Valid(target)
    /\ lostWrites < MaxLostWrites
    /\ lostWrites' = lostWrites + 1
    /\ pc' = "confirm"
    /\ abandoned' = (abandoned \/ (target = Default /\ modem # Default))
    /\ UNCHANGED <<ground, receiverVars, keys, armed, f, got, pending, target, deadline,
                   contact, modem, lostReads, published, unconfirmed, lateSwitches>>

\* Mutant: what was asked for is published, not what was read back.
ReadBackRequested == target

ReadBack == modem

\* Mutant: the watchdog is not started.
DeadlineNotStarted == IF target = Default THEN "off" ELSE deadline

\* After a command, the watchdog is off for the defaults and set anew for anything else.
DeadlineAfter == IF target = Default THEN "off" ELSE "running"

Finish ==
    IF pending THEN deadline' = DeadlineAfter /\ contact' = FALSE
               ELSE UNCHANGED <<deadline, contact>>

Confirm ==
    /\ pc = "confirm"
    /\ \/ published' = ReadBack /\ unconfirmed' = FALSE /\ UNCHANGED lostReads
       \/ /\ lostReads < MaxLostReads
          /\ lostReads' = lostReads + 1
          /\ unconfirmed' = TRUE
          /\ UNCHANGED published
    /\ Finish
    /\ pc' = "top"
    /\ UNCHANGED <<ground, receiverVars, keys, armed, f, got, pending, target, modem,
                   lostWrites, abandoned, lateSwitches>>

Task ==
    \/ SetupReads \/ SetupGivesUp
    \/ CheckWatchdog \/ CheckStage \/ ReadKey \/ ClearKey
    \/ WriteRaises \/ WriteReachesModem \/ WriteIsLost \/ Confirm

Next ==
    \/ \E c \in Requests : ReceiveConfig(c)
    \/ Receiver
    \/ OtherCommand
    \/ GroundFallsSilent
    \/ Arm
    \/ DeadlinePasses
    \/ Task

\* The two tasks run and time passes; the ground need not talk, nor the machine be armed.
Fairness == WF_vars(Receiver) /\ WF_vars(Task) /\ WF_vars(DeadlinePasses)

Spec == Init /\ [][Next]_vars /\ Fairness

-----------------------------------------------------------------------------
(* Properties                                                                *)

\* Every key, every local and the modem's configuration keep their type, and no value that
\* write_config() refuses gets to the modem, although nobody checks a command before it.
TypeOK ==
    /\ ground \in BOOLEAN /\ armed \in BOOLEAN
    /\ commands \in 0 .. MaxCommands
    /\ request \in Requests \union {Default} /\ key \in 0 .. 4
    /\ keys \in [Fields -> Nat \union {None}] /\ got \in [Fields -> Nat \union {None}]
    /\ pc \in {"setup", "top", "stage", "read", "clear", "write", "confirm"}
    /\ f \in Fields /\ pending \in BOOLEAN
    /\ pc = "write" => target \in [Fields -> Nat]
    /\ deadline \in {"off", "running", "passed"} /\ contact \in BOOLEAN
    /\ \A i \in Fields : modem[i] \in 0 .. Limits[i]
    /\ published \in [Fields -> Nat \union {None}]
    /\ lostWrites \in 0 .. MaxLostWrites /\ lostReads \in 0 .. MaxLostReads
    /\ abandoned \in BOOLEAN /\ unconfirmed \in BOOLEAN /\ lateSwitches \in 0 .. 2

\* Between two cycles a modem that is off the defaults has a watchdog that will take it
\* back; the only exception is a switch to the defaults that failed (execute() and setup()
\* do not try it again).
WatchdogGuards ==
    /\ TypeOK
    /\ pc = "top" /\ modem # Default => deadline # "off" \/ abandoned

\* radio.*, from which TelemetryTask takes its rate, is what the modem really has: however
\* writes and reads fail, unless the last configuration could not be read back.
PublishedIsModem == pc = "top" => published = modem \/ unconfirmed

\* "Blocked when flight stage >= STAGE_ARMED": the command that is being carried out when
\* the machine is armed may still switch the modem, and no other one.
OneSwitchAfterArming == lateSwitches <= 1

\* When the ground falls silent the modem returns to the defaults, also once armed, and
\* whatever commands were half written or refused before.
SilenceRestoresDefaults == ~ground ~> (modem = Default \/ abandoned)

\* "If the watchdog expires with no GS contact, the config rolls back to the settings.toml
\* defaults": once it has expired and nobody talks, the modem gets back to them.
RollsBack == (Expired /\ ~ground) ~> (modem = Default)
=============================================================================
