# ALTAIR flight computer: formal models

TLA+ models of the flight computer in `src/altairfc` (a Python process on a Raspberry Pi
that flies a high-altitude balloon payload), the TLC configurations that check them on small
instances, and TLAPS proofs about every one of its components, for every value of the constants.

- `PROJECT.json` lists the components, the runs, the mutants that show each property can
  fail, the source lines behind every definition, the hazards and the theorems.
- Check one run with `tlc -config MCFlightStage.cfg MCFlightStage`, the proofs of one module
  with `tlapm FlightStageProofs.tla`.

## 1. Inventory of the system

The process is a set of *tasks*, one thread each (`core/task_base.py`), registered with a
scheduler in `main.py`. Tasks do not call one another: they share the `DataStore`, a
dictionary whose single reads and writes are locked and whose pairs of accesses are not.
Two exceptions matter: `FlightStageTask` stops the motor tasks from inside its own cycle, and
three tasks share one `SerialTransport`.

| Component | State it keeps | Operations | What makes it correct |
|---|---|---|---|
| Flight stage machine, `tasks/flight_stage_task.py` | stage, event flags, measured apogee, reference altitudes, a dozen saved instants, the ARM latch, the actuator check | `execute()` every period: poll commands, update apogee and pointing window, `_transition()`, publish `event.*` | stages in order; flags agree with the stage; the cutdown fires, once, and is never held back; a flight that comes down ends in Recovery |
| Command receiver, `tasks/command_receiver_task.py` | byte buffer, its own sequence number | decode a frame, write DataStore keys, judge LAUNCH_OK, answer | the answer says what happened; retransmissions do no harm |
| Task lifecycle, `core/task_base.py`, `core/scheduler.py`, `core/lifecycle.py`, `main.py` | per task: thread, `state`, `_stop_event`, backoff; the shutdown event | setup / execute / teardown / restart with backoff; `stop()`; monitor; `stop_all()` | hardware is released; stops and shutdown end; no false alarms |
| Serial transport, `telemetry/transport.py`, `telemetry/telemetry_task.py` | two queues, the port, the heartbeat gate, the configuration mailbox; four threads | open, send, send_priority, close; reconnect; read/write the modem configuration | order, priority, recovery of the port, a gate that is given back |
| Radio configuration, `tasks/radio_config_task.py` | watchdog deadline; three command keys; the modem's configuration | startup correction, switch on command, rollback when the ground is silent | the modem is never left where nobody listens; published = real |
| Watchdog, `core/watchdog.py` | its thread | `sd_notify` unless a critical task failed | withholds only then |
| Photodiode acquisition, `tasks/photodiode_task.py`, `core/photodiode_stream.py`, batches in `telemetry/telemetry_task.py` | sample buffer, log file, sequence | acquire, log, buffer; peek, send, discard | no sample lost or repeated between log and link |
| Readout hardware, `drivers/uvic_pdro.py` and the drivers under it | GPIO lines, port expander with shadow registers, ADCs, DACs, relays | open, configure, convert, close; `GpsTask` writes the same expander | every line given back, the diode left without bias, samples from the diode |
| Lighting, `tasks/lighting_task.py`, `drivers/led_board.py`, `sphere_led.py`, `beacon_led.py`, `mcp4728_driver.c`, `ads1115.py` | cached DAC codes, loop, latches, target | regulate, flash on schedule, report, switch off | outputs are what was commanded; the relay never switches under current; dark after a stop |
| Pointing and attitude, `tasks/pointing_task.py`, `tasks/pitch_task.py`, `controls/`, `drivers/rw_driver.py` | mode, saved instants, window of rates, serial link | spin up, stabilise, point, desaturate | the wheel is left at rest; no pointing after the window |
| MAVLink, GPS, power, data logger | last readings | read and publish; append CSV | staleness is visible |
| Tunnel, `telemetry/tee_server.py` | client sockets | mirror the stream, feed commands back | a slow client blocks nobody |
| Ground receiver, `src/ground/receiver.py` | byte buffer, sequence per packet | resynchronise, decode, count gaps, send settings | no good frame lost to a bad one |
| Other drivers, configuration, packet layouts | registers, values | I/O, parsing, formats | not control |

Hard behaviour: threads that interleave at every DataStore access (a stage read here and a
key written there belong to different cycles); `stop()` called by two threads; calls into
hardware that never return; `close()` and `open()` of a transport whose threads and queues
outlive them; restarts of single tasks and of the process, which persist nothing; windows,
lockouts and watchdogs that race with the events they watch. `PROJECT.json` has each of these
as a hazard at its line.

## 2. The modules

| Module | Models | State and actions |
|---|---|---|
| `FlightStage` | `FlightStageTask` | the attributes of the task; `Cycle` is one whole `execute()`, with one operator per branch of `_transition()`; `ReceiveCommand`, `UpdateSetting` are what others write into the DataStore |
| `StageSequence` | the promise of its docstring | stage and cutdown; `Advance`, `FireCutdown` |
| `BalloonFlight` | `FlightStage` on a balloon | adds height and phase of the balloon and `Reboot` of the process |
| `CommandFlow` | ground, radio, command receiver and flight stage task around the DataStore keys | one step per key access; frames and answers may be lost and repeated |
| `TaskLifecycle` | `_run_loop()`, `stop()`, `_stop_motor_tasks()`, the monitor, the watchdog, `main()` | a program counter per thread; one step between two looks at shared fields |
| `Transport` | `SerialTransport` with its threads, and its callers | queues, port, gate, program counters of writers, readers, heartbeats; error, close, gate, sleep and reopening of `_handle_disconnect()` are steps of their own, taken by writer and reader |
| `LossyChannel` | the promise of the transport for telemetry | frames sent, last one delivered |
| `RadioConfig` | `RadioConfigTask`, the key writes of the receiver, the modem | keys written, read and cleared one by one; exchanges that may be lost |
| `PhotodiodeStream` | `PhotodiodeTask`, the sample buffer, the batches of `TelemetryTask`, the sample count of the ground receiver | log, buffer, link, the receiver's last number; one step per access to the buffer and per point that can fail |
| `Readout` | constructor, conversions, temperature polls and `close()` of the readout board as `PhotodiodeTask` calls them; `GpsTask` on the same port expander | registers of the chip and the shadow of each owner, lines, inputs, relays, bias; one step per I2C or SPI operation that can fail |
| `Lighting` | `LightingTask` on the drivers of the LED board | cached codes against the outputs of the DAC, the loop, the latches; one step per write, which may send some channels and fail |
| `Pointing` | `PointingTask` with `RWDriver` and the link to the motor controller | mode, ages, window of rates, last speed told and speed of the wheel; one step per cycle or connection phase |
| `FrameStream` | the parser that the command receiver and the ground share, the buffer in front of it and the sequence check behind it | bytes that know their origin; sources that append pieces of frames, loss and damage, one step per turn of the parser's loop |
| `FlightStageProofs`, `CommandProofs`, `TaskLifecycleProofs`, `TransportProofs`, `StreamProofs`, `ReadoutProofs`, `LightingProofs`, `PointingProofs` | theorems about the modules they extend; `CommandProofs` about `CommandFlow` and `RadioConfig`, `StreamProofs` about `PhotodiodeStream` and `FrameStream` | – |

`BalloonFlight` extends `FlightStage` and drives its `Cycle` with the altitudes of a flight.
`CommandFlow` cuts the same `execute()` finer, at its DataStore accesses, and leaves the
flight after Launch out; the bytes in front of it are `FrameStream`'s. `Readout` is the
hardware below the acquisition of `PhotodiodeStream`, with the conversions that module takes as
one step; `Lighting`, `Pointing` and `Readout` each contain the restart loop of
`TaskLifecycle` for their own task. `RadioConfig` takes the exchange with the modem, which `Transport`
has in detail, as one step. `FlightStage` implements `StageSequence`, `Transport` implements
`LossyChannel`, both as refinements under `INSTANCE ... WITH`.

**Time.** No module has a clock. `FlightStage` keeps the *age* of each saved instant,
saturating at `Horizon`, which an assumption puts above every threshold. `RadioConfig` keeps
whether the deadline has passed. `TaskLifecycle` lets a join time out exactly when the joined
thread is in a call that does not return; `Transport` lets the waits of the configuration
exchange time out at any moment, and a sleep between two tries to reopen the port end only when
no other thread is in the middle of what takes it far less than the second a sleep lasts
(`Settled`); what another thread does while one wakes up, opens the port and releases the
heartbeats is interleaved freely. `Pointing` keeps ages in cycles, as `FlightStage` does;
`Lighting` keeps whether the schedule wants the beacon lit now, which may change between any
two steps. `PhotodiodeStream`, `Readout` and `FrameStream` leave time out.

**External parts.** The reaction wheel and its motor controller, the GPIO kernel driver, the
balloon and its cutdown hardware, the launch crew, the operator of
the ground station, the radio link, the LR900P modem and its plug are not in the repository;
they are modelled by what the code assumes or tolerates of them and marked external.

## 3. The runs

| Run | Instance | Shows |
|---|---|---|
| `FlightStage` | altitudes 0..3, lockout 3 cycles, windows 1–2, termination altitude changed in flight, switches on and off, any subset of three sensors up in any cycle | flags agree with the stage and motors stop exactly after Ascent; the apogee covers the cutdown; the pointing window is one-shot; the lockout delays verdicts only; the stage sequence, with one cutdown pulse, is implemented |
| `BalloonFlight` | heights 1..6, lockout 4 cycles, burst window 2, burst from height 5, one restart | a payload that comes down ends in Recovery; a floater above the termination altitude is cut down, also after a restart in the air |
| `CommandFlow` | two commands, two copies each, SEQ modulo 3 | an ACK means applied; a LAUNCH_OK nobody honours is forgotten after a cycle; a rejected one launches only while the machine is being armed; an ARM that arrives while its key is polled and cleared is not wiped out |
| `TaskLifecycle` | a motor task and a critical flight stage task, one call that hangs | sessions are closed and exit releases hardware; no false alarm of the monitor and no ping withheld by the watchdog without a failure; stop, shutdown and critical failures take effect |
| `Transport` | one opening, three telemetry frames through a queue of two, one ACK, one exchange, one unplugging, at most five of these and the close together | lossy but ordered channel; priority frames overtake telemetry; the gate has an owner; the port recovers although two threads close and reopen it |
| `RadioConfig` | two commands out of default, other and refused; one lost write, one lost read | the watchdog guards; published is real; one switch after arming; silence restores the defaults |
| `PhotodiodeStream` | five samples, batches and link queue of two, numbers modulo 4, two log files | recorded before sent and labelled as recorded; nothing dropped before the link; nothing twice; what is buffered is sent |
| `Lighting` | two currents, three DAC codes, three failing transactions, two commands of the ground | outputs are what was commanded; the relay switches without current; a late flush is no jump; a stop darkens |
| `Pointing` | three speeds, three classes of yaw rate with the limits in the order of `settings.toml`, two losses of the link | no speed left behind; at most one cycle too late; pointing only after quiet; desaturation ends |
| `FrameStream` | a tunnel client with three commands, one of whose payloads looks like a sync byte, and the radio with an echo; one byte lost or corrupted | only what was sent, in order and once; a whole frame is lost only to a refused candidate that reached into it; drops are reported; an undamaged stream arrives |
| `Readout` | both readout paths, one backup board, two failing operations, reset line pulled high or low | lines are released and the board is safe at rest whatever fails; what is recorded was converted from the diode |
| `ReadoutEnable` | the same | a counterexample: `GpsTask` takes the ADCs' enable line away (see below) |

The largest are `Readout` (5.7 million states, about two minutes) and `Transport` (1.2 million,
about three minutes); `FrameStream` has 453 264 states, `Pointing` 271 602, `TaskLifecycle` 49 556, `Lighting` 27 328.

Bounds. Each is named in the module and reached in the run. The smallest flight that has every
stage needs four altitudes; a lockout of three cycles is the shortest in which a cutdown and
its confirmation both fit inside it (with two the property about it cannot fail). Two copies of
two commands give a late, a repeated and an overtaken frame. One hung call is enough for both
stoppers to wait; two motor tasks would only repeat the same join. In `Transport` three frames are
needed to fill a queue of two and drop one, so that the order inside the queue, the drop and a
frame that comes back after a disconnection meet; `MaxEvents` = 5 leaves out
only the runs in which more than five of these things happen together. The second opening of the transport has
configurations of its own (below). `SeqMod` is larger than the number of commands in flight, as 256 is. Five
samples with numbers modulo 4 wrap once, and no gap is as long as the modulus, as none of 2^32
samples is. In `Lighting` the third failing transaction is the last retry of the ADC that
disengages the loop, and two codes above zero let a cached code run a step ahead of the
output. In `Pointing` the time to give up is longer than the time to settle, so both ways into
pointing happen. In `FrameStream` numbers modulo two wrap with the third command, and a single missing frame is
the widest gap they can tell; the sequence of the client holds a false sync byte, so a parser that has lost its place finds a
false header. Two failing operations in `Readout` make one fail while another failure is
being cleaned up.

Fairness. The scheduler of the operating system runs every thread that is not blocked: weak
fairness on each thread that a liveness property depends on (in `Transport` the writer, the reader
and the retry of the port), and on the timeouts the code has. Nothing obliges the ground to talk,
a signal to come, a call to fail, the radio to be plugged in or the balloon to be released. In
`BalloonFlight` fairness is on the cycle alone. `Pointing` adds that the wheel follows the
speed it was told; `FrameStream` needs strong fairness of each source, because a source of the
model is held up while the loop of the parser runs, and a thread that is ready again and again
gets its turn; `Readout` checks safety alone.

`CHECK_DEADLOCK FALSE` is set where the system really may stop: the process exits in
`TaskLifecycle`, a closed transport may never be opened again, the task ends after a stop in
`Pointing` and `Readout`, and in `FrameStream` every frame has been sent.

### Where code and documentation disagree

`ReadoutEnable` is the listed one. Two `MCP23017` objects with shadow registers of their own
drive one chip. `GpsTask` (`gps_task.py:80`, `:122`) writes port and direction as they were when
it started; if that was before the readout was opened, the ADCs' enable line becomes an input
again, or is driven low, after `IntegratorDriver` has verified it (`integrator_driver.py:46`:
"communication must not start until this line is high"). From then on every conversion waits
its ten seconds for a signal that does not come and every sample is invalid, until the task is
restarted; no wrong value is recorded, as `SamplesAreOfTheDiode` shows.

Six configurations, kept beside the runs, end in a counterexample to a sentence of the
repository:

- `MCBalloonEarlyBurst.cfg` (module `MCBalloonFlight`): a burst during the lockout whose fall
  is over before the falling window is full is never recognised; the machine stays in Ascent on
  the ground.
- `MCCommandRejected.cfg` (`MCCommandFlow`): `_dispatch()` writes `command.launch_ok` before it
  looks at the stage, so a LAUNCH_OK answered with "rejected" can launch.
- `MCTransportWriter.cfg` (`MCTransport`): `close()` leaves a sentinel behind that ends the
  writer of the next `open()`.
- `MCTransportClose.cfg` (`MCTransport`): `close()` blocks for ever on a full queue whose writer
  has already ended.
- `MCTransportMoved.cfg` (`MCTransport`): a radio that was open, is unplugged and comes back under
  another name is never found again, because `_handle_disconnect()` (`transport.py:477`) reopens
  `self.port` and only the retry for a port that was never open asks `port_resolver`
  (`transport.py:200`: "picked up without a restart").
- `MCRadioRollback.cfg` (`MCRadioConfig`): a rollback whose exchange is lost is never tried
  again.

Others were met while modelling; the models contain the behaviour unless the item says
otherwise.

Flight stage and commands:
- ARM arms the machine although the last preflight check failed (`flight_stage_task.py:257`;
  the comment at line 253 says "only accepted in PREFLIGHT once preflight_ok"). `CommandFlow` does
  what the code does; no property takes a side, `ArmIsNotLost` speaks of an ARM that comes while
  the checks pass.
- LAUNCH_OK and the bypass leave Armed without the actuator checks (line 104: "must all pass").
- A cutdown whose confirmation falls into the lockout is judged after its window and ends in
  Burst (line 162: "if cutdown fires and is confirmed").
- With both switches of `settings.toml` on, the machine is in Ascent seconds after power-up and
  the lockout runs out on the pad (line 389).
- Landing compares the altitude above sea level with a fraction of the apogee (line 469), so a
  landing site high enough is never recognised; the instances put the ground low.
- A changed setting lives in the DataStore and is gone after a restart (line 286).
- An accepted LAUNCH_OK can be cleared by the cycle that honours an earlier one.
- After a restart in the air, `auto_advance` without `bypass_launch_altitude_checks` does not
  reach Ascent for a floating balloon, so it is not cut down; `FloaterIsCutDown` is stated for
  the switches as `settings.toml` has them.

Tasks:
- Every clean `setup()` resets the backoff, so it never grows for a task that fails in
  `execute()` (`task_base.py:132`; line 39 promises "exponential backoff (1 s, 2 s, 4 s ...").
- Only tasks with `critical = True` shut the system down, and `main.py` registers none, while
  `tests/test_scheduler.py:100` asserts it of any task.
- A critical failure does not lead to "a process restart" (`watchdog.py:33`): the monitor sets
  the shutdown event within a second, the watchdog then pings again, `main()` returns with
  status 0, and `flight.service` restarts on failure only.
- `watchdog.py:68` says the pings go on until `stop_all()` finishes; `main.py:369` stops the
  watchdog before `stop_all()`, which may take 5 s for each hung task while `TimeoutStopSec` is
  15 s. Systemd is not modelled.

Transport, radio and frames:
- After a `close()` that gives up its join there can be two writers, and a reconnection cut
  short by `close()` leaves the heartbeat gate shut (`transport.py:40`, `:42`).
- A keepalive that has passed the gate reaches the modem inside an exchange (`transport.py:445`), and
  a thread that reconnects opens the gate in the middle of one (`transport.py:479`): no property
  says that heartbeats stay out of an exchange.
- A thread that sleeps in `_handle_disconnect()` while `close()` is called opens the port once more
  after it (`transport.py:475`).
- Only `SerialException` is caught around the write (`transport.py:438`); that another exception
  ends the writer, and with it all sending, is not modelled.
- `_wait_cfg()` may take the late answer of an earlier exchange (line 376); `RadioConfig`, where
  an exchange is one step, leaves such answers out.
- The three keys of a radio command are written and read one by one (`radio_config_task.py:101`):
  two commands within a cycle give one mixed of both.
- The parsers drop the whole bad frame where the comment says "only the SYNC byte"
  (`ground/receiver.py:624`), and a corrupted length of up to 65535 makes them wait for that
  many bytes and swallow the commands in them: `LostOnlyToRefusal` says exactly this much.
- Two tunnel clients that send at once may mix the bytes of their frames, and both are lost
  (`transport.py:278`); only what was sent is ever executed.
- The buffer between acquisition and telemetry has no bound (`photodiode_stream.py:33`).

Photodiode and readout:
- A batch that spans a restart of `PhotodiodeTask` carries the number of its first sample only
  and is labelled wrongly at the ground; `SentAsRecorded` excludes it. The restart also empties
  the log (`photodiode_task.py:113`), so that samples still in the buffer are sent although
  their record is gone. `DataLoggerTask.setup()` empties its CSV files likewise (`datalogger_task.py:54`).
- An SPI failure in `set_relays()` or `set_voltage()` is logged and nothing else: the diode may
  stay unconnected while `system.photodiode_connected` is 1.
- A conversion waits up to ten seconds for DRDY, twice per cycle, and `stop()` five: a readout in
  reset makes every stop of the task time out.
- `GpsTask.setup()` that fails at the expander does not close the receiver, and a `teardown()`
  whose LED write fails leaves both open; a constructor of `MCP23017` that fails does not close
  its bus. These descriptors are not in the model.
- After the first fix `GpsTask` steps the clock and `main.py:128` renames the log directory; a
  task restarted later makes the old directory anew and logs there, while `system.log_dir` names
  the new one. Not modelled.

Lighting:
- `led_board.py:31` says all channels are written "atomically"; `mcp4728_driver.c` writes one
  after the other, and a failure leaves the first ones changed.
- The first exception in `teardown()` skips the rest of it, so outputs stay on; and after a
  `setup()` failure that is swallowed the beacon can stay lit outside its windows
  (`lighting_task.py:103` promises it dark).
- Without a board the task stays RUNNING for ever (line 221) and never looks for it again.
- With no `sphere_target_current_a` configured the ground's targets are ignored (line 286).

Pointing:
- In `settings.toml:134` the unstable yaw rate (1.0) is below the stabilising one (1.5): a rate
  between them is quiet enough to point and unruly enough to stop pointing.
- A motor controller that falls mute is not noticed; `rw.rpm` keeps its last value.
- An exception while the wheel is ramped down at `close()` leaves the port open.
- Both tasks of the attitude control are disabled in `settings.toml`.

MAVLink (not modelled): `wait_heartbeat()` of the library returns without an exception when it
times out, so that `system.pixhawk_connected` becomes 1 on a silent port (`mavlink_task.py:82`);
and a value that is not finite is published as 0.

## 4. The proofs

Every theorem below is proved for all values of the constants that satisfy the assumptions of
its module: any altitudes, windows, tasks, queue sizes, codes, speeds, readouts, frames, and any
bound on the commands, samples, faults and losses. Each module of proofs states an inductive invariant `IInv`
(`CommandIInv` and `RadioIInv` in `CommandProofs`, `FrameIInv` in `StreamProofs`), proves that `Init` establishes it and that
every action keeps it, one lemma per action, and derives the rest from `Spec => []IInv`
(`Invariance`). Each `IInv` was first checked by TLC on the instance of the run.

| Module | Theorem | Statement |
|---|---|---|
| `FlightStageProofs` | `TypeCorrect` | `Spec => []TypeOK` |
| | `FlagsAgree` | `Spec => []FlagsMatchStage` |
| | `CutdownFiresOnce` | `Spec => []CutdownOnce` |
| | `CutdownCovered` | `Spec => []CutdownBelowApogee` |
| | `MotorsStopped` | `Spec => []MotorsStoppedAfterAscent` |
| | `Implements` | `Spec => ImplementsSequence` (the refinement of `StageSequence`) |
| | `PointingOpensOnce` | `Spec => PointingOneShot` |
| | `LockoutIsForVerdicts` | `Spec => LockoutDelaysVerdictOnly` |
| `CommandProofs` | `SettingsAreApplied` | `MaxSent <= SeqMod => (CommandSpec => []AckMeansApplied)` |
| | `RejectedIsForgotten` | `CommandSpec => RejectedLaunchOnlyWhileArming` |
| | `ModemIsGuarded` | `Spec => []WatchdogGuards` |
| | `PublishedIsTrue` | `Spec => []PublishedIsModem` |
| | `AtMostOneLateSwitch` | `Spec => []OneSwitchAfterArming` |
| `TaskLifecycleProofs` | `EverySessionIsClosed` | `Spec => []SessionsAreClosed` |
| | `AlarmsAreTrue` | `Spec => []NoFalseAlarm` |
| `TransportProofs` | `TypeCorrect` | `Spec => []TypeOK` |
| | `GateIsOwned` | `Spec => [](opens <= 1 => GateHasOwner)` |
| | `PriorityGoesFirst` | `Spec => [](opens <= 1 => PriorityOvertakesTelemetry)` |
| | `TransportIsAChannel` | `MaxOpens = 1 => (Spec => ImplementsChannel)` (the refinement of `LossyChannel`) |
| `StreamProofs` | `SamplesAreKept` | `MaxSamples <= SeqSize + 1 => (Spec => []NoSampleDropped)` |
| | `RecordedBeforeSent` | `Spec => []SentAsRecorded` |
| | `SamplesComeOnce` | `Spec => EachSampleOnce` |
| | `CommandsAreGenuine` | `FrameSpec => []OnlyWhatWasSent` |
| | `OnlyRefusalLoses` | `FrameSpec => LostOnlyToRefusal` |
| | `GapsAreExact` | `FrameSpec => []DropsAreReported` |
| `ReadoutProofs` | `EveryLineIsReleased` | `Spec => []LinesAreReleased` |
| | `BoardIsSafeAtRest` | `Spec => []SafeAtRest` |
| | `OnlyDiodeIsSampled` | `Spec => []SamplesAreOfTheDiode` |
| `LightingProofs` | `LightsAreAsCommanded` | `Spec => []OutputsAreCommanded` |
| | `RelaySwitchesWithoutCurrent` | `Spec => CurrentlessSwitching` |
| | `SphereNeverJumps` | `Spec => NoCurrentJump` |
| `PointingProofs` | `WheelIsToldToStop` | `Spec => []NoSpeedLeftBehind` |
| | `AtMostOneLateCycle` | `Spec => []OneLateCycle` |
| | `PointingIsEarned` | `Spec => PointsAfterQuiet` |

### Assumptions and hypotheses

The assumptions are the `ASSUME`s of the modules, which TLC evaluates on every run: counts and
times are natural numbers, bounds that are divided by or looped over are positive, and
- `FlightStage`, `Pointing`: `Horizon` is large enough to tell every threshold, so that a saturated age is past
  all of them. Altitudes are natural numbers, a real restriction: a site below sea level is
  outside.
- `TaskLifecycle`, `OrderAssumption`: the order of registration has every task once, and the
  order in which the motors are stopped has motor tasks only.
- `Readout`: `Readouts` is the order of the readout paths, each once.

Some theorems have a hypothesis, because without it the statement is false:
- *One opening of the transport* (`opens <= 1`, `MaxOpens = 1`). After a `close()` that gives up
  its join a second `open()` has two writers on one queue; a `close()` that cuts a reconnection
  short leaves the gate shut. `main.py` opens the transport once, and then `opens` never
  exceeds 1. `TypeCorrect` needs no such hypothesis.
- *SEQ does not wrap* (`MaxSent <= SeqMod`, where `SeqMod` is 256). The link of the model may hold an
  answer back for as long as it likes; one that is 256 commands old is taken for the answer to
  the command that has the same SEQ now.
- *Sequence numbers are wide enough* (`MaxSamples <= SeqSize + 1`, where `SeqSize` is 2^32). A gap as long as
  the modulus is a gap of nothing. Only the ground's count of missing samples needs this.
  The count of missing frames (`GapsAreExact`) has no such hypothesis, because 256 frames pass in
  minutes: however often the numbers wrap, the count is exact for every source none of whose single
  gaps is as wide as the numbers (`GapsAreShort`); a loss of 256 frames in a row is not seen.

### The inductive invariants

None of the properties is inductive by itself.

- *Flight stage.* `FlagsMatchStage` says nothing of the two verdict flags before Ascent, so the
  step into Termination could not be shown to leave `burst_detected` down; and "the cutdown
  fired once" is not kept by a step from a state that had fired before Ascent. `IInv` adds
  `VerdictMatchesStage`: in which stages each verdict flag is still down, and that nothing fires
  before Ascent. The proof has a lemma for what `execute()` has computed when it calls
  `_transition()`, one per branch, one per action. The refinement uses the same branches. The
  two action properties need in addition (`WindowInv`) that the pointing flag is up after
  Launch only and that the time of Ascent is kept.
- *Commands.* `Ordered`: the frames on the link, in order, are no older than the setting. `Answers`:
  each answer to a setting carries the SEQ of one that has been applied. `Young`: a key that is
  still set after this cycle's poll was set since the last publish. `Judged`: as long as nothing
  has been published since a LAUNCH_OK was dispatched, a rejection was by the very stage the
  flight stage task still has.
- *Radio.* `Targets`: what is written is one whole command or the defaults; `Known`: where the task
  has nothing in hand, the modem is guarded and published; `NoMoreSwitches`: once it has switched
  while armed it is past the point where the next command is read.
- *Tasks.* `Started`, `Stopped`: which tasks `start_all()` and `stop_all()` have dealt with; `Sessions`:
  where a thread can have a session; `Verdicts`: FAILED is for good; `Watchers`: what the monitor
  and the watchdog saw one step ago is still so.
- *Transport.* `Owned`, `PriorityIsNext`, `InOrder`: the frames written, in the writer's hand, queued and
  sent are in one order; once a waiting priority frame has been overtaken, the writer is not between
  the two queues; a gate that is shut has a thread in an exchange or in a reconnection.
- *Photodiode stream.* The longest: the sample in hand, the buffer, the batch, the link and the
  ground are consecutive parts of one sequence, numbered modulo `SeqSize` within a session. It rests
  on four lemmas about division with remainder.
- *Frames.* `Arriving`: of what the parser has yet to look at, the bytes of each source are in
  the order in which it sent them and belong to frames that come after all those passed on;
  `AtLast`: the ground's counter is at the last frame of each source. That a frame is lost only to
  a refusal needs the types alone: no byte belongs to two frames.
- *Readout.* `Holding`: which lines and devices are open at each point of opening and closing;
  `ResetStays`: what `GpsTask` has read of the chip cannot undo a reset it has caused; `InputsAreSet`: an
  ADC that was not reset converts the diode.
- *Lighting.* `Flushed`: in a cycle, the DAC is as the step before left it; `RelayIsSafe`: a relay that
  some later write will switch carries no current.
- *Pointing.* `QuietIsCounted`: the saved instant of quiet is never older than the quiet itself; a driver without
  its motor object has told the wheel to stop.

For the proofs three models were written differently, with the same behaviour: `Readout` empties its
list of readouts when the integrators are closed and takes the first of what is left, and
`TaskLifecycle` names the step to the next motor task, and a source of `FrameStream` is at a frame
and a byte of it, not at a place in all its frames put together: TLAPS cannot reason about a
concatenation of any length. For the same reason its properties speak of the numbers passed on
as a set. `CommandFlow` and `FrameStream` have names of their own (`CommandSpec`, `FrameTypeOK`),
so that one module of proofs can extend each of them and another.

### Only model-checked

- Liveness under fairness: `FloaterIsCutDown`, `FlightEndsInRecovery`, `ArmIsNotLost`,
  `ShutdownCompletes` and the others of section 3. TLAPS reasons about neither fairness nor `ENABLED` here.
- `BalloonFlight`, whose properties are liveness.

## 5. Not modelled

| Part | Why |
|---|---|
| control laws, PID gains, estimation of attitude | real arithmetic; the mode logic around them is in `Pointing` and `Lighting` with the output left free |
| pitch task, momentum management, servo, goniometer | positions of motors over time, disabled in `settings.toml`; their failure handling is that of `PointingTask` |
| MAVLink, power, most of GPS | read, convert, publish; a source that falls silent is a sensor that is down in `FlightStage` |
| clock step and renaming of the log directory | file system state that no control reads |
| data logger, CPU profile, buzzer, port search | output on a timer |
| tunnel, outgoing side | a mirror with a queue per client that drops its oldest entry when full |
| packet layouts, rates of telemetry packets | formats; `FrameStream` has framing, `PhotodiodeStream` the one packet with state |
| ground console, plots, CSV | user interface |
| configuration parsing | its values are constants of the models |
| systemd | not in the repository; what it does with pings and exit codes is in the list above |

In the modelled parts: the altitude history (only dead code reads it), wording and logging, the
contents of frames, `stop()` inside `RadioConfigTask` (`TaskLifecycle` has the stop of any task),
`config_enabled = false`, `write_config()` (the same shape as `read_config()`), which priority
frame is an ACK and which a heartbeat or a request, what the modem answers and when (in
`Transport` every wait ends with an answer or without), and the noise of
the climb rate on the pad.

## 6. Plan

The order was: flight stage and its balloon, commands, tasks, transport, radio, photodiode
stream, then lighting, pointing, frames and the readout hardware; then the proofs, in the order of
the table. What is left:

1. What still holds of a transport that is reopened: the order of the frames of one writer, and
   the gate once every thread of the earlier `open()` has ended.
2. A weaker hypothesis for `SettingsAreApplied`: SEQ wraps, but no answer outlives 256 commands.
