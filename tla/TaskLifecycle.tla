--------------------------- MODULE TaskLifecycle ---------------------------
(***************************************************************************)
(* core/task_base.py, core/scheduler.py, core/watchdog.py and the shutdown   *)
(* of main.py: the threads of the tasks, with their setup, execute, teardown *)
(* and restarts, those that watch them, the monitor and the watchdog, and     *)
(* those that stop them.  Two threads call BaseTask.stop(): main,           *)
(* through stop_all(), and the flight stage task, which stops the motor     *)
(* tasks in the middle of an execute() of its own.                          *)
(*                                                                         *)
(* Time is left out.  A call that takes longer than a join waits is `hung': *)
(* it may never return, and only then does the join time out.               *)
(***************************************************************************)
EXTENDS Integers, Sequences, FiniteSets, SequencesExt

CONSTANTS
    Order,        \* the registered tasks, in the order of registration
    Critical,     \* those with critical = True
    StageTask,    \* the task that stops the motor tasks
    MotorOrder,   \* the tasks it stops, in its order
    BackoffMax,   \* _RESTART_BACKOFF_MAX; the base is 1
    MaxHung       \* bound on the calls that hang

Tasks == ToSet(Order)
Motors == ToSet(MotorOrder)

ASSUME OrderAssumption ==
    /\ Order \in Seq(Tasks) /\ Order # <<>> /\ IsInjective(Order)
    /\ MotorOrder \in Seq(Motors)
ASSUME TasksAssumption ==
    /\ Critical \subseteq Tasks
    /\ StageTask \in Tasks
    /\ Motors \subseteq Tasks \ {StageTask}
ASSUME BoundsAssumption ==
    /\ BackoffMax \in Nat \ {0}
    /\ MaxHung \in Nat

VARIABLES
    pc,         \* where the thread of a task is
    state,      \* BaseTask.state
    stopEvent,  \* BaseTask._stop_event
    backoff,    \* the local of _run_loop()
    failed,     \* the local of _run_loop()
    session,    \* has setup() succeeded and teardown() not been called?
    hung,       \* tasks whose running call does not return in time
    mpc,        \* where main is
    main,       \* stop_all(): the index in Order, and the step of stop()
    motor,      \* _stop_motor_tasks(): likewise, in MotorOrder
    watch,      \* the monitor: the index of the task it looks at, and what it reads next
    alarms,     \* tasks the monitor reported as dead unexpectedly
    shutdown,   \* TaskScheduler._shutdown_event
    watchdog,   \* where the watchdog is, and the index of the task it looks at
    withheld    \* did it withhold the last ping from systemd?

threadVars == <<pc, backoff, failed, session>>
stopVars == <<mpc, main, motor>>
monitorVars == <<watch, alarms>>
dogVars == <<watchdog, withheld>>
vars == <<threadVars, state, stopEvent, hung, stopVars, monitorVars, shutdown, dogVars>>

Idle == [i |-> 0, step |-> "none"]

Init ==
    /\ pc = [t \in Tasks |-> "new"]
    /\ state = [t \in Tasks |-> "IDLE"]
    /\ stopEvent = [t \in Tasks |-> FALSE]
    /\ backoff = [t \in Tasks |-> 1]
    /\ failed = [t \in Tasks |-> FALSE]
    /\ session = [t \in Tasks |-> FALSE]
    /\ hung = {}
    /\ mpc = "starting" /\ main = [i |-> 1, step |-> "start"] /\ motor = Idle
    /\ watch = [i |-> 1, step |-> "failed"] /\ alarms = {}
    /\ shutdown = FALSE
    /\ watchdog = [i |-> 0, at |-> "new"] /\ withheld = FALSE

Alive(t) == pc[t] \notin {"new", "ended"}

\* The process is there.
Up == mpc # "exited"

\* The thread is not inside a call that hangs, nor waiting in a join of its own.
Runs(t) == Up /\ t \notin hung /\ (t = StageTask => motor = Idle)

-----------------------------------------------------------------------------
(* BaseTask._run_loop(), one step between two looks at what others write     *)

Goto(t, label) == pc' = [pc EXCEPT ![t] = label]

SetState(t, s) == state' = [state EXCEPT ![t] = s]

LoopTop(t) ==
    /\ pc[t] = "loop"
    /\ Runs(t)
    /\ IF stopEvent[t] THEN Goto(t, "ended") /\ SetState(t, "IDLE")
                       ELSE Goto(t, "setup") /\ UNCHANGED state
    /\ UNCHANGED <<backoff, failed, session, stopEvent, hung, stopVars, monitorVars,
                   shutdown, dogVars>>

SetupSucceeds(t) ==
    /\ pc[t] = "setup"
    /\ Runs(t)
    /\ Goto(t, "execute")
    /\ SetState(t, "RUNNING")
    /\ backoff' = [backoff EXCEPT ![t] = 1]
    /\ failed' = [failed EXCEPT ![t] = FALSE]
    /\ session' = [session EXCEPT ![t] = TRUE]
    /\ UNCHANGED <<stopEvent, hung, stopVars, monitorVars, shutdown, dogVars>>

\* A critical task ends here; any other is tried again later.
FailTo(t) ==
    IF t \in Critical THEN Goto(t, "ended") /\ SetState(t, "FAILED")
                      ELSE Goto(t, "backoff") /\ SetState(t, "RECOVERING")

SetupFails(t) ==
    /\ pc[t] = "setup"
    /\ Runs(t)
    /\ FailTo(t)
    /\ UNCHANGED <<backoff, failed, session, stopEvent, hung, stopVars, monitorVars, shutdown,
                   dogVars>>

LoopEnds(t) == stopEvent[t]

ExecuteLoop(t) ==
    /\ pc[t] = "execute"
    /\ Runs(t)
    /\ Goto(t, IF LoopEnds(t) THEN "teardown" ELSE "body")
    /\ UNCHANGED <<backoff, failed, session, state, stopEvent, hung, stopVars,
                   monitorVars, shutdown, dogVars>>

ExecuteSucceeds(t) ==
    /\ pc[t] = "body"
    /\ Runs(t)
    /\ Goto(t, "execute")
    /\ UNCHANGED <<backoff, failed, session, state, stopEvent, hung, stopVars, monitorVars,
                   shutdown, dogVars>>

\* Mutant: a failure leaves the loop for the restart without the teardown.
AfterExecuteRestart == "recover"

AfterExecute == "teardown"

ExecuteFails(t) ==
    /\ pc[t] = "body"
    /\ Runs(t)
    /\ failed' = [failed EXCEPT ![t] = TRUE]
    /\ Goto(t, AfterExecute)
    /\ UNCHANGED <<backoff, session, state, stopEvent, hung, stopVars, monitorVars, shutdown,
                   dogVars>>

\* Exceptions of teardown() are logged and swallowed.
Teardown(t) ==
    /\ pc[t] = "teardown"
    /\ Runs(t)
    /\ session' = [session EXCEPT ![t] = FALSE]
    /\ Goto(t, "recover")
    /\ UNCHANGED <<backoff, failed, state, stopEvent, hung, stopVars, monitorVars,
                   shutdown, dogVars>>

Recover(t) ==
    /\ pc[t] = "recover"
    /\ Runs(t)
    /\ IF ~failed[t] \/ stopEvent[t] THEN Goto(t, "ended") /\ SetState(t, "IDLE")
                                     ELSE FailTo(t)
    /\ UNCHANGED <<backoff, failed, session, stopEvent, hung, stopVars, monitorVars,
                   shutdown, dogVars>>

Doubled(b) == IF 2 * b < BackoffMax THEN 2 * b ELSE BackoffMax

\* The wait for the next try ends early when the task is stopped.
BackoffEnds(t) ==
    /\ pc[t] = "backoff"
    /\ Runs(t)
    /\ IF stopEvent[t]
       THEN Goto(t, "ended") /\ SetState(t, "IDLE") /\ UNCHANGED backoff
       ELSE /\ Goto(t, "loop")
            /\ backoff' = [backoff EXCEPT ![t] = Doubled(@)]
            /\ UNCHANGED state
    /\ UNCHANGED <<failed, session, stopEvent, hung, stopVars, monitorVars, shutdown, dogVars>>

Thread(t) ==
    \/ LoopTop(t) \/ SetupSucceeds(t) \/ SetupFails(t)
    \/ ExecuteLoop(t) \/ ExecuteSucceeds(t) \/ ExecuteFails(t)
    \/ Teardown(t) \/ Recover(t) \/ BackoffEnds(t)

\* A call into hardware blocks.
Hang(t) ==
    /\ Cardinality(hung) < MaxHung
    /\ pc[t] \in {"setup", "body", "teardown"}
    /\ Runs(t)
    /\ hung' = hung \union {t}
    /\ UNCHANGED <<threadVars, state, stopEvent, stopVars, monitorVars, shutdown, dogVars>>

-----------------------------------------------------------------------------
(* BaseTask.stop(), for the stopper s (`main' or `motor') and the task t:    *)
(* mark it STOPPING, set its event, join its thread.                         *)

Mark(s, t) == s.step = "mark" /\ SetState(t, "STOPPING") /\ UNCHANGED stopEvent

Signal(s, t) ==
    /\ s.step = "signal"
    /\ stopEvent' = [stopEvent EXCEPT ![t] = TRUE]
    /\ UNCHANGED state

Joined(s, t) == s.step = "join" /\ ~Alive(t) /\ UNCHANGED <<state, stopEvent>>

\* The flight stage task is slow to join while it waits for a hung motor task itself.
Slow(t) ==
    \/ t \in hung
    \/ t = StageTask /\ motor.step = "join" /\ MotorOrder[motor.i] \in hung

\* Mutant: join() without a timeout.
TimesOutNever(s, t) == FALSE

TimesOut(s, t) == s.step = "join" /\ Alive(t) /\ Slow(t)

JoinTimesOut(s, t) == TimesOut(s, t) /\ UNCHANGED <<state, stopEvent>>

NextStep(s) == IF s.step = "mark" THEN "signal" ELSE "join"

\* The stopper after one step on the task with index s.i; `next' is the index that follows.
Advanced(s, next) ==
    IF s.step = "join" THEN [i |-> next, step |-> "mark"] ELSE [s EXCEPT !.step = NextStep(s)]

StopStep(s, t) == Mark(s, t) \/ Signal(s, t) \/ Joined(s, t) \/ JoinTimesOut(s, t)

-----------------------------------------------------------------------------
(* FlightStageTask._stop_motor_tasks(), within its execute()                 *)

\* On to the next motor task, from index i on, that is alive.
NextMotor(i) ==
    LET Live(j) == Alive(MotorOrder[j]) IN
    \/ \E j \in i .. Len(MotorOrder) :
         Live(j) /\ (\A k \in i .. j - 1 : ~Live(k)) /\ motor' = [i |-> j, step |-> "mark"]
    \/ (\A j \in i .. Len(MotorOrder) : ~Live(j)) /\ motor' = Idle

StopMotors ==
    /\ pc[StageTask] = "body"
    /\ Runs(StageTask)
    /\ Goto(StageTask, "execute")
    /\ NextMotor(1)
    /\ UNCHANGED <<backoff, failed, session, state, stopEvent, hung, mpc, main, monitorVars,
                   shutdown, dogVars>>

StopMotorStep ==
    /\ Up
    /\ motor # Idle
    /\ StopStep(motor, MotorOrder[motor.i])
    /\ IF motor.step = "join" THEN NextMotor(motor.i + 1) ELSE motor' = Advanced(motor, motor.i)
    /\ UNCHANGED <<threadVars, hung, mpc, main, monitorVars, shutdown, dogVars>>

-----------------------------------------------------------------------------
(* TaskScheduler._monitor_loop()                                             *)

Fatal(t) == state[t] = "FAILED" /\ t \in Critical

\* The monitor walks over the tasks, again and again.
NextWatched == [i |-> (watch.i % Len(Order)) + 1, step |-> "failed"]

\* The shutdown event is looked at before a walk, not within it; a critical failure ends the
\* monitor.
CheckFailed ==
    /\ Up /\ mpc # "starting"
    /\ watch.step = "failed" /\ (watch.i = 1 => ~shutdown)
    /\ IF Fatal(Order[watch.i])
       THEN shutdown' = TRUE /\ watch' = [watch EXCEPT !.i = 1]
       ELSE watch' = [watch EXCEPT !.step = "alive"] /\ UNCHANGED shutdown
    /\ UNCHANGED <<threadVars, state, stopEvent, hung, stopVars, alarms, dogVars>>

\* Mutant: the dead thread of a stopped task is reported.
DeadStatesIdle == {"IDLE"}

\* `not task.is_alive and task.state not in (...)': is_alive is looked at first.
DeadStates == {"IDLE", "STOPPING", "RECOVERING"}

CheckAlive ==
    /\ Up
    /\ watch.step = "alive"
    /\ watch' = IF Alive(Order[watch.i]) THEN NextWatched ELSE [watch EXCEPT !.step = "state"]
    /\ UNCHANGED <<threadVars, state, stopEvent, hung, stopVars, alarms, shutdown, dogVars>>

CheckState ==
    /\ Up
    /\ watch.step = "state"
    /\ alarms' = alarms \union ({Order[watch.i]} \ {t \in Tasks : state[t] \in DeadStates})
    /\ watch' = NextWatched
    /\ UNCHANGED <<threadVars, state, stopEvent, hung, stopVars, shutdown, dogVars>>

Monitor == CheckFailed \/ CheckAlive \/ CheckState

-----------------------------------------------------------------------------
(* WatchdogThread._loop(): a wait, and a look at one task after the other    *)

AwaitPing ==
    /\ Up /\ watchdog.at = "wait"
    /\ \/ mpc = "joining" /\ watchdog' = [watchdog EXCEPT !.at = "ended"] /\ UNCHANGED withheld
       \/ mpc # "joining" /\ shutdown /\ withheld' = FALSE /\ UNCHANGED watchdog
       \/ mpc # "joining" /\ ~shutdown /\ watchdog' = [i |-> 1, at |-> "look"] /\ UNCHANGED withheld
    /\ UNCHANGED <<threadVars, state, stopEvent, hung, stopVars, monitorVars, shutdown>>

LookAtTask ==
    /\ Up /\ watchdog.at = "look"
    /\ IF ~Fatal(Order[watchdog.i]) /\ watchdog.i < Len(Order)
       THEN watchdog' = [watchdog EXCEPT !.i = @ + 1] /\ UNCHANGED withheld
       ELSE /\ watchdog' = [i |-> 0, at |-> "wait"]
            /\ withheld' = Fatal(Order[watchdog.i])
    /\ UNCHANGED <<threadVars, state, stopEvent, hung, stopVars, monitorVars, shutdown>>

Watchdog == AwaitPing \/ LookAtTask

-----------------------------------------------------------------------------
(* main(): start_all(), wait, watchdog.stop(), stop_all(), exit              *)

\* start(): the thread is created, the flag cleared, the state reset.
StartAll ==
    /\ mpc = "starting"
    /\ LET t == Order[main.i]
       IN  /\ Goto(t, "loop")
           /\ SetState(t, "IDLE")
           /\ stopEvent' = [stopEvent EXCEPT ![t] = FALSE]
    /\ IF main.i < Len(Order) THEN main' = [main EXCEPT !.i = @ + 1] /\ UNCHANGED mpc
                              ELSE main' = Idle /\ mpc' = "petting"
    /\ UNCHANGED <<backoff, failed, session, hung, motor, monitorVars, shutdown, dogVars>>

\* SIGINT or SIGTERM; the handlers are installed before start_all().
SignalArrives ==
    /\ Up
    /\ ~shutdown
    /\ shutdown' = TRUE
    /\ UNCHANGED <<threadVars, state, stopEvent, hung, stopVars, monitorVars, dogVars>>

StartWatchdog ==
    /\ mpc = "petting"
    /\ mpc' = "waiting" /\ watchdog' = [watchdog EXCEPT !.at = "wait"]
    /\ UNCHANGED <<threadVars, state, stopEvent, hung, main, motor, monitorVars, shutdown,
                   withheld>>

\* watchdog.stop() comes first; its join waits longer than the watchdog does.
StopWatchdog ==
    /\ mpc = "waiting" /\ shutdown
    /\ mpc' = "joining"
    /\ UNCHANGED <<threadVars, state, stopEvent, hung, main, motor, monitorVars, shutdown,
                   dogVars>>

\* stop_all() begins with the last task.
BeginStop ==
    /\ mpc = "joining" /\ watchdog.at = "ended"
    /\ mpc' = "stopping"
    /\ main' = [i |-> Len(Order), step |-> "mark"]
    /\ UNCHANGED <<threadVars, state, stopEvent, hung, motor, monitorVars, shutdown, dogVars>>

StopAllStep ==
    /\ mpc = "stopping"
    /\ StopStep(main, Order[main.i])
    /\ IF main.step = "join" /\ main.i = 1
       THEN main' = Idle /\ mpc' = "exited"
       ELSE main' = Advanced(main, main.i - 1) /\ UNCHANGED mpc
    /\ UNCHANGED <<threadVars, hung, motor, monitorVars, shutdown, dogVars>>

Main == StartAll \/ StartWatchdog \/ StopWatchdog \/ BeginStop \/ StopAllStep

-----------------------------------------------------------------------------

Next ==
    \/ \E t \in Tasks : Thread(t) \/ Hang(t)
    \/ StopMotors \/ StopMotorStep
    \/ Monitor \/ Watchdog
    \/ Main \/ SignalArrives

\* Every thread that is not blocked is scheduled; nothing makes a signal come, a call fail
\* or the flight stage task stop the motors.
Fairness ==
    /\ \A t \in Tasks : WF_vars(Thread(t))
    /\ WF_vars(StopMotorStep)
    /\ WF_vars(Monitor) /\ WF_vars(Watchdog)
    /\ WF_vars(Main)

Spec == Init /\ [][Next]_vars /\ Fairness

-----------------------------------------------------------------------------
(* Properties                                                                *)

\* Every attribute and every program counter keeps its type.
TypeOK ==
    /\ pc \in [Tasks -> {"new", "loop", "setup", "execute", "body", "teardown", "recover",
                         "backoff", "ended"}]
    /\ state \in [Tasks -> {"IDLE", "RUNNING", "STOPPING", "FAILED", "RECOVERING"}]
    /\ stopEvent \in [Tasks -> BOOLEAN] /\ failed \in [Tasks -> BOOLEAN]
    /\ session \in [Tasks -> BOOLEAN]
    /\ backoff \in [Tasks -> 1 .. BackoffMax]
    /\ hung \subseteq Tasks /\ alarms \subseteq Tasks
    /\ mpc \in {"starting", "petting", "waiting", "joining", "stopping", "exited"}
    /\ watchdog \in [i : 0 .. Len(Order), at : {"new", "wait", "look", "ended"}]
    /\ withheld \in BOOLEAN
    /\ main \in [i : 0 .. Len(Order), step : {"none", "start", "mark", "signal", "join"}]
    /\ motor \in [i : 0 .. Len(MotorOrder), step : {"none", "mark", "signal", "join"}]
    /\ watch \in [i : DOMAIN Order, step : {"failed", "alive", "state"}]
    /\ shutdown \in BOOLEAN

\* No setup() is run on top of an earlier one: between two successful setups, and before
\* the thread ends, teardown() has been called, however failures and stops interleave. So an
\* orderly exit leaves no task with its hardware set up, except one whose call hangs, or the
\* flight stage task when main gave it up because it waited for a hung motor task.
SessionsAreClosed ==
    /\ TypeOK
    /\ \A t \in Tasks : session[t] =>
          /\ pc[t] \in {"execute", "body", "teardown"}
          /\ mpc = "exited" => t \in hung \/ (t = StageTask /\ Motors \cap hung # {})

\* The monitor reports a dead thread, and the watchdog withholds a ping, only when a
\* critical task has failed for good: never for a task that is starting, recovering, hung
\* or ending while they look at one task after the other.
NoFalseAlarm ==
    /\ alarms \subseteq Critical
    /\ withheld => \E t \in Critical : pc[t] = "ended"

\* Stops take effect although calls hang: a task that is stopped comes to an end from any
\* phase, the failure of a critical task shuts the system down, and a shutdown gets to the
\* end even when the flight stage task is itself waiting for a motor task that main wants
\* to stop too.
ShutdownCompletes ==
    /\ \A t \in Tasks : stopEvent[t] ~> (~Alive(t) \/ ~Runs(t))
    /\ \A t \in Critical : (state[t] = "FAILED") ~> shutdown
    /\ shutdown ~> ~Up
=============================================================================
