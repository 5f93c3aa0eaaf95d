------------------------- MODULE TaskLifecycleProofs -------------------------
(***************************************************************************)
(* Proofs about TaskLifecycle, for any tasks in any order, any of them       *)
(* critical, any of them motors, and any number of calls that hang.           *)
(***************************************************************************)
EXTENDS TaskLifecycle, TLAPS

\* main has given up t, or seen its thread end.
Done(t) == ~Alive(t) \/ t \in hung \/ (t = StageTask /\ Motors \cap hung # {})

\* start_all() goes through the tasks in order, and none is left when it is over.
Started ==
    /\ mpc = "starting" =>
         /\ main.step = "start" /\ main.i >= 1
         /\ \A j \in DOMAIN Order : pc[Order[j]] = "new" <=> j >= main.i
    /\ mpc # "starting" => \A t \in Tasks : pc[t] # "new"

\* stop_all() goes through them in reverse, and does not come back to one.
Stopped ==
    /\ mpc = "stopping" =>
         /\ main.step \in {"mark", "signal", "join"} /\ main.i >= 1
         /\ \A j \in DOMAIN Order : j > main.i => Done(Order[j])
    /\ mpc = "exited" => \A t \in Tasks : Done(t)
    /\ motor.step # "none" => motor.i >= 1

\* Only a thread between its setup() and its teardown() has a session.
Sessions == \A t \in Tasks : session[t] => pc[t] \in {"execute", "body", "teardown"}

\* A task is FAILED only for good, and a thread that has ended is not RUNNING.
Verdicts ==
    \A t \in Tasks :
        /\ state[t] = "FAILED" => pc[t] = "ended" /\ t \in Critical
        /\ pc[t] = "ended" => state[t] \in {"IDLE", "STOPPING", "FAILED"}

\* What the monitor and the watchdog have seen of the task they look at is still so.
Watchers ==
    /\ watch.step # "failed" => mpc # "starting"
    /\ watch.step = "state" => pc[Order[watch.i]] = "ended"
    /\ watchdog.at = "look" => watchdog.i >= 1

\* The inductive invariant.
IInv == TypeOK /\ Started /\ Stopped /\ Sessions /\ Verdicts /\ Watchers /\ NoFalseAlarm

-----------------------------------------------------------------------------
(* What the steps are made of                                                *)

\* Every task has a place in the order of registration.
LEMMA OrderFacts ==
    /\ Len(Order) \in Nat \ {0} /\ DOMAIN Order = 1 .. Len(Order)
    /\ \A j \in DOMAIN Order : Order[j] \in Tasks
    /\ \A t \in Tasks : \E j \in DOMAIN Order : Order[j] = t
    /\ \A j, k \in DOMAIN Order : Order[j] = Order[k] => j = k
<1>1. Order \in Seq(Tasks) /\ Order # <<>> /\ IsInjective(Order)
  BY OrderAssumption
<1>2. Len(Order) \in Nat /\ DOMAIN Order = 1 .. Len(Order) /\ Len(Order) # 0
  BY <1>1
<1> QED
  BY <1>1, <1>2 DEF IsInjective, Tasks, ToSet

\* The motor tasks have places in their order.
LEMMA MotorFacts ==
    /\ Len(MotorOrder) \in Nat
    /\ \A j \in 1 .. Len(MotorOrder) : MotorOrder[j] \in Motors
  BY OrderAssumption

\* A stopper that is idle has no place in the order.
LEMMA IdleFacts == Idle.i = 0 /\ Idle.step = "none"
  BY DEF Idle

\* What a step of the thread of t does to the others: nothing; and to t itself.
Moves(t) ==
    /\ TypeOK'
    /\ pc[t] \notin {"new", "ended"} /\ pc'[t] # "new"
    /\ \A u \in Tasks \ {t} : pc'[u] = pc[u] /\ state'[u] = state[u] /\ session'[u] = session[u]
    /\ session'[t] => pc'[t] \in {"execute", "body", "teardown"}
    /\ state'[t] = "FAILED" => pc'[t] = "ended" /\ t \in Critical
    /\ pc'[t] = "ended" => state'[t] \in {"IDLE", "FAILED"}
    /\ UNCHANGED <<stopEvent, hung, mpc, main, watch, alarms, shutdown, watchdog, withheld>>
    /\ motor'.step # "none" => motor'.i >= 1

\* A move of one thread keeps the invariant.
LEMMA MovesKeep == ASSUME IInv, NEW t \in Tasks, Moves(t) PROVE IInv'
<1>1. \A u \in Tasks : /\ pc[u] = "new" <=> pc'[u] = "new"
                       /\ pc[u] = "ended" => pc'[u] = "ended"
  BY DEF Moves
<1>2. \A u \in Tasks : Done(u) => Done(u)'
  BY <1>1 DEF Moves, Done, Alive
<1>3. Started'
  BY <1>1, OrderFacts DEF IInv, Started, Moves
<1>4. Stopped'
  BY <1>2, OrderFacts DEF IInv, Stopped, Moves
<1>5. Sessions' /\ Verdicts'
  BY DEF IInv, Sessions, Verdicts, Moves
<1>6. Watchers'
  BY <1>1, OrderFacts DEF IInv, Watchers, Moves, TypeOK
<1>7. NoFalseAlarm'
  BY <1>1, TasksAssumption DEF IInv, NoFalseAlarm, Moves
<1> QED
  BY <1>3, <1>4, <1>5, <1>6, <1>7 DEF IInv, Moves

-----------------------------------------------------------------------------
(* The thread of a task                                                      *)

Points == {"loop", "setup", "execute", "body", "teardown", "recover", "backoff", "ended"}
StateNames == {"IDLE", "RUNNING", "STOPPING", "FAILED", "RECOVERING"}
Others == <<stopEvent, hung, mpc, main, motor, watch, alarms, shutdown, watchdog, withheld>>

\* A thread that goes from one point to another, with its state and its session.
LEMMA StepMoves ==
    ASSUME IInv, NEW t \in Tasks, pc[t] \notin {"new", "ended"},
           NEW l \in Points, pc' = [pc EXCEPT ![t] = l],
           NEW n \in StateNames, state' = [state EXCEPT ![t] = n],
           NEW b \in BOOLEAN, session' = [session EXCEPT ![t] = b],
           b => l \in {"execute", "body", "teardown"},
           n = "FAILED" => l = "ended" /\ t \in Critical,
           l = "ended" => n \in {"IDLE", "FAILED"},
           backoff' \in [Tasks -> 1 .. BackoffMax], failed' \in [Tasks -> BOOLEAN],
           UNCHANGED Others
    PROVE  Moves(t)
<1>1. TypeOK
  BY DEF IInv
<1>2. pc' \in [Tasks -> {"new"} \cup Points] /\ state' \in [Tasks -> StateNames]
      /\ session' \in [Tasks -> BOOLEAN]
  BY <1>1 DEF TypeOK, Points, StateNames
<1>3. TypeOK'
  BY <1>1, <1>2 DEF TypeOK, Others, Points, StateNames
<1>4. pc'[t] = l /\ state'[t] = n /\ session'[t] = b
      /\ \A u \in Tasks \ {t} : pc'[u] = pc[u] /\ state'[u] = state[u] /\ session'[u] = session[u]
  BY <1>1 DEF TypeOK
<1> QED
  BY <1>3, <1>4 DEF IInv, Stopped, Moves, Others, Points

\* What does not change is the same value once more.
LEMMA SameFacts ==
    ASSUME IInv, NEW t \in Tasks
    PROVE  /\ state = [state EXCEPT ![t] = state[t]] /\ state[t] \in StateNames
           /\ session = [session EXCEPT ![t] = session[t]] /\ session[t] \in BOOLEAN
           /\ backoff \in [Tasks -> 1 .. BackoffMax] /\ failed \in [Tasks -> BOOLEAN]
           /\ state[t] = "FAILED" => pc[t] = "ended"
           /\ session[t] => pc[t] \in {"execute", "body", "teardown"}
  BY DEF IInv, TypeOK, StateNames, Sessions, Verdicts

\* LoopTop is a move of the thread.
LEMMA LoopTopMoves == ASSUME IInv, NEW t \in Tasks, LoopTop(t) PROVE Moves(t)
<1>1. /\ pc[t] = "loop" /\ ~session[t] /\ session' = session /\ UNCHANGED <<backoff, failed,
                                                                            Others>>
      /\ \/ pc' = [pc EXCEPT ![t] = "ended"] /\ state' = [state EXCEPT ![t] = "IDLE"]
         \/ pc' = [pc EXCEPT ![t] = "setup"] /\ state' = state
  BY SameFacts DEF LoopTop, Goto, SetState, stopVars, monitorVars, dogVars, Others
<1> QED
  BY <1>1, SameFacts, StepMoves DEF Points, StateNames

\* SetupSucceeds is a move of the thread.
LEMMA SetupSucceedsMoves == ASSUME IInv, NEW t \in Tasks, SetupSucceeds(t) PROVE Moves(t)
<1>1. /\ pc[t] = "setup" /\ UNCHANGED Others
      /\ pc' = [pc EXCEPT ![t] = "execute"] /\ state' = [state EXCEPT ![t] = "RUNNING"]
      /\ session' = [session EXCEPT ![t] = TRUE]
      /\ backoff' \in [Tasks -> 1 .. BackoffMax] /\ failed' \in [Tasks -> BOOLEAN]
  BY SameFacts, BoundsAssumption
     DEF SetupSucceeds, Goto, SetState, stopVars, monitorVars, dogVars, Others
<1> QED
  BY <1>1, StepMoves DEF Points, StateNames

\* A failure of setup() or after a session is a move.
LEMMA FailToMoves ==
    ASSUME IInv, NEW t \in Tasks, FailTo(t), pc[t] \in {"setup", "recover"},
           UNCHANGED <<session, backoff, failed, Others>>
    PROVE  Moves(t)
<1>1. ~session[t]
  BY SameFacts
<1>2. CASE t \in Critical
  <2>1. pc' = [pc EXCEPT ![t] = "ended"] /\ state' = [state EXCEPT ![t] = "FAILED"]
    BY <1>2 DEF FailTo, Goto, SetState
  <2> QED
    BY <1>1, <1>2, <2>1, SameFacts, StepMoves DEF Points, StateNames
<1>3. CASE t \notin Critical
  <2>1. pc' = [pc EXCEPT ![t] = "backoff"] /\ state' = [state EXCEPT ![t] = "RECOVERING"]
    BY <1>3 DEF FailTo, Goto, SetState
  <2> QED
    BY <1>1, <2>1, SameFacts, StepMoves DEF Points, StateNames
<1> QED
  BY <1>2, <1>3

\* SetupFails is a move of the thread.
LEMMA SetupFailsMoves == ASSUME IInv, NEW t \in Tasks, SetupFails(t) PROVE Moves(t)
<1>1. pc[t] = "setup" /\ FailTo(t) /\ UNCHANGED <<session, backoff, failed, Others>>
  BY DEF SetupFails, stopVars, monitorVars, dogVars, Others
<1> QED
  BY <1>1, FailToMoves

\* The steps of the execute() loop change the program counter alone, with the session open.
LEMMA ExecuteMoves ==
    ASSUME IInv, NEW t \in Tasks, pc[t] \in {"execute", "body"},
           NEW l \in {"execute", "body", "teardown"}, Goto(t, l),
           failed' \in [Tasks -> BOOLEAN], UNCHANGED <<session, state, backoff, Others>>
    PROVE  Moves(t)
<1>1. pc' = [pc EXCEPT ![t] = l] /\ state' = state /\ session' = session /\ backoff' = backoff
  BY DEF Goto
<1> QED
  BY <1>1, SameFacts, StepMoves DEF Points

\* ExecuteLoop is a move of the thread.
LEMMA ExecuteLoopMoves == ASSUME IInv, NEW t \in Tasks, ExecuteLoop(t) PROVE Moves(t)
<1> DEFINE l == IF LoopEnds(t) THEN "teardown" ELSE "body"
<1>1. /\ pc[t] = "execute" /\ Goto(t, l) /\ l \in {"execute", "body", "teardown"}
      /\ UNCHANGED <<session, state, backoff, failed, Others>>
  BY DEF ExecuteLoop, stopVars, monitorVars, dogVars, Others
<1> HIDE DEF l
<1> QED
  BY <1>1, SameFacts, ExecuteMoves

\* ExecuteSucceeds is a move of the thread.
LEMMA ExecuteSucceedsMoves == ASSUME IInv, NEW t \in Tasks, ExecuteSucceeds(t) PROVE Moves(t)
<1>1. /\ pc[t] = "body" /\ Goto(t, "execute")
      /\ UNCHANGED <<session, state, backoff, failed, Others>>
  BY DEF ExecuteSucceeds, stopVars, monitorVars, dogVars, Others
<1> QED
  BY <1>1, SameFacts, ExecuteMoves

\* ExecuteFails is a move of the thread.
LEMMA ExecuteFailsMoves == ASSUME IInv, NEW t \in Tasks, ExecuteFails(t) PROVE Moves(t)
<1>1. /\ pc[t] = "body" /\ Goto(t, "teardown") /\ failed' \in [Tasks -> BOOLEAN]
      /\ UNCHANGED <<session, state, backoff, Others>>
  BY SameFacts DEF ExecuteFails, AfterExecute, stopVars, monitorVars, dogVars, Others
<1> QED
  BY <1>1, ExecuteMoves

\* Teardown is a move of the thread.
LEMMA TeardownMoves == ASSUME IInv, NEW t \in Tasks, Teardown(t) PROVE Moves(t)
<1>1. /\ pc[t] = "teardown" /\ UNCHANGED <<state, backoff, failed, Others>>
      /\ pc' = [pc EXCEPT ![t] = "recover"] /\ session' = [session EXCEPT ![t] = FALSE]
  BY DEF Teardown, Goto, stopVars, monitorVars, dogVars, Others
<1> QED
  BY <1>1, SameFacts, StepMoves DEF Points

\* A thread that was told to stop ends.
LEMMA EndMoves ==
    ASSUME IInv, NEW t \in Tasks, Goto(t, "ended"), SetState(t, "IDLE"),
           pc[t] \in {"recover", "backoff"}, UNCHANGED <<session, backoff, failed, Others>>
    PROVE  Moves(t)
<1>1. pc' = [pc EXCEPT ![t] = "ended"] /\ state' = [state EXCEPT ![t] = "IDLE"] /\ ~session[t]
  BY SameFacts DEF Goto, SetState
<1> QED
  BY <1>1, SameFacts, StepMoves DEF Points, StateNames

\* Recover is a move of the thread.
LEMMA RecoverMoves == ASSUME IInv, NEW t \in Tasks, Recover(t) PROVE Moves(t)
<1>1. /\ pc[t] = "recover" /\ UNCHANGED <<session, backoff, failed, Others>>
      /\ (Goto(t, "ended") /\ SetState(t, "IDLE")) \/ FailTo(t)
  BY DEF Recover, stopVars, monitorVars, dogVars, Others
<1> QED
  BY <1>1, EndMoves, FailToMoves

\* The end of the backoff is a move.
LEMMA BackoffEndsMoves == ASSUME IInv, NEW t \in Tasks, BackoffEnds(t) PROVE Moves(t)
<1>1. pc[t] = "backoff" /\ UNCHANGED <<session, failed, Others>>
  BY DEF BackoffEnds, stopVars, monitorVars, dogVars, Others
<1>2. CASE stopEvent[t]
  BY <1>1, <1>2, EndMoves DEF BackoffEnds
<1>3. CASE ~stopEvent[t]
  <2>1. /\ pc' = [pc EXCEPT ![t] = "loop"] /\ state' = state
        /\ backoff' = [backoff EXCEPT ![t] = Doubled(backoff[t])]
    BY <1>3 DEF BackoffEnds, Goto
  <2>2. \A b \in 1 .. BackoffMax : Doubled(b) \in 1 .. BackoffMax
    BY BoundsAssumption DEF Doubled
  <2>3. backoff' \in [Tasks -> 1 .. BackoffMax]
    BY <2>1, <2>2, SameFacts
  <2> QED
    BY <1>1, <2>1, <2>3, SameFacts, StepMoves DEF Points
<1> QED
  BY <1>2, <1>3

\* Thread keeps the invariant.
LEMMA ThreadKeeps == ASSUME IInv, NEW t \in Tasks, Thread(t) PROVE IInv'
<1>1. Moves(t)
  BY LoopTopMoves, SetupSucceedsMoves, SetupFailsMoves, ExecuteLoopMoves, ExecuteSucceedsMoves,
     ExecuteFailsMoves, TeardownMoves, RecoverMoves, BackoffEndsMoves DEF Thread
<1> QED
  BY <1>1, MovesKeep

\* The index that _stop_motor_tasks() goes on with is one of its list, if there is any.
LEMMA NextMotorFacts ==
    ASSUME NEW i \in Nat \ {0}, NextMotor(i)
    PROVE  /\ motor' \in [i : 0 .. Len(MotorOrder), step : {"none", "mark", "signal", "join"}]
           /\ motor'.step # "none" => motor'.i >= 1
  BY MotorFacts DEF NextMotor, Idle

\* StopMotors keeps the invariant.
LEMMA StopMotorsKeeps == ASSUME IInv, StopMotors PROVE IInv'
<1>1. StageTask \in Tasks /\ pc[StageTask] = "body"
  BY TasksAssumption DEF StopMotors
<1>2. TypeOK'
  BY <1>1, NextMotorFacts DEF IInv, TypeOK, StopMotors, Goto, monitorVars, dogVars
<1>3. Moves(StageTask)
  BY <1>1, <1>2, NextMotorFacts
     DEF IInv, TypeOK, Sessions, Verdicts, StopMotors, Goto, monitorVars, dogVars, Moves
<1> QED
  BY <1>1, <1>3, MovesKeep

\* Hang keeps the invariant.
LEMMA HangKeeps == ASSUME IInv, NEW t \in Tasks, Hang(t) PROVE IInv'
<1>1. TypeOK'
  BY DEF IInv, TypeOK, Hang, threadVars, stopVars, monitorVars, dogVars
<1>2. \A u \in Tasks : Done(u) => Done(u)'
  BY DEF Hang, Done, Alive, threadVars
<1>3. Stopped'
  BY <1>2, OrderFacts DEF IInv, Stopped, Hang, stopVars
<1> QED
  BY <1>1, <1>3
     DEF IInv, Started, Sessions, Verdicts, Watchers, NoFalseAlarm, Hang, threadVars, stopVars,
         monitorVars, dogVars

-----------------------------------------------------------------------------
(* Those who stop a task                                                     *)

\* A step of BaseTask.stop() touches the state and the event of one task.
LEMMA StopStepFacts ==
    ASSUME TypeOK, Verdicts, NEW s, NEW t \in Tasks, StopStep(s, t)
    PROVE  /\ s.step \in {"mark", "signal", "join"}
           /\ state' \in [Tasks -> {"IDLE", "RUNNING", "STOPPING", "FAILED", "RECOVERING"}]
           /\ stopEvent' \in [Tasks -> BOOLEAN]
           /\ \A u \in Tasks : state'[u] \in {state[u], "STOPPING"}
           /\ s.step = "join" => ~Alive(t) \/ (Alive(t) /\ Slow(t))
  BY DEF StopStep, Mark, Signal, Joined, JoinTimesOut, TimesOut, SetState, TypeOK

\* StopMotorStep keeps the invariant.
LEMMA StopMotorStepKeeps == ASSUME IInv, StopMotorStep PROVE IInv'
<1>1. /\ TypeOK /\ Verdicts /\ StopStep(motor, MotorOrder[motor.i])
      /\ UNCHANGED <<pc, backoff, failed, session, hung, mpc, main, watch, alarms, shutdown,
                     watchdog, withheld>>
  BY DEF IInv, StopMotorStep, threadVars, monitorVars, dogVars
<1>2. motor.step \in {"mark", "signal", "join"} /\ motor.i \in 1 .. Len(MotorOrder)
  BY <1>1, MotorFacts
     DEF IInv, TypeOK, Stopped, StopStep, Mark, Signal, Joined, JoinTimesOut, TimesOut
<1>3. MotorOrder[motor.i] \in Tasks
  BY <1>2, MotorFacts, TasksAssumption
<1>4. /\ state' \in [Tasks -> {"IDLE", "RUNNING", "STOPPING", "FAILED", "RECOVERING"}]
      /\ stopEvent' \in [Tasks -> BOOLEAN]
      /\ \A u \in Tasks : state'[u] \in {state[u], "STOPPING"}
  BY <1>1, <1>3, StopStepFacts
<1>5. /\ motor' \in [i : 0 .. Len(MotorOrder), step : {"none", "mark", "signal", "join"}]
      /\ motor'.step # "none" => motor'.i >= 1
  <2>1. CASE motor.step = "join"
    BY <1>2, <2>1, NextMotorFacts, MotorFacts DEF StopMotorStep
  <2>2. CASE motor.step # "join"
    BY <1>1, <1>2, <2>2, MotorFacts DEF StopMotorStep, Advanced, NextStep, TypeOK
  <2> QED
    BY <2>1, <2>2
<1>6. TypeOK'
  BY <1>1, <1>4, <1>5 DEF TypeOK
<1>7. Started' /\ Sessions' /\ Watchers' /\ NoFalseAlarm'
  BY <1>1 DEF IInv, Started, Sessions, Watchers, NoFalseAlarm
<1>8. Verdicts'
  BY <1>1, <1>4 DEF Verdicts
<1>9. Stopped'
  BY <1>1, <1>5 DEF IInv, Stopped, Done, Alive
<1> QED
  BY <1>6, <1>7, <1>8, <1>9 DEF IInv

\* StopAllStep keeps the invariant.
LEMMA StopAllStepKeeps == ASSUME IInv, StopAllStep PROVE IInv'
<1> DEFINE t == Order[main.i]
<1>1. /\ TypeOK /\ Verdicts /\ StopStep(main, t) /\ mpc = "stopping" /\ mpc' \in {"stopping", "exited"}
      /\ UNCHANGED <<pc, backoff, failed, session, hung, motor, watch, alarms, shutdown,
                     watchdog, withheld>>
  BY DEF IInv, StopAllStep, threadVars, monitorVars, dogVars
<1>2. main.step \in {"mark", "signal", "join"} /\ main.i \in DOMAIN Order /\ main.i \in 1 .. Len(Order)
  BY <1>1, OrderFacts DEF IInv, TypeOK, Stopped
<1>3. t \in Tasks
  BY <1>2, OrderFacts
<1>4. /\ state' \in [Tasks -> {"IDLE", "RUNNING", "STOPPING", "FAILED", "RECOVERING"}]
      /\ stopEvent' \in [Tasks -> BOOLEAN]
      /\ \A u \in Tasks : state'[u] \in {state[u], "STOPPING"}
      /\ main.step = "join" => ~Alive(t) \/ (Alive(t) /\ Slow(t))
  BY <1>1, <1>3, StopStepFacts
<1>5. main.step = "join" => Done(t)
  <2>1. CASE ~Alive(t) \/ t \in hung
    BY <2>1 DEF Done
  <2>2. CASE t = StageTask /\ motor.step = "join" /\ MotorOrder[motor.i] \in hung
    <3>1. motor.i \in 1 .. Len(MotorOrder)
      BY <1>1, <2>2, MotorFacts DEF IInv, TypeOK, Stopped
    <3>2. MotorOrder[motor.i] \in Motors \cap hung
      BY <2>2, <3>1, MotorFacts
    <3> QED
      BY <2>2, <3>2 DEF Done
  <2> QED
    BY <1>4, <2>1, <2>2 DEF Slow
<1> HIDE DEF t
<1>6. CASE main.step = "join" /\ main.i = 1
  <2>1. main' = Idle /\ mpc' = "exited"
    BY <1>6 DEF StopAllStep
  <2>2. \A u \in Tasks : Done(u)
    <3>1. \A j \in DOMAIN Order : Done(Order[j])
      BY <1>1, <1>5, <1>6, OrderFacts DEF IInv, Stopped, t
    <3> QED
      BY <3>1, OrderFacts
  <2>3. TypeOK'
    BY <1>1, <1>4, <2>1, OrderFacts DEF TypeOK, Idle
  <2>4. Stopped'
    BY <1>1, <2>1, <2>2 DEF IInv, Stopped, Done, Alive
  <2>5. Started' /\ Sessions' /\ Watchers' /\ NoFalseAlarm' /\ Verdicts'
    BY <1>1, <1>4, <2>1 DEF IInv, Started, Sessions, Watchers, NoFalseAlarm, Verdicts
  <2> QED
    BY <2>3, <2>4, <2>5 DEF IInv
<1>7. CASE ~(main.step = "join" /\ main.i = 1)
  <2>1. main' = Advanced(main, main.i - 1) /\ mpc' = "stopping"
    BY <1>1, <1>7 DEF StopAllStep
  <2>2. /\ main' \in [i : 0 .. Len(Order), step : {"none", "start", "mark", "signal", "join"}]
        /\ main'.step \in {"mark", "signal", "join"} /\ main'.i >= 1
        /\ \/ main'.i = main.i
           \/ main.step = "join" /\ main'.i = main.i - 1
    <3>1. CASE main.step = "join"
      BY <1>2, <1>7, <2>1, <3>1, OrderFacts DEF Advanced
    <3>2. CASE main.step # "join"
      <4>1. main' = [main EXCEPT !.step = NextStep(main)] /\ NextStep(main) \in {"signal", "join"}
        BY <2>1, <3>2 DEF Advanced, NextStep
      <4>2. main \in [i : 0 .. Len(Order), step : {"none", "start", "mark", "signal", "join"}]
        BY <1>1 DEF TypeOK
      <4>3. main'.i = main.i /\ main'.step \in {"signal", "join"}
            /\ main' \in [i : 0 .. Len(Order), step : {"none", "start", "mark", "signal", "join"}]
        BY <4>1, <4>2
      <4> QED
        BY <1>2, <4>3
    <3> QED
      BY <3>1, <3>2
  <2>3. TypeOK'
    BY <1>1, <1>4, <2>1, <2>2 DEF TypeOK
  <2>4. \A j \in DOMAIN Order : j > main'.i => Done(Order[j])
    BY <1>1, <1>2, <1>5, <2>2, OrderFacts DEF IInv, Stopped, t
  <2>5. Stopped'
    BY <1>1, <2>1, <2>2, <2>4 DEF IInv, Stopped, Done, Alive
  <2>6. Started' /\ Sessions' /\ Watchers' /\ NoFalseAlarm' /\ Verdicts'
    BY <1>1, <1>4, <2>1 DEF IInv, Started, Sessions, Watchers, NoFalseAlarm, Verdicts
  <2> QED
    BY <2>3, <2>5, <2>6 DEF IInv
<1> QED
  BY <1>6, <1>7

-----------------------------------------------------------------------------
(* The monitor, the watchdog and the rest of main                            *)

\* The steps of the monitor keep the invariant.
LEMMA MonitorKeeps == ASSUME IInv, Monitor PROVE IInv'
<1>1. TypeOK /\ UNCHANGED <<pc, backoff, failed, session, state, stopEvent, hung, mpc, main,
                            motor, watchdog, withheld>>
  BY DEF IInv, Monitor, CheckFailed, CheckAlive, CheckState, threadVars, stopVars, dogVars
<1>2. watch.i \in DOMAIN Order /\ Order[watch.i] \in Tasks
  BY <1>1, OrderFacts DEF TypeOK
<1>3. NextWatched.i \in DOMAIN Order /\ NextWatched.step = "failed"
      /\ NextWatched \in [i : DOMAIN Order, step : {"failed", "alive", "state"}]
  <2>1. watch.i % Len(Order) \in 0 .. Len(Order) - 1
    BY <1>2, OrderFacts
  <2> QED
    BY <2>1, OrderFacts DEF NextWatched
<1>4. CASE CheckFailed
  <2>1. /\ mpc # "starting" /\ mpc' = mpc /\ UNCHANGED alarms /\ shutdown' \in BOOLEAN
        /\ watch' \in {[watch EXCEPT !.i = 1], [watch EXCEPT !.step = "alive"]} /\ watch.step = "failed"
    BY <1>1, <1>4 DEF TypeOK, CheckFailed
  <2>2. /\ watch' \in [i : DOMAIN Order, step : {"failed", "alive", "state"}]
        /\ watch'.step # "state"
    <3>1. 1 \in DOMAIN Order
      BY OrderFacts
    <3>2. watch \in [i : DOMAIN Order, step : {"failed", "alive", "state"}]
      BY <1>1 DEF TypeOK
    <3> QED
      BY <2>1, <3>1, <3>2
  <2>3. TypeOK'
    BY <1>1, <2>1, <2>2 DEF TypeOK
  <2>4. Watchers'
    BY <1>1, <2>1, <2>2 DEF IInv, Watchers
  <2> QED
    BY <1>1, <1>4, <2>3, <2>4
       DEF IInv, Started, Stopped, Sessions, Verdicts, NoFalseAlarm, Done, Alive, CheckFailed
<1>5. CASE CheckAlive
  <2>1. TypeOK'
    BY <1>1, <1>3, <1>5 DEF TypeOK, CheckAlive
  <2>2. Watchers'
    BY <1>1, <1>2, <1>3, <1>5 DEF IInv, TypeOK, Started, Watchers, CheckAlive, Alive
  <2> QED
    BY <1>1, <1>5, <2>1, <2>2
       DEF IInv, Started, Stopped, Sessions, Verdicts, NoFalseAlarm, Done, Alive, CheckAlive
<1>6. CASE CheckState
  <2>1. alarms' \subseteq Critical
    BY <1>1, <1>2, <1>6 DEF IInv, Watchers, Verdicts, NoFalseAlarm, CheckState, DeadStates
  <2>2. TypeOK' /\ Watchers'
    BY <1>1, <1>3, <1>6, <2>1, TasksAssumption DEF IInv, TypeOK, Watchers, CheckState
  <2> QED
    BY <1>1, <1>6, <2>1, <2>2
       DEF IInv, Started, Stopped, Sessions, Verdicts, NoFalseAlarm, Done, Alive
<1> QED
  BY <1>4, <1>5, <1>6 DEF Monitor

\* The steps of the watchdog keep the invariant.
LEMMA WatchdogKeeps == ASSUME IInv, Watchdog PROVE IInv'
<1>1. TypeOK /\ UNCHANGED <<pc, backoff, failed, session, state, stopEvent, hung, mpc, main,
                            motor, watch, alarms, shutdown>>
  BY DEF IInv, Watchdog, AwaitPing, LookAtTask, threadVars, stopVars, monitorVars
<1>2. /\ watchdog' \in [i : 0 .. Len(Order), at : {"new", "wait", "look", "ended"}]
      /\ watchdog'.at = "look" => watchdog'.i >= 1
      /\ withheld' \in BOOLEAN
      /\ withheld' => withheld \/ \E t \in Critical : state[t] = "FAILED"
  <2>1. CASE AwaitPing
    <3>1. \/ watchdog' = [watchdog EXCEPT !.at = "ended"] /\ withheld' = withheld
          \/ withheld' = FALSE /\ watchdog' = watchdog
          \/ watchdog' = [i |-> 1, at |-> "look"] /\ withheld' = withheld
      BY <2>1 DEF AwaitPing
    <3>2. 1 \in 0 .. Len(Order)
      BY OrderFacts
    <3> QED
      <4>1. /\ watchdog \in [i : 0 .. Len(Order), at : {"new", "wait", "look", "ended"}]
            /\ withheld \in BOOLEAN /\ (watchdog.at = "look" => watchdog.i >= 1)
        BY <1>1 DEF IInv, TypeOK, Watchers
      <4>2. CASE watchdog' = [watchdog EXCEPT !.at = "ended"] /\ withheld' = withheld
        BY <4>1, <4>2
      <4>3. CASE withheld' = FALSE /\ watchdog' = watchdog
        BY <4>1, <4>3
      <4>4. CASE watchdog' = [i |-> 1, at |-> "look"] /\ withheld' = withheld
        BY <3>2, <4>1, <4>4
      <4> QED
        BY <3>1, <4>2, <4>3, <4>4
  <2>2. CASE LookAtTask
    <3>1. watchdog.i \in 1 .. Len(Order) /\ watchdog.at = "look"
      BY <1>1, <2>2, OrderFacts DEF IInv, TypeOK, Watchers, LookAtTask
    <3>2. CASE ~Fatal(Order[watchdog.i]) /\ watchdog.i < Len(Order)
      BY <1>1, <2>2, <3>1, <3>2, OrderFacts DEF TypeOK, LookAtTask
    <3>3. CASE ~(~Fatal(Order[watchdog.i]) /\ watchdog.i < Len(Order))
      <4>1. watchdog' = [i |-> 0, at |-> "wait"] /\ withheld' = Fatal(Order[watchdog.i])
        BY <2>2, <3>3 DEF LookAtTask
      <4>2. withheld' \in BOOLEAN /\ (withheld' => Order[watchdog.i] \in Critical /\ state[Order[watchdog.i]] = "FAILED")
        <5>1. CASE Fatal(Order[watchdog.i])
          BY <4>1, <5>1 DEF Fatal
        <5>2. CASE ~Fatal(Order[watchdog.i])
          BY <4>1, <5>2 DEF Fatal
        <5> QED
          BY <5>1, <5>2
      <4> QED
        BY <4>1, <4>2, OrderFacts
    <3> QED
      BY <3>2, <3>3
  <2> QED
    BY <2>1, <2>2 DEF Watchdog
<1>3. TypeOK'
  BY <1>1, <1>2 DEF TypeOK
<1>4. Watchers' /\ NoFalseAlarm'
  BY <1>1, <1>2, TasksAssumption DEF IInv, Watchers, Verdicts, NoFalseAlarm
<1> QED
  BY <1>1, <1>3, <1>4 DEF IInv, Started, Stopped, Sessions, Verdicts, Done, Alive

\* StartAll keeps the invariant.
LEMMA StartAllKeeps == ASSUME IInv, StartAll PROVE IInv'
<1> DEFINE t == Order[main.i]
<1>1. /\ TypeOK /\ mpc = "starting" /\ main.step = "start" /\ main.i \in DOMAIN Order /\ pc[t] = "new"
      /\ pc' = [pc EXCEPT ![t] = "loop"] /\ state' = [state EXCEPT ![t] = "IDLE"]
      /\ stopEvent' = [stopEvent EXCEPT ![t] = FALSE] /\ t \in Tasks
      /\ UNCHANGED <<backoff, failed, session, hung, motor, watch, alarms, shutdown, watchdog,
                     withheld>>
  BY OrderFacts DEF IInv, TypeOK, Started, StartAll, Goto, SetState, monitorVars, dogVars
<1> HIDE DEF t
<1>2. /\ main' \in [i : 0 .. Len(Order), step : {"none", "start", "mark", "signal", "join"}]
      /\ \/ mpc' = "starting" /\ main'.step = "start" /\ main'.i = main.i + 1
         \/ mpc' = "petting" /\ main.i = Len(Order)
  <2>1. CASE main.i < Len(Order)
    BY <1>1, <2>1, OrderFacts DEF StartAll, TypeOK
  <2>2. CASE ~(main.i < Len(Order))
    BY <1>1, <2>2, OrderFacts DEF StartAll, Idle
  <2> QED
    BY <2>1, <2>2
<1>3. TypeOK'
  BY <1>1, <1>2 DEF TypeOK
<1>4. \A u \in Tasks : pc'[u] = (IF u = t THEN "loop" ELSE pc[u]) /\ state'[u] = (IF u = t THEN "IDLE" ELSE state[u])
  BY <1>1 DEF TypeOK
<1>5. \A j \in DOMAIN Order : pc'[Order[j]] = "new" <=> j > main.i
  <2> SUFFICES ASSUME NEW j \in DOMAIN Order PROVE pc'[Order[j]] = "new" <=> j > main.i
    OBVIOUS
  <2>1. j = main.i <=> Order[j] = t
    BY <1>1, OrderFacts DEF t
  <2>2. pc[Order[j]] = "new" <=> j >= main.i
    BY <1>1 DEF IInv, Started
  <2> QED
    BY <1>1, <1>4, <2>1, <2>2, OrderFacts
<1>6. Started'
  BY <1>1, <1>2, <1>5, OrderFacts DEF Started
<1>7. Stopped'
  BY <1>1, <1>2 DEF IInv, Stopped
<1>8. Sessions' /\ Verdicts'
  BY <1>1, <1>4 DEF IInv, Sessions, Verdicts
<1>9. Watchers' /\ NoFalseAlarm'
  BY <1>1, <1>4, TasksAssumption DEF IInv, Watchers, NoFalseAlarm
<1> QED
  BY <1>3, <1>6, <1>7, <1>8, <1>9 DEF IInv

\* The rest of main moves no task.
LEMMA MainKeeps ==
    ASSUME IInv, StartWatchdog \/ StopWatchdog \/ BeginStop \/ SignalArrives
    PROVE  IInv'
<1>1. UNCHANGED <<pc, backoff, failed, session, state, stopEvent, hung, motor, watch, alarms,
                  withheld>>
  BY
     DEF StartWatchdog, StopWatchdog, BeginStop, SignalArrives, threadVars, stopVars, monitorVars,
         dogVars
<1>2. \/ mpc' = mpc /\ main' = main
      \/ mpc # "starting" /\ mpc # "stopping" /\ mpc # "exited" /\ mpc' \in {"waiting", "joining"} /\ main' = main
      \/ mpc = "joining" /\ mpc' = "stopping" /\ main' = [i |-> Len(Order), step |-> "mark"]
  BY DEF StartWatchdog, StopWatchdog, BeginStop, SignalArrives, stopVars
<1>3. watchdog' = [watchdog EXCEPT !.at = "wait"] \/ watchdog' = watchdog
  BY DEF StartWatchdog, StopWatchdog, BeginStop, SignalArrives, dogVars
<1>4. shutdown' \in BOOLEAN
  BY DEF IInv, TypeOK, StartWatchdog, StopWatchdog, BeginStop, SignalArrives
<1>5. TypeOK'
  <2>1. TypeOK
    BY DEF IInv
  <2>2. main' \in [i : 0 .. Len(Order), step : {"none", "start", "mark", "signal", "join"}]
        /\ mpc' \in {"starting", "petting", "waiting", "joining", "stopping", "exited"}
    BY <1>2, <2>1, OrderFacts DEF TypeOK
  <2>3. watchdog' \in [i : 0 .. Len(Order), at : {"new", "wait", "look", "ended"}]
    BY <1>3, <2>1 DEF TypeOK
  <2> QED
    BY <1>1, <1>4, <2>1, <2>2, <2>3 DEF TypeOK
<1>6. Started' /\ Watchers'
  BY <1>1, <1>2, <1>3 DEF IInv, TypeOK, Started, Watchers
<1>7. Stopped'
  BY <1>1, <1>2, OrderFacts DEF IInv, Stopped, Done, Alive
<1> QED
  BY <1>1, <1>5, <1>6, <1>7 DEF IInv, Sessions, Verdicts, NoFalseAlarm

-----------------------------------------------------------------------------
(* The theorems                                                              *)

\* The invariant holds at the start.
LEMMA InitEstablishes == Init => IInv
<1> SUFFICES ASSUME Init PROVE IInv
  OBVIOUS
<1>1. TypeOK
  <2>1. 1 \in 0 .. Len(Order) /\ 1 \in DOMAIN Order /\ 0 \in 0 .. Len(Order) /\ 0 \in 0 .. Len(MotorOrder)
        /\ 1 \in 1 .. BackoffMax
    BY OrderFacts, MotorFacts, BoundsAssumption
  <2> QED
    BY <2>1 DEF Init, TypeOK, Idle
<1>2. Started /\ Watchers
  BY OrderFacts DEF Init, Started, Watchers
<1>3. Stopped /\ Sessions /\ Verdicts /\ NoFalseAlarm
  BY IdleFacts DEF Init, Stopped, Sessions, Verdicts, NoFalseAlarm
<1> QED
  BY <1>1, <1>2, <1>3 DEF IInv

\* Every step of the specification keeps the invariant.
LEMMA NextKeeps == IInv /\ [Next]_vars => IInv'
<1> SUFFICES ASSUME IInv, [Next]_vars PROVE IInv'
  OBVIOUS
<1>1. CASE \E t \in Tasks : Thread(t) \/ Hang(t)
  BY <1>1, ThreadKeeps, HangKeeps
<1>2. CASE StopMotors \/ StopMotorStep
  BY <1>2, StopMotorsKeeps, StopMotorStepKeeps
<1>3. CASE Monitor \/ Watchdog
  BY <1>3, MonitorKeeps, WatchdogKeeps
<1>4. CASE Main \/ SignalArrives
  BY <1>4, StartAllKeeps, StopAllStepKeeps, MainKeeps DEF Main
<1>5. CASE UNCHANGED vars
  BY <1>5
     DEF IInv, TypeOK, Started, Stopped, Sessions, Verdicts, Watchers, NoFalseAlarm, Done, Alive,
         vars, threadVars, stopVars, monitorVars, dogVars
<1> QED
  BY <1>1, <1>2, <1>3, <1>4, <1>5 DEF Next

\* The inductive invariant holds in every reachable state.
THEOREM Invariance == Spec => []IInv
BY InitEstablishes, NextKeeps, PTL DEF Spec

\* No setup() of a task is run on top of an earlier one, and main exits without a session
\* only where a call hangs, however many tasks there are and in whatever order two threads
\* stop them.
THEOREM EverySessionIsClosed == Spec => []SessionsAreClosed
<1>1. IInv => SessionsAreClosed
  BY DEF IInv, Sessions, Stopped, Done, Alive, SessionsAreClosed
<1> QED
  BY <1>1, Invariance, PTL

\* The monitor reports a task, and the watchdog withholds a ping, only for a critical task
\* that has failed for good, although both look at it in several steps.
THEOREM AlarmsAreTrue == Spec => []NoFalseAlarm
BY Invariance, PTL DEF IInv
=============================================================================
