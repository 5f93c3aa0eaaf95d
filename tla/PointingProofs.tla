--------------------------- MODULE PointingProofs ---------------------------
(***************************************************************************)
(* Proofs about Pointing, for any range of speeds, any thresholds and any    *)
(* number of changes of the link.                                            *)
(***************************************************************************)
EXTENDS Pointing, TLAPS

\* A driver without its motor object, like a task outside a session, has told the wheel to
\* stop or has met a port that was gone.
Parked == ~motor \/ pc \in {"setup", "backoff", "ended"} => told = 0 \/ abandoned

\* The one late cycle has set the stop event itself and is on its way out.
LateIsLast ==
    /\ closedFirst => window = "over"
    /\ late <= 1
    /\ late = 1 => stopEvent /\ pc \in {"cycle", "teardown", "ended"}

\* The instant from which the rates count as quiet is never older than the quiet itself.
QuietIsCounted ==
    st = "STABILIZE" /\ age["stable"] # Never =>
        /\ calm >= age["stable"]
        /\ pc = "cycle" => calm > age["stable"] \/ calm = Horizon

\* The inductive invariant.
IInv == TypeOK /\ Parked /\ LateIsLast /\ QuietIsCounted

\* What PointsAfterQuiet says of one step.
Earned == st # "POINTING" /\ st' = "POINTING" => calm >= SettleFor \/ age["state"] > GiveUp

-----------------------------------------------------------------------------
(* What the steps are made of                                                *)

\* The smaller of two numbers.
LEMMA MinFacts ==
    ASSUME NEW a \in Int, NEW b \in Int
    PROVE  Min({a, b}) = IF a <= b THEN a ELSE b
  BY DEF Min

\* The constants, one by one.
LEMMA Bounds ==
    /\ Top \in Nat /\ Rest \in 0..Top /\ Spinup \in 0..Top
    /\ SettleFor \in Nat /\ Window \in Nat /\ MaxLosses \in Nat
    /\ Horizon \in Nat \ {0} /\ Never \notin 0..Horizon
<1>1. {SpinupFor, SettleFor, SaturatedFor, DesaturateFor, Window, MaxLosses} \subseteq Nat
      /\ Horizon \in Nat /\ GiveUp \in 0..Horizon-1
  BY TimesAssumption
<1>2. Horizon # 0
  BY <1>1
<1> QED
  BY <1>1, <1>2, SpeedsAssumption DEF Never

\* An instant ages by a cycle, up to the horizon.
LEMMA OlderFacts ==
    ASSUME TypeOK, NEW i \in Instants
    PROVE  /\ Older(i) \in {Never} \cup 0..Horizon
           /\ age[i] = Never <=> Older(i) = Never
           /\ age[i] # Never => Older(i) <= age[i] + 1 /\ Older(i) <= Horizon
<1>1. age[i] \in {Never} \cup 0..Horizon
  BY DEF TypeOK
<1>2. CASE age[i] = Never
  BY <1>2 DEF Older
<1>3. CASE age[i] # Never
  <2>1. Older(i) = IF age[i] + 1 <= Horizon THEN age[i] + 1 ELSE Horizon
    BY <1>1, <1>3, Bounds, MinFacts DEF Older
  <2> QED
    BY <1>1, <1>3, <2>1, Bounds
<1> QED
  BY <1>2, <1>3

\* _set_state(): a change of the state forgets every instant, and no change forgets none.
LEMMA EnterFacts ==
    ASSUME TypeOK, NEW s \in States, Enter(s)
    PROVE  /\ st' = s /\ age' \in [Instants -> {Never} \cup 0..Horizon]
           /\ fill' \in 0..Window /\ calm' \in 0..Horizon
           /\ s = st => age' = age /\ calm' = calm
           /\ s # st => age'["stable"] = Never
  BY Bounds DEF TypeOK, Enter, Fresh, Instants

\* The window of rates fills up to its size.
LEMMA NewFillFacts == ASSUME TypeOK PROVE NewFill \in 0..Window
<1>1. NewFill = IF fill + 1 <= Window THEN fill + 1 ELSE Window
  BY Bounds, MinFacts DEF NewFill, TypeOK
<1> QED
  BY <1>1, Bounds DEF TypeOK

\* The age of the saturation keeps its type.
LEMMA SatAgeFacts == ASSUME TypeOK PROVE SatAge \in {Never} \cup 0..Horizon
  BY Bounds DEF TypeOK, SatAge, Instants

\* A command reaches the wheel only through a motor object and a port, and counts as late
\* only if it ends its cycle.
LEMMA CommandFacts ==
    ASSUME TypeOK, NEW speed \in 0..Top, NEW next, Command(speed, next)
    PROVE  /\ last' \in 0..Top /\ told' \in 0..Top /\ (~motor => told' = told)
           /\ \/ late' = late /\ pc' \in {"teardown", next}
              \/ /\ closedFirst /\ next = "cycle" /\ pc' = "cycle"
                 /\ late' \in 0..2 /\ (late = 0 => late' = 1)
<1>1. late \in 0..2 /\ last' = speed /\ told \in 0..Top
  BY DEF Command, TypeOK
<1>2. Min({late + 1, 2}) \in 0..2 /\ (late = 0 => Min({late + 1, 2}) = 1)
  BY <1>1, MinFacts
<1> QED
  BY <1>1, <1>2 DEF Command

\* What the act of a cycle in any state leaves to be shown.
LEMMA ActKeeps ==
    ASSUME IInv, NEW s, Act(s), NEW speed \in 0..Top, NEW next \in {"cycle", "act"},
           Command(speed, next) \/ NoCommand(next),
           (st \in States /\ age \in [Instants -> {Never} \cup 0..Horizon]
              /\ fill \in 0..Window /\ calm \in 0..Horizon)',
           QuietIsCounted'
    PROVE  IInv'
<1>1. /\ TypeOK /\ pc = "act" /\ late = 0 /\ (closedFirst => window = "over")
      /\ UNCHANGED <<passed, rpm, motor, abandoned, closedFirst, world>>
      /\ stopEvent' = (stopEvent \/ window # "open")
  BY DEF IInv, TypeOK, LateIsLast, Act, Check
<1>2. /\ last' \in 0..Top /\ told' \in 0..Top /\ (~motor => told' = told)
      /\ \/ late' = late /\ pc' \in {"teardown", next}
         \/ closedFirst /\ pc' = "cycle" /\ late' = 1
  <2>1. CASE Command(speed, next)
    BY <1>1, <2>1, CommandFacts
  <2>2. CASE NoCommand(next)
    BY <1>1, <2>2 DEF NoCommand, link, TypeOK
  <2> QED
    BY <2>1, <2>2
<1>3. stopEvent' \in BOOLEAN /\ (window = "over" => stopEvent')
  BY <1>1 DEF TypeOK
<1>4. TypeOK'
  <2>1. {rpm, last, told, wheel}' \subseteq 0..Top
    BY <1>1, <1>2 DEF TypeOK, world
  <2>2. {passed, motor, stopEvent, abandoned, closedFirst}' \subseteq BOOLEAN
    BY <1>1, <1>3 DEF TypeOK
  <2>3. late' \in 0..2
    BY <1>1, <1>2
  <2>4. pc' \in {"cycle", "act", "teardown"}
    BY <1>2
  <2> QED
    BY <1>1, <2>1, <2>2, <2>3, <2>4 DEF TypeOK, world
<1>5. Parked'
  BY <1>1, <1>2 DEF IInv, Parked
<1>6. LateIsLast'
  BY <1>1, <1>2, <1>3 DEF LateIsLast, world
<1> QED
  BY <1>4, <1>5, <1>6 DEF IInv

-----------------------------------------------------------------------------
(* The thread of the task                                                    *)

\* Setup keeps the invariant.
LEMMA SetupKeeps == ASSUME IInv, Setup PROVE IInv'
<1>1. st' = "IDLE" /\ fill' = 0 /\ calm' = 0 /\ age' \in [Instants -> {Never} \cup 0..Horizon]
  BY Bounds DEF Setup, Fresh
<1>2. motor' \in BOOLEAN /\ pc' \in {"cycle", "backoff"}
  BY DEF Setup
<1>3. TypeOK'
  <2>1. TypeOK /\ passed' = FALSE /\ 0 \in 0..Window /\ 0 \in 0..Horizon
        /\ UNCHANGED <<rpm, stopEvent, told, last, abandoned, closedFirst, late, wheel, vesc,
                       window, losses>>
    BY Bounds DEF IInv, Setup, link, world
  <2>2. {passed, motor, stopEvent, abandoned, closedFirst}' \subseteq BOOLEAN
    BY <1>2, <2>1 DEF TypeOK
  <2> QED
    BY <1>1, <1>2, <2>1, <2>2 DEF TypeOK, States
<1>4. Parked' /\ LateIsLast' /\ QuietIsCounted'
  BY <1>1, <1>2 DEF IInv, Parked, LateIsLast, QuietIsCounted, Setup, link, world, TypeOK
<1> QED
  BY <1>3, <1>4 DEF IInv

\* LeaveLoop keeps the invariant.
LEMMA LeaveLoopKeeps == ASSUME IInv, LeaveLoop PROVE IInv'
  BY DEF IInv, TypeOK, Parked, LateIsLast, QuietIsCounted, LeaveLoop, control, link, world

\* Store keeps the invariant.
LEMMA StoreKeeps == ASSUME IInv, Store PROVE IInv'
<1>1. TypeOK /\ pc' \in {"teardown", "look"} /\ pc = "cycle" /\ ~stopEvent
  BY DEF Store, IInv
<1>2. age' \in [Instants -> {Never} \cup 0..Horizon]
  BY <1>1, OlderFacts DEF Store
<1>3. TypeOK'
  BY <1>1, <1>2 DEF Store, TypeOK, link, world
<1>4. Parked'
  BY <1>1 DEF IInv, Parked, Store, link
<1>5. LateIsLast'
  BY <1>1 DEF IInv, TypeOK, LateIsLast, Store, link, world
<1>6. QuietIsCounted'
  <2>1. /\ age["stable"] = Never <=> age'["stable"] = Never
        /\ age["stable"] # Never => age'["stable"] <= age["stable"] + 1 /\ age'["stable"] <= Horizon
        /\ age["stable"] \in {Never} \cup 0..Horizon /\ calm \in 0..Horizon
        /\ age'["stable"] \in {Never} \cup 0..Horizon
    BY <1>1, <1>2, OlderFacts DEF Store, Instants, TypeOK
  <2>2. st' = st /\ calm' = calm /\ pc' # "cycle"
    BY <1>1 DEF Store
  <2>3. CASE st = "STABILIZE" /\ age["stable"] # Never
    <3>1. calm >= age["stable"] /\ (calm > age["stable"] \/ calm = Horizon)
      BY <1>1, <2>3 DEF IInv, QuietIsCounted
    <3>2. calm' >= age'["stable"]
      BY <2>1, <2>2, <2>3, <3>1, Bounds
    <3> QED
      BY <2>2, <3>2 DEF QuietIsCounted
  <2> QED
    BY <2>1, <2>2, <2>3 DEF QuietIsCounted
<1> QED
  BY <1>3, <1>4, <1>5, <1>6 DEF IInv

\* Look keeps the invariant.
LEMMA LookKeeps == ASSUME IInv, Look PROVE IInv'
<1>1. TypeOK /\ pc = "look" /\ pc' \in {"cycle", "act"} /\ (pc' = "cycle" => st' = "IDLE")
      /\ UNCHANGED <<rpm, motor, stopEvent, link, abandoned, closedFirst, late, world>>
  BY DEF Look, IInv
<1>2. /\ st' \in States /\ age' \in [Instants -> {Never} \cup 0..Horizon]
      /\ fill' \in 0..Window /\ calm' \in 0..Horizon /\ passed' \in BOOLEAN
      /\ \/ age' = age /\ calm' = calm /\ st' = st
         \/ age'["stable"] = Never
  <2>1. CASE passed' = TRUE /\ Enter(IF Spinup # 0 THEN "SPINUP" ELSE "STABILIZE")
    <3> DEFINE s == IF Spinup # 0 THEN "SPINUP" ELSE "STABILIZE"
    <3>1. s \in States
      BY DEF States
    <3> HIDE DEF s
    <3>2. Enter(s)
      BY <2>1 DEF s
    <3> QED
      BY <1>1, <2>1, <3>1, <3>2, EnterFacts
  <2>2. CASE UNCHANGED <<passed, control>>
    BY <1>1, <2>2 DEF TypeOK, control
  <2> QED
    BY <2>1, <2>2 DEF Look
<1>3. TypeOK'
  BY <1>1, <1>2 DEF TypeOK, link, world
<1>4. Parked' /\ LateIsLast' /\ QuietIsCounted'
  BY <1>1, <1>2 DEF IInv, Parked, LateIsLast, QuietIsCounted, link, world, TypeOK
<1> QED
  BY <1>3, <1>4 DEF IInv

\* SpinUp keeps the invariant, and POINTING is earned.
LEMMA SpinUpKeeps == ASSUME IInv, SpinUp PROVE IInv' /\ Earned
<1>1. TypeOK /\ Act("SPINUP") /\ st = "SPINUP" /\ pc = "act" /\ Spinup \in 0..Top
  BY Bounds DEF IInv, SpinUp, Act
<1>2. /\ \E next \in {"cycle", "act"} : Command(Spinup, next)
      /\ Enter("STABILIZE") \/ UNCHANGED control
  BY DEF SpinUp
<1>3. /\ st' \in {"SPINUP", "STABILIZE"} /\ age' \in [Instants -> {Never} \cup 0..Horizon]
      /\ fill' \in 0..Window /\ calm' \in 0..Horizon
      /\ st' = "STABILIZE" => age'["stable"] = Never
  BY <1>1, <1>2, EnterFacts DEF TypeOK, States, control
<1>4. QuietIsCounted'
  BY <1>3 DEF QuietIsCounted
<1>5. IInv'
  BY <1>1, <1>2, <1>3, <1>4, ActKeeps DEF States
<1> QED
  BY <1>3, <1>5 DEF Earned

\* A state is entered or kept, with whatever instant.
LEMMA StayFacts ==
    ASSUME TypeOK, NEW instant \in Instants, NEW value \in {Never} \cup 0..Horizon,
           Stay(instant, value)
    PROVE  /\ st' = st /\ fill' \in 0..Window /\ age' \in [Instants -> {Never} \cup 0..Horizon]
           /\ age'[instant] = value
  BY NewFillFacts, SatAgeFacts DEF Stay, TypeOK, Instants

\* Stabilize keeps the invariant, and POINTING is earned.
LEMMA StabilizeKeeps == ASSUME IInv, Stabilize PROVE IInv' /\ Earned
<1>1. /\ TypeOK /\ Act("STABILIZE") /\ st = "STABILIZE" /\ pc = "act" /\ Rest \in 0..Top
      /\ age["stable"] \in {Never} \cup 0..Horizon /\ calm \in 0..Horizon
      /\ age["stable"] # Never => calm >= age["stable"]
  BY Bounds DEF IInv, TypeOK, Stabilize, Act, QuietIsCounted, Instants
<1>2. ASSUME NEW s \in {"SATURATED", "POINTING"}, Enter(s), NoCommand("cycle"),
             s = "POINTING" => calm >= SettleFor \/ age["state"] > GiveUp
      PROVE  IInv' /\ Earned
  <2>1. /\ st' = s /\ age' \in [Instants -> {Never} \cup 0..Horizon]
        /\ fill' \in 0..Window /\ calm' \in 0..Horizon
    BY <1>1, <1>2, EnterFacts DEF States
  <2>2. QuietIsCounted'
    BY <1>2, <2>1 DEF QuietIsCounted
  <2>3. IInv'
    BY <1>1, <1>2, <2>1, <2>2, ActKeeps DEF States
  <2> QED
    BY <1>2, <2>1, <2>3 DEF Earned
<1>3. ASSUME NEW rate \in Rates, Stay("stable", StableAge(rate)), Calmer(rate),
             NEW speed \in 0..Top, Command(speed, "cycle")
      PROVE  IInv' /\ Earned
  <2>1. StableAge(rate) \in {Never} \cup 0..Horizon
    BY <1>1, Bounds DEF StableAge
  <2>2. /\ st' = st /\ fill' \in 0..Window /\ age' \in [Instants -> {Never} \cup 0..Horizon]
        /\ age'["stable"] = StableAge(rate)
    BY <1>1, <1>3, <2>1, StayFacts DEF Instants
  <2>3. calm' = IF NewFill = Window /\ rate \in Quiet
                  THEN (IF calm + 1 <= Horizon THEN calm + 1 ELSE Horizon) ELSE 0
    BY <1>1, <1>3, Bounds, MinFacts DEF Calmer
  <2>4. calm' \in 0..Horizon
    BY <1>1, <2>3, Bounds
  <2>5. QuietIsCounted'
    <3>1. CASE NewFill = Window /\ rate \in Quiet
      <4>1. StableAge(rate) = IF age["stable"] = Never THEN 0 ELSE age["stable"]
        BY <3>1, Bounds DEF StableAge
      <4> QED
        BY <1>1, <2>2, <2>3, <3>1, <4>1, Bounds DEF QuietIsCounted
    <3>2. CASE ~(NewFill = Window /\ rate \in Quiet)
      <4>1. StableAge(rate) = Never
        BY <1>1, <3>2, NewFillFacts, Bounds DEF StableAge
      <4> QED
        BY <2>2, <4>1 DEF QuietIsCounted
    <3> QED
      BY <3>1, <3>2
  <2>6. IInv'
    BY <1>1, <1>3, <2>2, <2>4, <2>5, ActKeeps DEF States
  <2> QED
    BY <1>1, <2>2, <2>6 DEF Earned
<1>4. CASE Saturated /\ Enter("SATURATED") /\ NoCommand("cycle")
  BY <1>2, <1>4
<1>5. ASSUME NEW rate \in Rates, Stable(rate) \/ age["state"] > GiveUp, Enter("POINTING"),
             NoCommand("cycle")
      PROVE  IInv' /\ Earned
  <2>1. Stable(rate) => calm >= SettleFor
    BY <1>1, Bounds DEF Stable
  <2> QED
    BY <1>2, <1>5, <2>1
<1> QED
  BY <1>3, <1>4, <1>5 DEF Stabilize

\* Point keeps the invariant, and POINTING is earned.
LEMMA PointKeeps == ASSUME IInv, Point PROVE IInv' /\ Earned
<1>1. /\ TypeOK /\ Act("POINTING") /\ st = "POINTING" /\ pc = "act" /\ Rest \in 0..Top
      /\ age["unstable"] \in {Never} \cup 0..Horizon
  BY Bounds DEF IInv, TypeOK, Point, Act, Instants
<1>2. ASSUME NEW s \in {"SATURATED", "STABILIZE"}, Enter(s), NoCommand("cycle")
      PROVE  IInv' /\ Earned
  <2>1. /\ st' = s /\ age' \in [Instants -> {Never} \cup 0..Horizon]
        /\ fill' \in 0..Window /\ calm' \in 0..Horizon /\ age'["stable"] = Never
    BY <1>1, <1>2, EnterFacts DEF States
  <2>2. QuietIsCounted'
    BY <2>1 DEF QuietIsCounted
  <2>3. IInv'
    BY <1>1, <1>2, <2>1, <2>2, ActKeeps DEF States
  <2> QED
    BY <1>2, <2>1, <2>3 DEF Earned
<1>3. ASSUME NEW rate \in Rates, Stay("unstable", UnstableAge(rate)), UNCHANGED calm,
             NEW speed \in 0..Top, Command(speed, "cycle")
      PROVE  IInv' /\ Earned
  <2>1. UnstableAge(rate) \in {Never} \cup 0..Horizon
    BY <1>1, Bounds DEF UnstableAge
  <2>2. st' = st /\ fill' \in 0..Window /\ age' \in [Instants -> {Never} \cup 0..Horizon]
    BY <1>1, <1>3, <2>1, StayFacts DEF Instants
  <2>3. calm' \in 0..Horizon
    BY <1>1, <1>3 DEF TypeOK
  <2>4. QuietIsCounted'
    BY <1>1, <2>2 DEF QuietIsCounted
  <2>5. IInv'
    BY <1>1, <1>3, <2>2, <2>3, <2>4, ActKeeps DEF States
  <2> QED
    BY <1>1, <2>2, <2>5 DEF Earned
<1> QED
  BY <1>2, <1>3 DEF Point

\* Desaturate keeps the invariant, and POINTING is earned.
LEMMA DesaturateKeeps == ASSUME IInv, Desaturate PROVE IInv' /\ Earned
<1>1. /\ TypeOK /\ Act("SATURATED") /\ st = "SATURATED" /\ pc = "act" /\ Command(Ramped, "cycle")
      /\ Enter("STABILIZE") \/ UNCHANGED control
  BY DEF IInv, Desaturate, Act
<1>2. Ramped \in 0..Top
  BY <1>1, Bounds DEF TypeOK, Ramped
<1>3. /\ st' \in {"SATURATED", "STABILIZE"} /\ age' \in [Instants -> {Never} \cup 0..Horizon]
      /\ fill' \in 0..Window /\ calm' \in 0..Horizon
      /\ st' = "STABILIZE" => age'["stable"] = Never
  BY <1>1, EnterFacts DEF TypeOK, States, control
<1>4. QuietIsCounted'
  BY <1>3 DEF QuietIsCounted
<1>5. IInv'
  BY <1>1, <1>2, <1>3, <1>4, ActKeeps DEF States
<1> QED
  BY <1>3, <1>5 DEF Earned

\* Teardown keeps the invariant.
LEMMA TeardownKeeps == ASSUME IInv, Teardown PROVE IInv'
<1>1. TypeOK /\ pc = "teardown" /\ pc' = (IF stopEvent THEN "ended" ELSE "backoff")
      /\ UNCHANGED <<control, passed, rpm, stopEvent, last, closedFirst, late, world>>
  BY DEF IInv, Teardown
<1>2. /\ told' \in 0..Top /\ motor' \in BOOLEAN /\ abandoned' \in BOOLEAN
      /\ (told' = 0) \/ abandoned'
  <2>1. CASE CanStop
    <3>1. told' = Stops /\ motor' = FALSE /\ abandoned' = abandoned
      BY <2>1 DEF Teardown
    <3>2. (~motor => (told = 0) \/ abandoned) /\ told \in 0..Top /\ 0 \in 0..Top
      BY <1>1, Bounds DEF IInv, Parked, TypeOK
    <3> QED
      BY <1>1, <3>1, <3>2 DEF Stops, TypeOK
  <2>2. CASE ~CanStop
    BY <1>1, <2>2 DEF Teardown, TypeOK
  <2> QED
    BY <2>1, <2>2
<1>3. TypeOK'
  BY <1>1, <1>2 DEF TypeOK, control, world
<1>4. Parked' /\ LateIsLast' /\ QuietIsCounted'
  BY <1>1, <1>2 DEF IInv, Parked, LateIsLast, QuietIsCounted, control, world, TypeOK
<1> QED
  BY <1>3, <1>4 DEF IInv

\* Restart keeps the invariant.
LEMMA RestartKeeps == ASSUME IInv, Restart PROVE IInv'
<1>1. TypeOK'
  BY DEF IInv, TypeOK, Restart, control, link, world
<1>2. Parked' /\ LateIsLast' /\ QuietIsCounted'
  BY DEF IInv, Parked, LateIsLast, QuietIsCounted, Restart, control, link, world, TypeOK
<1> QED
  BY <1>1, <1>2 DEF IInv

-----------------------------------------------------------------------------
(* The others                                                                *)

\* What the flight stage task, the wheel and the link do to the invariant.
LEMMA WorldKeeps ==
    ASSUME IInv, WindowTurns \/ StopAtApogee \/ Wheel \/ LinkChanges
    PROVE  IInv' /\ st' = st
<1>1. UNCHANGED <<pc, control, passed, rpm, motor, link, abandoned, closedFirst, late>>
  BY DEF WindowTurns, StopAtApogee, Wheel, LinkChanges, task, control, link
<1>2. /\ wheel' \in 0..Top /\ vesc' \in {"answers", "mute", "gone"}
      /\ window' \in {"before", "open", "over"} /\ (window = "over" => window' = "over")
      /\ losses' \in 0..MaxLosses /\ stopEvent' \in BOOLEAN /\ (stopEvent => stopEvent')
  <2>1. CASE WindowTurns
    BY <2>1 DEF IInv, TypeOK, WindowTurns, task
  <2>2. CASE StopAtApogee
    BY <2>2 DEF IInv, TypeOK, StopAtApogee, world
  <2>3. CASE Wheel
    BY <2>3, Bounds DEF IInv, TypeOK, Wheel, task
  <2>4. CASE LinkChanges
    BY <2>4, Bounds DEF IInv, TypeOK, LinkChanges, task
  <2> QED
    BY <2>1, <2>2, <2>3, <2>4
<1>3. TypeOK'
  BY <1>1, <1>2 DEF IInv, TypeOK, control, link
<1>4. Parked' /\ LateIsLast' /\ QuietIsCounted'
  BY <1>1, <1>2 DEF IInv, Parked, LateIsLast, QuietIsCounted, control, link
<1> QED
  BY <1>1, <1>3, <1>4 DEF IInv, control

-----------------------------------------------------------------------------
(* The theorems                                                              *)

\* The invariant holds at the start.
LEMMA InitEstablishes == Init => IInv
<1> SUFFICES ASSUME Init PROVE IInv
  OBVIOUS
<1>1. age \in [Instants -> {Never} \cup 0..Horizon] /\ age["stable"] = Never
  BY Bounds DEF Init, Fresh, Instants
<1>2. 0 \in 0..Top /\ 0 \in 0..Window /\ 0 \in 0..MaxLosses /\ 0 \in 0..Horizon
  BY Bounds
<1>3. TypeOK
  <2>1. {rpm, last, told, wheel} \subseteq 0..Top /\ fill \in 0..Window /\ losses \in 0..MaxLosses
    BY <1>2 DEF Init
  <2>2. {passed, motor, stopEvent, abandoned, closedFirst} \subseteq BOOLEAN
    BY DEF Init
  <2>3. calm \in 0..Horizon /\ late \in 0..2
    BY <1>2 DEF Init
  <2> QED
    BY <1>1, <2>1, <2>2, <2>3 DEF Init, TypeOK, States
<1> QED
  BY <1>1, <1>3 DEF Init, IInv, Parked, LateIsLast, QuietIsCounted

\* Every step of the specification keeps the invariant.
LEMMA NextKeeps == IInv /\ [Next]_vars => IInv' /\ Earned
<1> SUFFICES ASSUME IInv, [Next]_vars PROVE IInv' /\ Earned
  OBVIOUS
<1>1. CASE SpinUp \/ Stabilize \/ Point \/ Desaturate
  BY <1>1, SpinUpKeeps, StabilizeKeeps, PointKeeps, DesaturateKeeps
<1>2. CASE Setup \/ LeaveLoop \/ Store \/ Teardown \/ Restart
  <2>1. IInv'
    BY <1>2, SetupKeeps, LeaveLoopKeeps, StoreKeeps, TeardownKeeps, RestartKeeps
  <2>2. st' = st \/ st' = "IDLE"
    BY <1>2 DEF Setup, LeaveLoop, Store, Teardown, Restart, control
  <2> QED
    BY <2>1, <2>2 DEF Earned
<1>3. CASE Look
  <2>1. st' = st \/ st' \in {"SPINUP", "STABILIZE"}
    BY <1>3 DEF Look, Enter, control
  <2> QED
    BY <1>3, <2>1, LookKeeps DEF Earned
<1>4. CASE WindowTurns \/ StopAtApogee \/ Wheel \/ LinkChanges
  BY <1>4, WorldKeeps DEF Earned
<1>5. CASE UNCHANGED vars
  <2>1. IInv'
    BY <1>5 DEF IInv, TypeOK, Parked, LateIsLast, QuietIsCounted, vars, task, world, control, link
  <2> QED
    BY <1>5, <2>1 DEF Earned, vars, task, control
<1> QED
  BY <1>1, <1>2, <1>3, <1>4, <1>5 DEF Next, Thread

\* The inductive invariant holds in every reachable state.
THEOREM Invariance == Spec => []IInv
BY InitEstablishes, NextKeeps, PTL DEF Spec

\* Whatever happens in a session of PointingTask, it leaves no speed behind in the VESC,
\* unless a teardown met a port that was gone.
THEOREM WheelIsToldToStop == Spec => []NoSpeedLeftBehind
<1>1. IInv => NoSpeedLeftBehind
  BY DEF IInv, Parked, NoSpeedLeftBehind
<1> QED
  BY <1>1, Invariance, PTL

\* Of all cycles of all sessions, at most one that began after the window has commanded the
\* wheel.
THEOREM AtMostOneLateCycle == Spec => []OneLateCycle
<1>1. IInv => OneLateCycle
  BY DEF IInv, LateIsLast, OneLateCycle
<1> QED
  BY <1>1, Invariance, PTL

\* POINTING is entered only after the median of the rates has been quiet for the whole
\* threshold, or when stabilising has been given up.
THEOREM PointingIsEarned == Spec => PointsAfterQuiet
<1>1. IInv /\ [Next]_vars =>
        [st # "POINTING" /\ st' = "POINTING" => calm >= SettleFor \/ age["state"] > GiveUp]_vars
  BY NextKeeps DEF Earned
<1> QED
  BY <1>1, Invariance, PTL DEF Spec, PointsAfterQuiet
=============================================================================
