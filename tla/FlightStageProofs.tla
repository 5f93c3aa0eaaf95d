------------------------- MODULE FlightStageProofs -------------------------
(***************************************************************************)
(* Proofs about FlightStage, for every set of altitudes, every set of       *)
(* settings the ground can send and every value of the windows.             *)
(***************************************************************************)
EXTENDS FlightStage, TLAPS

Ages == {None} \union (0 .. Horizon)

\* What the conjuncts of FlagsMatchStage leave open: which verdict has been given in
\* which stage, that nothing fires before the ascent, and that no command is pending
\* once armed.
VerdictMatchesStage ==
    /\ stage <= ASCENT => ~flags["termination_fired"] /\ ~flags["burst_detected"]
    /\ stage = TERMINATION => ~flags["burst_detected"]
    /\ stage = BURST => ~flags["termination_fired"]
    /\ flags["cutdown_fired"] => stage >= ASCENT

\* The inductive invariant.
IInv ==
    /\ TypeOK
    /\ FlagsMatchStage
    /\ VerdictMatchesStage
    /\ CutdownOnce
    /\ CutdownBelowApogee
    /\ MotorsStoppedAfterAscent

-----------------------------------------------------------------------------
(* What execute() has computed when it calls _transition()                   *)

\* Aging keeps every saved instant within the horizon and forgets none.
LEMMA AgedType ==
    ASSUME TypeOK, NEW gap \in Gaps
    PROVE  /\ Aged(gap) \in [Timers -> Ages]
           /\ \A t \in Timers : Aged(gap)[t] = None <=> timer[t] = None
<1> DEFINE age(t) == IF timer[t] = None THEN None
                     ELSE IF timer[t] + gap > Horizon THEN Horizon ELSE timer[t] + gap
<1>1. gap \in Nat /\ Horizon \in Nat
  BY TimeAssumption
<1>2. ASSUME NEW t \in Timers
      PROVE  age(t) \in Ages /\ (age(t) = None <=> timer[t] = None)
  <2>1. timer[t] \in Ages
    BY DEF TypeOK, Ages
  <2>2. QED
    BY <1>1, <2>1 DEF Ages, None
<1>3. Aged(gap) = [t \in Timers |-> age(t)]
  BY DEF Aged
<1> QED
  BY <1>2, <1>3

\* Opening the pointing window changes no other timer.
LEMMA PointingTimerType ==
    ASSUME NEW T \in [Timers -> Ages], NEW a \in Nat
    PROVE  /\ PointingTimer(T, a) \in [Timers -> Ages]
           /\ \A t \in Timers \ {"pointing"} : PointingTimer(T, a)[t] = T[t]
  BY TimeAssumption DEF PointingTimer, Ages, Timers

\* A LAUNCH_OK is only honoured in Armed.
LEMMA StagePolledType ==
    ASSUME TypeOK
    PROVE  /\ StagePolled \in Stages
           /\ ~LaunchAccepted => StagePolled = stage
           /\ LaunchAccepted => stage = ARMED /\ StagePolled = LAUNCH
  BY DEF TypeOK, StagePolled, LaunchAccepted, Stages, PREFLIGHT, ARMED, LAUNCH, RECOVERY

\* Polling touches launch_initiated and pointing_active only.
LEMMA FlagsPolledType ==
    ASSUME TypeOK, NEW T, NEW a
    PROVE  LET F == FlagsPolled(T, a)
           IN  /\ F \in [Flags -> BOOLEAN]
               /\ F["launch_initiated"] <=> flags["launch_initiated"] \/ LaunchAccepted
               /\ \A f \in Flags \ {"launch_initiated", "pointing_active"} :
                    F[f] = flags[f]
<1>1. LaunchAccepted \in BOOLEAN
  BY DEF LaunchAccepted, TypeOK, Flags
<1>2. PointingOpens(T, a) \in BOOLEAN /\ PointingCloses(T) \in BOOLEAN
  BY DEF PointingOpens, PointingCloses
<1> QED
  BY <1>1, <1>2 DEF FlagsPolled, TypeOK, Flags

-----------------------------------------------------------------------------
(* One lemma per branch of _transition(): it preserves the invariant.        *)

\* What every branch is proved from.
Called(T, F, a) ==
    /\ IInv
    /\ T \in [Timers -> Ages]
    /\ F \in [Flags -> BOOLEAN]
    /\ F["launch_initiated"] <=> flags["launch_initiated"] \/ LaunchAccepted
    /\ \A f \in Flags \ {"launch_initiated", "pointing_active"} : F[f] = flags[f]
    /\ a \in Nat
    /\ StagePolled \in Stages
    /\ ~LaunchAccepted => StagePolled = stage
    /\ LaunchAccepted => stage = ARMED /\ StagePolled = LAUNCH
    /\ alt' = a
    /\ command' = {}
    /\ cfg' = cfg

\* The branch PreflightBranch keeps the invariant.
LEMMA PreflightPreserves ==
    ASSUME NEW T, NEW F, NEW a, NEW up, Called(T, F, a), PreflightBranch(T, F, up)
    PROVE  IInv'
<1> DEFINE ok == CheckPreflight(up)
           since == IF ok THEN Elapsed(T, "preflight_ok") ELSE None
           pending == ArmPolled \/ (AutoAdvance /\ ok /\ since >= Debounce)
           arm == pending /\ CheckArm(up)
<1>1. stage = PREFLIGHT /\ ~LaunchAccepted
  BY DEF Called, PreflightBranch, Stages, PREFLIGHT, ARMED, LAUNCH
<1>2. ok \in BOOLEAN /\ arm \in BOOLEAN /\ since \in Ages
  BY TimeAssumption DEF Called, CheckPreflight, CheckArm, Elapsed, Ages, Timers, None
<1>3. /\ stage' = IF arm THEN ARMED ELSE PREFLIGHT
      /\ flags' = [F EXCEPT !["preflight_ok"] = ok,
                            !["arm_checks_ok"] = @ \/ arm,
                            !["arm_state"] = @ \/ arm]
      /\ armPending' \in BOOLEAN
      /\ timer' = [T EXCEPT !["preflight_ok"] = since,
                            !["rw"] = IF arm THEN None ELSE @]
      /\ rwCheck' \in {"pending", rwCheck}
      /\ UNCHANGED <<apogee, launchAlt, cutAlt, stillAlt, motors, pulses>>
  BY DEF PreflightBranch
<1> HIDE DEF ok, since, pending, arm
<1>4. TypeOK'
  BY <1>1, <1>2, <1>3 DEF Called, IInv, TypeOK, Ages, None, Timers, Flags, Commands, Stages,
     PREFLIGHT, ARMED, RECOVERY
<1>5. (FlagsMatchStage /\ VerdictMatchesStage)'
  BY <1>1, <1>2, <1>3 DEF Called, IInv, TypeOK, FlagsMatchStage, VerdictMatchesStage, Flags,
     Stages, PREFLIGHT, ARMED, LAUNCH, ASCENT, TERMINATION, BURST, DESCENT, LANDING, RECOVERY
<1>6. (CutdownOnce /\ CutdownBelowApogee /\ MotorsStoppedAfterAscent)'
  BY <1>1, <1>2, <1>3 DEF Called, IInv, TypeOK, CutdownOnce, CutdownBelowApogee,
     MotorsStoppedAfterAscent, Flags, PREFLIGHT, ARMED, ASCENT
<1> QED
  BY <1>4, <1>5, <1>6 DEF IInv

\* The branch ArmedBranch keeps the invariant.
LEMMA ArmedPreserves ==
    ASSUME NEW T, NEW F, NEW a, NEW up, Called(T, F, a), ArmedBranch(T, F, a, up)
    PROVE  IInv'
<1>1. stage = ARMED /\ ~LaunchAccepted
  BY DEF Called, ArmedBranch, Stages, ARMED, LAUNCH
<1> DEFINE rw == IF BypassLaunchChecks THEN rwCheck ELSE RwStep(T, up)
           launch == BypassLaunchChecks \/ rw = "passed"
<1>a. /\ rw \in {"pending", "running", "passed", "failed"}
      /\ launch \in BOOLEAN
  BY DEF Called, IInv, TypeOK, RwStep, BypassLaunchChecks
<1>b. /\ stage' = IF launch THEN LAUNCH ELSE ARMED
      /\ flags' = [F EXCEPT !["arm_state"] = TRUE,
                            !["launch_initiated"] = @ \/ launch]
      /\ launchAlt' = IF launch THEN a ELSE launchAlt
      /\ rwCheck' = IF rw = "failed" THEN "pending" ELSE rw
      /\ timer' = [T EXCEPT !["rw"] =
                      IF rw = "failed" THEN None
                      ELSE IF rw = "running" /\ rwCheck = "pending" THEN 0 ELSE @]
      /\ armPending' = ArmPolled
      /\ UNCHANGED <<apogee, cutAlt, stillAlt, motors, pulses>>
  BY DEF ArmedBranch, AfterFailure
<1> HIDE DEF rw, launch
<1>c. ArmPolled \in BOOLEAN
  BY DEF Called, IInv, TypeOK, ArmPolled
<1>2. TypeOK'
  <2>1. flags' \in [Flags -> BOOLEAN]
    BY <1>a, <1>b DEF Called, Flags
  <2>4. stage' \in Stages
    BY <1>b DEF Stages, PREFLIGHT, ARMED, LAUNCH, RECOVERY
  <2>2. timer' \in [Timers -> Ages]
    BY <1>b, TimeAssumption DEF Called, Ages, Timers
  <2>3. rwCheck' \in {"pending", "running", "passed"} /\ launchAlt' \in Nat \union {None}
    BY <1>a, <1>b DEF Called, IInv, TypeOK
  <2> QED
    BY <1>b, <1>c, <2>1, <2>2, <2>3, <2>4 DEF Called, IInv, TypeOK, Ages, Commands
<1>3. (FlagsMatchStage /\ VerdictMatchesStage)'
  BY <1>1, <1>a, <1>b DEF Called, IInv, TypeOK, FlagsMatchStage, VerdictMatchesStage, Flags,
     Stages, PREFLIGHT, ARMED, LAUNCH, ASCENT, TERMINATION, BURST, DESCENT, LANDING, RECOVERY
<1>4. (CutdownOnce /\ CutdownBelowApogee /\ MotorsStoppedAfterAscent)'
  BY <1>1, <1>a, <1>b
     DEF Called, IInv, TypeOK, CutdownOnce, CutdownBelowApogee, MotorsStoppedAfterAscent,
     VerdictMatchesStage, Flags, None,
     PREFLIGHT, ARMED, LAUNCH, ASCENT, TERMINATION, BURST, DESCENT, LANDING, RECOVERY
<1> QED
  BY <1>2, <1>3, <1>4 DEF IInv

\* The branch LaunchBranch keeps the invariant.
LEMMA LaunchPreserves ==
    ASSUME NEW T, NEW F, NEW a, Called(T, F, a), LaunchBranch(T, F, a)
    PROVE  IInv'
<1>1. IF LaunchAccepted THEN stage = ARMED ELSE stage = LAUNCH
  BY DEF Called, LaunchBranch, Stages, ARMED, LAUNCH
<1>2. TypeOK'
  BY <1>1, SettingsAssumption, TimeAssumption
     DEF Called, IInv, TypeOK, LaunchBranch, ArmPolled, Elapsed, Ages, None, Timers,
         Flags, Commands, Stages, PREFLIGHT, ASCENT, LAUNCH, RECOVERY
<1>3. (FlagsMatchStage /\ VerdictMatchesStage)'
  BY <1>1 DEF Called, IInv, TypeOK, FlagsMatchStage, VerdictMatchesStage, LaunchBranch, Flags,
     Stages, PREFLIGHT, ARMED, LAUNCH, ASCENT, TERMINATION, BURST, DESCENT, LANDING, RECOVERY
<1>4. (CutdownOnce /\ CutdownBelowApogee /\ MotorsStoppedAfterAscent)'
  BY <1>1 DEF Called, IInv, TypeOK, CutdownOnce, CutdownBelowApogee, MotorsStoppedAfterAscent,
     VerdictMatchesStage, LaunchBranch, Flags, None,
     PREFLIGHT, ARMED, LAUNCH, ASCENT, TERMINATION, BURST, DESCENT, LANDING, RECOVERY
<1> QED
  BY <1>2, <1>3, <1>4 DEF IInv

\* What one cycle in Ascent amounts to: whether the cutdown fires, which verdict is given,
\* and the age of the fall.
AscentSummary(T, F, a, fire, confirmed, burst, since) ==
    /\ fire <=> CutdownDue(T, F, a)
    /\ fire => ~F["cutdown_fired"]
    /\ confirmed => F["cutdown_fired"] \/ fire
    /\ ~(confirmed /\ burst)
    /\ confirmed \/ burst => ~InLockout(T)
    /\ stage' = IF confirmed THEN TERMINATION ELSE IF burst THEN BURST ELSE ASCENT
    /\ flags' = [F EXCEPT !["cutdown_fired"] = @ \/ fire,
                          !["termination_fired"] = @ \/ confirmed,
                          !["burst_detected"] = @ \/ burst]
    /\ apogee' = IF a > apogee THEN a ELSE apogee
    /\ cutAlt' = IF fire THEN a ELSE cutAlt
    /\ timer' = [T EXCEPT !["cutdown"] = IF fire THEN 0 ELSE @,
                          !["falling"] = since]
    /\ motors' = IF confirmed \/ burst THEN {} ELSE motors
    /\ pulses' = IF fire THEN pulses + 1 ELSE pulses
    /\ armPending' = ArmPolled
    /\ UNCHANGED <<launchAlt, stillAlt, rwCheck>>

\* What the branch for Ascent does, in terms of what it found and which instants it kept.
LEMMA AscentSummarised ==
    ASSUME NEW T, NEW F, NEW a, NEW falling, Called(T, F, a), AscentBranch(T, F, a, falling)
    PROVE  \E fire \in BOOLEAN, confirmed \in BOOLEAN, burst \in BOOLEAN, since \in Ages :
             AscentSummary(T, F, a, fire, confirmed, burst, since)
<1> DEFINE fire == CutdownDue(T, F, a)
           F1 == [F EXCEPT !["cutdown_fired"] = @ \/ fire]
           T1 == IF fire THEN [T EXCEPT !["cutdown"] = 0] ELSE T
           reference == IF fire THEN a ELSE cutAlt
           age == Elapsed(T1, "cutdown")
           watch == ~InLockout(T) /\ F1["cutdown_fired"] /\ reference # None
           confirmed == watch /\ reference - a >= cfg["termination_confirm_drop"]
                              /\ age <= cfg["termination_confirm_window"]
           unconfirmed == watch /\ ~confirmed /\ age > cfg["termination_confirm_window"]
           natural == /\ ~InLockout(T) /\ ~F1["cutdown_fired"]
                      /\ falling /\ T1["falling"] # None /\ T1["falling"] >= BurstWindow
           burst == ~confirmed /\ (unconfirmed \/ natural)
           since == FallingSince(T1, F1, falling)
<1>1. /\ fire \in BOOLEAN /\ confirmed \in BOOLEAN /\ burst \in BOOLEAN
      /\ fire => ~F["cutdown_fired"]
      /\ F1["cutdown_fired"] <=> F["cutdown_fired"] \/ fire
      /\ confirmed => F1["cutdown_fired"]
      /\ natural => ~F1["cutdown_fired"]
      /\ confirmed \/ burst => ~InLockout(T)
      /\ fire <=> CutdownDue(T, F, a)
  BY DEF Called, CutdownDue, Flags
<1>2. T1 \in [Timers -> Ages] /\ since \in Ages
  BY TimeAssumption DEF Called, FallingSince, Elapsed, Ages, Timers, None
<1>3. /\ stage' = IF confirmed THEN TERMINATION
               ELSE IF unconfirmed \/ natural THEN BURST ELSE ASCENT
      /\ flags' = [F1 EXCEPT !["termination_fired"] = @ \/ confirmed,
                             !["burst_detected"] = @ \/ (unconfirmed \/ natural)]
      /\ apogee' = IF a > apogee THEN a ELSE apogee
      /\ cutAlt' = reference
      /\ timer' = [T1 EXCEPT !["falling"] = since]
      /\ motors' = IF confirmed \/ (unconfirmed \/ natural) THEN StopMotorTasks ELSE motors
      /\ pulses' = IF fire THEN pulses + 1 ELSE pulses
      /\ armPending' = ArmPolled
      /\ UNCHANGED <<launchAlt, stillAlt, rwCheck>>
  BY DEF AscentBranch, ApogeeUpdated
<1>0. StopMotorTasks = {}
  BY DEF StopMotorTasks, Called, IInv, TypeOK
<1>4. burst <=> unconfirmed \/ natural
  BY <1>1
<1> HIDE DEF fire, confirmed, unconfirmed, natural, burst, since
<1>5. timer' = [T EXCEPT !["cutdown"] = IF fire THEN 0 ELSE @, !["falling"] = since]
  BY <1>1, <1>3 DEF Called, Timers
<1>6. flags' = [F EXCEPT !["cutdown_fired"] = @ \/ fire,
                        !["termination_fired"] = @ \/ confirmed,
                        !["burst_detected"] = @ \/ burst]
  BY <1>1, <1>3, <1>4 DEF Called, Flags
<1>7. confirmed => ~burst
  BY DEF burst
<1> QED
  BY <1>0, <1>1, <1>2, <1>3, <1>4, <1>5, <1>6, <1>7 DEF AscentSummary

\* The branch AscentBranch keeps the invariant.
LEMMA AscentPreserves ==
    ASSUME NEW T, NEW F, NEW a, NEW falling, Called(T, F, a), AscentBranch(T, F, a, falling)
    PROVE  IInv'
<1>1. stage = ASCENT /\ ~LaunchAccepted
  BY DEF Called, AscentBranch, Stages, ASCENT, LAUNCH
<1>2. PICK fire \in BOOLEAN, confirmed \in BOOLEAN, burst \in BOOLEAN, since \in Ages :
        AscentSummary(T, F, a, fire, confirmed, burst, since)
  BY AscentSummarised
<1>3. ArmPolled \in BOOLEAN
  BY DEF AscentSummary, Called, IInv, TypeOK, ArmPolled
<1>4. TypeOK'
  BY <1>1, <1>2, <1>3, TimeAssumption
     DEF AscentSummary, Called, IInv, TypeOK, Ages, None, Timers, Flags, Commands, Stages,
         PREFLIGHT, ASCENT, TERMINATION, BURST, RECOVERY
<1>5. (FlagsMatchStage /\ VerdictMatchesStage)'
  BY <1>1, <1>2
     DEF AscentSummary, Called, IInv, TypeOK, FlagsMatchStage, VerdictMatchesStage, Flags,
     Stages, PREFLIGHT, ARMED, LAUNCH, ASCENT, TERMINATION, BURST, DESCENT, LANDING, RECOVERY
<1>6. (CutdownOnce /\ CutdownBelowApogee /\ MotorsStoppedAfterAscent)'
  BY <1>1, <1>2 DEF AscentSummary, Called, IInv, TypeOK, CutdownOnce, CutdownBelowApogee,
     MotorsStoppedAfterAscent, VerdictMatchesStage, Flags, None,
     ASCENT, TERMINATION, BURST
<1> QED
  BY <1>4, <1>5, <1>6 DEF IInv

\* The branch ApogeePassedBranch keeps the invariant.
LEMMA ApogeePassedPreserves ==
    ASSUME NEW T, NEW F, NEW a, Called(T, F, a), ApogeePassedBranch(T, F, a)
    PROVE  IInv'
<1>1. stage \in {TERMINATION, BURST} /\ ~LaunchAccepted
  BY DEF Called, ApogeePassedBranch, Stages, TERMINATION, BURST, LAUNCH
<1> DEFINE descent == AtOrBelow(a, cfg["apogee_percent"])
<1>a. descent \in BOOLEAN
  BY DEF AtOrBelow
<1>b. /\ stage' = IF descent THEN DESCENT ELSE stage
      /\ flags' = [F EXCEPT !["ascent_active"] = @ /\ ~descent, !["descent_active"] = @ \/ descent]
      /\ timer' = T
      /\ armPending' = ArmPolled
      /\ UNCHANGED <<apogee, launchAlt, cutAlt, stillAlt, rwCheck, motors, pulses>>
  BY <1>1 DEF Called, ApogeePassedBranch
<1> HIDE DEF descent
<1>c. ArmPolled \in BOOLEAN
  BY DEF Called, IInv, TypeOK, ArmPolled
<1>2. TypeOK'
  <2>1. flags' \in [Flags -> BOOLEAN]
    BY <1>a, <1>b DEF Called, Flags
  <2>2. stage' \in Stages
    BY <1>b DEF Called, IInv, TypeOK, Stages, PREFLIGHT, DESCENT, RECOVERY
  <2> QED
    BY <1>b, <1>c, <2>1, <2>2 DEF Called, IInv, TypeOK, Ages
<1>3. (FlagsMatchStage /\ VerdictMatchesStage)'
  BY <1>1, <1>a, <1>b DEF Called, IInv, TypeOK, FlagsMatchStage, VerdictMatchesStage, Flags,
     Stages, PREFLIGHT, ARMED, LAUNCH, ASCENT, TERMINATION, BURST, DESCENT, LANDING, RECOVERY
<1>4. (CutdownOnce /\ CutdownBelowApogee /\ MotorsStoppedAfterAscent)'
  BY <1>1, <1>a, <1>b
     DEF Called, IInv, TypeOK, CutdownOnce, CutdownBelowApogee, MotorsStoppedAfterAscent,
     VerdictMatchesStage, Flags, None,
     PREFLIGHT, ARMED, LAUNCH, ASCENT, TERMINATION, BURST, DESCENT, LANDING, RECOVERY
<1> QED
  BY <1>2, <1>3, <1>4 DEF IInv

\* The branch DescentBranch keeps the invariant.
LEMMA DescentPreserves ==
    ASSUME NEW T, NEW F, NEW a, Called(T, F, a), DescentBranch(T, F, a)
    PROVE  IInv'
<1>1. stage = DESCENT /\ ~LaunchAccepted
  BY DEF Called, DescentBranch, Stages, DESCENT, LAUNCH
<1> DEFINE landing == AtOrBelow(a, cfg["landing_percent"])
<1>a. landing \in BOOLEAN
  BY DEF AtOrBelow
<1>b. /\ stage' = IF landing THEN LANDING ELSE stage
      /\ flags' = [F EXCEPT !["descent_active"] = @ /\ ~landing, !["landing_detected"] = @ \/ landing]
      /\ timer' = T
      /\ armPending' = ArmPolled
      /\ UNCHANGED <<apogee, launchAlt, cutAlt, stillAlt, rwCheck, motors, pulses>>
  BY <1>1 DEF Called, DescentBranch
<1> HIDE DEF landing
<1>c. ArmPolled \in BOOLEAN
  BY DEF Called, IInv, TypeOK, ArmPolled
<1>2. TypeOK'
  <2>1. flags' \in [Flags -> BOOLEAN]
    BY <1>a, <1>b DEF Called, Flags
  <2>2. stage' \in Stages
    BY <1>b DEF Called, IInv, TypeOK, Stages, PREFLIGHT, LANDING, RECOVERY
  <2> QED
    BY <1>b, <1>c, <2>1, <2>2 DEF Called, IInv, TypeOK, Ages
<1>3. (FlagsMatchStage /\ VerdictMatchesStage)'
  BY <1>1, <1>a, <1>b DEF Called, IInv, TypeOK, FlagsMatchStage, VerdictMatchesStage, Flags,
     Stages, PREFLIGHT, ARMED, LAUNCH, ASCENT, TERMINATION, BURST, DESCENT, LANDING, RECOVERY
<1>4. (CutdownOnce /\ CutdownBelowApogee /\ MotorsStoppedAfterAscent)'
  BY <1>1, <1>a, <1>b
     DEF Called, IInv, TypeOK, CutdownOnce, CutdownBelowApogee, MotorsStoppedAfterAscent,
     VerdictMatchesStage, Flags, None,
     PREFLIGHT, ARMED, LAUNCH, ASCENT, TERMINATION, BURST, DESCENT, LANDING, RECOVERY
<1> QED
  BY <1>2, <1>3, <1>4 DEF IInv

\* The branch LandingBranch keeps the invariant.
LEMMA LandingPreserves ==
    ASSUME NEW T, NEW F, NEW a, Called(T, F, a), LandingBranch(T, F, a)
    PROVE  IInv'
<1>1. stage = LANDING /\ ~LaunchAccepted
  BY DEF Called, LandingBranch, Stages, LANDING, LAUNCH
<1>2. TypeOK'
  BY <1>1, SettingsAssumption, TimeAssumption
     DEF Called, IInv, TypeOK, LandingBranch, ArmPolled, Elapsed, Ages, None, Timers,
         Flags, Commands, Stages, PREFLIGHT, LANDING, RECOVERY
<1>3. (FlagsMatchStage /\ VerdictMatchesStage)'
  BY <1>1 DEF Called, IInv, TypeOK, FlagsMatchStage, VerdictMatchesStage, LandingBranch, Flags,
     Stages, PREFLIGHT, ARMED, LAUNCH, ASCENT, TERMINATION, BURST, DESCENT, LANDING, RECOVERY
<1>4. (CutdownOnce /\ CutdownBelowApogee /\ MotorsStoppedAfterAscent)'
  BY <1>1 DEF Called, IInv, TypeOK, CutdownOnce, CutdownBelowApogee, MotorsStoppedAfterAscent,
     VerdictMatchesStage, LandingBranch, Flags, None,
     PREFLIGHT, ARMED, LAUNCH, ASCENT, TERMINATION, BURST, DESCENT, LANDING, RECOVERY
<1> QED
  BY <1>2, <1>3, <1>4 DEF IInv

\* The branch RecoveryBranch keeps the invariant.
LEMMA RecoveryPreserves ==
    ASSUME NEW T, NEW F, NEW a, Called(T, F, a), RecoveryBranch(T, F)
    PROVE  IInv'
<1>1. stage = RECOVERY /\ ~LaunchAccepted
  BY DEF Called, RecoveryBranch, RECOVERY, LAUNCH
<1>2. TypeOK'
  BY <1>1 DEF Called, IInv, TypeOK, RecoveryBranch, ArmPolled, Ages, Commands
<1>3. (FlagsMatchStage /\ VerdictMatchesStage)'
  BY <1>1 DEF Called, IInv, TypeOK, FlagsMatchStage, VerdictMatchesStage, RecoveryBranch, Flags,
     PREFLIGHT, ARMED, LAUNCH, ASCENT, TERMINATION, BURST, DESCENT, LANDING, RECOVERY
<1>4. (CutdownOnce /\ CutdownBelowApogee /\ MotorsStoppedAfterAscent)'
  BY <1>1 DEF Called, IInv, CutdownOnce, CutdownBelowApogee, MotorsStoppedAfterAscent,
     RecoveryBranch, Flags
<1> QED
  BY <1>2, <1>3, <1>4 DEF IInv

-----------------------------------------------------------------------------
(* The theorems                                                              *)

\* The invariant holds at the start.
LEMMA InitEstablishes == Init => IInv
<1> SUFFICES ASSUME Init PROVE IInv
  OBVIOUS
<1>1. TypeOK
  <2>1. stage \in Stages /\ apogee \in Nat /\ pulses \in Nat /\ alt \in Nat
    BY AltsAssumption DEF Init, Stages, PREFLIGHT, RECOVERY
  <2>2. flags \in [Flags -> BOOLEAN] /\ timer \in [Timers -> {None} \union (0 .. Horizon)]
    BY DEF Init
  <2> QED
    BY <2>1, <2>2 DEF Init, TypeOK
<1>2. FlagsMatchStage /\ VerdictMatchesStage
  BY DEF Init, FlagsMatchStage, VerdictMatchesStage, Flags,
     PREFLIGHT, ARMED, LAUNCH, ASCENT, TERMINATION, BURST, DESCENT, LANDING, RECOVERY
<1>3. CutdownOnce /\ CutdownBelowApogee /\ MotorsStoppedAfterAscent
  BY DEF Init, CutdownOnce, CutdownBelowApogee, MotorsStoppedAfterAscent, Flags,
     PREFLIGHT, ASCENT
<1> QED
  BY <1>1, <1>2, <1>3 DEF IInv

\* execute() calls _transition() in a state that Called describes.
LEMMA CycleCalls ==
    ASSUME IInv, NEW gap \in Gaps, NEW a \in Alts, NEW falling, NEW up,
           Cycle(gap, a, falling, up)
    PROVE  LET T == PointingTimer(Aged(gap), a)
               F == FlagsPolled(Aged(gap), a)
           IN  Called(T, F, a) /\ Transition(T, F, a, falling, up)
<1> DEFINE T == PointingTimer(Aged(gap), a)
           F == FlagsPolled(Aged(gap), a)
<1>1. a \in Nat
  BY AltsAssumption
<1>2. Aged(gap) \in [Timers -> Ages]
  BY AgedType DEF IInv
<1>3. T \in [Timers -> Ages]
  BY <1>1, <1>2, PointingTimerType
<1>4. /\ Transition(T, F, a, falling, up)
      /\ command' = {} /\ alt' = a /\ cfg' = cfg
  BY DEF Cycle
<1> QED
  BY <1>1, <1>3, <1>4, FlagsPolledType, StagePolledType DEF Called, IInv

\* Every step of the specification keeps the invariant.
LEMMA NextPreserves == IInv /\ [Next]_vars => IInv'
<1> SUFFICES ASSUME IInv, [Next]_vars
             PROVE  IInv'
  OBVIOUS
<1>1. ASSUME NEW gap \in Gaps, NEW a \in Alts, NEW falling \in BOOLEAN,
             NEW up \in SUBSET Sensors, Cycle(gap, a, falling, up)
      PROVE  IInv'
  <2> DEFINE T == PointingTimer(Aged(gap), a)
             F == FlagsPolled(Aged(gap), a)
  <2>1. Called(T, F, a) /\ Transition(T, F, a, falling, up)
    BY <1>1, CycleCalls
  <2> HIDE DEF T, F
  <2>2. CASE PreflightBranch(T, F, up)
    BY <2>1, <2>2, PreflightPreserves
  <2>3. CASE ArmedBranch(T, F, a, up)
    BY <2>1, <2>3, ArmedPreserves
  <2>4. CASE LaunchBranch(T, F, a)
    BY <2>1, <2>4, LaunchPreserves
  <2>5. CASE AscentBranch(T, F, a, falling)
    BY <2>1, <2>5, AscentPreserves
  <2>6. CASE ApogeePassedBranch(T, F, a)
    BY <2>1, <2>6, ApogeePassedPreserves
  <2>7. CASE DescentBranch(T, F, a)
    BY <2>1, <2>7, DescentPreserves
  <2>8. CASE LandingBranch(T, F, a)
    BY <2>1, <2>8, LandingPreserves
  <2>9. CASE RecoveryBranch(T, F)
    BY <2>1, <2>9, RecoveryPreserves
  <2> QED
    BY <2>1, <2>2, <2>3, <2>4, <2>5, <2>6, <2>7, <2>8, <2>9 DEF Transition
<1>2. ASSUME NEW c \in Commands, ReceiveCommand(c)
      PROVE  IInv'
  BY <1>2 DEF ReceiveCommand, IInv, TypeOK, FlagsMatchStage, VerdictMatchesStage, CutdownOnce,
     CutdownBelowApogee, MotorsStoppedAfterAscent
<1>3. ASSUME NEW s \in Settings, UpdateSetting(s)
      PROVE  IInv'
  BY <1>3 DEF UpdateSetting, IInv, TypeOK, FlagsMatchStage, VerdictMatchesStage, CutdownOnce,
     CutdownBelowApogee, MotorsStoppedAfterAscent
<1>4. CASE UNCHANGED vars
  BY <1>4 DEF vars, IInv, TypeOK, FlagsMatchStage, VerdictMatchesStage, CutdownOnce,
     CutdownBelowApogee, MotorsStoppedAfterAscent
<1> QED
  BY <1>1, <1>2, <1>3, <1>4 DEF Next

\* The inductive invariant holds in every reachable state.
THEOREM Invariance == Spec => []IInv
BY InitEstablishes, NextPreserves, PTL DEF Spec

\* FlightStageTask's attributes keep their types, whatever the altitudes and settings.
THEOREM TypeCorrect == Spec => []TypeOK
BY Invariance, PTL DEF IInv

\* The event.* flags written by FlightStageTask agree with its stage after every cycle.
THEOREM FlagsAgree == Spec => []FlagsMatchStage
BY Invariance, PTL DEF IInv

\* FlightStageTask drives the cutdown output at most once in the life of the process.
THEOREM CutdownFiresOnce == Spec => []CutdownOnce
BY Invariance, PTL DEF IInv

\* A Termination verdict needs a cutdown, fired no higher than the measured apogee.
THEOREM CutdownCovered == Spec => []CutdownBelowApogee
BY Invariance, PTL DEF IInv

\* The pointing and lighting tasks are stopped exactly when the ascent is over.
THEOREM MotorsStopped == Spec => []MotorsStoppedAfterAscent
BY Invariance, PTL DEF IInv

-----------------------------------------------------------------------------
(* The stage sequence: every cycle is a step of StageSequence or stutters.   *)

\* A branch moves the stage as StageSequence allows, and only Ascent fires the cutdown.
LEMMA BranchMoves ==
    ASSUME NEW T, NEW F, NEW a, NEW falling, NEW up,
           Called(T, F, a), Transition(T, F, a, falling, up)
    PROVE  /\ stage' = stage \/ stage' \in Sequence!Successors(stage)
           /\ flags'["cutdown_fired"] # flags["cutdown_fired"]
                => stage = ASCENT /\ flags'["cutdown_fired"]
<1> DEFINE Goal == /\ stage' = stage \/ stage' \in Sequence!Successors(stage)
                   /\ flags'["cutdown_fired"] # flags["cutdown_fired"]
                        => stage = ASCENT /\ flags'["cutdown_fired"]
<1>1. CASE PreflightBranch(T, F, up)
  BY <1>1 DEF PreflightBranch, Called, Flags,
     Sequence!Successors, Sequence!PREFLIGHT, Sequence!ARMED, Sequence!LAUNCH, Sequence!ASCENT,
     Sequence!TERMINATION, Sequence!BURST, Sequence!DESCENT, Sequence!LANDING, Sequence!RECOVERY,
     PREFLIGHT, ARMED, LAUNCH, ASCENT, TERMINATION, BURST, DESCENT, LANDING, RECOVERY
<1>2. CASE ArmedBranch(T, F, a, up)
  BY <1>2 DEF ArmedBranch, Called, Flags,
     Sequence!Successors, Sequence!PREFLIGHT, Sequence!ARMED, Sequence!LAUNCH, Sequence!ASCENT,
     Sequence!TERMINATION, Sequence!BURST, Sequence!DESCENT, Sequence!LANDING, Sequence!RECOVERY,
     PREFLIGHT, ARMED, LAUNCH, ASCENT, TERMINATION, BURST, DESCENT, LANDING, RECOVERY
<1>3. CASE LaunchBranch(T, F, a)
  BY <1>3 DEF LaunchBranch, Called, Flags,
     Sequence!Successors, Sequence!PREFLIGHT, Sequence!ARMED, Sequence!LAUNCH, Sequence!ASCENT,
     Sequence!TERMINATION, Sequence!BURST, Sequence!DESCENT, Sequence!LANDING, Sequence!RECOVERY,
     PREFLIGHT, ARMED, LAUNCH, ASCENT, TERMINATION, BURST, DESCENT, LANDING, RECOVERY
<1>4. CASE AscentBranch(T, F, a, falling)
  <2>1. stage = ASCENT
    BY <1>4 DEF AscentBranch, Called, ASCENT, LAUNCH
  <2>2. PICK fire \in BOOLEAN, confirmed \in BOOLEAN, burst \in BOOLEAN, since \in Ages :
          AscentSummary(T, F, a, fire, confirmed, burst, since)
    BY <1>4, AscentSummarised
  <2>3. stage' = stage \/ stage' \in Sequence!Successors(stage)
    <3>1. stage' \in {3, 4, 5}
      BY <2>2 DEF AscentSummary, ASCENT, TERMINATION, BURST
    <3>2. stage = 3 => Sequence!Successors(stage) = {4, 5}
      BY DEF Sequence!Successors, Sequence!PREFLIGHT, Sequence!ARMED, Sequence!LAUNCH,
         Sequence!ASCENT, Sequence!TERMINATION, Sequence!BURST, Sequence!DESCENT,
         Sequence!LANDING
    <3> QED
      BY <2>1, <3>1, <3>2 DEF ASCENT
  <2>4. flags'["cutdown_fired"] <=> flags["cutdown_fired"] \/ fire
    BY <2>2 DEF AscentSummary, Called, Flags
  <2> QED
    BY <2>1, <2>2, <2>3, <2>4 DEF AscentSummary, Called, Flags
<1>5. CASE ApogeePassedBranch(T, F, a)
  BY <1>5 DEF ApogeePassedBranch, Called, Flags,
     Sequence!Successors, Sequence!PREFLIGHT, Sequence!ARMED, Sequence!LAUNCH, Sequence!ASCENT,
     Sequence!TERMINATION, Sequence!BURST, Sequence!DESCENT, Sequence!LANDING, Sequence!RECOVERY,
     PREFLIGHT, ARMED, LAUNCH, ASCENT, TERMINATION, BURST, DESCENT, LANDING, RECOVERY
<1>6. CASE DescentBranch(T, F, a)
  BY <1>6 DEF DescentBranch, Called, Flags,
     Sequence!Successors, Sequence!PREFLIGHT, Sequence!ARMED, Sequence!LAUNCH, Sequence!ASCENT,
     Sequence!TERMINATION, Sequence!BURST, Sequence!DESCENT, Sequence!LANDING, Sequence!RECOVERY,
     PREFLIGHT, ARMED, LAUNCH, ASCENT, TERMINATION, BURST, DESCENT, LANDING, RECOVERY
<1>7. CASE LandingBranch(T, F, a)
  BY <1>7 DEF LandingBranch, Called, Flags,
     Sequence!Successors, Sequence!PREFLIGHT, Sequence!ARMED, Sequence!LAUNCH, Sequence!ASCENT,
     Sequence!TERMINATION, Sequence!BURST, Sequence!DESCENT, Sequence!LANDING, Sequence!RECOVERY,
     PREFLIGHT, ARMED, LAUNCH, ASCENT, TERMINATION, BURST, DESCENT, LANDING, RECOVERY
<1>8. CASE RecoveryBranch(T, F)
  BY <1>8 DEF RecoveryBranch, Called, Flags,
     Sequence!Successors, Sequence!PREFLIGHT, Sequence!ARMED, Sequence!LAUNCH, Sequence!ASCENT,
     Sequence!TERMINATION, Sequence!BURST, Sequence!DESCENT, Sequence!LANDING, Sequence!RECOVERY,
     PREFLIGHT, ARMED, LAUNCH, ASCENT, TERMINATION, BURST, DESCENT, LANDING, RECOVERY
<1> QED
  BY <1>1, <1>2, <1>3, <1>4, <1>5, <1>6, <1>7, <1>8 DEF Transition

\* Hence a cycle is a step of StageSequence, or leaves what it describes alone.
LEMMA CycleSimulates ==
    ASSUME IInv, IInv', NEW gap \in Gaps, NEW a \in Alts, NEW falling, NEW up,
           Cycle(gap, a, falling, up)
    PROVE  [Sequence!Next]_(Sequence!vars)
<1>1. /\ stage' = stage \/ stage' \in Sequence!Successors(stage)
      /\ flags'["cutdown_fired"] # flags["cutdown_fired"]
           => stage = ASCENT /\ flags'["cutdown_fired"]
  BY CycleCalls, BranchMoves
<1>2. /\ stage' = TERMINATION => flags'["cutdown_fired"]
      /\ flags'["cutdown_fired"] \in BOOLEAN /\ flags["cutdown_fired"] \in BOOLEAN
  BY DEF IInv, FlagsMatchStage, CutdownBelowApogee, TypeOK, Flags
<1>3. CASE stage' = stage
  BY <1>1, <1>2, <1>3 DEF Sequence!Next, Sequence!FireCutdown, Sequence!vars, Sequence!ASCENT,
     ASCENT
<1>4. CASE stage' \in Sequence!Successors(stage)
  BY <1>1, <1>2, <1>4 DEF Sequence!Next, Sequence!Advance, Sequence!ASCENT, ASCENT,
     Sequence!TERMINATION, TERMINATION
<1> QED
  BY <1>1, <1>3, <1>4

\* The task implements the stage sequence of its docstring.
THEOREM Implements == Spec => ImplementsSequence
<1>1. Init => Sequence!Init
  BY DEF Init, Sequence!Init, PREFLIGHT, Sequence!PREFLIGHT, Flags
<1>2. IInv /\ IInv' /\ [Next]_vars => [Sequence!Next]_(Sequence!vars)
  <2> SUFFICES ASSUME IInv, IInv', [Next]_vars
               PROVE  [Sequence!Next]_(Sequence!vars)
    OBVIOUS
  <2>1. ASSUME NEW gap \in Gaps, NEW a \in Alts, NEW falling \in BOOLEAN,
               NEW up \in SUBSET Sensors, Cycle(gap, a, falling, up)
        PROVE  [Sequence!Next]_(Sequence!vars)
    BY <2>1, CycleSimulates
  <2>2. ASSUME NEW c \in Commands, ReceiveCommand(c)
        PROVE  [Sequence!Next]_(Sequence!vars)
    BY <2>2 DEF ReceiveCommand, Sequence!vars
  <2>3. ASSUME NEW s \in Settings, UpdateSetting(s)
        PROVE  [Sequence!Next]_(Sequence!vars)
    BY <2>3 DEF UpdateSetting, Sequence!vars
  <2>4. CASE UNCHANGED vars
    BY <2>4 DEF vars, Sequence!vars
  <2> QED
    BY <2>1, <2>2, <2>3, <2>4 DEF Next
<1> QED
  BY <1>1, <1>2, Invariance, PTL DEF Spec, ImplementsSequence, Sequence!Spec
-----------------------------------------------------------------------------
(* The pointing window and the lockout: what a step may never do.            *)

\* The pointing window is open in flight only, and the instant at which the ascent was
\* entered is known from then on.
PointingAfterLaunch == flags["pointing_active"] => stage >= LAUNCH
AscentTimed == stage >= ASCENT => timer["ascent"] # None

WindowInv == IInv /\ PointingAfterLaunch /\ AscentTimed

\* No branch touches the pointing window, none goes back before Launch, and none but
\* Launch starts the age of the ascent.
BranchFrame(T, F) ==
    /\ flags'["pointing_active"] = F["pointing_active"]
    /\ StagePolled >= LAUNCH => stage' >= LAUNCH
    /\ stage' >= ASCENT => stage >= ASCENT \/ timer'["ascent"] # None
    /\ stage >= ASCENT => timer'["ascent"] = T["ascent"]

\* What no branch of _transition() changes.
LEMMA BranchKeeps ==
    ASSUME NEW T, NEW F, NEW a, NEW falling, NEW up,
           Called(T, F, a), Transition(T, F, a, falling, up)
    PROVE  BranchFrame(T, F)
<1>1. CASE PreflightBranch(T, F, up)
  BY <1>1 DEF PreflightBranch, BranchFrame, Called, Flags, Timers, PREFLIGHT, ARMED, LAUNCH,
     ASCENT
<1>2. CASE ArmedBranch(T, F, a, up)
  BY <1>2 DEF ArmedBranch, BranchFrame, Called, Flags, Timers, ARMED, LAUNCH, ASCENT
<1>3. CASE LaunchBranch(T, F, a)
  BY <1>3 DEF LaunchBranch, BranchFrame, Called, Flags, Timers, None, ARMED, LAUNCH, ASCENT
<1>4. CASE AscentBranch(T, F, a, falling)
  <2>1. stage = ASCENT
    BY <1>4 DEF AscentBranch, Called, ASCENT, LAUNCH
  <2>2. PICK fire \in BOOLEAN, confirmed \in BOOLEAN, burst \in BOOLEAN, since \in Ages :
          AscentSummary(T, F, a, fire, confirmed, burst, since)
    BY <1>4, AscentSummarised
  <2> QED
    BY <2>1, <2>2 DEF AscentSummary, BranchFrame, Called, Flags, Timers, LAUNCH, ASCENT,
       TERMINATION, BURST
<1>5. CASE ApogeePassedBranch(T, F, a)
  BY <1>5 DEF ApogeePassedBranch, BranchFrame, Called, Flags, Timers, ARMED, LAUNCH, ASCENT,
     TERMINATION, BURST, DESCENT
<1>6. CASE DescentBranch(T, F, a)
  BY <1>6 DEF DescentBranch, BranchFrame, Called, Flags, Timers, ARMED, LAUNCH, ASCENT, DESCENT,
     LANDING
<1>7. CASE LandingBranch(T, F, a)
  BY <1>7 DEF LandingBranch, BranchFrame, Called, Flags, Timers, ARMED, LAUNCH, ASCENT, LANDING,
     RECOVERY
<1>8. CASE RecoveryBranch(T, F)
  BY <1>8 DEF RecoveryBranch, BranchFrame, Called, Flags, Timers, ARMED, LAUNCH, ASCENT, RECOVERY
<1> QED
  BY <1>1, <1>2, <1>3, <1>4, <1>5, <1>6, <1>7, <1>8 DEF Transition

\* The same seen from the whole cycle: the window opens at most where it was never opened.
LEMMA CycleKeeps ==
    ASSUME WindowInv, NEW gap \in Gaps, NEW a \in Alts, NEW falling, NEW up,
           Cycle(gap, a, falling, up)
    PROVE  /\ flags'["pointing_active"] =>
                \/ flags["pointing_active"]
                \/ timer["pointing"] = None /\ StagePolled >= LAUNCH
           /\ StagePolled >= LAUNCH => stage' >= LAUNCH
           /\ stage >= LAUNCH => StagePolled >= LAUNCH
           /\ stage' >= ASCENT => timer'["ascent"] # None
<1> DEFINE T == PointingTimer(Aged(gap), a)
           F == FlagsPolled(Aged(gap), a)
<1>1. Called(T, F, a) /\ Transition(T, F, a, falling, up)
  BY CycleCalls DEF WindowInv
<1>2. BranchFrame(T, F)
  BY <1>1, BranchKeeps
<1>3. /\ \A t \in Timers : Aged(gap)[t] = None <=> timer[t] = None
      /\ T["ascent"] = Aged(gap)["ascent"]
  BY AgedType, PointingTimerType, AltsAssumption DEF WindowInv, IInv, Timers
<1>4. F["pointing_active"] = (PointingOpens(Aged(gap), a)
                              \/ (flags["pointing_active"] /\ ~PointingCloses(Aged(gap))))
  BY DEF WindowInv, IInv, TypeOK, FlagsPolled, Flags
<1>5. PointingOpens(Aged(gap), a) => timer["pointing"] = None /\ StagePolled >= LAUNCH
  BY <1>3 DEF PointingOpens, Timers
<1>6. stage >= LAUNCH => StagePolled >= LAUNCH
  BY <1>1 DEF Called, ARMED, LAUNCH
<1> HIDE DEF T, F
<1> QED
  BY <1>2, <1>3, <1>4, <1>5, <1>6 DEF BranchFrame, WindowInv, AscentTimed, Timers

\* The strengthened invariant is kept by every step.
LEMMA WindowPreserved == WindowInv /\ [Next]_vars => WindowInv'
<1> SUFFICES ASSUME WindowInv, [Next]_vars
             PROVE  (PointingAfterLaunch /\ AscentTimed)'
  BY NextPreserves DEF WindowInv
<1>1. ASSUME NEW gap \in Gaps, NEW a \in Alts, NEW falling \in BOOLEAN,
             NEW up \in SUBSET Sensors, Cycle(gap, a, falling, up)
      PROVE  (PointingAfterLaunch /\ AscentTimed)'
  BY <1>1, CycleKeeps DEF WindowInv, PointingAfterLaunch, AscentTimed
<1>2. ASSUME UNCHANGED <<stage, flags, timer>>
      PROVE  (PointingAfterLaunch /\ AscentTimed)'
  BY <1>2 DEF WindowInv, PointingAfterLaunch, AscentTimed
<1> QED
  BY <1>1, <1>2 DEF Next, ReceiveCommand, UpdateSetting, vars

\* The strengthened invariant holds in every reachable state.
LEMMA WindowInvariance == Spec => []WindowInv
<1>1. Init => PointingAfterLaunch /\ AscentTimed
  BY DEF Init, PointingAfterLaunch, AscentTimed, Flags, PREFLIGHT, ASCENT
<1>2. Init => WindowInv
  BY <1>1, InitEstablishes DEF WindowInv
<1> QED
  BY <1>2, WindowPreserved, PTL DEF Spec

\* execute() opens the pointing window at most once, in flight, and never again after it
\* was closed, whatever the ground does to its settings.
THEOREM PointingOpensOnce == Spec => PointingOneShot
<1> DEFINE Step == /\ timer["pointing"] # None /\ ~flags["pointing_active"]
                        => ~flags'["pointing_active"]
                   /\ flags'["pointing_active"] => stage' >= LAUNCH
<1>1. WindowInv /\ [Next]_vars => [Step]_vars
  <2> SUFFICES ASSUME WindowInv, [Next]_vars
               PROVE  Step
    OBVIOUS
  <2>1. ASSUME NEW gap \in Gaps, NEW a \in Alts, NEW falling \in BOOLEAN,
               NEW up \in SUBSET Sensors, Cycle(gap, a, falling, up)
        PROVE  Step
    BY <2>1, CycleKeeps DEF WindowInv, PointingAfterLaunch
  <2>2. ASSUME UNCHANGED <<stage, flags, timer>>
        PROVE  Step
    BY <2>2 DEF WindowInv, PointingAfterLaunch
  <2> QED
    BY <2>1, <2>2 DEF Next, ReceiveCommand, UpdateSetting, vars
<1> QED
  BY <1>1, WindowInvariance, PTL DEF Spec, PointingOneShot

\* In Ascent only AscentBranch runs.
LEMMA AscentCycle ==
    ASSUME WindowInv, stage = ASCENT, NEW gap \in Gaps, NEW a \in Alts, NEW falling, NEW up,
           Cycle(gap, a, falling, up)
    PROVE  /\ stage' # ASCENT => timer'["ascent"] >= Lockout
           /\ a >= cfg["termination_altitude"] => flags'["cutdown_fired"]
<1> DEFINE T == PointingTimer(Aged(gap), a)
           F == FlagsPolled(Aged(gap), a)
<1>1. Called(T, F, a) /\ Transition(T, F, a, falling, up)
  BY CycleCalls DEF WindowInv
<1>2. T["ascent"] # None /\ T["ascent"] \in Ages
  BY <1>1, AgedType, PointingTimerType, AltsAssumption
     DEF WindowInv, IInv, AscentTimed, Timers, Called, ASCENT
<1> HIDE DEF T, F
<1>3. StagePolled = ASCENT
  BY <1>1 DEF Called, ARMED, ASCENT
<1>4. AscentBranch(T, F, a, falling)
  BY <1>1, <1>3 DEF Transition, PreflightBranch, ArmedBranch, LaunchBranch, ApogeePassedBranch,
     DescentBranch, LandingBranch, RecoveryBranch,
     PREFLIGHT, ARMED, LAUNCH, ASCENT, TERMINATION, BURST, DESCENT, LANDING, RECOVERY
<1>5. PICK fire \in BOOLEAN, confirmed \in BOOLEAN, burst \in BOOLEAN, since \in Ages :
        AscentSummary(T, F, a, fire, confirmed, burst, since)
  BY <1>1, <1>4, AscentSummarised
<1>6. stage' # ASCENT => timer'["ascent"] >= Lockout
  <2>1. timer'["ascent"] = T["ascent"]
    BY <1>1, <1>5 DEF AscentSummary, Called, Timers
  <2>2. stage' # ASCENT => ~InLockout(T)
    BY <1>5 DEF AscentSummary
  <2> QED
    BY <1>2, <2>1, <2>2, TimeAssumption DEF InLockout, Elapsed, Ages, None
<1>7. a >= cfg["termination_altitude"] => F["cutdown_fired"] \/ fire
  BY <1>5 DEF AscentSummary, CutdownDue
<1>8. flags'["cutdown_fired"] = (F["cutdown_fired"] \/ fire)
  BY <1>1, <1>5 DEF AscentSummary, Called, Flags
<1> QED
  BY <1>6, <1>7, <1>8

\* The lockout after the entry into Ascent holds back the verdicts on the flight and
\* nothing else: the cutdown fires in the first cycle above the termination altitude.
THEOREM LockoutIsForVerdicts == Spec => LockoutDelaysVerdictOnly
<1> DEFINE Step == /\ (stage = ASCENT /\ stage' # ASCENT) => timer'["ascent"] >= Lockout
                   /\ (stage = ASCENT /\ alt' # alt /\ alt' >= cfg["termination_altitude"])
                         => flags'["cutdown_fired"]
<1>1. WindowInv /\ [Next]_vars => [Step]_vars
  <2> SUFFICES ASSUME WindowInv, [Next]_vars
               PROVE  Step
    OBVIOUS
  <2>1. ASSUME NEW gap \in Gaps, NEW a \in Alts, NEW falling \in BOOLEAN,
               NEW up \in SUBSET Sensors, Cycle(gap, a, falling, up)
        PROVE  Step
    <3>1. alt' = a
      BY <2>1 DEF Cycle
    <3> QED
      BY <2>1, <3>1, AscentCycle
  <2>2. ASSUME UNCHANGED <<stage, alt>>
        PROVE  Step
    BY <2>2
  <2> QED
    BY <2>1, <2>2 DEF Next, ReceiveCommand, UpdateSetting, vars
<1> QED
  BY <1>1, WindowInvariance, PTL DEF Spec, LockoutDelaysVerdictOnly
=============================================================================
