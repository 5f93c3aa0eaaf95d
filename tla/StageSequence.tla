--------------------------- MODULE StageSequence ---------------------------
(***************************************************************************)
(* What the flight stage machine promises to everything that reads          *)
(* event.flight_stage: the stage sequence of the FlightStageTask docstring, *)
(* never a step back, one of two exits from the ascent, and a Termination   *)
(* exit only after the cutdown has fired.  The cutdown fires once.          *)
(*                                                                         *)
(* A launch command and the altitude bypass may be honoured in one cycle,   *)
(* so a reader can see Ascent directly after Armed.                         *)
(***************************************************************************)
EXTENDS Naturals

VARIABLES
    stage,     \* the flight stage, 0 (Preflight) .. 8 (Recovery)
    cutdown    \* has the cutdown been fired?

vars == <<stage, cutdown>>

PREFLIGHT   == 0
ARMED       == 1
LAUNCH      == 2
ASCENT      == 3
TERMINATION == 4
BURST       == 5
DESCENT     == 6
LANDING     == 7
RECOVERY    == 8

Stages == PREFLIGHT .. RECOVERY

\* The stages that may follow s.
Successors(s) ==
    CASE s = PREFLIGHT -> {ARMED}
      [] s = ARMED -> {LAUNCH, ASCENT}
      [] s = LAUNCH -> {ASCENT}
      [] s = ASCENT -> {TERMINATION, BURST}
      [] s \in {TERMINATION, BURST} -> {DESCENT}
      [] s = DESCENT -> {LANDING}
      [] s = LANDING -> {RECOVERY}
      [] OTHER -> {}

Init ==
    /\ stage = PREFLIGHT
    /\ cutdown = FALSE

Advance ==
    /\ stage' \in Successors(stage)
    /\ stage' = TERMINATION => cutdown'
    /\ cutdown' # cutdown => stage = ASCENT /\ cutdown'
    /\ cutdown' \in BOOLEAN

FireCutdown ==
    /\ stage = ASCENT
    /\ ~cutdown
    /\ cutdown' = TRUE
    /\ UNCHANGED stage

Next == Advance \/ FireCutdown

Spec == Init /\ [][Next]_vars
=============================================================================
