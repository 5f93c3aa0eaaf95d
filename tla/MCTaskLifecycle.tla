-------------------------- MODULE MCTaskLifecycle --------------------------
(* Two of the twelve tasks: the flight stage task, and one motor task that   *)
(* was registered before it, so that main stops it after the flight stage.   *)
EXTENDS TaskLifecycle

MCOrder == <<"pointing", "flight_stage">>
MCMotors == <<"pointing">>
=============================================================================
