----------------------------- MODULE MCReadout -----------------------------
(* Readout with both readout paths and one backup board. *)
EXTENDS Readout

CONSTANTS sergeant, soldier, backup

BothReadouts == <<sergeant, soldier>>
=============================================================================
