---------------------------- MODULE MCLighting ----------------------------
(* Lighting on a small instance: two currents, three codes. *)
EXTENDS Lighting
=============================================================================
