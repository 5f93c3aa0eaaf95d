---------------------------- MODULE MCPointing ----------------------------
(* Pointing with three speeds and the two yaw rate limits as settings.toml has *)
(* them: the middle rate is quiet enough to point and unruly enough to stop.  *)
EXTENDS Pointing
=============================================================================
