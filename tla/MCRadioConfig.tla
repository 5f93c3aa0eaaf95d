--------------------------- MODULE MCRadioConfig ---------------------------
(* Two configurations that differ from the default in every field, and one   *)
(* with a channel that write_config() refuses.                               *)
EXTENDS RadioConfig

MCDefault == <<0, 0, 0>>
MCLimits == <<1, 1, 1>>
MCRequests == {<<0, 0, 0>>, <<1, 1, 1>>, <<1, 1, 2>>}
=============================================================================
