--------------------------- MODULE MCFrameStream ---------------------------
(* FrameStream with a client of the tunnel and the radio, which brings back an *)
(* echo of the flight computer's own telemetry.                                *)
EXTENDS FrameStream, TLC

CONSTANTS client, radio

\* The first command has a payload that looks like a sync byte.
SomeFrames ==
    (client :> << <<9, 1, 9, 7>>, <<9, 0, 7>>, <<9, 0, 7>> >>) @@ (radio :> << <<9, 0, 7>> >>)
=============================================================================
