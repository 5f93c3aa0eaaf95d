---------------------------- MODULE LossyChannel ----------------------------
(***************************************************************************)
(* What SerialTransport promises for telemetry: frames may be lost (the     *)
(* oldest is dropped when the queue is full, the one being written is lost  *)
(* with the port), but those that go out do so in the order in which they   *)
(* were sent, each once, and none that was not sent.                        *)
(***************************************************************************)
EXTENDS Naturals

VARIABLES
    sent,        \* frames sent so far, numbered from 1
    delivered    \* the last one that went out

vars == <<sent, delivered>>

Init == sent = 0 /\ delivered = 0

Send == sent' = sent + 1 /\ UNCHANGED delivered

Deliver ==
    /\ delivered < delivered'
    /\ delivered' <= sent
    /\ UNCHANGED sent

Next == Send \/ Deliver

Spec == Init /\ [][Next]_vars
=============================================================================
