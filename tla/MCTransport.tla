---------------------------- MODULE MCTransport ----------------------------
(* Transport with queues of two frames and one or two calls of open().       *)
EXTENDS Transport
=============================================================================
