--------------------------- MODULE MCCommandFlow ---------------------------
(* CommandFlow with two commands of any kind, each sent up to twice.        *)
EXTENDS CommandFlow
=============================================================================
