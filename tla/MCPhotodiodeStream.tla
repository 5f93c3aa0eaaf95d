------------------------ MODULE MCPhotodiodeStream ------------------------
(* Five samples in batches of two, with sequence numbers that wrap.          *)
EXTENDS PhotodiodeStream
=============================================================================
