---------------------------- MODULE MCUvExecutor ----------------------------
(* Model-checking instances of UvExecutor.                                 *)
EXTENDS UvExecutor
=============================================================================
