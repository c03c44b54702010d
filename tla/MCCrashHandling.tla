--------------------------- MODULE MCCrashHandling ---------------------------
(* A small instance of CrashHandling. *)
EXTENDS CrashHandling
=============================================================================
