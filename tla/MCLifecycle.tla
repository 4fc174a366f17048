---------------------------- MODULE MCLifecycle ----------------------------
(* A small instance of Lifecycle for TLC. *)
EXTENDS Lifecycle

ASSUME LifecycleAssumption == Constants

\* The process leaves nothing running that it started (Lifecycle).
StopsClean == TypeOK /\ CleanExit
=============================================================================
