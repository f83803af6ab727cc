---------------------------- MODULE MCFinalizer ----------------------------
(* The life of a process, ProcessMonitor and Finalizer together, for TLC.  *)
EXTENDS Finalizer
=============================================================================
