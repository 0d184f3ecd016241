------------------------------ MODULE MCScheduler ------------------------------
(* One project, scheduled at one of two times, with one of two commands, on *)
(* each platform.                                                          *)
EXTENDS Scheduler
=============================================================================
