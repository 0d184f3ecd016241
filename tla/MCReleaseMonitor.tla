-------------------------- MODULE MCReleaseMonitor --------------------------
(* The daily monitor, and one the user may start beside it.                *)
EXTENDS ReleaseMonitor
=============================================================================
