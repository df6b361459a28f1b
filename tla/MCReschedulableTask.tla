------------------------ MODULE MCReschedulableTask -------------------------
(* ReschedulableTask for TLC: see the .cfg files for the instances.        *)
EXTENDS ReschedulableTask
=============================================================================
