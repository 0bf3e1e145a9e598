-------------------------- MODULE MCLiveReconcile ---------------------------
(***************************************************************************)
(* Small instances of LiveReconcile for TLC.                               *)
(***************************************************************************)
EXTENDS LiveReconcile, TLC

=============================================================================
