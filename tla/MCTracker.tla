------------------------------ MODULE MCTracker ------------------------------
(***************************************************************************)
(* The tracker with the goroutines of the controller: any of them may make *)
(* any call.                                                               *)
(***************************************************************************)
EXTENDS Tracker

=============================================================================
