---------------------------- MODULE MCLostUpdate ----------------------------
(***************************************************************************)
(* The small clusters of the reconciler, with the history of its races.    *)
(***************************************************************************)
EXTENDS MCReconciler, LostUpdate

=============================================================================
