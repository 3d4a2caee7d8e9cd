----------------------------- MODULE LostUpdate -----------------------------
(***************************************************************************)
(* The reconciler with a history variable that marks the templates whose   *)
(* last reconcile missed a change of an input: the change came after the   *)
(* input was read, and its event was handled before Track.                 *)
(***************************************************************************)
EXTENDS SecretTemplateReconciler

VARIABLE raced

Missed == \E i \in DOMAIN w.got :
            LET n == InputName(Spec1, w.got, i) IN
              /\ secret[n] = None \/ secret[n].data # w.got[i]
              /\ \A j \in DOMAIN sWatch : sWatch[j].key # n

RacedInit == Init /\ raced = {}

RacedNext ==
  /\ Next
  /\ raced' = IF At("track") /\ w'.pc \notin {"track", "idle"}
              THEN IF Missed THEN raced \cup {w.item} ELSE raced \ {w.item}
              ELSE raced

RacedSpec == RacedInit /\ [][RacedNext]_<<vars, raced>>

\* The window between the read of an input and Track is the only way to lose
\* a change: with nothing left to do and no such race in its last reconcile,
\* a SecretTemplate without a ServiceAccount has the Secret its inputs give
\* now, whatever the deliveries, tracker calls, deletions and restarts before.
OnlyRacedUpdatesLost ==
  \A t \in Templates :
    Quiet(t) /\ sWatch = << >> /\ Reconcilable(t) /\ ~tmpl[t].spec.sa /\ t \notin raced
      => UpToDate(t)

=============================================================================
