----------------------------- MODULE TrackerOps -----------------------------
(***************************************************************************)
(* What the three methods of the input tracker do to the relation          *)
(* "tracking -> set of tracked" (pkg/tracker/tracker.go) when each runs    *)
(* alone.  TrackerSpec takes them as atomic steps, Tracker shows that the  *)
(* locked code implements those steps, and the reconciler's module uses    *)
(* them as its calls into the tracker.                                     *)
(***************************************************************************)

\* The new entries are added to those already there: Track never removes.
Track(rel, who, keys) == [rel EXCEPT ![who] = @ \cup keys]

\* Mutant: everybody is untracked.
UntrackEverybody(rel, who) == [x \in DOMAIN rel |-> {}]

UntrackAll(rel, who) == [rel EXCEPT ![who] = {}]

GetTracking(rel, key) == {who \in DOMAIN rel : key \in rel[who]}

=============================================================================
