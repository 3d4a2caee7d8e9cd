------------------------------ MODULE QueueSpec ------------------------------
(***************************************************************************)
(* What the controller is promised by its work queue, and what             *)
(* SecretTemplateReconciler takes it for: a set of items to process, those *)
(* in process, and those that will be added by themselves later.  An item  *)
(* is never in process twice, an add is never forgotten, and nobody is     *)
(* passed over for ever.                                                   *)
(***************************************************************************)
EXTENDS Naturals, FiniteSets

CONSTANTS Items,   \* reconcile requests
          Workers  \* the controller's workers: one, unless configured

VARIABLES
  dirty,    \* the items to process
  current,  \* the items in process
  waiting   \* the items to add later

specVars == <<dirty, current, waiting>>

SpecInit == dirty = {} /\ current = {} /\ waiting = {}

\* An event handler adds an item, at any time.
Insert(t) == /\ dirty' = dirty \cup {t}
             /\ UNCHANGED <<current, waiting>>

Take(t) == /\ t \in dirty \ current
           /\ Cardinality(current) < Cardinality(Workers)
           /\ dirty' = dirty \ {t}
           /\ current' = current \cup {t}
           /\ UNCHANGED waiting

\* The item has been processed; later says whether it comes back by itself.
Release(t, later) == /\ t \in current
                     /\ current' = current \ {t}
                     /\ waiting' = IF later THEN waiting \cup {t} ELSE waiting
                     /\ UNCHANGED dirty

\* What was to be added later is added now; a second request may remain.
Expire(t) == /\ t \in waiting
             /\ waiting' \in {waiting, waiting \ {t}}
             /\ dirty' = dirty \cup {t}
             /\ UNCHANGED current

SpecNext == \E t \in Items : \/ Insert(t) \/ Take(t) \/ Expire(t)
                             \/ \E later \in BOOLEAN : Release(t, later)

SafeSpec == SpecInit /\ [][SpecNext]_specVars

\* First-in first-out is strong fairness to every item: it is taken however
\* often the worker is busy when its turn could come.
Promise == /\ SafeSpec
           /\ \A t \in Items : SF_specVars(Take(t)) /\ WF_specVars(Expire(t))

=============================================================================
