------------------------------- MODULE Startup -------------------------------
(***************************************************************************)
(* How the controller's process gets from main to its running controller   *)
(* (main.go): it waits until the SecretTemplate CRD is established and     *)
(* then until discovery serves its kind, sets up the manager for the       *)
(* namespaces its flags name, and runs.  It exits when a step fails or a   *)
(* wait times out, and the kubelet starts it again.                        *)
(*                                                                         *)
(* A wait is wait.PollImmediate: a check at once, then, from the start of  *)
(* a timer, one every interval unless the last one still runs, and a last  *)
(* one when the timer has run out.  The unit of time is the interval.      *)
(***************************************************************************)
EXTENDS Integers, Sequences

CONSTANTS
  Unset,       \* no value yet, or none given
  Patience,    \* phase |-> the wait's timeout, in intervals (60 and 30)
  Lists,       \* values of --watch-namespaces, split at the commas
  Legacies,    \* values of --namespace; Unset when empty
  Blank,       \* a part of a list that is only spaces
  Every,       \* metav1.NamespaceAll, the empty name: all namespaces
  MaxErrors, MaxExits, MaxRemovals  \* bounds of the model

Waits == {"established", "discoverable"}

ASSUME StartupAssumption ==
  /\ Patience \in [Waits -> Nat \ {0}]
  /\ Unset \notin Nat
  /\ \A l \in Lists : \A k \in DOMAIN l : l[k] \notin {Unset, Every}
  /\ {Blank, Every} \cap Legacies = {}
  /\ MaxErrors \in Nat /\ MaxExits \in Nat /\ MaxRemovals \in Nat

VARIABLES
  phase,     \* where main is
  timer,     \* intervals left of the wait, Unset before its first check ends
  checking,  \* a check is under way
  last,      \* ... and is the last one: the poller has closed its channel
  scope,     \* the namespaces of the manager's cache, Unset before it is made
  flags,     \* the process's arguments
  crd,       \* the CustomResourceDefinition
  served,    \* discovery lists the kind
  errors, exits, removals  \* what has been counted against the bounds

startVars == <<phase, timer, checking, last, scope, flags, crd, served,
               errors, exits, removals>>
process == <<phase, timer, checking, last, scope>>
cluster == <<crd, served, removals>>

Enters(p) == /\ phase' = p /\ timer' = Unset
             /\ checking' = (p \in Waits) /\ last' = FALSE

StartInit ==
  /\ phase = "established" /\ timer = Unset /\ checking = TRUE
  /\ last = FALSE /\ scope = Unset
  /\ flags \in [list : Lists, legacy : Legacies]
  /\ crd \in {"absent", "created"} /\ served = FALSE
  /\ errors = 0 /\ exits = 0 /\ removals = 0

Fault == errors < MaxErrors /\ errors' = errors + 1
Exits == Enters("exited")

---------------------------------------------------------------------------
(* wait.PollImmediate.                                                     *)

\* Mutant: the timer may be passed by.
ElapsePast ==
  /\ phase \in Waits /\ timer # Unset
  /\ timer' = timer - 1 /\ checking' = TRUE
  /\ UNCHANGED <<phase, last, scope, flags, cluster, errors, exits>>

\* An interval passes.  When the timer runs out with it, either may come
\* first; a check is skipped when the one before it is not finished.
Elapse ==
  /\ phase \in Waits /\ timer \notin {Unset, 0}
  /\ timer' = timer - 1
  /\ IF checking THEN UNCHANGED <<checking, last>>
     ELSE checking' = TRUE /\ last' \in {FALSE, timer' = 0}
  /\ UNCHANGED <<phase, scope, flags, cluster, errors, exits>>

\* Mutant: the wait ends without a last check.
CloseAtOnce == /\ phase \in Waits /\ timer = 0 /\ ~checking
               /\ Exits
               /\ UNCHANGED <<scope, flags, cluster, errors, exits>>

CloseChannel == /\ phase \in Waits /\ timer = 0 /\ ~checking
                /\ checking' = TRUE /\ last' = TRUE
                /\ UNCHANGED <<phase, timer, scope, flags, cluster, errors, exits>>

\* Mutant: the timer does not start after the immediate check.
ContinueUntimed == /\ ~last
                   /\ checking' = FALSE
                   /\ UNCHANGED <<phase, timer, last>>

\* The condition does not hold yet.
Continue ==
  IF last THEN Exits
  ELSE /\ checking' = FALSE
       /\ timer' = IF timer = Unset THEN Patience[phase] ELSE timer
       /\ UNCHANGED <<phase, last>>

---------------------------------------------------------------------------
(* waitForCRDs and the rest of main.                                       *)

\* Not found is no error; any other failure of the request is final.
CheckEstablished ==
  /\ phase = "established" /\ checking
  /\ \/ Fault /\ Exits
     \/ /\ IF crd = "established" THEN Enters("discoverable") ELSE Continue
        /\ UNCHANGED errors
  /\ UNCHANGED <<scope, flags, cluster, exits>>

\* Mutant: an error of discovery is final.
DiscoverableOrExit ==
  /\ phase = "discoverable" /\ checking
  /\ \/ Fault /\ Exits
     \/ /\ IF served THEN Enters("manager") ELSE Continue
        /\ UNCHANGED errors
  /\ UNCHANGED <<scope, flags, cluster, exits>>

CheckDiscoverable ==
  /\ phase = "discoverable" /\ checking
  /\ \/ Fault /\ Continue
     \/ /\ IF served THEN Enters("manager") ELSE Continue
        /\ UNCHANGED errors
  /\ UNCHANGED <<scope, flags, cluster, exits>>

\* The keys of DefaultNamespaces.
Namespaces(list, legacy) ==
  IF list # << >> THEN {list[i] : i \in DOMAIN list} \ {Blank}
  ELSE {legacy} \ {Unset}

\* The cache's defaults: no namespaces are all of them.
Scope(names) == IF names = {} \/ Every \in names THEN {Every} ELSE names

\* The manager and the controller are made, watches attached, all started.
SetUp ==
  /\ phase = "manager"
  /\ \/ /\ Enters("running")
        /\ scope' = Scope(Namespaces(flags.list, flags.legacy))
        /\ UNCHANGED errors
     \/ Fault /\ Exits /\ UNCHANGED scope
  /\ UNCHANGED <<flags, cluster, exits>>

\* The process dies: it was killed, or lost the lease of its leadership.
Die == /\ phase # "exited" /\ exits < MaxExits
       /\ exits' = exits + 1
       /\ Exits
       /\ UNCHANGED <<scope, flags, cluster, errors>>

\* The kubelet starts the container again.
Restart == /\ phase = "exited"
           /\ Enters("established")
           /\ scope' = Unset
           /\ UNCHANGED <<flags, cluster, errors, exits>>

---------------------------------------------------------------------------
(* The cluster's administrator and the API server.                         *)

Install == /\ crd = "absent" /\ crd' = "created"
           /\ UNCHANGED <<process, flags, served, removals, errors, exits>>

Establish == /\ crd = "created" /\ crd' = "established"
             /\ UNCHANGED <<process, flags, served, removals, errors, exits>>

\* The discovery document follows the CRD.
Refresh == /\ served # (crd = "established")
           /\ served' = ~served
           /\ UNCHANGED <<process, flags, crd, removals, errors, exits>>

RemoveCRD == /\ crd # "absent" /\ removals < MaxRemovals
             /\ crd' = "absent" /\ removals' = removals + 1
             /\ UNCHANGED <<process, flags, served, errors, exits>>

ProcessNext == \/ Elapse \/ CloseChannel \/ CheckEstablished \/ CheckDiscoverable
               \/ SetUp \/ Die \/ Restart
ClusterNext == Install \/ Establish \/ Refresh \/ RemoveCRD
StartNext == ProcessNext \/ ClusterNext

StartSpec == StartInit /\ [][StartNext]_startVars

\* Checks return, time passes, the kubelet restarts what has exited.
StartFairness ==
  WF_startVars(Elapse \/ CloseChannel \/ CheckEstablished \/ CheckDiscoverable \/ SetUp \/ Restart)

---------------------------------------------------------------------------
(* Properties.                                                             *)

StartTypeOK ==
  /\ phase \in Waits \cup {"manager", "running", "exited"}
  /\ timer \in Nat \cup {Unset}
  /\ checking \in BOOLEAN /\ last \in BOOLEAN
  /\ flags \in [list : Lists, legacy : Legacies]
  /\ crd \in {"absent", "created", "established"}
  /\ served \in BOOLEAN
  /\ errors \in Nat /\ exits \in Nat /\ removals \in Nat

\* A wait is given up only after its whole timeout, unless the request that
\* failed was for the CRD itself, and without a failed request only if what
\* is waited for is not there at that very moment: the timer may run out
\* while a check is under way that began too early, or just as the CRD
\* becomes ready.
ReadyNow == IF phase = "established" THEN crd = "established" ELSE served
GivesUpLate ==
  [][(phase \in Waits /\ phase' = "exited" /\ exits' = exits) =>
       /\ (phase = "discoverable" \/ errors' = errors) => timer = 0
       /\ (errors' = errors) => ~ReadyNow]_startVars

\* No process waits for ever.
Decides == phase \in Waits ~> phase \in {"running", "exited"}

\* However late the CRD comes, however often the process gave up on it: once
\* it stays, the controller runs in the end.
Starts == <>[](crd = "established" /\ served) => <>[](phase = "running")

=============================================================================
