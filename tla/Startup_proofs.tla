---------------------------- MODULE Startup_proofs ----------------------------
(***************************************************************************)
(* What Startup's safety properties say, for every timeout, every value of *)
(* the flags and any number of failed requests and of restarts.            *)
(***************************************************************************)
EXTENDS Startup, TLAPS

\* A check is only the last one when the timer has run out.
LastAtEnd == last = TRUE => timer = 0

Typed == /\ phase \in Waits \cup {"manager", "running", "exited"}
         /\ timer \in Nat \cup {Unset}
         /\ flags \in [list : Lists, legacy : Legacies]
         /\ crd \in {"absent", "created", "established"}
         /\ errors \in Nat /\ exits \in Nat /\ removals \in Nat
Flagged == checking \in BOOLEAN /\ last \in BOOLEAN /\ served \in BOOLEAN

StartInv == Typed /\ LastAtEnd

USE DEF process, cluster

\* What a wait's end or another check does to them.
LEMMA EntersFlags ==
  ASSUME NEW p, Enters(p)
  PROVE  checking' \in BOOLEAN /\ last' \in BOOLEAN
<1>1. last' \in BOOLEAN
  BY DEF Enters
<1>2. (p \in Waits) \in BOOLEAN
  OBVIOUS
<1>3. checking' = (p \in Waits)
  BY DEF Enters
<1> QED
  BY <1>1, <1>2, <1>3

LEMMA ContinueFlags ==
  ASSUME Flagged, Continue
  PROVE  checking' \in BOOLEAN /\ last' \in BOOLEAN
<1>1. CASE last
  BY <1>1, EntersFlags DEF Continue, Exits
<1>2. CASE ~last
  BY <1>2 DEF Continue, Flagged
<1> QED
  BY <1>1, <1>2 DEF Flagged

\* The truth values.
LEMMA FlagsTyped == StartSpec => []Flagged
<1>1. StartInit => Flagged
  BY DEF StartInit, Flagged
<1>2. ASSUME Flagged, [StartNext]_startVars PROVE Flagged'
  <2> USE <1>2 DEF Flagged
  <2>1. CASE Elapse
    <3>1. CASE checking
      BY <2>1, <3>1 DEF Elapse
    <3>2. CASE ~checking
      BY <2>1, <3>2 DEF Elapse
    <3> QED
      BY <3>1, <3>2
  <2>2. CASE CloseChannel
    BY <2>2 DEF CloseChannel
  <2>3. CASE CheckEstablished
    <3>1. checking' \in BOOLEAN /\ last' \in BOOLEAN
      BY <2>3, EntersFlags, ContinueFlags DEF CheckEstablished, Exits
    <3> QED
      BY <2>3, <3>1 DEF CheckEstablished
  <2>4. CASE CheckDiscoverable
    <3>1. checking' \in BOOLEAN /\ last' \in BOOLEAN
      BY <2>4, EntersFlags, ContinueFlags DEF CheckDiscoverable, Exits
    <3> QED
      BY <2>4, <3>1 DEF CheckDiscoverable
  <2>5. CASE SetUp \/ Die \/ Restart
    <3>1. checking' \in BOOLEAN /\ last' \in BOOLEAN
      BY <2>5, EntersFlags DEF SetUp, Die, Restart, Exits
    <3> QED
      BY <2>5, <3>1 DEF SetUp, Die, Restart
  <2>6. CASE ClusterNext
    BY <2>6 DEF ClusterNext, Install, Establish, Refresh, RemoveCRD
  <2>7. CASE UNCHANGED startVars
    BY <2>7 DEF startVars
  <2> QED
    BY <2>1, <2>2, <2>3, <2>4, <2>5, <2>6, <2>7, <1>2 DEF StartNext, ProcessNext
<1> QED
  BY <1>1, <1>2, PTL DEF StartSpec

LEMMA StartInitInv == StartInit => StartInv
<1> SUFFICES ASSUME StartInit PROVE StartInv
  OBVIOUS
<1>1. Typed
  BY StartupAssumption DEF StartInit, Typed, Waits
<1>2. LastAtEnd
  BY DEF StartInit, LastAtEnd
<1> QED
  BY <1>1, <1>2 DEF StartInv

\* Every step of main and of the cluster keeps the invariant.
LEMMA StartStep == StartInv /\ [StartNext]_startVars => StartInv'
<1> SUFFICES ASSUME StartInv, [StartNext]_startVars PROVE StartInv'
  OBVIOUS
<1> USE StartupAssumption DEF StartInv, Typed, LastAtEnd, Waits
<1>1. CASE Elapse
  <2>1. last' = TRUE => timer' = 0
    BY <1>1 DEF Elapse
  <2>2. Typed'
    BY <1>1 DEF Elapse
  <2> QED
    BY <2>1, <2>2
<1>2. CASE CloseChannel
  BY <1>2 DEF CloseChannel
<1>3. CASE CheckEstablished
  BY <1>3 DEF CheckEstablished, Fault, Exits, Enters, Continue
<1>4. CASE CheckDiscoverable
  BY <1>4 DEF CheckDiscoverable, Fault, Exits, Enters, Continue
<1>5. CASE SetUp
  BY <1>5 DEF SetUp, Fault, Exits, Enters
<1>6. CASE Die
  BY <1>6 DEF Die, Exits, Enters
<1>7. CASE Restart
  BY <1>7 DEF Restart, Enters
<1>8. CASE ClusterNext
  BY <1>8 DEF ClusterNext, Install, Establish, Refresh, RemoveCRD
<1>9. CASE UNCHANGED startVars
  BY <1>9 DEF startVars
<1> QED
  BY <1>1, <1>2, <1>3, <1>4, <1>5, <1>6, <1>7, <1>8, <1>9 DEF StartNext, ProcessNext

LEMMA StartInvariant == StartSpec => []StartInv
BY StartInitInv, StartStep, PTL DEF StartSpec

\* main's variables and the cluster's keep their types.
THEOREM StartTypeCorrect == StartSpec => []StartTypeOK
<1>1. StartInv /\ Flagged => StartTypeOK
  BY DEF StartInv, Typed, Flagged, StartTypeOK
<1> QED
  BY <1>1, StartInvariant, FlagsTyped, PTL

\* Nobody gives up before the end of the timeout, but for a failed request
\* for the CRD, or without a failed request on a CRD that is ready.
THEOREM PatientToTheEnd == StartSpec => GivesUpLate
<1> DEFINE Late == phase \in Waits /\ phase' = "exited" /\ exits' = exits =>
                     /\ phase = "discoverable" \/ errors' = errors => timer = 0
                     /\ errors' = errors => ~ReadyNow
<1>1. ASSUME StartInv, [StartNext]_startVars PROVE [Late]_startVars
  <2> SUFFICES ASSUME StartNext, phase \in Waits, phase' = "exited", exits' = exits
               PROVE  /\ phase = "discoverable" \/ errors' = errors => timer = 0
                      /\ errors' = errors => ~ReadyNow
    BY <1>1
  <2> USE <1>1 DEF StartInv, Typed, LastAtEnd, Waits
  <2>1. CASE CheckEstablished
    BY <2>1 DEF CheckEstablished, Fault, Exits, Enters, Continue, ReadyNow
  <2>2. CASE CheckDiscoverable
    BY <2>2 DEF CheckDiscoverable, Fault, Exits, Enters, Continue, ReadyNow
  <2>3. CASE Elapse \/ CloseChannel \/ Restart \/ SetUp
    BY <2>3 DEF Elapse, CloseChannel, Restart, SetUp, Enters
  <2>4. CASE Die
    BY <2>4 DEF Die
  <2>5. CASE ClusterNext
    BY <2>5 DEF ClusterNext, Install, Establish, Refresh, RemoveCRD
  <2> QED
    BY <2>1, <2>2, <2>3, <2>4, <2>5 DEF StartNext, ProcessNext
<1> QED
  BY <1>1, StartInvariant, PTL DEF StartSpec, GivesUpLate

=============================================================================
