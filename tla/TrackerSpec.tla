----------------------------- MODULE TrackerSpec -----------------------------
(***************************************************************************)
(* What the tracker promises its callers ("Tracker is thread-safe",        *)
(* tracker.go:8): every call takes effect in one step between its          *)
(* invocation and its return, and GetTracking answers from the relation of *)
(* that step.                                                              *)
(***************************************************************************)
EXTENDS TrackerOps

CONSTANTS
  Procs,     \* goroutines that call the tracker: the worker and the handlers
  Tracking,  \* SecretTemplates
  Tracked,   \* Secrets
  None       \* no call, no answer yet, nobody

VARIABLES
  rel,   \* who tracks what
  call,  \* the call each process has in progress, or None
  ret    \* its answer once it has taken effect, None before

absVars == <<rel, call, ret>>

Writes == [op : {"Track"}, who : Tracking, keys : SUBSET Tracked]
            \cup [op : {"UntrackAll"}, who : Tracking]
Reads  == [op : {"GetTracking"}, key : Tracked]
Calls  == Writes \cup Reads

AbsInit == /\ rel = [t \in Tracking |-> {}]
           /\ call = [p \in Procs |-> None]
           /\ ret = [p \in Procs |-> None]

\* A process may call when it is between calls.
Invoke(p, c) == /\ call[p] = None
                /\ call' = [call EXCEPT ![p] = c]
                /\ UNCHANGED <<rel, ret>>

TakesEffect(p) == call[p] # None /\ ret[p] = None

ApplyTrack(p) ==
  /\ TakesEffect(p) /\ call[p].op = "Track"
  /\ rel' = Track(rel, call[p].who, call[p].keys)
  /\ ret' = [ret EXCEPT ![p] = {}]
  /\ UNCHANGED call

ApplyUntrackAll(p) ==
  /\ TakesEffect(p) /\ call[p].op = "UntrackAll"
  /\ rel' = UntrackAll(rel, call[p].who)
  /\ ret' = [ret EXCEPT ![p] = {}]
  /\ UNCHANGED call

ApplyGetTracking(p) ==
  /\ TakesEffect(p) /\ call[p].op = "GetTracking"
  /\ ret' = [ret EXCEPT ![p] = GetTracking(rel, call[p].key)]
  /\ UNCHANGED <<rel, call>>

Return(p) == /\ ret[p] # None
             /\ call' = [call EXCEPT ![p] = None]
             /\ ret' = [ret EXCEPT ![p] = None]
             /\ UNCHANGED rel

AbsNext == \E p \in Procs :
  \/ \E c \in Calls : Invoke(p, c)
  \/ ApplyTrack(p)
  \/ ApplyUntrackAll(p)
  \/ ApplyGetTracking(p)
  \/ Return(p)

AbsSpec == AbsInit /\ [][AbsNext]_absVars

=============================================================================
