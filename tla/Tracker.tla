------------------------------- MODULE Tracker -------------------------------
(***************************************************************************)
(* pkg/tracker/tracker.go as it runs: a map of sets guarded by a           *)
(* sync.RWMutex, each method several steps under the lock.  A map read     *)
(* while another goroutine writes it ends a Go program, so what the lock   *)
(* has to give is both exclusion and atomicity.                            *)
(*                                                                         *)
(* sync.RWMutex (external): Lock first announces the writer, which closes  *)
(* the lock to new readers, and then waits for the readers inside.         *)
(***************************************************************************)
EXTENDS FiniteSets

CONSTANTS Procs, Tracking, Tracked, None

VARIABLES
  map,      \* Tracker.tracker: a function from the tracking names present
  writer,   \* mu: the announced writer, or None
  readers,  \* mu: the readers inside
  call,     \* the call each process has in progress, or None
  ret,      \* its answer when it has left the lock, None before
  pc,       \* where the process is in the method
  todo,     \* the keys a Track has left, or the entries a loop has left
  list      \* GetTracking's trackingList

vars == <<map, writer, readers, call, ret, pc, todo, list>>

Writes == [op : {"Track"}, who : Tracking, keys : SUBSET Tracked]
            \cup [op : {"UntrackAll"}, who : Tracking]
Reads  == [op : {"GetTracking"}, key : Tracked]
Calls  == Writes \cup Reads

ASSUME TrackerAssumption == /\ None \notin Procs /\ None \notin Calls
                            /\ \A S \in SUBSET Tracking : S # None

Init == /\ map = [t \in {} |-> {}]
        /\ writer = None
        /\ readers = {}
        /\ call = [p \in Procs |-> None]
        /\ ret = [p \in Procs |-> None]
        /\ pc = [p \in Procs |-> "out"]
        /\ todo = [p \in Procs |-> {}]
        /\ list = [p \in Procs |-> {}]

Goto(p, l) == pc' = [pc EXCEPT ![p] = l]

Invoke(p, c) == /\ call[p] = None
                /\ call' = [call EXCEPT ![p] = c]
                /\ Goto(p, IF c.op = "GetTracking" THEN "rlock" ELSE "lock")
                /\ UNCHANGED <<map, writer, readers, ret, todo, list>>

---------------------------------------------------------------------------
(* Lock and RLock (sync.RWMutex).                                          *)

Announce(p) == /\ pc[p] = "lock"
               /\ writer = None
               /\ writer' = p
               /\ Goto(p, "drain")
               /\ UNCHANGED <<map, readers, call, ret, todo, list>>

Lock(p) == /\ pc[p] = "drain"
           /\ readers = {}
           /\ IF call[p].op = "Track"
              THEN /\ todo' = [todo EXCEPT ![p] = call[p].keys]
                   /\ Goto(p, "entry")
              ELSE /\ Goto(p, "delete")
                   /\ UNCHANGED todo
           /\ UNCHANGED <<map, writer, readers, call, ret, list>>

\* Mutant: the read lock is forgotten.
RLockMissing(p) ==
  /\ pc[p] = "rlock"
  /\ readers' = readers \cup {p}
  /\ todo' = [todo EXCEPT ![p] = DOMAIN map]
  /\ Goto(p, "visit")
  /\ UNCHANGED <<map, writer, call, ret, list>>

\* The loop of GetTracking ranges over the entries present.
RLock(p) == /\ pc[p] = "rlock"
            /\ writer = None
            /\ readers' = readers \cup {p}
            /\ todo' = [todo EXCEPT ![p] = DOMAIN map]
            /\ Goto(p, "visit")
            /\ UNCHANGED <<map, writer, call, ret, list>>

---------------------------------------------------------------------------
(* Track.                                                                  *)

\* set, found := s.tracker[tracking]; a missing entry is created empty.
EnsureEntry(p) ==
  /\ pc[p] = "entry"
  /\ map' = IF call[p].who \in DOMAIN map
            THEN map
            ELSE [t \in DOMAIN map \cup {call[p].who} |->
                    IF t = call[p].who THEN {} ELSE map[t]]
  /\ Goto(p, "insert")
  /\ UNCHANGED <<writer, readers, call, ret, todo, list>>

\* Mutant: the loop never gets past a key.
InsertKeyAgain(p) ==
  /\ pc[p] = "insert"
  /\ \E k \in todo[p] : map' = [map EXCEPT ![call[p].who] = @ \cup {k}]
  /\ UNCHANGED <<writer, readers, call, ret, pc, todo, list>>

InsertKey(p) ==
  /\ pc[p] = "insert"
  /\ \E k \in todo[p] :
       /\ map' = [map EXCEPT ![call[p].who] = @ \cup {k}]
       /\ todo' = [todo EXCEPT ![p] = @ \ {k}]
  /\ UNCHANGED <<writer, readers, call, ret, pc, list>>

TrackDone(p) == /\ pc[p] = "insert"
                /\ todo[p] = {}
                /\ Goto(p, "unlock")
                /\ UNCHANGED <<map, writer, readers, call, ret, todo, list>>

---------------------------------------------------------------------------
(* UntrackAll.                                                             *)

DeleteEntry(p) ==
  /\ pc[p] = "delete"
  /\ map' = [t \in DOMAIN map \ {call[p].who} |-> map[t]]
  /\ Goto(p, "unlock")
  /\ UNCHANGED <<writer, readers, call, ret, todo, list>>

Unlock(p) == /\ pc[p] = "unlock"
             /\ writer' = None
             /\ ret' = [ret EXCEPT ![p] = {}]
             /\ Goto(p, "out")
             /\ UNCHANGED <<map, readers, call, todo, list>>

---------------------------------------------------------------------------
(* GetTracking.  The loop of a Go map takes its entries in any order.      *)

\* Mutant: the tracked key is listed in place of its tracker.
VisitEntryKey(p) ==
  /\ pc[p] = "visit"
  /\ \E t \in todo[p] :
       /\ list' = [list EXCEPT ![p] =
                     IF t \in DOMAIN map /\ call[p].key \in map[t]
                     THEN @ \cup {call[p].key} ELSE @]
       /\ todo' = [todo EXCEPT ![p] = @ \ {t}]
  /\ UNCHANGED <<map, writer, readers, call, ret, pc>>

VisitEntry(p) ==
  /\ pc[p] = "visit"
  /\ \E t \in todo[p] :
       /\ list' = [list EXCEPT ![p] =
                     IF t \in DOMAIN map /\ call[p].key \in map[t]
                     THEN @ \cup {t} ELSE @]
       /\ todo' = [todo EXCEPT ![p] = @ \ {t}]
  /\ UNCHANGED <<map, writer, readers, call, ret, pc>>

RUnlock(p) == /\ pc[p] = "visit"
              /\ todo[p] = {}
              /\ readers' = readers \ {p}
              /\ ret' = [ret EXCEPT ![p] = list[p]]
              /\ list' = [list EXCEPT ![p] = {}]
              /\ Goto(p, "out")
              /\ UNCHANGED <<map, writer, call, todo>>

Return(p) == /\ ret[p] # None
             /\ call' = [call EXCEPT ![p] = None]
             /\ ret' = [ret EXCEPT ![p] = None]
             /\ UNCHANGED <<map, writer, readers, pc, todo, list>>

---------------------------------------------------------------------------

Method(p) == \/ EnsureEntry(p) \/ InsertKey(p) \/ TrackDone(p)
             \/ DeleteEntry(p) \/ Unlock(p)
             \/ VisitEntry(p)  \/ RUnlock(p)
             \/ Return(p)

Next == \E p \in Procs : \/ \E c \in Calls : Invoke(p, c)
                         \/ Announce(p) \/ Lock(p) \/ RLock(p)
                         \/ EnsureEntry(p) \/ InsertKey(p) \/ TrackDone(p)
                         \/ DeleteEntry(p) \/ Unlock(p)
                         \/ VisitEntry(p)  \/ RUnlock(p)
                         \/ Return(p)

Spec == Init /\ [][Next]_vars

(***************************************************************************)
(* A goroutine inside a method runs on; the mutex lets every waiter in     *)
(* (its documentation promises it to a writer, and Unlock admits the       *)
(* readers that wait before another writer can announce itself).           *)
(***************************************************************************)
Fairness == \A p \in Procs : /\ WF_vars(Method(p))
                             /\ WF_vars(Lock(p))
                             /\ SF_vars(Announce(p))
                             /\ SF_vars(RLock(p))

FairSpec == Spec /\ Fairness

---------------------------------------------------------------------------
(* Properties.                                                             *)

Writing(p) == pc[p] \in {"entry", "insert", "delete", "unlock"}

TypeOK ==
  /\ DOMAIN map \subseteq Tracking
  /\ map \in [DOMAIN map -> SUBSET Tracked]
  /\ writer \in Procs \cup {None}
  /\ readers \subseteq Procs
  /\ call \in [Procs -> Calls \cup {None}]
  /\ ret \in [Procs -> (SUBSET Tracking) \cup {None}]
  /\ pc \in [Procs -> {"out", "lock", "drain", "entry", "insert", "delete",
                       "unlock", "rlock", "visit"}]
  /\ todo \in [Procs -> SUBSET (Tracking \cup Tracked)]
  /\ list \in [Procs -> SUBSET Tracking]

\* No goroutine is inside the write-locked part of Track or UntrackAll while
\* another one is in the locked part of any method: the Go runtime never
\* sees the map iterated or written during a write ("Tracker is
\* thread-safe", tracker.go:8).
MapNotShared == \A p \in Procs : Writing(p) =>
                  \A q \in Procs \ {p} : ~Writing(q) /\ pc[q] # "visit"

\* The relation callers see: the map with what the writer inside the lock
\* has yet to do already done, since nobody can look until it unlocks.
Entry(t) == IF t \in DOMAIN map THEN map[t] ELSE {}

Committed(t) == IF writer # None /\ Writing(writer) /\ call[writer].who = t
                THEN IF call[writer].op = "Track"
                     THEN Entry(t) \cup todo[writer] ELSE {}
                ELSE Entry(t)

Answer(p) == IF Writing(p) THEN {} ELSE ret[p]

Abs == INSTANCE TrackerSpec WITH
         rel <- [t \in Tracking |-> Committed(t)],
         ret <- [p \in Procs |-> Answer(p)]

\* Each method is atomic: whatever the interleaving of the callers, a call
\* takes effect at one instant and GetTracking returns the trackers of that
\* instant, no entry half-written or missed by its loop.
Linearizable == Abs!AbsSpec

\* Every call returns: no caller of Track, UntrackAll or GetTracking waits
\* for ever on the RWMutex.
CallsReturn == \A p \in Procs : call[p] # None ~> call[p] = None

=============================================================================
