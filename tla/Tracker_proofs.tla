--------------------------- MODULE Tracker_proofs ---------------------------
(***************************************************************************)
(* Proofs about the tracker, for any goroutines, SecretTemplates and       *)
(* Secrets: its type invariant, the exclusion its mutex gives, and that    *)
(* its methods are atomic, which is that Tracker implements TrackerSpec.   *)
(*                                                                         *)
(* The inductive invariant says where in its method a process is, by what  *)
(* it holds: the call it makes, the mutex, and what its loop has done.     *)
(***************************************************************************)
EXTENDS Tracker, TLAPS

\* Each stage of a method belongs to its kind of call, and the answer comes
\* with the end of the method.
Stages == \A p \in Procs :
  /\ pc[p] = "out" => (call[p] = None <=> ret[p] = None)
  /\ pc[p] # "out" => call[p] # None /\ ret[p] = None
  /\ pc[p] \in {"lock", "drain", "unlock"} => call[p].op # "GetTracking"
  /\ pc[p] \in {"entry", "insert"} => call[p].op = "Track"
  /\ pc[p] = "delete" => call[p].op = "UntrackAll"
  /\ pc[p] \in {"rlock", "visit"} => call[p].op = "GetTracking"

\* The mutex is held by whom the stages say.
Mutex ==
  /\ \A p \in Procs : writer = p <=> pc[p] = "drain" \/ Writing(p)
  /\ \A p \in Procs : p \in readers <=> pc[p] = "visit"
  /\ \A p \in Procs : Writing(p) => readers = {}

\* What a writer has left to do, and what a reader has found so far.
Loops == \A p \in Procs :
  /\ pc[p] \in {"entry", "insert"} => todo[p] \subseteq call[p].keys
  /\ pc[p] = "insert" => call[p].who \in DOMAIN map
  /\ pc[p] = "unlock" => IF call[p].op = "Track" THEN todo[p] = {}
                         ELSE call[p].who \notin DOMAIN map
  /\ pc[p] = "visit" =>
       /\ todo[p] \subseteq DOMAIN map
       /\ list[p] = {t \in DOMAIN map \ todo[p] : call[p].key \in map[t]}
  /\ pc[p] # "visit" => list[p] = {}

IInv == TypeOK /\ Stages /\ Mutex /\ Loops

---------------------------------------------------------------------------

\* What the fields of a call are.
LEMMA CallFields ==
  ASSUME NEW c \in Calls
  PROVE  /\ c.op \in {"Track", "UntrackAll", "GetTracking"}
         /\ c.op # "GetTracking" => c \in Writes /\ c.who \in Tracking
         /\ c.op = "Track" => c.keys \subseteq Tracked
         /\ c.op = "GetTracking" => c.key \in Tracked
  BY DEF Calls, Writes, Reads

LEMMA InitIInv == Init => IInv
<1> SUFFICES ASSUME Init PROVE IInv
  OBVIOUS
<1> USE DEF Init
<1>1. TypeOK
  <2>1. DOMAIN map = {} /\ map \in [{} -> SUBSET Tracked]
    OBVIOUS
  <2>2. /\ writer \in Procs \cup {None} /\ readers \subseteq Procs
        /\ call \in [Procs -> Calls \cup {None}]
        /\ ret \in [Procs -> (SUBSET Tracking) \cup {None}]
    OBVIOUS
  <2>3. pc \in [Procs -> {"out"}] /\ todo \in [Procs -> {{}}] /\ list \in [Procs -> {{}}]
    OBVIOUS
  <2> QED
    BY <2>1, <2>2, <2>3 DEF TypeOK
<1>2. Stages
  BY TrackerAssumption DEF Stages
<1>3. Mutex
  BY TrackerAssumption DEF Mutex, Writing
<1>4. Loops
  BY DEF Loops
<1> QED
  BY <1>1, <1>2, <1>3, <1>4 DEF IInv

LEMMA InvokeStep ==
  ASSUME IInv, NEW p \in Procs, NEW c \in Calls, Invoke(p, c)
  PROVE  IInv'
<1> USE DEF IInv, Invoke, Goto
<1>1. TypeOK'
  BY CallFields DEF TypeOK
<1>2. Stages'
  BY TrackerAssumption, CallFields DEF TypeOK, Stages
<1>3. Mutex'
  BY TrackerAssumption, CallFields DEF TypeOK, Stages, Mutex, Writing
<1>4. Loops'
  BY CallFields DEF TypeOK, Stages, Mutex, Writing, Loops
<1> QED
  BY <1>1, <1>2, <1>3, <1>4

LEMMA AnnounceStep ==
  ASSUME IInv, NEW p \in Procs, Announce(p)
  PROVE  IInv'
<1> USE DEF IInv, Announce, Goto
<1>1. TypeOK'
  BY CallFields DEF TypeOK
<1>2. Stages'
  BY TrackerAssumption, CallFields DEF TypeOK, Stages
<1>3. Mutex'
  BY TrackerAssumption, CallFields DEF TypeOK, Stages, Mutex, Writing
<1>4. Loops'
  BY CallFields DEF TypeOK, Stages, Mutex, Writing, Loops
<1> QED
  BY <1>1, <1>2, <1>3, <1>4

LEMMA LockStep ==
  ASSUME IInv, NEW p \in Procs, Lock(p)
  PROVE  IInv'
<1> USE DEF IInv, Lock, Goto
<1>1. TypeOK'
  <2>1. call[p] \in Calls
    BY DEF TypeOK, Stages
  <2>2. call[p].op = "Track" => call[p].keys \subseteq Tracked
    BY <2>1, CallFields
  <2> QED
    BY <2>2 DEF TypeOK
<1>2. Stages'
  BY TrackerAssumption, CallFields DEF TypeOK, Stages
<1>3. Mutex'
  BY TrackerAssumption, CallFields DEF TypeOK, Stages, Mutex, Writing
<1>4. Loops'
  BY CallFields DEF TypeOK, Stages, Mutex, Writing, Loops
<1> QED
  BY <1>1, <1>2, <1>3, <1>4

LEMMA RLockStep ==
  ASSUME IInv, NEW p \in Procs, RLock(p)
  PROVE  IInv'
<1> USE DEF IInv, RLock, Goto
<1>1. TypeOK'
  BY CallFields DEF TypeOK
<1>2. Stages'
  BY TrackerAssumption, CallFields DEF TypeOK, Stages
<1>3. Mutex'
  BY TrackerAssumption, CallFields DEF TypeOK, Stages, Mutex, Writing
<1>4. Loops'
  BY CallFields DEF TypeOK, Stages, Mutex, Writing, Loops
<1> QED
  BY <1>1, <1>2, <1>3, <1>4

LEMMA EnsureEntryStep ==
  ASSUME IInv, NEW p \in Procs, EnsureEntry(p)
  PROVE  IInv'
<1> USE DEF IInv, EnsureEntry, Goto
<1>1. TypeOK'
  <2>1. call[p] \in Calls /\ call[p].op = "Track"
    BY DEF TypeOK, Stages
  <2>2. call[p].who \in Tracking
    BY <2>1, CallFields
  <2>3. DOMAIN map' \subseteq Tracking /\ map' \in [DOMAIN map' -> SUBSET Tracked]
    <3>1. CASE call[p].who \in DOMAIN map
      BY <3>1 DEF TypeOK
    <3>2. CASE call[p].who \notin DOMAIN map
      BY <2>2, <3>2 DEF TypeOK
    <3> QED
      BY <3>1, <3>2
  <2> QED
    BY <2>3 DEF TypeOK
<1>2. Stages'
  BY TrackerAssumption, CallFields DEF TypeOK, Stages
<1>3. Mutex'
  BY TrackerAssumption, CallFields DEF TypeOK, Stages, Mutex, Writing
<1>4. Loops'
  BY CallFields DEF TypeOK, Stages, Mutex, Writing, Loops
<1> QED
  BY <1>1, <1>2, <1>3, <1>4

LEMMA InsertKeyStep ==
  ASSUME IInv, NEW p \in Procs, InsertKey(p)
  PROVE  IInv'
<1> USE DEF IInv, InsertKey, Goto
<1>1. TypeOK'
  <2>1. call[p] \in Calls /\ call[p].op = "Track"
    BY DEF TypeOK, Stages
  <2>2. todo[p] \subseteq Tracked
    BY <2>1, CallFields DEF Loops
  <2>3. PICK k \in todo[p] : map' = [map EXCEPT ![call[p].who] = @ \cup {k}]
    OBVIOUS
  <2>4. DOMAIN map' = DOMAIN map
    BY <2>3 DEF TypeOK
  <2>5. map' \in [DOMAIN map' -> SUBSET Tracked]
    <3> DEFINE Keys == SUBSET Tracked
    <3>1. map[call[p].who] \cup {k} \in Keys
      BY <2>2 DEF TypeOK, Loops
    <3>2. map \in [DOMAIN map -> Keys]
      BY DEF TypeOK
    <3> HIDE DEF Keys
    <3>3. map' \in [DOMAIN map -> Keys]
      BY <3>1, <3>2, <2>3
    <3> QED
      BY <3>3, <2>4 DEF Keys
  <2> QED
    BY <2>4, <2>5 DEF TypeOK
<1>2. Stages'
  BY TrackerAssumption, CallFields DEF TypeOK, Stages
<1>3. Mutex'
  BY TrackerAssumption, CallFields DEF TypeOK, Stages, Mutex, Writing
<1>4. Loops'
  BY CallFields DEF TypeOK, Stages, Mutex, Writing, Loops
<1> QED
  BY <1>1, <1>2, <1>3, <1>4

LEMMA TrackDoneStep ==
  ASSUME IInv, NEW p \in Procs, TrackDone(p)
  PROVE  IInv'
<1> USE DEF IInv, TrackDone, Goto
<1>1. TypeOK'
  BY CallFields DEF TypeOK
<1>2. Stages'
  BY TrackerAssumption, CallFields DEF TypeOK, Stages
<1>3. Mutex'
  BY TrackerAssumption, CallFields DEF TypeOK, Stages, Mutex, Writing
<1>4. Loops'
  BY CallFields DEF TypeOK, Stages, Mutex, Writing, Loops
<1> QED
  BY <1>1, <1>2, <1>3, <1>4

LEMMA DeleteEntryStep ==
  ASSUME IInv, NEW p \in Procs, DeleteEntry(p)
  PROVE  IInv'
<1> USE DEF IInv, DeleteEntry, Goto
<1>1. TypeOK'
  BY CallFields DEF TypeOK
<1>2. Stages'
  BY TrackerAssumption, CallFields DEF TypeOK, Stages
<1>3. Mutex'
  BY TrackerAssumption, CallFields DEF TypeOK, Stages, Mutex, Writing
<1>4. Loops'
  BY CallFields DEF TypeOK, Stages, Mutex, Writing, Loops
<1> QED
  BY <1>1, <1>2, <1>3, <1>4

LEMMA UnlockStep ==
  ASSUME IInv, NEW p \in Procs, Unlock(p)
  PROVE  IInv'
<1> USE DEF IInv, Unlock, Goto
<1>1. TypeOK'
  BY CallFields DEF TypeOK
<1>2. Stages'
  BY TrackerAssumption, CallFields DEF TypeOK, Stages
<1>3. Mutex'
  BY TrackerAssumption, CallFields DEF TypeOK, Stages, Mutex, Writing
<1>4. Loops'
  BY CallFields DEF TypeOK, Stages, Mutex, Writing, Loops
<1> QED
  BY <1>1, <1>2, <1>3, <1>4

LEMMA VisitEntryStep ==
  ASSUME IInv, NEW p \in Procs, VisitEntry(p)
  PROVE  IInv'
<1> USE DEF IInv, VisitEntry, Goto
<1>1. TypeOK'
  BY CallFields DEF TypeOK
<1>2. Stages'
  BY TrackerAssumption, CallFields DEF TypeOK, Stages
<1>3. Mutex'
  BY TrackerAssumption, CallFields DEF TypeOK, Stages, Mutex, Writing
<1>4. Loops'
  BY CallFields DEF TypeOK, Stages, Mutex, Writing, Loops
<1> QED
  BY <1>1, <1>2, <1>3, <1>4

LEMMA RUnlockStep ==
  ASSUME IInv, NEW p \in Procs, RUnlock(p)
  PROVE  IInv'
<1> USE DEF IInv, RUnlock, Goto
<1>1. TypeOK'
  BY CallFields DEF TypeOK
<1>2. Stages'
  BY TrackerAssumption, CallFields DEF TypeOK, Stages
<1>3. Mutex'
  BY TrackerAssumption, CallFields DEF TypeOK, Stages, Mutex, Writing
<1>4. Loops'
  BY CallFields DEF TypeOK, Stages, Mutex, Writing, Loops
<1> QED
  BY <1>1, <1>2, <1>3, <1>4

LEMMA ReturnStep ==
  ASSUME IInv, NEW p \in Procs, Return(p)
  PROVE  IInv'
<1> USE DEF IInv, Return, Goto
<1>1. TypeOK'
  BY DEF TypeOK
<1>2. Stages'
  BY TrackerAssumption, CallFields DEF TypeOK, Stages
<1>3. Mutex'
  BY TrackerAssumption, CallFields DEF TypeOK, Stages, Mutex, Writing
<1>4. Loops'
  BY CallFields DEF TypeOK, Stages, Mutex, Writing, Loops
<1> QED
  BY <1>1, <1>2, <1>3, <1>4

LEMMA NextIInv == IInv /\ [Next]_vars => IInv'
<1> SUFFICES ASSUME IInv, [Next]_vars PROVE IInv'
  OBVIOUS
<1>1. ASSUME NEW p \in Procs, NEW c \in Calls, Invoke(p, c) PROVE IInv'
  BY <1>1, InvokeStep
<1>2. ASSUME NEW p \in Procs, Announce(p) PROVE IInv'
  BY <1>2, AnnounceStep
<1>3. ASSUME NEW p \in Procs, Lock(p) PROVE IInv'
  BY <1>3, LockStep
<1>4. ASSUME NEW p \in Procs, RLock(p) PROVE IInv'
  BY <1>4, RLockStep
<1>5. ASSUME NEW p \in Procs, EnsureEntry(p) PROVE IInv'
  BY <1>5, EnsureEntryStep
<1>6. ASSUME NEW p \in Procs, InsertKey(p) PROVE IInv'
  BY <1>6, InsertKeyStep
<1>7. ASSUME NEW p \in Procs, TrackDone(p) PROVE IInv'
  BY <1>7, TrackDoneStep
<1>8. ASSUME NEW p \in Procs, DeleteEntry(p) PROVE IInv'
  BY <1>8, DeleteEntryStep
<1>9. ASSUME NEW p \in Procs, Unlock(p) PROVE IInv'
  BY <1>9, UnlockStep
<1>10. ASSUME NEW p \in Procs, VisitEntry(p) PROVE IInv'
  BY <1>10, VisitEntryStep
<1>11. ASSUME NEW p \in Procs, RUnlock(p) PROVE IInv'
  BY <1>11, RUnlockStep
<1>12. ASSUME NEW p \in Procs, Return(p) PROVE IInv'
  BY <1>12, ReturnStep
<1>13. ASSUME UNCHANGED vars PROVE IInv'
  BY <1>13 DEF vars, IInv, TypeOK, Stages, Mutex, Loops, Writing
<1> QED
  BY <1>1, <1>2, <1>3, <1>4, <1>5, <1>6, <1>7, <1>8, <1>9, <1>10, <1>11,
     <1>12, <1>13 DEF Next

THEOREM Invariance == Spec => []IInv
  BY InitIInv, NextIInv, PTL DEF Spec

\* Every reachable state is well typed.
THEOREM TypeCorrect == Spec => []TypeOK
  BY Invariance, PTL DEF IInv

\* No goroutine is in the locked part of a method while another one writes
\* the map (tracker.go:8).
THEOREM Exclusion == Spec => []MapNotShared
<1>1. IInv => MapNotShared
  BY DEF IInv, Mutex, MapNotShared, Writing
<1> QED
  BY <1>1, Invariance, PTL

---------------------------------------------------------------------------
(* Atomicity.  Track and UntrackAll take effect when they get the lock,    *)
(* GetTracking when it leaves it; every other step is a stutter.           *)

Rel == [t \in Tracking |-> Committed(t)]
Ans == [p \in Procs |-> Answer(p)]

LEMMA InitAbs == Init => Abs!AbsInit
  BY TrackerAssumption DEF Init, Abs!AbsInit, Committed, Entry, Answer, Writing

LEMMA AnnounceAbs ==
  ASSUME IInv, NEW p \in Procs, Announce(p)
  PROVE  UNCHANGED Abs!absVars
<1> USE DEF IInv, TypeOK, Stages, Mutex, Loops, Writing, Announce, Goto
<1>1. ASSUME NEW t \in Tracking PROVE Committed(t)' = Committed(t)
  BY TrackerAssumption DEF Committed, Entry
<1>2. ASSUME NEW q \in Procs PROVE Answer(q)' = Answer(q)
  BY DEF Answer
<1> QED
  BY <1>1, <1>2 DEF Abs!absVars

LEMMA RLockAbs ==
  ASSUME IInv, NEW p \in Procs, RLock(p)
  PROVE  UNCHANGED Abs!absVars
<1> USE DEF IInv, TypeOK, Stages, Mutex, Loops, Writing, RLock, Goto
<1>1. ASSUME NEW t \in Tracking PROVE Committed(t)' = Committed(t)
  BY TrackerAssumption DEF Committed, Entry
<1>2. ASSUME NEW q \in Procs PROVE Answer(q)' = Answer(q)
  BY DEF Answer
<1> QED
  BY <1>1, <1>2 DEF Abs!absVars

LEMMA EnsureEntryAbs ==
  ASSUME IInv, NEW p \in Procs, EnsureEntry(p)
  PROVE  UNCHANGED Abs!absVars
<1> USE DEF IInv, TypeOK, Stages, Mutex, Loops, Writing, EnsureEntry, Goto
<1>1. ASSUME NEW t \in Tracking PROVE Committed(t)' = Committed(t)
  BY TrackerAssumption DEF Committed, Entry
<1>2. ASSUME NEW q \in Procs PROVE Answer(q)' = Answer(q)
  BY DEF Answer
<1> QED
  BY <1>1, <1>2 DEF Abs!absVars

LEMMA InsertKeyAbs ==
  ASSUME IInv, NEW p \in Procs, InsertKey(p)
  PROVE  UNCHANGED Abs!absVars
<1> USE DEF IInv, TypeOK, Stages, Mutex, Loops, Writing, InsertKey, Goto
<1>1. ASSUME NEW t \in Tracking PROVE Committed(t)' = Committed(t)
  <2>1. writer = p /\ writer' = p /\ p # None
    BY TrackerAssumption
  <2>2. PICK k \in todo[p] : /\ map' = [map EXCEPT ![call[p].who] = @ \cup {k}]
                             /\ todo' = [todo EXCEPT ![p] = @ \ {k}]
    OBVIOUS
  <2>3. CASE call[p].who = t
    <3>1. Committed(t) = map[t] \cup todo[p]
      BY <2>1, <2>3 DEF Committed, Entry
    <3>2. Committed(t)' = map'[t] \cup todo'[p]
      BY <2>1, <2>2, <2>3 DEF Committed, Entry
    <3>3. map'[t] = map[t] \cup {k} /\ todo'[p] = todo[p] \ {k}
      BY <2>2, <2>3
    <3> QED
      BY <2>2, <3>1, <3>2, <3>3
  <2>4. CASE call[p].who # t
    BY <2>1, <2>2, <2>4 DEF Committed, Entry
  <2> QED
    BY <2>3, <2>4
<1>2. ASSUME NEW q \in Procs PROVE Answer(q)' = Answer(q)
  BY DEF Answer
<1> QED
  BY <1>1, <1>2 DEF Abs!absVars

LEMMA TrackDoneAbs ==
  ASSUME IInv, NEW p \in Procs, TrackDone(p)
  PROVE  UNCHANGED Abs!absVars
<1> USE DEF IInv, TypeOK, Stages, Mutex, Loops, Writing, TrackDone, Goto
<1>1. ASSUME NEW t \in Tracking PROVE Committed(t)' = Committed(t)
  BY TrackerAssumption DEF Committed, Entry
<1>2. ASSUME NEW q \in Procs PROVE Answer(q)' = Answer(q)
  BY DEF Answer
<1> QED
  BY <1>1, <1>2 DEF Abs!absVars

LEMMA DeleteEntryAbs ==
  ASSUME IInv, NEW p \in Procs, DeleteEntry(p)
  PROVE  UNCHANGED Abs!absVars
<1> USE DEF IInv, TypeOK, Stages, Mutex, Loops, Writing, DeleteEntry, Goto
<1>1. ASSUME NEW t \in Tracking PROVE Committed(t)' = Committed(t)
  BY TrackerAssumption DEF Committed, Entry
<1>2. ASSUME NEW q \in Procs PROVE Answer(q)' = Answer(q)
  BY DEF Answer
<1> QED
  BY <1>1, <1>2 DEF Abs!absVars

LEMMA UnlockAbs ==
  ASSUME IInv, NEW p \in Procs, Unlock(p)
  PROVE  UNCHANGED Abs!absVars
<1> USE DEF IInv, TypeOK, Stages, Mutex, Loops, Writing, Unlock, Goto
<1>1. ASSUME NEW t \in Tracking PROVE Committed(t)' = Committed(t)
  <2>1. writer = p /\ p # None /\ Committed(t)' = Entry(t)
    BY TrackerAssumption DEF Committed, Entry
  <2>2. CASE call[p].who = t /\ call[p].op = "Track"
    BY <2>1, <2>2 DEF Committed, Entry
  <2>3. CASE call[p].who = t /\ call[p].op # "Track"
    BY <2>1, <2>3 DEF Committed, Entry
  <2>4. CASE call[p].who # t
    BY <2>1, <2>4 DEF Committed
  <2> QED
    BY <2>2, <2>3, <2>4
<1>2. ASSUME NEW q \in Procs PROVE Answer(q)' = Answer(q)
  BY DEF Answer
<1> QED
  BY <1>1, <1>2 DEF Abs!absVars

LEMMA VisitEntryAbs ==
  ASSUME IInv, NEW p \in Procs, VisitEntry(p)
  PROVE  UNCHANGED Abs!absVars
<1> USE DEF IInv, TypeOK, Stages, Mutex, Loops, Writing, VisitEntry, Goto
<1>1. ASSUME NEW t \in Tracking PROVE Committed(t)' = Committed(t)
  BY TrackerAssumption DEF Committed, Entry
<1>2. ASSUME NEW q \in Procs PROVE Answer(q)' = Answer(q)
  BY DEF Answer
<1> QED
  BY <1>1, <1>2 DEF Abs!absVars

LEMMA InvokeAbs ==
  ASSUME IInv, NEW p \in Procs, NEW c \in Calls, Invoke(p, c)
  PROVE  Abs!Invoke(p, c)
<1> USE DEF IInv, TypeOK, Stages, Mutex, Loops, Writing, Invoke, Goto
<1>1. ASSUME NEW t \in Tracking PROVE Committed(t)' = Committed(t)
  BY TrackerAssumption DEF Committed, Entry
<1>2. ASSUME NEW q \in Procs PROVE Answer(q)' = Answer(q)
  BY DEF Answer
<1> QED
  BY <1>1, <1>2 DEF Abs!Invoke

LEMMA LockAbs ==
  ASSUME IInv, NEW p \in Procs, Lock(p)
  PROVE  Abs!ApplyTrack(p) \/ Abs!ApplyUntrackAll(p)
<1>1. /\ call[p] \in Calls /\ call[p].op \in {"Track", "UntrackAll"}
      /\ call[p].who \in Tracking
  BY CallFields DEF IInv, TypeOK, Stages, Lock
<1>2. writer = p /\ p # None /\ ret[p] = None /\ pc[p] = "drain"
  BY TrackerAssumption DEF IInv, Stages, Mutex, Lock
<1>3. /\ pc' = [pc EXCEPT ![p] = IF call[p].op = "Track" THEN "entry" ELSE "delete"]
      /\ call[p].op = "Track" => todo' = [todo EXCEPT ![p] = call[p].keys]
      /\ UNCHANGED <<map, writer, call, ret>>
  BY DEF Lock, Goto
<1>4. DOMAIN pc = Procs /\ DOMAIN todo = Procs
  BY DEF IInv, TypeOK
<1>5. /\ Rel = [t \in Tracking |-> Rel[t]] /\ Rel' = [t \in Tracking |-> Rel'[t]]
      /\ Ans = [q \in Procs |-> Ans[q]] /\ Ans' = [q \in Procs |-> Ans'[q]]
  BY DEF Rel, Ans
<1>6. \A t \in Tracking : Rel[t] = Entry(t)
  BY <1>2 DEF Rel, Committed, Writing
<1>7. /\ Ans[p] = None /\ Ans'[p] = {}
      /\ \A q \in Procs \ {p} : Ans'[q] = Ans[q]
  BY <1>1, <1>2, <1>3, <1>4 DEF Ans, Answer, Writing
<1>8. Ans' = [Ans EXCEPT ![p] = {}]
  BY <1>5, <1>7
<1>9. CASE call[p].op = "Track"
  <2>1. \A t \in Tracking : Rel'[t] = IF t = call[p].who
                                      THEN Entry(t) \cup call[p].keys ELSE Entry(t)
    BY <1>2, <1>3, <1>4, <1>9 DEF Rel, Committed, Writing, Entry
  <2>2. Rel' = Abs!Track(Rel, call[p].who, call[p].keys)
    BY <1>1, <1>5, <1>6, <2>1 DEF Abs!Track
  <2> QED
    BY <1>1, <1>2, <1>3, <1>7, <1>8, <1>9, <2>2, TrackerAssumption
    DEF Abs!ApplyTrack, Abs!TakesEffect, Rel, Ans
<1>10. CASE call[p].op = "UntrackAll"
  <2>1. \A t \in Tracking : Rel'[t] = IF t = call[p].who THEN {} ELSE Entry(t)
    BY <1>2, <1>3, <1>4, <1>10 DEF Rel, Committed, Writing, Entry
  <2>2. Rel' = Abs!UntrackAll(Rel, call[p].who)
    BY <1>1, <1>5, <1>6, <2>1 DEF Abs!UntrackAll
  <2> QED
    BY <1>1, <1>2, <1>3, <1>7, <1>8, <1>10, <2>2, TrackerAssumption
    DEF Abs!ApplyUntrackAll, Abs!TakesEffect, Rel, Ans
<1> QED
  BY <1>1, <1>9, <1>10

LEMMA RUnlockAbs ==
  ASSUME IInv, NEW p \in Procs, RUnlock(p)
  PROVE  Abs!ApplyGetTracking(p)
<1> USE DEF IInv, TypeOK, Stages, Mutex, Loops, Writing, RUnlock, Goto
<1>1. \A t \in Tracking : Committed(t)' = Committed(t) /\ Committed(t) = Entry(t)
  BY TrackerAssumption DEF Committed, Entry
<1>2. list[p] = {t \in DOMAIN map : call[p].key \in map[t]}
  OBVIOUS
<1>3. list[p] = Abs!GetTracking(Rel, call[p].key)
  BY <1>1, <1>2 DEF Rel, Entry, Abs!GetTracking
<1>4. Ans' = [Ans EXCEPT ![p] = list[p]] /\ Answer(p) = None
  BY DEF Ans, Answer
<1>5. Rel' = Rel
  BY <1>1 DEF Rel
<1> QED
  BY <1>3, <1>4, <1>5 DEF Abs!ApplyGetTracking, Abs!TakesEffect, Rel, Ans

LEMMA ReturnAbs ==
  ASSUME IInv, NEW p \in Procs, Return(p)
  PROVE  Abs!Return(p)
<1> USE DEF IInv, TypeOK, Stages, Mutex, Loops, Writing, Return, Goto
<1>1. \A t \in Tracking : Committed(t)' = Committed(t)
  BY TrackerAssumption DEF Committed, Entry
<1>2. Ans' = [Ans EXCEPT ![p] = None] /\ Answer(p) # None
  BY DEF Ans, Answer
<1> QED
  BY <1>1, <1>2 DEF Abs!Return, Rel, Ans

LEMMA NextAbs == IInv /\ [Next]_vars => [Abs!AbsNext]_(Abs!absVars)
<1> SUFFICES ASSUME IInv, [Next]_vars PROVE [Abs!AbsNext]_(Abs!absVars)
  OBVIOUS
<1>1. ASSUME NEW p \in Procs, NEW c \in Calls, Invoke(p, c) PROVE Abs!AbsNext
  BY <1>1, InvokeAbs DEF Abs!AbsNext, Abs!Calls, Abs!Writes, Abs!Reads,
     Calls, Writes, Reads
<1>2. ASSUME NEW p \in Procs, Lock(p) PROVE Abs!AbsNext
  BY <1>2, LockAbs DEF Abs!AbsNext
<1>3. ASSUME NEW p \in Procs, RUnlock(p) PROVE Abs!AbsNext
  BY <1>3, RUnlockAbs DEF Abs!AbsNext
<1>4. ASSUME NEW p \in Procs, Return(p) PROVE Abs!AbsNext
  BY <1>4, ReturnAbs DEF Abs!AbsNext
<1>5. ASSUME NEW p \in Procs,
             Announce(p) \/ RLock(p) \/ EnsureEntry(p) \/ InsertKey(p)
               \/ TrackDone(p) \/ DeleteEntry(p) \/ Unlock(p) \/ VisitEntry(p)
      PROVE  UNCHANGED Abs!absVars
  BY <1>5, AnnounceAbs, RLockAbs, EnsureEntryAbs, InsertKeyAbs, TrackDoneAbs,
     DeleteEntryAbs, UnlockAbs, VisitEntryAbs
<1>6. ASSUME UNCHANGED vars PROVE UNCHANGED Abs!absVars
  BY <1>6 DEF vars, Abs!absVars, Committed, Entry, Answer, Writing
<1> QED
  BY <1>1, <1>2, <1>3, <1>4, <1>5, <1>6 DEF Next

\* Every call of Track, UntrackAll and GetTracking is atomic, whoever else is
\* in one (tracker.go:8): Tracker implements TrackerSpec.
THEOREM Atomicity == Spec => Linearizable
<1>1. Spec => Abs!AbsInit
  BY InitAbs DEF Spec
<1>2. Spec => [][Abs!AbsNext]_(Abs!absVars)
  BY Invariance, NextAbs, PTL DEF Spec
<1> QED
  BY <1>1, <1>2 DEF Linearizable, Abs!AbsSpec

=============================================================================
