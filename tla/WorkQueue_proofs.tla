--------------------------- MODULE WorkQueue_proofs ---------------------------
(***************************************************************************)
(* The queue's safety, for any number of items and of workers: an item is  *)
(* queued just when it should be, nobody shares one, and the queue         *)
(* implements the safety part of QueueSpec.                                *)
(*                                                                         *)
(* The inductive invariant says that what a worker holds is in process,    *)
(* and that each holds something of its own.                               *)
(***************************************************************************)
EXTENDS WorkQueue, FiniteSetTheorems, TLAPS

Holders == [pc : {"idle", "reconcile", "done"}, item : Items \cup {None}]

Busy(k) == worker[k].pc # "idle"

Held == /\ \A k \in Workers : IF Busy(k) THEN worker[k].item \in processing
                              ELSE worker[k].item = None
        /\ \A k, l \in Workers : Busy(k) /\ Busy(l) /\ worker[k].item = worker[l].item => k = l

Sets == /\ queue \in Seq(Items)
        /\ dirty \subseteq Items /\ processing \subseteq Items
        /\ worker \in [Workers -> Holders]

QueueInv == Sets /\ Held /\ QueuedOnce

---------------------------------------------------------------------------
(* Sequences without repetition.                                           *)

Elements(s) == {s[i] : i \in DOMAIN s}
Once(s) == \A i, j \in DOMAIN s : s[i] = s[j] => i = j

LEMMA AppendElements ==
  ASSUME NEW s \in Seq(Items), NEW t \in Items
  PROVE  /\ Append(s, t) \in Seq(Items)
         /\ Elements(Append(s, t)) = Elements(s) \cup {t}
         /\ Once(s) /\ t \notin Elements(s) => Once(Append(s, t))
<1> DEFINE r == Append(s, t)
<1>1. /\ r \in Seq(Items) /\ Len(r) = Len(s) + 1
      /\ \A i \in 1 .. Len(s) : r[i] = s[i]
      /\ r[Len(s) + 1] = t
  OBVIOUS
<1>2. DOMAIN s = 1 .. Len(s) /\ DOMAIN r = 1 .. Len(s) + 1 /\ Len(s) \in Nat
  BY <1>1
<1> HIDE DEF r
<1>3. Elements(r) = Elements(s) \cup {t}
  <2>1. Elements(r) \subseteq Elements(s) \cup {t}
    <3> SUFFICES ASSUME NEW i \in DOMAIN r PROVE r[i] \in Elements(s) \cup {t}
      BY DEF Elements
    <3>1. CASE i = Len(s) + 1
      BY <1>1, <3>1
    <3>2. CASE i \in 1 .. Len(s)
      BY <1>1, <1>2, <3>2 DEF Elements
    <3> QED
      BY <1>2, <3>1, <3>2
  <2>2. Elements(s) \subseteq Elements(r)
    <3> SUFFICES ASSUME NEW i \in DOMAIN s PROVE s[i] \in Elements(r)
      BY DEF Elements
    <3>1. i \in DOMAIN r /\ r[i] = s[i]
      BY <1>1, <1>2
    <3> QED
      BY <3>1 DEF Elements
  <2>3. t \in Elements(r)
    <3>1. Len(s) + 1 \in DOMAIN r
      BY <1>2
    <3> QED
      BY <1>1, <3>1 DEF Elements
  <2> QED
    BY <2>1, <2>2, <2>3
<1>4. ASSUME Once(s), t \notin Elements(s) PROVE Once(r)
  <2> SUFFICES ASSUME NEW i \in DOMAIN r, NEW j \in DOMAIN r, r[i] = r[j], i # j
               PROVE  FALSE
    BY DEF Once
  <2>1. \A n \in DOMAIN s : s[n] # t
    BY <1>4 DEF Elements
  <2> QED
    BY <1>1, <1>2, <1>4, <2>1 DEF Once
<1> QED
  BY <1>1, <1>3, <1>4 DEF r

LEMMA TailElements ==
  ASSUME NEW s \in Seq(Items), s # << >>, Once(s)
  PROVE  /\ Head(s) \in Elements(s)
         /\ Tail(s) \in Seq(Items)
         /\ Elements(Tail(s)) = Elements(s) \ {Head(s)}
         /\ Once(Tail(s))
<1> DEFINE r == Tail(s)
<1>1. /\ r \in Seq(Items) /\ Len(r) = Len(s) - 1 /\ Len(s) \in Nat /\ Len(s) > 0
      /\ \A i \in 1 .. Len(s) - 1 : r[i] = s[i + 1]
      /\ Head(s) = s[1]
  OBVIOUS
<1>2. DOMAIN s = 1 .. Len(s) /\ DOMAIN r = 1 .. Len(s) - 1
  BY <1>1
<1> HIDE DEF r
<1>3. Head(s) \in Elements(s)
  <2>1. 1 \in DOMAIN s
    BY <1>1, <1>2
  <2> QED
    BY <1>1, <2>1 DEF Elements
<1>4. Elements(r) = Elements(s) \ {Head(s)}
  <2>1. ASSUME NEW i \in DOMAIN r PROVE r[i] \in Elements(s) \ {Head(s)}
    <3>1. i + 1 \in DOMAIN s /\ i + 1 # 1 /\ 1 \in DOMAIN s /\ r[i] = s[i + 1]
      BY <1>1, <1>2
    <3> QED
      BY <1>1, <3>1 DEF Elements, Once
  <2>2. ASSUME NEW i \in DOMAIN s, s[i] # Head(s) PROVE s[i] \in Elements(r)
    <3>1. i # 1 /\ i - 1 \in DOMAIN r
      BY <1>1, <1>2, <2>2
    <3>2. r[i - 1] = s[i]
      BY <1>1, <1>2, <3>1
    <3> QED
      BY <3>1, <3>2 DEF Elements
  <2> QED
    BY <2>1, <2>2 DEF Elements
<1>5. Once(r)
  <2> SUFFICES ASSUME NEW i \in DOMAIN r, NEW j \in DOMAIN r, r[i] = r[j] PROVE i = j
    BY DEF Once
  <2>1. i + 1 \in DOMAIN s /\ j + 1 \in DOMAIN s
    BY <1>1, <1>2
  <2>2. s[i + 1] = s[j + 1]
    BY <1>1, <1>2
  <2>3. i + 1 = j + 1
    BY <2>1, <2>2 DEF Once
  <2> QED
    BY <1>1, <1>2, <2>3
<1> QED
  BY <1>1, <1>3, <1>4, <1>5 DEF r
---------------------------------------------------------------------------
(* Each method keeps the queue and its sets in step.                       *)

LEMMA QueuedMeans == QueuedOnce <=> Elements(queue) = dirty \ processing /\ Once(queue)
BY DEF QueuedOnce, Elements, Once

LEMMA QueuedMeansNext ==
  QueuedOnce' <=> Elements(queue') = dirty' \ processing' /\ Once(queue')
BY DEF QueuedOnce, Elements, Once

LEMMA AddStep ==
  ASSUME QueueInv, NEW t \in Items, Add(t), UNCHANGED <<processing, worker>>
  PROVE  QueueInv'
<1>1. CASE t \in dirty
  BY <1>1 DEF Add, QueueInv, Sets, Held, QueuedOnce, Busy, Holders
<1>2. CASE t \notin dirty /\ t \in processing
  <2>1. Sets' /\ Held'
    BY <1>2 DEF Add, QueueInv, Sets, Held, Busy, Holders
  <2>2. QueuedOnce'
    BY <1>2, QueuedMeans, QueuedMeansNext DEF Add, QueueInv
  <2> QED
    BY <2>1, <2>2 DEF QueueInv
<1>3. CASE t \notin dirty /\ t \notin processing
  <2>1. Elements(queue) = dirty \ processing /\ Once(queue)
    BY QueuedMeans DEF QueueInv
  <2>2. queue' = Append(queue, t) /\ dirty' = dirty \cup {t}
    BY <1>3 DEF Add
  <2>3. /\ queue' \in Seq(Items)
        /\ Elements(queue') = Elements(queue) \cup {t}
        /\ Once(queue')
    BY <1>3, <2>1, <2>2, AppendElements DEF QueueInv, Sets
  <2>4. QueuedOnce'
    BY <1>3, <2>1, <2>2, <2>3, QueuedMeansNext
  <2>5. Sets' /\ Held'
    BY <2>2, <2>3 DEF QueueInv, Sets, Held, Busy, Holders
  <2> QED
    BY <2>4, <2>5 DEF QueueInv
<1> QED
  BY <1>1, <1>2, <1>3

\* An add is one to QueueSpec, wherever the queue puts the item.
LEMMA AddIsInsert ==
  ASSUME NEW t \in Items, Add(t)
  PROVE  dirty' = dirty \cup {t}
BY DEF Add

LEMMA GetStep ==
  ASSUME QueueInv, NEW k \in Workers, Get(k)
  PROVE  /\ QueueInv'
         /\ Head(queue) \in dirty \ processing
<1> DEFINE t == Head(queue)
<1>1. Elements(queue) = dirty \ processing /\ Once(queue)
  BY QueuedMeans DEF QueueInv
<1>2. /\ t \in dirty \ processing /\ t \in Items
      /\ Tail(queue) \in Seq(Items)
      /\ Elements(Tail(queue)) = (dirty \ processing) \ {t}
      /\ Once(Tail(queue))
  BY <1>1, TailElements DEF Get, QueueInv, Sets
<1>3. /\ queue' = Tail(queue)
      /\ processing' = processing \cup {t}
      /\ dirty' = dirty \ {t}
      /\ worker' = [worker EXCEPT ![k] = [pc |-> "reconcile", item |-> t]]
  BY DEF Get
<1> HIDE DEF t
<1>4. QueuedOnce'
  BY <1>2, <1>3, QueuedMeansNext
<1>5. Sets'
  BY <1>2, <1>3 DEF QueueInv, Sets, Holders
<1>6. Held'
  BY <1>2, <1>3 DEF QueueInv, Sets, Held, Busy, Holders
<1> QED
  BY <1>2, <1>4, <1>5, <1>6 DEF QueueInv, t

LEMMA DoneStep ==
  ASSUME QueueInv, NEW k \in Workers, Done(k)
  PROVE  QueueInv'
<1> DEFINE t == worker[k].item
<1>1. Elements(queue) = dirty \ processing /\ Once(queue)
  BY QueuedMeans DEF QueueInv
<1>2. t \in processing /\ t \in Items /\ worker[k].pc = "done"
  BY DEF Done, QueueInv, Sets, Held, Busy
<1>3. /\ processing' = processing \ {t} /\ dirty' = dirty
      /\ queue' = IF t \in dirty THEN Append(queue, t) ELSE queue
      /\ worker' = [worker EXCEPT ![k] = Resting]
  BY DEF Done
<1>4. Held'
  BY <1>2, <1>3 DEF QueueInv, Sets, Held, Busy, Holders, Resting
<1>5. Resting \in Holders
  BY DEF Resting, Holders
<1> HIDE DEF t
<1>6. CASE t \in dirty
  <2>1. /\ queue' \in Seq(Items)
        /\ Elements(queue') = Elements(queue) \cup {t} /\ Once(queue')
    BY <1>1, <1>2, <1>3, <1>6, AppendElements DEF QueueInv, Sets
  <2>2. QueuedOnce'
    BY <1>1, <1>2, <1>3, <1>6, <2>1, QueuedMeansNext
  <2>3. Sets'
    BY <1>3, <1>5, <2>1 DEF QueueInv, Sets
  <2> QED
    BY <1>4, <2>2, <2>3 DEF QueueInv
<1>7. CASE t \notin dirty
  <2>1. QueuedOnce'
    BY <1>1, <1>3, <1>7, QueuedMeansNext
  <2>2. Sets'
    BY <1>3, <1>5, <1>7 DEF QueueInv, Sets
  <2> QED
    BY <1>4, <2>1, <2>2 DEF QueueInv
<1> QED
  BY <1>6, <1>7

\* A reconcile that ends leaves the queue alone.
LEMMA ReconciledStep ==
  ASSUME QueueInv, NEW k \in Workers, Reconciled(k), UNCHANGED <<queue, dirty, processing>>
  PROVE  QueueInv'
<1>1. Sets'
  BY DEF QueueInv, Sets, Reconciled, Holders
<1>2. Held'
  BY DEF QueueInv, Sets, Held, Reconciled, Holders, Busy
<1>3. QueuedOnce'
  BY DEF QueueInv, QueuedOnce
<1> QED
  BY <1>1, <1>2, <1>3 DEF QueueInv

LEMMA StillStep ==
  ASSUME QueueInv, UNCHANGED <<queue, dirty, processing, worker>>
  PROVE  QueueInv'
BY DEF QueueInv, Sets, Held, QueuedOnce, Busy, Holders
---------------------------------------------------------------------------
(* The delays.                                                             *)

Times == /\ channel \in Seq(Entries) /\ Len(channel) <= ChanCap
         /\ heap \in [Items -> Delays \cup {None}]
         /\ backoff \in [Items -> Delays]

LEMMA DelaysAre ==
  /\ Base \in Delays /\ Period \in Delays /\ 0 \in Delays
  /\ \A d \in Delays : d \in Nat /\ Doubled(d) \in Delays /\ Less(d) \in Delays
BY QueueAssumption DEF Delays, Doubled, Less

LEMMA WorkerItem ==
  ASSUME QueueInv, NEW k \in Workers, Busy(k)
  PROVE  worker[k].item \in Items
BY DEF QueueInv, Sets, Held

LEMMA AddAfterTimes ==
  ASSUME Times, NEW t \in Items, NEW d \in Delays, AddAfter(t, d)
  PROVE  channel' \in Seq(Entries) /\ Len(channel') <= ChanCap
<1> DEFINE e == [item |-> t, left |-> d]
<1>1. e \in Entries
  BY DEF Entries
<1> HIDE DEF e
<1>2. channel' = Append(channel, e) /\ Len(channel) < ChanCap
  BY DEF AddAfter, e
<1> QED
  BY <1>1, <1>2, QueueAssumption DEF Times

LEMMA TimesStep == QueueInv /\ Times /\ [Next]_vars => Times'
<1> SUFFICES ASSUME QueueInv, Times, [Next]_vars PROVE Times'
  OBVIOUS
<1>1. ASSUME NEW t \in Items, Handle(t) PROVE Times'
  BY <1>1 DEF Handle, Times
<1>2. ASSUME NEW t \in Items, AddReady(t) PROVE Times'
  BY <1>2 DEF AddReady, Times
<1>3. ASSUME NEW k \in Workers, Get(k) \/ Done(k) \/ Succeeded(k) PROVE Times'
  BY <1>3, DelaysAre DEF Get, Done, Succeeded, Times
<1>4. ASSUME NEW k \in Workers, Failed(k) PROVE Times'
  <2> DEFINE t == worker[k].item
  <2>1. t \in Items
    BY <1>4, WorkerItem DEF Failed, Reconciled, Busy
  <2>2. backoff[t] \in Delays /\ AddAfter(t, backoff[t])
    BY <1>4, <2>1 DEF Failed, Times
  <2>3. backoff' \in [Items -> Delays]
    BY <1>4, <2>1, <2>2, DelaysAre DEF Failed, Times
  <2> HIDE DEF t
  <2> QED
    BY <1>4, <2>1, <2>2, <2>3, AddAfterTimes DEF Failed, Times
<1>5. ASSUME NEW k \in Workers, Requeued(k) PROVE Times'
  <2> DEFINE t == worker[k].item
  <2>1. t \in Items
    BY <1>5, WorkerItem DEF Requeued, Reconciled, Busy
  <2>2. AddAfter(t, Period) /\ backoff' \in [Items -> Delays]
    BY <1>5, <2>1, DelaysAre DEF Requeued, Times
  <2> HIDE DEF t
  <2> QED
    BY <1>5, <2>1, <2>2, DelaysAre, AddAfterTimes DEF Requeued, Times
<1>6. CASE Receive
  <2>1. channel' \in Seq(Entries) /\ Len(channel') <= ChanCap /\ Head(channel) \in Entries
    BY <1>6, QueueAssumption DEF Receive, Times
  <2>2. heap' \in [Items -> Delays \cup {None}]
    <3>1. CASE UNCHANGED heap
      BY <3>1 DEF Times
    <3>2. CASE InsertEntry(Head(channel))
      BY <2>1, <3>2 DEF InsertEntry, Times, Entries
    <3> QED
      BY <1>6, <3>1, <3>2 DEF Receive
  <2> QED
    BY <1>6, <2>1, <2>2 DEF Receive, Times
<1>7. CASE Tick
  <2>1. heap' \in [Items -> Delays \cup {None}]
    BY <1>7, DelaysAre DEF Tick, Times
  <2>2. ASSUME NEW e \in Entries PROVE [e EXCEPT !.left = Less(@)] \in Entries
    BY DelaysAre DEF Entries
  <2>3. channel' \in Seq(Entries) /\ Len(channel') = Len(channel)
    BY <1>7, <2>2, SMTT(30) DEF Tick, Times
  <2> QED
    BY <1>7, <2>1, <2>3 DEF Tick, Times
<1>8. CASE UNCHANGED vars
  BY <1>8 DEF vars, Times
<1> QED
  BY <1>1, <1>2, <1>3, <1>4, <1>5, <1>6, <1>7, <1>8 DEF Next

---------------------------------------------------------------------------

LEMMA QueueStep == QueueInv /\ Times /\ [Next]_vars => QueueInv'
<1> SUFFICES ASSUME QueueInv, Times, [Next]_vars PROVE QueueInv'
  OBVIOUS
<1>1. ASSUME NEW t \in Items, Handle(t) PROVE QueueInv'
  BY <1>1, AddStep DEF Handle
<1>2. ASSUME NEW t \in Items, AddReady(t) PROVE QueueInv'
  BY <1>2, AddStep DEF AddReady
<1>3. ASSUME NEW k \in Workers, Get(k) PROVE QueueInv'
  BY <1>3, GetStep
<1>4. ASSUME NEW k \in Workers, Done(k) PROVE QueueInv'
  BY <1>4, DoneStep
<1>5. ASSUME NEW k \in Workers, Failed(k) \/ Requeued(k) \/ Succeeded(k) PROVE QueueInv'
  BY <1>5, ReconciledStep DEF Failed, Requeued, Succeeded
<1>6. CASE Receive
  <2>1. Head(channel) \in Entries
    BY <1>6 DEF Receive, Times
  <2>2. Head(channel).item \in Items
    BY <2>1 DEF Entries
  <2> QED
    BY <1>6, <2>2, AddStep, StillStep DEF Receive
<1>7. CASE Tick \/ UNCHANGED vars
  BY <1>7, StillStep DEF Tick, vars
<1> QED
  BY <1>1, <1>2, <1>3, <1>4, <1>5, <1>6, <1>7 DEF Next

LEMMA QueueInit == Init => QueueInv /\ Times
<1> SUFFICES ASSUME Init PROVE QueueInv /\ Times
  OBVIOUS
<1>1. Sets /\ QueuedOnce
  BY DEF Init, Sets, QueuedOnce, Resting, Holders
<1>2. Held
  BY DEF Init, Held, Busy, Resting
<1>3. Times
  BY DelaysAre, QueueAssumption DEF Init, Times
<1> QED
  BY <1>1, <1>2, <1>3 DEF QueueInv

LEMMA QueueInvariant == Spec => [](QueueInv /\ Times)
BY QueueInit, QueueStep, TimesStep, PTL DEF Spec

---------------------------------------------------------------------------

\* The queue, its sets and its delays keep their types.
THEOREM QueueTypeCorrect == Spec => []TypeOK
<1>1. QueueInv /\ Times => TypeOK
  BY DEF QueueInv, Sets, Times, TypeOK, Holders
<1> QED
  BY <1>1, QueueInvariant, PTL

\* An item is queued, and once, just when it is to be processed and nobody
\* processes it.
THEOREM NeverLostNorDoubled == Spec => []QueuedOnce
<1>1. QueueInv => QueuedOnce
  BY DEF QueueInv
<1> QED
  BY <1>1, QueueInvariant, PTL

\* Two workers never reconcile the same item at the same time.
THEOREM NeverShared == Spec => []OneAtATime
<1>1. QueueInv => OneAtATime
  <2> SUFFICES ASSUME QueueInv, NEW k \in Workers, NEW l \in Workers,
                      worker[k].pc # "idle", worker[k].item = worker[l].item
               PROVE  k = l
    BY DEF OneAtATime
  <2>1. CASE Busy(l)
    BY <2>1 DEF QueueInv, Held, Busy
  <2>2. CASE ~Busy(l)
    BY <2>2, QueueAssumption DEF QueueInv, Sets, Held, Busy
  <2> QED
    BY <2>1, <2>2
<1> QED
  BY <1>1, QueueInvariant, PTL
\* A delay that runs is only shortened, and ends with an Add.
THEOREM DelaysShorten == Spec => NeverPostponed
<1> DEFINE Kept(t) == heap[t] # None =>
                        IF heap'[t] = None THEN t \in dirty' ELSE heap'[t] <= heap[t]
<1>1. ASSUME Times, [Next]_vars PROVE [\A t \in Items : Kept(t)]_vars
  <2> SUFFICES ASSUME Times, Next, NEW t \in Items, heap[t] # None
               PROVE  IF heap'[t] = None THEN t \in dirty' ELSE heap'[t] <= heap[t]
    BY <1>1
  <2>1. heap[t] \in Nat /\ heap \in [Items -> Delays \cup {None}]
    BY DelaysAre DEF Times
  <2>2. CASE UNCHANGED heap
    BY <2>1, <2>2
  <2>3. ASSUME NEW u \in Items, AddReady(u) PROVE Kept(t)
    <3>1. CASE u = t
      BY <2>1, <2>3, <3>1, AddIsInsert DEF AddReady
    <3>2. CASE u # t
      BY <2>1, <2>3, <3>2 DEF AddReady
    <3> QED
      BY <3>1, <3>2
  <2>4. CASE InsertEntry(Head(channel)) /\ channel # << >>
    <3>1. Head(channel) \in Entries
      BY <2>4 DEF Times
    <3>2. Head(channel).left \in Nat
      BY <3>1, DelaysAre DEF Entries
    <3> QED
      BY <2>1, <2>4, <3>2, QueueAssumption DEF InsertEntry
  <2>5. CASE Tick
    BY <2>1, <2>5, QueueAssumption DEF Tick, Less
  <2> QED
    BY <2>2, <2>3, <2>4, <2>5
    DEF Next, Handle, Get, Done, Failed, Requeued, Succeeded, Receive
<1> QED
  BY <1>1, QueueInvariant, PTL DEF Spec, NeverPostponed

---------------------------------------------------------------------------
(* The queue implements QueueSpec, up to fairness.                         *)

LEMMA InHandHeld ==
  ASSUME QueueInv
  PROVE  InHand \subseteq processing /\ InHand \subseteq Items
BY DEF QueueInv, Held, Sets, InHand, Busy

\* A worker that rests leaves room for one more item.
LEMMA RoomForOne ==
  ASSUME QueueInv, NEW k \in Workers, worker[k].pc = "idle"
  PROVE  Cardinality(InHand) < Cardinality(Workers)
<1> DEFINE B == {l \in Workers : worker[l].pc = "reconcile"}
           f == [l \in B |-> worker[l].item]
<1>1. IsFiniteSet(B) /\ Cardinality(B) <= Cardinality(Workers) - 1
  <2>1. IsFiniteSet(Workers)
    BY QueueAssumption
  <2>2. /\ IsFiniteSet(Workers \ {k})
        /\ Cardinality(Workers \ {k}) = Cardinality(Workers) - 1
    BY <2>1, FS_RemoveElement
  <2>3. B \subseteq Workers \ {k}
    OBVIOUS
  <2> QED
    BY <2>2, <2>3, FS_Subset
<1>2. f \in Surjection(B, InHand)
  BY DEF Surjection, InHand
<1>3. Cardinality(InHand) <= Cardinality(B) /\ IsFiniteSet(InHand)
  BY <1>1, <1>2, FS_Surjection
<1>4. /\ Cardinality(InHand) \in Nat /\ Cardinality(B) \in Nat
      /\ Cardinality(Workers) \in Nat
  BY <1>1, <1>3, FS_CardinalityType, QueueAssumption
<1> QED
  BY <1>1, <1>3, <1>4

\* Cardinality, as the instance of QueueSpec has it, is Cardinality.
LEMMA SameCardinality ==
  ASSUME NEW S
  PROVE  Q!Cardinality(S) = Cardinality(S)
BY DEF Cardinality, Q!Cardinality

LEMMA QueueInitSpec == Init => Q!SpecInit
BY DEF Init, Resting, Q!SpecInit, InHand, Due

\* What a reconcile leaves behind: its item is in hand no more.
LEMMA ReleasedItem ==
  ASSUME QueueInv, NEW k \in Workers, Reconciled(k)
  PROVE  /\ worker[k].item \in InHand
         /\ InHand' = InHand \ {worker[k].item}
<1>1. worker' = [worker EXCEPT ![k].pc = "done"] /\ worker[k].pc = "reconcile"
  BY DEF Reconciled
<1>2. \A l \in Workers : worker'[l].item = worker[l].item
                         /\ worker'[l].pc = IF l = k THEN "done" ELSE worker[l].pc
  BY <1>1 DEF QueueInv, Sets, Holders
<1>3. \A l \in Workers : worker[l].pc = "reconcile" /\ worker[l].item = worker[k].item => l = k
  BY <1>1 DEF QueueInv, Held, Busy
<1> QED
  BY <1>1, <1>2, <1>3 DEF InHand

\* An item appended to the channel is due, and no other is more so.
LEMMA AppendDue ==
  ASSUME Times, NEW t \in Items, NEW d \in Delays, AddAfter(t, d), UNCHANGED heap
  PROVE  Due' = Due \cup {t}
<1> DEFINE e == [item |-> t, left |-> d]
<1>1. e \in Entries /\ e.item = t
  BY DEF Entries
<1> HIDE DEF e
<1>2. channel' = Append(channel, e)
  BY DEF AddAfter, e
<1>3. /\ DOMAIN channel = 1 .. Len(channel) /\ Len(channel) \in Nat
      /\ DOMAIN channel' = 1 .. Len(channel) + 1
      /\ \A i \in 1 .. Len(channel) : channel'[i] = channel[i]
      /\ channel'[Len(channel) + 1] = e
  BY <1>1, <1>2 DEF Times
<1>4. {channel'[i].item : i \in DOMAIN channel'}
        = {channel[i].item : i \in DOMAIN channel} \cup {t}
  <2>1. ASSUME NEW i \in DOMAIN channel'
        PROVE  channel'[i].item \in {channel[n].item : n \in DOMAIN channel} \cup {t}
    <3>1. i = Len(channel) + 1 \/ i \in DOMAIN channel
      BY <1>3
    <3> QED
      BY <1>1, <1>3, <3>1
  <2>2. ASSUME NEW i \in DOMAIN channel
        PROVE  channel[i].item \in {channel'[n].item : n \in DOMAIN channel'}
    <3>1. i \in DOMAIN channel' /\ channel'[i] = channel[i]
      BY <1>3
    <3> QED
      BY <3>1
  <2>3. t \in {channel'[n].item : n \in DOMAIN channel'}
    <3>1. Len(channel) + 1 \in DOMAIN channel'
      BY <1>3
    <3> QED
      BY <1>1, <1>3, <3>1
  <2> QED
    BY <2>1, <2>2, <2>3
<1> QED
  BY <1>4 DEF Due
\* What was received is due only as the heap, or what is left, says.
LEMMA TailDue ==
  ASSUME Times, channel # << >>, channel' = Tail(channel)
  PROVE  /\ Head(channel) \in Entries
         /\ {channel[i].item : i \in DOMAIN channel}
              = {channel'[i].item : i \in DOMAIN channel'} \cup {Head(channel).item}
<1>1. /\ Head(channel) \in Entries /\ Head(channel) = channel[1]
      /\ DOMAIN channel = 1 .. Len(channel) /\ Len(channel) \in Nat /\ Len(channel) > 0
      /\ DOMAIN channel' = 1 .. Len(channel) - 1
      /\ \A i \in 1 .. Len(channel) - 1 : channel'[i] = channel[i + 1]
  BY DEF Times
<1>2. ASSUME NEW i \in DOMAIN channel
      PROVE  channel[i].item \in {channel'[n].item : n \in DOMAIN channel'}
                                   \cup {Head(channel).item}
  <2>1. CASE i = 1
    BY <1>1, <2>1
  <2>2. CASE i # 1
    <3>1. i - 1 \in DOMAIN channel' /\ channel'[i - 1] = channel[i]
      BY <1>1, <2>2
    <3> QED
      BY <3>1
  <2> QED
    BY <2>1, <2>2
<1>3. ASSUME NEW i \in DOMAIN channel'
      PROVE  channel'[i].item \in {channel[n].item : n \in DOMAIN channel}
  <2>1. i + 1 \in DOMAIN channel /\ channel'[i] = channel[i + 1]
    BY <1>1
  <2> QED
    BY <2>1
<1>4. Head(channel).item \in {channel[n].item : n \in DOMAIN channel}
  <2>1. 1 \in DOMAIN channel
    BY <1>1
  <2> QED
    BY <1>1, <2>1
<1> QED
  BY <1>1, <1>2, <1>3, <1>4

LEMMA ReceiveIsExpire ==
  ASSUME QueueInv, Times, Receive
  PROVE  Q!SpecNext \/ UNCHANGED Q!specVars
<1> DEFINE e == Head(channel)
           before == {channel[i].item : i \in DOMAIN channel}
           after == {channel'[i].item : i \in DOMAIN channel'}
<1>1. e \in Entries /\ before = after \cup {e.item} /\ e.item \in Items /\ e.left \in Nat
  BY TailDue, DelaysAre DEF Receive, Entries
<1>2. InHand' = InHand
  BY DEF Receive, InHand
<1>3. /\ Due = {t \in Items : heap[t] # None} \cup before
      /\ Due' = {t \in Items : heap'[t] # None} \cup after
  BY DEF Due
<1> HIDE DEF before, after
<1>4. CASE e.left > 0
  <2>1. InsertEntry(e) /\ UNCHANGED dirty
    BY <1>4 DEF Receive
  <2>2. heap'[e.item] # None
    BY <1>1, <2>1, QueueAssumption, DelaysAre DEF InsertEntry, Times
  <2>3. \A t \in Items : t # e.item => heap'[t] = heap[t]
    BY <2>1 DEF InsertEntry, Times
  <2>4. Due' = Due
    BY <1>1, <1>3, <2>2, <2>3
  <2> QED
    BY <1>2, <2>1, <2>4 DEF Q!specVars
<1>5. CASE ~(e.left > 0)
  <2>1. Add(e.item) /\ UNCHANGED heap
    BY <1>5 DEF Receive
  <2>2. Due' \in {Due, Due \ {e.item}} /\ e.item \in Due
    BY <1>1, <1>3, <2>1
  <2>3. Q!Expire(e.item)
    BY <1>1, <1>2, <2>1, <2>2, AddIsInsert DEF Q!Expire
  <2> QED
    BY <1>1, <2>3 DEF Q!SpecNext
<1> QED
  BY <1>4, <1>5

LEMMA QueueNextSpec ==
  ASSUME QueueInv, Times, [Next]_vars
  PROVE  Q!SpecNext \/ UNCHANGED Q!specVars
<1>1. ASSUME NEW t \in Items, Handle(t) PROVE Q!SpecNext
  <2>1. dirty' = dirty \cup {t} /\ InHand' = InHand /\ Due' = Due
    BY <1>1, AddIsInsert DEF Handle, InHand, Due
  <2>2. Q!Insert(t)
    BY <2>1 DEF Q!Insert
  <2> QED
    BY <2>2 DEF Q!SpecNext
<1>2. ASSUME NEW t \in Items, AddReady(t) PROVE Q!SpecNext
  <2>1. /\ heap[t] # None /\ channel' = channel
        /\ heap' = [heap EXCEPT ![t] = None] /\ heap \in [Items -> Delays \cup {None}]
    BY <1>2, QueueAssumption DEF AddReady, Times
  <2>2. {u \in Items : heap'[u] # None} = {u \in Items : heap[u] # None} \ {t}
    BY <2>1
  <2>3. Due' \in {Due, Due \ {t}} /\ t \in Due
    BY <2>1, <2>2 DEF Due
  <2>4. dirty' = dirty \cup {t} /\ InHand' = InHand
    BY <1>2, AddIsInsert DEF AddReady, InHand
  <2>5. Q!Expire(t)
    BY <2>3, <2>4 DEF Q!Expire
  <2> QED
    BY <2>5 DEF Q!SpecNext
<1>3. ASSUME NEW k \in Workers, Get(k) PROVE Q!SpecNext
  <2> DEFINE t == Head(queue)
  <2>1. t \in dirty \ processing /\ t \in Items
    BY <1>3, GetStep DEF QueueInv, Sets
  <2>2. t \notin InHand
    BY <2>1, InHandHeld
  <2>3. Cardinality(InHand) < Cardinality(Workers)
    BY <1>3, RoomForOne DEF Get
  <2>4. /\ dirty' = dirty \ {t} /\ Due' = Due
        /\ worker' = [worker EXCEPT ![k] = [pc |-> "reconcile", item |-> t]]
        /\ worker[k].pc = "idle"
    BY <1>3 DEF Get, Due
  <2> HIDE DEF t
  <2>5. /\ worker'[k] = [pc |-> "reconcile", item |-> t]
        /\ \A l \in Workers : l # k => worker'[l] = worker[l]
    BY <2>4 DEF QueueInv, Sets
  <2>6. InHand' = InHand \cup {t}
    BY <2>4, <2>5 DEF InHand
  <2>7. Q!Take(t)
    BY <2>1, <2>2, <2>3, <2>4, <2>6, SameCardinality DEF Q!Take
  <2> QED
    BY <2>1, <2>7 DEF Q!SpecNext
<1>4. ASSUME NEW k \in Workers, Done(k) PROVE UNCHANGED Q!specVars
  <2>1. /\ worker[k].pc = "done" /\ worker' = [worker EXCEPT ![k] = Resting]
        /\ dirty' = dirty /\ Due' = Due
    BY <1>4 DEF Done, Due
  <2>2. worker'[k].pc = "idle" /\ \A l \in Workers : l # k => worker'[l] = worker[l]
    BY <2>1 DEF QueueInv, Sets, Resting
  <2>3. InHand' = InHand
    BY <2>1, <2>2 DEF InHand
  <2> QED
    BY <2>1, <2>3 DEF Q!specVars
<1>5. ASSUME NEW k \in Workers, Failed(k) \/ Requeued(k) \/ Succeeded(k) PROVE Q!SpecNext
  <2> DEFINE t == worker[k].item
  <2>1. Reconciled(k) /\ dirty' = dirty
    BY <1>5 DEF Failed, Requeued, Succeeded
  <2>2. t \in Items /\ t \in InHand /\ InHand' = InHand \ {t}
    BY <2>1, WorkerItem, ReleasedItem DEF Reconciled, Busy
  <2>3. Due' \in {Due, Due \cup {t}}
    <3>1. CASE Succeeded(k)
      BY <3>1 DEF Succeeded, Due
    <3>2. CASE Failed(k)
      <4>1. backoff[t] \in Delays /\ AddAfter(t, backoff[t]) /\ UNCHANGED heap
        BY <2>2, <3>2 DEF Failed, Times
      <4> HIDE DEF t
      <4> QED
        BY <2>2, <4>1, AppendDue
    <3>3. CASE Requeued(k)
      <4>1. Period \in Delays /\ AddAfter(t, Period) /\ UNCHANGED heap
        BY <3>3, DelaysAre DEF Requeued
      <4> HIDE DEF t
      <4> QED
        BY <2>2, <4>1, AppendDue
    <3> QED
      BY <1>5, <3>1, <3>2, <3>3
  <2> HIDE DEF t
  <2>4. \E later \in BOOLEAN : Q!Release(t, later)
    <3>1. CASE Due' = Due
      BY <2>1, <2>2, <3>1 DEF Q!Release
    <3>2. CASE Due' = Due \cup {t}
      BY <2>1, <2>2, <3>2 DEF Q!Release
    <3> QED
      BY <2>3, <3>1, <3>2
  <2> QED
    BY <2>2, <2>4 DEF Q!SpecNext
<1>6. CASE Tick
  <2>1. /\ dirty' = dirty /\ InHand' = InHand
    BY <1>6 DEF Tick, InHand
  <2>2. \A t \in Items : heap'[t] = None <=> heap[t] = None
    BY <1>6, DelaysAre, QueueAssumption DEF Tick, Times
  <2>3. /\ DOMAIN channel' = DOMAIN channel
        /\ \A i \in DOMAIN channel : channel'[i].item = channel[i].item
    <3>1. ASSUME NEW x \in Entries PROVE [x EXCEPT !.left = Less(@)].item = x.item
      BY DEF Entries
    <3>2. /\ DOMAIN channel' = DOMAIN channel
          /\ \A i \in DOMAIN channel : /\ channel[i] \in Entries
                                       /\ channel'[i] = [channel[i] EXCEPT !.left = Less(@)]
      BY <1>6 DEF Tick, Times
    <3> QED
      BY <3>1, <3>2
  <2>4. Due' = Due
    BY <2>2, <2>3 DEF Due
  <2> QED
    BY <2>1, <2>4 DEF Q!specVars
<1>7. CASE UNCHANGED vars
  BY <1>7 DEF vars, Q!specVars, InHand, Due
<1> QED
  BY <1>1, <1>2, <1>3, <1>4, <1>5, <1>6, <1>7, ReceiveIsExpire DEF Next

\* Every behaviour of the queue is one of QueueSpec: never twice in process,
\* never an add forgotten.
THEOREM SafelyImplements == Spec => Q!SafeSpec
<1>1. Spec => Q!SpecInit
  BY QueueInitSpec DEF Spec
<1>2. Spec => [][Q!SpecNext]_(Q!specVars)
  BY QueueInvariant, QueueNextSpec, PTL DEF Spec
<1> QED
  BY <1>1, <1>2 DEF Q!SafeSpec

=============================================================================
