------------------------------ MODULE WorkQueue ------------------------------
(***************************************************************************)
(* The work queue as client-go and controller-runtime implement it: a      *)
(* queue with its dirty and processing sets (queue.go), the goroutine that *)
(* adds items after a delay (delaying_queue.go), the backoff of failed     *)
(* items (default_rate_limiters.go) and the workers' loop (controller.go). *)
(*                                                                         *)
(* Times are what is left of a delay, so that Tick counts them down.  The  *)
(* goroutine of the delaying queue pops and receives in any order here,    *)
(* which leaves it more behaviours than its loop has.  Shutting down is    *)
(* the end of the process.                                                 *)
(***************************************************************************)
EXTENDS Integers, Sequences, FiniteSets, SequencesExt

CONSTANTS
  Items,     \* reconcile requests
  Workers,   \* MaxConcurrentReconciles of them
  None,
  Base,      \* the first backoff (100ms, main.go:148)
  MaxDelay,  \* the longest (120s)
  Period,    \* RequeueAfter: the reconciliation interval
  ChanCap    \* capacity of waitingForAddCh (1000)

ASSUME QueueAssumption ==
  /\ Base \in Nat \ {0} /\ MaxDelay \in Nat /\ Base <= MaxDelay
  /\ Period \in Nat \ {0}
  /\ ChanCap \in Nat \ {0}
  /\ None \notin Items \cup Nat
  /\ IsFiniteSet(Workers)

VARIABLES
  queue,       \* Typed.queue
  dirty,       \* Typed.dirty
  processing,  \* Typed.processing
  channel,     \* waitingForAddCh: items with what is left of their delay
  heap,        \* waitingForQueue and waitingEntryByData: one entry an item
  backoff,     \* the delay of an item's next failure (failures, in effect)
  worker       \* what each worker is doing to which item

vars == <<queue, dirty, processing, channel, heap, backoff, worker>>

Delays == 0 .. (IF MaxDelay > Period THEN MaxDelay ELSE Period)
Resting == [pc |-> "idle", item |-> None]

Init == /\ queue = << >> /\ dirty = {} /\ processing = {}
        /\ channel = << >>
        /\ heap = [t \in Items |-> None]
        /\ backoff = [t \in Items |-> Base]
        /\ worker = [k \in Workers |-> Resting]

---------------------------------------------------------------------------
(* Typed: each method is one critical section.                             *)

\* Mutant: an item in process is pushed as well.
AddAtOnce(t) == IF t \in dirty THEN UNCHANGED <<queue, dirty>>
                ELSE dirty' = dirty \cup {t} /\ queue' = Append(queue, t)

Add(t) == IF t \in dirty THEN UNCHANGED <<queue, dirty>>
          ELSE /\ dirty' = dirty \cup {t}
               /\ queue' = IF t \in processing THEN queue ELSE Append(queue, t)

\* An event handler adds an item.
Handle(t) == /\ Add(t)
             /\ UNCHANGED <<processing, channel, heap, backoff, worker>>

\* Mutant: last in, first out.
GetLast(k) ==
  /\ worker[k].pc = "idle" /\ queue # << >>
  /\ LET t == Last(queue) IN
       /\ queue' = Front(queue)
       /\ processing' = processing \cup {t}
       /\ dirty' = dirty \ {t}
       /\ worker' = [worker EXCEPT ![k] = [pc |-> "reconcile", item |-> t]]
  /\ UNCHANGED <<channel, heap, backoff>>

Get(k) ==
  /\ worker[k].pc = "idle" /\ queue # << >>
  /\ LET t == Head(queue) IN
       /\ queue' = Tail(queue)
       /\ processing' = processing \cup {t}
       /\ dirty' = dirty \ {t}
       /\ worker' = [worker EXCEPT ![k] = [pc |-> "reconcile", item |-> t]]
  /\ UNCHANGED <<channel, heap, backoff>>

\* Mutant: what was added while the item was in process is not pushed.
DoneOnly(k) ==
  /\ worker[k].pc = "done"
  /\ processing' = processing \ {worker[k].item}
  /\ worker' = [worker EXCEPT ![k] = Resting]
  /\ UNCHANGED <<queue, dirty, channel, heap, backoff>>

Done(k) ==
  /\ worker[k].pc = "done"
  /\ LET t == worker[k].item IN
       /\ processing' = processing \ {t}
       /\ queue' = IF t \in dirty THEN Append(queue, t) ELSE queue
  /\ worker' = [worker EXCEPT ![k] = Resting]
  /\ UNCHANGED <<dirty, channel, heap, backoff>>

---------------------------------------------------------------------------
(* reconcileHandler: what follows a reconcile.  Done is deferred, so an    *)
(* item that waits again may come back before it.                          *)

Reconciled(k) == /\ worker[k].pc = "reconcile"
                 /\ worker' = [worker EXCEPT ![k].pc = "done"]

AddAfter(t, d) == /\ Len(channel) < ChanCap
                  /\ channel' = Append(channel, [item |-> t, left |-> d])

\* Mutant: no cap.
DoubledAlways(d) == 2 * d

\* When: each failure doubles the delay of the next, up to MaxDelay.
Doubled(d) == IF 2 * d > MaxDelay THEN MaxDelay ELSE 2 * d

Failed(k) ==
  LET t == worker[k].item IN
    /\ Reconciled(k)
    /\ AddAfter(t, backoff[t])
    /\ backoff' = [backoff EXCEPT ![t] = Doubled(@)]
    /\ UNCHANGED <<queue, dirty, processing, heap>>

Requeued(k) ==
  LET t == worker[k].item IN
    /\ Reconciled(k)
    /\ AddAfter(t, Period)
    /\ backoff' = [backoff EXCEPT ![t] = Base]
    /\ UNCHANGED <<queue, dirty, processing, heap>>

Succeeded(k) == /\ Reconciled(k)
                /\ backoff' = [backoff EXCEPT ![worker[k].item] = Base]
                /\ UNCHANGED <<queue, dirty, processing, channel, heap>>

---------------------------------------------------------------------------
(* waitingLoop.                                                            *)

\* Mutant: the latest request counts.
InsertLatest(e) == heap' = [heap EXCEPT ![e.item] = e.left]

\* An item that waits already keeps the earlier time.
InsertEntry(e) ==
  heap' = [heap EXCEPT ![e.item] = IF @ = None \/ @ > e.left THEN e.left ELSE @]

Receive == /\ channel # << >>
           /\ channel' = Tail(channel)
           /\ LET e == Head(channel) IN
                IF e.left > 0
                THEN InsertEntry(e) /\ UNCHANGED <<queue, dirty>>
                ELSE Add(e.item) /\ UNCHANGED heap
           /\ UNCHANGED <<processing, backoff, worker>>

AddReady(t) == /\ heap[t] = 0
               /\ heap' = [heap EXCEPT ![t] = None]
               /\ Add(t)
               /\ UNCHANGED <<processing, channel, backoff, worker>>

Less(d) == IF d = 0 THEN 0 ELSE d - 1

Tick == /\ channel' = [i \in DOMAIN channel |->
                         [channel[i] EXCEPT !.left = Less(@)]]
        /\ heap' = [t \in Items |-> IF heap[t] = None THEN None ELSE Less(heap[t])]
        /\ UNCHANGED <<queue, dirty, processing, backoff, worker>>

---------------------------------------------------------------------------

Next == \/ \E t \in Items : Handle(t) \/ AddReady(t)
        \/ \E k \in Workers : \/ Get(k) \/ Done(k)
                              \/ Failed(k) \/ Requeued(k) \/ Succeeded(k)
        \/ Receive
        \/ Tick

Spec == Init /\ [][Next]_vars

\* A reconcile returns, workers and the delaying goroutine run, time passes.
Fairness == /\ WF_vars(Tick) /\ WF_vars(Receive)
            /\ \A t \in Items : WF_vars(AddReady(t))
            /\ \A k \in Workers : /\ WF_vars(Get(k)) /\ WF_vars(Done(k))
                                  /\ WF_vars(Failed(k) \/ Requeued(k) \/ Succeeded(k))

FairSpec == Spec /\ Fairness

---------------------------------------------------------------------------
(* Properties.                                                             *)

Entries == [item : Items, left : Delays]

TypeOK ==
  /\ queue \in Seq(Items)
  /\ dirty \subseteq Items /\ processing \subseteq Items
  /\ channel \in Seq(Entries) /\ Len(channel) <= ChanCap
  /\ heap \in [Items -> Delays \cup {None}]
  /\ backoff \in [Items -> Delays]
  /\ worker \in [Workers -> [pc : {"idle", "reconcile", "done"}, item : Items \cup {None}]]

\* An item is queued, once, just when it is dirty and nobody processes it:
\* were it missing, no worker would ever see it; were it there while in
\* process, two would process it at once.
QueuedOnce ==
  /\ {queue[i] : i \in DOMAIN queue} = dirty \ processing
  /\ \A i, j \in DOMAIN queue : queue[i] = queue[j] => i = j

\* No two workers have the same item.
OneAtATime == \A k, l \in Workers :
  worker[k].pc # "idle" /\ worker[k].item = worker[l].item => k = l

\* A delay that runs is never made longer by a later request (the hourly
\* requeue after a failed reconcile, say), and ends with an Add.
NeverPostponed == [][\A t \in Items : heap[t] # None =>
                       IF heap'[t] = None THEN t \in dirty' ELSE heap'[t] <= heap[t]]_vars

Due == {t \in Items : heap[t] # None} \cup {channel[i].item : i \in DOMAIN channel}
InHand == {worker[k].item : k \in {l \in Workers : worker[l].pc = "reconcile"}}

Q == INSTANCE QueueSpec WITH current <- InHand, waiting <- Due

\* The queue keeps the promise the reconciler's model relies on: the sets
\* dirty and waiting behave as there, and every item is served, whatever
\* the others do.
KeepsPromise == Q!Promise

=============================================================================
