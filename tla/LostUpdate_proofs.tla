--------------------------- MODULE LostUpdate_proofs ---------------------------
(***************************************************************************)
(* Proof that the window between the read of an input and Track is the     *)
(* only way to lose a change of an input, for any SecretTemplates, chains  *)
(* of inputs, users, faults, restarts and delays.                          *)
(*                                                                         *)
(* From the step TrackInputs on, unless the history variable marks a race, *)
(* each input the worker has read is tracked and either holds what was     *)
(* read or has an event on its way (Watched).  A change sends an event; an *)
(* event of a tracked Secret queues the SecretTemplate when it is          *)
(* delivered; a restart queues everything.  So at rest what was read is    *)
(* what is there (Followed, on top of the invariants of Settled_proofs).   *)
(***************************************************************************)
EXTENDS LostUpdate, Settled_proofs, WellFoundedInduction

\* What the worker has read is among its keys, and only Secrets without a
\* ServiceAccount.
Noted ==
  w.pc \in {"inputs", "untrack", "track", "lookup", "write"} =>
    \A i \in 1 .. Len(w.got) :
      /\ InputName(w.tm.spec, w.got, i) \in w.keys
      /\ w.tm.spec.sa \/ w.tm.spec.refs[i].kind = "Secret"

\* The inputs of sp, which were read as vals, are among the names tracked,
\* and any that differs by now has an event in the stream.
Watched(tracked, watch, store, sp, vals) ==
  \A i \in DOMAIN sp.refs :
    LET n == InputName(sp, vals, i) IN
      /\ sp.refs[i].kind = "Secret"
      /\ n \in tracked
      /\ Silent(watch, n) => store[n] # None /\ store[n].data = vals[i]

Sighted ==
  w.pc \in {"lookup", "write"} /\ ~w.tm.spec.sa /\ w.item \notin dirty \cup raced
    => /\ Len(w.got) = Len(w.tm.spec.refs)
       /\ Watched(tracker[w.item], sWatch, secret, w.tm.spec, w.got)
       /\ w.pc = "write" => w.cand.data = Render(w.tm.spec.tmpl, w.got)

Followed == \A t \in Templates :
  Rest(t) /\ ~tCache[t].spec.sa /\ t \notin raced =>
    \E vals \in [DOMAIN tCache[t].spec.refs -> Values] :
      /\ Watched(tracker[t], sWatch, secret, tCache[t].spec, vals)
      /\ Silent(sWatch, t) => secret[t].data = Render(tCache[t].spec.tmpl, vals)

\* What a step makes of the history.
Marked == raced' = IF At("track") /\ w'.pc \notin {"track", "idle"}
                   THEN IF Missed THEN raced \cup {w.item} ELSE raced \ {w.item}
                   ELSE raced

LEMMA RacedStep == [RacedNext]_<<vars, raced>> => [Next]_vars /\ Marked
<1>1. RacedNext => Next /\ Marked
  BY DEF RacedNext, Marked
<1>2. UNCHANGED <<vars, raced>> => UNCHANGED vars /\ Marked
  BY DEF Marked, vars, ctrlVars, At
<1> QED
  BY <1>1, <1>2

---------------------------------------------------------------------------
(* What is read.                                                           *)

LEMMA NamesAppend ==
  ASSUME NEW sp, NEW got \in Seq(Values), NEW v \in Values
  PROVE  /\ Len(Append(got, v)) = Len(got) + 1
         /\ \A i \in 1 .. Len(got) : InputName(sp, Append(got, v), i) = InputName(sp, got, i)
         /\ InputName(sp, Append(got, v), Len(got) + 1) =
              IF sp.refs[Len(got) + 1].name # None THEN sp.refs[Len(got) + 1].name
              ELSE IF got = << >> THEN None ELSE NameIn(got[Len(got)])
<1>1. /\ Len(got) \in Nat /\ Len(Append(got, v)) = Len(got) + 1
      /\ \A i \in 1 .. Len(got) : Append(got, v)[i] = got[i]
      /\ got = << >> <=> Len(got) = 0
  OBVIOUS
<1>2. ASSUME NEW i \in 1 .. Len(got)
      PROVE  InputName(sp, Append(got, v), i) = InputName(sp, got, i)
  <2>1. CASE i = 1
    BY <2>1 DEF InputName
  <2>2. CASE i # 1
    <3>1. i - 1 \in 1 .. Len(got)
      BY <1>1, <2>2
    <3> QED
      BY <1>1, <3>1 DEF InputName
  <2> QED
    BY <2>1, <2>2
<1>3. CASE got = << >>
  BY <1>1, <1>2, <1>3 DEF InputName
<1>4. CASE got # << >>
  <2>1. Len(got) + 1 # 1 /\ (Len(got) + 1) - 1 = Len(got) /\ Len(got) \in 1 .. Len(got)
    BY <1>1, <1>4
  <2> QED
    BY <1>1, <1>2, <1>4, <2>1 DEF InputName
<1> QED
  BY <1>3, <1>4

LEMMA NotedKept ==
  ASSUME Noted, w.pc \in {"inputs", "untrack", "track", "lookup", "write"},
         w'.tm = w.tm, w'.got = w.got, w'.keys = w.keys
  PROVE  Noted'
BY DEF Noted

LEMMA NotedStep ==
  ASSUME WInv, IInv', Noted, [Next]_vars
  PROVE  Noted'
<1>0. IInv /\ w \in Workers
  BY Holds DEF WInv
<1>1. CASE Aside
  BY <1>1 DEF Aside, Noted
<1>2. ASSUME NEW t \in Templates, Get(t) PROVE Noted'
  <2>1. w'.pc = "fetch"
    BY <1>0, <1>2 DEF Get, Workers
  <2> QED
    BY <2>1 DEF Noted
<1>3. CASE Restart \/ Finish
  <2>1. w' = Idle
    BY <1>3 DEF Restart, Finish
  <2>2. w'.pc = "idle"
    BY <2>1 DEF Idle
  <2> QED
    BY <2>2 DEF Noted
<1>4. CASE CheckAge \/ LoadClient
  <2>1. w.pc \in {"age", "client"} /\ w.got = << >>
    BY <1>0, <1>4, Holds DEF CheckAge, LoadClient, At
  <2>2. w'.got = << >>
    BY <1>0, <1>4, <2>1 DEF CheckAge, LoadClient, Goto, Workers
  <2>3. 1 .. Len(w'.got) = {}
    BY <2>2
  <2> QED
    BY <2>3 DEF Noted
<1>5. CASE ReadInput
  <2>1. /\ Reading /\ w.pc = "inputs" /\ w.got \in Seq(Values) /\ Live \in Values
        /\ Len(w.got) \in Nat
    BY <1>0, <1>5, ReadingFacts, LiveFacts DEF ReadInput, Workers
  <2>2. /\ w'.tm = w.tm /\ w'.got = Append(w.got, Live)
        /\ w'.keys = w.keys \cup {RefName}
    BY <1>0, <1>5 DEF ReadInput, Workers
  <2> DEFINE sp == w.tm.spec
             all == Append(w.got, Live)
  <2>0. /\ Len(all) = Len(w.got) + 1
        /\ \A i \in 1 .. Len(w.got) : InputName(sp, all, i) = InputName(sp, w.got, i)
        /\ InputName(sp, all, Len(w.got) + 1) =
             IF sp.refs[Len(w.got) + 1].name # None THEN sp.refs[Len(w.got) + 1].name
             ELSE IF w.got = << >> THEN None ELSE NameIn(w.got[Len(w.got)])
    BY <2>1, NamesAppend
  <2>3. RefName = InputName(sp, all, Len(w.got) + 1)
    BY <2>0 DEF RefName, Ref, Spec1
  <2>4. w.tm.spec.sa \/ w.tm.spec.refs[Len(w.got) + 1].kind = "Secret"
    BY <1>5 DEF ReadInput, Allowed, Ref, Spec1
  <2>5. ASSUME NEW i \in 1 .. Len(w'.got)
        PROVE  /\ InputName(w'.tm.spec, w'.got, i) \in w'.keys
               /\ w'.tm.spec.sa \/ w'.tm.spec.refs[i].kind = "Secret"
    <3>1. CASE i \in 1 .. Len(w.got)
      <4>1. InputName(w.tm.spec, w'.got, i) = InputName(w.tm.spec, w.got, i)
        BY <2>0, <2>2, <3>1
      <4> QED
        BY <2>1, <2>2, <3>1, <4>1 DEF Noted
    <3>2. CASE i = Len(w.got) + 1
      BY <2>2, <2>3, <2>4, <3>2
    <3>3. Len(w'.got) = Len(w.got) + 1
      BY <2>0, <2>2
    <3> QED
      BY <2>1, <3>1, <3>2, <3>3
  <2> QED
    BY <2>5 DEF Noted
<1>6. ASSUME NEW l, w' = [w EXCEPT !.pc = l],
             w.pc \in {"inputs", "untrack", "track", "lookup", "write"}
      PROVE  Noted'
  BY <1>0, <1>6, NotedKept, GotoFields
<1>7. ASSUME NEW e, Complete(e) PROVE Noted'
  <2>1. w'.pc = "statusGet"
    BY <1>0, <1>7 DEF Complete, Workers
  <2> QED
    BY <2>1 DEF Noted
<1>8. ASSUME NEW e, StopReading(e), Reading PROVE Noted'
  <2>1. CASE Spec1.sa
    BY <1>7, <1>8, <2>1 DEF StopReading
  <2>2. CASE ~Spec1.sa
    <3>1. w'.tm = w.tm /\ w'.got = w.got /\ w'.keys = w.keys
      BY <1>0, <1>8, <2>2 DEF StopReading, Workers
    <3> QED
      BY <1>8, <3>1, NotedKept DEF Reading, At
  <2> QED
    BY <2>1, <2>2
<1>9. CASE InputsRead \/ Untrack \/ TrackInputs
  BY <1>6, <1>7, <1>9 DEF InputsRead, Untrack, TrackInputs, AfterTracking, Goto, At
<1>10. CASE LookupAbsent \/ LookupChanged
  <2>1. w'.tm = w.tm /\ w'.got = w.got /\ w'.keys = w.keys /\ w.pc = "lookup"
    BY <1>0, <1>10 DEF LookupAbsent, LookupChanged, Mutable, Propose, At, Workers
  <2> QED
    BY <2>1, NotedKept
<1>11. CASE ReadNotSecret \/ ReadNoName \/ ReadNotFound \/ ReadFails
  BY <1>8, <1>11 DEF ReadNotSecret, ReadNoName, ReadNotFound, ReadFails
<1>12. CASE \/ ClientFails \/ RenderFails \/ LookupOwned \/ LookupUnchanged
            \/ WriteSecret \/ WriteRefused \/ WriteFails
  BY <1>7, <1>12 DEF ClientFails, RenderFails, LookupOwned, LookupUnchanged,
     WriteSecret, WriteRefused, WriteFails
<1>13. CASE \/ FetchNotFound \/ Forget \/ FetchDeleting \/ FetchTemplate \/ StatusGet
            \/ StatusPut \/ StatusConflict \/ StatusNotFound \/ StatusFails
  <2>1. w'.pc \in {"forget", "finish", "age", "statusGet", "statusPut"}
    <3>1. CASE FetchTemplate
      BY <1>0, <3>1 DEF FetchTemplate, Workers
    <3>2. CASE StatusGet \/ StatusConflict
      BY <1>0, <3>2 DEF StatusGet, StatusConflict, Workers
    <3>3. \A l : Goto(l) => w'.pc = l
      BY <1>0 DEF Goto, Workers
    <3>4. CASE FetchNotFound \/ Forget \/ FetchDeleting \/ StatusPut \/ StatusNotFound
               \/ StatusFails
      BY <3>3, <3>4 DEF FetchNotFound, Forget, FetchDeleting, StatusPut,
         StatusNotFound, StatusFails
    <3> QED
      BY <1>13, <3>1, <3>2, <3>4
  <2>2. CASE w'.pc = "age"
    BY <2>2 DEF Noted
  <2> QED
    BY <2>1 DEF Noted
<1> QED
  BY <1>0, <1>1, <1>2, <1>3, <1>4, <1>5, <1>9, <1>10, <1>11, <1>12, <1>13, AsideSteps
     DEF Next, Work, Faults

---------------------------------------------------------------------------
(* What is tracked.                                                        *)

\* As long as its item is not queued again nothing of what it tracks changes
\* without an event.
LEMMA Heard ==
  ASSUME IInv, IInv', Caught, [Next]_vars, ~Restart,
         NEW t \in Templates, t \notin dirty', NEW n \in tracker[t]
  PROVE  Silent(sWatch', n) => Silent(sWatch, n) /\ secret'[n] = secret[n]
<1>1. n \in Names
  BY RestOK
<1>2. CASE UNCHANGED <<secret, sWatch>>
  BY <1>2
<1>3. CASE WrittenS /\ UNCHANGED sCache
  BY <1>1, <1>3, WrittenMade
<1>4. CASE DeliverSecret
  <2>1. sWatch \in Seq(SEvents) /\ sWatch # << >> /\ sWatch' = Tail(sWatch) /\ secret' = secret
    BY <1>4, Streams DEF DeliverSecret
  <2>2. Head(sWatch).key # n
    BY <1>4, RestOK DEF DeliverSecret, GetTracking
  <2>3. Silent(sWatch', n) <=> Silent(sWatch, n)
    BY <2>1, <2>2, TailSilent
  <2> QED
    BY <2>1, <2>3
<1>5. CASE Environment \/ Work \/ Faults
  BY <1>2, <1>3, <1>5, EnvironmentSteps, WorkerWrites
<1>6. CASE \/ UNCHANGED vars \/ Resync \/ DeliverTemplate
           \/ \E s \in Templates : Get(s) \/ Timer(s)
  BY <1>2, <1>6 DEF vars, Resync, DeliverTemplate, Get, Timer, clusterVars
<1> QED
  BY <1>4, <1>5, <1>6 DEF Next

LEMMA WatchedKept ==
  ASSUME IInv, IInv', Caught, [Next]_vars, ~Restart,
         NEW t \in Templates, t \notin dirty', tracker'[t] = tracker[t],
         NEW sp, NEW vals, Watched(tracker[t], sWatch, secret, sp, vals)
  PROVE  Watched(tracker'[t], sWatch', secret', sp, vals)
BY Heard DEF Watched

\* The step that begins the watch: Track, of all the keys.
LEMMA TrackSights ==
  ASSUME WInv, IInv', Noted, Marked, Untrack \/ TrackInputs, w'.pc = "lookup",
         w.item \notin raced'
  PROVE  Watched(tracker'[w.item], sWatch', secret', w.tm.spec, w.got)
<1>0. /\ w \in Workers /\ w.item \in Templates /\ w.pc \in {"untrack", "track"}
      /\ w.tm \in Memories /\ ~w.tm.spec.sa
  BY Holds, RestOK DEF WInv, Untrack, TrackInputs, At, WorkerOK, Stages, Holding
<1>1. AfterTracking /\ w.err = "" /\ UNCHANGED <<secret, sWatch>>
  <2>1. AfterTracking
    BY <1>0 DEF Untrack, TrackInputs, Goto, Workers
  <2>2. \A e : Complete(e) => w'.pc = "statusGet"
    BY <1>0 DEF Complete, Workers
  <2> QED
    BY <2>1, <2>2 DEF AfterTracking, Untrack, TrackInputs, WorkerFrame, clusterVars
<1>2. DOMAIN w.tm.spec.refs = 1 .. Len(w.got) /\ DOMAIN w.got = 1 .. Len(w.got)
  <2>1. Len(w.got) = Len(w.tm.spec.refs)
    BY <1>0, <1>1 DEF WInv, IInv, Stages
  <2>2. w.tm.spec.refs \in Seq(Refs) /\ w.got \in Seq(Values)
    BY <1>0, SpecFields DEF Workers
  <2> QED
    BY <2>1, <2>2
<1>3. \A i \in 1 .. Len(w.got) : /\ InputName(w.tm.spec, w.got, i) \in w.keys
                                 /\ w.tm.spec.refs[i].kind = "Secret"
  BY <1>0 DEF Noted
<1>4. CASE Untrack
  <2>1. w.keys = {}
    <3>1. \A l : Goto(l) => w'.pc = l
      BY <1>0 DEF Goto, Workers
    <3> QED
      BY <1>4, <3>1 DEF Untrack
  <2> QED
    BY <1>2, <1>3, <2>1 DEF Watched
<1>5. CASE TrackInputs
  <2>1. ~Missed
    BY <1>0, <1>5 DEF Marked, TrackInputs, At
  <2>2. w.keys \subseteq tracker'[w.item]
    BY <1>0, <1>5, RestOK DEF TrackInputs, Track, WInv
  <2>3. ASSUME NEW i \in 1 .. Len(w.got), Silent(sWatch, InputName(w.tm.spec, w.got, i))
        PROVE  LET n == InputName(w.tm.spec, w.got, i)
               IN  secret[n] # None /\ secret[n].data = w.got[i]
    BY <1>2, <2>1, <2>3 DEF Missed, Silent, Spec1
  <2> QED
    BY <1>1, <1>2, <1>3, <2>2, <2>3 DEF Watched
<1> QED
  BY <1>4, <1>5

LEMMA SightedStep ==
  ASSUME WInv, IInv', Caught, Noted, Sighted, [Next]_vars, Marked
  PROVE  Sighted'
<1>0. IInv /\ w \in Workers
  BY Holds DEF WInv
<1> SUFFICES ASSUME w'.pc \in {"lookup", "write"}, ~w'.tm.spec.sa,
                    w'.item \notin dirty' \cup raced'
             PROVE  /\ Len(w'.got) = Len(w'.tm.spec.refs)
                    /\ Watched(tracker'[w'.item], sWatch', secret', w'.tm.spec, w'.got)
                    /\ w'.pc = "write" => w'.cand.data = Render(w'.tm.spec.tmpl, w'.got)
  BY DEF Sighted
<1>1. ~Restart /\ ~Finish
  <2>1. Idle.pc = "idle"
    BY DEF Idle
  <2> QED
    BY <2>1 DEF Restart, Finish
<1>2. w.pc # "idle" => w.item \in Templates
  BY <1>0, Holds
<1>3. ASSUME w.pc \in {"lookup", "write"} PROVE raced' = raced
  BY <1>3 DEF Marked, At
<1>4. CASE Aside
  <2>1. w' = w /\ tracker' = tracker /\ dirty \subseteq dirty'
    BY <1>4 DEF Aside
  <2>2. w.item \in Templates /\ w.item \notin dirty \cup raced
    BY <1>2, <1>3, <2>1
  <2>3. /\ Len(w.got) = Len(w.tm.spec.refs)
        /\ Watched(tracker[w.item], sWatch, secret, w.tm.spec, w.got)
        /\ w.pc = "write" => w.cand.data = Render(w.tm.spec.tmpl, w.got)
    BY <2>1, <2>2 DEF Sighted
  <2>4. Watched(tracker'[w.item], sWatch', secret', w.tm.spec, w.got)
    BY <1>0, <1>1, <2>1, <2>2, <2>3, WatchedKept
  <2> QED
    BY <2>1, <2>3, <2>4
<1>5. CASE LookupAbsent \/ LookupChanged
  <2>1. PICK s : Propose(s) /\ s.data = Rendered
    <3>1. NewOutput.data = Rendered
      BY DEF NewOutput
    <3>2. LookupChanged => Mutate(Cached).data = Rendered
      BY <1>0, MutateFields DEF LookupChanged, Mutable
    <3> HIDE DEF NewOutput
    <3> QED
      BY <1>5, <3>1, <3>2 DEF LookupAbsent, LookupChanged
  <2>2. /\ w.pc = "lookup" /\ UNCHANGED <<secret, sWatch, dirty, tracker>>
    BY <1>5 DEF LookupAbsent, LookupChanged, Mutable, At, WorkerFrame, clusterVars
  <2>3. /\ w'.cand = s /\ w'.item = w.item /\ w'.tm = w.tm /\ w'.got = w.got
    BY <1>0, <2>1 DEF Propose, Workers
  <2>4. /\ Len(w.got) = Len(w.tm.spec.refs)
        /\ Watched(tracker[w.item], sWatch, secret, w.tm.spec, w.got)
    BY <1>3, <2>2, <2>3 DEF Sighted
  <2> QED
    BY <2>1, <2>2, <2>3, <2>4 DEF Rendered, Spec1
<1>6. CASE (Untrack \/ TrackInputs) /\ w'.pc = "lookup"
  <2>1. w'.item = w.item /\ w'.tm = w.tm /\ w'.got = w.got
    <3>1. \E l : w' = [w EXCEPT !.pc = l]
      <4>1. \A e : Complete(e) => w'.pc = "statusGet"
        BY <1>0 DEF Complete, Workers
      <4> QED
        BY <1>6, <4>1 DEF Untrack, TrackInputs, AfterTracking, Goto
    <3> QED
      BY <1>0, <3>1, GotoFields
  <2>2. Len(w'.got) = Len(w'.tm.spec.refs)
    BY <1>6 DEF IInv, Stages
  <2> QED
    BY <1>6, <2>1, <2>2, TrackSights
<1>7. ~InputsRead
  <2> SUFFICES ASSUME InputsRead PROVE FALSE
    OBVIOUS
  <2>1. w'.tm = w.tm /\ w'.pc = IF Spec1.sa THEN "lookup" ELSE "untrack"
    BY <1>0 DEF InputsRead, Goto, Workers
  <2> QED
    BY <2>1 DEF Spec1
<1>8. ~ \E t \in Templates : Get(t)
  BY <1>0 DEF Get, Workers
<1>9. ~ \E e : Complete(e)
  BY <1>0 DEF Complete, Workers
<1>10. ~ \E e : StopReading(e)
  BY <1>0, <1>9 DEF StopReading, Workers
<1>11. ~ \E l : Goto(l) /\ l \notin {"lookup", "write"}
  BY <1>0 DEF Goto, Workers
<1>12. CASE (Untrack \/ TrackInputs) /\ w'.pc # "lookup"
  <2>1. Untrack \/ TrackInputs => \E l : l # "write" /\ Goto(l)
    BY <1>9 DEF Untrack, TrackInputs, AfterTracking
  <2> QED
    BY <1>0, <1>11, <1>12, <2>1 DEF Goto, Workers
<1>13. ~(CheckAge \/ ReadInput \/ FetchTemplate \/ StatusGet \/ StatusConflict)
  BY <1>0 DEF CheckAge, ReadInput, FetchTemplate, StatusGet, StatusConflict, Workers,
     Reading, At
<1>14. ~(\/ FetchNotFound \/ Forget \/ FetchDeleting \/ LoadClient \/ StatusPut
         \/ StatusNotFound \/ StatusFails)
  BY <1>11 DEF FetchNotFound, Forget, FetchDeleting, LoadClient, StatusPut,
     StatusNotFound, StatusFails
<1>15. ~(\/ ClientFails \/ RenderFails \/ LookupOwned \/ LookupUnchanged
         \/ WriteSecret \/ WriteRefused \/ WriteFails)
  BY <1>9 DEF ClientFails, RenderFails, LookupOwned, LookupUnchanged, WriteSecret,
     WriteRefused, WriteFails
<1>16. ~(ReadNotSecret \/ ReadNoName \/ ReadNotFound \/ ReadFails)
  BY <1>10 DEF ReadNotSecret, ReadNoName, ReadNotFound, ReadFails
<1> QED
  BY <1>0, <1>1, <1>4, <1>5, <1>6, <1>7, <1>8, <1>12, <1>13, <1>14, <1>15, <1>16,
     AsideSteps DEF Next, Work, Faults

---------------------------------------------------------------------------
(* What is at rest.                                                        *)

\* A reconcile that ends without an error has read what its Secret holds.
LEMMA EndSights ==
  ASSUME WInv, IInv', Caught, Sighted, NEW t \in Templates, [Next]_vars,
         Reconciled(t), w'.tm # None, t \notin dirty' \cup raced,
         tracker'[t] = tracker[t] \/ WriteSecret, ~tCache[t].spec.sa
  PROVE  \E vals \in [DOMAIN tCache[t].spec.refs -> Values] :
           /\ Watched(tracker'[t], sWatch', secret', tCache[t].spec, vals)
           /\ Silent(sWatch', t) => secret'[t].data = Render(tCache[t].spec.tmpl, vals)
<1>0. IInv /\ w \in Workers /\ t \in Names
  BY Holds, ClusterAssumption DEF WInv
<1>1. LookupUnchanged \/ WriteSecret
  BY Ending DEF Reconciled, WInv
<1>2. /\ w.pc \in {"lookup", "write"} /\ w.item = t /\ w.tm \in Memories /\ w.tm # None
      /\ t # None /\ UNCHANGED <<dirty, tracker>>
  BY <1>0, <1>1, Holds, ClusterAssumption DEF LookupUnchanged, WriteSecret, Mutable,
     At, Reconciled, Holding, WorkerFrame, WriteFrame, clusterVars
<1>3. w.tm.spec = tCache[t].spec
  BY <1>2 DEF WInv, Held
<1> DEFINE sp == tCache[t].spec
           vals == w.got
<1>4. /\ Len(vals) = Len(sp.refs)
      /\ Watched(tracker[t], sWatch, secret, sp, vals)
      /\ w.pc = "write" => w.cand.data = Render(sp.tmpl, vals)
  BY <1>0, <1>2, <1>3 DEF Sighted
<1>5. vals \in [DOMAIN sp.refs -> Values]
  <2>1. sp.refs \in Seq(Refs) /\ vals \in Seq(Values)
    BY <1>0, <1>2, <1>3, SpecFields DEF Workers
  <2> QED
    BY <1>4, <2>1
<1>6. Watched(tracker'[t], sWatch', secret', sp, vals)
  <2>1. ~Restart
    <3>1. Idle.pc = "idle"
      BY DEF Idle
    <3> QED
      BY <3>1 DEF Restart, Reconciled, Ended
  <2> QED
    BY <1>0, <1>2, <1>4, <2>1, WatchedKept
<1>7. Silent(sWatch', t) => secret'[t].data = Render(sp.tmpl, vals)
  <2>1. CASE LookupUnchanged
    <3>1. At("lookup") /\ Cached # None /\ Mutate(Cached) = Cached
          /\ UNCHANGED <<secret, sWatch>>
      BY <2>1 DEF LookupUnchanged, Mutable, WorkerFrame, clusterVars
    <3>2. Cached.data = Render(sp.tmpl, vals)
      BY <1>0, <1>3, <3>1, MutateFields DEF Rendered, Spec1
    <3>3. Silent(sWatch, t) => secret[t] = Cached
      BY <1>0, <1>2, LatestSent DEF Caught, Cached
    <3> QED
      BY <3>1, <3>2, <3>3
  <2>2. CASE WriteSecret /\ w.cand = Output
    BY <1>2, <1>4, <2>2 DEF WriteSecret, StoreOutput, Output, At
  <2>3. CASE WriteSecret /\ w.cand # Output
    <3>1. PICK obj : StoreSecret(t, obj)
      BY <1>2, <2>3 DEF WriteSecret, StoreOutput
    <3> DEFINE e == [key |-> t, obj |-> obj]
    <3>2. obj \in SecretObjects \cup {None}
      BY <1>0, <3>1 DEF StoreSecret, IInv, TypeOK
    <3>3. sWatch \in Seq(SEvents) /\ e \in SEvents /\ e.key = t /\ sWatch' = Append(sWatch, e)
      BY <1>0, <3>1, <3>2, Streams DEF SEvents, StoreSecret
    <3> HIDE DEF e
    <3> QED
      BY <3>3, AppendSilent
  <2> QED
    BY <1>1, <2>1, <2>2, <2>3
<1> HIDE DEF sp, vals
<1>8. \E v \in [DOMAIN sp.refs -> Values] :
        /\ Watched(tracker'[t], sWatch', secret', sp, v)
        /\ Silent(sWatch', t) => secret'[t].data = Render(sp.tmpl, v)
  BY <1>5, <1>6, <1>7
<1> QED
  BY <1>8 DEF sp

LEMMA FollowedStep ==
  ASSUME WInv, Caught, Made, Sighted, Followed, WInv', Caught', [Next]_vars, Marked
  PROVE  Followed'
<1>0. IInv /\ IInv'
  BY DEF WInv
<1> SUFFICES ASSUME NEW t \in Templates, Rest(t)', ~tCache'[t].spec.sa, t \notin raced'
             PROVE  \E vals \in [DOMAIN tCache'[t].spec.refs -> Values] :
                      /\ Watched(tracker'[t], sWatch', secret', tCache'[t].spec, vals)
                      /\ Silent(sWatch', t) =>
                           secret'[t].data = Render(tCache'[t].spec.tmpl, vals)
  BY DEF Followed
<1>1. /\ t \in Names /\ t # None /\ t \notin dirty' /\ tCache'[t] = tCache[t]
      /\ tmpl'[t] = tmpl[t]
  BY RestBefore, ClusterAssumption DEF Rest
<1>2. CASE Rest(t) /\ tracker'[t] = tracker[t] /\ ~Restart
  <2>1. t \notin raced
    <3>1. ~(w.item = t /\ At("track"))
      BY <1>2 DEF Rest, At, Ended
    <3> QED
      BY <3>1 DEF Marked
  <2>2. PICK vals \in [DOMAIN tCache[t].spec.refs -> Values] :
          /\ Watched(tracker[t], sWatch, secret, tCache[t].spec, vals)
          /\ Silent(sWatch, t) => secret[t].data = Render(tCache[t].spec.tmpl, vals)
    BY <1>1, <1>2, <2>1 DEF Followed
  <2>3. Watched(tracker'[t], sWatch', secret', tCache[t].spec, vals)
    BY <1>0, <1>1, <1>2, <2>2, WatchedKept
  <2>4. Silent(sWatch', t) => Silent(sWatch, t) /\ secret'[t] = secret[t]
    <3>1. CASE UNCHANGED <<secret, sWatch>>
      BY <3>1
    <3>2. CASE WrittenS /\ UNCHANGED sCache
      BY <1>0, <1>1, <3>2, WrittenMade
    <3>3. CASE DeliverSecret
      BY <1>0, <1>1, <1>2, <3>3, DeliverMade DEF Made, DeliverSecret
    <3>4. CASE Environment \/ Work \/ Faults
      BY <1>0, <3>1, <3>2, <3>4, EnvironmentSteps, WorkerWrites
    <3>5. CASE \/ UNCHANGED vars \/ Resync \/ DeliverTemplate
               \/ \E s \in Templates : Get(s) \/ Timer(s)
      BY <3>1, <3>5 DEF vars, Resync, DeliverTemplate, Get, Timer, clusterVars
    <3> QED
      BY <1>2, <3>3, <3>4, <3>5 DEF Next
  <2> QED
    BY <1>1, <2>2, <2>3, <2>4
<1>3. CASE Reconciled(t)
  <2>1. w'.tm # None
    <3>1. w'.item # None /\ Alive(t)' /\ w'.item = t /\ w'.pc # "fetch"
      BY <1>1, <1>3 DEF Reconciled, Rest, Ended
    <3> QED
      BY <1>1, <3>1 DEF WInv, Held
  <2>2. t \notin raced /\ tracker'[t] = tracker[t]
    <3>1. LookupUnchanged \/ WriteSecret
      BY <1>0, <1>3, <2>1, Ending DEF Reconciled
    <3> QED
      BY <3>1 DEF LookupUnchanged, WriteSecret, Mutable, At, Marked, WorkerFrame, WriteFrame
  <2> QED
    BY <1>0, <1>1, <1>3, <2>1, <2>2, EndSights
<1> QED
  BY <1>2, <1>3, RestBefore

---------------------------------------------------------------------------
(* What the inputs give now.                                               *)

LEMMA LeastIndex ==
  ASSUME NEW S \in SUBSET Nat, S # {}
  PROVE  \E k \in S : \A l \in S : ~(l < k)
<1>1. PICK k \in S : \A l \in S : <<l, k>> \notin OpToRel(<, Nat)
  BY NatLessThanWellFounded, WFMin
<1> QED
  BY <1>1 DEF OpToRel

\* A name that is read from an input depends on the inputs before it only,
\* so there is at most one way to read Secrets by a spec.
LEMMA OneReading ==
  ASSUME NEW t \in Templates, NEW a, NEW b, NEW vs,
         LET sp == tmpl[t].spec IN
           /\ DOMAIN sp.refs \in SUBSET (Nat \ {0})
           /\ \A i \in DOMAIN sp.refs : /\ sp.refs[i].kind = "Secret"
                                        /\ i = 1 \/ i - 1 \in DOMAIN sp.refs
           /\ a \in [DOMAIN sp.refs -> vs] /\ b \in [DOMAIN sp.refs -> vs],
         InputsNow(t, a), InputsNow(t, b)
  PROVE  a = b
<1> DEFINE refs == tmpl[t].spec.refs
           differ == {i \in DOMAIN refs : a[i] # b[i]}
<1> SUFFICES ASSUME differ # {} PROVE FALSE
  OBVIOUS
<1>1. PICK m \in differ : \A l \in differ : ~(l < m)
  <2>1. differ \in SUBSET Nat
    OBVIOUS
  <2> HIDE DEF differ
  <2> QED
    BY <2>1, LeastIndex
<1>2. InputName(tmpl[t].spec, a, m) = InputName(tmpl[t].spec, b, m)
  <2>1. CASE m = 1
    BY <2>1 DEF InputName
  <2>2. CASE m # 1
    <3>1. m - 1 \in DOMAIN refs /\ m - 1 < m
      BY <2>2
    <3>2. a[m - 1] = b[m - 1]
      BY <1>1, <3>1
    <3> QED
      BY <2>2, <3>2 DEF InputName
  <2> QED
    BY <2>1, <2>2
<1> QED
  BY <1>2 DEF InputsNow

LEMMA NowIs ==
  ASSUME IInv, NEW t \in Templates, tmpl[t] # None, sWatch = << >>,
         NEW vals \in [DOMAIN tmpl[t].spec.refs -> Values],
         Watched(tracker[t], sWatch, secret, tmpl[t].spec, vals)
  PROVE  Now(t) = Render(tmpl[t].spec.tmpl, vals)
<1> DEFINE sp == tmpl[t].spec
           all == {v \in [DOMAIN sp.refs -> Contents] : InputsNow(t, v)}
<1>1. /\ DOMAIN sp.refs \in SUBSET (Nat \ {0})
      /\ \A i \in DOMAIN sp.refs : i = 1 \/ i - 1 \in DOMAIN sp.refs
  <2>1. tmpl[t] \in TemplateObjects
    BY DEF IInv, TypeOK
  <2>2. sp.refs \in Seq(Refs)
    BY <2>1, ReconcilerAssumption DEF TemplateObjects
  <2> QED
    BY <2>2
<1>2. \A i \in DOMAIN sp.refs :
        LET n == InputName(sp, vals, i) IN
          /\ sp.refs[i].kind = "Secret" /\ n \in Names /\ n # None
          /\ secret[n] # None /\ secret[n].data = vals[i]
  <2>1. \A n : Silent(sWatch, n)
    BY DEF Silent
  <2> QED
    BY <2>1, RestOK, ClusterAssumption DEF Watched
<1>3. vals \in all
  <2>1. InputsNow(t, vals)
    BY <1>2 DEF InputsNow
  <2>2. \A i \in DOMAIN sp.refs : vals[i] \in Contents
    BY <1>2 DEF Contents
  <2> QED
    BY <2>1, <2>2
<1>4. \A v \in all : v = vals
  BY <1>1, <1>2, <1>3, OneReading
<1>5. (CHOOSE v \in all : TRUE) = vals
  <2> HIDE DEF all
  <2> QED
    BY <1>3, <1>4
<1> QED
  BY <1>3, <1>5 DEF Now

---------------------------------------------------------------------------
(* The theorem.                                                            *)

LEMMA InitLost == Init => Noted /\ Sighted /\ Followed
<1>1. Init => \A t \in Templates : ~Rest(t)
  BY DEF Init, ClusterInit, Rest, Alive
<1>2. Init => w.pc = "idle"
  <2>1. Idle.pc = "idle"
    BY DEF Idle
  <2> QED
    BY <2>1 DEF Init
<1> QED
  BY <1>1, <1>2 DEF Noted, Sighted, Followed

LEMMA NothingLost ==
  WInv /\ Caught /\ Made /\ Followed => OnlyRacedUpdatesLost
<1> SUFFICES ASSUME WInv, Caught, Made, Followed, NEW t \in Templates, Quiet(t),
                    sWatch = << >>, Reconcilable(t), ~tmpl[t].spec.sa, t \notin raced
             PROVE  UpToDate(t)
  BY DEF OnlyRacedUpdatesLost
<1>1. Rest(t) /\ tCache[t] = tmpl[t] /\ Silent(sWatch, t)
  BY QuietRest
<1>2. secret[t] # None /\ secret[t].owner = tmpl[t].uid
  BY <1>1 DEF Made
<1>3. PICK vals \in [DOMAIN tmpl[t].spec.refs -> Values] :
        /\ Watched(tracker[t], sWatch, secret, tmpl[t].spec, vals)
        /\ secret[t].data = Render(tmpl[t].spec.tmpl, vals)
  BY <1>1 DEF Followed
<1>4. Now(t) = Render(tmpl[t].spec.tmpl, vals)
  BY <1>3, NowIs DEF WInv, Reconcilable
<1> QED
  BY <1>2, <1>3, <1>4 DEF UpToDate

\* Whatever the order of reads, tracker calls and deliveries, the deletions
\* and the restarts: at rest, the Secret of a SecretTemplate without a
\* ServiceAccount is out of date only if its last reconcile missed a change
\* between the read of an input and Track.
THEOREM OnlyRacesLose == RacedSpec => []OnlyRacedUpdatesLost
<1>1. RacedInit => Init
  BY DEF RacedInit
<1>2. [RacedNext]_<<vars, raced>> => [Next]_vars /\ Marked
  BY RacedStep
<1>3. RacedSpec => Spec
  BY <1>1, <1>2, PTL DEF RacedSpec, Spec
<1>4. Init => Made /\ Noted /\ Sighted /\ Followed
  BY InitRest, InitLost
<1>5. /\ WInv /\ Caught /\ Made /\ Noted /\ Sighted /\ Followed
      /\ (WInv /\ Caught)' /\ [Next]_vars /\ Marked
      => (Made /\ Noted /\ Sighted /\ Followed)'
  BY MadeStep, NotedStep, SightedStep, FollowedStep DEF WInv
<1>6. WInv /\ Caught /\ Made /\ Followed => OnlyRacedUpdatesLost
  BY NothingLost
<1> QED
  BY <1>1, <1>2, <1>3, <1>4, <1>5, <1>6, WInvariance, PTL DEF RacedSpec

=============================================================================
