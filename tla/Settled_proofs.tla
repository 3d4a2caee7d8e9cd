---------------------------- MODULE Settled_proofs ----------------------------
(***************************************************************************)
(* Proofs that a SecretTemplate the controller has nothing left to do for  *)
(* is settled, for any SecretTemplates, Secrets, specs, contents, users,   *)
(* faults, restarts and delays: the tracker knows its inputs, its Secret   *)
(* is there and its own, its status reports success.                       *)
(*                                                                         *)
(* The argument has four parts.  A cache differs from the store only while *)
(* the event that says so is on its way (Caught).  The worker's copy of a  *)
(* SecretTemplate is the one in the cache, or its item is queued again     *)
(* (Held).  What the worker has done so far is right for its copy          *)
(* (Progress).  So when it ends a reconcile without an error and nothing   *)
(* came in meanwhile, what it did is right for the object in the store,    *)
(* and whatever undoes it later sends an event that queues the item again  *)
(* (Tracked, Made and Reported, each about the items at rest).             *)
(***************************************************************************)
EXTENDS Reconciler_proofs

\* No event about k is on its way.
Silent(watch, k) == \A i \in DOMAIN watch : watch[i].key # k

\* The cached copy is the stored one, or the last event about k carries it.
Latest(watch, k, cached, stored) ==
  \/ Silent(watch, k) /\ cached = stored
  \/ \E i \in DOMAIN watch :
       /\ watch[i].key = k /\ watch[i].obj = stored
       /\ \A j \in DOMAIN watch : j > i => watch[j].key # k

Caught == /\ \A t \in Templates : Latest(tWatch, t, tCache[t], tmpl[t])
          /\ \A n \in Names : Latest(sWatch, n, sCache[n], secret[n])

---------------------------------------------------------------------------
(* Watch streams.                                                          *)

LEMMA AppendFacts ==
  ASSUME NEW E, NEW s \in Seq(E), NEW e \in E
  PROVE  /\ Append(s, e) \in Seq(E)
         /\ DOMAIN Append(s, e) = DOMAIN s \cup {Len(s) + 1}
         /\ Append(s, e)[Len(s) + 1] = e
         /\ \A i \in DOMAIN s : Append(s, e)[i] = s[i] /\ Len(s) + 1 > i /\ ~(i > Len(s) + 1)
         /\ ~(Len(s) + 1 > Len(s) + 1)
  OBVIOUS

LEMMA TailFacts ==
  ASSUME NEW E, NEW s \in Seq(E), s # << >>
  PROVE  /\ Tail(s) \in Seq(E)
         /\ 1 \in DOMAIN s /\ Head(s) = s[1] /\ s[1] \in E
         /\ \A i \in DOMAIN Tail(s) : i + 1 \in DOMAIN s /\ Tail(s)[i] = s[i + 1] /\ i + 1 > 1
         /\ \A i \in DOMAIN s : i # 1 => /\ i - 1 \in DOMAIN Tail(s) /\ Tail(s)[i - 1] = s[i]
                                         /\ i > 1
                                         /\ \A j \in DOMAIN Tail(s) : j > i - 1 => j + 1 > i
  OBVIOUS

LEMMA AppendSilent ==
  ASSUME NEW E, NEW s \in Seq(E), NEW e \in E, NEW k
  PROVE  Silent(Append(s, e), k) <=> Silent(s, k) /\ e.key # k
BY AppendFacts DEF Silent

\* After a write the last event about its object carries it ...
LEMMA AppendLatest ==
  ASSUME NEW E, NEW s \in Seq(E), NEW e \in E, NEW k, NEW cached, NEW stored,
         Latest(s, k, cached, stored)
  PROVE  Latest(Append(s, e), k, cached, IF e.key = k THEN e.obj ELSE stored)
<1>1. CASE e.key = k
  BY <1>1, AppendFacts DEF Latest
<1>2. CASE e.key # k
  <2>1. CASE Silent(s, k) /\ cached = stored
    BY <1>2, <2>1, AppendSilent DEF Latest
  <2>2. ASSUME NEW i \in DOMAIN s, s[i].key = k, s[i].obj = stored,
               \A j \in DOMAIN s : j > i => s[j].key # k
        PROVE  Latest(Append(s, e), k, cached, stored)
    BY <1>2, <2>2, AppendFacts DEF Latest
  <2> QED
    BY <1>2, <2>1, <2>2 DEF Latest
<1> QED
  BY <1>1, <1>2

\* ... and a delivery brings the cache up to it.
LEMMA TailLatest ==
  ASSUME NEW E, NEW s \in Seq(E), s # << >>, NEW k, NEW cached, NEW stored,
         Latest(s, k, cached, stored)
  PROVE  Latest(Tail(s), k, IF Head(s).key = k THEN Head(s).obj ELSE cached, stored)
<1>1. CASE Silent(s, k) /\ cached = stored
  BY <1>1, TailFacts DEF Latest, Silent
<1>2. ASSUME NEW i \in DOMAIN s, s[i].key = k, s[i].obj = stored,
             \A j \in DOMAIN s : j > i => s[j].key # k
      PROVE  Latest(Tail(s), k, IF Head(s).key = k THEN Head(s).obj ELSE cached, stored)
  <2> DEFINE c == IF Head(s).key = k THEN Head(s).obj ELSE cached
  <2>1. CASE i = 1
    BY <1>2, <2>1, TailFacts DEF Latest, Silent
  <2>2. CASE i # 1
    <3>1. /\ i - 1 \in DOMAIN Tail(s) /\ Tail(s)[i - 1] = s[i]
          /\ \A j \in DOMAIN Tail(s) : j > i - 1 => j + 1 > i
      BY <2>2, TailFacts
    <3>2. \A j \in DOMAIN Tail(s) : j > i - 1 => Tail(s)[j].key # k
      BY <1>2, <3>1, TailFacts
    <3>3. Latest(Tail(s), k, c, stored)
      BY <1>2, <3>1, <3>2 DEF Latest
    <3> QED
      BY <3>3
  <2> QED
    BY <2>1, <2>2
<1> QED
  BY <1>1, <1>2 DEF Latest

\* Of the events about k one is left, unless the one delivered was the last.
LEMMA TailSilent ==
  ASSUME NEW E, NEW s \in Seq(E), s # << >>, NEW k
  PROVE  /\ Head(s).key # k => (Silent(Tail(s), k) <=> Silent(s, k))
         /\ Head(s).key # k => Sent(Tail(s), k) = Sent(s, k)
         /\ Head(s).key = k => Sent(s, k) = Sent(Tail(s), k) \cup {Head(s).obj}
<1>1. Head(s).key # k => (Silent(Tail(s), k) <=> Silent(s, k))
  <2>1. ASSUME Head(s).key # k, Silent(Tail(s), k), NEW i \in DOMAIN s PROVE s[i].key # k
    <3>1. CASE i = 1
      BY <2>1, <3>1, TailFacts
    <3>2. CASE i # 1
      <4>1. i - 1 \in DOMAIN Tail(s) /\ Tail(s)[i - 1] = s[i]
        BY <3>2, TailFacts
      <4> QED
        BY <2>1, <4>1 DEF Silent
    <3> QED
      BY <3>1, <3>2
  <2>2. ASSUME Silent(s, k) PROVE Silent(Tail(s), k)
    BY <2>2, TailFacts DEF Silent
  <2> QED
    BY <2>1, <2>2 DEF Silent
<1>2. Sent(Tail(s), k) \subseteq Sent(s, k)
  BY SentTail
<1>3. \A x \in Sent(s, k) : x \in Sent(Tail(s), k) \/ (Head(s).key = k /\ x = Head(s).obj)
  <2> SUFFICES ASSUME NEW i \in DOMAIN s, s[i].key = k
               PROVE  s[i].obj \in Sent(Tail(s), k) \/ (Head(s).key = k /\ s[i].obj = Head(s).obj)
    BY DEF Sent
  <2>1. CASE i = 1
    BY <2>1, TailFacts
  <2>2. CASE i # 1
    <3>1. i - 1 \in DOMAIN Tail(s) /\ Tail(s)[i - 1] = s[i]
      BY <2>2, TailFacts
    <3> QED
      BY <3>1 DEF Sent
  <2> QED
    BY <2>1, <2>2
<1>4. Head(s).key = k => Head(s).obj \in Sent(s, k)
  BY SentTail
<1> QED
  BY <1>1, <1>2, <1>3, <1>4

LEMMA SilentSent == ASSUME NEW s, NEW k, Silent(s, k) PROVE Sent(s, k) = {}
BY DEF Silent, Sent

LEMMA LatestSent ==
  ASSUME NEW s, NEW k, NEW cached, NEW stored, Latest(s, k, cached, stored)
  PROVE  /\ stored \in {cached} \cup Sent(s, k)
         /\ Silent(s, k) => cached = stored
         /\ ~Silent(s, k) => stored \in Sent(s, k)
BY DEF Latest, Sent, Silent

---------------------------------------------------------------------------
(* What a step may do to the store, the streams and the caches.            *)

TEvents == [key : Templates, obj : TemplateObjects \cup {None}]
SEvents == [key : Names, obj : SecretObjects \cup {None}]

LEMMA Streams == IInv => tWatch \in Seq(TEvents) /\ sWatch \in Seq(SEvents)
BY DEF IInv, TypeOK, TEvents, SEvents

\* A write of a SecretTemplate, here and below with its type.
WrittenT == \E t \in Templates, obj \in TemplateObjects \cup {None} :
              /\ tmpl' = [tmpl EXCEPT ![t] = obj]
              /\ tWatch' = Append(tWatch, [key |-> t, obj |-> obj])

WrittenS == \E n \in Names, obj \in SecretObjects \cup {None} :
              /\ secret' = [secret EXCEPT ![n] = obj]
              /\ sWatch' = Append(sWatch, [key |-> n, obj |-> obj])

LEMMA WrittenTyped ==
  ASSUME IInv, IInv'
  PROVE  /\ \A t, obj : StoreTemplate(t, obj) /\ t \in Templates => WrittenT
         /\ \A n, obj : StoreSecret(n, obj) /\ n \in Names => WrittenS
<1>1. ASSUME NEW t \in Templates, NEW obj, StoreTemplate(t, obj) PROVE WrittenT
  <2>1. tmpl' = [tmpl EXCEPT ![t] = obj] /\ tWatch' = Append(tWatch, [key |-> t, obj |-> obj])
    BY <1>1 DEF StoreTemplate
  <2>2. obj \in TemplateObjects \cup {None}
    BY <2>1 DEF IInv, TypeOK
  <2> QED
    BY <2>1, <2>2 DEF WrittenT
<1>2. ASSUME NEW n \in Names, NEW obj, StoreSecret(n, obj) PROVE WrittenS
  <2>1. secret' = [secret EXCEPT ![n] = obj] /\ sWatch' = Append(sWatch, [key |-> n, obj |-> obj])
    BY <1>2 DEF StoreSecret
  <2>2. obj \in SecretObjects \cup {None}
    BY <2>1 DEF IInv, TypeOK
  <2> QED
    BY <2>1, <2>2 DEF WrittenS
<1> QED
  BY <1>1, <1>2

\* Users, time and the garbage collector change objects, never the caches.
LEMMA EnvironmentSteps ==
  ASSUME IInv, IInv', Environment
  PROVE  /\ UNCHANGED <<tCache, sCache>>
         /\ \/ WrittenT /\ UNCHANGED <<secret, sWatch>>
            \/ WrittenS /\ UNCHANGED <<tmpl, tWatch>>
            \/ UNCHANGED <<tmpl, tWatch, secret, sWatch>>
<1>1. ASSUME NEW t \in Templates,
             \/ CreateTemplate(t) \/ EditTemplate(t) \/ DeleteTemplate(t)
             \/ MarkDeleting(t) \/ Finalize(t)
      PROVE  WrittenT /\ UNCHANGED <<secret, sWatch, tCache, sCache>>
  BY <1>1, WrittenTyped DEF CreateTemplate, EditTemplate, DeleteTemplate,
     MarkDeleting, Finalize, TemplateFrame
<1>2. ASSUME NEW n \in Names,
             CreateSecret(n) \/ EditSecret(n) \/ DeleteSecret(n) \/ CollectGarbage(n)
      PROVE  WrittenS /\ UNCHANGED <<tmpl, tWatch, tCache, sCache>>
  BY <1>2, WrittenTyped DEF CreateSecret, EditSecret, DeleteSecret,
     CollectGarbage, SecretFrame
<1>3. ASSUME (\E n \in Names : AgeSecret(n)) \/ (\E o \in Others : ChangeOther(o))
      PROVE  UNCHANGED <<tmpl, tWatch, secret, sWatch, tCache, sCache>>
  BY <1>3 DEF AgeSecret, ChangeOther
<1> QED
  BY <1>1, <1>2, <1>3, ClusterAssumption DEF Environment

\* The worker writes its own SecretTemplate and its Secret, if anything.
LEMMA WorkerWrites ==
  ASSUME IInv, IInv', Work \/ Faults
  PROVE  /\ UNCHANGED <<tCache, sCache, dirty>>
         /\ \/ At("write") /\ WrittenS /\ UNCHANGED <<tmpl, tWatch>>
            \/ At("statusPut") /\ WrittenT /\ UNCHANGED <<secret, sWatch>>
            \/ UNCHANGED <<tmpl, tWatch, secret, sWatch>>
<1>1. At("write") => w.item \in Names
  BY WriteFacts
<1>2. At("statusPut") => w.item \in Templates
  BY StatusFacts
<1>3. ASSUME At("write"), StoreOutput PROVE WrittenS \/ UNCHANGED <<secret, sWatch>>
  BY <1>1, <1>3, WrittenTyped DEF StoreOutput
<1>4. ASSUME At("statusPut"), StoreStatus PROVE WrittenT \/ UNCHANGED <<tmpl, tWatch>>
  BY <1>2, <1>4, WrittenTyped DEF StoreStatus
<1>5. CASE WriteSecret \/ WriteFails
  BY <1>3, <1>5 DEF WriteSecret, WriteFails, WriteFrame
<1>6. CASE StatusPut \/ StatusFails
  BY <1>4, <1>6 DEF StatusPut, StatusFails, StatusFrame
<1>7. CASE ~(WriteSecret \/ WriteFails \/ StatusPut \/ StatusFails)
  BY <1>7 DEF Work, Faults, FetchNotFound, Forget, FetchDeleting, FetchTemplate,
     CheckAge, LoadClient, ReadInput, ReadNotSecret, ReadNoName, ReadNotFound,
     InputsRead, Untrack, TrackInputs, RenderFails, LookupAbsent, LookupOwned,
     LookupUnchanged, LookupChanged, WriteRefused, StatusGet, StatusConflict,
     StatusNotFound, Finish, ClientFails, ReadFails, WorkerFrame, clusterVars
<1> QED
  BY <1>5, <1>6, <1>7

---------------------------------------------------------------------------
(* The caches.                                                             *)

CaughtT == \A t \in Templates : Latest(tWatch, t, tCache[t], tmpl[t])
CaughtS == \A n \in Names : Latest(sWatch, n, sCache[n], secret[n])

LEMMA WrittenTCaught ==
  ASSUME IInv, CaughtT, WrittenT, UNCHANGED tCache
  PROVE  CaughtT'
<1>1. PICK t \in Templates, obj \in TemplateObjects \cup {None} :
        /\ tmpl' = [tmpl EXCEPT ![t] = obj]
        /\ tWatch' = Append(tWatch, [key |-> t, obj |-> obj])
  BY DEF WrittenT
<1> DEFINE e == [key |-> t, obj |-> obj]
<1>2. tWatch \in Seq(TEvents) /\ e \in TEvents /\ tWatch' = Append(tWatch, e)
  BY <1>1, Streams DEF TEvents
<1>3. \A u \in Templates : tmpl'[u] = IF e.key = u THEN e.obj ELSE tmpl[u]
  BY <1>1 DEF IInv, TypeOK
<1> SUFFICES ASSUME NEW u \in Templates PROVE Latest(tWatch', u, tCache[u], tmpl'[u])
  BY DEF CaughtT
<1> HIDE DEF e
<1>4. Latest(Append(tWatch, e), u, tCache[u], IF e.key = u THEN e.obj ELSE tmpl[u])
  BY <1>2, AppendLatest DEF CaughtT
<1> QED
  BY <1>2, <1>3, <1>4

LEMMA WrittenSCaught ==
  ASSUME IInv, CaughtS, WrittenS, UNCHANGED sCache
  PROVE  CaughtS'
<1>1. PICK n \in Names, obj \in SecretObjects \cup {None} :
        /\ secret' = [secret EXCEPT ![n] = obj]
        /\ sWatch' = Append(sWatch, [key |-> n, obj |-> obj])
  BY DEF WrittenS
<1> DEFINE e == [key |-> n, obj |-> obj]
<1>2. sWatch \in Seq(SEvents) /\ e \in SEvents /\ sWatch' = Append(sWatch, e)
  BY <1>1, Streams DEF SEvents
<1>3. \A m \in Names : secret'[m] = IF e.key = m THEN e.obj ELSE secret[m]
  BY <1>1 DEF IInv, TypeOK
<1> SUFFICES ASSUME NEW m \in Names PROVE Latest(sWatch', m, sCache[m], secret'[m])
  BY DEF CaughtS
<1> HIDE DEF e
<1>4. Latest(Append(sWatch, e), m, sCache[m], IF e.key = m THEN e.obj ELSE secret[m])
  BY <1>2, AppendLatest DEF CaughtS
<1> QED
  BY <1>2, <1>3, <1>4

LEMMA DeliverTCaught == IInv /\ CaughtT /\ DeliverTemplate => CaughtT'
<1> SUFFICES ASSUME IInv, CaughtT, DeliverTemplate, NEW t \in Templates
             PROVE  Latest(tWatch, t, tCache[t], tmpl[t])'
  BY DEF CaughtT
<1> DEFINE e == Head(tWatch)
<1>1. tWatch \in Seq(TEvents) /\ tWatch # << >> /\ tWatch' = Tail(tWatch) /\ tmpl' = tmpl
  BY Streams DEF DeliverTemplate
<1>2. tCache'[t] = IF e.key = t THEN e.obj ELSE tCache[t]
  BY DEF DeliverTemplate, IInv, TypeOK
<1>3. Latest(Tail(tWatch), t, IF e.key = t THEN e.obj ELSE tCache[t], tmpl[t])
  BY <1>1, TailLatest DEF CaughtT
<1> QED
  BY <1>1, <1>2, <1>3

LEMMA DeliverSCaught == IInv /\ CaughtS /\ DeliverSecret => CaughtS'
<1> SUFFICES ASSUME IInv, CaughtS, DeliverSecret, NEW n \in Names
             PROVE  Latest(sWatch, n, sCache[n], secret[n])'
  BY DEF CaughtS
<1> DEFINE e == Head(sWatch)
<1>1. sWatch \in Seq(SEvents) /\ sWatch # << >> /\ sWatch' = Tail(sWatch) /\ secret' = secret
  BY Streams DEF DeliverSecret
<1>2. sCache'[n] = IF e.key = n THEN e.obj ELSE sCache[n]
  BY DEF DeliverSecret, IInv, TypeOK
<1>3. Latest(Tail(sWatch), n, IF e.key = n THEN e.obj ELSE sCache[n], secret[n])
  BY <1>1, TailLatest DEF CaughtS
<1> QED
  BY <1>1, <1>2, <1>3

LEMMA CaughtStep == IInv /\ IInv' /\ Caught /\ [Next]_vars => Caught'
<1> SUFFICES ASSUME IInv, IInv', CaughtT, CaughtS, [Next]_vars
             PROVE  CaughtT' /\ CaughtS'
  BY DEF Caught, CaughtT, CaughtS
<1>1. ASSUME UNCHANGED <<tmpl, tWatch, tCache>> PROVE CaughtT'
  BY <1>1 DEF CaughtT
<1>2. ASSUME UNCHANGED <<secret, sWatch, sCache>> PROVE CaughtS'
  BY <1>2 DEF CaughtS
<1>3. CASE Environment
  BY <1>1, <1>2, <1>3, EnvironmentSteps, WrittenTCaught, WrittenSCaught
<1>4. CASE Work \/ Faults
  BY <1>1, <1>2, <1>4, WorkerWrites, WrittenTCaught, WrittenSCaught
<1>5. CASE Resync \/ \E t \in Templates : Get(t) \/ Timer(t)
  BY <1>1, <1>2, <1>5 DEF Resync, Get, Timer, clusterVars
<1>6. CASE DeliverTemplate
  BY <1>2, <1>6, DeliverTCaught DEF DeliverTemplate
<1>7. CASE DeliverSecret
  BY <1>1, <1>7, DeliverSCaught DEF DeliverSecret
<1>8. CASE Restart
  BY <1>8 DEF Restart, CaughtT, CaughtS, Latest, Silent
<1>9. CASE UNCHANGED vars
  BY <1>1, <1>2, <1>9 DEF vars, clusterVars
<1> QED
  BY <1>3, <1>4, <1>5, <1>6, <1>7, <1>8, <1>9 DEF Next

---------------------------------------------------------------------------
(* The worker: its copy of the SecretTemplate, and how far it has come.    *)

Alive(t) == tCache[t] # None /\ ~tCache[t].deleting

\* What it holds is what the cache holds, unless its item is queued again.
Held ==
  w.item # None /\ w.item \notin dirty =>
    /\ w.tm # None => /\ Alive(w.item)
                      /\ w.tm.uid = tCache[w.item].uid
                      /\ w.tm.spec = tCache[w.item].spec
                      /\ w.tm.status.gen = tCache[w.item].gen
    /\ w.tm = None /\ w.pc # "fetch" => ~Alive(w.item)
    /\ w.pc = "statusPut" => w.latest = tCache[w.item].rv

\* The names a spec gives its inputs outright.
Literals(sp) == {sp.refs[i].name : i \in DOMAIN sp.refs} \ {None}

Ended == {"statusGet", "statusPut", "finish"}

Progress ==
  /\ w.pc \in {"idle", "fetch", "forget"} => w.tm = None
  /\ w.pc = "inputs" =>
       \A i \in 1 .. Len(w.got) : w.tm.spec.refs[i].name \in w.keys \cup {None}
  /\ w.pc \in {"untrack", "track"} /\ w.err = "" => Literals(w.tm.spec) \subseteq w.keys
  /\ w.pc \in {"lookup", "write"} \cup Ended /\ w.err = "" /\ w.tm # None
       => w.tm.spec.sa \/ Literals(w.tm.spec) \subseteq tracker[w.item]
  /\ w.pc \in {"lookup", "write"} => w.err = ""
  /\ w.pc = "write" => w.cand.owner = w.tm.uid /\ MadeBy(w.tm.spec, w.cand.data)
  /\ w.pc \in {"statusGet", "statusPut"} /\ w.err = ""
       => w.tm.status.cond = "Succeeded" /\ w.tm.status.named

WInv == IInv /\ Held /\ Progress

\* What the stages of a reconcile say of the worker.
LEMMA Holds ==
  ASSUME IInv
  PROVE  /\ w \in Workers
         /\ w.pc # "idle" => w.item \in Templates /\ w.item \in Names
         /\ w.pc \in Holding => w.tm \in Memories /\ w.tm # None
         /\ w.pc \in {"age", "client"} => w.got = << >> /\ w.err = ""
         /\ w.pc = "inputs" => w.err = ""
<1>1. \A m \in Memories : m # None
  BY MemoryAssumption
<1> QED
  BY <1>1, RestOK, ClusterAssumption DEF WorkerOK, Workers, Stages

\* A step of the worker that keeps the part of its copy the cache can check.
LEMMA HeldKept ==
  ASSUME IInv, Held, UNCHANGED <<tCache, dirty>>, w.pc # "idle", w'.item = w.item,
         w'.pc # "statusPut",
         \/ w.tm = None /\ w'.tm = None /\ w.pc # "fetch"
         \/ /\ w.tm # None /\ w'.tm # None
            /\ w'.tm.uid = w.tm.uid /\ w'.tm.spec = w.tm.spec
            /\ w'.tm.status.gen = w.tm.status.gen
  PROVE  Held'
BY DEF Held, Alive

LEMMA GotoFields ==
  ASSUME IInv, NEW l, w' = [w EXCEPT !.pc = l]
  PROVE  /\ w'.pc = l /\ w'.item = w.item /\ w'.tm = w.tm /\ w'.got = w.got
         /\ w'.keys = w.keys /\ w'.err = w.err /\ w'.cand = w.cand
         /\ w'.latest = w.latest
BY Holds DEF Workers

LEMMA CompleteFields ==
  ASSUME IInv, w.pc \in Holding, NEW e, Complete(e)
  PROVE  /\ w'.pc = "statusGet" /\ w'.item = w.item /\ w'.err = e
         /\ w'.tm = [w.tm EXCEPT !.status = Outcome(e)]
         /\ w'.tm.uid = w.tm.uid /\ w'.tm.spec = w.tm.spec
         /\ w'.tm.status = Outcome(e)
         /\ w'.tm.status.gen = w.tm.status.gen
         /\ e = "" => w'.tm.status.cond = "Succeeded" /\ w'.tm.status.named
<1>1. w \in Workers /\ w.tm \in Memories
  BY Holds
<1>2. /\ w'.pc = "statusGet" /\ w'.item = w.item /\ w'.err = e
      /\ w'.tm = [w.tm EXCEPT !.status = Outcome(e)]
  BY <1>1 DEF Complete, Workers
<1>3. /\ w'.tm.uid = w.tm.uid /\ w'.tm.spec = w.tm.spec
      /\ w'.tm.status = Outcome(e)
  BY <1>1, <1>2 DEF Memories
<1>4. /\ Outcome(e).gen = w.tm.status.gen
      /\ e = "" => Outcome(e).cond = "Succeeded" /\ Outcome(e).named
  BY <1>1 DEF Outcome, Memories, Statuses
<1> QED
  BY <1>2, <1>3, <1>4

\* The end of a reconcile: after an error nothing is claimed.
LEMMA CompleteKept ==
  ASSUME WInv, IInv', UNCHANGED <<tCache, dirty>>, w.pc \in Holding,
         NEW e, Complete(e),
         e = "" => w.pc \in {"lookup", "write"} /\ UNCHANGED tracker
  PROVE  Held' /\ Progress'
<1>1. w'.tm # None /\ w.tm # None /\ w.pc # "idle"
  <2>1. w'.pc \in Holding
    BY CompleteFields DEF WInv, Holding
  <2>2. IInv' => (w'.pc \in Holding => w'.tm # None)
    BY MemoryAssumption DEF IInv, Stages
  <2> QED
    BY <2>1, <2>2, Holds DEF WInv, Holding
<1>2. Held'
  BY <1>1, CompleteFields, HeldKept DEF WInv
<1>3. Progress'
  BY <1>1, CompleteFields DEF WInv, Progress, Ended
<1> QED
  BY <1>2, <1>3

LEMMA FetchKept ==
  ASSUME WInv, IInv', FetchNotFound \/ Forget \/ FetchDeleting \/ FetchTemplate
  PROVE  Held' /\ Progress'
<1>1. w \in Workers /\ (w.pc # "idle" => w.item \in Templates)
  BY Holds DEF WInv
<1>2. CASE FetchNotFound
  <2>1. w.tm = None /\ w'.tm = None /\ w'.pc = "forget" /\ w'.item = w.item
    BY <1>2, GotoFields DEF FetchNotFound, At, Goto, WInv, Progress
  <2> QED
    BY <1>2, <2>1 DEF FetchNotFound, WorkerFrame, clusterVars, Held, Alive, Progress,
       Ended
<1>3. CASE Forget
  <2>1. w.tm = None /\ w'.tm = None /\ w'.pc = "finish" /\ w'.item = w.item
        /\ w.pc = "forget"
    BY <1>3, GotoFields DEF Forget, At, Goto, WInv, Progress
  <2>2. Held'
    BY <1>3, <2>1, HeldKept DEF Forget, WorkerFrame, clusterVars, WInv
  <2> QED
    BY <2>1, <2>2 DEF Progress, Ended
<1>4. CASE FetchDeleting
  <2>1. w.tm = None /\ w'.tm = None /\ w'.pc = "finish" /\ w'.item = w.item
    BY <1>4, GotoFields DEF FetchDeleting, At, Goto, WInv, Progress
  <2> QED
    BY <1>4, <2>1 DEF FetchDeleting, WorkerFrame, clusterVars, Held, Alive, Progress,
       Ended
<1>5. CASE FetchTemplate
  <2> DEFINE o == tCache[w.item]
             status == [o.status EXCEPT !.gen = o.gen, !.cond = "Reconciling"]
             tm == [uid |-> o.uid, spec |-> o.spec, status |-> status]
  <2>1. w.item \in Templates /\ o \in TemplateObjects /\ o # None /\ ~o.deleting
    BY <1>1, <1>5 DEF FetchTemplate, At, WInv, IInv, TypeOK
  <2>2. /\ w'.pc = "age" /\ w'.item = w.item /\ w'.tm = tm
        /\ tCache' = tCache
    BY <1>1, <1>5 DEF FetchTemplate, Workers, WorkerFrame, clusterVars
  <2>3. tm.uid = o.uid /\ tm.spec = o.spec /\ tm.status.gen = o.gen
    <3>1. o.status \in Statuses
      BY <2>1 DEF TemplateObjects
    <3> QED
      BY <3>1 DEF Statuses
  <2>4. w'.tm # None
    BY <2>2, MemoryAssumption DEF IInv, Stages, Holding
  <2> HIDE DEF tm
  <2>5. Held'
    BY <2>1, <2>2, <2>3, <2>4 DEF Held, Alive
  <2> QED
    BY <2>2, <2>5 DEF Progress, Ended
<1> QED
  BY <1>2, <1>3, <1>4, <1>5

LEMMA AgeKept ==
  ASSUME WInv, IInv', CheckAge \/ LoadClient \/ ClientFails
  PROVE  Held' /\ Progress'
<1>1. w \in Workers /\ (w.pc \in {"age", "client"} => w.tm # None /\ w.got = << >>)
  BY Holds DEF WInv, Holding
<1>2. CASE CheckAge \/ LoadClient
  <2>1. /\ w'.pc \in {"client", "inputs"} /\ w'.item = w.item /\ w'.tm = w.tm
        /\ w'.got = << >> /\ w.tm # None /\ w.pc # "idle"
    BY <1>1, <1>2 DEF CheckAge, LoadClient, At, Goto, Workers
  <2>2. Held'
    BY <1>2, <2>1, HeldKept DEF CheckAge, LoadClient, WorkerFrame, clusterVars, WInv
  <2>3. 1 .. Len(w'.got) = {}
    BY <2>1
  <2> QED
    BY <2>1, <2>2, <2>3 DEF Progress, Ended
<1>3. CASE ClientFails
  BY <1>3, CompleteKept DEF ClientFails, At, Holding
<1> QED
  BY <1>2, <1>3

\* Reading: what has a name of its own is among the keys once it is read.
LEMMA StopKept ==
  ASSUME WInv, IInv', Reading, NEW e, e # "", StopReading(e),
         UNCHANGED <<tCache, dirty>>
  PROVE  Held' /\ Progress'
<1>1. w.pc = "inputs" /\ w \in Workers /\ w.tm # None
  BY Holds DEF WInv, Reading, At, Holding
<1>2. CASE w.tm.spec.sa
  BY <1>1, <1>2, CompleteKept DEF StopReading, Spec1, Holding
<1>3. CASE ~w.tm.spec.sa
  <2>1. /\ w'.pc = "untrack" /\ w'.err = e /\ w'.item = w.item /\ w'.tm = w.tm
    BY <1>1, <1>3 DEF StopReading, Spec1, Workers
  <2>2. Held'
    BY <1>1, <2>1, HeldKept DEF WInv
  <2> QED
    BY <2>1, <2>2, Holds DEF Progress, Ended
<1> QED
  BY <1>2, <1>3

LEMMA ReadKept ==
  ASSUME WInv, IInv',
         ReadInput \/ ReadNotSecret \/ ReadNoName \/ ReadNotFound \/ ReadFails
  PROVE  Held' /\ Progress'
<1>1. CASE ReadNotSecret \/ ReadNoName \/ ReadNotFound \/ ReadFails
  BY <1>1, StopKept DEF ReadNotSecret, ReadNoName, ReadNotFound, ReadFails,
     WorkerFrame, clusterVars
<1>2. CASE ReadInput
  <2>1. /\ w.pc = "inputs" /\ w \in Workers /\ w.tm # None
        /\ Len(w.got) \in Nat /\ w.got \in Seq(Values)
    BY <1>2, Holds, ReadingFacts DEF WInv, ReadInput, Reading, At, Holding, Workers
  <2>2. /\ w'.pc = "inputs" /\ w'.item = w.item /\ w'.tm = w.tm
        /\ w'.got = Append(w.got, Live) /\ w'.keys = w.keys \cup {RefName}
        /\ w'.err = w.err
    BY <1>2, <2>1 DEF ReadInput, Workers
  <2>3. Len(w'.got) = Len(w.got) + 1
    BY <2>1, <2>2
  <2>4. ASSUME NEW i \in 1 .. Len(w'.got)
        PROVE  w'.tm.spec.refs[i].name \in w'.keys \cup {None}
    <3>1. CASE i \in 1 .. Len(w.got)
      BY <2>1, <2>2, <3>1 DEF WInv, Progress
    <3>2. CASE i = Len(w.got) + 1
      BY <2>2, <3>2 DEF RefName, Ref, Spec1
    <3> QED
      BY <2>1, <2>3, <3>1, <3>2
  <2>5. Held'
    BY <1>2, <2>1, <2>2, HeldKept DEF ReadInput, WorkerFrame, clusterVars, WInv
  <2> QED
    BY <2>2, <2>4, <2>5 DEF Progress, Ended
<1> QED
  BY <1>1, <1>2

LEMMA InputsReadKept == ASSUME WInv, IInv', InputsRead PROVE Held' /\ Progress'
<1>1. w.pc = "inputs" /\ w \in Workers /\ w.tm # None /\ w.tm \in Memories /\ w.err = ""
  BY Holds DEF WInv, InputsRead, At, Holding
<1>2. /\ w'.pc = (IF w.tm.spec.sa THEN "lookup" ELSE "untrack") /\ w'.item = w.item
      /\ w'.tm = w.tm /\ w'.keys = w.keys /\ w'.err = w.err
  BY <1>1, GotoFields DEF InputsRead, Goto, Spec1, WInv
<1>3. DOMAIN w.tm.spec.refs = 1 .. Len(w.got)
  <2>1. Len(w.got) = Len(w.tm.spec.refs)
    BY DEF InputsRead, AllRead, Spec1
  <2>2. w.tm.spec.refs \in Seq(Refs)
    BY <1>1, SpecFields
  <2> QED
    BY <2>1, <2>2
<1>4. Literals(w.tm.spec) \subseteq w.keys
  BY <1>1, <1>3 DEF WInv, Progress, Literals
<1>5. Held'
  BY <1>1, <1>2, HeldKept DEF InputsRead, WorkerFrame, clusterVars, WInv
<1> QED
  BY <1>1, <1>2, <1>4, <1>5 DEF Progress, Ended

\* Tracking: the keys end up in the tracker, all of them or on an error.
LEMMA TrackKept == ASSUME WInv, IInv', Untrack \/ TrackInputs PROVE Held' /\ Progress'
<1>1. /\ w.pc \in {"untrack", "track"} /\ w.pc \in Holding /\ w.pc # "idle"
      /\ w \in Workers /\ w.tm # None /\ w.item \in Templates
  BY Holds DEF WInv, Untrack, TrackInputs, At, Holding
<1>2. UNCHANGED <<tCache, dirty>> /\ tracker \in [Templates -> SUBSET Names]
  BY RestOK DEF Untrack, TrackInputs, WorkerFrame, clusterVars, WInv
<1>3. CASE Untrack /\ w.keys # {}
  <2>1. /\ w'.pc = "track" /\ w'.item = w.item /\ w'.tm = w.tm
        /\ w'.keys = w.keys /\ w'.err = w.err
    BY <1>3, GotoFields DEF Untrack, Goto, WInv
  <2>2. Held'
    BY <1>1, <1>2, <2>1, HeldKept DEF WInv
  <2> QED
    BY <1>1, <2>1, <2>2 DEF WInv, Progress, Ended
<1>4. CASE AfterTracking /\ w.err # ""
  BY <1>1, <1>2, <1>4, CompleteKept DEF AfterTracking
<1>5. CASE AfterTracking /\ w.err = "" /\ w.keys \subseteq tracker'[w.item]
  <2>1. /\ w'.pc = "lookup" /\ w'.item = w.item /\ w'.tm = w.tm /\ w'.err = ""
    BY <1>5, GotoFields DEF AfterTracking, Goto, WInv
  <2>2. Held'
    BY <1>1, <1>2, <2>1, HeldKept DEF WInv
  <2>3. Literals(w.tm.spec) \subseteq w.keys
    BY <1>1, <1>5 DEF WInv, Progress
  <2> QED
    BY <1>5, <2>1, <2>2, <2>3 DEF Progress, Ended
<1>6. TrackInputs => AfterTracking /\ w.keys \subseteq tracker'[w.item]
  BY <1>1, <1>2 DEF TrackInputs, Track
<1> QED
  BY <1>3, <1>4, <1>5, <1>6 DEF Untrack, TrackInputs

---------------------------------------------------------------------------
(* Lookup, write and status.                                               *)

\* What the worker renders is what its template makes of what it read.
LEMMA RenderedMade ==
  ASSUME IInv, At("lookup")
  PROVE  MadeBy(w.tm.spec, Rendered)
<1>1. w.got \in [1 .. Len(w.tm.spec.refs) -> Values]
  <2>1. w.got \in Seq(Values)
    BY Holds DEF Workers
  <2>2. Len(w.got) = Len(w.tm.spec.refs)
    BY DEF IInv, Stages, At
  <2> QED
    BY <2>1, <2>2
<1> QED
  BY <1>1 DEF MadeBy, Rendered, Spec1

LEMMA ProposeKept ==
  ASSUME WInv, IInv', At("lookup"), NEW s, Propose(s), WorkerFrame, UNCHANGED tracker,
         s.owner = w.tm.uid, s.data = Rendered
  PROVE  Held' /\ Progress'
<1>1. w \in Workers /\ w.pc = "lookup" /\ w.tm # None
  BY Holds DEF WInv, At, Holding
<1>2. /\ w'.pc = "write" /\ w'.cand = s /\ w'.item = w.item /\ w'.tm = w.tm
      /\ w'.err = w.err
  BY <1>1 DEF Propose, Workers
<1>3. Held'
  BY <1>1, <1>2, HeldKept DEF WorkerFrame, clusterVars, WInv
<1>4. MadeBy(w.tm.spec, s.data)
  BY RenderedMade DEF WInv
<1>5. MadeBy(w'.tm.spec, w'.cand.data)
  BY <1>2, <1>4
<1> QED
  BY <1>1, <1>2, <1>3, <1>5 DEF WInv, Progress, Ended

\* The worker writes what it rendered, with itself as the owner.
LEMMA MutateFields ==
  ASSUME IInv, At("lookup"), Cached # None
  PROVE  Mutate(Cached).owner = w.tm.uid /\ Mutate(Cached).data = Rendered
<1>1. Cached \in SecretObjects
  BY LookupFacts
<1> QED
  BY <1>1 DEF Mutate, SecretObjects

LEMMA LookupKept ==
  ASSUME WInv, IInv',
         \/ RenderFails \/ LookupAbsent \/ LookupOwned \/ LookupUnchanged
         \/ LookupChanged
  PROVE  Held' /\ Progress'
<1>1. At("lookup") /\ w.pc \in Holding
  BY DEF RenderFails, LookupAbsent, LookupOwned, LookupUnchanged, LookupChanged,
     Mutable, At, Holding
<1>2. CASE RenderFails \/ LookupOwned \/ LookupUnchanged
  <2>1. UNCHANGED <<tCache, dirty, tracker>>
    BY <1>2 DEF RenderFails, LookupOwned, LookupUnchanged, WorkerFrame, clusterVars
  <2>2. PICK e \in {"render", "owned", ""} : Complete(e)
    BY <1>2 DEF RenderFails, LookupOwned, LookupUnchanged
  <2> QED
    BY <1>1, <2>1, <2>2, CompleteKept DEF At
<1>3. CASE LookupAbsent
  <2>1. NewOutput.owner = w.tm.uid /\ NewOutput.data = Rendered
    BY DEF NewOutput
  <2> HIDE DEF NewOutput
  <2> QED
    BY <1>1, <1>3, <2>1, ProposeKept DEF LookupAbsent
<1>4. CASE LookupChanged
  <2>1. Mutate(Cached).owner = w.tm.uid /\ Mutate(Cached).data = Rendered
    BY <1>1, <1>4, MutateFields DEF LookupChanged, Mutable, WInv
  <2> QED
    BY <1>1, <1>4, <2>1, ProposeKept DEF LookupChanged
<1> QED
  BY <1>2, <1>3, <1>4

LEMMA WriteKept ==
  ASSUME WInv, IInv', WriteSecret \/ WriteRefused \/ WriteFails
  PROVE  Held' /\ Progress'
<1>1. At("write") /\ w.pc = "write" /\ w.pc \in Holding
  BY DEF WriteSecret, WriteRefused, WriteFails, At, Holding
<1>2. UNCHANGED <<tCache, dirty, tracker>>
  BY DEF WriteSecret, WriteRefused, WriteFails, WriteFrame, WorkerFrame, clusterVars
<1>3. PICK e : Complete(e)
  BY DEF WriteSecret, WriteRefused, WriteFails
<1> QED
  BY <1>1, <1>2, <1>3, CompleteKept

LEMMA StatusKept ==
  ASSUME WInv, IInv',
         \/ StatusGet \/ StatusPut \/ StatusConflict \/ StatusNotFound
         \/ StatusFails
  PROVE  Held' /\ Progress'
<1>1. /\ w.pc \in {"statusGet", "statusPut"} /\ w \in Workers /\ w.tm # None
      /\ UNCHANGED <<tCache, dirty, tracker>>
  BY Holds DEF WInv, Holding, At, StatusGet, StatusPut, StatusConflict,
     StatusNotFound, StatusFails, WorkerFrame, StatusFrame, clusterVars
<1>2. w'.item = w.item /\ w'.tm = w.tm /\ w'.err = w.err
  BY <1>1 DEF StatusGet, StatusPut, StatusConflict, StatusNotFound, StatusFails,
     Goto, Workers
<1>3. \/ w'.pc \in {"statusGet", "finish"}
      \/ w'.pc = "statusPut" /\ w'.latest = tCache[w.item].rv
  BY <1>1 DEF StatusGet, StatusPut, StatusConflict, StatusNotFound, StatusFails,
     Goto, Workers
<1>4. Held'
  BY <1>1, <1>2, <1>3 DEF WInv, Held, Alive
<1> QED
  BY <1>1, <1>2, <1>3, <1>4 DEF WInv, Progress, Ended

---------------------------------------------------------------------------
(* Steps of others: what changes in the cache is queued.                   *)

Aside == /\ UNCHANGED <<w, tracker>>
         /\ dirty \subseteq dirty'
         /\ dirty \cup waiting \subseteq dirty' \cup waiting'
         /\ \A t \in Templates : t \notin dirty' =>
              tCache'[t] = tCache[t] /\ (Silent(tWatch', t) => Silent(tWatch, t))

LEMMA AsideSteps ==
  ASSUME IInv, IInv',
         \/ Environment /\ UNCHANGED ctrlVars
         \/ \E t \in Templates : Timer(t)
         \/ DeliverTemplate \/ DeliverSecret \/ Resync \/ UNCHANGED vars
  PROVE  Aside
<1>1. ASSUME UNCHANGED <<w, tracker, tCache, tWatch>>, dirty \subseteq dirty',
             dirty \cup waiting \subseteq dirty' \cup waiting'
      PROVE  Aside
  BY <1>1 DEF Aside
<1>2. CASE Environment /\ UNCHANGED ctrlVars
  <2>1. ASSUME WrittenT, NEW t, Silent(tWatch', t) PROVE Silent(tWatch, t)
    <3>1. PICK e \in TEvents : tWatch' = Append(tWatch, e)
      BY <2>1 DEF WrittenT, TEvents
    <3> QED
      BY <2>1, <3>1, Streams, AppendSilent
  <2>2. UNCHANGED tCache /\ (WrittenT \/ UNCHANGED tWatch)
    BY <1>2, EnvironmentSteps
  <2> QED
    BY <1>2, <2>1, <2>2 DEF Aside, ctrlVars
<1>3. CASE \E t \in Templates : Timer(t)
  BY <1>1, <1>3 DEF Timer, clusterVars
<1>4. CASE DeliverTemplate
  <2>1. tWatch \in Seq(TEvents) /\ tWatch # << >> /\ tWatch' = Tail(tWatch)
    BY <1>4, Streams DEF DeliverTemplate
  <2>2. \A t : Head(tWatch).key # t => (Silent(tWatch', t) => Silent(tWatch, t))
    BY <2>1, TailSilent
  <2>3. dirty' = dirty \cup {Head(tWatch).key}
    BY <1>4 DEF DeliverTemplate
  <2>4. tCache' = [tCache EXCEPT ![Head(tWatch).key] = Head(tWatch).obj]
    BY <1>4 DEF DeliverTemplate
  <2>5. UNCHANGED <<w, tracker, waiting>> /\ tCache \in [Templates -> TemplateObjects \cup {None}]
    BY <1>4 DEF DeliverTemplate, IInv, TypeOK
  <2> QED
    BY <2>2, <2>3, <2>4, <2>5 DEF Aside
<1>5. CASE DeliverSecret
  BY <1>1, <1>5 DEF DeliverSecret
<1>6. CASE Resync
  BY <1>1, <1>6 DEF Resync
<1>7. CASE UNCHANGED vars
  BY <1>1, <1>7 DEF vars, clusterVars, ctrlVars
<1> QED
  BY <1>2, <1>3, <1>4, <1>5, <1>6, <1>7

LEMMA IdleKept == ASSUME w' = Idle PROVE Held' /\ Progress'
<1>1. w'.pc = "idle" /\ w'.item = None /\ w'.tm = None
  BY DEF Idle
<1> QED
  BY <1>1 DEF Held, Progress, Ended

LEMMA WStep == WInv /\ [Next]_vars => WInv'
<1> SUFFICES ASSUME WInv, [Next]_vars PROVE Held' /\ Progress'
  BY NextIInv DEF WInv
<1>0. IInv /\ IInv'
  BY NextIInv DEF WInv
<1>1. CASE Aside
  <2>1. w.item # None => w.item \in Templates
    BY <1>0, RestOK DEF WorkerOK, Workers
  <2>2. Held'
    BY <1>1, <2>1 DEF Aside, WInv, Held, Alive
  <2>3. Progress'
    BY <1>1 DEF Aside, WInv, Progress
  <2> QED
    BY <2>2, <2>3
<1>2. ASSUME NEW t \in Templates, Get(t) PROVE Held' /\ Progress'
  <2>1. w \in Workers /\ w.pc = "idle" /\ w.err = ""
    BY <1>0, <1>2, RestOK DEF Get, At, WorkerOK, Stages
  <2>2. w'.pc = "fetch" /\ w'.item = t /\ w'.tm = w.tm
    BY <1>2, <2>1 DEF Get, Workers
  <2>3. w.tm = None
    BY <2>1 DEF WInv, Progress
  <2> QED
    BY <2>2, <2>3 DEF Held, Progress, Ended
<1>3. CASE Work \/ Faults
  <2>1. Finish => w' = Idle
    BY DEF Finish
  <2> QED
    BY <1>0, <1>3, <2>1, FetchKept, AgeKept, ReadKept, InputsReadKept, TrackKept,
       LookupKept, WriteKept, StatusKept, IdleKept DEF Work, Faults
<1>4. CASE Restart
  BY <1>4, IdleKept DEF Restart
<1> QED
  BY <1>0, <1>1, <1>2, <1>3, <1>4, AsideSteps DEF Next

LEMMA InitWorker == Init => Caught /\ Held /\ Progress
<1> SUFFICES ASSUME Init PROVE Caught /\ Held /\ Progress
  OBVIOUS
<1>1. /\ tWatch = << >> /\ sWatch = << >> /\ tCache = tmpl /\ sCache = secret
      /\ w.pc = "idle" /\ w.item = None /\ w.tm = None
  BY DEF Init, ClusterInit, Idle
<1>2. Caught
  BY <1>1 DEF Caught, Latest, Silent
<1> QED
  BY <1>1, <1>2 DEF Held, Progress, Ended

---------------------------------------------------------------------------
(* SecretTemplates at rest: nothing but an event of a Secret is on its     *)
(* way, and the worker, if it has the item in hand at all, has reconciled  *)
(* it without an error.                                                    *)

Rest(t) == /\ t \notin dirty \cup waiting
           /\ Silent(tWatch, t)
           /\ Alive(t)
           /\ w.item = t => w.pc \in Ended /\ w.err = ""

\* The worker has just reconciled t.
Reconciled(t) == /\ Work \/ Faults
                 /\ w.item = t /\ w.pc \notin Ended
                 /\ w'.item = t /\ w'.pc \in Ended /\ w'.err = ""

\* What a step of a reconcile leaves alone, and what one after it does.
LEMMA WorkFrame ==
  ASSUME WInv, IInv', Work \/ Faults, ~Finish
  PROVE  /\ w.item # None /\ w'.item = w.item /\ UNCHANGED waiting
         /\ \A t \in Templates : t # w.item => tracker'[t] = tracker[t]
         /\ w.pc \in Ended => /\ w'.pc \in Ended /\ w'.err = w.err
                              /\ UNCHANGED <<tracker, secret, sWatch>>
<1>1. w \in Workers
  BY Holds DEF WInv
<1>2. UNCHANGED waiting
  BY DEF Work, Faults, FetchNotFound, Forget, FetchDeleting, FetchTemplate,
     CheckAge, LoadClient, ReadInput, ReadNotSecret, ReadNoName, ReadNotFound,
     InputsRead, Untrack, TrackInputs, RenderFails, LookupAbsent, LookupOwned,
     LookupUnchanged, LookupChanged, WriteRefused, StatusGet, StatusConflict,
     StatusNotFound, ClientFails, ReadFails, WriteSecret, WriteFails, StatusPut,
     StatusFails, WorkerFrame, WriteFrame, StatusFrame
<1>3. w.pc # "idle"
  BY DEF Work, Faults, FetchNotFound, Forget, FetchDeleting, FetchTemplate,
     CheckAge, LoadClient, ReadInput, ReadNotSecret, ReadNoName, ReadNotFound,
     InputsRead, Untrack, TrackInputs, RenderFails, LookupAbsent, LookupOwned,
     LookupUnchanged, LookupChanged, WriteRefused, StatusGet, StatusConflict,
     StatusNotFound, ClientFails, ReadFails, WriteSecret, WriteFails, StatusPut,
     StatusFails, Reading, Mutable, At
<1>4. w.item # None
  BY <1>3, RestOK DEF WInv, WorkerOK
<1>5. w'.item = w.item
  <2>1. \A l : Goto(l) => w'.item = w.item
    BY <1>1 DEF Goto, Workers
  <2>2. \A e : Complete(e) => w'.item = w.item
    BY <1>1 DEF Complete, Workers
  <2>3. \A e : StopReading(e) => w'.item = w.item
    BY <1>1, <2>2 DEF StopReading, Workers
  <2>4. CASE \/ FetchNotFound \/ Forget \/ FetchDeleting \/ LoadClient
             \/ InputsRead \/ StatusPut \/ StatusNotFound \/ StatusFails
    BY <2>1, <2>4 DEF FetchNotFound, Forget, FetchDeleting, LoadClient, InputsRead,
       StatusPut, StatusNotFound, StatusFails
  <2>5. CASE \/ ClientFails \/ RenderFails \/ LookupOwned \/ LookupUnchanged
             \/ WriteSecret \/ WriteRefused \/ WriteFails
    BY <2>2, <2>5 DEF ClientFails, RenderFails, LookupOwned, LookupUnchanged,
       WriteSecret, WriteRefused, WriteFails
  <2>6. CASE ReadNotSecret \/ ReadNoName \/ ReadNotFound \/ ReadFails
    BY <2>3, <2>6 DEF ReadNotSecret, ReadNoName, ReadNotFound, ReadFails
  <2>7. CASE FetchTemplate \/ CheckAge \/ ReadInput \/ StatusGet \/ StatusConflict
    BY <1>1, <2>7 DEF FetchTemplate, CheckAge, ReadInput, StatusGet,
       StatusConflict, Workers
  <2>8. CASE LookupAbsent \/ LookupChanged
    BY <1>1, <2>8 DEF LookupAbsent, LookupChanged, Propose, Workers
  <2>9. CASE Untrack \/ TrackInputs
    BY <2>1, <2>2, <2>9 DEF Untrack, TrackInputs, AfterTracking
  <2> QED
    BY <2>4, <2>5, <2>6, <2>7, <2>8, <2>9 DEF Work, Faults
<1>6. \A t \in Templates : t # w.item => tracker'[t] = tracker[t]
  <2>1. tracker \in [Templates -> SUBSET Names]
    BY RestOK DEF WInv
  <2> QED
    BY <2>1 DEF Work, Faults, FetchNotFound, Forget, FetchDeleting, FetchTemplate,
     CheckAge, LoadClient, ReadInput, ReadNotSecret, ReadNoName, ReadNotFound,
     InputsRead, Untrack, TrackInputs, RenderFails, LookupAbsent, LookupOwned,
     LookupUnchanged, LookupChanged, WriteRefused, StatusGet, StatusConflict,
     StatusNotFound, ClientFails, ReadFails, WriteSecret, WriteFails, StatusPut,
     StatusFails, WorkerFrame, WriteFrame, StatusFrame, Track, UntrackAll
<1>7. ASSUME w.pc \in Ended
      PROVE  /\ w'.pc \in Ended /\ w'.err = w.err
             /\ UNCHANGED <<tracker, secret, sWatch>>
  <2>1. StatusGet \/ StatusPut \/ StatusConflict \/ StatusNotFound \/ StatusFails
    BY <1>7 DEF Work, Faults, FetchNotFound, Forget, FetchDeleting, FetchTemplate,
     CheckAge, LoadClient, ReadInput, ReadNotSecret, ReadNoName, ReadNotFound,
     InputsRead, Untrack, TrackInputs, RenderFails, LookupAbsent, LookupOwned,
     LookupUnchanged, LookupChanged, WriteRefused, ClientFails, ReadFails,
     WriteSecret, WriteFails, Reading, Mutable, At, Ended
  <2> QED
    BY <1>1, <2>1 DEF StatusGet, StatusPut, StatusConflict, StatusNotFound,
       StatusFails, Goto, WorkerFrame, StatusFrame, clusterVars, Workers, Ended
<1> QED
  BY <1>2, <1>4, <1>5, <1>6, <1>7

\* What is at rest after a step was so before, or has just been reconciled.
LEMMA RestBefore ==
  ASSUME WInv, Caught, WInv', Caught', [Next]_vars, NEW t \in Templates, Rest(t)'
  PROVE  /\ tCache'[t] = tCache[t] /\ tmpl'[t] = tmpl[t]
         /\ \/ Rest(t) /\ tracker'[t] = tracker[t] /\ ~Restart
            \/ Reconciled(t)
<1>0. IInv /\ IInv' /\ t # None
  BY ClusterAssumption DEF WInv
<1>1. Silent(tWatch, t) => tCache[t] = tmpl[t]
  BY LatestSent DEF Caught
<1>2. tCache'[t] = tmpl'[t]
  BY LatestSent DEF Caught, Rest
<1>3. ~Restart
  <2> SUFFICES ASSUME Restart PROVE FALSE
    OBVIOUS
  <2> QED
    BY DEF Restart, Rest, Alive, Replayed
<1>4. CASE Aside
  BY <1>1, <1>2, <1>3, <1>4 DEF Aside, Rest, Alive
<1>5. ASSUME NEW s \in Templates, Get(s)
      PROVE  Rest(t) /\ tracker'[t] = tracker[t] /\ UNCHANGED tCache
  <2>1. w.item = None /\ w.pc = "idle" /\ w \in Workers
    BY <1>0, <1>5, RestOK DEF Get, At, WorkerOK
  <2>2. w'.item = s /\ w'.pc = "fetch" /\ dirty' = dirty \ {s}
    BY <1>5, <2>1 DEF Get, Workers
  <2> QED
    BY <1>0, <1>5, <2>1, <2>2 DEF Get, clusterVars, Rest, Alive, Ended
<1>6. CASE Finish
  <2>1. /\ UNCHANGED <<tCache, tWatch, dirty, tracker>> /\ w.pc = "finish"
        /\ waiting' = IF Requeue THEN waiting \cup {w.item} ELSE waiting
    BY <1>6 DEF Finish, clusterVars, At
  <2>2. Rest(t)
    BY <2>1 DEF Rest, Requeue, Ended, Alive
  <2> QED
    BY <1>1, <1>2, <1>3, <2>1, <2>2 DEF Rest
<1>7. CASE (Work \/ Faults) /\ ~Finish
  <2>1. UNCHANGED <<tCache, dirty>>
    BY <1>0, <1>7, WorkerWrites
  <2>2. Silent(tWatch, t)
    <3>1. CASE UNCHANGED tWatch
      BY <3>1 DEF Rest
    <3>2. CASE WrittenT
      <4>1. PICK e \in TEvents : tWatch' = Append(tWatch, e)
        BY <3>2 DEF WrittenT, TEvents
      <4> QED
        BY <1>0, <4>1, Streams, AppendSilent DEF Rest
    <3> QED
      BY <1>0, <1>7, <3>1, <3>2, WorkerWrites
  <2>3. CASE w.item # t
    BY <1>0, <1>1, <1>2, <1>3, <1>7, <2>1, <2>2, <2>3, WorkFrame DEF Rest, Alive
  <2>4. CASE w.item = t /\ w.pc \in Ended
    BY <1>0, <1>1, <1>2, <1>3, <1>7, <2>1, <2>2, <2>4, WorkFrame DEF Rest, Alive
  <2>5. CASE w.item = t /\ w.pc \notin Ended
    BY <1>0, <1>1, <1>2, <1>3, <1>7, <2>1, <2>2, <2>5, WorkFrame DEF Rest, Reconciled
  <2> QED
    BY <2>3, <2>4, <2>5
<1> QED
  BY <1>0, <1>1, <1>2, <1>3, <1>4, <1>5, <1>6, <1>7, AsideSteps DEF Next, Rest

---------------------------------------------------------------------------
(* What is right of the items at rest: their inputs are tracked ...        *)

Tracked == \A t \in Templates :
  Rest(t) => tCache[t].spec.sa \/ Literals(tCache[t].spec) \subseteq tracker[t]

LEMMA TrackedStep ==
  ASSUME WInv, Caught, Tracked, WInv', Caught', [Next]_vars
  PROVE  Tracked'
<1> SUFFICES ASSUME NEW t \in Templates, Rest(t)'
             PROVE  tCache'[t].spec.sa \/ Literals(tCache'[t].spec) \subseteq tracker'[t]
  BY DEF Tracked
<1>1. CASE Rest(t) /\ tracker'[t] = tracker[t]
  BY <1>1, RestBefore DEF Tracked
<1>2. CASE Reconciled(t)
  <2>1. /\ w'.item = t /\ w'.item # None /\ w'.item \notin dirty' /\ w'.err = ""
        /\ w'.pc \in Ended /\ Alive(t)'
    BY <1>2, ClusterAssumption DEF Reconciled, Rest
  <2>2. w'.tm # None
    BY <2>1 DEF WInv, Held, Ended
  <2>3. w'.tm.spec = tCache'[t].spec
    BY <2>1, <2>2 DEF WInv, Held
  <2> QED
    BY <2>1, <2>2, <2>3 DEF WInv, Progress
<1> QED
  BY <1>1, <1>2, RestBefore

---------------------------------------------------------------------------
(* ... their Secrets are theirs, or an event of one that was queues them   *)
(* again ...                                                               *)

Owned(t) == \E x \in SCopies(t) : x.owner > 0

Made == \A t \in Templates : Rest(t) =>
  /\ Owned(t)
  /\ Silent(sWatch, t) => /\ secret[t] # None
                          /\ secret[t].owner = tmpl[t].uid
                          /\ MadeBy(tmpl[t].spec, secret[t].data)

\* A write leaves every copy but the stored one, and that one is a copy too.
LEMMA WrittenMade ==
  ASSUME IInv, Caught, WrittenS, UNCHANGED sCache, NEW t \in Names
  PROVE  /\ Silent(sWatch', t) => Silent(sWatch, t) /\ secret'[t] = secret[t]
         /\ Owned(t) => Owned(t)'
<1>1. PICK n \in Names, obj \in SecretObjects \cup {None} :
        /\ secret' = [secret EXCEPT ![n] = obj]
        /\ sWatch' = Append(sWatch, [key |-> n, obj |-> obj])
  BY DEF WrittenS
<1> DEFINE e == [key |-> n, obj |-> obj]
<1>2. sWatch \in Seq(SEvents) /\ e \in SEvents /\ sWatch' = Append(sWatch, e)
  BY <1>1, Streams DEF SEvents
<1>3. e.key = n
  OBVIOUS
<1>4. secret'[t] = IF n = t THEN obj ELSE secret[t]
  BY <1>1 DEF IInv, TypeOK
<1> HIDE DEF e
<1>5. Sent(sWatch, t) \subseteq Sent(sWatch', t)
  BY <1>2, SentAppend
<1>6. secret[t] \in {sCache[t]} \cup Sent(sWatch, t)
  BY LatestSent DEF Caught
<1>7. SCopies(t) \subseteq SCopies(t)'
  BY <1>5, <1>6 DEF SCopies
<1>8. Silent(sWatch', t) => Silent(sWatch, t) /\ n # t
  BY <1>2, <1>3, AppendSilent
<1> QED
  BY <1>4, <1>7, <1>8 DEF Owned

\* A delivery that takes the last owned copy away has queued the owner.
LEMMA DeliverMade ==
  ASSUME IInv, IInv', Caught, Caught', DeliverSecret, NEW t \in Templates, t \notin dirty'
  PROVE  /\ Silent(sWatch', t) /\ Owned(t) => Silent(sWatch, t)
         /\ Owned(t) => Owned(t)'
<1> DEFINE e == Head(sWatch)
<1>1. t \in Names
  BY ClusterAssumption
<1>2. /\ sWatch \in Seq(SEvents) /\ sWatch # << >> /\ sWatch' = Tail(sWatch)
      /\ sCache' = [sCache EXCEPT ![e.key] = e.obj] /\ secret' = secret
      /\ sCache \in [Names -> SecretObjects \cup {None}]
  BY Streams DEF DeliverSecret, IInv, TypeOK
<1>3. CASE e.key # t
  <2>1. Sent(sWatch', t) = Sent(sWatch, t) /\ (Silent(sWatch', t) <=> Silent(sWatch, t))
    BY <1>2, <1>3, TailSilent
  <2>2. sCache'[t] = sCache[t]
    BY <1>1, <1>2, <1>3
  <2> QED
    BY <1>2, <2>1, <2>2 DEF Owned, SCopies
<1>4. CASE e.key = t
  <2>1. OwnerOf(t, sCache[t]) = {} /\ OwnerOf(t, e.obj) = {}
    BY <1>4 DEF DeliverSecret, OwnerOf
  <2>2. /\ sCache[t] # None => ~(sCache[t].owner > 0)
        /\ e.obj # None => ~(e.obj.owner > 0)
    BY <2>1 DEF OwnerOf
  <2>3. Sent(sWatch, t) = Sent(sWatch', t) \cup {e.obj}
    BY <1>2, <1>4, TailSilent
  <2>4. ASSUME NEW x \in SCopies(t), x.owner > 0 PROVE x \in SCopies(t)'
    BY <1>2, <2>2, <2>3, <2>4 DEF SCopies
  <2>5. ASSUME Silent(sWatch', t), Owned(t) PROVE FALSE
    <3>1. PICK x \in SCopies(t) : x.owner > 0
      BY <2>5 DEF Owned
    <3>2. sCache'[t] = e.obj
      BY <1>1, <1>2, <1>4
    <3>3. secret[t] = e.obj
      BY <1>1, <1>2, <2>5, <3>2, LatestSent DEF Caught
    <3>4. Sent(sWatch', t) = {}
      BY <2>5, SilentSent
    <3> QED
      BY <2>2, <2>3, <3>1, <3>3, <3>4 DEF SCopies
  <2> QED
    BY <2>4, <2>5 DEF Owned
<1> QED
  BY <1>3, <1>4

\* A reconcile ends without an error when it has found the Secret as it would
\* write it, or has written it.
LEMMA Ending ==
  ASSUME WInv, IInv', Work \/ Faults, w.pc \notin Ended, w'.pc \in Ended,
         w'.err = "", w'.tm # None
  PROVE  LookupUnchanged \/ WriteSecret
<1>1. w \in Workers /\ (w.pc = "idle" => w.tm = None)
  BY Holds DEF WInv, Progress
<1>2. \A e : Complete(e) => w'.err = e
  BY <1>1 DEF Complete, Workers
<1>3. ~ \E e \in {"client", "render", "owned", "write"} : Complete(e)
  BY <1>2
<1>4. CASE ClientFails \/ RenderFails \/ LookupOwned \/ WriteFails \/ WriteRefused
  BY <1>2, <1>3, <1>4 DEF ClientFails, RenderFails, LookupOwned, WriteFails, WriteRefused
<1>5. CASE ReadNotSecret \/ ReadNoName \/ ReadNotFound \/ ReadFails
  <2>1. PICK e \in {"notSecret", "name", "notFound", "fetch"} : StopReading(e)
    BY <1>5 DEF ReadNotSecret, ReadNoName, ReadNotFound, ReadFails
  <2>2. w'.err = e
    BY <1>1, <1>2, <2>1 DEF StopReading, Workers
  <2> QED
    BY <2>2
<1>6. CASE FetchNotFound \/ FetchTemplate \/ CheckAge \/ LoadClient \/ ReadInput \/ InputsRead
  BY <1>1, <1>6 DEF FetchNotFound, FetchTemplate, CheckAge, LoadClient, ReadInput,
     InputsRead, Reading, At, Goto, Workers, Ended
<1>7. CASE Forget \/ FetchDeleting
  <2>1. w.tm = None
    BY <1>7 DEF Forget, FetchDeleting, At, WInv, Progress
  <2> QED
    BY <1>1, <1>7, <2>1 DEF Forget, FetchDeleting, Goto, Workers
<1>8. CASE LookupAbsent \/ LookupChanged
  BY <1>1, <1>8 DEF LookupAbsent, LookupChanged, Propose, Workers, Ended
<1>9. CASE Untrack \/ TrackInputs
  BY <1>1, <1>2, <1>9 DEF Untrack, TrackInputs, AfterTracking, Goto, Workers, Ended
<1>10. ~(StatusGet \/ StatusPut \/ StatusConflict \/ StatusNotFound \/ StatusFails \/ Finish)
  BY DEF StatusGet, StatusPut, StatusConflict, StatusNotFound, StatusFails, Finish,
     At, Ended
<1> QED
  BY <1>4, <1>5, <1>6, <1>7, <1>8, <1>9, <1>10 DEF Work, Faults

\* The copies of Secrets have no versions but these, all of them positive.
LEMMA Positive == \A v \in Versions : v > 0
BY ClusterAssumption

LEMMA UnchangedMade ==
  ASSUME WInv, Caught, LookupUnchanged, NEW t, w.item = t, Silent(tWatch, t), t \notin dirty
  PROVE  /\ Owned(t)
         /\ Silent(sWatch, t) => /\ secret[t] # None
                                 /\ secret[t].owner = tmpl[t].uid
                                 /\ MadeBy(tmpl[t].spec, secret[t].data)
<1>1. /\ At("lookup") /\ Cached # None /\ Mutate(Cached) = Cached
      /\ w.tm \in Memories /\ w.tm # None /\ t \in Templates /\ t \in Names
  BY Holds DEF LookupUnchanged, Mutable, WInv, At, Holding
<1>2. Cached.owner = w.tm.uid /\ MadeBy(w.tm.spec, Cached.data)
  BY <1>1, MutateFields, RenderedMade DEF WInv
<1>3. Cached \in SCopies(t) /\ Cached.owner > 0
  BY <1>1, <1>2, Positive DEF SCopies, Cached, Memories
<1>4. tCache[t] = tmpl[t] /\ w.tm.uid = tmpl[t].uid /\ w.tm.spec = tmpl[t].spec
  BY <1>1, LatestSent, ClusterAssumption DEF Caught, WInv, Held
<1>5. Silent(sWatch, t) => secret[t] = Cached
  BY <1>1, LatestSent DEF Caught, Cached
<1> QED
  BY <1>1, <1>2, <1>3, <1>4, <1>5 DEF Owned

LEMMA WriteMade ==
  ASSUME WInv, Caught, IInv', WriteSecret, NEW t, w.item = t, Silent(tWatch, t), t \notin dirty
  PROVE  /\ Owned(t)'
         /\ Silent(sWatch', t) => /\ secret'[t] # None
                                  /\ secret'[t].owner = tmpl[t].uid
                                  /\ MadeBy(tmpl[t].spec, secret'[t].data)
<1>1. /\ At("write") /\ w.pc = "write" /\ w.tm \in Memories /\ w.tm # None
      /\ t \in Templates /\ t \in Names /\ w.cand \in Candidates
      /\ w.cand.owner = w.tm.uid /\ MadeBy(w.tm.spec, w.cand.data)
      /\ StoreOutput /\ UNCHANGED sCache
  BY Holds, WriteFacts DEF WriteSecret, WriteFrame, WInv, Progress, At, Holding
<1>2. w.cand.owner > 0
  BY <1>1, Positive DEF Memories
<1>3. tCache[t] = tmpl[t] /\ w.tm.uid = tmpl[t].uid /\ w.tm.spec = tmpl[t].spec
  BY <1>1, LatestSent, ClusterAssumption DEF Caught, WInv, Held
<1>4. CASE w.cand = Output
  <2>1. UNCHANGED <<secret, sWatch>> /\ secret[t] = w.cand
    BY <1>1, <1>4 DEF StoreOutput, Output
  <2>2. secret[t] # None
    BY <1>1, <2>1, MemoryAssumption
  <2> QED
    BY <1>1, <1>2, <1>3, <2>1, <2>2 DEF Owned, SCopies
<1>5. CASE w.cand # Output
  <2> DEFINE obj == [w.cand EXCEPT !.rv = NewS(w.item),
                       !.uid = IF w.cand.rv = 0 THEN NewS(w.item) ELSE @]
             e == [key |-> t, obj |-> obj]
  <2>1. sWatch' = Append(sWatch, e) /\ secret' = [secret EXCEPT ![t] = obj]
    BY <1>1, <1>5 DEF StoreOutput, StoreSecret
  <2>2. obj.owner = w.cand.owner
    BY <1>1 DEF Candidates
  <2>3. obj \in SecretObjects \cup {None} /\ secret'[t] = obj
    BY <1>1, <2>1 DEF WInv, IInv, TypeOK
  <2>4. obj # None
    <3>1. NewS(w.item) \in Versions
      BY <1>1, <1>5, NewSVersion DEF StoreOutput
    <3>2. obj \in SecretObjects
      BY <1>1, <3>1, ClusterAssumption DEF Candidates, SecretObjects, Owners
    <3> QED
      BY <3>2, NoneAssumption
  <2>5. sWatch \in Seq(SEvents) /\ e \in SEvents /\ e.key = t
    BY <1>1, <2>3, Streams DEF SEvents, WInv
  <2> HIDE DEF e, obj
  <2>6. ~Silent(sWatch', t)
    BY <2>1, <2>5, AppendSilent
  <2>7. obj \in SCopies(t)'
    BY <2>3, <2>4 DEF SCopies
  <2> QED
    BY <1>2, <2>2, <2>6, <2>7 DEF Owned
<1> QED
  BY <1>4, <1>5

LEMMA MadeStep ==
  ASSUME WInv, Caught, Made, WInv', Caught', [Next]_vars
  PROVE  Made'
<1>0. IInv /\ IInv'
  BY DEF WInv
<1> SUFFICES ASSUME NEW t \in Templates, Rest(t)'
             PROVE  /\ Owned(t)'
                    /\ Silent(sWatch', t) => /\ secret'[t] # None
                                             /\ secret'[t].owner = tmpl'[t].uid
                                             /\ MadeBy(tmpl'[t].spec, secret'[t].data)
  BY DEF Made
<1>1. t \in Names /\ t \notin dirty' /\ tmpl'[t] = tmpl[t]
  BY RestBefore, ClusterAssumption DEF Rest
<1>2. CASE Rest(t) /\ ~Restart
  <2>1. CASE UNCHANGED <<secret, sWatch, sCache>>
    BY <1>1, <1>2, <2>1 DEF Made, Owned, SCopies, Sent
  <2>2. CASE WrittenS /\ UNCHANGED sCache
    BY <1>0, <1>1, <1>2, <2>2, WrittenMade DEF Made
  <2>3. CASE DeliverSecret
    BY <1>0, <1>1, <1>2, <2>3, DeliverMade DEF Made, DeliverSecret
  <2>4. CASE Environment \/ Work \/ Faults
    BY <1>0, <2>1, <2>2, <2>4, EnvironmentSteps, WorkerWrites
  <2>5. CASE \/ UNCHANGED vars \/ Resync \/ DeliverTemplate
             \/ \E s \in Templates : Get(s) \/ Timer(s)
    BY <2>1, <2>5 DEF vars, Resync, DeliverTemplate, Get, Timer, clusterVars
  <2> QED
    BY <1>2, <2>3, <2>4, <2>5 DEF Next
<1>3. CASE Reconciled(t)
  <2>1. w'.tm # None /\ Silent(tWatch, t) /\ t \notin dirty
    <3>1. w'.item # None /\ Alive(t)' /\ w'.item = t /\ w'.pc # "fetch"
      BY <1>3, ClusterAssumption DEF Reconciled, Rest, Ended
    <3>2. w'.tm # None
      BY <1>1, <3>1 DEF WInv, Held
    <3>3. ASSUME WrittenT PROVE Silent(tWatch, t)
      <4>1. PICK e \in TEvents : tWatch' = Append(tWatch, e)
        BY <3>3 DEF WrittenT, TEvents
      <4> QED
        BY <1>0, <4>1, Streams, AppendSilent DEF Rest
    <3> QED
      BY <1>0, <1>1, <1>3, <3>2, <3>3, WorkerWrites DEF Reconciled, Rest
  <2>2. CASE LookupUnchanged
    <3>1. UNCHANGED <<tmpl, secret, sWatch, sCache>>
      BY <2>2 DEF LookupUnchanged, WorkerFrame, clusterVars
    <3>2. Owned(t)' <=> Owned(t)
      BY <3>1 DEF Owned, SCopies
    <3>3. Silent(sWatch', t) <=> Silent(sWatch, t)
      BY <3>1
    <3>4. w.item = t
      BY <1>3 DEF Reconciled
    <3> QED
      BY <2>1, <2>2, <3>1, <3>2, <3>3, <3>4, UnchangedMade
  <2>3. CASE WriteSecret
    BY <1>0, <1>1, <1>3, <2>1, <2>3, WriteMade DEF Reconciled
  <2> QED
    BY <1>0, <1>3, <2>1, <2>2, <2>3, Ending DEF Reconciled
<1> QED
  BY <1>2, <1>3, RestBefore

---------------------------------------------------------------------------
(* ... and their statuses say so, unless the update of one has failed.     *)

Reported == \A t \in Templates :
  Rest(t) /\ (w.item = t => w.pc = "finish") => Succeeded(t)

LEMMA ReportedStep ==
  ASSUME WInv, Caught, Reported, WInv', Caught', [Next]_vars, [~StatusFails]_vars
  PROVE  Reported'
<1>0. IInv /\ IInv'
  BY DEF WInv
<1> SUFFICES ASSUME NEW t \in Templates, Rest(t)', w'.item = t => w'.pc = "finish"
             PROVE  Succeeded(t)'
  BY DEF Reported
<1>1. /\ tmpl'[t] = tmpl[t] /\ tCache'[t] = tCache[t] /\ t \notin dirty' /\ t # None
      /\ Alive(t)' /\ tCache'[t] = tmpl'[t]
  <2>1. tmpl'[t] = tmpl[t] /\ tCache'[t] = tCache[t]
    BY RestBefore
  <2>2. t \notin dirty' /\ Silent(tWatch', t) /\ Alive(t)' /\ t # None
    BY ClusterAssumption DEF Rest
  <2>3. Latest(tWatch', t, tCache'[t], tmpl'[t])
    BY DEF Caught
  <2> QED
    BY <2>1, <2>2, <2>3, LatestSent
<1>2. CASE Rest(t) /\ (w.item = t => w.pc = "finish")
  BY <1>1, <1>2 DEF Reported, Succeeded
<1>3. CASE Rest(t) /\ w.item = t /\ w.pc # "finish"
  <2>1. w.pc \in {"statusGet", "statusPut"} /\ w.err = "" /\ w \in Workers /\ w.tm # None
    BY <1>0, <1>3, Holds DEF Rest, Ended, Holding
  <2>2. /\ w.tm.status.cond = "Succeeded" /\ w.tm.status.named
        /\ w.tm.status.gen = tmpl[t].gen
        /\ w.pc = "statusPut" => w.latest = tmpl[t].rv
    <3>1. w.item # None /\ w.item \notin dirty /\ tCache[t] = tmpl[t]
      BY <1>1, <1>3 DEF Rest
    <3>2. /\ w.tm.status.gen = tCache[w.item].gen
          /\ w.pc = "statusPut" => w.latest = tCache[w.item].rv
      BY <2>1, <3>1 DEF WInv, Held
    <3>3. w.tm.status.cond = "Succeeded" /\ w.tm.status.named
      BY <2>1 DEF WInv, Progress
    <3> QED
      BY <1>3, <3>1, <3>2, <3>3
  <2>3. \/ StatusGet \/ StatusPut \/ StatusConflict \/ StatusNotFound
        \/ w' = w
    <3>1. CASE Aside
      BY <3>1 DEF Aside
    <3>2. ~ \E s \in Templates : Get(s)
      BY <2>1 DEF Get, At
    <3>3. ~Restart
      BY <1>1 DEF Restart, Rest, Alive, Replayed
    <3>4. CASE (Work \/ Faults) /\ ~StatusFails
      BY <2>1, <3>4 DEF Work, Faults, FetchNotFound, Forget, FetchDeleting,
         FetchTemplate, CheckAge, LoadClient, ReadInput, ReadNotSecret, ReadNoName,
         ReadNotFound, InputsRead, Untrack, TrackInputs, RenderFails, LookupAbsent,
         LookupOwned, LookupUnchanged, LookupChanged, WriteRefused, ClientFails,
         ReadFails, WriteSecret, WriteFails, Finish, Reading, Mutable, At
    <3>5. CASE UNCHANGED vars
      BY <3>5 DEF vars, ctrlVars
    <3> QED
      BY <1>0, <3>1, <3>2, <3>3, <3>4, <3>5, AsideSteps DEF Next
  <2>4. ASSUME w'.pc = "finish" PROVE Succeeded(t)'
    <3>1. ~StatusGet
      BY <1>1, <1>3, <2>1, <2>4 DEF StatusGet, Alive, Workers
    <3>2. ~StatusConflict /\ ~StatusNotFound
      BY <1>1, <1>3, <2>1, <2>2 DEF StatusConflict, StatusNotFound, Subject, At, Alive
    <3>3. CASE StatusPut
      <4>1. Subject.status = w.tm.status
        <5> SUFFICES ASSUME Subject.status # w.tm.status PROVE FALSE
          OBVIOUS
        <5>1. PICK obj : StoreTemplate(t, obj)
          BY <1>3, <3>3 DEF StatusPut, StoreStatus
        <5>2. obj \in TemplateObjects \cup {None}
          BY <1>0, <5>1 DEF StoreTemplate, IInv, TypeOK
        <5> DEFINE e == [key |-> t, obj |-> obj]
        <5>3. e \in TEvents /\ tWatch' = Append(tWatch, e) /\ e.key = t
          BY <5>1, <5>2 DEF StoreTemplate, TEvents
        <5> HIDE DEF e
        <5> QED
          BY <1>0, <5>3, Streams, AppendSilent DEF Rest
      <4> QED
        BY <1>1, <1>3, <2>2, <4>1 DEF Subject, Succeeded
    <3> QED
      BY <1>3, <2>1, <2>3, <2>4, <3>1, <3>2, <3>3
  <2>5. w'.item = t
    <3>1. w'.item = w.item
      BY <2>1, <2>3 DEF StatusGet, StatusPut, StatusConflict, StatusNotFound, Goto,
         Workers
    <3> QED
      BY <1>3, <3>1
  <2> QED
    BY <2>4, <2>5
<1>4. CASE Reconciled(t)
  <2>1. w'.pc = "finish" /\ w'.item = t
    BY <1>4 DEF Reconciled
  <2>2. w'.tm # None
    BY <1>1, <2>1 DEF WInv, Held
  <2>3. LookupUnchanged \/ WriteSecret
    BY <1>0, <1>4, <2>2, Ending DEF Reconciled
  <2>4. w \in Workers
    BY <1>0, Holds
  <2>5. w'.pc = "statusGet"
    BY <2>3, <2>4 DEF LookupUnchanged, WriteSecret, Complete, Workers
  <2> QED
    BY <2>1, <2>5
<1> QED
  BY <1>2, <1>3, <1>4, RestBefore DEF Rest

---------------------------------------------------------------------------
(* The theorems.                                                           *)

\* Nothing is at rest at the start: every SecretTemplate is queued.
LEMMA InitRest == Init => Tracked /\ Made /\ Reported
<1>1. Init => \A t \in Templates : ~Rest(t)
  BY DEF Init, ClusterInit, Rest, Alive
<1> QED
  BY <1>1 DEF Tracked, Made, Reported

LEMMA QuietRest ==
  ASSUME Caught, NEW t \in Templates, Quiet(t), Reconcilable(t)
  PROVE  Rest(t) /\ tCache[t] = tmpl[t] /\ Silent(sWatch, t) /\ w.item # t
<1>1. Silent(tWatch, t) /\ Silent(sWatch, t) /\ t \notin dirty \cup waiting /\ w.item # t
  BY DEF Quiet, Silent
<1>2. tCache[t] = tmpl[t]
  BY <1>1, LatestSent DEF Caught
<1> QED
  BY <1>1, <1>2 DEF Rest, Alive, Reconcilable

\* The worker never takes its copy for that of the cache when it is not.
THEOREM CopiesCurrent == Spec => [](Caught /\ Held /\ Progress)
<1>1. Init => WInv /\ Caught
  BY InitIInv, InitWorker DEF WInv
<1>2. WInv /\ Caught /\ [Next]_vars => WInv' /\ Caught'
  BY WStep, CaughtStep DEF WInv
<1>3. WInv /\ Caught => Caught /\ Held /\ Progress
  BY DEF WInv
<1> QED
  BY <1>1, <1>2, <1>3, PTL DEF Spec

LEMMA WInvariance == Spec => [](WInv /\ Caught)
<1>1. IInv /\ Caught /\ Held /\ Progress => WInv /\ Caught
  BY DEF WInv
<1> QED
  BY <1>1, Invariance, CopiesCurrent, PTL

\* When there is nothing left to do for a SecretTemplate the tracker knows
\* every input its spec names outright.
THEOREM InputsTracked == Spec => []SettledTracker
<1>1. Init => Tracked
  BY InitRest
<1>2. WInv /\ Caught /\ Tracked /\ (WInv /\ Caught)' /\ [Next]_vars => Tracked'
  BY TrackedStep
<1>3. Caught /\ Tracked => SettledTracker
  BY QuietRest DEF Tracked, SettledTracker, Literals
<1> QED
  BY <1>1, <1>2, <1>3, WInvariance, PTL DEF Spec

\* ... its Secret is there, its own, and what its spec makes of some inputs.
THEOREM SecretsSettle == Spec => []SettledSecret
<1>1. Init => Made
  BY InitRest
<1>2. WInv /\ Caught /\ Made /\ (WInv /\ Caught)' /\ [Next]_vars => Made'
  BY MadeStep
<1>3. Caught /\ Made => SettledSecret
  BY QuietRest DEF Made, SettledSecret
<1> QED
  BY <1>1, <1>2, <1>3, WInvariance, PTL DEF Spec

\* ... and its status reports success for its present generation, in every
\* behaviour in which no status update fails (updateStatus's error is
\* dropped, line 178): conflicts, NotFounds and every other fault included.
THEOREM StatusesSettle == Spec /\ [][~StatusFails]_vars => []SettledStatus
<1>1. Init => Reported
  BY InitRest
<1>2. WInv /\ Caught /\ Reported /\ (WInv /\ Caught)' /\ [Next]_vars /\ [~StatusFails]_vars
        => Reported'
  BY ReportedStep
<1>3. Caught /\ Reported => SettledStatus
  BY QuietRest DEF Reported, SettledStatus
<1> QED
  BY <1>1, <1>2, <1>3, WInvariance, PTL DEF Spec

=============================================================================
