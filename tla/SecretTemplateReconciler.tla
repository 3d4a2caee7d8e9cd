----------------------- MODULE SecretTemplateReconciler -----------------------
(***************************************************************************)
(* The controller (pkg/generator/secret_template_reconciler.go): its work  *)
(* queue, its input tracker and the one worker that reconciles             *)
(* SecretTemplates (MaxConcurrentReconciles is 1).  Every request to the   *)
(* API server, every read of the cache and every call of the tracker is a  *)
(* step of its own, so that watch events, users and restarts come in       *)
(* between.  SecretTemplates and output Secrets are read from the cache;   *)
(* inputs are read live, since the manager's client does not cache         *)
(* unstructured objects.                                                   *)
(*                                                                         *)
(* A spec has the fields                                                   *)
(*   refs   the input resources, in order: [kind, name]; name is None for  *)
(*          a name that is a JSONPath over the input read just before      *)
(*   tmpl   the JSONPath template                                          *)
(*   sa     whether serviceAccountName is set                              *)
(*   type   the template's Secret type                                     *)
(*   sdata  whether the template has stringData                            *)
(***************************************************************************)
EXTENDS Cluster, TrackerOps

CONSTANTS
  NameIn(_),     \* the Secret named by a content, None if the path is missing
  Render(_, _),  \* the content a template makes of its inputs, None if it fails
  MaxTries       \* attempts of retry.DefaultRetry (5 in the code)

Refs == [kind : {"Secret"}, name : Names \cup {None}]
          \cup [kind : {"Other"}, name : Others]

ASSUME ReconcilerAssumption ==
  /\ MaxTries \in Nat
  /\ \A v \in Values : NameIn(v) \in Names \cup {None}
  /\ \A sp \in Specs :
       /\ sp.refs \in Seq(Refs)
       /\ sp.sa \in BOOLEAN /\ sp.type \in Types /\ sp.sdata \in BOOLEAN
       /\ \A vals \in [1 .. Len(sp.refs) -> Values] :
            Render(sp.tmpl, vals) \in Values \cup {None}

VARIABLES
  dirty,    \* templates to reconcile: the work queue and its dirty set
  waiting,  \* templates to queue later: RequeueAfter and backoff
  tracker   \* who tracks which Secrets

ctrlVars == <<dirty, waiting, tracker, w>>
vars == <<clusterVars, ctrlVars>>

\* The worker w: where it is, the template it works on, the SecretTemplate it
\* holds in memory, forceRegeneration, the inputs read and their keys, the
\* Secret it will write (resourceVersion 0: to be created), its error ("" for
\* none), and, for the status update, the resourceVersion of the latest
\* SecretTemplate and the attempts that ended in a conflict.
Idle == [pc |-> "idle", item |-> None, tm |-> None, force |-> FALSE,
         got |-> << >>, keys |-> {}, cand |-> None, err |-> "",
         latest |-> 0, tries |-> 0]

At(pc) == w.pc = pc
Goto(pc) == w' = [w EXCEPT !.pc = pc]
Spec1 == w.tm.spec

\* Steps of the worker that touch neither the cluster nor the queue.
WorkerFrame == UNCHANGED <<clusterVars, dirty, waiting>>

---------------------------------------------------------------------------
(* The work queue, and the start of Reconcile.                             *)

Get(t) == /\ At("idle") /\ t \in dirty
          /\ dirty' = dirty \ {t}
          /\ w' = [w EXCEPT !.pc = "fetch", !.item = t]
          /\ UNCHANGED <<clusterVars, waiting, tracker>>

FetchNotFound == /\ At("fetch") /\ tCache[w.item] = None
                 /\ Goto("forget")
                 /\ WorkerFrame /\ UNCHANGED tracker

\* A deleted SecretTemplate is no longer tracking anything.
Forget == /\ At("forget")
          /\ tracker' = UntrackAll(tracker, w.item)
          /\ Goto("finish")
          /\ WorkerFrame

FetchDeleting == /\ At("fetch")
                 /\ tCache[w.item] # None /\ tCache[w.item].deleting
                 /\ Goto("finish")
                 /\ WorkerFrame /\ UNCHANGED tracker

\* Mutant: the observed generation is not recorded.
FetchTemplateUnobserved ==
  /\ At("fetch")
  /\ LET o == tCache[w.item] IN
       /\ o # None /\ ~o.deleting
       /\ w' = [w EXCEPT !.pc = "age",
                  !.tm = [uid |-> o.uid, spec |-> o.spec,
                          status |-> [o.status EXCEPT !.cond = "Reconciling"]]]
  /\ WorkerFrame /\ UNCHANGED tracker

\* Status.SetReconciling changes the copy in memory only.
FetchTemplate ==
  /\ At("fetch")
  /\ LET o == tCache[w.item] IN
       /\ o # None /\ ~o.deleting
       /\ w' = [w EXCEPT !.pc = "age",
                  !.tm = [uid |-> o.uid, spec |-> o.spec,
                          status |-> [o.status EXCEPT !.gen = o.gen,
                                                      !.cond = "Reconciling"]]]
  /\ WorkerFrame /\ UNCHANGED tracker

---------------------------------------------------------------------------
(* reconcile: the age of the Secret, then the inputs.                      *)

\* Mutant: the status does not name the Secret.
OutcomeUnnamed(e) ==
  [w.tm.status EXCEPT !.cond = IF e = "" THEN "Succeeded" ELSE e]

\* The status in memory once reconcile has returned the error e.
Outcome(e) ==
  [w.tm.status EXCEPT !.cond = IF e = "" THEN "Succeeded" ELSE e,
                      !.named = @ \/ e = ""]

\* What reconcile held is dropped; updateStatus follows.
Complete(e) ==
  w' = [w EXCEPT !.pc = "statusGet", !.err = e, !.force = FALSE,
          !.got = << >>, !.keys = {}, !.cand = None, !.tm.status = Outcome(e)]

CheckAge ==
  /\ At("age")
  /\ LET s == sCache[w.item] IN
       w' = [w EXCEPT !.pc = IF Spec1.sa THEN "client" ELSE "inputs",
               !.force = MaxAge /\ s # None /\ <<w.item, s.uid>> \in aged]
  /\ WorkerFrame /\ UNCHANGED tracker

LoadClient == /\ At("client")
              /\ Goto("inputs")
              /\ WorkerFrame /\ UNCHANGED tracker

\* No such service account, or no token for it: nothing is read, and the
\* return comes before the deferred tracking is set up.
ClientFails == /\ At("client")
               /\ Spend("faults")
               /\ Complete("client")
               /\ UNCHANGED <<tmpl, secret, other, aged, tWatch, sWatch,
                              tCache, sCache, dirty, waiting, tracker>>

AllRead == Len(w.got) = Len(Spec1.refs)
Ref == Spec1.refs[Len(w.got) + 1]

RefName == IF Ref.name # None THEN Ref.name
           ELSE IF w.got = << >> THEN None ELSE NameIn(w.got[Len(w.got)])

Allowed == Spec1.sa \/ Ref.kind = "Secret"

Live == IF Ref.kind = "Secret"
        THEN IF secret[RefName] = None THEN None ELSE secret[RefName].data
        ELSE other[RefName]

Reading == At("inputs") /\ ~AllRead

\* The deferred function runs on errors too, unless a ServiceAccount reads.
StopReading(e) == IF Spec1.sa THEN Complete(e)
                  ELSE w' = [w EXCEPT !.pc = "untrack", !.err = e]

\* Mutant: an input named by another one is not tracked.
ReadInputLiteral ==
  /\ Reading /\ Allowed /\ RefName # None /\ Live # None
  /\ w' = [w EXCEPT !.got = Append(@, Live), !.keys = @ \cup ({Ref.name} \ {None})]
  /\ WorkerFrame /\ UNCHANGED tracker

ReadInput ==
  /\ Reading /\ Allowed /\ RefName # None /\ Live # None
  /\ w' = [w EXCEPT !.got = Append(@, Live), !.keys = @ \cup {RefName}]
  /\ WorkerFrame /\ UNCHANGED tracker

ReadNotSecret == /\ Reading /\ ~Allowed
                 /\ StopReading("notSecret")
                 /\ WorkerFrame /\ UNCHANGED tracker

ReadNoName == /\ Reading /\ Allowed /\ RefName = None
              /\ StopReading("name")
              /\ WorkerFrame /\ UNCHANGED tracker

ReadNotFound == /\ Reading /\ Allowed /\ RefName # None /\ Live = None
                /\ StopReading("notFound")
                /\ WorkerFrame /\ UNCHANGED tracker

ReadFails == /\ Reading /\ Allowed /\ RefName # None
             /\ Spend("faults")
             /\ StopReading("fetch")
             /\ UNCHANGED <<tmpl, secret, other, aged, tWatch, sWatch,
                            tCache, sCache, dirty, waiting, tracker>>

\* Mutant: inputs are tracked only after an error.
InputsReadUntracked == /\ At("inputs") /\ AllRead
                       /\ Goto("lookup")
                       /\ WorkerFrame /\ UNCHANGED tracker

InputsRead == /\ At("inputs") /\ AllRead
              /\ Goto(IF Spec1.sa THEN "lookup" ELSE "untrack")
              /\ WorkerFrame /\ UNCHANGED tracker

\* UntrackAll and Track take the tracker's lock one after the other.
AfterTracking == IF w.err = "" THEN Goto("lookup") ELSE Complete(w.err)

Untrack == /\ At("untrack")
           /\ tracker' = UntrackAll(tracker, w.item)
           /\ IF w.keys = {} THEN AfterTracking ELSE Goto("track")
           /\ WorkerFrame

\* Mutant: what was just tracked is untracked.
TrackInputsFirst == /\ At("track")
                    /\ tracker' = UntrackAll(Track(tracker, w.item, w.keys), w.item)
                    /\ AfterTracking
                    /\ WorkerFrame

TrackInputs == /\ At("track")
               /\ tracker' = Track(tracker, w.item, w.keys)
               /\ AfterTracking
               /\ WorkerFrame

---------------------------------------------------------------------------
(* reconcile: CreateOrUpdate of the Secret.                                *)

Rendered == Render(Spec1.tmpl, w.got)
Cached == sCache[w.item]

\* Mutant: a Secret that has a controller keeps it.
MutateKeepingOwner(s) ==
  [s EXCEPT !.data = Rendered, !.owner = IF @ = NoOwner THEN w.tm.uid ELSE @]

\* Mutant: the type of an existing Secret follows the template.
MutateType(s) == [s EXCEPT !.data = Rendered, !.owner = w.tm.uid, !.type = Spec1.type]

\* The function given to CreateOrUpdate: what forceRegeneration clears is set
\* again at once; the type of a Secret that exists stays.
Mutate(s) ==
  LET cleared == IF w.force THEN [s EXCEPT !.data = None] ELSE s
  IN  [cleared EXCEPT !.data = Rendered, !.owner = w.tm.uid]

\* Mutant: the Secret is created without its controller.
NewOutputUnowned == [rv |-> 0, uid |-> 0, data |-> Rendered,
                     type |-> Spec1.type, owner |-> NoOwner]

NewOutput == [rv |-> 0, uid |-> 0, data |-> Rendered, type |-> Spec1.type,
              owner |-> w.tm.uid]

RenderFails == /\ At("lookup") /\ Rendered = None
               /\ Complete("render")
               /\ WorkerFrame /\ UNCHANGED tracker

Propose(s) == w' = [w EXCEPT !.pc = "write", !.cand = s]

LookupAbsent == /\ At("lookup") /\ Rendered # None /\ Cached = None
                /\ Propose(NewOutput)
                /\ WorkerFrame /\ UNCHANGED tracker

\* SetControllerReference refuses a Secret that has another controller.
LookupOwned == /\ At("lookup") /\ Rendered # None
               /\ Cached # None /\ Cached.owner = Foreign
               /\ Complete("owned")
               /\ WorkerFrame /\ UNCHANGED tracker

\* Mutant: another controller's Secret is taken over.
MutableAnyway == At("lookup") /\ Rendered # None /\ Cached # None

Mutable == /\ At("lookup") /\ Rendered # None
           /\ Cached # None /\ Cached.owner # Foreign

\* A Secret read back has no stringData, so a template with some differs.
LookupUnchanged == /\ Mutable /\ Mutate(Cached) = Cached /\ ~Spec1.sdata
                   /\ Complete("")
                   /\ WorkerFrame /\ UNCHANGED tracker

LookupChanged == /\ Mutable
                 /\ Mutate(Cached) # Cached \/ Spec1.sdata
                 /\ Propose(Mutate(Cached))
                 /\ WorkerFrame /\ UNCHANGED tracker

---------------------------------------------------------------------------
(* The write of the Secret.                                                *)

Output == secret[w.item]

\* Why the API server refuses w.cand, "" if it takes it.
Refusal ==
  IF w.cand.rv = 0 THEN IF Output = None THEN "" ELSE "exists"
  ELSE IF Output = None THEN "gone"
  ELSE IF Output.rv # w.cand.rv THEN "conflict"
  ELSE IF Output.type # w.cand.type THEN "invalid"
  ELSE ""

\* What the API server does with it: a creation gives it a UID, an update
\* that changes nothing is not a write.
StoreOutput ==
  IF w.cand = Output
  THEN UNCHANGED <<secret, sWatch>>
  ELSE StoreSecret(w.item, [w.cand EXCEPT !.rv = NewS(w.item),
                              !.uid = IF w.cand.rv = 0 THEN NewS(w.item) ELSE @])

WriteFrame == UNCHANGED <<tmpl, other, aged, tWatch, tCache, sCache,
                          dirty, waiting, tracker>>

WriteSecret == /\ At("write") /\ Refusal = ""
               /\ StoreOutput
               /\ Complete("")
               /\ WriteFrame /\ UNCHANGED budget

WriteRefused == /\ At("write") /\ Refusal # ""
                /\ Complete(Refusal)
                /\ WorkerFrame /\ UNCHANGED tracker

\* The request or its answer is lost: it may or may not have been applied.
WriteFails == /\ At("write")
              /\ Spend("faults")
              /\ \/ Refusal = "" /\ StoreOutput
                 \/ UNCHANGED <<secret, sWatch>>
              /\ Complete("write")
              /\ WriteFrame

---------------------------------------------------------------------------
(* updateStatus: its error is dropped by the defer.  After a NotFound it   *)
(* updates the whole object instead, which leaves the status subresource   *)
(* alone.                                                                  *)

StatusGet ==
  /\ At("statusGet")
  /\ LET o == tCache[w.item] IN
       w' = IF o = None THEN [w EXCEPT !.pc = "finish"]
            ELSE [w EXCEPT !.pc = "statusPut", !.latest = o.rv]
  /\ WorkerFrame /\ UNCHANGED tracker

Subject == tmpl[w.item]

\* Mutant: every status differs from the last, as if it were stamped.
StoreStatusStamped ==
  StoreTemplate(w.item, [Subject EXCEPT !.rv = NewT(w.item),
                                        !.status = w.tm.status])

StoreStatus ==
  IF Subject.status = w.tm.status
  THEN UNCHANGED <<tmpl, tWatch>>
  ELSE StoreTemplate(w.item, [Subject EXCEPT !.rv = NewT(w.item),
                                             !.status = w.tm.status])

StatusFrame == UNCHANGED <<secret, other, aged, sWatch, tCache, sCache,
                           dirty, waiting, tracker>>

StatusPut == /\ At("statusPut")
             /\ Subject # None /\ Subject.rv = w.latest
             /\ StoreStatus
             /\ Goto("finish")
             /\ StatusFrame /\ UNCHANGED budget

StatusConflict ==
  /\ At("statusPut")
  /\ Subject # None /\ Subject.rv # w.latest
  /\ w' = IF w.tries + 1 < MaxTries
          THEN [w EXCEPT !.pc = "statusGet", !.tries = @ + 1]
          ELSE [w EXCEPT !.pc = "finish"]
  /\ WorkerFrame /\ UNCHANGED tracker

StatusNotFound == /\ At("statusPut")
                  /\ Subject = None
                  /\ Goto("finish")
                  /\ WorkerFrame /\ UNCHANGED tracker

StatusFails == /\ At("statusPut")
               /\ Spend("faults")
               /\ \/ Subject # None /\ Subject.rv = w.latest /\ StoreStatus
                  \/ UNCHANGED <<tmpl, tWatch>>
               /\ Goto("finish")
               /\ StatusFrame

---------------------------------------------------------------------------
(* The end of the reconcile: backoff after an error, or RequeueAfter for a *)
(* template with a ServiceAccount or an age limit, then the deferred Done, *)
(* in one step (WorkQueue has them apart).                                 *)

\* Mutants: an error is not retried; no period for an age limit, or for a
\* ServiceAccount.
RequeueNoErrors == w.tm # None /\ (w.tm.spec.sa \/ MaxAge)
RequeueNoAge == w.err # "" \/ (w.tm # None /\ w.tm.spec.sa)
RequeueNoAccount == w.err # "" \/ (w.tm # None /\ MaxAge)

Requeue == \/ w.err # ""
           \/ w.tm # None /\ (w.tm.spec.sa \/ MaxAge)

\* Mutants: the worker keeps the item; what came in meanwhile is forgotten.
FinishHolding == /\ At("finish")
                 /\ waiting' = IF Requeue THEN waiting \cup {w.item} ELSE waiting
                 /\ w' = [Idle EXCEPT !.item = w.item]
                 /\ UNCHANGED <<clusterVars, dirty, tracker>>

FinishForgetting == /\ At("finish")
                    /\ waiting' = IF Requeue THEN waiting \cup {w.item} ELSE waiting
                    /\ w' = Idle
                    /\ dirty' = dirty \ {w.item}
                    /\ UNCHANGED <<clusterVars, tracker>>

Finish == /\ At("finish")
          /\ waiting' = IF Requeue THEN waiting \cup {w.item} ELSE waiting
          /\ w' = Idle
          /\ UNCHANGED <<clusterVars, dirty, tracker>>

Timer(t) == /\ t \in waiting
            /\ waiting' = waiting \ {t}
            /\ dirty' = dirty \cup {t}
            /\ UNCHANGED <<clusterVars, tracker, w>>

---------------------------------------------------------------------------
(* Watch events, the resync of the caches, and restarts.                   *)

\* EnqueueRequestForObject.
DeliverTemplate ==
  /\ tWatch # << >>
  /\ LET e == Head(tWatch) IN
       /\ tCache' = [tCache EXCEPT ![e.key] = e.obj]
       /\ dirty' = dirty \cup {e.key}
  /\ tWatch' = Tail(tWatch)
  /\ UNCHANGED <<tmpl, secret, other, aged, sWatch, sCache, budget,
                 waiting, tracker, w>>

\* Mutant: Secrets do not enqueue their owner.
OwnerIgnored(n, obj) == {}

\* EnqueueRequestForOwner with OnlyControllerOwner.
OwnerOf(n, obj) == IF n \in Templates /\ obj # None
                   THEN IF obj.owner > 0 THEN {n} ELSE {}
                   ELSE {}

\* Both handlers see the object before and after.
DeliverSecret ==
  /\ sWatch # << >>
  /\ LET e == Head(sWatch) IN
       /\ sCache' = [sCache EXCEPT ![e.key] = e.obj]
       /\ dirty' = dirty \cup OwnerOf(e.key, sCache[e.key])
                        \cup OwnerOf(e.key, e.obj)
                        \cup GetTracking(tracker, e.key)
  /\ sWatch' = Tail(sWatch)
  /\ UNCHANGED <<tmpl, secret, other, aged, tWatch, tCache, budget,
                 waiting, tracker, w>>

\* The templates the handlers enqueue when given every cached object.
Replayed(tc, sc, tr) ==
  {t \in Templates : \/ tc[t] # None
                     \/ \E n \in Names : \/ t \in OwnerOf(n, sc[n])
                                         \/ sc[n] # None /\ t \in GetTracking(tr, n)}

\* The informers replay their caches to the handlers (every 10 hours).
Resync ==
  /\ UserDoes("resync")
  /\ dirty' = dirty \cup Replayed(tCache, sCache, tracker)
  /\ UNCHANGED <<tmpl, secret, other, aged, tWatch, sWatch, tCache, sCache,
                 waiting, tracker, w>>

\* A new process, or the next leader: the caches are read anew and every
\* object in them is handed to the handlers, on an empty tracker.
Restart ==
  /\ Spend("crashes")
  /\ tCache' = tmpl /\ sCache' = secret
  /\ tWatch' = << >> /\ sWatch' = << >>
  /\ waiting' = {}
  /\ tracker' = [t \in Templates |-> {}]
  /\ dirty' = Replayed(tmpl, secret, tracker')
  /\ w' = Idle
  /\ UNCHANGED <<tmpl, secret, other, aged>>

---------------------------------------------------------------------------

Init == /\ ClusterInit
        /\ dirty = {t \in Templates : tmpl[t] # None}
        /\ waiting = {}
        /\ tracker = [t \in Templates |-> {}]
        /\ w = Idle

\* The steps of one reconcile that need no luck.
Work ==
  \/ FetchNotFound \/ Forget \/ FetchDeleting \/ FetchTemplate
  \/ CheckAge \/ LoadClient
  \/ ReadInput \/ ReadNotSecret \/ ReadNoName \/ ReadNotFound \/ InputsRead
  \/ Untrack \/ TrackInputs
  \/ RenderFails \/ LookupAbsent \/ LookupOwned \/ LookupUnchanged
  \/ LookupChanged
  \/ WriteSecret \/ WriteRefused
  \/ StatusGet \/ StatusPut \/ StatusConflict \/ StatusNotFound
  \/ Finish

Faults == ClientFails \/ ReadFails \/ WriteFails \/ StatusFails

Next ==
  \/ Environment /\ UNCHANGED ctrlVars
  \/ \E t \in Templates : Get(t) \/ Timer(t)
  \/ Work
  \/ Faults
  \/ DeliverTemplate \/ DeliverSecret \/ Resync \/ Restart

Spec == Init /\ [][Next]_vars

---------------------------------------------------------------------------
(* Properties.                                                             *)

PCs == {"idle", "fetch", "forget", "age", "client", "inputs", "untrack",
        "track", "lookup", "write", "statusGet", "statusPut", "finish"}

\* The copy of a SecretTemplate in memory, the Secret to write, the worker.
Memories == [uid : Versions, spec : Specs, status : Statuses]

Candidates ==
  [rv : {0}, uid : {0}, data : Values, type : Types, owner : Versions]
    \cup [rv : Versions, uid : Versions, data : Values, type : Types, owner : Versions]

\* None is no object.
ASSUME MemoryAssumption == None \notin Memories \cup Candidates

Workers == [pc : PCs, item : Templates \cup {None}, tm : Memories \cup {None},
            force : BOOLEAN, got : Seq(Values), keys : SUBSET (Names \cup Others),
            cand : Candidates \cup {None}, err : Reasons \cup {""},
            latest : Versions \cup {0}, tries : Nat]

TypeOK ==
  /\ tmpl \in [Templates -> TemplateObjects \cup {None}]
  /\ tCache \in [Templates -> TemplateObjects \cup {None}]
  /\ tWatch \in Seq([key : Templates, obj : TemplateObjects \cup {None}])
  /\ secret \in [Names -> SecretObjects \cup {None}]
  /\ sCache \in [Names -> SecretObjects \cup {None}]
  /\ sWatch \in Seq([key : Names, obj : SecretObjects \cup {None}])
  /\ other \in [Others -> Values \cup {None}]
  /\ aged \subseteq Names \X Versions
  /\ budget \in [ops : Nat, faults : Nat, crashes : Nat]
  /\ dirty \subseteq Templates /\ waiting \subseteq Templates
  /\ tracker \in [Templates -> SUBSET Names]
  /\ w \in Workers
  /\ w.pc = "idle" <=> w.item = None

\* Nothing in the controller, nor on its way there, is about t.
Quiet(t) == /\ t \notin dirty \cup waiting
            /\ w.item # t
            /\ \A i \in DOMAIN tWatch : tWatch[i].key # t
            /\ \A i \in DOMAIN sWatch : sWatch[i].key # t

Reconcilable(t) == tmpl[t] # None /\ ~tmpl[t].deleting

\* d is what the template of sp makes of some inputs.
MadeBy(sp, d) == \E vals \in [1 .. Len(sp.refs) -> Values] :
                   Render(sp.tmpl, vals) = d

\* Once nothing is left to do for a SecretTemplate its Secret exists, is
\* controlled by this very object (not by one deleted before it under the
\* same name) and has the content its present spec makes of some inputs,
\* whatever users, the garbage collector, lost requests, stale caches and
\* restarts did to either on the way.
SettledSecret ==
  \A t \in Templates : Quiet(t) /\ Reconcilable(t) =>
    /\ secret[t] # None
    /\ secret[t].owner = tmpl[t].uid
    /\ MadeBy(tmpl[t].spec, secret[t].data)

\* The status of t reports success for its present generation.
Succeeded(t) == /\ tmpl[t].status.cond = "Succeeded"
                /\ tmpl[t].status.gen = tmpl[t].gen
                /\ tmpl[t].status.named

\* ... and its status says so, for its present generation.  updateStatus
\* may copy an outcome onto a newer object or give up after its retries:
\* whenever it does, something is still on its way.
SettledStatus ==
  \A t \in Templates : Quiet(t) /\ Reconcilable(t) => Succeeded(t)

\* ... and the tracker knows every input its spec names outright, so that
\* their next change reaches it.
SettledTracker ==
  \A t \in Templates : Quiet(t) /\ Reconcilable(t) =>
    LET sp == tmpl[t].spec IN
      sp.sa \/ {sp.refs[i].name : i \in DOMAIN sp.refs} \ {None} \subseteq tracker[t]

\* A Secret controlled by somebody else is only ever changed by users: the
\* cache may still show it without an owner, but then the write is refused.
ForeignUntouched ==
  [][\A n \in Names :
       /\ secret[n] # None /\ secret[n].owner = Foreign
       /\ secret'[n] # secret[n]
       => budget'.ops # budget.ops]_vars

\* No update of the controller is refused for changing the type of a Secret,
\* which would fail every reconcile of a template whose type was edited.
TypeKept == w.err # "invalid"

\* The name of the i-th input of a spec, given the contents of those before.
InputName(sp, vals, i) == IF sp.refs[i].name # None THEN sp.refs[i].name
                          ELSE IF i = 1 THEN None ELSE NameIn(vals[i - 1])

\* vals are the contents of the inputs of t as they are now: none is missing,
\* and only a ServiceAccount reads what is not a Secret.
InputsNow(t, vals) ==
  LET sp == tmpl[t].spec IN
    \A i \in DOMAIN sp.refs :
      LET name == InputName(sp, vals, i) IN
        /\ name # None
        /\ IF sp.refs[i].kind = "Secret"
           THEN secret[name] # None /\ secret[name].data = vals[i]
           ELSE sp.sa /\ other[name] # None /\ other[name] = vals[i]

Contents == {secret[n].data : n \in {m \in Names : secret[m] # None}}
              \cup {other[o] : o \in Others}

\* The content t renders from its inputs as they are now, None if it cannot.
Now(t) ==
  LET all == {vals \in [DOMAIN tmpl[t].spec.refs -> Contents] : InputsNow(t, vals)}
  IN  IF all = {} THEN None
      ELSE Render(tmpl[t].spec.tmpl, CHOOSE vals \in all : TRUE)

\* The Secret of t is there, its own, and what the inputs give now.
UpToDate(t) == /\ secret[t] # None
               /\ secret[t].owner = tmpl[t].uid
               /\ secret[t].data = Now(t)

\* No change of an input is lost: when there is nothing left to do for a
\* SecretTemplate and every Secret event has been handled, its Secret has
\* the content the inputs give now (secret_template_reconciler.go:288: "rely
\* on resource tracking to trigger reconciliation").
NoLostUpdate ==
  \A t \in Templates :
    Quiet(t) /\ sWatch = << >> /\ Reconcilable(t) /\ ~tmpl[t].spec.sa
      => UpToDate(t)

\* status.secret.name, once set, stays set for the life of the
\* SecretTemplate, failed reconciles included (secret_template_test.go:129).
SecretNameKept ==
  [][\A t \in Templates :
       tmpl[t] # None /\ tmpl'[t] # None /\ tmpl'[t].uid = tmpl[t].uid
         => (tmpl[t].status.named => tmpl'[t].status.named)]_vars

\* A reconcile that finds its Secret older than maxSecretAge and renders it
\* writes it anew ("Maximum age of a secret before forcing regeneration",
\* main.go:63).
AgedRegenerated ==
  [][w.force /\ w'.pc # w.pc /\ At("lookup") /\ w'.err = "" => w'.pc = "write"]_vars

---------------------------------------------------------------------------
(* Liveness.  The worker runs on; the queue is first-in first-out, so a    *)
(* template in it is taken when the worker comes back often enough; timers *)
(* fire, watches deliver, finalizers and the garbage collector finish.     *)
(* Neither users, faults nor restarts are fair, and neither is Resync,     *)
(* whose ten hours no promise rests on.                                    *)

Cleaning(t) == Finalize(t) \/ CollectGarbage(t)

Fairness ==
  /\ WF_vars(Work)
  /\ WF_vars(DeliverTemplate) /\ WF_vars(DeliverSecret)
  /\ \A t \in Templates : /\ SF_vars(Get(t))
                          /\ WF_vars(Timer(t))
                          /\ WF_vars(Cleaning(t) /\ UNCHANGED ctrlVars)

FairSpec == Spec /\ Fairness

\* The inputs, or another controller of its Secret, stand in the way of t.
Hindered(t) == Now(t) = None \/ (secret[t] # None /\ secret[t].owner = Foreign)

\* When users are done every SecretTemplate ends up with the Secret its
\* inputs give, whatever requests failed on the way ...
SecretConverges ==
  \A t \in Templates : <>[](Reconcilable(t) => Hindered(t) \/ UpToDate(t))

\* ... with a status that says so; or with one that says it failed, when its
\* inputs do not allow it or the Secret is another controller's.  (A status
\* update that fails is not retried: this one holds as long as none does, or
\* something else makes the reconcile come again.)
Converges ==
  \A t \in Templates :
    <>[](Reconcilable(t) => IF Hindered(t) THEN tmpl[t].status.cond \in Reasons
                            ELSE UpToDate(t) /\ Succeeded(t))

\* ... nothing the controller made for a SecretTemplate that is gone stays,
\* unless users took the owner reference off, though a reconcile that still
\* sees the template in its cache may make its Secret once more ...
OrphansGone ==
  \A t \in Templates :
    <>[](tmpl[t] = None /\ secret[t] # None =>
           \A sp \in Specs : ~MadeBy(sp, secret[t].data))

\* ... and the controller stops writing: its own writes come back to it as
\* events and must not feed it for ever.
Quiescent == <>[][tmpl' = tmpl /\ secret' = secret]_vars

=============================================================================
