# templatedsecret-controller: a verification project

The controller turns a `SecretTemplate` (input resources and a JSONPath
template) into a Secret and keeps that Secret up to date. This directory holds
TLA+ modules that model it, TLC configurations that check them on small
instances, and TLAPS proofs of the results that matter most. `PROJECT.json`
lists, for every definition, the source lines it stands for.

    tlc -workers 2 -config MCUsers.cfg MCReconciler.tla
    tlapm Reconciler_proofs.tla

Each run's module is named in `PROJECT.json`; its configuration has its name.

## 1. Inventory

| component | state | operations | modelled in |
|---|---|---|---|
| SecretTemplate reconciler, `pkg/generator/secret_template_reconciler.go` | the locals of one `Reconcile`: the SecretTemplate read, `forceRegeneration`, the inputs read and their keys, the error, the latest object of the status update | `Reconcile`, `reconcile`, `resolveInputResources`, the function given to `CreateOrUpdate`, `updateStatus`, the watches of `AttachWatches` | `SecretTemplateReconciler` |
| Input tracker, `pkg/tracker` | a map from SecretTemplates to sets of Secrets, an RWMutex | `Track`, `UntrackAll`, `GetTracking` | `TrackerOps`, `TrackerSpec`, `Tracker` |
| Work queue and controller loop (vendored client-go, controller-runtime; wired in `main.go`) | queue, dirty and processing sets, the delaying goroutine's channel and heap, failures per item, what each worker does | `Add`, `Get`, `Done`, `AddAfter`, `When`, `Forget`, `waitingLoop`, `reconcileHandler` | `QueueSpec`, `WorkQueue` |
| API server, watches, informer caches, garbage collector, users (outside the code) | SecretTemplates, Secrets, other objects, event streams, two caches | reads, writes with a resourceVersion, deliveries, resync | `Cluster` |
| SecretTemplate API and status, `pkg/apis`, `pkg/reconciler/status.go` | `observedGeneration`, conditions, `secret.name` | `SetReconciling`, `SetReconcileCompleted`, `WithReconcileCompleted` | `Cluster`, `SecretTemplateReconciler` |
| Service account loader, `pkg/generator/service_account_loader.go` | none | `Client`, `restConfig`, `getCACert` | `TokenManager`; `LoadClient`, `ClientFails` of the reconciler |
| Token manager, `pkg/satoken` | a token cache under a mutex, the clock | `GetServiceAccountToken`, `requiresRefresh`, `cleanup` | `TokenManager` |
| Template evaluation, `evaluate*`, `jsonpath.go` | the expression being rewritten and its stack; the entries made so far | `ToK8sJSONPath`, `evaluateTemplate`, `evaluate`, `evaluateBytes` | `JSONPath`, `TemplateEvaluation`; the parameters `Render`, `NameIn` of the reconciler |
| Variable expansion, `pkg/expansion` | cursor, checkpoint, buffer | `Expand`, `tryReadVariableName`, `MappingFuncFor` | `Expansion` |
| Startup, `cmd/controller/main.go` | flags, where `main` is, the timers of its two waits | `waitForCRDs`, the choice of namespaces, setting up, exit | `Startup`; `Restart` of the reconciler |
| Leader election | lease | | a new leader is a `Restart`, a lost lease a `Die` |
| `pkg/reconciler/secret.go`, `generate_inputs.go` | | not called by the controller | no |
| generated clients and deep copies, charts, docs, CI | | | no |

**How they interact.** The watches feed events into two informer caches, and
their handlers put names into the work queue: a SecretTemplate its own name, a
Secret its controller's name and the names of whoever the tracker says tracks
it. One worker takes names out. `Reconcile` reads the SecretTemplate from the
cache, the inputs *live* (the manager's client does not cache unstructured
objects), writes the tracker, reads the output Secret from the cache, writes it
with the resourceVersion it read, then re-reads the SecretTemplate from the
cache and updates its status. Both writes come back as events. The tracker is
shared by the worker and the handlers' goroutines; everything else the worker
holds is its own.

**What is hard.** The worker acts on two caches that lag behind by different
amounts and on inputs that do not lag at all. Objects are deleted and created
again under the same name while older copies are on their way. The tracker is
changed after the reads it stands for. The error of the status update is
dropped. The process restarts between any two steps. `PROJECT.json` lists each
hazard at its line.

**What makes each correct.** Reconciler: when nothing is left to do, Secret,
status and tracker are those of the present SecretTemplate; it never touches
another controller's Secret; it gets there when users stop; it then stops
writing. Tracker: exclusion, atomicity, no starvation. Work queue: no item is
lost, handed to two workers, put off or passed over. Token manager: never an
expired token, never one of another account, a failed refresh falls back only to
one that has not expired. Template evaluation: what the expressions mean, in
whatever order. Startup: it gives up only late, and runs in the end.

## 2. Modules

    TrackerOps <- TrackerSpec <= Tracker <- MCTracker, Tracker_proofs
    TrackerOps, Cluster <- SecretTemplateReconciler <- MCReconciler, LostUpdate
    MCReconciler, LostUpdate <- MCLostUpdate
    SecretTemplateReconciler <- Reconciler_proofs <- Settled_proofs
    LostUpdate, Settled_proofs <- LostUpdate_proofs
    QueueSpec <= WorkQueue <- WorkQueue_proofs
    X <- X_proofs   for X in Startup, TokenManager
    JSONPath, Expansion, TemplateEvaluation <- Template_proofs
    Startup, TokenManager, JSONPath, Expansion, TemplateEvaluation <- MCParts
    (<- is EXTENDS, <= is implementation, by INSTANCE with a refinement mapping)

**TrackerOps** is what each tracker method does to the relation "who tracks
what". **TrackerSpec** is the promise of `tracker.go:8` ("Tracker is
thread-safe"): a call takes effect in one step between invocation and return.
**Tracker** is the code: a map with or without an entry per SecretTemplate,
insertion key by key, iteration entry by entry in any order, and the RWMutex,
whose announced writer keeps new readers out. Under the mapping, the relation is
the map with what the writer inside the lock has yet to do already done, and
`Linearizable` says that `Tracker` implements `TrackerSpec`.

**Cluster** is the world outside, taken from how the code uses it. A stored
object has `rv` (resourceVersion), `uid`, and the fields the code reads. A
write appends an event to a stream; the controller's delivery of it changes the
cache. Users create, edit, delete and take over objects, a finalizer may keep a
deleted SecretTemplate for a while, Secrets age past `maxSecretAge`, the garbage
collector removes Secrets whose owner's UID is gone.

**SecretTemplateReconciler** is the controller. `w` is the worker; `w.pc` is
where it is:

| `pc` | code | actions |
|---|---|---|
| `idle` | `Queue.Get` | `Get` |
| `fetch` | 149-164, 172-178 | `FetchNotFound`, `FetchDeleting`, `FetchTemplate` |
| `forget` | 155-157 | `Forget` |
| `age` | 183-207 | `CheckAge` |
| `client` | 373-376 | `LoadClient`, `ClientFails` |
| `inputs` | 395-440 | `ReadInput`, `ReadNotSecret`, `ReadNoName`, `ReadNotFound`, `ReadFails`, `InputsRead` |
| `untrack`, `track` | 385-393 | `Untrack`, `TrackInputs` |
| `lookup` | 215-262, `CreateOrUpdate` up to its write | `RenderFails`, `LookupAbsent`, `LookupOwned`, `LookupUnchanged`, `LookupChanged` |
| `write` | `Create` or `Update`, 264-275 | `WriteSecret`, `WriteRefused`, `WriteFails` |
| `statusGet`, `statusPut` | 292-348 | `StatusGet`, `StatusPut`, `StatusConflict`, `StatusNotFound`, `StatusFails` |
| `finish` | 277-289, `reconcileHandler`, `Done` | `Finish` |

`dirty` is the queue together with its dirty set: an item is in the queue when
it is dirty and not being processed. `waiting` holds delayed adds. `DeliverTemplate`
and `DeliverSecret` change a cache and run the handlers; `Resync` and `Restart`
hand every cached object to them.

**LostUpdate** adds to it a history variable, `raced`, that marks the
SecretTemplates whose last reconcile missed a change of an input between its read
and `Track`. **MCReconciler** gives the parameters small values, **MCLostUpdate**
those of the runs with the history variable.

**QueueSpec** is the queue as `SecretTemplateReconciler` uses it: what is dirty,
what is in process, what will come back by itself, and that every item is taken
in the end. **WorkQueue** is the code: the slice, the dirty and processing sets
of `Typed`, a worker from `Get` over the outcome of its reconcile to the deferred
`Done`, the bounded channel to the delaying goroutine, the heap with one entry an
item, and the backoff. Delays are what is left of them; `Tick` counts them down.
`KeepsPromise` says that it implements `QueueSpec` with its fairness, where an
item is in process from `Get` to the end of its reconcile, and waits from
`AddAfter` until it is added. (An item that waits may so be added between the end
of a reconcile and `Done`.)

**TokenManager** is `GetServiceAccountToken` with the loader around it: `pc` goes
from `idle` over `review` (130-137), `age` (139-155), `request` (84), `failed`
(85-95) or `set` (97) to `ca`, where `restConfig` has its token (61). One `get`,
`set` or `cleanup` is one step, for it runs under the mutex; the clock, other
callers and the accounts move between any two. A token knows the *life* of its
account, so that an account made again under its name is another.

**Startup** is `main` up to the running manager. `phase` is where it is; `timer`,
`checking` and `last` are the state of `wait.PollImmediate`: a check at once, one
per interval unless the last still runs, one more after the timer has run out.
The cluster installs, establishes, serves and removes the CRD meanwhile.

**JSONPath** is the loop of `ToK8sJSONPath` over the expression it rewrites,
**Expansion** that of `Expand`; one iteration is one action. Both are compared
with a definition of what is to come out that does not look at the loop
(`Translated`: by pairs of brackets; `Meaning`: from the left). **TemplateEvaluation**
evaluates a template entry by entry, any of those left. A value is a sequence of
pieces with the number of times each is base64 encoded; a reference is an
input, a field and a key; what the JSONPath library does is `Found`.

### Abstractions

- *One namespace*: every key the controller builds has the SecretTemplate's.
- *Versions are names*: resourceVersions and UIDs are only compared for
  equality, so a write takes any version that no copy of the object anywhere
  still has. That keeps the state space finite without a bound on the number
  of writes.
- *Contents*: the data, labels and annotations of an object are one value;
  `Render` is what a template makes of the contents of its inputs, `NameIn` the
  name a JSONPath finds in one, both parameters. An error message is the
  reason for it: one message per reason, so the random choice among several
  failing expressions of one template is left out of this model
  (`TemplateEvaluation` has it).
- *A controller reference* is the UID of the SecretTemplate of the Secret's
  name, or nobody, or somebody else. A SecretTemplate of another name counts as
  somebody else; that its queue entry is then also made is left out. Owners
  that are not controllers are left out.
- *A cache and its handlers* change in one step. In the code the cache is
  updated first and each handler's goroutine follows; a reconcile in between
  would see the newer cache and be queued again afterwards.
- *Data of a Secret is base64*: the API server serves nothing else, so the return
  at 424-427 has no action.
- *The name of an input* is a literal or comes from the input before it; line 445
  evaluates over all that were read. A name that is not found and an apiVersion
  that does not parse (461-464) are one error.
- *Reads of the caches do not fail* other than with NotFound (lines 159 and
  204-207 are for clients without one), so those two returns have no action.
- *The fallback of `updateStatus`* (324-345) updates the object without its
  status subresource, which changes nothing when the CRD has that subresource
  (the chart's has): it is part of `StatusNotFound`.
- *Order of the queue*: in the reconciler's model a set, with strong fairness of
  `Get`; `WorkQueue` shows that the queue justifies it. There, the delaying
  goroutine looks at its channel and its heap in any order, which leaves it more
  behaviours than its loop has, and shutting down is the end of the process.
- *Time* in `TokenManager` and `Startup` is a number of units; the clock of the
  API server is the controller's. Requests take any number of steps.
- *Text*: only characters that the loops look at are told apart, and one byte
  that is not ASCII. An expression's text is a model value, with a parameter
  (`Spoilt`) for what the substitution of `.data.` makes of it.

## 3. Runs

| run | question |
|---|---|
| `MCTracker` | is the map never read during a write, does the locked code implement the atomic tracker, does every call return? |
| `MCUsers` | deletion and re-creation, also as another type, edits, writes to the output and its take-over, at every point of a reconcile: are Secret, status and tracker those of the present object in the end, no type change ever sent, no other controller's Secret touched? |
| `MCChain` | two SecretTemplates, an input named by another, outputs that are inputs: is the window between read and `Track` the only way to lose an update? |
| `MCConverge` | also over a restart: do Secret and status come to match, do orphans go, does the controller stop writing? |
| `MCTimers` | does the periodic requeue of `maxSecretAge` make up for lost updates, also when an input names another, or no longer does, when inputs cannot be rendered, and over a restart? |
| `MCFaults` | do the retries bring the Secret to what the inputs give, when reads, writes and status updates fail, applied or not; does a ServiceAccount's periodic requeue notice what has no watch? |
| `MCWorkQueue` | is no item lost, doubled, shared by workers or put off; does the queue keep the promise that the reconciler's model relies on? |
| `MCParts` | does the process wait long enough, decide, and run in the end; once it runs, are its tokens unexpired, young, of the right account, and cleaned up; do expressions, texts and templates come out as they are meant, in whatever order maps are ranged over? |
| `VLostUpdate` (violation) | line 288's "rely on resource tracking" |
| `VSecretName` (violation) | `secret_template_test.go:129`, `status.secret.name` after a failure |
| `VAged` (violation) | `main.go:63`, "forcing regeneration" |
| `VKeptToken` (violation) | `token_manager.go:73-74`, "still valid" and "no longer valid" |

The settled properties (`SettledSecret`, `SettledStatus`, `SettledTracker`) are
invariants guarded by `Quiet(t)`: nothing about `t` is queued, waiting, being
processed or on its way. They fail the moment anything that should have kept a
SecretTemplate alive is lost. Every property has a mutant of the code
(in the modules, marked `Mutant`) that breaks it under its own configuration.

**Bounds.** Of the controller's runs: `MaxOps` (1 or 2 acts of users),
`MaxFaults` (up to 2), `MaxCrashes` (up to 1), `MaxLag` (2 events on their way
per stream, 1 in `MCChain`) and `Versions` (5 per object). Two acts are what it
takes to delete and re-create; two events in a stream let a cache be two writes
behind, so that a copy can be older than the one it is compared with. A write
waits while its stream is full: since deliveries are always enabled then this
only leaves out longer lags. Five versions suffice for the copies that can exist
at once (store, cache, two events, the worker's): a write is never held back for
want of one in the runs, as their completion without a stuck liveness property
shows. `MaxTries` is 2 attempts of `RetryOnConflict` instead of 5: the difference
is how long it takes to give up. `CHECK_DEADLOCK FALSE` in the runs of the
controller: it stops when nothing is left to do. The tracker's and the queue's
runs check it.

- `MCWorkQueue`: two items, two workers (the controller has one; the promise is
  for any number), a backoff from 1 to 3 and a period of 2, so that each may be
  the shorter, and a channel of one place, so that a worker can be made to wait.
- `MCParts`, which puts in one run what shares no state: each part is explored
  from one state of the others, a process that runs, no token asked for, nothing to
  evaluate. It checks no deadlock: the bounds let it stop, and the loops end.
  - Startup: waits of 3 and 2 intervals instead of 60 and 30, two failed requests,
    one death, one removal of the CRD; lists that are empty, blank, or name two
    namespaces with a blank between.
  - Tokens: two accounts, one caller (the one worker), a clock up to 3 with grants
    of 2, of 5, or of none stated (then 2 by the server), a `maxTTL` of 2 and a
    jitter below 2: either limit of a token's age can be the first, and a grant can
    be shorter than the jitter. Two changes of accounts delete one and make it
    again; one request fails. They are explored from a running process with the
    bounds of the start-up used up.
  - Expressions of up to 6 characters hold two references, nested or in a row, and
    brackets without `$`; texts of up to 5 bytes an escape and a reference; a
    template has up to two entries in a section, of up to two parts.
- `VKeptToken`: one account, which is deleted once; no request fails but for that,
  and what it does not need is set to nothing.

**Fairness.** The worker's steps are weakly fair (the goroutine runs, requests
return), `Get(t)` strongly (first-in first-out, which `MCWorkQueue` derives from
weak fairness of the workers and the queue's order), timers fire, streams
deliver, finalizers and the garbage collector finish. Users, faults, restarts and
the ten-hourly resync are not fair: nothing rests on them. In `Tracker`, a
goroutine inside a method runs on, and `Lock` and `RLock` are admitted as
`sync.RWMutex` documents it (strongly fair `Announce` and `RLock`). In `WorkQueue`
reconciles return, time passes, the delaying goroutine and the workers run. In
`Startup` checks return, time passes and the kubelet restarts the container; the
CRD is not fair, `Starts` assumes that it stays. In `TokenManager` the cleanup is
fair (`wait.Forever`) and each step of a call ends.

## 4. What the runs found

- **Lost updates** (`VLostUpdate`). Inputs are read, then untracked and tracked
  again. A change whose event is handled between the read and `Track` reaches
  nobody. With `maxSecretAge` 0 and no ServiceAccount the Secret keeps its old
  content until the resync. `MCChain` shows that this is the only way to lose one.
- **`status.secret.name` taken away** (`VSecretName`). A reconcile that fails
  and started from a copy cached before the first success writes its empty name
  over the one set since. Two failing reconciles one step behind each other can
  then alternate two statuses, each write queueing the next reconcile at once.
- **Forced regeneration does nothing** (`VAged`) when the content is up to date:
  what line 235 clears lines 239-240 set again, and `CreateOrUpdate` finds no
  difference.
- The error of `updateStatus` is dropped (line 178), so after such a failure a
  status may stay as it was while the Secret is right: `Converges`, which
  speaks of the status, is checked where something brings the reconcile back,
  `SecretConverges` with faults.
- **The kept token** (`VKeptToken`). The comment at token_manager.go:73-74 says
  that the old token is returned when it "is still valid" and is an error
  otherwise; the code looks at its expiration time alone. The account of a cached
  token is deleted; the review refuses the token (135), the request for another
  fails, for there is no account, and line 93 returns the old one, at every call
  until it expires. So `OfLiveAccount` and `Young` leave out what was `kept`, and
  `HandedOutUnexpired`, which does not, says no more than its name.
- The error of `updateStatus` is dropped (line 178), so after such a failure a
  status may stay as it was while the Secret is right: `Converges`, which
  speaks of the status, is checked where something brings the reconcile back,
  `SecretConverges` with faults.
- A spec that gains a ServiceAccount keeps its tracker entry (386), which only
  costs reconciles.

What was met on the way and is part of the models as it is, without a run of its
own:

- *A list of separators* in `--watch-namespaces` watches all namespaces, and
  `--namespace` is then not looked at (108-118), though one flag names a namespace
  and the other is not empty (58, and the chart's `values.yaml:48-49`). `SetUp` does
  the same; no property of the project says which namespaces are watched.
- *Text is rewritten*. The first `.data.` of an expression is replaced, wherever it
  is (538, 567): text that holds one comes out with `.decodedData.` in it, though
  `docs/secret-template.md:74` gives `$( )` as the sign of what is evaluated. A
  second reference in the same expression stays base64. `AsMeant` is for
  expressions with one `.data.`, in a reference (`Simple`).
- *A rune after `$`* that is not ASCII: its first byte is encoded as a rune of its
  own and the others follow it (expand.go:103; the comment at 100-102 says "the
  first rune"). `BeforeRune` is what `ExpandsReferences` leaves out.
- *`data` without `.data.`*: a reference written with `decodedData`, or to something
  that is not a Secret, is decoded once more (577), or fails.
- *Failed requests* end the first wait for the CRD (239) and not the second (269).
- *Which of several failing entries* is reported depends on Go's map order; the
  section does not (`OrderIrrelevant`). Since the message is part of the status,
  such a SecretTemplate may write its status at each reconcile; `Quiescent` is
  checked with one failing entry.

## 5. Proofs

Eight modules. Each states its inductive invariant, that the initial states have
it, one step per action that it is kept, and the theorems that follow. All rest
on nothing but the named assumptions on the constants (`TrackerAssumption`,
`ClusterAssumption`, `NoneAssumption`, `ReconcilerAssumption`,
`MemoryAssumption`, `QueueAssumption`, `TokenAssumption`, `StartupAssumption`,
`PathAssumption`, `ExpansionAssumption`, `EvalAssumption`), which TLC evaluates in
the runs of their modules. `NoneAssumption` and `MemoryAssumption` say that the
value for "nothing" is none of the objects or of what the worker may hold; the
others give the constants their types and little more.

`Tracker_proofs` (any number of goroutines and names) proves `TypeCorrect`,
`Exclusion` (`MapNotShared`) and `Atomicity` (`Linearizable`: every step of the
code is a step of `TrackerSpec` under the mapping, or none). The inductive
invariant adds to the types which stage of a method each call can be in
(`Stages`), that a writer inside the lock is the announced one and there are no
readers (`Mutex`), and that a loop has visited exactly the entries it no longer
has to (`Loops`): without it the answer of `GetTracking` could not be related to
the relation at the instant of `RUnlock`.

`Reconciler_proofs` (any SecretTemplates, Secrets, specs, contents, users,
faults, restarts, lags) proves `TypeCorrect`, `TypeNeverChanged` (`TypeKept`) and
`Untouched` (`ForeignUntouched`). The argument is that of optimistic locking.
The worker decides on a cached Secret, long out of date perhaps. `Coherent`:
copies with equal versions, wherever they are, are equal. `Decided`: what the
worker concluded from its copy (no foreign controller, this type) holds of
every copy with the version it is about to write. So if the API server accepts
the version, it holds of the stored Secret. Neither property is inductive
without the two, nor they without `Stages` and the types.

`Settled_proofs` goes on from there to what the controller has achieved when
nothing is left to do: `InputsTracked` (`SettledTracker`), `SecretsSettle`
(`SettledSecret`) and `StatusesSettle` (`SettledStatus`). The invariant has four
parts. `Caught`: a cached copy is the stored object, or the last event about that
object is still on its way and carries it. `Held`: the copy of the SecretTemplate
that the worker reconciles is the cached one, or its item is dirty again.
`Progress`: what the worker has done so far is right for its copy, stage by
stage. `Tracked`, `Made` and `Reported`: for an item at rest (not dirty, not
waiting, not with the worker) the tracker, the cached Secret and the cached status
are right for the cached SecretTemplate, or an event is on its way that will make
it dirty. Only then is the end of a reconcile known to leave the right thing, and
only `Caught` carries it from the caches to the store. `StatusesSettle` is stated
for behaviours without `StatusFails`: the error of `updateStatus` is dropped (line
178), so after such a failure an item can be at rest with an old status. The runs
that check `SettledStatus` have no faults for the same reason.

`LostUpdate_proofs` proves `OnlyRacesLose` (`OnlyRacedUpdatesLost`): for a
SecretTemplate without a ServiceAccount, the window between the read of an input
and `Track` is the only way to lose a change, whatever chain names the inputs. From
`TrackInputs` on, unless the history marks a race, every input the worker has
read is tracked, and has the content that was read or an event on its way
(`Watched`); `Sighted` says it of the worker, `Followed` of an item at rest,
`Noted` that all that is read is among the keys to be tracked. Since the name of an
input may come from the content of the one before, the two readings meet at rest
by the least input in which they would differ.

`WorkQueue_proofs` (any items, workers and delays) proves `NeverLostNorDoubled`
(`QueuedOnce`), `NeverShared` (`OneAtATime`), `DelaysShorten` (`NeverPostponed`)
and `SafelyImplements`: every step is one of `QueueSpec`, or none. The invariant
adds that what each worker holds is in `processing` and nobody else's (`Held`):
without it `Done` of one worker could push an item that another processes.

`TokenManager_proofs` (any accounts, callers, lifetimes, jitter) proves
`NeverExpired`, `NeverOfDeleted` and `NeverOld`. The invariant says what is
known of a token at each stage of a call: whose it is (`Held`), once it was reviewed that
it had not expired and was of the account's present life after the call began
(`Reviewed`), and what that makes of an answer (`Good`). Between two steps only the
growth of the clock and of the lives may be used (`CallAges`).

`Startup_proofs` (any timeouts, flags, failures and restarts) proves
`PatientToTheEnd` (`GivesUpLate`). What has to be added to the types is that the
last check is only made with the timer at zero (`LastAtEnd`).

`Template_proofs` (expressions and texts of any length, any mapping, any inputs and
templates) has three parts.

- `ToK8sJSONPath`: the loop stays within the expression (`LoopWithin`) and the stack
  stays true to it while it is rewritten (`StackTrue`): a replacement at the top of
  the stack moves nothing below it. `Translates` (`TranslatesReferences`) is that the
  whole comes out as it should. Its invariant, `Followed`, relates the path to
  the expression as it was, `n` characters of which are read: the path is the
  rewriting of those `n`, in which only the references closed among them are
  rewritten, then the rest; the stack holds, where they have come to, exactly
  the brackets among them that are not closed, the j-th from the top at depth j.
  Without the depths a closing bracket could not be matched with the top of
  the stack; without "exactly" a reference could be closed that the loop never sees.
- `Expand`: no slice is out of range (`SlicesWithin`), the result is the text's
  meaning (`Expands`, for `ExpandsReferences`) and a text with its operators doubled
  comes back with one of each (`DoublingWorks`, for `DoublingProtects`). The
  invariant `Assembles` is that the text built, the bytes since the checkpoint and
  the meaning of the rest are together the meaning of the whole; `Even` that what
  is before the cursor ends in whole pairs of operators.
- `TemplateEvaluation`: `EntriesMeant` (`AsMeant`) and `AnyOrder` (`OrderIrrelevant`):
  each entry made so far is the value of its expression, and all sections before
  the present one are complete.

`Meaning`, `Halved` and `Rewritten` are recursive functions. That their equations
have a solution, and what any solution satisfies, is proved by the least number
for which it would fail (`LeastNumber`): the induction theorems of the library
cannot be instantiated, but a set of numbers without a least one is empty. Where
a text is put together from several parts, the proofs give concatenation, length
and `Replace` names of their own (`Join`, `Size`, `Cut`) with the few laws they
satisfy, since the provers do not find them among the axioms of sequences.

Every property of a passing run that needs no fairness is thus stated by a
theorem. Model-checked only, for they are out of the prover's reach: the
liveness properties (`CallsReturn`, `Converges`, `SecretConverges`,
`OrphansGone`, `Quiescent`, `Decides`, `Starts`, `ExpiredLeaves`) and the fairness
that `KeepsPromise` adds to `SafelyImplements`.

## 6. Not modelled

- `pkg/reconciler/secret.go` and `generate_inputs.go`: nothing calls them.
- Generated clients, informers, listers and deep copies; the vendored informers' own
  protocol (list, watch, relist); TLS, metrics, logging, health checks.
- Leases: a process that loses its lease exits (`Die`), one that gains it starts
  afresh (`Restart`). Two processes that both believe they lead are not modelled.
- `friendlyErrMsg` (status.go:78), which shortens a message.
- Charts, manifests, documents and tests, which were read for what they say.

## 7. Plan

1. Proofs: that a reconcile without change writes nothing (the safety half of
   `Quiescent`), from `Settled_proofs`; `SettledTracker` for inputs that are
   named by others.
2. The message of a failing template in `SecretTemplateReconciler`: several per
   template, to find how often a status can be rewritten by map order alone.
3. Two processes over one cluster, for a lease that two believe to hold.
