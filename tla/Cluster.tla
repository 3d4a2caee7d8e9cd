------------------------------- MODULE Cluster -------------------------------
(***************************************************************************)
(* The world around the controller: the API server's SecretTemplates,      *)
(* Secrets and other objects, the watch streams that feed the controller's *)
(* caches, the users who edit objects and the garbage collector.  None of  *)
(* it is the controller's code: it is modelled from how that code uses it. *)
(*                                                                         *)
(* One namespace stands for all: the controller never crosses one, every   *)
(* key it builds has the SecretTemplate's namespace.                       *)
(*                                                                         *)
(* Versions.  resourceVersions and UIDs are only ever compared for         *)
(* equality, so a version is a name: a write gives the object one that no  *)
(* copy of it anywhere (store, stream, cache, the worker's memory) has,    *)
(* and the version an object was created with is also its UID.  A write    *)
(* that changes nothing keeps the version.                                 *)
(***************************************************************************)
EXTENDS Integers, Sequences

CONSTANTS
  None,        \* no object
  Templates,   \* names of SecretTemplates; each also names its output Secret
  Names,       \* names of Secrets
  Others,      \* names of input objects that are not Secrets
  Values,      \* contents of an object: data, labels and annotations
  Types,       \* Secret types
  Specs,       \* SecretTemplate specs (see the reconciler for their fields)
  InitSpec,    \* the cluster at the start: a spec or None for each template,
  InitValue,   \*   a content or None for each Secret,
  InitOther,   \*   a content or None for each other object
  InitType,    \*   and the type of those Secrets
  UserActs,    \* what users, and the passing of time, do
  UserSpecs,   \* the specs they apply to each template
  UserValues,  \* the contents they write to each Secret or other object, the
               \*   empty set for a Secret they leave alone
  UserOwners,  \* the controllers they give to each Secret
  MaxAge,      \* whether maxSecretAge is set
  MaxOps,      \* bound on how often they do
  MaxFaults,   \* bound on failed requests
  MaxCrashes,  \* bound on restarts of the controller
  MaxLag,      \* bound on the events on their way in each stream
  Versions     \* bound on the versions of one object that coexist

NoOwner == 0   \* the Secret has no controller,
Foreign == -1  \*   a controller other than the SecretTemplate of its name;
               \*   any other owner is the UID of that SecretTemplate

ASSUME ClusterAssumption ==
  /\ Templates \subseteq Names
  /\ None \notin Names \cup Others
  /\ \A v \in Values : v # None
  /\ \A sp \in Specs : sp # None
  /\ \A t \in Templates : /\ InitSpec[t] = None \/ InitSpec[t] \in Specs
                          /\ UserSpecs[t] \subseteq Specs
  /\ \A n \in Names : /\ InitValue[n] = None \/ InitValue[n] \in Values
                      /\ UserOwners[n] \subseteq {NoOwner, Foreign}
  /\ \A n \in Names \cup Others : UserValues[n] \subseteq Values
  /\ \A o \in Others : InitOther[o] = None \/ InitOther[o] \in Values
  /\ InitType \in Types
  /\ UserActs \subseteq {"createTemplate", "editTemplate", "deleteTemplate",
       "markDeleting", "createSecret", "editSecret", "deleteSecret",
       "changeOther", "age", "resync"}
  /\ MaxAge \in BOOLEAN
  /\ MaxOps \in Nat /\ MaxFaults \in Nat /\ MaxCrashes \in Nat
  /\ MaxLag \in Nat
  /\ Versions \subseteq Nat \ {0} /\ 1 \in Versions

\* Why a reconcile fails: the message of its ReconcileFailed.
Reasons == {"client", "notSecret", "name", "notFound", "fetch", "render",
            "owned", "exists", "gone", "conflict", "invalid", "write"}

Conditions == {"New", "Reconciling", "Succeeded"} \cup Reasons

\* gen: observedGeneration; cond: the one condition; named: secret.name is set.
Statuses == [gen : Nat, cond : Conditions, named : BOOLEAN]

TemplateObjects == [rv : Versions, uid : Versions, gen : Nat, spec : Specs,
                    deleting : BOOLEAN, status : Statuses]

Owners == Versions \cup {NoOwner, Foreign}

SecretObjects == [rv : Versions, uid : Versions, data : Values, type : Types,
                  owner : Owners]

\* None is no object.
ASSUME NoneAssumption == None \notin TemplateObjects \cup SecretObjects

VARIABLES
  tmpl,    \* the SecretTemplates, None where there is none
  secret,  \* the Secrets
  other,   \* the contents of the other objects
  aged,    \* the Secrets, as <<name, UID>>, older than maxSecretAge
  tWatch,  \* SecretTemplate events on their way to the controller
  sWatch,  \* Secret events
  tCache,  \* the controller's cache of SecretTemplates
  sCache,  \*   and of Secrets
  budget,  \* what is left of MaxOps, MaxFaults and MaxCrashes
  w        \* what the controller's worker holds (SecretTemplateReconciler)

clusterVars ==
  <<tmpl, secret, other, aged, tWatch, sWatch, tCache, sCache, budget>>

---------------------------------------------------------------------------
(* The store.                                                              *)

InitStatus == [gen |-> 0, cond |-> "New", named |-> FALSE]

NewTemplate(v, sp) == [rv |-> v, uid |-> v, gen |-> 1, spec |-> sp,
                       deleting |-> FALSE, status |-> InitStatus]

NewSecret(v, d, ty, ow) == [rv |-> v, uid |-> v, data |-> d, type |-> ty,
                            owner |-> ow]

ClusterInit ==
  /\ tmpl = [t \in Templates |-> IF InitSpec[t] = None THEN None
                                 ELSE NewTemplate(1, InitSpec[t])]
  /\ secret = [n \in Names |-> IF InitValue[n] = None THEN None
                               ELSE NewSecret(1, InitValue[n], InitType, NoOwner)]
  /\ other = [o \in Others |-> InitOther[o]]
  /\ aged = {}
  /\ tWatch = << >> /\ sWatch = << >>
  /\ tCache = tmpl /\ sCache = secret
  /\ budget = [ops |-> MaxOps, faults |-> MaxFaults, crashes |-> MaxCrashes]

Sent(watch, k) == {watch[i].obj : i \in {j \in DOMAIN watch : watch[j].key = k}}

\* Every copy of the SecretTemplate t and of the Secret n the API server made.
TCopies(t) == ({tmpl[t], tCache[t]} \cup Sent(tWatch, t)) \ {None}

SCopies(n) == ({secret[n], sCache[n]} \cup Sent(sWatch, n)) \ {None}

\* The versions that name them, there or in the worker's memory.
TVersions(t) ==
  {o.rv : o \in TCopies(t)} \cup {o.uid : o \in TCopies(t)}
    \cup {s.owner : s \in SCopies(t)}
    \cup IF w.item # t THEN {}
         ELSE {w.latest} \cup IF w.tm = None THEN {} ELSE {w.tm.uid}

SVersions(n) ==
  {s.rv : s \in SCopies(n)} \cup {s.uid : s \in SCopies(n)}
    \cup {a[2] : a \in {b \in aged : b[1] = n}}
    \cup IF w.item = n /\ w.pc = "write" THEN {w.cand.rv, w.cand.uid} ELSE {}

NewT(t) == CHOOSE v \in Versions : v \notin TVersions(t)
NewS(n) == CHOOSE v \in Versions : v \notin SVersions(n)

\* A write of the API server (None removes) and the event it sends.
StoreTemplate(t, obj) ==
  /\ Len(tWatch) < MaxLag /\ ~(Versions \subseteq TVersions(t))
  /\ tmpl' = [tmpl EXCEPT ![t] = obj]
  /\ tWatch' = Append(tWatch, [key |-> t, obj |-> obj])

StoreSecret(n, obj) ==
  /\ Len(sWatch) < MaxLag /\ ~(Versions \subseteq SVersions(n))
  /\ secret' = [secret EXCEPT ![n] = obj]
  /\ sWatch' = Append(sWatch, [key |-> n, obj |-> obj])

Spend(what) == /\ budget[what] > 0
               /\ budget' = [budget EXCEPT ![what] = @ - 1]

---------------------------------------------------------------------------
(* Users.                                                                  *)

UserDoes(act) == act \in UserActs /\ Spend("ops")

TemplateFrame == UNCHANGED <<secret, other, aged, sWatch, tCache, sCache>>
SecretFrame   == UNCHANGED <<tmpl, other, aged, tWatch, tCache, sCache>>

CreateTemplate(t) ==
  /\ tmpl[t] = None
  /\ \E sp \in UserSpecs[t] : StoreTemplate(t, NewTemplate(NewT(t), sp))
  /\ UserDoes("createTemplate")
  /\ TemplateFrame

EditTemplate(t) ==
  /\ tmpl[t] # None
  /\ \E sp \in UserSpecs[t] \ {tmpl[t].spec} :
       StoreTemplate(t, [tmpl[t] EXCEPT !.rv = NewT(t), !.gen = @ + 1,
                                        !.spec = sp])
  /\ UserDoes("editTemplate")
  /\ TemplateFrame

DeleteTemplate(t) ==
  /\ tmpl[t] # None /\ ~tmpl[t].deleting
  /\ StoreTemplate(t, None)
  /\ UserDoes("deleteTemplate")
  /\ TemplateFrame

\* Deleted in the foreground, or held by a finalizer: the object stays for a
\* while with a deletionTimestamp.
MarkDeleting(t) ==
  /\ tmpl[t] # None /\ ~tmpl[t].deleting
  /\ StoreTemplate(t, [tmpl[t] EXCEPT !.rv = NewT(t), !.gen = @ + 1,
                                      !.deleting = TRUE])
  /\ UserDoes("markDeleting")
  /\ TemplateFrame

Finalize(t) ==
  /\ tmpl[t] # None /\ tmpl[t].deleting
  /\ StoreTemplate(t, None)
  /\ TemplateFrame /\ UNCHANGED budget

\* Users create a Secret, or change the content and the controller of one
\* (a type is immutable: the API server refuses to change it).
CreateSecret(n) ==
  /\ secret[n] = None
  /\ \E d \in UserValues[n], ty \in Types, ow \in UserOwners[n] :
       StoreSecret(n, NewSecret(NewS(n), d, ty, ow))
  /\ UserDoes("createSecret")
  /\ SecretFrame

EditSecret(n) ==
  /\ secret[n] # None
  /\ \E d \in UserValues[n], ow \in UserOwners[n] \cup {secret[n].owner} :
       /\ <<d, ow>> # <<secret[n].data, secret[n].owner>>
       /\ StoreSecret(n, [secret[n] EXCEPT !.rv = NewS(n), !.data = d,
                                           !.owner = ow])
  /\ UserDoes("editSecret")
  /\ SecretFrame

DeleteSecret(n) ==
  /\ secret[n] # None /\ UserValues[n] # {}
  /\ StoreSecret(n, None)
  /\ UserDoes("deleteSecret")
  /\ SecretFrame

\* Objects that are not Secrets have no watch: the controller reads them live.
ChangeOther(o) ==
  /\ \E d \in (UserValues[o] \cup {None}) \ {other[o]} :
       other' = [other EXCEPT ![o] = d]
  /\ UserDoes("changeOther")
  /\ UNCHANGED <<tmpl, secret, aged, tWatch, sWatch, tCache, sCache>>

---------------------------------------------------------------------------
(* Time, and the garbage collector.                                        *)

AgeSecret(n) ==
  /\ MaxAge /\ secret[n] # None
  /\ <<n, secret[n].uid>> \notin aged
  /\ aged' = aged \cup {<<n, secret[n].uid>>}
  /\ UserDoes("age")
  /\ UNCHANGED <<tmpl, secret, other, tWatch, sWatch, tCache, sCache>>

\* A Secret goes when the owner its reference names is no longer there: no
\* SecretTemplate of that name, or one of another UID.
Orphan(n) == /\ secret[n] # None /\ secret[n].owner > 0
             /\ ~(tmpl[n] # None /\ tmpl[n].uid = secret[n].owner)

CollectGarbage(n) ==
  /\ Orphan(n)
  /\ StoreSecret(n, None)
  /\ SecretFrame /\ UNCHANGED budget

Environment ==
  \/ \E t \in Templates : \/ CreateTemplate(t) \/ EditTemplate(t)
                          \/ DeleteTemplate(t) \/ MarkDeleting(t)
                          \/ Finalize(t) \/ CollectGarbage(t)
  \/ \E n \in Names : \/ CreateSecret(n) \/ EditSecret(n) \/ DeleteSecret(n)
                      \/ AgeSecret(n)
  \/ \E o \in Others : ChangeOther(o)

=============================================================================
