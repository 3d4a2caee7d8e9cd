-------------------------- MODULE Reconciler_proofs --------------------------
(***************************************************************************)
(* Proofs about the reconciler, for any SecretTemplates, Secrets, specs,   *)
(* contents, users, faults, restarts and delays: its type invariant, that  *)
(* it never writes a Secret of another controller, and that it never asks  *)
(* for a change of type.                                                   *)
(*                                                                         *)
(* The worker decides on a cached Secret that may be long out of date.     *)
(* What protects the stored one is its resourceVersion, and the argument   *)
(* is that of optimistic locking: copies with the same version are the     *)
(* same (Coherent), so if the version of what the worker is about to write *)
(* is still the stored one, then what it decided on is what is stored      *)
(* (Decided).                                                              *)
(***************************************************************************)
EXTENDS SecretTemplateReconciler, TLAPS

\* The stages of a reconcile that has a SecretTemplate in memory.
Holding == {"age", "client", "inputs", "untrack", "track", "lookup", "write",
            "statusGet", "statusPut"}

Stages ==
  /\ w.pc \in Holding => w.tm \in Memories
  /\ w.pc \in {"idle", "fetch", "age", "client"} =>
       w.got = << >> /\ w.keys = {} /\ w.err = ""
  /\ w.pc = "inputs" => Len(w.got) <= Len(w.tm.spec.refs)
  /\ w.pc = "lookup" \/ (w.pc \in {"untrack", "track"} /\ w.err = "")
       => Len(w.got) = Len(w.tm.spec.refs)
  /\ w.pc = "inputs" => w.err = ""
  /\ w.pc \in {"untrack", "track"} => ~w.tm.spec.sa
  /\ w.pc \in {"inputs", "untrack", "track"} /\ ~w.tm.spec.sa
       => w.keys \subseteq Names
  /\ w.pc = "write" => w.cand \in Candidates

Coherent == \A n \in Names : \A x, y \in SCopies(n) : x.rv = y.rv => x = y

Decided ==
  w.pc = "write" =>
    \A x \in SCopies(w.item) :
      x.rv = w.cand.rv => x.owner # Foreign /\ x.type = w.cand.type

IInv == TypeOK /\ Stages /\ Coherent /\ Decided /\ TypeKept

---------------------------------------------------------------------------
(* What the worker holds.                                                  *)

WorkerOK == /\ w \in Workers
            /\ w.pc = "idle" <=> w.item = None
            /\ Stages
            /\ TypeKept

\* A step of the worker that neither writes nor is about to write a Secret.
LEMMA WorkerStep ==
  ASSUME IInv, WorkerOK', w'.pc # "write",
         UNCHANGED <<tmpl, secret, other, aged, tWatch, sWatch, tCache, sCache>>,
         budget' \in [ops : Nat, faults : Nat, crashes : Nat],
         dirty' \subseteq Templates, waiting' \subseteq Templates,
         tracker' \in [Templates -> SUBSET Names]
  PROVE  IInv'
<1>1. TypeOK'
  BY DEF IInv, TypeOK, WorkerOK
<1>2. Coherent'
  BY DEF IInv, Coherent, SCopies, Sent
<1>3. Decided'
  BY DEF Decided
<1> QED
  BY <1>1, <1>2, <1>3 DEF IInv, WorkerOK

LEMMA Empties == << >> \in Seq(Values) /\ {} \in SUBSET (Names \cup Others)
  OBVIOUS

LEMMA IdleOK ==
  ASSUME w' = Idle
  PROVE  WorkerOK'
<1>2. w' \in Workers
  BY Empties DEF Idle, Workers, PCs
<1> QED
  BY <1>2 DEF Idle, WorkerOK, Stages, Holding, TypeKept

LEMMA GotoOK ==
  ASSUME WorkerOK, NEW l \in {"forget", "finish", "statusGet", "statusPut"},
         w.pc # "idle", w' = [w EXCEPT !.pc = l],
         l \in {"statusGet", "statusPut"} => w.pc \in Holding
  PROVE  WorkerOK' /\ w'.pc # "write"
  BY DEF WorkerOK, Workers, PCs, Stages, Holding, TypeKept

LEMMA CompleteOK ==
  ASSUME WorkerOK, NEW e \in (Reasons \cup {""}) \ {"invalid"},
         w.pc \in Holding, Complete(e)
  PROVE  WorkerOK' /\ w'.pc # "write"
<1>1. w \in Workers /\ w.tm \in Memories
  BY DEF WorkerOK, Stages
<1>2. Outcome(e) \in Statuses
  BY <1>1 DEF Outcome, Memories, Statuses, Conditions
<1>3. [w.tm EXCEPT !.status = Outcome(e)] \in Memories
  BY <1>1, <1>2 DEF Memories
<1>4. w' = [w EXCEPT !.pc = "statusGet", !.err = e, !.force = FALSE,
              !.got = << >>, !.keys = {}, !.cand = None,
              !.tm = [w.tm EXCEPT !.status = Outcome(e)]]
  BY <1>1 DEF Complete, Workers
<1>5. w' \in Workers
  BY <1>1, <1>3, <1>4, Empties DEF Workers, PCs
<1>6. w'.pc = "statusGet" /\ w'.err = e /\ w'.item = w.item /\ w'.tm \in Memories
  BY <1>1, <1>3, <1>4 DEF Workers
<1> QED
  BY <1>3, <1>5, <1>6 DEF WorkerOK, Stages, Holding, TypeKept

LEMMA RestOK == IInv => /\ WorkerOK
                        /\ budget \in [ops : Nat, faults : Nat, crashes : Nat]
                        /\ dirty \subseteq Templates /\ waiting \subseteq Templates
                        /\ tracker \in [Templates -> SUBSET Names]
  BY DEF IInv, TypeOK, WorkerOK

---------------------------------------------------------------------------
(* The steps of the worker that neither write nor prepare a write.         *)

LEMMA Element ==
  ASSUME NEW S, NEW s \in Seq(S)
  PROVE  /\ Len(s) \in Nat
         /\ \A i \in 1 .. Len(s) : s[i] \in S
         /\ s # << >> => s[Len(s)] \in S
  OBVIOUS

LEMMA SpecFields ==
  ASSUME w.tm \in Memories
  PROVE  /\ w.tm.spec \in Specs
         /\ w.tm.spec.refs \in Seq(Refs) /\ Len(w.tm.spec.refs) \in Nat
         /\ w.tm.spec.sa \in BOOLEAN /\ w.tm.spec.type \in Types
  BY ReconcilerAssumption DEF Memories

LEMMA FetchNotFoundStep == IInv /\ FetchNotFound => IInv'
<1> SUFFICES ASSUME IInv, FetchNotFound PROVE IInv'
  OBVIOUS
<1>1. WorkerOK' /\ w'.pc # "write"
  BY GotoOK, RestOK DEF FetchNotFound, Goto, At
<1> QED
  BY <1>1, WorkerStep, RestOK DEF FetchNotFound, WorkerFrame, clusterVars

LEMMA ForgetStep == IInv /\ Forget => IInv'
<1> SUFFICES ASSUME IInv, Forget PROVE IInv'
  OBVIOUS
<1>1. WorkerOK' /\ w'.pc # "write"
  BY GotoOK, RestOK DEF Forget, Goto, At
<1>2. tracker' \in [Templates -> SUBSET Names]
  BY RestOK DEF Forget, UntrackAll
<1> QED
  BY <1>1, <1>2, WorkerStep, RestOK DEF Forget, WorkerFrame, clusterVars

LEMMA FetchDeletingStep == IInv /\ FetchDeleting => IInv'
<1> SUFFICES ASSUME IInv, FetchDeleting PROVE IInv'
  OBVIOUS
<1>1. WorkerOK' /\ w'.pc # "write"
  BY GotoOK, RestOK DEF FetchDeleting, Goto, At
<1> QED
  BY <1>1, WorkerStep, RestOK DEF FetchDeleting, WorkerFrame, clusterVars

LEMMA FetchTemplateStep == IInv /\ FetchTemplate => IInv'
<1> SUFFICES ASSUME IInv, FetchTemplate PROVE IInv'
  OBVIOUS
<1> DEFINE o == tCache[w.item]
           status == [o.status EXCEPT !.gen = o.gen, !.cond = "Reconciling"]
           tm == [uid |-> o.uid, spec |-> o.spec, status |-> status]
<1>1. w \in Workers /\ w.pc = "fetch" /\ w.item \in Templates
  BY DEF IInv, TypeOK, Workers, FetchTemplate, At
<1>2. o \in TemplateObjects
  BY <1>1 DEF IInv, TypeOK, FetchTemplate
<1>3. tm \in Memories
  BY <1>2 DEF TemplateObjects, Memories, Statuses, Conditions
<1>4. w' = [w EXCEPT !.pc = "age", !.tm = tm]
  BY DEF FetchTemplate
<1> HIDE DEF tm
<1>5. WorkerOK' /\ w'.pc # "write"
  BY <1>1, <1>3, <1>4, RestOK DEF WorkerOK, Workers, PCs, Stages, Holding, TypeKept
<1> QED
  BY <1>5, WorkerStep, RestOK DEF FetchTemplate, WorkerFrame, clusterVars

LEMMA CheckAgeStep == IInv /\ CheckAge => IInv'
<1> SUFFICES ASSUME IInv, CheckAge PROVE IInv'
  OBVIOUS
<1>1. /\ w \in Workers /\ w.pc = "age" /\ w.item # None
      /\ w.tm \in Memories /\ w.got = << >> /\ w.keys = {} /\ w.err = ""
  BY RestOK DEF CheckAge, At, WorkerOK, Stages, Holding
<1>2. PICK l \in {"client", "inputs"}, f \in BOOLEAN :
        w' = [w EXCEPT !.pc = l, !.force = f]
  BY ClusterAssumption DEF CheckAge
<1>3. /\ w'.pc = l /\ w'.item = w.item /\ w'.tm = w.tm /\ w'.got = << >>
      /\ w'.keys = {} /\ w'.err = "" /\ w' \in Workers
  BY <1>1, <1>2 DEF Workers, PCs
<1>4. Len(w'.got) <= Len(w'.tm.spec.refs)
  <2> w'.got = << >> /\ w'.tm = w.tm /\ w.tm \in Memories
    BY <1>1, <1>3
  <2>1. Len(w'.got) = 0
    OBVIOUS
  <2>2. Len(w'.tm.spec.refs) \in Nat
    BY SpecFields
  <2> QED
    BY <2>1, <2>2
<1>5. WorkerOK' /\ w'.pc # "write"
  BY <1>1, <1>3, <1>4 DEF WorkerOK, Stages, TypeKept
<1> QED
  BY <1>5, WorkerStep, RestOK DEF CheckAge, WorkerFrame, clusterVars

LEMMA LoadClientStep == IInv /\ LoadClient => IInv'
<1> SUFFICES ASSUME IInv, LoadClient PROVE IInv'
  OBVIOUS
<1>1. /\ w \in Workers /\ w.pc = "client" /\ w.item # None
      /\ w.tm \in Memories /\ w.got = << >> /\ w.keys = {} /\ w.err = ""
  BY RestOK DEF LoadClient, At, WorkerOK, Stages, Holding
<1>2. /\ w'.pc = "inputs" /\ w'.item = w.item /\ w'.tm = w.tm /\ w'.got = << >>
      /\ w'.keys = {} /\ w'.err = "" /\ w' \in Workers
  BY <1>1 DEF LoadClient, Goto, Workers, PCs
<1>3. Len(w'.got) <= Len(w'.tm.spec.refs)
  <2> w'.got = << >> /\ w'.tm = w.tm /\ w.tm \in Memories
    BY <1>1, <1>2
  <2>1. Len(w'.got) = 0
    OBVIOUS
  <2>2. Len(w'.tm.spec.refs) \in Nat
    BY SpecFields
  <2> QED
    BY <2>1, <2>2
<1>4. WorkerOK' /\ w'.pc # "write"
  BY <1>1, <1>2, <1>3 DEF WorkerOK, Stages, TypeKept
<1> QED
  BY <1>4, WorkerStep, RestOK DEF LoadClient, WorkerFrame, clusterVars

LEMMA ClientFailsStep == IInv /\ ClientFails => IInv'
<1> SUFFICES ASSUME IInv, ClientFails PROVE IInv'
  OBVIOUS
<1>1. WorkerOK' /\ w'.pc # "write"
  BY CompleteOK, RestOK DEF ClientFails, At, Holding, Reasons
<1>2. budget' \in [ops : Nat, faults : Nat, crashes : Nat]
  BY RestOK DEF ClientFails, Spend
<1> QED
  BY <1>1, <1>2, WorkerStep, RestOK DEF ClientFails

---------------------------------------------------------------------------
(* Reading the inputs.                                                     *)

\* What the worker holds while it reads.
LEMMA ReadingFacts ==
  ASSUME IInv, Reading
  PROVE  /\ w \in Workers /\ w.pc = "inputs" /\ w.item # None
         /\ w.tm \in Memories /\ w.err = ""
         /\ Len(w.got) \in Nat /\ Len(w.got) + 1 <= Len(w.tm.spec.refs)
         /\ Ref \in Refs
         /\ w.got # << >> => NameIn(w.got[Len(w.got)]) \in Names \cup {None}
         /\ ~w.tm.spec.sa => w.keys \subseteq Names
<1>1. /\ w \in Workers /\ w.pc = "inputs" /\ w.item # None
      /\ w.tm \in Memories /\ w.err = ""
      /\ ~w.tm.spec.sa => w.keys \subseteq Names
  BY RestOK DEF Reading, At, WorkerOK, Stages, Holding
<1>2. Len(w.got) <= Len(w.tm.spec.refs)
  BY <1>1, RestOK DEF WorkerOK, Stages
<1>3. Len(w.got) # Len(w.tm.spec.refs)
  BY DEF Reading, AllRead, Spec1
<1>4. w.got \in Seq(Values) /\ w.tm.spec.refs \in Seq(Refs)
  BY <1>1, SpecFields DEF Workers
<1>5. Len(w.got) \in Nat /\ Len(w.tm.spec.refs) \in Nat
  BY <1>4, Element
<1>6. Len(w.got) + 1 \in 1 .. Len(w.tm.spec.refs)
  BY <1>2, <1>3, <1>5
<1>7. Ref \in Refs
  BY <1>4, <1>6, Element DEF Ref, Spec1
<1>8. w.got # << >> => NameIn(w.got[Len(w.got)]) \in Names \cup {None}
  BY <1>4, Element, ReconcilerAssumption
<1>9. Len(w.got) + 1 <= Len(w.tm.spec.refs)
  BY <1>5, <1>6
<1> QED
  BY <1>1, <1>5, <1>7, <1>8, <1>9, Zenon

\* Only a ServiceAccount reads what is not a Secret.
LEMMA LiveFacts ==
  ASSUME IInv, Reading, Allowed, RefName # None
  PROVE  /\ Live \in Values \cup {None}
         /\ ~w.tm.spec.sa => RefName \in Names
<1>1. CASE Ref.kind = "Secret"
  <2>1. RefName \in Names
    <3>1. Ref.name \in Names \cup {None}
      BY <1>1, ReadingFacts DEF Refs
    <3> QED
      BY <3>1, ReadingFacts DEF RefName
  <2>2. secret[RefName] \in SecretObjects \cup {None}
    BY <2>1 DEF IInv, TypeOK
  <2> QED
    BY <1>1, <2>1, <2>2 DEF Live, SecretObjects
<1>2. CASE Ref.kind = "Other"
  <2>1. Ref.name \in Others /\ RefName = Ref.name
    BY <1>2, ReadingFacts, ClusterAssumption DEF Refs, RefName
  <2> QED
    BY <1>2, <2>1 DEF Live, IInv, TypeOK, Allowed, Spec1
<1> QED
  BY <1>1, <1>2, ReadingFacts DEF Refs

LEMMA StopReadingOK ==
  ASSUME IInv, Reading, NEW e \in Reasons \ {"invalid"}, StopReading(e)
  PROVE  WorkerOK' /\ w'.pc # "write"
<1>1. CASE w.tm.spec.sa
  BY <1>1, CompleteOK, ReadingFacts, RestOK DEF StopReading, Spec1, Holding
<1>2. CASE ~w.tm.spec.sa
  <2>1. w' = [w EXCEPT !.pc = "untrack", !.err = e]
    BY <1>2 DEF StopReading, Spec1
  <2>2. /\ w'.pc = "untrack" /\ w'.err = e /\ w'.item = w.item /\ w'.tm = w.tm
        /\ w'.keys = w.keys /\ w' \in Workers
    BY <2>1, ReadingFacts DEF Workers, PCs
  <2>3. e # ""
    BY DEF Reasons
  <2> QED
    BY <1>2, <2>2, <2>3, ReadingFacts DEF WorkerOK, Stages, TypeKept
<1> QED
  BY <1>1, <1>2

LEMMA ReadInputStep == IInv /\ ReadInput => IInv'
<1> SUFFICES ASSUME IInv, ReadInput PROVE IInv'
  OBVIOUS
<1>1. Reading /\ Allowed /\ RefName # None /\ Live # None
  BY DEF ReadInput
<1>2. Live \in Values /\ (~w.tm.spec.sa => RefName \in Names)
  BY <1>1, LiveFacts
<1>3. RefName \in Names \cup Others
  BY <1>1, ReadingFacts DEF RefName, Refs
<1>4. w.got \in Seq(Values)
  BY <1>1, ReadingFacts DEF Workers
<1>5. /\ Append(w.got, Live) \in Seq(Values)
      /\ Len(Append(w.got, Live)) = Len(w.got) + 1
  BY <1>2, <1>4
<1>6. w' = [w EXCEPT !.got = Append(w.got, Live), !.keys = w.keys \cup {RefName}]
  BY DEF ReadInput
<1>7. w' \in Workers
  BY <1>1, <1>3, <1>5, <1>6, ReadingFacts DEF Workers
<1>8. /\ w'.pc = "inputs" /\ w'.item = w.item /\ w'.tm = w.tm /\ w'.err = ""
      /\ w'.keys = w.keys \cup {RefName}
  BY <1>1, <1>6, ReadingFacts DEF Workers
<1>9. Len(w'.got) <= Len(w'.tm.spec.refs)
  <2>1. w'.got = Append(w.got, Live) /\ w'.tm = w.tm
    BY <1>1, <1>6, ReadingFacts DEF Workers
  <2>2. Len(w.got) + 1 <= Len(w.tm.spec.refs)
    BY <1>1, ReadingFacts
  <2> QED
    BY <1>5, <2>1, <2>2
<1>10. ~w'.tm.spec.sa => w'.keys \subseteq Names
  BY <1>1, <1>2, <1>8, ReadingFacts
<1>11. WorkerOK' /\ w'.pc # "write"
  BY <1>1, <1>7, <1>8, <1>9, <1>10, ReadingFacts DEF WorkerOK, Stages, TypeKept
<1> QED
  BY <1>11, WorkerStep, RestOK DEF ReadInput, WorkerFrame, clusterVars

LEMMA ReadNotSecretStep == IInv /\ ReadNotSecret => IInv'
<1> SUFFICES ASSUME IInv, ReadNotSecret PROVE IInv'
  OBVIOUS
<1>1. WorkerOK' /\ w'.pc # "write"
  BY StopReadingOK DEF ReadNotSecret, Reasons
<1> QED
  BY <1>1, WorkerStep, RestOK DEF ReadNotSecret, WorkerFrame, clusterVars

LEMMA ReadNoNameStep == IInv /\ ReadNoName => IInv'
<1> SUFFICES ASSUME IInv, ReadNoName PROVE IInv'
  OBVIOUS
<1>1. WorkerOK' /\ w'.pc # "write"
  BY StopReadingOK DEF ReadNoName, Reasons
<1> QED
  BY <1>1, WorkerStep, RestOK DEF ReadNoName, WorkerFrame, clusterVars

LEMMA ReadNotFoundStep == IInv /\ ReadNotFound => IInv'
<1> SUFFICES ASSUME IInv, ReadNotFound PROVE IInv'
  OBVIOUS
<1>1. WorkerOK' /\ w'.pc # "write"
  BY StopReadingOK DEF ReadNotFound, Reasons
<1> QED
  BY <1>1, WorkerStep, RestOK DEF ReadNotFound, WorkerFrame, clusterVars

LEMMA ReadFailsStep == IInv /\ ReadFails => IInv'
<1> SUFFICES ASSUME IInv, ReadFails PROVE IInv'
  OBVIOUS
<1>1. WorkerOK' /\ w'.pc # "write"
  BY StopReadingOK DEF ReadFails, Reasons
<1>2. budget' \in [ops : Nat, faults : Nat, crashes : Nat]
  BY RestOK DEF ReadFails, Spend
<1> QED
  BY <1>1, <1>2, WorkerStep, RestOK DEF ReadFails

LEMMA InputsReadStep == IInv /\ InputsRead => IInv'
<1> SUFFICES ASSUME IInv, InputsRead PROVE IInv'
  OBVIOUS
<1>1. /\ w \in Workers /\ w.pc = "inputs" /\ w.item # None /\ w.tm \in Memories
      /\ w.err = "" /\ (~w.tm.spec.sa => w.keys \subseteq Names)
  BY RestOK DEF InputsRead, At, WorkerOK, Stages, Holding
<1>2. w' = [w EXCEPT !.pc = IF w.tm.spec.sa THEN "lookup" ELSE "untrack"]
  BY DEF InputsRead, Goto, Spec1
<1>3. /\ w' \in Workers /\ w'.item = w.item /\ w'.tm = w.tm /\ w'.err = ""
      /\ w'.keys = w.keys /\ w'.pc = IF w.tm.spec.sa THEN "lookup" ELSE "untrack"
  BY <1>1, <1>2 DEF Workers, PCs
<1>4. Len(w'.got) = Len(w'.tm.spec.refs)
  BY <1>1, <1>2 DEF InputsRead, AllRead, Spec1, Workers
<1>5. WorkerOK' /\ w'.pc # "write"
  BY <1>1, <1>3, <1>4 DEF WorkerOK, Stages, TypeKept
<1> QED
  BY <1>5, WorkerStep, RestOK DEF InputsRead, WorkerFrame, clusterVars

LEMMA AfterTrackingOK ==
  ASSUME IInv, w.pc \in {"untrack", "track"}, AfterTracking
  PROVE  WorkerOK' /\ w'.pc # "write"
<1>1. /\ w \in Workers /\ w.item # None /\ w.tm \in Memories
      /\ w.err \in (Reasons \cup {""}) \ {"invalid"}
  BY RestOK DEF WorkerOK, Stages, Holding, Workers, TypeKept
<1>2. CASE w.err = ""
  <2>1. w' = [w EXCEPT !.pc = "lookup"]
    BY <1>2 DEF AfterTracking, Goto
  <2>2. /\ w' \in Workers /\ w'.pc = "lookup" /\ w'.item = w.item
        /\ w'.tm = w.tm /\ w'.err = ""
    BY <1>1, <1>2, <2>1 DEF Workers, PCs
  <2>3. Len(w.got) = Len(w.tm.spec.refs)
    BY <1>2, RestOK DEF WorkerOK, Stages
  <2>4. Len(w'.got) = Len(w'.tm.spec.refs)
    BY <1>1, <2>1, <2>3 DEF Workers
  <2> QED
    BY <1>1, <2>2, <2>4 DEF WorkerOK, Stages, TypeKept
<1>3. CASE w.err # ""
  BY <1>1, <1>3, CompleteOK, RestOK DEF AfterTracking, Holding
<1> QED
  BY <1>2, <1>3

LEMMA UntrackStep == IInv /\ Untrack => IInv'
<1> SUFFICES ASSUME IInv, Untrack PROVE IInv'
  OBVIOUS
<1>1. w.pc = "untrack"
  BY DEF Untrack, At
<1>2. ASSUME w.keys = {} PROVE WorkerOK' /\ w'.pc # "write"
  BY <1>1, <1>2, AfterTrackingOK DEF Untrack
<1>3. ASSUME w.keys # {} PROVE WorkerOK' /\ w'.pc # "write"
  <2>1. /\ w \in Workers /\ w.item # None /\ w.tm \in Memories /\ ~w.tm.spec.sa
        /\ w.keys \subseteq Names /\ w.err # "invalid"
    BY <1>1, RestOK DEF WorkerOK, Stages, Holding, TypeKept
  <2>2. w' = [w EXCEPT !.pc = "track"]
    BY <1>3 DEF Untrack, Goto
  <2>3. /\ w' \in Workers /\ w'.pc = "track" /\ w'.item = w.item /\ w'.tm = w.tm
        /\ w'.keys = w.keys /\ w'.err = w.err
    BY <2>1, <2>2 DEF Workers, PCs
  <2>4. w.err = "" => Len(w.got) = Len(w.tm.spec.refs)
    BY <1>1, RestOK DEF WorkerOK, Stages
  <2>5. w'.err = "" => Len(w'.got) = Len(w'.tm.spec.refs)
    BY <2>1, <2>2, <2>4 DEF Workers
  <2> QED
    BY <2>1, <2>3, <2>5 DEF WorkerOK, Stages, TypeKept
<1>4. tracker' \in [Templates -> SUBSET Names]
  BY RestOK DEF Untrack, UntrackAll
<1> QED
  BY <1>2, <1>3, <1>4, WorkerStep, RestOK DEF Untrack, WorkerFrame, clusterVars

LEMMA TrackInputsStep == IInv /\ TrackInputs => IInv'
<1> SUFFICES ASSUME IInv, TrackInputs PROVE IInv'
  OBVIOUS
<1>1. WorkerOK' /\ w'.pc # "write"
  BY AfterTrackingOK DEF TrackInputs, At
<1>2. w.keys \subseteq Names /\ tracker \in [Templates -> SUBSET Names]
  BY RestOK DEF TrackInputs, At, WorkerOK, Stages
<1>3. tracker' \in [Templates -> SUBSET Names]
  BY <1>2 DEF TrackInputs, Track
<1> QED
  BY <1>1, <1>3, WorkerStep, RestOK DEF TrackInputs, WorkerFrame, clusterVars

---------------------------------------------------------------------------
(* The lookup: what the worker prepares to write agrees with every copy of *)
(* the version it starts from.                                             *)

LEMMA LookupFacts ==
  ASSUME IInv, At("lookup")
  PROVE  /\ w \in Workers /\ w.pc = "lookup" /\ w.pc \in Holding
         /\ w.item \in Templates /\ w.item \in Names /\ w.tm \in Memories
         /\ Rendered \in Values \cup {None}
         /\ Cached \in SecretObjects \cup {None}
<1>1. w \in Workers /\ w.pc = "lookup" /\ w.item # None /\ w.tm \in Memories
  BY RestOK DEF At, WorkerOK, Stages, Holding
<1>2. w.item \in Templates /\ w.item \in Names
  BY <1>1, ClusterAssumption DEF Workers
<1>3. w.got \in [1 .. Len(w.tm.spec.refs) -> Values]
  <2>1. w.got \in Seq(Values)
    BY <1>1 DEF Workers
  <2>2. Len(w.got) = Len(w.tm.spec.refs)
    BY <1>1, RestOK DEF WorkerOK, Stages
  <2> QED
    BY <2>1, <2>2
<1>4. Rendered \in Values \cup {None}
  BY <1>1, <1>3, SpecFields, ReconcilerAssumption DEF Rendered, Spec1
<1>5. Cached \in SecretObjects \cup {None}
  BY <1>2 DEF Cached, IInv, TypeOK
<1> QED
  BY <1>1, <1>2, <1>4, <1>5 DEF Holding

LEMMA RenderFailsStep == IInv /\ RenderFails => IInv'
<1> SUFFICES ASSUME IInv, RenderFails PROVE IInv'
  OBVIOUS
<1>1. WorkerOK' /\ w'.pc # "write"
  BY CompleteOK, LookupFacts, RestOK DEF RenderFails, Reasons
<1> QED
  BY <1>1, WorkerStep, RestOK DEF RenderFails, WorkerFrame, clusterVars

LEMMA LookupOwnedStep == IInv /\ LookupOwned => IInv'
<1> SUFFICES ASSUME IInv, LookupOwned PROVE IInv'
  OBVIOUS
<1>1. WorkerOK' /\ w'.pc # "write"
  BY CompleteOK, LookupFacts, RestOK DEF LookupOwned, Reasons
<1> QED
  BY <1>1, WorkerStep, RestOK DEF LookupOwned, WorkerFrame, clusterVars

LEMMA LookupUnchangedStep == IInv /\ LookupUnchanged => IInv'
<1> SUFFICES ASSUME IInv, LookupUnchanged PROVE IInv'
  OBVIOUS
<1>1. WorkerOK' /\ w'.pc # "write"
  BY CompleteOK, LookupFacts, RestOK DEF LookupUnchanged, Mutable, Reasons
<1> QED
  BY <1>1, WorkerStep, RestOK DEF LookupUnchanged, WorkerFrame, clusterVars

\* The copies of a Secret are Secrets.
LEMMA CopyTyped ==
  ASSUME TypeOK, NEW n \in Names, NEW x \in SCopies(n)
  PROVE  x \in SecretObjects
<1>1. \A i \in DOMAIN sWatch : sWatch[i].obj \in SecretObjects \cup {None}
  <2> DEFINE Events == [key : Names, obj : SecretObjects \cup {None}]
  <2>1. sWatch \in Seq(Events)
    BY DEF TypeOK
  <2> HIDE DEF Events
  <2>2. \A i \in DOMAIN sWatch : sWatch[i] \in Events
    BY <2>1
  <2> QED
    BY <2>2 DEF Events
<1>2. secret[n] \in SecretObjects \cup {None} /\ sCache[n] \in SecretObjects \cup {None}
  BY DEF TypeOK
<1> QED
  BY <1>1, <1>2 DEF SCopies, Sent

LEMMA ProposeStep ==
  ASSUME IInv, At("lookup"), NEW s \in Candidates, Propose(s),
         WorkerFrame, UNCHANGED tracker,
         \A x \in SCopies(w.item) :
           x.rv = s.rv => x.owner # Foreign /\ x.type = s.type
  PROVE  IInv'
<1>1. w' = [w EXCEPT !.pc = "write", !.cand = s]
  BY DEF Propose
<1>2. /\ w' \in Workers /\ w'.pc = "write" /\ w'.cand = s /\ w'.item = w.item
      /\ w'.tm \in Memories /\ w'.err = w.err
  BY <1>1, LookupFacts DEF Workers, PCs
<1>3. WorkerOK'
  BY <1>2, LookupFacts, ClusterAssumption, RestOK DEF WorkerOK, Stages, TypeKept
<1>4. TypeOK'
  BY <1>3, RestOK DEF IInv, TypeOK, WorkerOK, WorkerFrame, clusterVars
<1>5. Coherent'
  BY DEF IInv, Coherent, SCopies, Sent, WorkerFrame, clusterVars
<1>6. Decided'
  BY <1>2 DEF Decided, SCopies, Sent, WorkerFrame, clusterVars
<1> QED
  BY <1>3, <1>4, <1>5, <1>6 DEF IInv, WorkerOK

LEMMA LookupAbsentStep == IInv /\ LookupAbsent => IInv'
<1> SUFFICES ASSUME IInv, LookupAbsent PROVE IInv'
  OBVIOUS
<1>1. At("lookup") /\ Rendered \in Values /\ w.item \in Names /\ w.tm \in Memories
  BY LookupFacts DEF LookupAbsent
<1>2. NewOutput \in Candidates /\ NewOutput.rv = 0
  BY <1>1, SpecFields DEF NewOutput, Candidates, Memories, Spec1
<1>3. \A x \in SCopies(w.item) : x.rv # 0
  BY <1>1, CopyTyped, ClusterAssumption DEF IInv, SecretObjects
<1> QED
  BY <1>1, <1>2, <1>3, ProposeStep DEF LookupAbsent

LEMMA LookupChangedStep == IInv /\ LookupChanged => IInv'
<1> SUFFICES ASSUME IInv, LookupChanged PROVE IInv'
  OBVIOUS
<1>1. /\ At("lookup") /\ Rendered \in Values /\ Cached \in SecretObjects
      /\ Cached # None /\ Cached.owner # Foreign /\ w.item \in Names /\ w.tm \in Memories
  BY LookupFacts DEF LookupChanged, Mutable
<1>2. /\ Mutate(Cached) \in Candidates
      /\ Mutate(Cached).rv = Cached.rv /\ Mutate(Cached).type = Cached.type
  BY <1>1 DEF Mutate, Candidates, SecretObjects, Memories
<1>3. Cached \in SCopies(w.item)
  BY <1>1 DEF SCopies, Cached
<1>4. \A x \in SCopies(w.item) : x.rv = Cached.rv => x = Cached
  BY <1>1, <1>3 DEF IInv, Coherent
<1> QED
  BY <1>1, <1>2, <1>4, ProposeStep DEF LookupChanged

---------------------------------------------------------------------------
(* Writes of Secrets and deliveries of their events.                       *)

LEMMA SentAppend ==
  ASSUME NEW E, NEW s \in Seq(E), NEW e \in E, NEW n
  PROVE  Sent(Append(s, e), n) = Sent(s, n) \cup IF e.key = n THEN {e.obj} ELSE {}
<1>1. /\ DOMAIN Append(s, e) = DOMAIN s \cup {Len(s) + 1}
      /\ Append(s, e)[Len(s) + 1] = e
      /\ \A i \in DOMAIN s : Append(s, e)[i] = s[i]
  OBVIOUS
<1> QED
  BY <1>1 DEF Sent

LEMMA SentTail ==
  ASSUME NEW E, NEW s \in Seq(E), s # << >>, NEW n
  PROVE  /\ Sent(Tail(s), n) \subseteq Sent(s, n)
         /\ Head(s) \in E
         /\ Head(s).key = n => Head(s).obj \in Sent(s, n)
<1>1. \A i \in DOMAIN Tail(s) : i + 1 \in DOMAIN s /\ Tail(s)[i] = s[i + 1]
  OBVIOUS
<1>2. 1 \in DOMAIN s /\ Head(s) = s[1] /\ s[1] \in E
  OBVIOUS
<1>3. Sent(Tail(s), n) \subseteq Sent(s, n)
  BY <1>1 DEF Sent
<1>4. Head(s).key = n => Head(s).obj \in Sent(s, n)
  BY <1>2 DEF Sent
<1> QED
  BY <1>2, <1>3, <1>4

\* A write adds one copy, under a version that no other has.
LEMMA StoreSecretOK ==
  ASSUME IInv, NEW n \in Names, NEW obj \in SecretObjects \cup {None},
         StoreSecret(n, obj), obj = None \/ obj.rv = NewS(n),
         UNCHANGED sCache, w' = w \/ w'.pc # "write"
  PROVE  /\ secret' \in [Names -> SecretObjects \cup {None}]
         /\ sWatch' \in Seq([key : Names, obj : SecretObjects \cup {None}])
         /\ Coherent' /\ Decided'
<1> DEFINE Events == [key : Names, obj : SecretObjects \cup {None}]
           event == [key |-> n, obj |-> obj]
<1>1. sWatch \in Seq(Events) /\ event \in Events
  BY DEF IInv, TypeOK
<1>2. sWatch' = Append(sWatch, event)
  BY DEF StoreSecret
<1>3. \A m : Sent(sWatch', m) = Sent(sWatch, m) \cup IF n = m THEN {obj} ELSE {}
  <2> HIDE DEF Events
  <2> QED
    BY <1>1, <1>2, SentAppend
<1>4. secret \in [Names -> SecretObjects \cup {None}] /\ secret' = [secret EXCEPT ![n] = obj]
  BY DEF IInv, TypeOK, StoreSecret
<1>5. NewS(n) \notin SVersions(n)
  BY DEF StoreSecret, NewS
<1>6. \A m \in Names :
        SCopies(m)' \subseteq SCopies(m) \cup IF m = n THEN {obj} \ {None} ELSE {}
  BY <1>3, <1>4 DEF SCopies
<1>7. \A x \in SCopies(n) : x.rv \in SVersions(n)
  BY DEF SVersions
<1>8. Coherent'
  <2> SUFFICES ASSUME NEW m \in Names, NEW x \in SCopies(m)', NEW y \in SCopies(m)',
                      x.rv = y.rv
               PROVE  x = y
    BY DEF Coherent
  <2>1. CASE x \in SCopies(m) /\ y \in SCopies(m)
    BY <2>1 DEF IInv, Coherent
  <2>2. CASE x \notin SCopies(m) \/ y \notin SCopies(m)
    BY <1>5, <1>6, <1>7, <2>2
  <2> QED
    BY <2>1, <2>2
<1>9. Decided'
  <2> SUFFICES ASSUME w'.pc = "write", NEW x \in SCopies(w.item)', x.rv = w'.cand.rv, w' = w
               PROVE  x.owner # Foreign /\ x.type = w'.cand.type
    BY DEF Decided, SCopies
  <2>1. w.item \in Names
    BY ClusterAssumption, RestOK DEF WorkerOK, Workers
  <2>2. w.item = n => w.cand.rv \in SVersions(n)
    BY DEF SVersions
  <2>3. x \in SCopies(w.item)
    BY <1>5, <1>6, <2>1, <2>2
  <2> QED
    BY <2>3 DEF IInv, Decided
<1>10. sWatch' \in Seq(Events)
  <2> HIDE DEF Events, event
  <2> QED
    BY <1>1, <1>2
<1> QED
  BY <1>4, <1>8, <1>9, <1>10

LEMMA DeliverSecretStep == IInv /\ DeliverSecret => IInv'
<1> SUFFICES ASSUME IInv, DeliverSecret PROVE IInv'
  OBVIOUS
<1> DEFINE Events == [key : Names, obj : SecretObjects \cup {None}]
           e == Head(sWatch)
<1>1. sWatch \in Seq(Events) /\ sWatch # << >>
  BY DEF IInv, TypeOK, DeliverSecret
<1>2. /\ e \in Events
      /\ \A n : /\ Sent(Tail(sWatch), n) \subseteq Sent(sWatch, n)
                /\ e.key = n => e.obj \in Sent(sWatch, n)
  <2> HIDE DEF Events
  <2> QED
    BY <1>1, SentTail
<1>3. /\ sCache \in [Names -> SecretObjects \cup {None}]
      /\ sCache' = [sCache EXCEPT ![e.key] = e.obj]
      /\ sWatch' = Tail(sWatch) /\ w' = w /\ secret' = secret
  BY DEF IInv, TypeOK, DeliverSecret
<1>4. \A n \in Names : SCopies(n)' \subseteq SCopies(n)
  BY <1>2, <1>3 DEF SCopies
<1>5. Coherent'
  BY <1>4 DEF IInv, Coherent
<1>6. w.pc = "write" => w.item \in Names
  BY ClusterAssumption, RestOK DEF WorkerOK, Workers
<1>7. Decided'
  BY <1>3, <1>4, <1>6 DEF IInv, Decided
<1>8. sWatch' \in Seq(Events)
  <2> HIDE DEF Events
  <2> QED
    BY <1>1, <1>3
<1>9. dirty' \subseteq Templates
  BY RestOK DEF DeliverSecret, OwnerOf, GetTracking
<1>10. TypeOK'
  BY <1>2, <1>3, <1>8, <1>9 DEF IInv, TypeOK, DeliverSecret
<1>11. Stages' /\ TypeKept'
  BY <1>3 DEF IInv, Stages, TypeKept
<1> QED
  BY <1>5, <1>7, <1>10, <1>11 DEF IInv

---------------------------------------------------------------------------
(* The write of the Secret.                                                *)

\* What the worker holds, and whom an update it may do belongs to.
LEMMA WriteFacts ==
  ASSUME IInv, At("write")
  PROVE  /\ w \in Workers /\ w.pc \in Holding /\ w.item \in Names
         /\ w.cand \in Candidates
         /\ Output \in SecretObjects \cup {None}
         /\ Refusal \in (Reasons \cup {""}) \ {"invalid"}
         /\ Refusal = "" /\ Output # None => Output.owner # Foreign
<1>1. w \in Workers /\ w.pc = "write" /\ w.item # None /\ w.cand \in Candidates
  BY RestOK DEF At, WorkerOK, Stages, Holding
<1>2. w.item \in Names
  BY <1>1, ClusterAssumption DEF Workers
<1>3. Output \in SecretObjects \cup {None}
  BY <1>2 DEF Output, IInv, TypeOK
<1>4. Output # None => Output \in SCopies(w.item)
  BY DEF Output, SCopies
<1>5. Output # None /\ Output.rv = w.cand.rv
        => Output.owner # Foreign /\ Output.type = w.cand.type
  BY <1>1, <1>4 DEF IInv, Decided
<1>6. Refusal \in (Reasons \cup {""}) \ {"invalid"}
  BY <1>5 DEF Refusal, Reasons
<1>7. Refusal = "" /\ Output # None => Output.rv = w.cand.rv
  BY DEF Refusal
<1> QED
  BY <1>1, <1>2, <1>3, <1>5, <1>6, <1>7 DEF Holding

LEMMA StoreOutputOK ==
  ASSUME IInv, At("write"), StoreOutput, UNCHANGED sCache, w'.pc # "write"
  PROVE  /\ secret' \in [Names -> SecretObjects \cup {None}]
         /\ sWatch' \in Seq([key : Names, obj : SecretObjects \cup {None}])
         /\ Coherent' /\ Decided'
<1>1. CASE w.cand = Output
  BY <1>1 DEF StoreOutput, IInv, TypeOK, Coherent, SCopies, Sent, Decided
<1>2. CASE w.cand # Output
  <2> DEFINE obj == [w.cand EXCEPT !.rv = NewS(w.item),
                       !.uid = IF w.cand.rv = 0 THEN NewS(w.item) ELSE @]
  <2>1. StoreSecret(w.item, obj)
    BY <1>2 DEF StoreOutput
  <2>2. NewS(w.item) \in Versions
    BY <2>1 DEF StoreSecret, NewS
  <2>3. w.cand \in Candidates /\ w.item \in Names
    BY WriteFacts
  <2>4. obj \in SecretObjects /\ obj.rv = NewS(w.item)
    BY <2>2, <2>3, ClusterAssumption DEF Candidates, SecretObjects, Owners
  <2> HIDE DEF obj
  <2> QED
    BY <2>1, <2>3, <2>4, StoreSecretOK
<1> QED
  BY <1>1, <1>2

LEMMA WriteSecretStep == IInv /\ WriteSecret => IInv'
<1> SUFFICES ASSUME IInv, WriteSecret PROVE IInv'
  OBVIOUS
<1>1. WorkerOK' /\ w'.pc # "write"
  BY CompleteOK, WriteFacts, RestOK DEF WriteSecret
<1>2. /\ secret' \in [Names -> SecretObjects \cup {None}]
      /\ sWatch' \in Seq([key : Names, obj : SecretObjects \cup {None}])
      /\ Coherent' /\ Decided'
  BY <1>1, StoreOutputOK DEF WriteSecret, WriteFrame
<1>3. TypeOK'
  BY <1>1, <1>2 DEF IInv, TypeOK, WorkerOK, WriteSecret, WriteFrame
<1> QED
  BY <1>1, <1>2, <1>3 DEF IInv, WorkerOK

LEMMA WriteFailsStep == IInv /\ WriteFails => IInv'
<1> SUFFICES ASSUME IInv, WriteFails PROVE IInv'
  OBVIOUS
<1>1. WorkerOK' /\ w'.pc # "write"
  BY CompleteOK, WriteFacts, RestOK DEF WriteFails, Reasons
<1>2. /\ secret' \in [Names -> SecretObjects \cup {None}]
      /\ sWatch' \in Seq([key : Names, obj : SecretObjects \cup {None}])
      /\ Coherent' /\ Decided'
  <2>1. CASE StoreOutput
    BY <1>1, <2>1, StoreOutputOK DEF WriteFails, WriteFrame
  <2>2. CASE UNCHANGED <<secret, sWatch>>
    BY <1>1, <2>2 DEF WriteFails, WriteFrame, IInv, TypeOK, Coherent, SCopies,
       Sent, Decided
  <2> QED
    BY <2>1, <2>2 DEF WriteFails
<1>3. budget' \in [ops : Nat, faults : Nat, crashes : Nat]
  <2>1. budget \in [ops : Nat, faults : Nat, crashes : Nat] /\ Spend("faults")
    BY RestOK DEF WriteFails
  <2> QED
    BY <2>1 DEF Spend
<1>4. TypeOK'
  BY <1>1, <1>2, <1>3 DEF IInv, TypeOK, WorkerOK, WriteFails, WriteFrame
<1> QED
  BY <1>1, <1>2, <1>4 DEF IInv, WorkerOK

LEMMA WriteRefusedStep == IInv /\ WriteRefused => IInv'
<1> SUFFICES ASSUME IInv, WriteRefused PROVE IInv'
  OBVIOUS
<1>1. WorkerOK' /\ w'.pc # "write"
  BY CompleteOK, WriteFacts, RestOK DEF WriteRefused
<1> QED
  BY <1>1, WorkerStep, RestOK DEF WriteRefused, WorkerFrame, clusterVars

---------------------------------------------------------------------------
(* The status update and the end of the reconcile.                         *)

\* A write of a SecretTemplate by anyone.
LEMMA StoreTemplateOK ==
  ASSUME TypeOK, NEW t \in Templates, NEW obj \in TemplateObjects \cup {None},
         StoreTemplate(t, obj)
  PROVE  /\ tmpl' \in [Templates -> TemplateObjects \cup {None}]
         /\ tWatch' \in Seq([key : Templates, obj : TemplateObjects \cup {None}])
<1> DEFINE Events == [key : Templates, obj : TemplateObjects \cup {None}]
           event == [key |-> t, obj |-> obj]
<1>1. tWatch \in Seq(Events) /\ event \in Events /\ tWatch' = Append(tWatch, event)
  BY DEF TypeOK, StoreTemplate
<1>2. tWatch' \in Seq(Events)
  <2> HIDE DEF Events, event
  <2> QED
    BY <1>1
<1>3. tmpl' \in [Templates -> TemplateObjects \cup {None}]
  BY DEF TypeOK, StoreTemplate
<1> QED
  BY <1>2, <1>3

LEMMA NewTVersion ==
  ASSUME NEW t, NEW obj, StoreTemplate(t, obj)
  PROVE  NewT(t) \in Versions
  BY DEF StoreTemplate, NewT

LEMMA StatusFacts ==
  ASSUME IInv, At("statusPut")
  PROVE  /\ w \in Workers /\ w.pc \in Holding /\ w.item \in Templates
         /\ w.tm \in Memories
         /\ Subject \in TemplateObjects \cup {None}
<1>1. w \in Workers /\ w.pc = "statusPut" /\ w.item # None /\ w.tm \in Memories
  BY RestOK DEF At, WorkerOK, Stages, Holding
<1>2. w.item \in Templates
  BY <1>1 DEF Workers
<1> QED
  BY <1>1, <1>2 DEF Subject, IInv, TypeOK, Holding

LEMMA StoreStatusOK ==
  ASSUME IInv, At("statusPut"), Subject # None, StoreStatus
  PROVE  /\ tmpl' \in [Templates -> TemplateObjects \cup {None}]
         /\ tWatch' \in Seq([key : Templates, obj : TemplateObjects \cup {None}])
<1>1. CASE Subject.status = w.tm.status
  BY <1>1 DEF StoreStatus, IInv, TypeOK
<1>2. CASE Subject.status # w.tm.status
  <2> DEFINE obj == [Subject EXCEPT !.rv = NewT(w.item), !.status = w.tm.status]
  <2>1. StoreTemplate(w.item, obj)
    BY <1>2 DEF StoreStatus
  <2>2. NewT(w.item) \in Versions
    BY <2>1, NewTVersion
  <2>3. obj \in TemplateObjects
    BY <2>2, StatusFacts DEF TemplateObjects, Memories
  <2> HIDE DEF obj
  <2> QED
    BY <2>1, <2>3, StatusFacts, StoreTemplateOK DEF IInv
<1> QED
  BY <1>1, <1>2

\* A step of the worker that writes at most its SecretTemplate.
LEMMA TemplateStep ==
  ASSUME IInv, WorkerOK', w'.pc # "write",
         UNCHANGED <<secret, other, aged, sWatch, tCache, sCache, dirty, waiting, tracker>>,
         budget' \in [ops : Nat, faults : Nat, crashes : Nat],
         tmpl' \in [Templates -> TemplateObjects \cup {None}],
         tWatch' \in Seq([key : Templates, obj : TemplateObjects \cup {None}])
  PROVE  IInv'
<1>1. TypeOK'
  BY DEF IInv, TypeOK, WorkerOK
<1>2. Coherent'
  BY DEF IInv, Coherent, SCopies, Sent
<1>3. Decided'
  BY DEF Decided
<1> QED
  BY <1>1, <1>2, <1>3 DEF IInv, WorkerOK

LEMMA StatusGetStep == IInv /\ StatusGet => IInv'
<1> SUFFICES ASSUME IInv, StatusGet PROVE IInv'
  OBVIOUS
<1>1. w \in Workers /\ w.pc = "statusGet" /\ w.item # None /\ w.tm \in Memories
  BY RestOK DEF StatusGet, At, WorkerOK, Stages, Holding
<1>2. tCache[w.item] \in TemplateObjects \cup {None}
  BY <1>1 DEF IInv, TypeOK, Workers
<1>3. WorkerOK' /\ w'.pc # "write"
  <2>1. CASE tCache[w.item] = None
    BY <1>1, <2>1, GotoOK, RestOK DEF StatusGet
  <2>2. CASE tCache[w.item] # None
    BY <1>1, <1>2, <2>2, RestOK DEF StatusGet, TemplateObjects, WorkerOK, Workers,
       PCs, Stages, Holding, TypeKept
  <2> QED
    BY <2>1, <2>2
<1> QED
  BY <1>3, WorkerStep, RestOK DEF StatusGet, WorkerFrame, clusterVars

LEMMA StatusPutStep == IInv /\ StatusPut => IInv'
<1> SUFFICES ASSUME IInv, StatusPut PROVE IInv'
  OBVIOUS
<1>1. WorkerOK' /\ w'.pc # "write"
  BY GotoOK, RestOK DEF StatusPut, Goto, At
<1> QED
  BY <1>1, TemplateStep, StoreStatusOK, RestOK DEF StatusPut, StatusFrame

LEMMA StatusConflictStep == IInv /\ StatusConflict => IInv'
<1> SUFFICES ASSUME IInv, StatusConflict PROVE IInv'
  OBVIOUS
<1>1. w \in Workers /\ w.pc = "statusPut" /\ w.item # None /\ w.tm \in Memories
  BY StatusFacts, ClusterAssumption DEF StatusConflict, At
<1>2. WorkerOK' /\ w'.pc # "write"
  <2>1. CASE w.tries + 1 < MaxTries
    <3>1. w' = [w EXCEPT !.pc = "statusGet", !.tries = w.tries + 1]
      BY <2>1 DEF StatusConflict
    <3>2. w.tries + 1 \in Nat
      <4>1. w.tries \in Nat
        BY <1>1 DEF Workers
      <4> QED
        BY <4>1
    <3>3. /\ w' \in Workers /\ w'.pc = "statusGet" /\ w'.item = w.item
          /\ w'.tm = w.tm /\ w'.err = w.err
      BY <1>1, <3>1, <3>2 DEF Workers, PCs
    <3> QED
      BY <1>1, <3>3, RestOK DEF WorkerOK, Stages, TypeKept
  <2>2. CASE ~(w.tries + 1 < MaxTries)
    BY <1>1, <2>2, GotoOK, RestOK DEF StatusConflict
  <2> QED
    BY <2>1, <2>2
<1> QED
  BY <1>2, WorkerStep, RestOK DEF StatusConflict, WorkerFrame, clusterVars

LEMMA StatusNotFoundStep == IInv /\ StatusNotFound => IInv'
<1> SUFFICES ASSUME IInv, StatusNotFound PROVE IInv'
  OBVIOUS
<1>1. WorkerOK' /\ w'.pc # "write"
  BY GotoOK, RestOK DEF StatusNotFound, Goto, At
<1> QED
  BY <1>1, WorkerStep, RestOK DEF StatusNotFound, WorkerFrame, clusterVars

LEMMA StatusFailsStep == IInv /\ StatusFails => IInv'
<1> SUFFICES ASSUME IInv, StatusFails PROVE IInv'
  OBVIOUS
<1>1. WorkerOK' /\ w'.pc # "write"
  BY GotoOK, RestOK DEF StatusFails, Goto, At
<1>2. budget' \in [ops : Nat, faults : Nat, crashes : Nat]
  BY RestOK DEF StatusFails, Spend
<1>3. CASE Subject # None /\ StoreStatus
  BY <1>1, <1>2, <1>3, TemplateStep, StoreStatusOK DEF StatusFails, StatusFrame
<1>4. CASE UNCHANGED <<tmpl, tWatch>>
  BY <1>1, <1>2, <1>4, TemplateStep DEF StatusFails, StatusFrame, IInv, TypeOK
<1> QED
  BY <1>3, <1>4 DEF StatusFails

LEMMA FinishStep == IInv /\ Finish => IInv'
<1> SUFFICES ASSUME IInv, Finish PROVE IInv'
  OBVIOUS
<1>1. WorkerOK' /\ w'.pc # "write"
  BY IdleOK DEF Finish, Idle
<1>2. w.item \in Templates
  BY RestOK DEF Finish, At, WorkerOK, Workers
<1>3. waiting' \subseteq Templates
  BY <1>2, RestOK DEF Finish
<1> QED
  BY <1>1, <1>3, WorkerStep, RestOK DEF Finish, clusterVars

---------------------------------------------------------------------------
(* The work queue, watch events and restarts.                              *)

LEMMA GetStep == ASSUME NEW t \in Templates PROVE IInv /\ Get(t) => IInv'
<1> SUFFICES ASSUME IInv, Get(t) PROVE IInv'
  OBVIOUS
<1>1. w \in Workers /\ w.pc = "idle" /\ w.got = << >> /\ w.keys = {} /\ w.err = ""
  BY RestOK DEF Get, At, WorkerOK, Stages
<1>2. w' = [w EXCEPT !.pc = "fetch", !.item = t]
  BY DEF Get
<1>3. /\ w' \in Workers /\ w'.pc = "fetch" /\ w'.item = t
      /\ w'.got = << >> /\ w'.keys = {} /\ w'.err = ""
  BY <1>1, <1>2 DEF Workers, PCs
<1>4. t # None
  BY ClusterAssumption
<1>6. WorkerOK' /\ w'.pc # "write"
  BY <1>3, <1>4 DEF WorkerOK, Stages, Holding, TypeKept
<1>5. dirty' \subseteq Templates
  BY RestOK DEF Get
<1> QED
  BY <1>5, <1>6, WorkerStep, RestOK DEF Get, clusterVars

\* A step of neither the worker nor a Secret.
LEMMA AsideStep ==
  ASSUME IInv, UNCHANGED <<secret, sWatch, sCache, w>>, TypeOK'
  PROVE  IInv'
<1>1. Stages' /\ TypeKept'
  BY DEF IInv, Stages, TypeKept
<1>2. Coherent'
  BY DEF IInv, Coherent, SCopies, Sent
<1>3. Decided'
  BY DEF IInv, Decided, SCopies, Sent
<1> QED
  BY <1>1, <1>2, <1>3 DEF IInv

LEMMA TimerStep == ASSUME NEW t \in Templates PROVE IInv /\ Timer(t) => IInv'
<1> SUFFICES ASSUME IInv, Timer(t) PROVE IInv'
  OBVIOUS
<1>1. TypeOK'
  BY DEF IInv, TypeOK, Timer, clusterVars
<1> QED
  BY <1>1, AsideStep DEF Timer, clusterVars

LEMMA DeliverTemplateStep == IInv /\ DeliverTemplate => IInv'
<1> SUFFICES ASSUME IInv, DeliverTemplate PROVE IInv'
  OBVIOUS
<1> DEFINE Events == [key : Templates, obj : TemplateObjects \cup {None}]
           e == Head(tWatch)
<1>1. tWatch \in Seq(Events) /\ tWatch # << >>
  BY DEF IInv, TypeOK, DeliverTemplate
<1>2. e \in Events /\ Tail(tWatch) \in Seq(Events)
  <2> HIDE DEF Events
  <2> QED
    BY <1>1
<1>3. TypeOK'
  BY <1>2 DEF IInv, TypeOK, DeliverTemplate
<1> QED
  BY <1>3, AsideStep DEF DeliverTemplate

LEMMA SpendOK ==
  ASSUME IInv, NEW what \in {"ops", "faults", "crashes"}, Spend(what)
  PROVE  budget' \in [ops : Nat, faults : Nat, crashes : Nat]
<1>1. budget \in [ops : Nat, faults : Nat, crashes : Nat]
  BY RestOK
<1> QED
  BY <1>1 DEF Spend

LEMMA ResyncStep == IInv /\ Resync => IInv'
<1> SUFFICES ASSUME IInv, Resync PROVE IInv'
  OBVIOUS
<1>1. budget' \in [ops : Nat, faults : Nat, crashes : Nat]
  BY SpendOK DEF Resync, UserDoes
<1>2. dirty' \subseteq Templates
  <2>1. dirty \subseteq Templates
    BY RestOK
  <2>2. Replayed(tCache, sCache, tracker) \subseteq Templates
    BY DEF Replayed
  <2> QED
    BY <2>1, <2>2 DEF Resync
<1>3. TypeOK'
  BY <1>1, <1>2 DEF IInv, TypeOK, Resync
<1> QED
  BY <1>3, AsideStep DEF Resync

LEMMA RestartStep == IInv /\ Restart => IInv'
<1> SUFFICES ASSUME IInv, Restart PROVE IInv'
  OBVIOUS
<1>1. WorkerOK' /\ w'.pc = "idle"
  BY IdleOK DEF Restart, Idle
<1>2. budget' \in [ops : Nat, faults : Nat, crashes : Nat]
  BY SpendOK DEF Restart
<1>3. dirty' \subseteq Templates
  BY DEF Restart, Replayed
<1>4. /\ sWatch' \in Seq([key : Names, obj : SecretObjects \cup {None}])
      /\ tWatch' \in Seq([key : Templates, obj : TemplateObjects \cup {None}])
  BY DEF Restart
<1>5. TypeOK'
  BY <1>1, <1>2, <1>3, <1>4 DEF IInv, TypeOK, Restart, WorkerOK
<1>6. \A n \in Names : SCopies(n)' \subseteq SCopies(n)
  BY DEF Restart, SCopies, Sent
<1>7. Coherent'
  BY <1>6 DEF IInv, Coherent
<1>8. Decided'
  BY <1>1 DEF Decided
<1> QED
  BY <1>1, <1>5, <1>7, <1>8 DEF IInv, WorkerOK

---------------------------------------------------------------------------
(* Users, time and the garbage collector.                                  *)

LEMMA WriteTemplate ==
  ASSUME IInv, UNCHANGED ctrlVars, TemplateFrame,
         NEW t \in Templates, NEW obj \in TemplateObjects \cup {None},
         StoreTemplate(t, obj),
         budget' \in [ops : Nat, faults : Nat, crashes : Nat]
  PROVE  IInv'
<1>1. /\ tmpl' \in [Templates -> TemplateObjects \cup {None}]
      /\ tWatch' \in Seq([key : Templates, obj : TemplateObjects \cup {None}])
  BY StoreTemplateOK DEF IInv
<1>2. TypeOK'
  BY <1>1 DEF IInv, TypeOK, TemplateFrame, ctrlVars
<1> QED
  BY <1>2, AsideStep DEF TemplateFrame, ctrlVars

LEMMA WriteOfSecret ==
  ASSUME IInv, UNCHANGED ctrlVars, SecretFrame,
         NEW n \in Names, NEW obj \in SecretObjects \cup {None},
         StoreSecret(n, obj), obj = None \/ obj.rv = NewS(n),
         budget' \in [ops : Nat, faults : Nat, crashes : Nat]
  PROVE  IInv'
<1>1. /\ secret' \in [Names -> SecretObjects \cup {None}]
      /\ sWatch' \in Seq([key : Names, obj : SecretObjects \cup {None}])
      /\ Coherent' /\ Decided'
  BY StoreSecretOK DEF SecretFrame, ctrlVars
<1>2. TypeOK'
  BY <1>1 DEF IInv, TypeOK, SecretFrame, ctrlVars
<1>3. Stages' /\ TypeKept'
  BY DEF IInv, Stages, TypeKept, ctrlVars
<1> QED
  BY <1>1, <1>2, <1>3 DEF IInv

LEMMA NextGeneration == \A o \in TemplateObjects : o.gen + 1 \in Nat
<1> SUFFICES ASSUME NEW o \in TemplateObjects PROVE o.gen + 1 \in Nat
  OBVIOUS
<1>1. o.gen \in Nat
  BY DEF TemplateObjects
<1> QED
  BY <1>1

LEMMA TemplateActs ==
  ASSUME IInv, UNCHANGED ctrlVars, NEW t \in Templates,
         \/ CreateTemplate(t) \/ EditTemplate(t) \/ DeleteTemplate(t)
         \/ MarkDeleting(t) \/ Finalize(t)
  PROVE  IInv'
<1>1. tmpl[t] \in TemplateObjects \cup {None}
  BY DEF IInv, TypeOK
<1>2. CASE CreateTemplate(t)
  <2>1. PICK sp \in UserSpecs[t] : StoreTemplate(t, NewTemplate(NewT(t), sp))
    BY <1>2 DEF CreateTemplate
  <2>2. NewT(t) \in Versions /\ sp \in Specs
    BY <2>1, NewTVersion, ClusterAssumption
  <2>3. NewTemplate(NewT(t), sp) \in TemplateObjects
    BY <2>2 DEF NewTemplate, InitStatus, TemplateObjects, Statuses, Conditions
  <2>4. budget' \in [ops : Nat, faults : Nat, crashes : Nat]
    BY <1>2, SpendOK DEF CreateTemplate, UserDoes
  <2> QED
    BY <1>2, <2>1, <2>3, <2>4, WriteTemplate DEF CreateTemplate
<1>3. CASE EditTemplate(t)
  <2>1. PICK sp \in UserSpecs[t] :
          StoreTemplate(t, [tmpl[t] EXCEPT !.rv = NewT(t), !.gen = @ + 1, !.spec = sp])
    BY <1>3 DEF EditTemplate
  <2>2. NewT(t) \in Versions /\ sp \in Specs /\ tmpl[t] \in TemplateObjects
    BY <1>1, <1>3, <2>1, NewTVersion, ClusterAssumption DEF EditTemplate
  <2>3. tmpl[t].gen + 1 \in Nat
    BY <2>2, NextGeneration
  <2>5. [tmpl[t] EXCEPT !.rv = NewT(t), !.gen = @ + 1, !.spec = sp] \in TemplateObjects
    BY <2>2, <2>3 DEF TemplateObjects
  <2>4. budget' \in [ops : Nat, faults : Nat, crashes : Nat]
    BY <1>3, SpendOK DEF EditTemplate, UserDoes
  <2> QED
    BY <1>3, <2>1, <2>4, <2>5, WriteTemplate DEF EditTemplate
<1>4. CASE DeleteTemplate(t)
  <2>1. budget' \in [ops : Nat, faults : Nat, crashes : Nat]
    BY <1>4, SpendOK DEF DeleteTemplate, UserDoes
  <2> QED
    BY <1>4, <2>1, WriteTemplate DEF DeleteTemplate
<1>5. CASE MarkDeleting(t)
  <2> DEFINE obj == [tmpl[t] EXCEPT !.rv = NewT(t), !.gen = @ + 1, !.deleting = TRUE]
  <2>1. StoreTemplate(t, obj)
    BY <1>5 DEF MarkDeleting
  <2>2. NewT(t) \in Versions /\ tmpl[t] \in TemplateObjects
    BY <1>1, <1>5, <2>1, NewTVersion DEF MarkDeleting
  <2>3. tmpl[t].gen + 1 \in Nat
    BY <2>2, NextGeneration
  <2>5. obj \in TemplateObjects
    BY <2>2, <2>3 DEF TemplateObjects
  <2>4. budget' \in [ops : Nat, faults : Nat, crashes : Nat]
    BY <1>5, SpendOK DEF MarkDeleting, UserDoes
  <2> QED
    BY <1>5, <2>1, <2>4, <2>5, WriteTemplate DEF MarkDeleting
<1>6. CASE Finalize(t)
  BY <1>6, WriteTemplate, RestOK DEF Finalize
<1> QED
  BY <1>2, <1>3, <1>4, <1>5, <1>6

LEMMA NewSVersion ==
  ASSUME NEW n, NEW obj, StoreSecret(n, obj)
  PROVE  NewS(n) \in Versions
  BY DEF StoreSecret, NewS

LEMMA SecretActs ==
  ASSUME IInv, UNCHANGED ctrlVars, NEW n \in Names,
         CreateSecret(n) \/ EditSecret(n) \/ DeleteSecret(n) \/ CollectGarbage(n)
  PROVE  IInv'
<1>1. secret[n] \in SecretObjects \cup {None}
  BY DEF IInv, TypeOK
<1>2. CASE CreateSecret(n)
  <2>1. PICK d \in UserValues[n], ty \in Types, ow \in UserOwners[n] :
          StoreSecret(n, NewSecret(NewS(n), d, ty, ow))
    BY <1>2 DEF CreateSecret
  <2>2. NewS(n) \in Versions /\ d \in Values /\ ow \in Owners
    BY <2>1, NewSVersion, ClusterAssumption DEF Owners
  <2>3. /\ NewSecret(NewS(n), d, ty, ow) \in SecretObjects
        /\ NewSecret(NewS(n), d, ty, ow).rv = NewS(n)
    BY <2>2 DEF NewSecret, SecretObjects
  <2>4. budget' \in [ops : Nat, faults : Nat, crashes : Nat]
    BY <1>2, SpendOK DEF CreateSecret, UserDoes
  <2> QED
    BY <1>2, <2>1, <2>3, <2>4, WriteOfSecret DEF CreateSecret
<1>3. CASE EditSecret(n)
  <2>1. PICK d \in UserValues[n], ow \in UserOwners[n] \cup {secret[n].owner} :
          StoreSecret(n, [secret[n] EXCEPT !.rv = NewS(n), !.data = d, !.owner = ow])
    BY <1>3 DEF EditSecret
  <2> DEFINE obj == [secret[n] EXCEPT !.rv = NewS(n), !.data = d, !.owner = ow]
  <2>2. secret[n] \in SecretObjects
    BY <1>1, <1>3 DEF EditSecret
  <2>3. NewS(n) \in Versions /\ d \in Values /\ ow \in Owners
    BY <2>1, <2>2, NewSVersion, ClusterAssumption DEF Owners, SecretObjects
  <2>4. obj \in SecretObjects /\ obj.rv = NewS(n)
    BY <2>2, <2>3 DEF SecretObjects
  <2>5. budget' \in [ops : Nat, faults : Nat, crashes : Nat]
    BY <1>3, SpendOK DEF EditSecret, UserDoes
  <2> QED
    BY <1>3, <2>1, <2>4, <2>5, WriteOfSecret DEF EditSecret
<1>4. CASE DeleteSecret(n)
  <2>1. budget' \in [ops : Nat, faults : Nat, crashes : Nat]
    BY <1>4, SpendOK DEF DeleteSecret, UserDoes
  <2> QED
    BY <1>4, <2>1, WriteOfSecret DEF DeleteSecret
<1>5. CASE CollectGarbage(n)
  BY <1>5, WriteOfSecret, RestOK DEF CollectGarbage
<1> QED
  BY <1>2, <1>3, <1>4, <1>5

LEMMA OtherActs ==
  ASSUME IInv, UNCHANGED ctrlVars,
         (\E n \in Names : AgeSecret(n)) \/ (\E o \in Others : ChangeOther(o))
  PROVE  IInv'
<1>1. CASE \E n \in Names : AgeSecret(n)
  <2>1. PICK n \in Names : AgeSecret(n)
    BY <1>1
  <2>2. secret[n] \in SecretObjects
    BY <2>1 DEF IInv, TypeOK, AgeSecret
  <2>3. aged' \subseteq Names \X Versions
    BY <2>1, <2>2 DEF IInv, TypeOK, AgeSecret, SecretObjects
  <2>4. budget' \in [ops : Nat, faults : Nat, crashes : Nat]
    BY <2>1, SpendOK DEF AgeSecret, UserDoes
  <2>5. TypeOK'
    BY <2>1, <2>3, <2>4 DEF IInv, TypeOK, AgeSecret, ctrlVars
  <2> QED
    BY <2>1, <2>5, AsideStep DEF AgeSecret, ctrlVars
<1>2. CASE \E o \in Others : ChangeOther(o)
  <2>1. PICK o \in Others : ChangeOther(o)
    BY <1>2
  <2>2. PICK d \in UserValues[o] \cup {None} : other' = [other EXCEPT ![o] = d]
    BY <2>1 DEF ChangeOther
  <2>3. other' \in [Others -> Values \cup {None}]
    BY <2>2, ClusterAssumption DEF IInv, TypeOK
  <2>4. budget' \in [ops : Nat, faults : Nat, crashes : Nat]
    BY <2>1, SpendOK DEF ChangeOther, UserDoes
  <2>5. TypeOK'
    BY <2>1, <2>3, <2>4 DEF IInv, TypeOK, ChangeOther, ctrlVars
  <2> QED
    BY <2>1, <2>5, AsideStep DEF ChangeOther, ctrlVars
<1> QED
  BY <1>1, <1>2

LEMMA EnvironmentStep == IInv /\ Environment /\ UNCHANGED ctrlVars => IInv'
<1> SUFFICES ASSUME IInv, Environment, UNCHANGED ctrlVars PROVE IInv'
  OBVIOUS
<1>1. CASE \E t \in Templates :
             \/ CreateTemplate(t) \/ EditTemplate(t) \/ DeleteTemplate(t)
             \/ MarkDeleting(t) \/ Finalize(t)
  BY <1>1, TemplateActs
<1>2. CASE \E n \in Names : \/ CreateSecret(n) \/ EditSecret(n)
                            \/ DeleteSecret(n) \/ CollectGarbage(n)
  BY <1>2, SecretActs
<1>3. CASE (\E n \in Names : AgeSecret(n)) \/ (\E o \in Others : ChangeOther(o))
  BY <1>3, OtherActs
<1> QED
  BY <1>1, <1>2, <1>3, ClusterAssumption DEF Environment

---------------------------------------------------------------------------
(* The theorems.                                                           *)

LEMMA InitIInv == Init => IInv
<1> SUFFICES ASSUME Init PROVE IInv
  OBVIOUS
<1>1. tmpl \in [Templates -> TemplateObjects \cup {None}]
  BY ClusterAssumption DEF Init, ClusterInit, NewTemplate, InitStatus,
     TemplateObjects, Statuses, Conditions
<1>2. secret \in [Names -> SecretObjects \cup {None}]
  BY ClusterAssumption DEF Init, ClusterInit, NewSecret, SecretObjects, Owners
<1>3. /\ sWatch = << >> /\ tWatch = << >> /\ sCache = secret /\ tCache = tmpl
      /\ aged = {}
  BY DEF Init, ClusterInit
<1>9. /\ sWatch \in Seq([key : Names, obj : SecretObjects \cup {None}])
      /\ tWatch \in Seq([key : Templates, obj : TemplateObjects \cup {None}])
  BY <1>3
<1>4. /\ other \in [Others -> Values \cup {None}]
      /\ budget \in [ops : Nat, faults : Nat, crashes : Nat]
  BY ClusterAssumption DEF Init, ClusterInit
<1>5. /\ w \in Workers /\ Stages /\ TypeKept /\ w.pc = "idle" /\ w.item = None
  BY Empties DEF Init, Idle, Workers, PCs, Stages, Holding, TypeKept
<1>6. TypeOK
  BY <1>1, <1>2, <1>3, <1>4, <1>5, <1>9 DEF TypeOK, Init
<1>7. Coherent
  BY <1>3 DEF Coherent, SCopies, Sent
<1>8. Decided
  BY <1>5 DEF Decided
<1> QED
  BY <1>5, <1>6, <1>7, <1>8 DEF IInv

LEMMA StutterStep == IInv /\ UNCHANGED vars => IInv'
<1> SUFFICES ASSUME IInv, UNCHANGED vars PROVE IInv'
  OBVIOUS
<1>1. TypeOK'
  BY DEF IInv, TypeOK, vars, clusterVars, ctrlVars
<1> QED
  BY <1>1, AsideStep DEF vars, clusterVars, ctrlVars

LEMMA WorkStep == IInv /\ Work => IInv'
BY FetchNotFoundStep, ForgetStep, FetchDeletingStep, FetchTemplateStep,
   CheckAgeStep, LoadClientStep, ReadInputStep, ReadNotSecretStep,
   ReadNoNameStep, ReadNotFoundStep, InputsReadStep, UntrackStep,
   TrackInputsStep, RenderFailsStep, LookupAbsentStep, LookupOwnedStep,
   LookupUnchangedStep, LookupChangedStep, WriteSecretStep, WriteRefusedStep,
   StatusGetStep, StatusPutStep, StatusConflictStep, StatusNotFoundStep,
   FinishStep DEF Work

LEMMA FaultStep == IInv /\ Faults => IInv'
BY ClientFailsStep, ReadFailsStep, WriteFailsStep, StatusFailsStep DEF Faults

LEMMA NextIInv == IInv /\ [Next]_vars => IInv'
BY StutterStep, WorkStep, FaultStep, EnvironmentStep, GetStep, TimerStep,
   DeliverTemplateStep, DeliverSecretStep, ResyncStep, RestartStep DEF Next

THEOREM Invariance == Spec => []IInv
BY InitIInv, NextIInv, PTL DEF Spec

\* Every variable keeps its type.
THEOREM TypeCorrect == Spec => []TypeOK
<1>1. IInv => TypeOK
  BY DEF IInv
<1> QED
  BY <1>1, Invariance, PTL

\* No update the controller sends is refused for the type of the Secret,
\* whatever the spec's type was before (lines 252-259).
THEOREM TypeNeverChanged == Spec => []TypeKept
<1>1. IInv => TypeKept
  BY DEF IInv
<1> QED
  BY <1>1, Invariance, PTL

\* A step that changes the Secret of another controller is a user's.
LEMMA ForeignStep ==
  ASSUME IInv, Next, NEW n \in Names,
         secret[n] # None, secret[n].owner = Foreign, secret'[n] # secret[n]
  PROVE  budget'.ops # budget.ops
<1> DEFINE Safe == budget'.ops # budget.ops
<1>0. budget \in [ops : Nat, faults : Nat, crashes : Nat]
  BY RestOK
<1>1. ASSUME Spend("ops") PROVE Safe
  BY <1>0, <1>1 DEF Spend
<1>2. ASSUME Environment PROVE Safe
  <2>1. ASSUME NEW m \in Names, CollectGarbage(m) PROVE secret'[n] = secret[n]
    <3>1. secret[m].owner > 0
      BY <2>1 DEF CollectGarbage, Orphan
    <3>2. m # n
      BY <3>1 DEF Foreign
    <3> QED
      BY <2>1, <3>2 DEF CollectGarbage, StoreSecret, IInv, TypeOK
  <2>2. ASSUME NEW t \in Templates, Finalize(t) PROVE secret' = secret
    BY <2>2 DEF Finalize, TemplateFrame
  <2> HIDE DEF Safe
  <2> QED
    BY <1>1, <1>2, <2>1, <2>2, ClusterAssumption DEF Environment, CreateTemplate,
       EditTemplate, DeleteTemplate, MarkDeleting, CreateSecret, EditSecret,
       DeleteSecret, AgeSecret, ChangeOther, UserDoes
<1>3. ASSUME StoreOutput, At("write"), Refusal = "" PROVE FALSE
  <2>1. w.item = n
    BY <1>3 DEF StoreOutput, StoreSecret, IInv, TypeOK
  <2> QED
    BY <1>3, <2>1, WriteFacts DEF Output
<1>4. ASSUME Work \/ Faults PROVE FALSE
  <2>1. secret' = secret \/ WriteSecret \/ WriteFails
    BY <1>4 DEF Work, Faults, FetchNotFound, Forget, FetchDeleting, FetchTemplate,
       CheckAge, LoadClient, ReadInput, ReadNotSecret, ReadNoName, ReadNotFound,
       InputsRead, Untrack, TrackInputs, RenderFails, LookupAbsent, LookupOwned,
       LookupUnchanged, LookupChanged, WriteRefused, StatusGet, StatusPut,
       StatusConflict, StatusNotFound, Finish, ClientFails, ReadFails,
       StatusFails, WorkerFrame, StatusFrame, clusterVars
  <2> QED
    BY <1>3, <2>1 DEF WriteSecret, WriteFails
<1>5. ASSUME (\E t \in Templates : Get(t) \/ Timer(t)) \/ DeliverTemplate
              \/ DeliverSecret \/ Resync \/ Restart
      PROVE FALSE
  BY <1>5 DEF Get, Timer, DeliverTemplate, DeliverSecret, Resync, Restart, clusterVars
<1> QED
  BY <1>2, <1>4, <1>5 DEF Next

\* A Secret controlled by somebody else is only ever changed by users: the
\* worker may decide on a cached copy from before it had that controller, but
\* its update then carries a resourceVersion that the Secret no longer has.
THEOREM Untouched == Spec => ForeignUntouched
<1>1. IInv /\ [Next]_vars =>
        [\A n \in Names :
           /\ secret[n] # None /\ secret[n].owner = Foreign
           /\ secret'[n] # secret[n]
           => budget'.ops # budget.ops]_vars
  BY ForeignStep
<1> QED
  BY <1>1, Invariance, PTL DEF Spec, ForeignUntouched

=============================================================================
