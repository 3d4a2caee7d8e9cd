------------------------------ MODULE MCParts ------------------------------
(***************************************************************************)
(* The parts that share no state with each other or with the reconciler: a *)
(* process that starts; one that runs and loads clients for its            *)
(* ServiceAccounts; and the three ways it handles expressions, each on     *)
(* inputs of its own.  No step of one reads or writes what another does,   *)
(* so each is explored from one state of the others: a process that runs,  *)
(* with the bounds of the start-up used up, no token asked for, nothing to *)
(* evaluate.                                                               *)
(***************************************************************************)
EXTENDS Startup, TokenManager, JSONPath, Expansion, TemplateEvaluation

CONSTANTS n1, n2

MCPatience == [p \in Waits |-> IF p = "established" THEN 3 ELSE 2]
MCLists == {<< >>, <<Blank>>, <<n1, Blank, n2>>}
MCLegacies == {Unset, n2}

MCPathChars == {"$", "(", ")", "x"}
MCPaths == BoundedSeq(MCPathChars, 6)

\* h is a byte that is not ASCII.
MCBytes == {"$", "(", ")", "x", "h"}
MCTexts == BoundedSeq(MCBytes, 5)
MCContexts == << <<"x">> :> <<"$", "(", "x", ")">>,
                 <<"x">> :> <<"h">> @@ <<"(">> :> << >> >>
MCEncode == [b \in MCBytes |-> IF b = "h" THEN <<"h", "x">> ELSE <<b>>]

Piece(val, enc) == [val |-> val, enc |-> enc]
MCInputs == "creds" :> [secret |-> TRUE,
                        data |-> ("x" :> Piece("p", 1) @@ "y" :> Piece("q", 2))]
         @@ "map" :> [secret |-> FALSE,
                      data |-> ("x" :> Piece("p", 0) @@ "y" :> Piece("q", 1))]
MCSpoilt(text) == IF text = "t.data.t" THEN "t.decodedData.t" ELSE text

MCParts == {Ref("creds", "data", "x"), Ref("creds", "data", "y"),
            Ref("creds", "data", "z"), Ref("creds", "decodedData", "x"),
            Ref("creds", "decodedData", "y"),
            Ref("map", "data", "x"), Ref("map", "data", "y"),
            Text("t"), Text("t.data.t")}
Short == BoundedSeq(MCParts, 1)
Long == BoundedSeq(MCParts, 2)
Some == {<< >>, <<Ref("creds", "data", "x")>>, <<Ref("creds", "data", "z")>>}

Empty == [s \in {"data", "stringData", "annotations", "labels"} |-> << >>]
           @@ "type" :> ("type" :> << >>)
MCTemplates ==
  {Nil} \cup {[Empty EXCEPT ![s] = "k" :> e @@ "l" :> f] :
                 s \in {"data", "stringData"}, e \in Long, f \in Short}
         \cup {[s \in DOMAIN Empty |-> (IF s = "type" THEN "type" ELSE "k") :> e[s]] :
                 e \in [DOMAIN Empty -> Some]}

---------------------------------------------------------------------------

exprVars == <<pathVars, expandVars, evalVars>>

Rested == /\ phase = "running" /\ crd = "established" /\ served
          /\ flags = [list |-> << >>, legacy |-> Unset]
          /\ errors = MaxErrors /\ exits = MaxExits /\ removals = MaxRemovals

RestedInit == /\ phase = "running" /\ timer = Unset
              /\ checking = FALSE /\ last = FALSE /\ scope = {Every}
              /\ flags = [list |-> << >>, legacy |-> Unset]
              /\ crd = "established" /\ served = TRUE
              /\ errors = MaxErrors /\ exits = MaxExits /\ removals = MaxRemovals

ExprInit == \/ source \in Paths /\ input = << >> /\ template = Nil
            \/ source = << >> /\ input \in Texts /\ template = Nil
            \/ source = << >> /\ input = << >> /\ template \in Templates

\* Nothing was to be evaluated, and it is over.
NothingToEvaluate == source = << >> /\ input = << >> /\ done /\ outcome = "nil"

\* What is left when there was nothing to evaluate.
OverInit == /\ source = << >> /\ input = << >> /\ template = Nil
            /\ cursor = 0 /\ checkpoint = 0 /\ buf = << >> /\ result = << >>
            /\ done = TRUE /\ at = 1 /\ outcome = "nil"
            /\ entries = [s \in 1 .. Len(Sections) |-> << >>]

Init == /\ TokenInit
        /\ \/ StartInit /\ OverInit
           \/ RestedInit /\ ExprInit /\ ExpandBegin /\ EvalBegin
        /\ PathBegin

Starting(A) == NothingToEvaluate /\ A /\ UNCHANGED <<tokenVars, exprVars>>
Using(A) == NothingToEvaluate /\ Rested /\ A /\ UNCHANGED <<startVars, exprVars>>
Other == UNCHANGED <<startVars, tokenVars>>

Next ==
  \/ Starting(Elapse) \/ Starting(CloseChannel)
  \/ Starting(CheckEstablished) \/ Starting(CheckDiscoverable)
  \/ Starting(SetUp) \/ Starting(Die) \/ Starting(Restart)
  \/ Starting(Install) \/ Starting(Establish)
  \/ Starting(Refresh) \/ Starting(RemoveCRD)
  \/ \E k \in Callers : \/ \E a \in Accounts : Using(Load(k, a))
                        \/ Using(Review(k)) \/ Using(CheckAge(k))
                        \/ Using(Request(k)) \/ Using(Failed(k))
                        \/ Using(Set(k)) \/ Using(Loaded(k))
  \/ Using(Cleanup) \/ Using(PassTime)
  \/ \E a \in Accounts : Using(ChangeAccount(a))
  \/ Push /\ UNCHANGED <<expandVars, evalVars>> /\ Other
  \/ Translate /\ UNCHANGED <<expandVars, evalVars>> /\ Other
  \/ Close /\ UNCHANGED <<expandVars, evalVars>> /\ Other
  \/ Pass /\ UNCHANGED <<expandVars, evalVars>> /\ Other
  \/ Copy /\ UNCHANGED <<pathVars, evalVars>> /\ Other
  \/ Substitute /\ UNCHANGED <<pathVars, evalVars>> /\ Other
  \/ Return /\ UNCHANGED <<pathVars, evalVars>> /\ Other
  \/ NilTemplate /\ UNCHANGED <<pathVars, expandVars>> /\ Other
  \/ NextSection /\ UNCHANGED <<pathVars, expandVars>> /\ Other
  \/ \E key \in {"k", "l", "type"} :
       Evaluate(key) /\ UNCHANGED <<pathVars, expandVars>> /\ Other

vars == <<startVars, tokenVars, exprVars>>
Spec == Init /\ [][Next]_vars /\ StartFairness /\ TokenFairness

=============================================================================
