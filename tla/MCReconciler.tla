---------------------------- MODULE MCReconciler ----------------------------
(***************************************************************************)
(* Small clusters for the reconciler.  A content is a sequence of words:   *)
(* an input holds one, a rendered Secret has the name of its template      *)
(* before the words of its inputs.                                         *)
(***************************************************************************)
EXTENDS SecretTemplateReconciler, FiniteSets, TLC

Words == {"v1", "v2", "bad", "b", "t"}

\* A content that is the name of a Secret can be used as one.
MCNameIn(v) == IF Len(v) = 1 /\ v[1] \in Names THEN v[1] ELSE None

Ref1(k, n) == [kind |-> k, name |-> n]
SpecOf(refs, tm, sa, ty) == [refs |-> refs, tmpl |-> tm, sa |-> sa,
                             type |-> ty, sdata |-> FALSE]

Inputs == {<<x>> : x \in Words}
Copies(S) == {<<tm>> \o v : tm \in {"A", "B"}, v \in S}

\* Inputs, copies of one or two of them, and copies of copies.
MCValues == Inputs \cup Copies(Inputs) \cup Copies(Copies(Inputs))
              \cup {<<"B">> \o x \o y : x \in Inputs, y \in Inputs \cup Copies(Inputs)}

\* What is longer than the contents of a run never comes up in it.
MCRender(tm, vals) ==
  LET all[i \in 0 .. Len(vals)] ==
        IF i = 0 THEN <<tm>> ELSE all[i - 1] \o vals[i]
  IN  IF \E i \in DOMAIN vals : vals[i] = <<"bad">> THEN None
      ELSE IF all[Len(vals)] \in Values THEN all[Len(vals)] ELSE None

\* A template over plain inputs needs no more than these.
One_Values == Inputs \cup Copies(Inputs)

---------------------------------------------------------------------------
(* One template over one Secret "a": its two specs differ in the template. *)

OneA == SpecOf(<<Ref1("Secret", "a")>>, "A", FALSE, "Opaque")
OneB == SpecOf(<<Ref1("Secret", "a")>>, "B", FALSE, "Opaque")

One_Specs == {OneA, OneB}
One_InitSpec == [t \in Templates |-> OneA]
One_InitValue == [n \in Names |-> IF n = "a" THEN <<"v1">> ELSE None]
One_UserSpecs == [t \in Templates |-> {OneA, OneB}]
One_UserValues == [n \in Names |-> {<<"v1">>, <<"v2">>}]
One_UserOwners == [n \in Names |-> IF n = "a" THEN {NoOwner} ELSE {NoOwner, Foreign}]
\* Users who write only the output Secret, or only the input.
Out_UserValues == [n \in Names |-> IF n = "a" THEN {} ELSE {<<"v1">>}]
In_UserValues  == [n \in Names |-> IF n = "a" THEN {<<"v1">>, <<"v2">>} ELSE {}]
Out_UserOwners == [n \in Names |-> {NoOwner}]
Take_UserOwners == [n \in Names |-> {Foreign}]

\* "a" names the input "b", until it names nothing; "b" may come to hold what
\* the template cannot be evaluated on.
Bad_InitSpec == [t \in Templates |->
                   SpecOf(<<Ref1("Secret", "a"), Ref1("Secret", None)>>, "B", FALSE, "Opaque")]
Bad_Specs == {Bad_InitSpec[t] : t \in Templates}
Bad_UserSpecs == [t \in Templates |-> Bad_Specs]
Bad_InitValue == [n \in Names |-> CASE n = "a" -> <<"b">> [] n = "b" -> <<"v1">>
                                     [] OTHER -> None]
Bad_UserValues == [n \in Names |-> CASE n = "a" -> {<<"v1">>}
                                      [] n = "b" -> {<<"bad">>} [] OTHER -> {}]

NoOthers == [o \in {} |-> None]

---------------------------------------------------------------------------
(* A ServiceAccount reads the ConfigMap "o"; without one it is refused.    *)

Any_SA == SpecOf(<<Ref1("Other", "o")>>, "A", TRUE, "Opaque")
Any_Plain == [Any_SA EXCEPT !.sa = FALSE]
Any_Specs == {OneA, Any_SA, Any_Plain}
Any_InitSpec == [t \in Templates |-> Any_SA]
Any_UserSpecs == [t \in Templates |-> Any_Specs]
Any_UserValues == [n \in Names \cup Others |-> IF n \in Others THEN {<<"v2">>} ELSE {}]
Any_InitOther == [o \in Others |-> <<"v1">>]

---------------------------------------------------------------------------
(* The template "t" copies "b", and "u" the Secret that "a" names: the      *)
(* output of "t", or the input of both.                                    *)

Chain_U == SpecOf(<<Ref1("Secret", "a"), Ref1("Secret", None)>>, "B", FALSE, "Opaque")
Chain_T == SpecOf(<<Ref1("Secret", "b")>>, "A", FALSE, "Opaque")
Chain_Specs == {Chain_T, Chain_U}
Chain_InitSpec == [t \in Templates |-> IF t = "u" THEN Chain_U ELSE Chain_T]
Chain_UserSpecs == [t \in Templates |-> {Chain_InitSpec[t]}]
Chain_InitValue == [n \in Names |-> CASE n = "a" -> <<"t">> [] n = "b" -> <<"v1">>
                                       [] OTHER -> None]
Chain_UserValues == [n \in Names |-> CASE n = "a" -> {<<"b">>, <<"v1">>}
                                        [] n = "b" -> {<<"v2">>} [] OTHER -> {}]

---------------------------------------------------------------------------
(* Another type, and stringData.                                           *)

TypeB == [OneA EXCEPT !.type = "tls", !.sdata = TRUE]
Type_Specs == {OneA, TypeB}
Type_UserSpecs == [t \in Templates |-> Type_Specs]

=============================================================================
