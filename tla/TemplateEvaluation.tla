------------------------- MODULE TemplateEvaluation -------------------------
(***************************************************************************)
(* evaluateTemplate, evaluate and evaluateBytes of the reconciler: the     *)
(* Secret that a template makes of the inputs that were read, entry by     *)
(* entry in the random order of Go's maps.                                 *)
(*                                                                         *)
(* An expression is a sequence of parts: text, and references to a field   *)
(* of an input.  What it evaluates to is a sequence of pieces, each with   *)
(* the number of times it is base64 encoded; pieces are as long as it      *)
(* takes for their encodings to be concatenated.  The JSONPath library,    *)
(* external, finds what a reference names, or fails.                       *)
(***************************************************************************)
EXTENDS Integers, Sequences, FiniteSets

CONSTANTS
  Nil,
  Inputs,    \* input |-> [secret, data]: is it a v1 Secret; key |-> piece
  Templates, \* section |-> key |-> expression, or Nil where there is none
  Spoilt(_)  \* text |-> the text with the first .data. in it replaced,
             \* the text itself where there is none

Sections == <<"data", "stringData", "annotations", "labels", "type">>

Text(t) == [kind |-> "text", text |-> t]
Ref(input, field, key) ==
  [kind |-> "ref", input |-> input, field |-> field, key |-> key]

Parts == [kind : {"text"}, text : STRING]
           \cup [kind : {"ref"}, input : STRING, field : STRING, key : STRING]

ASSUME EvalAssumption == \A t \in Templates \ {Nil} : \A s \in DOMAIN Sections :
  \A key \in DOMAIN t[Sections[s]] : t[Sections[s]][key] \in Seq(Parts)

VARIABLES
  template,
  at,       \* the section being evaluated, an index of Sections
  entries,  \* section |-> key |-> what it was evaluated to
  outcome   \* "running", "ok", or what is reported to have failed

evalVars == <<template, at, entries, outcome>>

EvalBegin == /\ at = 1 /\ outcome = "running"
             /\ entries = [s \in 1 .. Len(Sections) |-> << >>]
EvalInit == template \in Templates /\ EvalBegin

Decoded(piece) == [piece EXCEPT !.enc = @ - 1]

---------------------------------------------------------------------------
(* JSONPath(...).EvaluateWith.                                             *)

\* resolveInputResources gives a Secret, whose data is encoded, a second
\* field with the data decoded.
Content(input) ==
  LET data == Inputs[input].data
      fields == IF Inputs[input].secret THEN {"data", "decodedData"} ELSE {"data"}
  IN  [f \in fields |->
         IF f = "data" THEN data ELSE [k \in DOMAIN data |-> Decoded(data[k])]]

Found(part) == part.kind = "ref" =>
  /\ part.input \in DOMAIN Inputs
  /\ part.field \in DOMAIN Content(part.input)
  /\ part.key \in DOMAIN Content(part.input)[part.field]

Evaluates(expr) == \A i \in DOMAIN expr : Found(expr[i])
Evaluated(expr) ==
  [i \in DOMAIN expr |->
     IF expr[i].kind = "text" THEN [val |-> expr[i].text, enc |-> 0]
     ELSE Content(expr[i].input)[expr[i].field][expr[i].key]]

---------------------------------------------------------------------------
(* The substitution of .decodedData. for the first .data., wherever it is. *)

Matches(part) == IF part.kind = "text" THEN Spoilt(part.text) # part.text
                 ELSE part.field = "data"
Matching(expr) == {i \in DOMAIN expr : Matches(expr[i])}

Substituted(expr) ==
  LET first == CHOOSE i \in Matching(expr) : \A j \in Matching(expr) : i <= j
  IN  [expr EXCEPT ![first] = IF @.kind = "text" THEN Text(Spoilt(@.text))
                              ELSE [@ EXCEPT !.field = "decodedData"]]

UsesDecoded(expr) == Matching(expr) # {} /\ Evaluates(Substituted(expr))

\* Mutant: what comes from decodedData is decoded as well.
BytesOfTwice(expr) ==
  LET pieces == Evaluated(IF UsesDecoded(expr) THEN Substituted(expr) ELSE expr)
  IN  IF ~Evaluates(expr) \/ \E i \in DOMAIN pieces : pieces[i].enc = 0 THEN Nil
      ELSE [i \in DOMAIN pieces |-> Decoded(pieces[i])]

\* evaluateBytes, of one entry; Nil stands for an error.
BytesOf(expr) ==
  LET pieces == Evaluated(expr) IN
    IF ~Evaluates(expr) THEN Nil
    ELSE IF UsesDecoded(expr) THEN Evaluated(Substituted(expr))
    ELSE IF \E i \in DOMAIN pieces : pieces[i].enc = 0 THEN Nil
    ELSE [i \in DOMAIN pieces |-> Decoded(pieces[i])]

\* Mutant: the first evaluation is kept.
StringOfPlain(expr) == IF ~Evaluates(expr) THEN Nil ELSE Evaluated(expr)

\* evaluate, of one entry.
StringOf(expr) ==
  IF ~Evaluates(expr) THEN Nil
  ELSE Evaluated(IF UsesDecoded(expr) THEN Substituted(expr) ELSE expr)

ValueOf(section, expr) ==
  CASE section = "data" -> BytesOf(expr)
    [] section = "type" -> IF Evaluates(expr) THEN Evaluated(expr) ELSE Nil
    [] OTHER -> StringOf(expr)

---------------------------------------------------------------------------
(* evaluateTemplate.                                                       *)

NilTemplate == /\ outcome = "running" /\ template = Nil
               /\ outcome' = "nil"
               /\ UNCHANGED <<template, at, entries>>

Running == outcome = "running" /\ template # Nil
Section == Sections[at]
Left == DOMAIN template[Section] \ DOMAIN entries[at]

Evaluate(key) ==
  /\ Running /\ key \in Left
  /\ LET value == ValueOf(Section, template[Section][key]) IN
       IF value = Nil
       THEN outcome' = Section /\ UNCHANGED <<at, entries>>
       ELSE /\ entries' = [entries EXCEPT ![at] =
                 [k \in DOMAIN @ \cup {key} |-> IF k = key THEN value ELSE @[k]]]
            /\ UNCHANGED <<at, outcome>>
  /\ UNCHANGED template

\* Mutant: the section ends with its first entry.
NextEarly == /\ Running /\ (Left = {} \/ DOMAIN entries[at] # {})
             /\ IF at < Len(Sections) THEN at' = at + 1 /\ UNCHANGED outcome
                ELSE outcome' = "ok" /\ UNCHANGED at
             /\ UNCHANGED <<template, entries>>

NextSection == /\ Running /\ Left = {}
               /\ IF at < Len(Sections) THEN at' = at + 1 /\ UNCHANGED outcome
                  ELSE outcome' = "ok" /\ UNCHANGED at
               /\ UNCHANGED <<template, entries>>

EvalNext == NilTemplate \/ NextSection
            \/ (Running /\ \E key \in Left : Evaluate(key))

EvalSpec == EvalInit /\ [][EvalNext]_evalVars

---------------------------------------------------------------------------
(* Properties.                                                             *)

\* What a reference means to a user: the content of a Secret's field, not
\* its encoding; a text means itself.
Meant(part) ==
  IF part.kind = "text" THEN [val |-> part.text, enc |-> 0]
  ELSE LET piece == Inputs[part.input].data[part.key]
       IN  IF Inputs[part.input].secret THEN Decoded(piece) ELSE piece

\* The code finds it where .data. occurs once, in a reference ...
Simple(expr) == \A i \in Matching(expr) : expr[i].kind = "ref" /\ Matching(expr) = {i}

\* ... and then each entry is what its expression means.  In data, which
\* is for encoded things, that holds with a Secret's .data.; without one,
\* what the expression means is decoded once more.
AsMeant == \A s \in {1, 2, 3, 4} : \A key \in DOMAIN entries[s] :
  LET expr == template[Sections[s]][key]
      fromSecret == \E i \in DOMAIN expr :
        expr[i].kind = "ref" /\ expr[i].field = "data" /\ Inputs[expr[i].input].secret
  IN  Simple(expr) =>
        \A i \in DOMAIN expr :
          entries[s][key][i] = IF Sections[s] = "data" /\ ~fromSecret
                               THEN Decoded(Meant(expr[i])) ELSE Meant(expr[i])

\* Whether a template succeeds, which entries its Secret then has and which
\* section is said to fail do not depend on the order in which maps are
\* ranged over; only which of several failing entries is reported does.
\* (What the entries are is AsMeant's question.)
Fails(s) == \E key \in DOMAIN template[Sections[s]] :
  ValueOf(Sections[s], template[Sections[s]][key]) = Nil
OrderIrrelevant == template # Nil /\ outcome # "running" =>
  IF outcome = "ok"
  THEN \A s \in DOMAIN Sections :
         /\ ~Fails(s)
         /\ DOMAIN entries[s] = DOMAIN template[Sections[s]]
  ELSE \E s \in DOMAIN Sections :
         Sections[s] = outcome /\ Fails(s) /\ \A r \in 1 .. s - 1 : ~Fails(r)

=============================================================================
