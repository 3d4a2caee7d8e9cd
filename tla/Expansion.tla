------------------------------ MODULE Expansion ------------------------------
(***************************************************************************)
(* Expand and tryReadVariableName (expansion/expand.go): references $(name) *)
(* in a string are replaced by what a mapping has for the name.  Positions *)
(* are those of the code: the first byte is at 0.                          *)
(***************************************************************************)
EXTENDS Integers, Sequences, FiniteSets, SequencesExt

CONSTANTS Texts,     \* the inputs
          Bytes,     \* their bytes
          Contexts,  \* the maps given to MappingFuncFor, in their order
          Encode     \* byte |-> the bytes of the rune of that number

ASSUME ExpansionAssumption ==
  /\ Texts \subseteq Seq(Bytes)
  /\ {"$", "(", ")"} \subseteq Bytes
  /\ Encode \in [Bytes -> Seq(Bytes)]
  /\ \A c \in DOMAIN Contexts :
       c \in Nat /\ \A name \in DOMAIN Contexts[c] : Contexts[c][name] \in Seq(Bytes)

VARIABLES
  input,
  cursor, checkpoint,
  buf,
  result,  \* what Expand returns
  done     \* it has returned

expandVars == <<input, cursor, checkpoint, buf, result, done>>

ExpandBegin == /\ cursor = 0 /\ checkpoint = 0 /\ buf = << >>
               /\ result = << >> /\ done = FALSE
ExpandInit == input \in Texts /\ ExpandBegin

\* s[from:to]
Slice(s, from, to) == SubSeq(s, from + 1, to)

Variable(name) == <<"$", "(">> \o name \o <<")">>

\* MappingFuncFor: the first map that has the name.
Mapping(name) ==
  LET having == {c \in DOMAIN Contexts : name \in DOMAIN Contexts[c]}
  IN  IF having = {} THEN Variable(name)
      ELSE Contexts[CHOOSE c \in having : \A d \in having : c <= d][name]

\* Mutant: an escaped operator is not consumed.
ReadNoEscape(rest) ==
  LET closers == {k \in 1 .. Len(rest) - 1 : rest[k + 1] = ")"}
      closer == CHOOSE k \in closers : \A l \in closers : k <= l
  IN  CASE rest[1] = "$" -> [read |-> <<"$">>, isVar |-> FALSE, advance |-> 0]
        [] rest[1] = "(" /\ closers # {} ->
             [read |-> Slice(rest, 1, closer), isVar |-> TRUE, advance |-> closer + 1]
        [] rest[1] = "(" /\ closers = {} ->
             [read |-> <<"$", "(">>, isVar |-> FALSE, advance |-> 1]
        [] OTHER -> [read |-> <<"$">> \o Encode[rest[1]], isVar |-> FALSE, advance |-> 1]

\* tryReadVariableName: what follows an operator.  The first byte of
\* anything else is taken for a rune.
TryRead(rest) ==
  LET closers == {k \in 1 .. Len(rest) - 1 : rest[k + 1] = ")"}
      closer == CHOOSE k \in closers : \A l \in closers : k <= l
  IN  CASE rest[1] = "$" -> [read |-> <<"$">>, isVar |-> FALSE, advance |-> 1]
        [] rest[1] = "(" /\ closers # {} ->
             [read |-> Slice(rest, 1, closer), isVar |-> TRUE, advance |-> closer + 1]
        [] rest[1] = "(" /\ closers = {} ->
             [read |-> <<"$", "(">>, isVar |-> FALSE, advance |-> 1]
        [] OTHER -> [read |-> <<"$">> \o Encode[rest[1]], isVar |-> FALSE, advance |-> 1]

AtOperator == input[cursor + 1] = "$" /\ cursor + 1 < Len(input)

Copy == /\ cursor < Len(input) /\ ~AtOperator
        /\ cursor' = cursor + 1
        /\ UNCHANGED <<input, checkpoint, buf, result, done>>

\* Mutant: the checkpoint is one too far.
SubstituteSkipping ==
  /\ cursor < Len(input) /\ AtOperator
  /\ LET r == TryRead(Slice(input, cursor + 1, Len(input))) IN
       /\ buf' = buf \o Slice(input, checkpoint, cursor)
                     \o (IF r.isVar THEN Mapping(r.read) ELSE r.read)
       /\ cursor' = cursor + r.advance + 1
       /\ checkpoint' = cursor + r.advance + 2
  /\ UNCHANGED <<input, result, done>>

Substitute ==
  /\ cursor < Len(input) /\ AtOperator
  /\ LET r == TryRead(Slice(input, cursor + 1, Len(input))) IN
       /\ buf' = buf \o Slice(input, checkpoint, cursor)
                     \o (IF r.isVar THEN Mapping(r.read) ELSE r.read)
       /\ cursor' = cursor + r.advance + 1
       /\ checkpoint' = cursor + r.advance + 1
  /\ UNCHANGED <<input, result, done>>

\* Mutant: the rest is what the loop has not seen.
ReturnCursor == /\ cursor = Len(input) /\ ~done /\ done' = TRUE
                /\ result' = buf \o Slice(input, cursor, Len(input))
                /\ UNCHANGED <<input, cursor, checkpoint, buf>>

Return == /\ cursor = Len(input) /\ ~done /\ done' = TRUE
          /\ result' = buf \o Slice(input, checkpoint, Len(input))
          /\ UNCHANGED <<input, cursor, checkpoint, buf>>

ExpandNext == Copy \/ Substitute \/ Return

ExpandSpec == ExpandInit /\ [][ExpandNext]_expandVars

---------------------------------------------------------------------------
(* Properties.                                                             *)

\* Every slice the loop takes is one of the input: Go would panic.
ExpandTypeOK == /\ input \in Seq(Bytes)
                /\ cursor \in 0 .. Len(input) /\ checkpoint \in 0 .. cursor

\* What a text means, from its k-th byte on: an operator before another is
\* one operator, before a bracket that is closed a reference; else it is
\* copied, as is everything that is not an operator.  What a name stands for
\* is not expanded again.
Meaning(s) ==
  LET closers(k) == {l \in k .. Len(s) : s[l] = ")"}
      closer(k) == CHOOSE l \in closers(k) : \A m \in closers(k) : l <= m
      from[k \in 1 .. Len(s) + 1] ==
        IF k > Len(s) THEN << >>
        ELSE IF k < Len(s) /\ s[k] = "$" /\ s[k + 1] = "$"
        THEN <<"$">> \o from[k + 2]
        ELSE IF k < Len(s) /\ s[k] = "$" /\ s[k + 1] = "(" /\ closers(k) # {}
        THEN Mapping(SubSeq(s, k + 2, closer(k) - 1)) \o from[closer(k) + 1]
        ELSE <<s[k]>> \o from[k + 1]
  IN  from[1]

\* An operator stands before a byte of a rune of several: the code takes the
\* byte for a rune and encodes it once more.
BeforeRune == \E k \in 1 .. Len(input) - 1 :
  input[k] = "$" /\ Encode[input[k + 1]] # <<input[k + 1]>>

\* Expand returns what the text means, but where BeforeRune: the checkpoint
\* and the cursor, moved in different places, cover every byte once.
ExpandsReferences == done /\ ~BeforeRune => result = Meaning(input)

\* To double its operators protects any text from expansion, whatever the
\* names: a text whose operators come in pairs is returned with one of each.
Paired(s) == \A j, k \in 1 .. Len(s) :
  /\ j <= k /\ \A l \in j .. k : s[l] = "$"
  /\ j = 1 \/ s[j - 1] # "$"
  /\ k = Len(s) \/ s[k + 1] # "$"
  => (k - j) % 2 = 1
Halved(s) ==
  LET from[k \in 1 .. Len(s) + 1] ==
        IF k > Len(s) THEN << >>
        ELSE IF k < Len(s) /\ s[k] = "$" THEN <<"$">> \o from[k + 2]
        ELSE <<s[k]>> \o from[k + 1]
  IN  from[1]
DoublingProtects == done /\ Paired(input) => result = Halved(input)

=============================================================================
