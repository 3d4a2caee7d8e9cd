------------------------------ MODULE JSONPath ------------------------------
(***************************************************************************)
(* JSONPath.ToK8sJSONPath (generator/jsonpath.go): the loop that rewrites  *)
(* an expression in place, $(...) becoming {...}, while it walks over it.  *)
(* Positions are those of the code: the first character is at 0.           *)
(***************************************************************************)
EXTENDS Integers, Sequences, FiniteSets, SequencesExt

CONSTANTS Paths,     \* the expressions
          PathChars  \* their characters

ASSUME PathAssumption == Paths \subseteq Seq(PathChars)

VARIABLES
  source,  \* the expression as it was (p)
  path,    \* newPath
  i,       \* where the loop is
  open     \* openPositions, the last one on top

pathVars == <<source, path, i, open>>

PathBegin == path = source /\ i = 0 /\ open = << >>
PathInit == source \in Paths /\ PathBegin

At(s, k) == s[k + 1]

\* replace: n characters from position k on give way to c.
Replace(s, k, n, c) ==
  IF k >= Len(s) THEN Append(s, c)
  ELSE SubSeq(s, 1, k) \o <<c>> \o SubSeq(s, k + n + 1, Len(s))

Peek(stack) == IF stack = << >> THEN -1 ELSE Last(stack)
Pop(stack) == IF stack = << >> THEN stack ELSE Front(stack)

Reads(c) == i < Len(path) /\ At(path, i) = c

Push == /\ Reads("(")
        /\ open' = Append(open, i)
        /\ i' = i + 1
        /\ UNCHANGED <<source, path>>

\* The bracket on top of the stack belongs to a $( .
Prefixed == Peek(open) > 0 /\ At(path, Peek(open) - 1) = "$"

\* Mutant: i stays where it was, as if nothing had been removed.
TranslateUnfixed ==
  /\ Reads(")") /\ Prefixed
  /\ path' = Replace(Replace(path, Peek(open) - 1, 2, "{"), i - 1, 1, "}")
  /\ i' = i + 1
  /\ open' = Pop(open)
  /\ UNCHANGED source

\* Mutant: the bracket stays on the stack.
TranslateKeeping ==
  /\ Reads(")") /\ Prefixed
  /\ path' = Replace(Replace(path, Peek(open) - 1, 2, "{"), i - 1, 1, "}")
  /\ i' = i
  /\ UNCHANGED <<source, open>>

\* $( loses a character, so the closing bracket is one to the left.
Translate ==
  /\ Reads(")") /\ Prefixed
  /\ path' = Replace(Replace(path, Peek(open) - 1, 2, "{"), i - 1, 1, "}")
  /\ i' = i
  /\ open' = Pop(open)
  /\ UNCHANGED source

\* Mutant: a bracket without $ stays on the stack.
CloseKeeping == /\ Reads(")") /\ ~Prefixed
                /\ i' = i + 1
                /\ UNCHANGED <<source, path, open>>

Close == /\ Reads(")") /\ ~Prefixed
         /\ open' = Pop(open)
         /\ i' = i + 1
         /\ UNCHANGED <<source, path>>

Pass == /\ i < Len(path) /\ At(path, i) \notin {"(", ")"}
        /\ i' = i + 1
        /\ UNCHANGED <<source, path, open>>

PathNext == Push \/ Translate \/ Close \/ Pass

PathSpec == PathInit /\ [][PathNext]_pathVars

---------------------------------------------------------------------------
(* Properties.                                                             *)

Letters == PathChars \cup {"{", "}"}

PathTypeOK == /\ source \in Seq(PathChars) /\ path \in Seq(Letters)
              /\ i \in 0 .. Len(path)
              /\ open \in Seq(Nat)

\* The stack always holds, in order, positions of brackets in the path as
\* it has become: a position written before a character was removed to its
\* left would make replace cut out something else.
StackSound ==
  /\ \A j \in 1 .. Len(open) : open[j] < i /\ At(path, open[j]) = "("
  /\ \A j, k \in 1 .. Len(open) : j < k => open[j] < open[k]

\* What is to come of an expression, told by its pairs of brackets.
Depth(s, o, c) == Cardinality({k \in o .. c : s[k] = "("})
                    - Cardinality({k \in o .. c : s[k] = ")"})
Pair(s, o, c) == /\ s[o] = "(" /\ s[c] = ")" /\ Depth(s, o, c) = 0
                 /\ \A k \in o .. c - 1 : Depth(s, o, k) > 0
References(s) == {pair \in (2 .. Len(s)) \X (2 .. Len(s)) :
                    /\ pair[1] < pair[2] /\ s[pair[1] - 1] = "$"
                    /\ Pair(s, pair[1], pair[2])}

\* What each character becomes, and all up to one of them.
Becomes(s, refs, k) ==
  IF \E r \in refs : k = r[1] - 1 THEN << >>
  ELSE IF \E r \in refs : k = r[1] THEN <<"{">>
  ELSE IF \E r \in refs : k = r[2] THEN <<"}">> ELSE <<s[k]>>
Rewritten(s, refs) ==
  LET upto[k \in 0 .. Len(s)] ==
        IF k = 0 THEN << >> ELSE upto[k - 1] \o Becomes(s, refs, k)
  IN  upto
Translated(s) == Rewritten(s, References(s))[Len(s)]

\* In the end each $( and the bracket that closes it have become { and },
\* however they are nested, and nothing else has changed.
TranslatesReferences == i = Len(path) => path = Translated(source)

=============================================================================
