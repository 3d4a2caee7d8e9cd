---------------------------- MODULE Template_proofs ----------------------------
(***************************************************************************)
(* Proofs about the three ways the controller handles expressions, for     *)
(* expressions of any length, any mapping, any inputs and any templates.   *)
(*                                                                         *)
(* JSONPath: the loop that rewrites an expression in place keeps its stack *)
(* of positions true to the expression as it has become, and leaves each   *)
(* $(...), nested or not, as {...} and the rest as it was.                 *)
(*                                                                         *)
(* Expansion: Expand never slices its input out of bounds, returns what    *)
(* the text means, and gives back a text whose operators are doubled.      *)
(*                                                                         *)
(* TemplateEvaluation: the order in which Go ranges over a map does not    *)
(* matter, and an expression with one .data. means what its user reads in  *)
(* it.                                                                     *)
(***************************************************************************)
EXTENDS JSONPath, Expansion, TemplateEvaluation, SequenceTheorems,
        FiniteSetTheorems, WellFoundedInduction, TLAPS

---------------------------------------------------------------------------
(* Numbers.                                                                *)

\* A set of natural numbers has a least one.
LEMMA LeastNumber ==
  ASSUME NEW S \in SUBSET Nat, S # {}
  PROVE  \E k \in S : \A l \in S : k <= l
<1>1. PICK k \in S : \A l \in S : <<l, k>> \notin OpToRel(<, Nat)
  BY NatLessThanWellFounded, WFMin
<1>2. \A l \in S : ~(l < k)
  BY <1>1 DEF OpToRel
<1> QED
  BY <1>2

---------------------------------------------------------------------------
(* JSONPath.                                                               *)

PathInv == PathTypeOK /\ StackSound

\* n characters give way to one, and those before them stay.
LEMMA Replaced ==
  ASSUME NEW s \in Seq(Letters), NEW k \in Nat, NEW n \in Nat \ {0}, k + n <= Len(s),
         NEW c \in Letters
  PROVE  /\ Replace(s, k, n, c) \in Seq(Letters)
         /\ Len(Replace(s, k, n, c)) = Len(s) - n + 1
         /\ \A j \in 1 .. k : Replace(s, k, n, c)[j] = s[j]
<1> DEFINE a == SubSeq(s, 1, k)
           b == <<c>>
           d == SubSeq(s, k + n + 1, Len(s))
           ab == a \o b
           r == ab \o d
<1>1. a \in Seq(Letters) /\ Len(a) = k /\ \A j \in 1 .. k : a[j] = s[j]
  <2>1. \A j \in 1 .. k : s[j] \in Letters
    BY ElementOfSeq
  <2> QED
    BY <2>1, SubSeqProperties
<1>2. b \in Seq(Letters) /\ Len(b) = 1
  OBVIOUS
<1>3. d \in Seq(Letters) /\ Len(d) = Len(s) - (k + n)
  <2>1. \A j \in k + n + 1 .. Len(s) : s[j] \in Letters
    BY ElementOfSeq
  <2>2. Len(s) \in Nat
    OBVIOUS
  <2> QED
    BY <2>1, <2>2, SubSeqProperties
<1>4. ~(k >= Len(s))
  BY SMT
<1>5. Replace(s, k, n, c) = (a \o b) \o d
  BY <1>4, Zenon DEF Replace
<1> HIDE DEF a, b, d
<1>6. ab \in Seq(Letters) /\ Len(ab) = k + 1 /\ \A j \in 1 .. k : ab[j] = a[j]
  <2>1. ab \in Seq(Letters) /\ Len(ab) = Len(a) + Len(b)
    BY <1>1, <1>2, ConcatProperties
  <2>2. \A j \in 1 .. Len(a) + Len(b) : ab[j] = IF j <= Len(a) THEN a[j] ELSE b[j - Len(a)]
    BY <1>1, <1>2, ConcatProperties
  <2> HIDE DEF ab
  <2> QED
    BY <1>1, <1>2, <2>1, <2>2
<1> HIDE DEF ab
<1>7. /\ r \in Seq(Letters) /\ Len(r) = Len(s) - n + 1
      /\ \A j \in 1 .. k : r[j] = ab[j]
  <2>1. r \in Seq(Letters) /\ Len(r) = Len(ab) + Len(d)
    BY <1>3, <1>6, ConcatProperties
  <2>2. \A j \in 1 .. Len(ab) + Len(d) : r[j] = IF j <= Len(ab) THEN ab[j] ELSE d[j - Len(ab)]
    BY <1>3, <1>6, ConcatProperties
  <2> HIDE DEF r
  <2>3. /\ Len(ab) = k + 1 /\ Len(d) = Len(s) - (k + n)
        /\ Len(s) \in Nat /\ k \in Nat /\ n \in Nat
    BY <1>3, <1>6
  <2>4. Len(r) = Len(s) - n + 1
    BY <2>1, <2>3
  <2>5. \A j \in 1 .. k : r[j] = ab[j]
    BY <2>2, <2>3
  <2> QED
    BY <2>1, <2>4, <2>5
<1>8. Replace(s, k, n, c) = r
  BY <1>5 DEF ab
<1> HIDE DEF r
<1> QED
  BY <1>1, <1>6, <1>7, <1>8
---------------------------------------------------------------------------
(* The steps of the loop.                                                  *)

LEMMA PushStep == PathInv /\ Push => PathInv'
<1> SUFFICES ASSUME PathInv, Push PROVE PathInv'
  OBVIOUS
<1>1. /\ open' = Append(open, i) /\ i' = i + 1 /\ path' = path /\ source' = source
      /\ i \in Nat /\ i < Len(path) /\ At(path, i) = "("
      /\ open \in Seq(Nat) /\ Len(open) \in Nat
  BY DEF PathInv, PathTypeOK, Push, Reads
<1>2. /\ open' \in Seq(Nat) /\ Len(open') = Len(open) + 1
      /\ \A j \in 1 .. Len(open) : open'[j] = open[j]
      /\ open'[Len(open) + 1] = i
  BY <1>1
<1>3. PathTypeOK'
  BY <1>1, <1>2 DEF PathInv, PathTypeOK
<1>4. \A j \in 1 .. Len(open') : open'[j] < i' /\ At(path', open'[j]) = "("
  <2> TAKE j \in 1 .. Len(open')
  <2>1. CASE j = Len(open) + 1
    BY <1>1, <1>2, <2>1
  <2>2. CASE j \in 1 .. Len(open)
    <3>1. open[j] \in Nat /\ open[j] < i /\ At(path, open[j]) = "("
      BY <1>1, <2>2 DEF PathInv, StackSound
    <3> QED
      BY <1>1, <1>2, <2>2, <3>1
  <2> QED
    BY <1>1, <1>2, <2>1, <2>2
<1>5. \A j, k \in 1 .. Len(open') : j < k => open'[j] < open'[k]
  BY <1>1, <1>2, SMTT(30) DEF PathInv, StackSound
<1> QED
  BY <1>3, <1>4, <1>5 DEF PathInv, StackSound

\* A stack without its top, if it has one.
LEMMA Popped ==
  ASSUME NEW stack \in Seq(Nat)
  PROVE  /\ Pop(stack) \in Seq(Nat)
         /\ Len(Pop(stack)) <= Len(stack)
         /\ \A j \in 1 .. Len(Pop(stack)) : Pop(stack)[j] = stack[j]
         /\ stack # << >> => Len(Pop(stack)) = Len(stack) - 1
<1>1. CASE stack = << >>
  BY <1>1 DEF Pop
<1>2. CASE stack # << >>
  <2>1. Pop(stack) = SubSeq(stack, 1, Len(stack) - 1)
    BY <1>2 DEF Pop, Front
  <2> DEFINE m == Len(stack) - 1
  <2>2. m \in Nat /\ Len(stack) = m + 1
    BY <1>2
  <2>3. \A j \in 1 .. m : stack[j] \in Nat
    BY ElementOfSeq, <2>2
  <2> HIDE DEF m
  <2>4. /\ SubSeq(stack, 1, m) \in Seq(Nat)
        /\ Len(SubSeq(stack, 1, m)) = IF 1 <= m THEN m - 1 + 1 ELSE 0
        /\ \A j \in 1 .. m - 1 + 1 : SubSeq(stack, 1, m)[j] = stack[1 + j - 1]
    BY <2>2, <2>3, SubSeqProperties
  <2>5. Pop(stack) = SubSeq(stack, 1, m)
    BY <2>1 DEF m
  <2> QED
    BY <1>2, <2>2, <2>4, <2>5
<1> QED
  BY <1>1, <1>2

LEMMA CloseStep == PathInv /\ Close => PathInv'
<1> SUFFICES ASSUME PathInv, Close PROVE PathInv'
  OBVIOUS
<1>1. /\ open' = Pop(open) /\ i' = i + 1 /\ path' = path /\ source' = source
      /\ i \in Nat /\ i < Len(path) /\ open \in Seq(Nat) /\ Len(open) \in Nat
  BY DEF PathInv, PathTypeOK, Close, Reads
<1>2. /\ open' \in Seq(Nat) /\ Len(open') <= Len(open) /\ Len(open') \in Nat
      /\ \A j \in 1 .. Len(open') : open'[j] = open[j]
  BY <1>1, Popped, SMTT(30)
<1>3. PathTypeOK'
  BY <1>1, <1>2 DEF PathInv, PathTypeOK
<1>4. \A j \in 1 .. Len(open') : open'[j] < i' /\ At(path', open'[j]) = "("
  <2> TAKE j \in 1 .. Len(open')
  <2>1. j \in 1 .. Len(open)
    BY <1>1, <1>2
  <2>2. open[j] \in Nat /\ open[j] < i /\ At(path, open[j]) = "("
    BY <1>1, <2>1 DEF PathInv, StackSound
  <2> QED
    BY <1>1, <1>2, <2>2
<1>5. \A j, k \in 1 .. Len(open') : j < k => open'[j] < open'[k]
  <2> TAKE j, k \in 1 .. Len(open')
  <2>1. j \in 1 .. Len(open) /\ k \in 1 .. Len(open)
    BY <1>1, <1>2, SMTT(30)
  <2>2. j < k => open[j] < open[k]
    BY <2>1 DEF PathInv, StackSound
  <2> QED
    BY <1>2, <2>2
<1> QED
  BY <1>3, <1>4, <1>5 DEF PathInv, StackSound

LEMMA PassStep == PathInv /\ Pass => PathInv'
<1> SUFFICES ASSUME PathInv, Pass PROVE PathInv'
  OBVIOUS
<1>1. /\ open' = open /\ i' = i + 1 /\ path' = path /\ source' = source
      /\ i \in Nat /\ i < Len(path) /\ open \in Seq(Nat)
  BY DEF PathInv, PathTypeOK, Pass
<1>2. PathTypeOK'
  BY <1>1 DEF PathInv, PathTypeOK
<1>3. \A j \in 1 .. Len(open) : open[j] < i + 1
  BY <1>1 DEF PathInv, StackSound
<1> QED
  BY <1>1, <1>2, <1>3 DEF PathInv, StackSound

\* The positions that stay on the stack are to the left of the $ that goes.
LEMMA TranslateStep == PathInv /\ Translate => PathInv'
<1> SUFFICES ASSUME PathInv, Translate PROVE PathInv'
  OBVIOUS
<1> DEFINE p == Peek(open)
           n == Len(open)
           q == Replace(path, p - 1, 2, "{")
<1>0. path' = Replace(q, i - 1, 1, "}")
  BY Zenon DEF Translate
<1> HIDE DEF q
<1>1. /\ open \in Seq(Nat) /\ n \in Nat /\ i \in Nat /\ i < Len(path)
      /\ path \in Seq(Letters) /\ p > 0 /\ At(path, p - 1) = "$"
      /\ i' = i /\ open' = Pop(open) /\ source' = source
  <2>1. i' = i /\ open' = Pop(open) /\ source' = source
    BY Zenon DEF Translate
  <2>2. p > 0 /\ At(path, p - 1) = "$" /\ i < Len(path)
    BY Zenon DEF Translate, Reads, Prefixed
  <2>3. open \in Seq(Nat) /\ path \in Seq(Letters) /\ i \in Nat
    BY DEF PathInv, PathTypeOK
  <2> QED
    BY <2>1, <2>2, <2>3
<1>2. open # << >> /\ n > 0 /\ p = open[n] /\ p \in Nat
  <2>1. CASE open = << >>
    <3>1. p = -1
      BY <2>1, Zenon DEF Peek
    <3> HIDE DEF p
    <3> QED
      BY <1>1, <3>1
  <2>2. CASE open # << >>
    <3>1. p = open[n]
      BY <2>2, Zenon DEF Peek, Last
    <3> HIDE DEF p
    <3>2. n > 0 /\ n \in 1 .. Len(open)
      BY <1>1, <2>2
    <3> QED
      BY <1>1, <2>2, <3>1, <3>2
  <2> QED
    BY <2>1, <2>2
<1> HIDE DEF p
<1>3. p \in Nat /\ i \in Nat /\ Len(path) \in Nat /\ 0 < p /\ p < i /\ i < Len(path)
  BY <1>1, <1>2 DEF PathInv, StackSound
<1>3a. \A j \in 1 .. n - 1 : open[j] \in Nat /\ open[j] < p /\ At(path, open[j]) = "("
  BY <1>1, <1>2 DEF PathInv, StackSound
<1> HIDE DEF n
<1>4. /\ q \in Seq(Letters) /\ Len(q) = Len(path) - 1
      /\ \A j \in 1 .. p - 1 : q[j] = path[j]
  <2>1. p - 1 \in Nat /\ 2 \in Nat \ {0} /\ p - 1 + 2 <= Len(path)
    BY <1>3
  <2>2. "{" \in Letters /\ path \in Seq(Letters)
    BY <1>1 DEF Letters
  <2>3. /\ q \in Seq(Letters) /\ Len(q) = Len(path) - 2 + 1
        /\ \A j \in 1 .. p - 1 : q[j] = path[j]
    BY <2>1, <2>2, Replaced, ZenonT(60) DEF q
  <2> QED
    BY <1>3, <2>3
<1>5. /\ path' \in Seq(Letters) /\ Len(path') = Len(path) - 1
      /\ \A j \in 1 .. i - 1 : path'[j] = q[j]
  <2>1. i - 1 \in Nat /\ 1 \in Nat \ {0} /\ i - 1 + 1 <= Len(q)
    BY <1>3, <1>4
  <2>2. "}" \in Letters
    BY DEF Letters
  <2>3. /\ path' \in Seq(Letters) /\ Len(path') = Len(q) - 1 + 1
        /\ \A j \in 1 .. i - 1 : path'[j] = q[j]
    BY <1>0, <1>4, <2>1, <2>2, Replaced, ZenonT(60)
  <2> QED
    BY <1>3, <1>4, <2>3
<1>6. /\ open' \in Seq(Nat) /\ Len(open') = n - 1
      /\ \A j \in 1 .. n - 1 : open'[j] = open[j]
  BY <1>1, <1>2, Popped DEF n
<1>7. \A j \in 1 .. n - 1 : open[j] < p - 1
  <2> SUFFICES ASSUME NEW j \in 1 .. n - 1, open[j] = p - 1 PROVE FALSE
    BY <1>3, <1>3a
  <2> QED
    BY <1>1, <1>3a
<1>8. \A j \in 1 .. n - 1 : open'[j] < i' /\ At(path', open'[j]) = "("
  <2> TAKE j \in 1 .. n - 1
  <2>1. open'[j] = open[j] /\ open[j] \in Nat /\ open[j] < p - 1 /\ path[open[j] + 1] = "("
    BY <1>3a, <1>6, <1>7 DEF At
  <2>2. open[j] + 1 \in 1 .. p - 1 /\ open[j] + 1 \in 1 .. i - 1 /\ open[j] < i
    BY <1>3, <2>1
  <2>3. path'[open[j] + 1] = "("
    BY <1>4, <1>5, <2>1, <2>2
  <2> QED
    BY <1>1, <2>1, <2>2, <2>3 DEF At
<1>9. \A j, k \in 1 .. n - 1 : j < k => open'[j] < open'[k]
  <2> TAKE j, k \in 1 .. n - 1
  <2>1. j \in 1 .. n /\ k \in 1 .. n
    BY <1>1
  <2>2. j < k => open[j] < open[k]
    BY <2>1 DEF PathInv, StackSound, n
  <2> QED
    BY <1>6, <2>2
<1>10. PathTypeOK'
  BY <1>1, <1>5, <1>6 DEF PathInv, PathTypeOK
<1> QED
  BY <1>6, <1>8, <1>9, <1>10 DEF PathInv, StackSound

LEMMA PathInvariant == PathSpec => []PathInv
<1>1. PathInit => PathInv
  <2>1. Seq(PathChars) \subseteq Seq(Letters)
    BY SeqMonotonic DEF Letters
  <2> QED
    BY <2>1, PathAssumption DEF PathInit, PathBegin, PathInv, PathTypeOK, StackSound
<1>2. PathInv /\ [PathNext]_pathVars => PathInv'
  <2>1. PathInv /\ UNCHANGED pathVars => PathInv'
    BY DEF PathInv, PathTypeOK, StackSound, pathVars
  <2> QED
    BY <2>1, PushStep, CloseStep, PassStep, TranslateStep DEF PathNext
<1> QED
  BY <1>1, <1>2, PTL DEF PathSpec

---------------------------------------------------------------------------

\* The loop stays within the expression, though it shortens it.
THEOREM LoopWithin == PathSpec => []PathTypeOK
<1>1. PathInv => PathTypeOK
  BY DEF PathInv
<1> QED
  BY <1>1, PathInvariant, PTL

\* The stack holds positions of brackets of the expression as it has become.
THEOREM StackTrue == PathSpec => []StackSound
<1>1. PathInv => StackSound
  BY DEF PathInv
<1> QED
  BY <1>1, PathInvariant, PTL

---------------------------------------------------------------------------
(* What the loop makes of the whole expression. Followed says that the     *)
(* path is, up to the cursor, the rewriting of what has been read, of which *)
(* only the references closed so far are rewritten, and then what is still *)
(* to come; and that the stack holds, where they have come to, exactly the *)
(* brackets not closed yet, by how deep they are.                          *)

\* By how much a character changes the depth.
Change(s, k) == IF s[k] = "(" THEN 1 ELSE IF s[k] = ")" THEN -1 ELSE 0

\* How many of one character there are grows by those that are met.
Count(s, b, o, c) == Cardinality({k \in o .. c : s[k] = b})

LEMMA Counts ==
  ASSUME NEW s, NEW b, NEW o \in Nat, NEW c \in Nat, o <= c + 1
  PROVE  /\ Count(s, b, o, c) \in Nat
         /\ Count(s, b, o, c + 1) = Count(s, b, o, c) + (IF s[c + 1] = b THEN 1 ELSE 0)
<1> DEFINE A == {k \in o .. c : s[k] = b}
           B == {k \in o .. c + 1 : s[k] = b}
<1>1. IsFiniteSet(A)
  <2>1. A \subseteq o .. c
    OBVIOUS
  <2>2. IsFiniteSet(o .. c)
    BY FS_Interval
  <2> HIDE DEF A
  <2> QED
    BY <2>1, <2>2, FS_Subset
<1>2. c + 1 \notin A
  OBVIOUS
<1>3. s[c + 1] = b => B = A \cup {c + 1}
  OBVIOUS
<1>4. s[c + 1] # b => B = A
  OBVIOUS
<1>5. Count(s, b, o, c) = Cardinality(A) /\ Count(s, b, o, c + 1) = Cardinality(B)
  BY Zenon DEF Count
<1> HIDE DEF A, B
<1>6. Cardinality(A) \in Nat
  BY <1>1, FS_CardinalityType
<1>7. Cardinality(A \cup {c + 1}) = Cardinality(A) + 1
  BY <1>1, <1>2, FS_AddElement
<1> QED
  BY <1>3, <1>4, <1>5, <1>6, <1>7

\* The depth changes with each bracket.
LEMMA Depths ==
  ASSUME NEW s, NEW o \in Nat, NEW c \in Nat, o <= c + 1
  PROVE  /\ Depth(s, o, c) \in Int
         /\ Depth(s, o, c + 1) = Depth(s, o, c) + Change(s, c + 1)
<1>1. /\ Count(s, "(", o, c) \in Nat
      /\ Count(s, "(", o, c + 1) = Count(s, "(", o, c) + (IF s[c + 1] = "(" THEN 1 ELSE 0)
  BY Counts
<1>2. /\ Count(s, ")", o, c) \in Nat
      /\ Count(s, ")", o, c + 1) = Count(s, ")", o, c) + (IF s[c + 1] = ")" THEN 1 ELSE 0)
  BY Counts
<1>3. /\ Depth(s, o, c) = Count(s, "(", o, c) - Count(s, ")", o, c)
      /\ Depth(s, o, c + 1) = Count(s, "(", o, c + 1) - Count(s, ")", o, c + 1)
  BY Zenon DEF Depth, Count
<1> QED
  BY <1>1, <1>2, <1>3 DEF Change

LEMMA DepthAlone ==
  ASSUME NEW s, NEW o \in Nat \ {0}, s[o] = "("
  PROVE  Depth(s, o, o) = 1
<1>1. Depth(s, o, o - 1) = 0
  <2>1. o .. o - 1 = {}
    OBVIOUS
  <2>2. {k \in o .. o - 1 : s[k] = "("} = {} /\ {k \in o .. o - 1 : s[k] = ")"} = {}
    BY <2>1
  <2>3. Depth(s, o, o - 1) = Cardinality({}) - Cardinality({})
    BY <2>2 DEF Depth
  <2> QED
    BY <2>3, FS_EmptySet
<1>2. o - 1 \in Nat /\ o <= o - 1 + 1 /\ o - 1 + 1 = o
  OBVIOUS
<1>3. Depth(s, o, o) = Depth(s, o, o - 1) + Change(s, o)
  BY <1>2, Depths
<1> QED
  BY <1>1, <1>3 DEF Change

---------------------------------------------------------------------------
LEMMA OneLetter ==
  ASSUME NEW c \in Letters
  PROVE  <<c>> \in Seq(Letters) /\ Len(<<c>>) = 1
OBVIOUS

LEMMA Joins ==
  ASSUME NEW x \in Seq(Letters), NEW y \in Seq(Letters)
  PROVE  x \o y \in Seq(Letters) /\ Len(x \o y) = Len(x) + Len(y)
BY ConcatProperties

LEMMA Joins3 ==
  ASSUME NEW x \in Seq(Letters), NEW y \in Seq(Letters), NEW z \in Seq(Letters)
  PROVE  (x \o y) \o z = x \o (y \o z)
OBVIOUS

LEMMA NotEmpty ==
  ASSUME NEW x, Len(x) = 1 \/ Len(x) = 2
  PROVE  x # << >>
<1>1. Len(<< >>) # 1 /\ Len(<< >>) # 2
  OBVIOUS
<1> QED
  BY <1>1, Zenon

LEMMA BecomesTyped ==
  ASSUME NEW s \in Seq(PathChars), NEW refs, NEW k \in 1 .. Len(s)
  PROVE  /\ Becomes(s, refs, k) \in Seq(Letters) 
         /\ Len(Becomes(s, refs, k)) = 0 \/ Len(Becomes(s, refs, k)) = 1
<1>1. s[k] \in Letters /\ "{" \in Letters /\ "}" \in Letters
  BY ElementOfSeq DEF Letters
<1>2. /\ <<s[k]>> \in Seq(Letters) /\ <<"{">> \in Seq(Letters) /\ <<"}">> \in Seq(Letters)
      /\ Len(<<s[k]>>) = 1 /\ Len(<<"{">>) = 1 /\ Len(<<"}">>) = 1
  BY <1>1, OneLetter
<1>3. << >> \in Seq(Letters) /\ Len(<< >>) = 0
  OBVIOUS
<1>4. Becomes(s, refs, k) \in {<< >>, <<"{">>, <<"}">>, <<s[k]>>}
  BY Zenon DEF Becomes
<1> DEFINE b == Becomes(s, refs, k)
<1> HIDE DEF b
<1>5. b \in {<< >>, <<"{">>, <<"}">>, <<s[k]>>}
  BY <1>4 DEF b
<1>6. b \in Seq(Letters) /\ (Len(b) = 0 \/ Len(b) = 1)
  BY <1>2, <1>3, <1>5, Zenon
<1> QED
  BY <1>6, Zenon DEF b

\* What is put together from parts exists, one part after the other.
LEMMA PrefixesSolve ==
  ASSUME NEW n \in Nat, NEW piece, \A k \in 1 .. n : piece[k] \in Seq(Letters)
  PROVE  \E f \in [0 .. n -> Seq(Letters)] :
           f = [k \in 0 .. n |-> IF k = 0 THEN << >> ELSE f[k - 1] \o piece[k]]
<1> DEFINE D == 0 .. n
           Upto(m, f) == \A k \in D : k <= m => f[k] = IF k = 0 THEN << >> ELSE f[k - 1] \o piece[k]
           S == {m \in D : ~\E f \in [D -> Seq(Letters)] : Upto(m, f)}
<1>1. S = {}
  <2> SUFFICES ASSUME S # {} PROVE FALSE
    OBVIOUS
  <2>1. PICK m \in S : \A l \in S : m <= l
    <3>1. S \in SUBSET Nat
      OBVIOUS
    <3> HIDE DEF S
    <3> QED
      BY <3>1, LeastNumber
  <2>2. m # 0
    <3> DEFINE f == [k \in D |-> << >>]
    <3>1. f \in [D -> Seq(Letters)] /\ 0 \in D
      OBVIOUS
    <3>2. \A k \in D : k <= 0 => k = 0
      OBVIOUS
    <3>3. f[0] = << >>
      OBVIOUS
    <3> HIDE DEF f
    <3>4. Upto(0, f)
      BY <3>2, <3>3
    <3> QED
      BY <2>1, <3>1, <3>4
  <2>3. m - 1 \in D /\ m - 1 \notin S /\ m \in 1 .. n
    <3>1. m \in D
      OBVIOUS
    <3> HIDE DEF S
    <3> QED
      BY <2>1, <2>2, <3>1
  <2>4. PICK f \in [D -> Seq(Letters)] : Upto(m - 1, f)
    BY <2>3
  <2> DEFINE v == f[m - 1] \o piece[m]
             g == [f EXCEPT ![m] = v]
  <2>5. v \in Seq(Letters)
    BY <2>3, ConcatProperties
  <2> HIDE DEF v
  <2>6. g \in [D -> Seq(Letters)] /\ g[m] = v /\ \A k \in D : k # m => g[k] = f[k]
    BY <2>1, <2>5
  <2> HIDE DEF g
  <2>7. ASSUME NEW k \in D, k <= m PROVE g[k] = IF k = 0 THEN << >> ELSE g[k - 1] \o piece[k]
    <3>1. CASE k = m
      <4>1. m - 1 \in D /\ m - 1 # m /\ m # 0
        BY <2>3
      <4>2. g[m] = f[m - 1] \o piece[m] /\ g[m - 1] = f[m - 1]
        BY <2>6, <4>1 DEF v
      <4> QED
        BY <3>1, <4>1, <4>2
    <3>2. CASE k # m
      <4>1. k <= m - 1 /\ k # m /\ (k # 0 => k - 1 \in D /\ k - 1 # m)
        BY <2>3, <2>7, <3>2
      <4>2. f[k] = IF k = 0 THEN << >> ELSE f[k - 1] \o piece[k]
        BY <2>4, <4>1
      <4> QED
        BY <2>6, <4>1, <4>2
    <3> QED
      BY <3>1, <3>2
  <2> QED
    BY <2>1, <2>6, <2>7
<1>2. PICK f \in [D -> Seq(Letters)] : Upto(n, f)
  <2>1. n \in D
    OBVIOUS
  <2>2. \A k \in D : k \notin S
    BY <1>1
  <2> HIDE DEF Upto, D
  <2> QED
    BY <2>1, <2>2
<1>3. f = [k \in D |-> f[k]]
  OBVIOUS
<1>4. f = [k \in D |-> IF k = 0 THEN << >> ELSE f[k - 1] \o piece[k]]
  <2>1. \A k \in D : f[k] = IF k = 0 THEN << >> ELSE f[k - 1] \o piece[k]
    <3>1. \A k \in D : k <= n
      OBVIOUS
    <3> QED
      BY <1>2, <3>1
  <2> QED
    BY <1>3, <2>1
<1> QED
  BY <1>4

\* Whatever solves the equation gives sequences.
LEMMA PrefixesTyped ==
  ASSUME NEW n \in Nat, NEW piece, \A k \in 1 .. n : piece[k] \in Seq(Letters),
         NEW f, f = [k \in 0 .. n |-> IF k = 0 THEN << >> ELSE f[k - 1] \o piece[k]]
  PROVE  f \in [0 .. n -> Seq(Letters)]
<1> DEFINE D == 0 .. n
           S == {m \in D : f[m] \notin Seq(Letters)}
<1>1. f[0] = << >> /\ \A k \in 1 .. n : f[k] = f[k - 1] \o piece[k]
  <2>1. 0 \in D /\ 1 .. n \subseteq D /\ 0 \notin 1 .. n
    OBVIOUS
  <2> QED
    BY <2>1
<1>2. S = {}
  <2> SUFFICES ASSUME S # {} PROVE FALSE
    OBVIOUS
  <2>1. PICK m \in S : \A l \in S : m <= l
    <3>1. S \in SUBSET Nat
      OBVIOUS
    <3> HIDE DEF S
    <3> QED
      BY <3>1, LeastNumber
  <2>2. m # 0
    <3>1. << >> \in Seq(Letters)
      OBVIOUS
    <3> QED
      BY <1>1, <2>1, <3>1
  <2>3. m - 1 \in D /\ m - 1 \notin S /\ m \in 1 .. n
    <3>1. m \in D
      OBVIOUS
    <3> HIDE DEF S
    <3> QED
      BY <2>1, <2>2, <3>1
  <2>4. f[m - 1] \in Seq(Letters) /\ piece[m] \in Seq(Letters)
    BY <2>3
  <2>5. f[m] \in Seq(Letters)
    BY <1>1, <2>3, <2>4, ConcatProperties, SMTT(30)
  <2> QED
    BY <2>1, <2>5
<1>3. \A k \in D : f[k] \in Seq(Letters)
  BY <1>2
<1> QED
  BY <1>3

LEMMA RewrittenIs ==
  ASSUME NEW s \in Seq(PathChars), NEW refs
  PROVE  /\ Rewritten(s, refs) \in [0 .. Len(s) -> Seq(Letters)]
         /\ Rewritten(s, refs)[0] = << >>
         /\ \A k \in 1 .. Len(s) :
              Rewritten(s, refs)[k] = Rewritten(s, refs)[k - 1] \o Becomes(s, refs, k)
<1> DEFINE n == Len(s)
           piece == [k \in 1 .. n |-> Becomes(s, refs, k)]
           Is(f) == f = [k \in 0 .. n |-> IF k = 0 THEN << >> ELSE f[k - 1] \o Becomes(s, refs, k)]
           r == Rewritten(s, refs)
<1>1. \A k \in 1 .. n : piece[k] \in Seq(Letters) /\ piece[k] = Becomes(s, refs, k)
  BY BecomesTyped
<1>2. n \in Nat
  OBVIOUS
<1>3. r = CHOOSE f : Is(f)
  BY DEF Rewritten
<1> HIDE DEF n, piece, r
<1> DEFINE With(f) == [k \in 0 .. n |-> IF k = 0 THEN << >> ELSE f[k - 1] \o piece[k]]
<1>4. ASSUME NEW f PROVE Is(f) <=> f = With(f)
  <2>1. \A k \in 0 .. n : k = 0 \/ k \in 1 .. n
    BY <1>2
  <2>2. [k \in 0 .. n |-> IF k = 0 THEN << >> ELSE f[k - 1] \o Becomes(s, refs, k)] = With(f)
    BY <1>1, <2>1
  <2> QED
    BY <2>2
<1>5. \E f : Is(f)
  <2>1. \E f \in [0 .. n -> Seq(Letters)] : f = With(f)
    BY <1>1, <1>2, PrefixesSolve
  <2> HIDE DEF With, Is
  <2> QED
    BY <1>4, <2>1
<1>6. Is(r)
  <2> HIDE DEF Is
  <2> QED
    BY <1>3, <1>5
<1>7. r = With(r)
  BY <1>4, <1>6, Zenon
<1>8. r \in [0 .. n -> Seq(Letters)]
  BY <1>1, <1>2, <1>7, PrefixesTyped
<1>9. r[0] = << >> /\ \A k \in 1 .. n : r[k] = r[k - 1] \o Becomes(s, refs, k)
  <2>1. 0 \in 0 .. n /\ 1 .. n \subseteq 0 .. n /\ 0 \notin 1 .. n
    BY <1>2
  <2>2. \A k \in 0 .. n : r[k] = IF k = 0 THEN << >> ELSE r[k - 1] \o Becomes(s, refs, k)
    BY <1>6
  <2> QED
    BY <2>1, <2>2
<1> QED
  BY <1>8, <1>9 DEF n, r

\* Two rewritings grow by the same between two places.
GrowAlike(s, R, Q, a, n) ==
  \E mid \in Seq(Letters) :
    /\ Rewritten(s, R)[n] = Rewritten(s, R)[a] \o mid
    /\ Rewritten(s, Q)[n] = Rewritten(s, Q)[a] \o mid

\* Where the same becomes of the characters, the same is added.
LEMMA Between ==
  ASSUME NEW s \in Seq(PathChars), NEW R, NEW Q,
         NEW a \in 0 .. Len(s), NEW n \in 0 .. Len(s), a <= n,
         \A k \in a + 1 .. n : Becomes(s, R, k) = Becomes(s, Q, k)
  PROVE  GrowAlike(s, R, Q, a, n)
<1> DEFINE f == Rewritten(s, R)
           g == Rewritten(s, Q)
           Adds(m, mid) == f[m] = f[a] \o mid /\ g[m] = g[a] \o mid
           S == {m \in a .. n : ~\E mid \in Seq(Letters) : Adds(m, mid)}
<1>1. /\ f \in [0 .. Len(s) -> Seq(Letters)] /\ g \in [0 .. Len(s) -> Seq(Letters)]
      /\ \A k \in 1 .. Len(s) : /\ f[k] = f[k - 1] \o Becomes(s, R, k)
                                /\ g[k] = g[k - 1] \o Becomes(s, Q, k)
  BY RewrittenIs
<1>2. a \in Nat /\ n \in Nat /\ Len(s) \in Nat /\ n <= Len(s)
  OBVIOUS
<1>3. f[a] \in Seq(Letters) /\ g[a] \in Seq(Letters)
  BY <1>1
<1> HIDE DEF f, g
<1>4. S = {}
  <2> SUFFICES ASSUME S # {} PROVE FALSE
    OBVIOUS
  <2>1. PICK m \in S : \A l \in S : m <= l
    <3>1. S \in SUBSET Nat
      BY <1>2
    <3> HIDE DEF S
    <3> QED
      BY <3>1, LeastNumber
  <2>2. m # a
    <3>1. Adds(a, << >>) /\ << >> \in Seq(Letters)
      BY <1>3, ConcatEmptySeq
    <3> HIDE DEF Adds
    <3> QED
      BY <2>1, <3>1
  <2>3. m \in a + 1 .. n /\ m - 1 \in a .. n /\ m - 1 \notin S
    <3>1. m \in a .. n
      OBVIOUS
    <3> HIDE DEF S
    <3> QED
      BY <1>2, <2>1, <2>2, <3>1
  <2>4. PICK mid \in Seq(Letters) : Adds(m - 1, mid)
    BY <2>3
  <2> DEFINE b == Becomes(s, R, m)
  <2>5. b \in Seq(Letters) /\ b = Becomes(s, Q, m) /\ m \in 1 .. Len(s)
    BY <1>2, <2>3, BecomesTyped
  <2>6. f[m] = f[m - 1] \o b /\ g[m] = g[m - 1] \o b
    BY <1>1, <2>5
  <2> HIDE DEF b
  <2>7. mid \o b \in Seq(Letters)
    BY <2>5, ConcatProperties
  <2>8. f[m] = f[a] \o (mid \o b) /\ g[m] = g[a] \o (mid \o b)
    <3> DEFINE fa == f[a]
               ga == g[a]
    <3>0. fa \in Seq(Letters) /\ ga \in Seq(Letters) /\ mid \in Seq(Letters) /\ b \in Seq(Letters)
      BY <1>3, <2>5
    <3> HIDE DEF fa, ga
    <3>1. (fa \o mid) \o b = fa \o (mid \o b)
      BY <3>0, Joins3, ZenonT(60)
    <3>1a. (ga \o mid) \o b = ga \o (mid \o b)
      BY <3>0, Joins3, ZenonT(60)
    <3>2. f[m - 1] = f[a] \o mid /\ g[m - 1] = g[a] \o mid
      BY <2>4
    <3> QED
      BY <2>6, <3>1, <3>1a, <3>2, Zenon DEF fa, ga
  <2>9. Adds(m, mid \o b)
    BY <2>8
  <2> HIDE DEF Adds
  <2> QED
    BY <2>1, <2>7, <2>9
<1>5. PICK mid \in Seq(Letters) : Adds(n, mid)
  <2>1. n \in a .. n
    BY <1>2
  <2> QED
    BY <1>4, <2>1
<1> QED
  BY <1>5 DEF f, g, GrowAlike

LEMMA Begins ==
  ASSUME NEW s \in Seq(PathChars), NEW R,
         NEW a \in 0 .. Len(s), NEW n \in 0 .. Len(s), a <= n
  PROVE  GrowAlike(s, R, R, a, n)
BY Between

\* The beginning and the end of two sequences put together.
LEMMA BothParts ==
  ASSUME NEW x \in Seq(Letters), NEW y \in Seq(Letters)
  PROVE  /\ SubSeq(x \o y, 1, Len(x)) = x
         /\ SubSeq(x \o y, Len(x) + 1, Len(x \o y)) = y
<1> DEFINE xy == x \o y
           a == SubSeq(xy, 1, Len(x))
           b == SubSeq(xy, Len(x) + 1, Len(xy))
<1>1. /\ xy \in Seq(Letters) /\ Len(xy) = Len(x) + Len(y)
      /\ \A j \in 1 .. Len(x) + Len(y) : xy[j] = IF j <= Len(x) THEN x[j] ELSE y[j - Len(x)]
  BY ConcatProperties
<1> HIDE DEF xy
<1>2. Len(x) \in Nat /\ Len(y) \in Nat /\ \A j \in 1 .. Len(x) + Len(y) : xy[j] \in Letters
  BY <1>1, ElementOfSeq
<1>3. a = x
  <2>1. \A j \in 1 .. Len(x) : xy[j] \in Letters
    BY <1>2
  <2>2. a \in Seq(Letters) /\ Len(a) = Len(x) /\ \A j \in 1 .. Len(x) : a[j] = xy[j]
    BY <1>2, <2>1, SubSeqProperties
  <2>3. \A j \in 1 .. Len(x) : a[j] = x[j]
    BY <1>1, <1>2, <2>2
  <2> HIDE DEF a
  <2> QED
    BY <2>2, <2>3, SeqEqual
<1>4. b = y
  <2> DEFINE lo == Len(x) + 1
             hi == Len(xy)
  <2>1. \A j \in lo .. hi : xy[j] \in Letters
    BY <1>1, <1>2
  <2>2. lo \in Int /\ hi \in Int /\ hi - lo + 1 = Len(y)
    BY <1>1, <1>2
  <2> HIDE DEF lo, hi
  <2>3. /\ SubSeq(xy, lo, hi) \in Seq(Letters)
        /\ Len(SubSeq(xy, lo, hi)) = IF lo <= hi THEN hi - lo + 1 ELSE 0
        /\ \A j \in 1 .. hi - lo + 1 : SubSeq(xy, lo, hi)[j] = xy[lo + j - 1]
    BY <2>1, <2>2, SubSeqProperties
  <2>4. b = SubSeq(xy, lo, hi)
    BY DEF lo, hi
  <2> HIDE DEF b
  <2>5. b \in Seq(Letters) /\ Len(b) = Len(y) /\ \A j \in 1 .. Len(y) : b[j] = xy[Len(x) + j]
    BY <1>1, <1>2, <2>2, <2>3, <2>4 DEF lo, hi
  <2>6. \A j \in 1 .. Len(y) : b[j] = y[j]
    BY <1>1, <1>2, <2>5
  <2> QED
    BY <2>5, <2>6, SeqEqual
<1> QED
  BY <1>3, <1>4 DEF a, b, xy

\* replace where the characters to go are known.
---------------------------------------------------------------------------
\* The references whose closing bracket is among the first n characters,
\* and the expression with these rewritten.
Closed(s, n) == {r \in References(s) : r[2] <= n}
So(s, n) == Rewritten(s, Closed(s, n))

\* The bracket opened at o is not closed by the n-th character.
Unclosed(s, o, n) == s[o] = "(" /\ \A k \in o .. n : Depth(s, o, k) > 0

\* The first n characters are read: the path is their rewriting and what is
\* to come.
Rewrote(n) == /\ i = Len(So(source, n)[n])
              /\ path = So(source, n)[n] \o SubSeq(source, n + 1, Len(source))

\* The stack holds, where they have come to, the brackets not closed yet.
Stacked(n, stk) ==
  /\ \A j \in 1 .. Len(open) :
       /\ Unclosed(source, stk[j], n)
       /\ Depth(source, stk[j], n) = Len(open) - j + 1
       /\ open[j] = Len(So(source, n)[stk[j]]) - 1
  /\ \A j, k \in 1 .. Len(open) : j < k => stk[j] < stk[k]
  /\ \A o \in 1 .. n : Unclosed(source, o, n) => \E j \in 1 .. Len(open) : stk[j] = o

Followed == \E n \in 0 .. Len(source) :
  Rewrote(n) /\ \E stk \in [1 .. Len(open) -> 1 .. n] : Stacked(n, stk)

LEMMA ClosedIs ==
  ASSUME NEW s \in Seq(PathChars), NEW n \in Nat, NEW r \in Closed(s, n)
  PROVE  /\ r[1] \in 2 .. Len(s) /\ r[2] \in 2 .. Len(s) /\ r[1] < r[2] /\ r[2] <= n
         /\ s[r[1]] = "(" /\ s[r[2]] = ")" /\ s[r[1] - 1] = "$"
         /\ Depth(s, r[1], r[2]) = 0
         /\ \A k \in r[1] .. r[2] - 1 : Depth(s, r[1], k) > 0
BY DEF Closed, References, Pair

\* A character to come stays.
LEMMA FreshChar ==
  ASSUME NEW s \in Seq(PathChars), NEW n \in Nat, NEW k \in Nat, n < k
  PROVE  Becomes(s, Closed(s, n), k) = <<s[k]>>
<1>1. ASSUME NEW r \in Closed(s, n) PROVE k # r[1] - 1 /\ k # r[1] /\ k # r[2]
  <2>1. r[1] \in Nat /\ r[2] \in Nat /\ r[1] < r[2] /\ r[2] <= n
    BY ClosedIs
  <2> QED
    BY <2>1
<1> QED
  BY <1>1, Zenon DEF Becomes

\* So does a bracket not closed, and the character before it is still one.
LEMMA OpenChar ==
  ASSUME NEW s \in Seq(PathChars), NEW n \in Nat, n <= Len(s),
         NEW o \in 1 .. n, Unclosed(s, o, n)
  PROVE  /\ Becomes(s, Closed(s, n), o) = <<"(">>
         /\ o > 1 => \E c \in Letters : /\ Becomes(s, Closed(s, n), o - 1) = <<c>>
                                        /\ c = "$" <=> s[o - 1] = "$"
<1> DEFINE R == Closed(s, n)
<1>1. s[o] = "(" /\ o \in Nat /\ \A k \in o .. n : Depth(s, o, k) > 0
  BY DEF Unclosed
<1>2. ASSUME NEW r \in R
      PROVE  /\ o # r[1] - 1 /\ o # r[1] /\ o # r[2] /\ o - 1 # r[1] - 1
             /\ s[r[1]] = "(" /\ s[r[2]] = ")"
  <2>1. /\ r[1] \in Nat /\ r[2] \in Nat /\ r[1] < r[2] /\ r[2] <= n
        /\ s[r[1]] = "(" /\ s[r[2]] = ")" /\ s[r[1] - 1] = "$" /\ Depth(s, r[1], r[2]) = 0
    BY ClosedIs
  <2>2. o # r[1]
    <3> SUFFICES ASSUME o = r[1] PROVE FALSE
      OBVIOUS
    <3>1. Depth(s, o, r[2]) = 0 /\ r[2] \in o .. n
      BY <2>1
    <3> QED
      BY <1>1, <3>1
  <2>3. "(" # "$" /\ "(" # ")"
    OBVIOUS
  <2>4. o # r[2] /\ o # r[1] - 1
    BY <1>1, <2>1, <2>3
  <2>5. o - 1 # r[1] - 1
    BY <1>1, <2>1, <2>2
  <2> QED
    BY <2>1, <2>2, <2>4, <2>5
<1> HIDE DEF R
<1>3. Becomes(s, R, o) = <<"(">>
  BY <1>1, <1>2, Zenon DEF Becomes
<1>4. ASSUME o > 1
      PROVE  \E c \in Letters : Becomes(s, R, o - 1) = <<c>> /\ (c = "$" <=> s[o - 1] = "$")
  <2>1. o - 1 \in 1 .. Len(s)
    BY <1>4
  <2>2. s[o - 1] \in Letters /\ "{" \in Letters /\ "}" \in Letters /\ "{" # "$" /\ "}" # "$"
        /\ "$" # "(" /\ "$" # ")"
    BY <2>1, ElementOfSeq DEF Letters
  <2>3. CASE \E r \in R : o - 1 = r[1]
    <3>1. Becomes(s, R, o - 1) = <<"{">> /\ s[o - 1] # "$"
      BY <1>2, <2>2, <2>3, Zenon DEF Becomes
    <3> QED
      BY <2>2, <3>1, Zenon
  <2>4. CASE ~(\E r \in R : o - 1 = r[1]) /\ \E r \in R : o - 1 = r[2]
    <3>1. Becomes(s, R, o - 1) = <<"}">> /\ s[o - 1] # "$"
      BY <1>2, <2>2, <2>4, Zenon DEF Becomes
    <3> QED
      BY <2>2, <3>1, Zenon
  <2>5. CASE ~(\E r \in R : o - 1 = r[1]) /\ ~\E r \in R : o - 1 = r[2]
    <3>1. Becomes(s, R, o - 1) = <<s[o - 1]>>
      BY <1>2, <2>5, Zenon DEF Becomes
    <3> QED
      BY <2>2, <3>1, Zenon
  <2> QED
    BY <2>3, <2>4, <2>5
<1> QED
  BY <1>3, <1>4 DEF R

LEMMA Rests ==
  ASSUME NEW s \in Seq(PathChars), NEW n \in Nat, n <= Len(s)
  PROVE  /\ SubSeq(s, n + 1, Len(s)) \in Seq(Letters)
         /\ Len(SubSeq(s, n + 1, Len(s))) = Len(s) - n
         /\ n < Len(s) => /\ SubSeq(s, n + 1, Len(s)) = <<s[n + 1]>> \o SubSeq(s, n + 2, Len(s))
                          /\ SubSeq(s, n + 1, Len(s))[1] = s[n + 1]
                          /\ s[n + 1] \in Letters
<1>1. Len(s) \in Nat /\ \A k \in 1 .. Len(s) : s[k] \in Letters
  <2>1. \A k \in 1 .. Len(s) : s[k] \in PathChars
    BY ElementOfSeq
  <2>2. PathChars \subseteq Letters
    BY DEF Letters
  <2>3. Len(s) \in Nat
    OBVIOUS
  <2> QED
    BY <2>1, <2>2, <2>3, Zenon
<1>2. \A k \in n + 1 .. Len(s) : s[k] \in Letters
  BY <1>1
<1>3. /\ SubSeq(s, n + 1, Len(s)) \in Seq(Letters)
      /\ Len(SubSeq(s, n + 1, Len(s))) = IF n + 1 <= Len(s) THEN Len(s) - (n + 1) + 1 ELSE 0
      /\ \A k \in 1 .. Len(s) - (n + 1) + 1 : SubSeq(s, n + 1, Len(s))[k] = s[n + 1 + k - 1]
  BY <1>1, <1>2, SubSeqProperties
<1> DEFINE rest == SubSeq(s, n + 1, Len(s))
<1>4. rest \in Seq(Letters) /\ Len(rest) = Len(s) - n
  BY <1>1, <1>3
<1>5. ASSUME n < Len(s)
      PROVE  rest = <<s[n + 1]>> \o SubSeq(s, n + 2, Len(s))
  <2>1. n + 1 \in 1 .. Len(s) /\ Len(s) \in n + 1 .. Len(s)
    BY <1>1, <1>5
  <2>2. SubSeq(s, n + 1, Len(s)) = <<s[n + 1]>> \o SubSeq(s, (n + 1) + 1, Len(s))
    BY <2>1, SubSeqRecursiveFirst
  <2>3. (n + 1) + 1 = n + 2
    OBVIOUS
  <2> QED
    BY <2>2, <2>3
<1>6. ASSUME n < Len(s)
      PROVE  rest[1] = s[n + 1] /\ s[n + 1] \in Letters
  <2>1. 1 \in 1 .. Len(s) - (n + 1) + 1 /\ n + 1 + 1 - 1 = n + 1 /\ n + 1 \in 1 .. Len(s)
    BY <1>1, <1>6
  <2>2. rest[1] = s[n + 1 + 1 - 1]
    BY <1>3, <2>1
  <2> QED
    BY <1>1, <2>1, <2>2
<1> HIDE DEF rest
<1>7. n < Len(s) => /\ rest = <<s[n + 1]>> \o SubSeq(s, n + 2, Len(s))
                    /\ rest[1] = s[n + 1] /\ s[n + 1] \in Letters
  BY <1>5, <1>6, Zenon
<1> QED
  BY <1>4, <1>7, Zenon DEF rest

\* The character at the cursor is the next of the source.
LEMMA CurrentChar ==
  ASSUME PathTypeOK, NEW n \in 0 .. Len(source), Rewrote(n)
  PROVE  /\ So(source, n)[n] \in Seq(Letters)
         /\ i < Len(path) <=> n < Len(source)
         /\ n < Len(source) => At(path, i) = source[n + 1]
<1> DEFINE f == So(source, n)[n]
           rest == SubSeq(source, n + 1, Len(source))
<1>1. source \in Seq(PathChars) /\ n \in Nat /\ n <= Len(source) /\ Len(source) \in Nat
  BY DEF PathTypeOK
<1>2. f \in Seq(Letters)
  BY <1>1, RewrittenIs DEF So
<1>3. rest \in Seq(Letters) /\ Len(rest) = Len(source) - n /\ (n < Len(source) => rest[1] = source[n + 1])
  BY <1>1, Rests
<1>4. i = Len(f) /\ path = f \o rest
  BY DEF Rewrote
<1> HIDE DEF f, rest
<1>5. /\ Len(f \o rest) = Len(f) + Len(rest)
      /\ \A j \in 1 .. Len(f) + Len(rest) :
           (f \o rest)[j] = IF j <= Len(f) THEN f[j] ELSE rest[j - Len(f)]
  BY <1>2, <1>3, ConcatProperties
<1>6. ASSUME n < Len(source) PROVE At(path, i) = source[n + 1]
  <2>1. Len(f) + 1 \in 1 .. Len(f) + Len(rest) /\ ~(Len(f) + 1 <= Len(f)) /\ Len(f) + 1 - Len(f) = 1
    BY <1>1, <1>2, <1>3, <1>6
  <2>2. (f \o rest)[Len(f) + 1] = rest[1]
    BY <1>5, <2>1
  <2> QED
    BY <1>3, <1>4, <1>6, <2>2 DEF At
<1> QED
  BY <1>1, <1>2, <1>3, <1>4, <1>5, <1>6 DEF f

\* A character that closes no reference is read: nothing else changes.
LEMMA ReadOn ==
  ASSUME PathTypeOK, NEW n \in Nat, n < Len(source), Rewrote(n),
         Closed(source, n + 1) = Closed(source, n),
         source' = source, path' = path, i' = i + 1
  PROVE  Rewrote(n + 1)' /\ n + 1 \in 0 .. Len(source')
<1> DEFINE f == So(source, n)
           c == source[n + 1]
           one == <<c>>
           rest == SubSeq(source, n + 2, Len(source))
<1>1. source \in Seq(PathChars) /\ Len(source) \in Nat /\ n + 1 \in 1 .. Len(source)
  BY DEF PathTypeOK
<1>2. So(source, n + 1) = f
  BY DEF So
<1>3. f[n + 1] = f[n] \o one
  <2>1. f[n + 1] = f[(n + 1) - 1] \o Becomes(source, Closed(source, n), n + 1)
    BY <1>1, RewrittenIs DEF So
  <2>2. Becomes(source, Closed(source, n), n + 1) = one
    BY <1>1, FreshChar
  <2>3. (n + 1) - 1 = n
    OBVIOUS
  <2> QED
    BY <2>1, <2>2, <2>3
<1>4. f[n] \in Seq(Letters)
  BY <1>1, RewrittenIs DEF So
<1>5. /\ SubSeq(source, n + 1, Len(source)) = one \o rest /\ c \in Letters
      /\ one \in Seq(Letters) /\ Len(one) = 1
  BY <1>1, Rests, OneLetter
<1>6. rest \in Seq(Letters)
  <2>1. n + 1 \in Nat /\ n + 1 <= Len(source) /\ (n + 1) + 1 = n + 2
    BY <1>1
  <2>2. SubSeq(source, (n + 1) + 1, Len(source)) \in Seq(Letters)
    BY <1>1, <2>1, Rests
  <2> QED
    BY <2>1, <2>2
<1>7. i = Len(f[n]) /\ path = f[n] \o (one \o rest)
  BY <1>5 DEF Rewrote
<1> DEFINE g == f[n]
<1>8. g \in Seq(Letters) /\ i = Len(g) /\ path = g \o (one \o rest) /\ f[n + 1] = g \o one
  BY <1>3, <1>4, <1>7
<1> HIDE DEF f, one, rest, g
<1>9. (g \o one) \o rest = g \o (one \o rest)
  BY <1>5, <1>6, <1>8, Joins3, Zenon
<1>10. Len(g \o one) = Len(g) + 1
  <2>1. Len(g \o one) = Len(g) + Len(one)
    BY <1>5, <1>8, Joins
  <2> QED
    BY <1>5, <2>1
<1>11. i' = Len(f[n + 1]) /\ path' = f[n + 1] \o rest
  BY <1>8, <1>9, <1>10
<1>12. rest = SubSeq(source, (n + 1) + 1, Len(source))
  <2>1. (n + 1) + 1 = n + 2
    OBVIOUS
  <2> QED
    BY <2>1 DEF rest
<1>13. Rewrote(n + 1)'
  BY <1>2, <1>11, <1>12 DEF Rewrote
<1> QED
  BY <1>1, <1>13

\* Where an open bracket has come to, and what is before it.
LEMMA TopAt ==
  ASSUME PathTypeOK, NEW n \in Nat, n <= Len(source), Rewrote(n),
         NEW o \in 1 .. n, Unclosed(source, o, n)
  PROVE  LET p == Len(So(source, n)[o]) - 1
         IN  /\ p = Len(So(source, n)[o - 1])
             /\ p > 0 /\ At(path, p - 1) = "$" <=> o > 1 /\ source[o - 1] = "$"
<1> DEFINE f == So(source, n)
           p == Len(f[o]) - 1
           R == Closed(source, n)
           tail == SubSeq(source, n + 1, Len(source))
<1>1. source \in Seq(PathChars) /\ Len(source) \in Nat /\ o \in Nat /\ o - 1 \in Nat
  BY DEF PathTypeOK
<1>2. /\ f \in [0 .. Len(source) -> Seq(Letters)] /\ f[0] = << >>
      /\ \A k \in 1 .. Len(source) : f[k] = f[k - 1] \o Becomes(source, R, k)
  BY <1>1, RewrittenIs DEF So
<1>3. /\ f[o - 1] \in Seq(Letters) /\ f[n] \in Seq(Letters)
      /\ f[o] = f[o - 1] \o Becomes(source, R, o)
  <2>1. o - 1 \in 0 .. Len(source) /\ n \in 0 .. Len(source) /\ o \in 1 .. Len(source)
    BY <1>1
  <2> HIDE DEF f, R
  <2> QED
    BY <1>2, <2>1
<1>4. Becomes(source, R, o) = <<"(">>
  BY <1>1, OpenChar
<1>5. p = Len(f[o - 1]) /\ p \in Nat
  <2> DEFINE one == <<"(">>
             g == f[o - 1]
  <2>1. "(" \in Letters
    <3>1. source[o] = "(" /\ o \in 1 .. Len(source)
      BY <1>1 DEF Unclosed
    <3> QED
      BY <1>1, <3>1, ElementOfSeq DEF Letters
  <2>2. one \in Seq(Letters) /\ Len(one) = 1
    BY <2>1, OneLetter
  <2>3. f[o] = g \o one /\ g \in Seq(Letters)
    BY <1>3, <1>4
  <2> HIDE DEF f, one, g
  <2>4. Len(f[o]) = Len(g) + 1 /\ Len(g) \in Nat
    <3>1. Len(g \o one) = Len(g) + Len(one)
      BY <2>2, <2>3, Joins
    <3> QED
      BY <2>2, <2>3, <3>1
  <2> QED
    BY <2>4 DEF g
<1>6. CASE o = 1
  <2>1. o - 1 = 0 /\ ~(o > 1)
    BY <1>6
  <2>2. f[o - 1] = << >>
    BY <1>2, <2>1
  <2> HIDE DEF f, p
  <2>3. p = 0 /\ ~(p > 0)
    BY <1>5, <2>2
  <2> QED
    BY <1>5, <2>1, <2>3 DEF p, f
<1>7. CASE o > 1
  <2>1. PICK c \in Letters : /\ Becomes(source, R, o - 1) = <<c>>
                             /\ c = "$" <=> source[o - 1] = "$"
    BY <1>1, <1>7, OpenChar
  <2> DEFINE h == f[o - 2]
             one == <<c>>
             g == f[o - 1]
  <2>2. h \in Seq(Letters) /\ one \in Seq(Letters) /\ Len(one) = 1 /\ one[1] = c
    <3>1. o - 2 \in 0 .. Len(source)
      BY <1>1, <1>7
    <3> QED
      BY <1>2, <3>1, OneLetter
  <2>3. g = h \o one
    <3>1. o - 1 \in 1 .. Len(source) /\ (o - 1) - 1 = o - 2
      BY <1>1, <1>7
    <3>2. g = f[(o - 1) - 1] \o Becomes(source, R, o - 1)
      BY <1>2, <3>1
    <3> QED
      BY <2>1, <3>1, <3>2
  <2>4. PICK mid \in Seq(Letters) : f[n] = g \o mid
    <3>1. o - 1 \in 0 .. Len(source) /\ n \in 0 .. Len(source) /\ o - 1 <= n
      BY <1>1
    <3>2. \E mid \in Seq(Letters) : Rewritten(source, R)[n] = Rewritten(source, R)[o - 1] \o mid
      <4> HIDE DEF R
      <4>1. PICK a \in 0 .. Len(source) : a = o - 1
        BY <3>1
      <4>2. a <= n
        BY <3>1, <4>1
      <4>3. \E mid \in Seq(Letters) : Rewritten(source, R)[n] = Rewritten(source, R)[a] \o mid
        <5>1. GrowAlike(source, R, R, a, n)
          BY <1>1, <3>1, <4>2, Begins
        <5> QED
          BY <5>1 DEF GrowAlike
      <4> QED
        BY <4>1, <4>3
    <3> QED
      BY <3>2 DEF So
  <2>5. path = f[n] \o tail /\ tail \in Seq(Letters)
    BY <1>1, Rests DEF Rewrote
  <2>6. g \in Seq(Letters) /\ p = Len(g)
    BY <1>3, <1>5
  <2> HIDE DEF f, p, h, one, g, tail
  <2>7. p = Len(h) + 1 /\ g[p] = c
    <3>1. /\ Len(h \o one) = Len(h) + Len(one)
          /\ \A j \in 1 .. Len(h) + Len(one) :
               (h \o one)[j] = IF j <= Len(h) THEN h[j] ELSE one[j - Len(h)]
      BY <2>2, ConcatProperties
    <3>2. /\ Len(h) + 1 \in 1 .. Len(h) + Len(one) /\ ~(Len(h) + 1 <= Len(h))
          /\ Len(h) + 1 - Len(h) = 1
      BY <2>2
    <3> QED
      BY <2>2, <2>3, <2>6, <3>1, <3>2
  <2>8. mid \o tail \in Seq(Letters) /\ path = g \o (mid \o tail)
    <3>1. mid \o tail \in Seq(Letters)
      BY <2>4, <2>5, Joins
    <3>2. path = (g \o mid) \o tail
      BY <2>4, <2>5, Zenon
    <3>3. (g \o mid) \o tail = g \o (mid \o tail)
      BY <2>4, <2>5, <2>6, Joins3, Zenon
    <3> QED
      BY <3>1, <3>2, <3>3, Zenon
  <2>9. path[p] = g[p]
    <3> DEFINE more == mid \o tail
    <3>1. more \in Seq(Letters) /\ path = g \o more
      BY <2>8
    <3> HIDE DEF more
    <3>2. \A j \in 1 .. Len(g) + Len(more) :
            path[j] = IF j <= Len(g) THEN g[j] ELSE more[j - Len(g)]
      BY <2>6, <3>1, ConcatProperties
    <3>3. p \in 1 .. Len(g) + Len(more) /\ p <= Len(g)
      BY <2>2, <2>6, <2>7, <3>1
    <3> QED
      BY <3>2, <3>3
  <2>10. p > 0 /\ At(path, p - 1) = path[p] /\ p \in Nat
    <3>1. p \in Nat /\ p > 0 /\ (p - 1) + 1 = p
      BY <2>2, <2>7
    <3> QED
      BY <3>1 DEF At
  <2>11. /\ p = Len(g)
         /\ p > 0 /\ At(path, p - 1) = "$" <=> o > 1 /\ source[o - 1] = "$"
    BY <1>7, <2>1, <2>6, <2>7, <2>9, <2>10
  <2> QED
    BY <2>11 DEF p, g, f
<1> QED
  BY <1>1, <1>6, <1>7

\* What is not closed one character on.
LEMMA UnclosedNext ==
  ASSUME NEW s, NEW n \in Nat, NEW o \in 1 .. n
  PROVE  /\ Depth(s, o, n + 1) = Depth(s, o, n) + Change(s, n + 1)
         /\ Depth(s, o, n) \in Int
         /\ Unclosed(s, o, n + 1) <=> Unclosed(s, o, n) /\ Depth(s, o, n + 1) > 0
<1>1. o \in Nat /\ n \in Nat /\ o <= n + 1
  OBVIOUS
<1>2. /\ Depth(s, o, n + 1) = Depth(s, o, n) + Change(s, n + 1)
      /\ Depth(s, o, n) \in Int
  BY <1>1, Depths
<1>3. \A k : k \in o .. n + 1 <=> k \in o .. n \/ k = n + 1
  OBVIOUS
<1>4. Unclosed(s, o, n + 1) <=> Unclosed(s, o, n) /\ Depth(s, o, n + 1) > 0
  BY <1>3, Zenon DEF Unclosed
<1> QED
  BY <1>2, <1>4

LEMMA UnclosedLast ==
  ASSUME NEW s, NEW n \in Nat
  PROVE  /\ Unclosed(s, n + 1, n + 1) <=> s[n + 1] = "("
         /\ s[n + 1] = "(" => Depth(s, n + 1, n + 1) = 1
<1>1. n + 1 \in Nat \ {0}
  OBVIOUS
<1>2. s[n + 1] = "(" => Depth(s, n + 1, n + 1) = 1
  BY <1>1, DepthAlone
<1>3. \A k \in n + 1 .. n + 1 : k = n + 1
  OBVIOUS
<1> QED
  BY <1>2, <1>3 DEF Unclosed

LEMMA ClosedSame ==
  ASSUME NEW s, NEW n \in Nat, \A r \in References(s) : r[2] # n + 1
  PROVE  Closed(s, n + 1) = Closed(s, n)
<1>1. \A r \in References(s) : r[2] \in Nat
  BY DEF References
<1>2. \A r \in References(s) : r[2] <= n + 1 <=> r[2] <= n
  BY <1>1
<1> QED
  BY <1>2 DEF Closed

\* A step over a character that closes nothing.
LEMMA NoneCloses ==
  ASSUME NEW s, NEW n \in Nat, s[n + 1] # ")"
  PROVE  Closed(s, n + 1) = Closed(s, n)
<1>1. \A r \in References(s) : s[r[2]] = ")"
  BY DEF References, Pair
<1> QED
  BY <1>1, ClosedSame

LEMMA PassFollows ==
  ASSUME PathInv, Pass, NEW n \in 0 .. Len(source), Rewrote(n),
         NEW stk \in [1 .. Len(open) -> 1 .. n], Stacked(n, stk)
  PROVE  Followed'
<1>1. /\ source \in Seq(PathChars) /\ n \in Nat /\ Len(source) \in Nat /\ PathTypeOK
      /\ open' = open /\ i' = i + 1 /\ path' = path /\ source' = source
      /\ i < Len(path) /\ At(path, i) \notin {"(", ")"}
  BY DEF PathInv, PathTypeOK, Pass
<1>2. n < Len(source) /\ source[n + 1] # "(" /\ source[n + 1] # ")"
  BY <1>1, CurrentChar
<1>3. Closed(source, n + 1) = Closed(source, n)
  BY <1>1, <1>2, NoneCloses
<1>4. Rewrote(n + 1)' /\ n + 1 \in 0 .. Len(source')
  BY <1>1, <1>2, <1>3, ReadOn
<1>5. So(source, n + 1) = So(source, n) /\ Change(source, n + 1) = 0
  BY <1>2, <1>3 DEF So, Change
<1>6. \A o \in 1 .. n : /\ Depth(source, o, n + 1) = Depth(source, o, n)
                        /\ Unclosed(source, o, n + 1) <=> Unclosed(source, o, n)
  <2> TAKE o \in 1 .. n
  <2>1. /\ Depth(source, o, n + 1) = Depth(source, o, n) /\ Depth(source, o, n) \in Int
        /\ Unclosed(source, o, n + 1) <=> Unclosed(source, o, n) /\ Depth(source, o, n) > 0
    BY <1>1, <1>5, UnclosedNext
  <2>2. Unclosed(source, o, n) => Depth(source, o, n) > 0
    BY <1>1 DEF Unclosed
  <2> QED
    BY <2>1, <2>2
<1>7. ~Unclosed(source, n + 1, n + 1)
  BY <1>1, <1>2, UnclosedLast
<1>8. stk \in [1 .. Len(open') -> 1 .. n + 1]
  BY <1>1
<1>9. Stacked(n + 1, stk)'
  <2>1. \A j \in 1 .. Len(open) :
          /\ Unclosed(source, stk[j], n + 1)
          /\ Depth(source, stk[j], n + 1) = Len(open) - j + 1
          /\ open[j] = Len(So(source, n + 1)[stk[j]]) - 1
    BY <1>5, <1>6 DEF Stacked
  <2>2. \A o \in 1 .. n + 1 : Unclosed(source, o, n + 1) => \E j \in 1 .. Len(open) : stk[j] = o
    <3>1. \A o \in 1 .. n + 1 : o \in 1 .. n \/ o = n + 1
      BY <1>1
    <3> QED
      BY <1>6, <1>7, <3>1 DEF Stacked
  <2>3. \A j, k \in 1 .. Len(open) : j < k => stk[j] < stk[k]
    BY DEF Stacked
  <2> QED
    BY <1>1, <2>1, <2>2, <2>3, Zenon DEF Stacked
<1> QED
  BY <1>4, <1>8, <1>9 DEF Followed

LEMMA PushFollows ==
  ASSUME PathInv, Push, NEW n \in 0 .. Len(source), Rewrote(n),
         NEW stk \in [1 .. Len(open) -> 1 .. n], Stacked(n, stk)
  PROVE  Followed'
<1> DEFINE m == Len(open)
<1>1. /\ source \in Seq(PathChars) /\ n \in Nat /\ Len(source) \in Nat /\ PathTypeOK
      /\ open' = Append(open, i) /\ i' = i + 1 /\ path' = path /\ source' = source
      /\ i < Len(path) /\ At(path, i) = "(" /\ m \in Nat /\ open \in Seq(Nat) /\ i \in Nat
  BY DEF PathInv, PathTypeOK, Push, Reads
<1>2. n < Len(source) /\ source[n + 1] = "("
  BY <1>1, CurrentChar
<1>3. Closed(source, n + 1) = Closed(source, n)
  BY <1>1, <1>2, NoneCloses
<1>4. Rewrote(n + 1)' /\ n + 1 \in 0 .. Len(source')
  BY <1>1, <1>2, <1>3, ReadOn
<1>5. So(source, n + 1) = So(source, n) /\ Change(source, n + 1) = 1
  BY <1>2, <1>3 DEF So, Change
<1>6. \A o \in 1 .. n : /\ Depth(source, o, n + 1) = Depth(source, o, n) + 1
                        /\ Unclosed(source, o, n + 1) <=> Unclosed(source, o, n)
  <2> TAKE o \in 1 .. n
  <2>1. /\ Depth(source, o, n + 1) = Depth(source, o, n) + 1 /\ Depth(source, o, n) \in Int
        /\ Unclosed(source, o, n + 1) <=> Unclosed(source, o, n) /\ Depth(source, o, n) + 1 > 0
    BY <1>1, <1>5, UnclosedNext
  <2>2. Unclosed(source, o, n) => Depth(source, o, n) > 0
    BY <1>1 DEF Unclosed
  <2> QED
    BY <2>1, <2>2
<1>7. Unclosed(source, n + 1, n + 1) /\ Depth(source, n + 1, n + 1) = 1
  BY <1>1, <1>2, UnclosedLast
<1>8. /\ Len(open') = m + 1 /\ open'[m + 1] = i
      /\ \A j \in 1 .. m : open'[j] = open[j]
  BY <1>1
<1>9. PICK more \in [1 .. m + 1 -> 1 .. n + 1] :
        /\ more[m + 1] = n + 1
        /\ \A j \in 1 .. m : more[j] = stk[j] /\ stk[j] \in 1 .. n
  <2>1. stk \in [1 .. m -> 1 .. n] /\ m \in Nat /\ n \in Nat
    BY <1>1
  <2> HIDE DEF m
  <2> DEFINE f == [j \in 1 .. m + 1 |-> IF j <= m THEN stk[j] ELSE n + 1]
  <2>2. \A j \in 1 .. m + 1 : IF j <= m THEN j \in 1 .. m ELSE j = m + 1
    BY <2>1
  <2>3. \A j \in 1 .. m + 1 : f[j] \in 1 .. n + 1
    BY <2>1, <2>2
  <2>4. m + 1 \in 1 .. m + 1 /\ ~(m + 1 <= m) /\ \A j \in 1 .. m : j \in 1 .. m + 1 /\ j <= m
    BY <2>1
  <2>5. f[m + 1] = n + 1 /\ \A j \in 1 .. m : f[j] = stk[j] /\ stk[j] \in 1 .. n
    BY <2>1, <2>4
  <2> HIDE DEF f
  <2>6. f \in [1 .. m + 1 -> 1 .. n + 1]
    BY <2>3 DEF f
  <2> QED
    BY <2>5, <2>6
<1>10. i = Len(So(source, n + 1)[n + 1]) - 1
  BY <1>1, <1>4 DEF Rewrote
<1>11. \A j \in 1 .. m + 1 : j \in 1 .. m \/ j = m + 1
  BY <1>1
<1>12. Stacked(n + 1, more)'
  <2>1. ASSUME NEW j \in 1 .. m + 1
        PROVE  /\ Unclosed(source, more[j], n + 1)
               /\ Depth(source, more[j], n + 1) = m + 1 - j + 1
               /\ open'[j] = Len(So(source, n + 1)[more[j]]) - 1
    <3>1. CASE j \in 1 .. m
      <4>1. /\ Unclosed(source, stk[j], n) /\ Depth(source, stk[j], n) = m - j + 1
            /\ open[j] = Len(So(source, n)[stk[j]]) - 1
        BY <3>1 DEF Stacked
      <4>2. (m - j + 1) + 1 = m + 1 - j + 1
        BY <1>1, <3>1
      <4> QED
        BY <1>5, <1>6, <1>8, <1>9, <3>1, <4>1, <4>2
    <3>2. CASE j = m + 1
      <4>1. m + 1 - (m + 1) + 1 = 1
        BY <1>1
      <4> QED
        BY <1>7, <1>8, <1>9, <1>10, <3>2, <4>1
    <3> QED
      BY <1>11, <3>1, <3>2
  <2>2. \A o \in 1 .. n + 1 : Unclosed(source, o, n + 1) => \E j \in 1 .. m + 1 : more[j] = o
    <3> SUFFICES ASSUME NEW o \in 1 .. n + 1, Unclosed(source, o, n + 1)
                 PROVE  \E j \in 1 .. m + 1 : more[j] = o
      OBVIOUS
    <3>1. CASE o \in 1 .. n
      <4>1. PICK j \in 1 .. m : stk[j] = o
        BY <1>6, <3>1 DEF Stacked
      <4>2. j \in 1 .. m + 1
        BY <1>1
      <4> QED
        BY <1>9, <4>1, <4>2
    <3>2. CASE o = n + 1
      <4>1. m + 1 \in 1 .. m + 1
        BY <1>1
      <4> QED
        BY <1>9, <3>2, <4>1
    <3> QED
      BY <1>1, <3>1, <3>2
  <2>3. \A j, k \in 1 .. m + 1 : j < k => more[j] < more[k]
    <3> SUFFICES ASSUME NEW j \in 1 .. m + 1, NEW k \in 1 .. m + 1, j < k
                 PROVE  more[j] < more[k]
      OBVIOUS
    <3>1. j \in 1 .. m
      BY <1>1
    <3>2. CASE k = m + 1
      BY <1>1, <1>9, <3>1, <3>2
    <3>3. CASE k \in 1 .. m
      BY <1>9, <3>1, <3>3 DEF Stacked
    <3> QED
      BY <1>11, <3>2, <3>3
  <2> HIDE DEF m
  <2> QED
    <3>1. Len(open') = m + 1 /\ source' = source /\ m \in Nat
      BY <1>1, <1>8
    <3>2. \A j \in 1 .. Len(open') :
            /\ Unclosed(source', more[j], n + 1)
            /\ Depth(source', more[j], n + 1) = Len(open') - j + 1
            /\ open'[j] = Len(So(source', n + 1)[more[j]]) - 1
      <4> TAKE j \in 1 .. Len(open')
      <4>1. j \in 1 .. m + 1
        BY <3>1
      <4>2. /\ Unclosed(source, more[j], n + 1)
            /\ Depth(source, more[j], n + 1) = m + 1 - j + 1
            /\ open'[j] = Len(So(source, n + 1)[more[j]]) - 1
        BY <2>1, <4>1
      <4>3. m + 1 - j + 1 = Len(open') - j + 1
        BY <3>1
      <4> QED
        BY <3>1, <4>2, <4>3
    <3>3. \A j, k \in 1 .. Len(open') : j < k => more[j] < more[k]
      BY <2>3, <3>1
    <3>4. \A o \in 1 .. n + 1 : Unclosed(source', o, n + 1) =>
            \E j \in 1 .. Len(open') : more[j] = o
      BY <2>2, <3>1
    <3> QED
      BY <3>2, <3>3, <3>4, Zenon DEF Stacked
<1>13. \E st \in [1 .. Len(open') -> 1 .. n + 1] : Stacked(n + 1, st)'
  BY <1>8, <1>9, <1>12
<1> QED
  BY <1>4, <1>13 DEF Followed

\* What a closing bracket closes is the last opened of those not closed.
LEMMA Closing ==
  ASSUME source \in Seq(PathChars), open \in Seq(Nat), NEW n \in Nat, n < Len(source),
         source[n + 1] = ")",
         NEW stk \in [1 .. Len(open) -> 1 .. n], Stacked(n, stk)
  PROVE  /\ \A j \in 1 .. Len(open) : Depth(source, stk[j], n + 1) = Len(open) - j
         /\ \A o \in 1 .. n + 1 : Unclosed(source, o, n + 1) <=>
              \E j \in 1 .. Len(open) - 1 : stk[j] = o
         /\ \A r \in References(source) : r[2] = n + 1 =>
              Len(open) > 0 /\ r[1] = stk[Len(open)]
         /\ Len(open) > 0 /\ stk[Len(open)] > 1 /\ source[stk[Len(open)] - 1] = "$" =>
              <<stk[Len(open)], n + 1>> \in References(source)
<1> DEFINE m == Len(open)
<1>1. m \in Nat /\ Len(source) \in Nat /\ Change(source, n + 1) = -1
  BY DEF Change
<1>2. \A j \in 1 .. m : /\ stk[j] \in 1 .. n /\ Unclosed(source, stk[j], n)
                        /\ Depth(source, stk[j], n) = m - j + 1
  BY DEF Stacked
<1>3. \A o \in 1 .. n : Unclosed(source, o, n) => \E j \in 1 .. m : stk[j] = o
  BY DEF Stacked
<1>4. \A j \in 1 .. m : Depth(source, stk[j], n + 1) = m - j
  <2> TAKE j \in 1 .. m
  <2>1. Depth(source, stk[j], n + 1) = Depth(source, stk[j], n) + (-1)
    BY <1>1, <1>2, UnclosedNext
  <2>2. Depth(source, stk[j], n) = m - j + 1
    BY <1>2
  <2> HIDE DEF m
  <2> QED
    BY <1>1, <2>1, <2>2
<1>5. ~Unclosed(source, n + 1, n + 1)
  BY UnclosedLast
<1> HIDE DEF m
<1>6. ASSUME NEW o \in 1 .. n + 1
      PROVE  Unclosed(source, o, n + 1) <=> \E j \in 1 .. m - 1 : stk[j] = o
  <2>1. ASSUME Unclosed(source, o, n + 1) PROVE \E j \in 1 .. m - 1 : stk[j] = o
    <3>1. o \in 1 .. n
      BY <1>5, <2>1
    <3>2. Unclosed(source, o, n) /\ Depth(source, o, n + 1) > 0
      BY <2>1, <3>1, UnclosedNext
    <3>3. PICK j \in 1 .. m : stk[j] = o
      BY <1>3, <3>1, <3>2
    <3>4. m - j > 0
      BY <1>4, <3>2, <3>3
    <3>5. j \in 1 .. m - 1
      BY <1>1, <3>4
    <3> QED
      BY <3>3, <3>5
  <2>2. ASSUME NEW j \in 1 .. m - 1, stk[j] = o PROVE Unclosed(source, o, n + 1)
    <3>1. j \in 1 .. m /\ m - j > 0
      BY <1>1
    <3>2. o \in 1 .. n /\ Unclosed(source, o, n) /\ Depth(source, o, n + 1) > 0
      BY <1>2, <1>4, <2>2, <3>1
    <3> QED
      BY <3>2, UnclosedNext
  <2> QED
    BY <2>1, <2>2
<1>7. ASSUME NEW r \in References(source), r[2] = n + 1
      PROVE  m > 0 /\ r[1] = stk[m]
  <2>1. /\ r[1] \in 1 .. n /\ source[r[1]] = "(" /\ Depth(source, r[1], n + 1) = 0
        /\ \A k \in r[1] .. n : Depth(source, r[1], k) > 0
    <3>1. /\ r[1] \in 2 .. Len(source) /\ r[1] < r[2] /\ source[r[1]] = "("
          /\ Depth(source, r[1], r[2]) = 0
          /\ \A k \in r[1] .. r[2] - 1 : Depth(source, r[1], k) > 0
      BY DEF References, Pair
    <3>2. (n + 1) - 1 = n
      OBVIOUS
    <3> QED
      BY <1>1, <1>7, <3>1, <3>2
  <2>2. PICK j \in 1 .. m : stk[j] = r[1]
    BY <1>3, <2>1 DEF Unclosed
  <2>3. m - j = 0
    BY <1>4, <2>1, <2>2
  <2>4. j = m /\ m > 0
    BY <1>1, <2>3
  <2> QED
    BY <2>2, <2>4
<1>8. ASSUME m > 0, stk[m] > 1, source[stk[m] - 1] = "$"
      PROVE  <<stk[m], n + 1>> \in References(source)
  <2> DEFINE o == stk[m]
  <2>1. m \in 1 .. m /\ m - m = 0
    BY <1>1, <1>8
  <2>2. o \in 1 .. n /\ Unclosed(source, o, n) /\ Depth(source, o, n + 1) = 0
    BY <1>2, <1>4, <2>1
  <2>3. o > 1 /\ source[o - 1] = "$"
    BY <1>8
  <2> HIDE DEF o
  <2>4. o \in 2 .. Len(source) /\ n + 1 \in 2 .. Len(source) /\ o < n + 1 /\ (n + 1) - 1 = n
    BY <1>1, <2>2, <2>3
  <2>5. Pair(source, o, n + 1)
    BY <2>2, <2>4 DEF Pair, Unclosed
  <2> DEFINE r == <<o, n + 1>>
  <2>6. r[1] = o /\ r[2] = n + 1 /\ r \in (2 .. Len(source)) \X (2 .. Len(source))
    BY <2>4
  <2> HIDE DEF r
  <2>7. r \in References(source)
    BY <2>3, <2>4, <2>5, <2>6 DEF References
  <2> QED
    BY <2>7 DEF r, o
<1> QED
  BY <1>4, <1>6, <1>7, <1>8, Zenon DEF m

\* The stack without its top.
LEMMA PoppedStack ==
  ASSUME PathInv, NEW n \in Nat, n < Len(source), source[n + 1] = ")",
         NEW stk \in [1 .. Len(open) -> 1 .. n], Stacked(n, stk),
         source' = source, open' = Pop(open),
         \A j \in 1 .. Len(open) - 1 :
           So(source, n + 1)[stk[j]] = So(source, n)[stk[j]]
  PROVE  \E st \in [1 .. Len(open') -> 1 .. n + 1] : Stacked(n + 1, st)'
<1> DEFINE m == Len(open)
<1>1. /\ source \in Seq(PathChars) /\ open \in Seq(Nat) /\ m \in Nat
      /\ Len(open') \in Nat
  BY Popped DEF PathInv, PathTypeOK
<1>2. /\ \A j \in 1 .. m : Depth(source, stk[j], n + 1) = m - j
      /\ \A o \in 1 .. n + 1 : Unclosed(source, o, n + 1) <=> \E j \in 1 .. m - 1 : stk[j] = o
  BY <1>1, Closing
<1>3. /\ Len(open') = IF m > 0 THEN m - 1 ELSE 0
      /\ \A j \in 1 .. m - 1 : open'[j] = open[j] /\ j \in 1 .. m
  <2>1. /\ Len(open') <= m /\ \A j \in 1 .. Len(open') : open'[j] = open[j]
        /\ open # << >> => Len(open') = m - 1
    BY <1>1, Popped
  <2>2. open = << >> <=> m = 0
    BY <1>1
  <2> HIDE DEF m
  <2> QED
    BY <1>1, <2>1, <2>2
<1>4. /\ \A j \in 1 .. m : stk[j] \in 1 .. n /\ open[j] = Len(So(source, n)[stk[j]]) - 1
      /\ \A j, k \in 1 .. m : j < k => stk[j] < stk[k]
  BY DEF Stacked
<1>4a. \A j \in 1 .. m - 1 : So(source, n + 1)[stk[j]] = So(source, n)[stk[j]]
  OBVIOUS
<1> HIDE DEF m
<1>5. PICK k \in Nat : k = Len(open')
  BY <1>1
<1>6. \A j : j \in 1 .. k <=> j \in 1 .. m - 1
  BY <1>1, <1>3, <1>5
<1> DEFINE f == [j \in 1 .. k |-> stk[j]]
<1>7. PICK st : st = f
  OBVIOUS
<1>8. st \in [1 .. k -> 1 .. n + 1] /\ \A j \in 1 .. k : st[j] = stk[j]
  <2>1. \A j \in 1 .. k : stk[j] \in 1 .. n + 1
    <3> TAKE j \in 1 .. k
    <3>1. j \in 1 .. m
      BY <1>3, <1>6
    <3>2. stk[j] \in 1 .. n
      BY <1>4, <3>1
    <3> QED
      BY <3>2
  <2> QED
    BY <1>7, <2>1
<1>9. Stacked(n + 1, st)'
  <2>1. ASSUME NEW j \in 1 .. k
        PROVE  /\ Unclosed(source, st[j], n + 1)
               /\ Depth(source, st[j], n + 1) = k - j + 1
               /\ open'[j] = Len(So(source, n + 1)[st[j]]) - 1
    <3>1. j \in 1 .. m - 1 /\ j \in 1 .. m /\ st[j] = stk[j] /\ stk[j] \in 1 .. n + 1
      BY <1>3, <1>4, <1>6, <1>8
    <3>2. k = m - 1 /\ m - j = k - j + 1
      BY <1>1, <1>3, <1>5, <3>1
    <3>3. Unclosed(source, stk[j], n + 1)
      BY <1>2, <3>1
    <3>4. Depth(source, stk[j], n + 1) = k - j + 1
      BY <1>2, <3>1, <3>2
    <3>5. open'[j] = Len(So(source, n + 1)[stk[j]]) - 1
      BY <1>3, <1>4, <1>4a, <3>1
    <3> QED
      BY <3>1, <3>3, <3>4, <3>5
  <2>2. \A o \in 1 .. n + 1 : Unclosed(source, o, n + 1) => \E j \in 1 .. k : st[j] = o
    BY <1>2, <1>6, <1>8
  <2>3. \A j, l \in 1 .. k : j < l => st[j] < st[l]
    BY <1>3, <1>4, <1>6, <1>8
  <2>4. /\ \A j \in 1 .. k :
             /\ Unclosed(source', st[j], n + 1)
             /\ Depth(source', st[j], n + 1) = k - j + 1
             /\ open'[j] = Len(So(source', n + 1)[st[j]]) - 1
        /\ \A o \in 1 .. n + 1 : Unclosed(source', o, n + 1) => \E j \in 1 .. k : st[j] = o
    BY <2>1, <2>2, Zenon
  <2> HIDE DEF f
  <2> QED
    BY <1>5, <2>3, <2>4, Zenon DEF Stacked
<1> QED
  BY <1>5, <1>8, <1>9

LEMMA CloseFollows ==
  ASSUME PathInv, Close, NEW n \in 0 .. Len(source), Rewrote(n),
         NEW stk \in [1 .. Len(open) -> 1 .. n], Stacked(n, stk)
  PROVE  Followed'
<1> DEFINE m == Len(open)
<1>1. /\ source \in Seq(PathChars) /\ n \in Nat /\ Len(source) \in Nat /\ PathTypeOK
      /\ open' = Pop(open) /\ i' = i + 1 /\ path' = path /\ source' = source
      /\ i < Len(path) /\ At(path, i) = ")" /\ ~Prefixed /\ open \in Seq(Nat) /\ m \in Nat
  BY DEF PathInv, PathTypeOK, Close, Reads
<1>2. n < Len(source) /\ source[n + 1] = ")"
  BY <1>1, CurrentChar
<1>3. \A r \in References(source) : r[2] # n + 1
  <2> SUFFICES ASSUME NEW r \in References(source), r[2] = n + 1 PROVE FALSE
    OBVIOUS
  <2>1. m > 0 /\ r[1] = stk[m]
    BY <1>1, <1>2, Closing
  <2> DEFINE o == stk[m]
  <2>2. r[1] > 1 /\ source[r[1] - 1] = "$"
    BY DEF References
  <2>3. m \in 1 .. m
    BY <1>1, <2>1
  <2>4. o \in 1 .. n /\ Unclosed(source, o, n) /\ open[m] = Len(So(source, n)[o]) - 1
    BY <2>3 DEF Stacked
  <2>5. open[m] > 0 /\ At(path, open[m] - 1) = "$"
    <3> HIDE DEF m, o
    <3>1. o > 1 /\ source[o - 1] = "$"
      BY <2>1, <2>2 DEF o
    <3>2. n <= Len(source)
      BY <1>1, <1>2
    <3> QED
      BY <1>1, <2>4, <3>1, <3>2, TopAt
  <2>6. Peek(open) = open[m]
    <3>1. open # << >>
      BY <1>1, <2>1
    <3> QED
      BY <3>1, Zenon DEF Peek, Last
  <2> QED
    BY <1>1, <2>5, <2>6, Zenon DEF Prefixed
<1>4. Closed(source, n + 1) = Closed(source, n)
  BY <1>1, <1>3, ClosedSame
<1>5. Rewrote(n + 1)' /\ n + 1 \in 0 .. Len(source')
  BY <1>1, <1>2, <1>4, ReadOn
<1>6. So(source, n + 1) = So(source, n)
  BY <1>4 DEF So
<1>7. \E st \in [1 .. Len(open') -> 1 .. n + 1] : Stacked(n + 1, st)'
  BY <1>1, <1>2, <1>6, PoppedStack
<1> QED
  BY <1>5, <1>7 DEF Followed

\* Rewriting one more reference changes nothing before it, and after it only
\* what it became.
LEMMA OneMore ==
  ASSUME NEW s \in Seq(PathChars), NEW n \in Nat, n < Len(s), s[n + 1] = ")",
         NEW o \in 2 .. n, Unclosed(s, o, n), s[o - 1] = "$",
         <<o, n + 1>> \in References(s),
         \A r \in References(s) : r[2] = n + 1 => r[1] = o
  PROVE  /\ Closed(s, n + 1) = Closed(s, n) \cup {<<o, n + 1>>}
         /\ Becomes(s, Closed(s, n), o - 1) = <<"$">>
         /\ Becomes(s, Closed(s, n), o) = <<"(">>
         /\ Becomes(s, Closed(s, n + 1), o - 1) = << >>
         /\ Becomes(s, Closed(s, n + 1), o) = <<"{">>
         /\ Becomes(s, Closed(s, n + 1), n + 1) = <<"}">>
         /\ \A k \in 1 .. n : k # o /\ k # o - 1 =>
              Becomes(s, Closed(s, n + 1), k) = Becomes(s, Closed(s, n), k)
<1> DEFINE R == Closed(s, n)
           Q == Closed(s, n + 1)
           new == <<o, n + 1>>
<1>1. new[1] = o /\ new[2] = n + 1 /\ Len(s) \in Nat /\ o \in Nat
  OBVIOUS
<1>2. \A r \in References(s) : /\ r = <<r[1], r[2]>> /\ r[2] \in Nat
                               /\ r[1] \in Nat /\ s[r[1] - 1] = "$" /\ s[r[1]] = "("
                               /\ s[r[2]] = ")"
  BY DEF References, Pair
<1>3. Q = R \cup {new}
  <2>1. ASSUME NEW r \in References(s), r[2] = n + 1 PROVE r = new
    BY <1>2, <2>1
  <2>2. \A r \in References(s) : r[2] <= n + 1 <=> r[2] <= n \/ r[2] = n + 1
    BY <1>2
  <2> HIDE DEF new
  <2>3. \A r : r \in Q <=> r \in R \/ r = new
    BY <1>1, <2>1, <2>2 DEF Closed, new
  <2> QED
    BY <2>3
<1>4. Becomes(s, R, o) = <<"(">>
  BY OpenChar
<1>5. Becomes(s, R, o - 1) = <<"$">>
  <2>1. \E c \in Letters : Becomes(s, R, o - 1) = <<c>> /\ (c = "$" <=> s[o - 1] = "$")
    BY OpenChar
  <2> QED
    BY <2>1, Zenon
<1>6. \A r \in R : o - 1 # r[1] - 1 /\ r[1] \in Nat
  <2> SUFFICES ASSUME NEW r \in R PROVE o - 1 # r[1] - 1 /\ r[1] \in Nat
    OBVIOUS
  <2>1. r[1] \in Nat /\ r[2] \in Nat /\ r[1] < r[2] /\ r[2] <= n /\ Depth(s, r[1], r[2]) = 0
    BY ClosedIs
  <2>2. o # r[1]
    <3> SUFFICES ASSUME o = r[1] PROVE FALSE
      OBVIOUS
    <3>1. r[2] \in o .. n /\ Depth(s, o, r[2]) = 0
      BY <2>1
    <3> QED
      BY <3>1 DEF Unclosed
  <2> QED
    BY <1>1, <2>1, <2>2
<1> HIDE DEF R, Q, new
<1>7. Becomes(s, Q, o - 1) = << >>
  BY <1>1, <1>3, Zenon DEF Becomes
<1>8. s[o] = "("
  BY DEF Unclosed
<1>9. Becomes(s, Q, o) = <<"{">>
  <2>1. \A r \in Q : o # r[1] - 1
    <3> SUFFICES ASSUME NEW r \in Q, o = r[1] - 1 PROVE FALSE
      OBVIOUS
    <3>1. r \in References(s)
      BY DEF Q, Closed
    <3>2. s[o] = "$"
      BY <1>2, <3>1
    <3> QED
      BY <1>8, <3>2
  <2> QED
    BY <1>1, <1>3, <2>1, Zenon DEF Becomes
<1>10. Becomes(s, Q, n + 1) = <<"}">>
  <2>1. \A r \in Q : n + 1 # r[1] - 1 /\ n + 1 # r[1]
    <3> SUFFICES ASSUME NEW r \in Q PROVE n + 1 # r[1] - 1 /\ n + 1 # r[1]
      OBVIOUS
    <3>1. r \in References(s)
      BY DEF Q, Closed
    <3>2. s[r[1] - 1] = "$" /\ s[r[1]] = "("
      BY <1>2, <3>1
    <3> QED
      BY <3>2
  <2> QED
    BY <1>1, <1>3, <2>1, Zenon DEF Becomes
<1>11. ASSUME NEW k \in 1 .. n, k # o, k # o - 1
       PROVE  Becomes(s, Q, k) = Becomes(s, R, k)
  <2>1. k # new[1] - 1 /\ k # new[1] /\ k # new[2]
    BY <1>1, <1>11
  <2>2. /\ (\E r \in Q : k = r[1] - 1) <=> (\E r \in R : k = r[1] - 1)
        /\ (\E r \in Q : k = r[1]) <=> (\E r \in R : k = r[1])
        /\ (\E r \in Q : k = r[2]) <=> (\E r \in R : k = r[2])
    BY <1>3, <2>1, Zenon
  <2> QED
    BY <2>2, Zenon DEF Becomes
<1> QED
  BY <1>3, <1>4, <1>5, <1>7, <1>9, <1>10, <1>11, Zenon DEF R, Q, new

\* Where the same becomes of all characters so far, the same has come.
LEMMA SameSoFar ==
  ASSUME NEW s \in Seq(PathChars), NEW R, NEW Q, NEW n \in 0 .. Len(s),
         \A k \in 1 .. n : Becomes(s, R, k) = Becomes(s, Q, k)
  PROVE  Rewritten(s, R)[n] = Rewritten(s, Q)[n]
<1>1. 0 \in 0 .. Len(s) /\ 0 <= n /\ 0 + 1 = 1
  OBVIOUS
<1>2. GrowAlike(s, R, Q, 0, n)
  BY <1>1, Between
<1>3. Rewritten(s, R)[0] = << >> /\ Rewritten(s, Q)[0] = << >>
  BY RewrittenIs
<1> QED
  BY <1>2, <1>3, Zenon DEF GrowAlike

\* Rewriting one more reference, in the text.
LEMMA OneMoreText ==
  ASSUME NEW s \in Seq(PathChars), NEW n \in Nat, n < Len(s), s[n + 1] = ")",
         NEW o \in 2 .. n, Unclosed(s, o, n), s[o - 1] = "$",
         <<o, n + 1>> \in References(s),
         \A r \in References(s) : r[2] = n + 1 => r[1] = o
  PROVE  \E x, mid \in Seq(Letters) :
           /\ So(s, n)[o - 1] = x \o <<"$">>
           /\ So(s, n)[n] = ((x \o <<"$">>) \o <<"(">>) \o mid
           /\ So(s, n + 1)[n] = (x \o <<"{">>) \o mid
           /\ So(s, n + 1)[n + 1] = So(s, n + 1)[n] \o <<"}">>
           /\ \A k \in 0 .. o - 2 : So(s, n + 1)[k] = So(s, n)[k]
<1> DEFINE R == Closed(s, n)
           Q == Closed(s, n + 1)
           f == Rewritten(s, R)
           g == Rewritten(s, Q)
<1>1. /\ Becomes(s, R, o - 1) = <<"$">> /\ Becomes(s, R, o) = <<"(">>
      /\ Becomes(s, Q, o - 1) = << >> /\ Becomes(s, Q, o) = <<"{">>
      /\ Becomes(s, Q, n + 1) = <<"}">>
      /\ \A k \in 1 .. n : k # o /\ k # o - 1 => Becomes(s, Q, k) = Becomes(s, R, k)
  BY OneMore
<1> HIDE DEF R, Q
<1>2. /\ f \in [0 .. Len(s) -> Seq(Letters)] /\ g \in [0 .. Len(s) -> Seq(Letters)]
      /\ \A k \in 1 .. Len(s) : /\ f[k] = f[k - 1] \o Becomes(s, R, k)
                                /\ g[k] = g[k - 1] \o Becomes(s, Q, k)
  BY RewrittenIs
<1>3. /\ o \in Nat /\ n \in Nat /\ Len(s) \in Nat /\ 2 <= o /\ o <= n /\ n + 1 <= Len(s)
      /\ o - 2 \in 0 .. Len(s) /\ o - 1 \in 1 .. Len(s) /\ o \in 1 .. Len(s)
      /\ n + 1 \in 1 .. Len(s) /\ (o - 1) - 1 = o - 2 /\ (n + 1) - 1 = n
      /\ o \in 0 .. Len(s) /\ n \in 0 .. Len(s)
  OBVIOUS
<1>4. \A k \in 0 .. o - 2 : g[k] = f[k]
  <2> TAKE k \in 0 .. o - 2
  <2>1. \A j \in 1 .. k : Becomes(s, R, j) = Becomes(s, Q, j)
    <3> TAKE j \in 1 .. k
    <3>1. j \in 1 .. n /\ j # o /\ j # o - 1
      BY <1>3
    <3> QED
      BY <1>1, <3>1
  <2>2. k \in 0 .. Len(s)
    BY <1>3
  <2> QED
    BY <2>1, <2>2, SameSoFar
<1>5. GrowAlike(s, R, Q, o, n)
  <2>1. \A k \in o + 1 .. n : Becomes(s, R, k) = Becomes(s, Q, k)
    <3> TAKE k \in o + 1 .. n
    <3>1. k \in 1 .. n /\ k # o /\ k # o - 1
      BY <1>3
    <3> QED
      BY <1>1, <3>1
  <2> QED
    BY <1>3, <2>1, Between
<1>6. PICK mid \in Seq(Letters) : f[n] = f[o] \o mid /\ g[n] = g[o] \o mid
  BY <1>5 DEF GrowAlike
<1> DEFINE x == f[o - 2]
<1>7. x \in Seq(Letters)
  BY <1>2, <1>3
<1>8. /\ f[o - 1] = f[(o - 1) - 1] \o <<"$">> /\ f[o] = f[o - 1] \o <<"(">>
      /\ g[o - 1] = g[(o - 1) - 1] \o << >> /\ g[o] = g[o - 1] \o <<"{">>
      /\ g[n + 1] = g[(n + 1) - 1] \o <<"}">>
  <2> HIDE DEF f, g
  <2> QED
    BY <1>1, <1>2, <1>3
<1>9. g[o - 2] = x
  <2>1. o - 2 \in 0 .. o - 2
    BY <1>3
  <2> QED
    BY <1>4, <2>1
<1> HIDE DEF x, f, g
<1>10. f[o - 1] = x \o <<"$">> /\ f[o] = (x \o <<"$">>) \o <<"(">>
  BY <1>3, <1>8, Zenon DEF x
<1>11. g[o] = x \o <<"{">> /\ g[n + 1] = g[n] \o <<"}">>
  <2>1. x \o << >> = x
    BY <1>7, ConcatEmptySeq
  <2> QED
    BY <1>3, <1>8, <1>9, <2>1, Zenon
<1>12. So(s, n) = f /\ So(s, n + 1) = g
  BY DEF So, f, g, R, Q
<1>13. /\ f[n] = ((x \o <<"$">>) \o <<"(">>) \o mid
       /\ g[n] = (x \o <<"{">>) \o mid
  BY <1>6, <1>10, <1>11, Zenon
<1> QED
  BY <1>4, <1>7, <1>10, <1>11, <1>12, <1>13, Zenon

---------------------------------------------------------------------------
(* The algebra of texts, with names for its operators.                     *)

Words == Seq(Letters)
Join(x, y) == x \o y
Size(x) == Len(x)
One(c) == <<c>>
Cut(x, k, n, c) == Replace(x, k, n, c)

LEMMA TextLaws ==
  /\ \A x \in Words : Size(x) \in Nat
  /\ \A x, y \in Words : Join(x, y) \in Words /\ Size(Join(x, y)) = Size(x) + Size(y)
  /\ \A x, y, z \in Words : Join(Join(x, y), z) = Join(x, Join(y, z))
  /\ \A c \in Letters : One(c) \in Words /\ Size(One(c)) = 1
<1>1. \A x \in Words : Size(x) \in Nat
  BY DEF Words, Size
<1>2. \A x, y \in Words : Join(x, y) \in Words /\ Size(Join(x, y)) = Size(x) + Size(y)
  BY Joins DEF Words, Size, Join
<1>3. \A x, y, z \in Words : Join(Join(x, y), z) = Join(x, Join(y, z))
  BY Joins3, Zenon DEF Words, Join
<1>4. \A c \in Letters : One(c) \in Words /\ Size(One(c)) = 1
  BY OneLetter DEF Words, One, Size
<1> QED
  BY <1>1, <1>2, <1>3, <1>4, Zenon

\* A part in the middle gives way to one character.
LEMMA Cuts ==
  ASSUME NEW x \in Words, NEW y \in Words, NEW z \in Words, NEW c \in Letters,
         Size(y) > 0
  PROVE  Cut(Join(x, Join(y, z)), Size(x), Size(y), c) = Join(x, Join(One(c), z))
<1> DEFINE yz == y \o z
           all == x \o yz
<1>1. x \in Seq(Letters) /\ y \in Seq(Letters) /\ z \in Seq(Letters) /\ Len(y) > 0
  BY DEF Words, Size
<1>2. yz \in Seq(Letters) /\ Len(yz) = Len(y) + Len(z)
  BY <1>1, Joins
<1>3. all = (x \o y) \o z
  BY <1>1, Joins3, Zenon
<1>4. x \o y \in Seq(Letters) /\ Len(x \o y) = Len(x) + Len(y)
  BY <1>1, Joins
<1> HIDE DEF yz
<1>5. SubSeq(all, 1, Len(x)) = x /\ Len(all) = Len(x) + Len(yz)
  BY <1>1, <1>2, BothParts, ConcatProperties
<1>6. SubSeq(all, Len(x) + Len(y) + 1, Len(all)) = z
  BY <1>1, <1>3, <1>4, BothParts
<1> HIDE DEF all
<1>7. ~(Len(x) >= Len(all))
  BY <1>1, <1>2, <1>5
<1>8. Replace(all, Len(x), Len(y), c) = (x \o <<c>>) \o z
  BY <1>5, <1>6, <1>7, Zenon DEF Replace
<1>9. (x \o <<c>>) \o z = x \o (<<c>> \o z)
  <2>1. <<c>> \in Seq(Letters)
    BY OneLetter
  <2> QED
    BY <1>1, <2>1, Joins3, ZenonT(60)
<1> QED
  BY <1>8, <1>9, Zenon DEF all, yz, Cut, Join, Size, One

\* Both replacements, in the text: ab becomes c, and z, to the right of it, e.
CutsTwice(x, mid, rest, a, b, z, c, e) ==
  LET before == Join(Join(Join(x, One(a)), One(b)), mid)
      after == Join(Join(x, One(c)), mid)
  IN  /\ Cut(Cut(Join(before, Join(One(z), rest)), Size(x), 2, c), Size(before) - 1, 1, e)
           = Join(Join(after, One(e)), rest)
      /\ Size(before) = Size(Join(after, One(e)))

LEMMA TwoCuts ==
  ASSUME NEW x \in Words, NEW mid \in Words, NEW rest \in Words,
         NEW a \in Letters, NEW b \in Letters, NEW z \in Letters,
         NEW c \in Letters, NEW e \in Letters
  PROVE  CutsTwice(x, mid, rest, a, b, z, c, e)
<1> DEFINE two == Join(One(a), One(b))
           t == Join(One(z), rest)
           before == Join(Join(Join(x, One(a)), One(b)), mid)
           after == Join(Join(x, One(c)), mid)
<1>1. /\ One(a) \in Words /\ One(b) \in Words /\ One(c) \in Words /\ One(z) \in Words
      /\ One(e) \in Words /\ Size(One(a)) = 1 /\ Size(One(b)) = 1 /\ Size(One(c)) = 1
      /\ Size(One(z)) = 1 /\ Size(One(e)) = 1
  BY TextLaws
<1>2. /\ two \in Words /\ Size(two) = 2 /\ t \in Words /\ Join(mid, t) \in Words
      /\ Join(x, One(c)) \in Words /\ Size(Join(x, One(c))) = Size(x) + 1
      /\ Join(x, two) \in Words /\ Size(Join(x, two)) = Size(x) + 2
      /\ Size(x) \in Nat /\ Size(mid) \in Nat
  <2>1. two \in Words /\ Size(two) = 2
    <3>1. two \in Words /\ Size(two) = Size(One(a)) + Size(One(b))
      BY <1>1, TextLaws, Zenon
    <3> QED
      BY <1>1, <3>1
  <2>2. t \in Words
    BY <1>1, TextLaws
  <2> HIDE DEF two, t
  <2>3. Join(mid, t) \in Words
    BY <2>2, TextLaws
  <2>4. Join(x, One(c)) \in Words /\ Size(Join(x, One(c))) = Size(x) + 1
    BY <1>1, TextLaws
  <2>5. Join(x, two) \in Words /\ Size(Join(x, two)) = Size(x) + 2
    BY <2>1, TextLaws
  <2>6. Size(x) \in Nat /\ Size(mid) \in Nat
    BY TextLaws
  <2> QED
    BY <2>1, <2>2, <2>3, <2>4, <2>5, <2>6
<1>3. before = Join(Join(x, two), mid)
  BY <1>1, TextLaws
<1>4. Join(before, t) = Join(x, Join(two, Join(mid, t)))
  BY <1>2, <1>3, TextLaws
<1>5. Join(after, t) = Join(x, Join(One(c), Join(mid, t)))
  BY <1>1, <1>2, TextLaws
<1>6. Cut(Join(before, t), Size(x), 2, c) = Join(after, t)
  <2>1. Size(two) > 0
    BY <1>2
  <2>2. Cut(Join(x, Join(two, Join(mid, t))), Size(x), Size(two), c)
          = Join(x, Join(One(c), Join(mid, t)))
    BY <1>2, <2>1, Cuts
  <2> QED
    BY <1>2, <1>4, <1>5, <2>2
<1>7. /\ after \in Words /\ Size(after) = Size(x) + 1 + Size(mid)
      /\ Size(before) = Size(x) + 2 + Size(mid)
  BY <1>2, <1>3, TextLaws
<1>8. Cut(Join(after, t), Size(after), 1, e) = Join(Join(after, One(e)), rest)
  <2>1. Size(One(z)) > 0
    BY <1>1
  <2> HIDE DEF after
  <2>2. Cut(Join(after, Join(One(z), rest)), Size(after), Size(One(z)), e)
          = Join(after, Join(One(e), rest))
    BY <1>1, <1>7, <2>1, Cuts
  <2> QED
    BY <1>1, <1>7, <2>2, TextLaws
<1>9. Size(Join(after, One(e))) = Size(after) + 1
  BY <1>1, <1>7, TextLaws
<1>10. Size(before) - 1 = Size(after) /\ Size(before) = Size(Join(after, One(e)))
  BY <1>2, <1>7, <1>9
<1> QED
  BY <1>6, <1>8, <1>10 DEF CutsTwice

\* The reference that a translation is about.
LEMMA TranslateClosing ==
  ASSUME PathInv, Translate, NEW n \in 0 .. Len(source), Rewrote(n),
         NEW stk \in [1 .. Len(open) -> 1 .. n], Stacked(n, stk)
  PROVE  /\ n < Len(source) /\ source[n + 1] = ")" /\ Len(open) > 0
         /\ \E o \in 2 .. n :
              /\ o = stk[Len(open)] /\ Unclosed(source, o, n) /\ source[o - 1] = "$"
              /\ <<o, n + 1>> \in References(source)
              /\ \A r \in References(source) : r[2] = n + 1 => r[1] = o
              /\ Peek(open) = Len(So(source, n)[o - 1])
<1> DEFINE m == Len(open)
           o == stk[m]
<1>1. /\ source \in Seq(PathChars) /\ n \in Nat /\ Len(source) \in Nat /\ PathTypeOK
      /\ i < Len(path) /\ At(path, i) = ")" /\ Prefixed /\ open \in Seq(Nat) /\ m \in Nat
  <2>1. i < Len(path) /\ At(path, i) = ")" /\ Prefixed /\ PathTypeOK
    BY Zenon DEF PathInv, Translate, Reads
  <2> QED
    BY <2>1 DEF PathTypeOK
<1>2. n < Len(source) /\ source[n + 1] = ")"
  BY <1>1, CurrentChar
<1>3. Peek(open) > 0 /\ At(path, Peek(open) - 1) = "$"
  BY <1>1 DEF Prefixed
<1>4. open # << >>
  <2>1. ~(-1 > 0)
    OBVIOUS
  <2> QED
    BY <1>3, <2>1, Zenon DEF Peek
<1>5. Peek(open) = open[m]
  BY <1>4, Zenon DEF Peek, Last
<1>6. m > 0 /\ m \in 1 .. m
  BY <1>1, <1>4
<1>7. o \in 1 .. n /\ Unclosed(source, o, n) /\ open[m] = Len(So(source, n)[o]) - 1
  BY <1>6 DEF Stacked
<1>8. /\ \A r \in References(source) : r[2] = n + 1 => r[1] = o
      /\ o > 1 /\ source[o - 1] = "$" => <<o, n + 1>> \in References(source)
  BY <1>1, <1>2, <1>6, Closing
<1> HIDE DEF m, o
<1>9. open[m] = Len(So(source, n)[o - 1]) /\ o > 1 /\ source[o - 1] = "$"
  <2>1. n <= Len(source)
    BY <1>1, <1>2
  <2>2. /\ Len(So(source, n)[o]) - 1 = Len(So(source, n)[o - 1])
        /\ Len(So(source, n)[o]) - 1 > 0 /\ At(path, Len(So(source, n)[o]) - 1 - 1) = "$"
             <=> o > 1 /\ source[o - 1] = "$"
    BY <1>1, <1>7, <2>1, TopAt
  <2> QED
    BY <1>3, <1>5, <1>7, <2>2
<1>10. o \in 2 .. n
  BY <1>1, <1>7, <1>9
<1> QED
  BY <1>2, <1>5, <1>6, <1>7, <1>8, <1>9, <1>10 DEF m, o

\* What a translation makes of the path, and where it leaves the cursor.
Translating(x, mid, rest) ==
  LET before == ((x \o <<"$">>) \o <<"(">>) \o mid
      after == ((x \o <<"{">>) \o mid) \o <<"}">>
  IN  /\ Replace(Replace(before \o (<<")">> \o rest), Len(x \o <<"$">>) - 1, 2, "{"),
                 Len(before) - 1, 1, "}")
           = after \o rest
      /\ Len(before) = Len(after)

LEMMA TranslatePath ==
  ASSUME NEW x \in Seq(Letters), NEW mid \in Seq(Letters), NEW rest \in Seq(Letters),
         "$" \in Letters, "(" \in Letters, ")" \in Letters
  PROVE  Translating(x, mid, rest)
<1>1. "{" \in Letters /\ "}" \in Letters
  BY DEF Letters
<1>2. x \in Words /\ mid \in Words /\ rest \in Words
  BY Zenon DEF Words
<1>3. CutsTwice(x, mid, rest, "$", "(", ")", "{", "}")
  BY <1>1, <1>2, TwoCuts
<1>4. Len(x \o <<"$">>) - 1 = Len(x)
  <2>1. Size(Join(x, One("$"))) = Size(x) + 1 /\ Size(x) \in Nat
    <3>1. One("$") \in Words /\ Size(One("$")) = 1
      BY TextLaws
    <3> QED
      BY <1>2, <3>1, TextLaws
  <2>2. Len(x \o <<"$">>) = Size(Join(x, One("$"))) /\ Len(x) = Size(x)
    BY Zenon DEF Size, Join, One
  <2> QED
    BY <2>1, <2>2
<1> QED
  BY <1>3, <1>4, Zenon DEF Translating, CutsTwice, Size, Join, One, Cut

NewPath == Replace(Replace(path, Peek(open) - 1, 2, "{"), i - 1, 1, "}")

LEMMA TranslateFollows ==
  ASSUME PathInv, Translate, NEW n \in 0 .. Len(source), Rewrote(n),
         NEW stk \in [1 .. Len(open) -> 1 .. n], Stacked(n, stk)
  PROVE  Followed'
<1>1. /\ source \in Seq(PathChars) /\ n \in Nat /\ Len(source) \in Nat
      /\ open' = Pop(open) /\ i' = i /\ source' = source
      /\ path' = NewPath
      /\ open \in Seq(Nat) /\ Len(open) \in Nat
  <2>1. /\ open' = Pop(open) /\ i' = i /\ source' = source /\ PathTypeOK
        /\ path' = NewPath
    BY Zenon DEF PathInv, Translate, NewPath
  <2>2. source \in Seq(PathChars) /\ open \in Seq(Nat)
    BY <2>1 DEF PathTypeOK
  <2> QED
    BY <2>1, <2>2
<1>2. n < Len(source) /\ source[n + 1] = ")" /\ Len(open) > 0
  BY TranslateClosing
<1>3. PICK o \in 2 .. n :
        /\ o = stk[Len(open)] /\ Unclosed(source, o, n) /\ source[o - 1] = "$"
        /\ <<o, n + 1>> \in References(source)
        /\ \A r \in References(source) : r[2] = n + 1 => r[1] = o
        /\ Peek(open) = Len(So(source, n)[o - 1])
  BY TranslateClosing
<1>4. PICK x \in Seq(Letters), mid \in Seq(Letters) :
        /\ So(source, n)[o - 1] = x \o <<"$">>
        /\ So(source, n)[n] = ((x \o <<"$">>) \o <<"(">>) \o mid
        /\ So(source, n + 1)[n] = (x \o <<"{">>) \o mid
        /\ So(source, n + 1)[n + 1] = So(source, n + 1)[n] \o <<"}">>
        /\ \A k \in 0 .. o - 2 : So(source, n + 1)[k] = So(source, n)[k]
  BY <1>1, <1>2, <1>3, OneMoreText
<1> DEFINE rest == SubSeq(source, n + 2, Len(source))
<1>5. SubSeq(source, n + 1, Len(source)) = <<")">> \o rest /\ rest \in Seq(Letters)
  <2>1. SubSeq(source, n + 1, Len(source)) = <<source[n + 1]>> \o rest
    BY <1>1, <1>2, Rests, SMTT(30)
  <2>2. n + 1 \in Nat /\ n + 1 <= Len(source) /\ (n + 1) + 1 = n + 2
    BY <1>1, <1>2
  <2>3. SubSeq(source, (n + 1) + 1, Len(source)) \in Seq(Letters)
    BY <1>1, <2>2, Rests
  <2> QED
    BY <1>2, <2>1, <2>2, <2>3
<1>6. "$" \in Letters /\ "(" \in Letters /\ ")" \in Letters
  <2>1. source[o - 1] = "$" /\ source[o] = "(" /\ source[n + 1] = ")"
    BY <1>2, <1>3 DEF Unclosed
  <2>2. o - 1 \in 1 .. Len(source) /\ o \in 1 .. Len(source) /\ n + 1 \in 1 .. Len(source)
    BY <1>1, <1>2
  <2>3. \A k \in 1 .. Len(source) : source[k] \in Letters
    BY <1>1, ElementOfSeq DEF Letters
  <2> QED
    BY <2>1, <2>2, <2>3
<1> HIDE DEF rest
<1>7. path = (((x \o <<"$">>) \o <<"(">>) \o mid) \o (<<")">> \o rest)
  BY <1>4, <1>5, Zenon DEF Rewrote
<1>8. i = Len(((x \o <<"$">>) \o <<"(">>) \o mid)
  BY <1>4, Zenon DEF Rewrote
<1>9. /\ path' = (((x \o <<"{">>) \o mid) \o <<"}">>) \o rest
      /\ i' = Len(((x \o <<"{">>) \o mid) \o <<"}">>)
  <2>1. Peek(open) = Len(x \o <<"$">>)
    BY <1>3, <1>4, Zenon
  <2>2. Translating(x, mid, rest)
    BY <1>5, <1>6, TranslatePath
  <2> QED
    BY <1>1, <1>7, <1>8, <2>1, <2>2, Zenon DEF Translating, NewPath
<1>10. So(source, n + 1)[n + 1] = ((x \o <<"{">>) \o mid) \o <<"}">>
  BY <1>4, Zenon
<1>11. Rewrote(n + 1)' /\ n + 1 \in 0 .. Len(source')
  <2>1. rest = SubSeq(source, (n + 1) + 1, Len(source))
    <3>1. (n + 1) + 1 = n + 2
      OBVIOUS
    <3> QED
      BY <3>1 DEF rest
  <2>2. Rewrote(n + 1)'
    BY <1>1, <1>9, <1>10, <2>1, Zenon DEF Rewrote
  <2> QED
    BY <1>1, <1>2, <2>2
<1>12. \A j \in 1 .. Len(open) - 1 : So(source, n + 1)[stk[j]] = So(source, n)[stk[j]]
  <2> TAKE j \in 1 .. Len(open) - 1
  <2>1. j \in 1 .. Len(open) /\ Len(open) \in 1 .. Len(open) /\ j < Len(open)
    BY <1>1
  <2>2. stk[j] < o /\ stk[j] \in 1 .. n /\ source[stk[j]] = "("
    BY <1>3, <2>1 DEF Stacked, Unclosed
  <2>3. stk[j] # o - 1
    BY <1>3, <2>2
  <2>4. stk[j] \in 0 .. o - 2
    BY <2>2, <2>3
  <2> QED
    BY <1>4, <2>4
<1>13. \E st \in [1 .. Len(open') -> 1 .. n + 1] : Stacked(n + 1, st)'
  BY <1>1, <1>2, <1>12, PoppedStack
<1> QED
  BY <1>11, <1>13 DEF Followed

---------------------------------------------------------------------------
(* The whole loop.                                                         *)

\* At the start nothing is read and nothing is open.
LEMMA FollowsAtFirst == PathInit => Followed
<1> SUFFICES ASSUME PathInit PROVE Followed
  OBVIOUS
<1>1. /\ source \in Seq(PathChars) /\ path = source /\ i = 0 /\ open = << >>
      /\ Len(source) \in Nat
  BY PathAssumption DEF PathInit, PathBegin
<1>2. So(source, 0)[0] = << >>
  BY <1>1, RewrittenIs DEF So
<1>3. SubSeq(source, 0 + 1, Len(source)) = source
  <2>1. SubSeq(source, 1, Len(source)) = source
    BY <1>1
  <2> QED
    BY <2>1
<1>4. Rewrote(0)
  <2>1. << >> \o source = source
    BY <1>1, ConcatEmptySeq
  <2>2. Len(<< >>) = 0
    OBVIOUS
  <2> QED
    BY <1>1, <1>2, <1>3, <2>1, <2>2, Zenon DEF Rewrote
<1>5. 0 \in 0 .. Len(source)
  BY <1>1
<1>6. \E stk \in [1 .. Len(open) -> 1 .. 0] : Stacked(0, stk)
  <2>1. 1 .. Len(open) = {} /\ 1 .. 0 = {}
    BY <1>1
  <2>2. PICK stk : stk = [j \in {} |-> 0]
    OBVIOUS
  <2>3. stk \in [1 .. Len(open) -> 1 .. 0]
    BY <2>1, <2>2
  <2>4. Stacked(0, stk)
    BY <2>1, Zenon DEF Stacked
  <2> QED
    BY <2>3, <2>4
<1> QED
  BY <1>4, <1>5, <1>6 DEF Followed

LEMMA StepFollows == PathInv /\ Followed /\ [PathNext]_pathVars => Followed'
<1> SUFFICES ASSUME PathInv, Followed, [PathNext]_pathVars PROVE Followed'
  OBVIOUS
<1>1. PICK n \in 0 .. Len(source) :
        Rewrote(n) /\ \E stk \in [1 .. Len(open) -> 1 .. n] : Stacked(n, stk)
  BY DEF Followed
<1>2. PICK stk \in [1 .. Len(open) -> 1 .. n] : Stacked(n, stk)
  BY <1>1
<1>3. CASE Push
  BY <1>1, <1>2, <1>3, PushFollows
<1>4. CASE Translate
  BY <1>1, <1>2, <1>4, TranslateFollows
<1>5. CASE Close
  BY <1>1, <1>2, <1>5, CloseFollows
<1>6. CASE Pass
  BY <1>1, <1>2, <1>6, PassFollows
<1>7. CASE UNCHANGED pathVars
  <2>1. source' = source /\ path' = path /\ i' = i /\ open' = open
    BY <1>7 DEF pathVars
  <2> QED
    BY <2>1, ZenonT(60) DEF Followed, Rewrote, Stacked
<1> QED
  BY <1>3, <1>4, <1>5, <1>6, <1>7 DEF PathNext

\* In the end each $(...) of the expression has become {...}, nested or not,
\* and nothing else has changed (ToK8sJSONPath).
THEOREM Translates == PathSpec => []TranslatesReferences
<1>1. PathInv /\ Followed => TranslatesReferences
  <2> SUFFICES ASSUME PathInv, Followed, i = Len(path) PROVE path = Translated(source)
    BY DEF TranslatesReferences
  <2>1. PICK n \in 0 .. Len(source) : Rewrote(n)
    BY DEF Followed
  <2>2. /\ PathTypeOK /\ source \in Seq(PathChars) /\ Len(source) \in Nat
        /\ i \in Nat /\ Len(path) \in Nat
    BY DEF PathInv, PathTypeOK
  <2>3. n = Len(source) /\ So(source, n)[n] \in Seq(Letters)
    <3>1. i < Len(path) <=> n < Len(source)
      BY <2>1, <2>2, CurrentChar
    <3>2. So(source, n)[n] \in Seq(Letters)
      BY <2>1, <2>2, CurrentChar
    <3> QED
      BY <2>1, <2>2, <3>1, <3>2
  <2>4. Closed(source, Len(source)) = References(source)
    <3>1. \A r \in References(source) : r[2] \in 2 .. Len(source)
      BY DEF References
    <3>2. \A r \in References(source) : r[2] <= Len(source)
      BY <2>2, <3>1
    <3> QED
      BY <3>2, Zenon DEF Closed
  <2>5. path = So(source, n)[n]
    <3> DEFINE f == So(source, n)[n]
    <3>1. SubSeq(source, n + 1, Len(source)) = << >>
      BY <2>2, <2>3
    <3>2. path = f \o << >>
      BY <2>1, <3>1, Zenon DEF Rewrote
    <3>3. f \in Seq(Letters)
      BY <2>3
    <3> HIDE DEF f
    <3>4. f \o << >> = f
      BY <3>3, ConcatEmptySeq
    <3> QED
      BY <3>2, <3>4, Zenon DEF f
  <2> QED
    BY <2>3, <2>4, <2>5, Zenon DEF So, Translated
<1>2. PathSpec => []Followed
  BY PathInvariant, FollowsAtFirst, StepFollows, PTL DEF PathSpec
<1> QED
  BY <1>1, <1>2, PathInvariant, PTL

---------------------------------------------------------------------------
(* Expansion.                                                              *)

LEMMA Associates ==
  ASSUME NEW a \in Seq(Bytes), NEW b \in Seq(Bytes), NEW c \in Seq(Bytes)
  PROVE  (a \o b) \o c = a \o (b \o c)
OBVIOUS

\* What is read after an operator is there to be read.
LEMMA ReadWithin ==
  ASSUME NEW rest \in Seq(Bytes), rest # << >>
  PROVE  TryRead(rest).advance \in 0 .. Len(rest)
<1> DEFINE closers == {k \in 1 .. Len(rest) - 1 : rest[k + 1] = ")"}
           closer == CHOOSE k \in closers : \A l \in closers : k <= l
<1>1. Len(rest) \in Nat /\ Len(rest) > 0
  OBVIOUS
<1>2. CASE rest[1] = "$"
  BY <1>1, <1>2 DEF TryRead
<1>3. CASE rest[1] = "(" /\ closers # {}
  <2>1. \E k \in closers : \A l \in closers : k <= l
    <3>1. closers \in SUBSET Nat
      OBVIOUS
    <3> HIDE DEF closers
    <3> QED
      BY <1>3, <3>1, LeastNumber
  <2>2. closer \in closers
    BY <2>1
  <2>3. closer + 1 \in 0 .. Len(rest)
    BY <1>1, <2>2, SMTT(30)
  <2> HIDE DEF closers, closer
  <2>4. TryRead(rest).advance = closer + 1
    BY <1>3 DEF TryRead, closers, closer
  <2> QED
    BY <2>3, <2>4
<1>4. CASE rest[1] # "$" /\ ~(rest[1] = "(" /\ closers # {})
  BY <1>1, <1>4 DEF TryRead
<1> QED
  BY <1>2, <1>3, <1>4

LEMMA SubstituteWithin ==
  ASSUME ExpandTypeOK, Substitute
  PROVE  ExpandTypeOK'
<1> DEFINE rest == Slice(input, cursor + 1, Len(input))
           n == TryRead(rest).advance
<1>1. input \in Seq(Bytes) /\ Len(input) \in Nat /\ cursor \in Nat /\ cursor + 1 < Len(input)
  BY DEF ExpandTypeOK, Substitute, AtOperator
<1>2. rest \in Seq(Bytes) /\ Len(rest) = Len(input) - (cursor + 1) /\ rest # << >>
  <2>1. \A k \in cursor + 2 .. Len(input) : input[k] \in Bytes
    BY <1>1, ElementOfSeq
  <2>2. rest = SubSeq(input, cursor + 2, Len(input))
    BY <1>1 DEF Slice
  <2> HIDE DEF rest
  <2>3. rest \in Seq(Bytes) /\ Len(rest) = Len(input) - (cursor + 1)
    BY <1>1, <2>1, <2>2, SubSeqProperties
  <2> QED
    BY <1>1, <2>3
<1>3. n \in 0 .. Len(rest)
  BY <1>2, ReadWithin
<1>4. cursor' = cursor + n + 1 /\ checkpoint' = cursor + n + 1 /\ input' = input
  BY DEF Substitute
<1> HIDE DEF n, rest
<1> QED
  BY <1>1, <1>2, <1>3, <1>4 DEF ExpandTypeOK

\* Every slice of Expand is one of its input, and the checkpoint never
\* passes the cursor: no input makes it panic.
THEOREM SlicesWithin == ExpandSpec => []ExpandTypeOK
<1>1. ExpandInit => ExpandTypeOK
  BY ExpansionAssumption DEF ExpandInit, ExpandBegin, ExpandTypeOK
<1>2. ASSUME ExpandTypeOK, [ExpandNext]_expandVars PROVE ExpandTypeOK'
  <2>1. CASE Copy
    BY <1>2, <2>1 DEF Copy, ExpandTypeOK
  <2>2. CASE Substitute
    BY <1>2, <2>2, SubstituteWithin
  <2>3. CASE Return
    BY <1>2, <2>3 DEF Return, ExpandTypeOK
  <2>4. CASE UNCHANGED expandVars
    BY <1>2, <2>4 DEF expandVars, ExpandTypeOK
  <2> QED
    BY <1>2, <2>1, <2>2, <2>3, <2>4 DEF ExpandNext
<1> QED
  BY <1>1, <1>2, PTL DEF ExpandSpec

---------------------------------------------------------------------------
(* What Expand returns.  Meaning is a recursive function, so what it gives *)
(* at a byte is known once its equations are shown to have one solution;   *)
(* the loop then keeps what it has built, the bytes since the checkpoint   *)
(* and the meaning of the rest equal to the meaning of the whole.          *)

\* What Meaning is built from.
Closers(s, k) == {l \in k .. Len(s) : s[l] = ")"}
Closer(s, k) == CHOOSE l \in Closers(s, k) : \A m \in Closers(s, k) : l <= m

\* The meaning of s from its k-th byte on, given that of what comes after.
MeantFrom(s, from, k) ==
  IF k > Len(s) THEN << >>
  ELSE IF k < Len(s) /\ s[k] = "$" /\ s[k + 1] = "$"
  THEN <<"$">> \o from[k + 2]
  ELSE IF k < Len(s) /\ s[k] = "$" /\ s[k + 1] = "(" /\ Closers(s, k) # {}
  THEN Mapping(SubSeq(s, k + 2, Closer(s, k) - 1)) \o from[Closer(s, k) + 1]
  ELSE <<s[k]>> \o from[k + 1]

\* from[k] is the meaning from the k-th byte on.
Solves(s, from) ==
  /\ from \in [1 .. Len(s) + 1 -> Seq(Bytes)]
  /\ \A k \in 1 .. Len(s) + 1 : from[k] = MeantFrom(s, from, k)

LEMMA MappingTyped ==
  ASSUME NEW name \in Seq(Bytes)
  PROVE  Mapping(name) \in Seq(Bytes)
<1> DEFINE having == {c \in DOMAIN Contexts : name \in DOMAIN Contexts[c]}
<1>1. Variable(name) \in Seq(Bytes)
  BY ExpansionAssumption DEF Variable
<1>2. CASE having # {}
  <2>1. having \in SUBSET Nat
    BY ExpansionAssumption
  <2>2. \E c \in having : \A d \in having : c <= d
    <3> HIDE DEF having
    <3> QED
      BY <1>2, <2>1, LeastNumber
  <2>3. (CHOOSE c \in having : \A d \in having : c <= d) \in having
    BY <2>2
  <2> QED
    BY <1>2, <2>3, ExpansionAssumption DEF Mapping
<1> QED
  BY <1>1, <1>2 DEF Mapping

LEMMA CloserIs ==
  ASSUME NEW s \in Seq(Bytes), NEW k \in Nat \ {0}, Closers(s, k) # {}
  PROVE  /\ Closer(s, k) \in Closers(s, k)
         /\ \A l \in Closers(s, k) : Closer(s, k) <= l
<1>1. \E l \in Closers(s, k) : \A m \in Closers(s, k) : l <= m
  <2>1. Closers(s, k) \in SUBSET Nat
    BY DEF Closers
  <2> QED
    BY <2>1, LeastNumber
<1> QED
  BY <1>1 DEF Closer

\* A sequence put together from its end on: its part k, then what is built
\* from the part after it.
Part(n, piece, next, f, k) == IF k > n THEN << >> ELSE piece[k] \o f[next[k]]

\* There is a function that does so: one more part at a time ...
LEMMA PartsSolve ==
  ASSUME NEW n \in Nat, NEW piece, NEW next,
         \A k \in 1 .. n : piece[k] \in Seq(Bytes) /\ next[k] \in k + 1 .. n + 1
  PROVE  \E f : f = [k \in 1 .. n + 1 |-> Part(n, piece, next, f, k)]
<1> DEFINE D == 1 .. n + 1
           Upto(m, f) == \A k \in D : k >= m => f[k] = Part(n, piece, next, f, k)
           S == {m \in D : \E f \in [D -> Seq(Bytes)] : Upto(m, f)}
<1>1. n + 1 \in S
  <2> DEFINE f == [k \in D |-> << >>]
  <2>1. f \in [D -> Seq(Bytes)] /\ n + 1 \in D
    OBVIOUS
  <2>2. \A k \in D : k >= n + 1 => k > n
    OBVIOUS
  <2>3. Upto(n + 1, f)
    BY <2>2 DEF Part
  <2> QED
    BY <2>1, <2>3
<1>2. PICK m \in S : \A l \in S : m <= l
  <2>1. S \in SUBSET Nat
    OBVIOUS
  <2> HIDE DEF S
  <2> QED
    BY <1>1, <2>1, LeastNumber
<1>3. PICK f \in [D -> Seq(Bytes)] : Upto(m, f)
  OBVIOUS
<1>4. m = 1
  <2> SUFFICES ASSUME m # 1 PROVE FALSE
    OBVIOUS
  <2>1. m - 1 \in 1 .. n /\ m - 1 \in D /\ m \in D /\ ~(m <= m - 1) /\ ~(m - 1 > n)
    OBVIOUS
  <2> DEFINE v == Part(n, piece, next, f, m - 1)
             g == [f EXCEPT ![m - 1] = v]
  <2>2. v \in Seq(Bytes)
    <3>1. piece[m - 1] \in Seq(Bytes) /\ next[m - 1] \in D
      BY <2>1
    <3>2. f[next[m - 1]] \in Seq(Bytes)
      BY <3>1
    <3> QED
      BY <2>1, <3>1, <3>2, ConcatProperties DEF Part
  <2> HIDE DEF v
  <2>3. g \in [D -> Seq(Bytes)] /\ g[m - 1] = v /\ \A k \in D : k # m - 1 => g[k] = f[k]
    BY <2>1, <2>2
  <2> HIDE DEF g
  <2>4. ASSUME NEW k \in D, k >= m - 1 PROVE g[k] = Part(n, piece, next, g, k)
    <3>1. Part(n, piece, next, f, k) = Part(n, piece, next, g, k)
      <4>1. CASE k > n
        BY <4>1 DEF Part
      <4>2. CASE ~(k > n)
        <5>1. k \in 1 .. n
          BY <4>2
        <5>2. next[k] \in k + 1 .. n + 1
          BY <5>1
        <5>3. next[k] \in D /\ next[k] # m - 1
          BY <2>1, <2>4, <5>1, <5>2
        <5> QED
          BY <2>3, <5>3 DEF Part
      <4> QED
        BY <4>1, <4>2
    <3>2. k # m - 1 => k >= m
      BY <2>1, <2>4
    <3> QED
      BY <1>3, <2>3, <3>1, <3>2 DEF v
  <2>5. m - 1 \in S
    BY <2>1, <2>3, <2>4
  <2> QED
    BY <1>2, <2>1, <2>5
<1>5. \A k \in D : f[k] = Part(n, piece, next, f, k)
  BY <1>3, <1>4
<1>6. f = [k \in D |-> f[k]]
  OBVIOUS
<1> QED
  BY <1>5, <1>6

\* ... and it gives sequences.
LEMMA PartsTyped ==
  ASSUME NEW n \in Nat, NEW piece, NEW next,
         \A k \in 1 .. n : piece[k] \in Seq(Bytes) /\ next[k] \in k + 1 .. n + 1,
         NEW f, f = [k \in 1 .. n + 1 |-> Part(n, piece, next, f, k)]
  PROVE  f \in [1 .. n + 1 -> Seq(Bytes)]
<1> DEFINE D == 1 .. n + 1
           S == {m \in D : \A k \in D : k >= m => f[k] \in Seq(Bytes)}
<1>1. \A k \in D : f[k] = Part(n, piece, next, f, k)
  OBVIOUS
<1>2. n + 1 \in S
  <2>1. n + 1 \in D /\ n + 1 > n /\ << >> \in Seq(Bytes)
    OBVIOUS
  <2>2. f[n + 1] = << >>
    BY <1>1, <2>1 DEF Part
  <2>3. \A k \in D : k >= n + 1 => k = n + 1
    OBVIOUS
  <2> QED
    BY <2>1, <2>2, <2>3
<1>3. PICK m \in S : \A l \in S : m <= l
  <2>1. S \in SUBSET Nat
    OBVIOUS
  <2> HIDE DEF S
  <2> QED
    BY <1>2, <2>1, LeastNumber
<1>4. m = 1
  <2> SUFFICES ASSUME m # 1 PROVE FALSE
    OBVIOUS
  <2>1. m - 1 \in 1 .. n /\ m - 1 \in D /\ m \in D /\ ~(m <= m - 1) /\ ~(m - 1 > n)
    OBVIOUS
  <2>2. piece[m - 1] \in Seq(Bytes) /\ next[m - 1] \in D /\ next[m - 1] >= m
    BY <2>1
  <2>3. f[next[m - 1]] \in Seq(Bytes)
    BY <2>2
  <2>4. f[m - 1] \in Seq(Bytes)
    <3>1. f[m - 1] = piece[m - 1] \o f[next[m - 1]]
      BY <1>1, <2>1 DEF Part
    <3> QED
      BY <2>2, <2>3, <3>1, ConcatProperties, ZenonT(60)
  <2>5. \A k \in D : k >= m - 1 => k = m - 1 \/ k >= m
    BY <2>1
  <2>6. m - 1 \in S
    BY <2>1, <2>4, <2>5
  <2> QED
    BY <1>3, <2>1, <2>6
<1>5. \A k \in D : f[k] \in Seq(Bytes)
  BY <1>4
<1> QED
  BY <1>5

\* Meaning is put together in this way.
MeantPiece(s, k) ==
  IF k < Len(s) /\ s[k] = "$" /\ s[k + 1] = "$" THEN <<"$">>
  ELSE IF k < Len(s) /\ s[k] = "$" /\ s[k + 1] = "(" /\ Closers(s, k) # {}
  THEN Mapping(SubSeq(s, k + 2, Closer(s, k) - 1))
  ELSE <<s[k]>>
MeantNext(s, k) ==
  IF k < Len(s) /\ s[k] = "$" /\ s[k + 1] = "$" THEN k + 2
  ELSE IF k < Len(s) /\ s[k] = "$" /\ s[k + 1] = "(" /\ Closers(s, k) # {}
  THEN Closer(s, k) + 1
  ELSE k + 1

LEMMA MeantParts ==
  ASSUME NEW s \in Seq(Bytes), NEW k \in 1 .. Len(s)
  PROVE  MeantPiece(s, k) \in Seq(Bytes) /\ MeantNext(s, k) \in k + 1 .. Len(s) + 1
<1>1. Len(s) \in Nat /\ k \in Nat \ {0} /\ k <= Len(s)
  OBVIOUS
<1>2. <<s[k]>> \in Seq(Bytes) /\ <<"$">> \in Seq(Bytes)
  <2>1. s[k] \in Bytes /\ "$" \in Bytes
    BY ElementOfSeq, ExpansionAssumption
  <2> QED
    BY <2>1
<1>3. ASSUME Closers(s, k) # {}
      PROVE  /\ Closer(s, k) + 1 \in k + 1 .. Len(s) + 1
             /\ Mapping(SubSeq(s, k + 2, Closer(s, k) - 1)) \in Seq(Bytes)
  <2>1. Closer(s, k) \in k .. Len(s)
    BY <1>1, <1>3, CloserIs DEF Closers
  <2>2. SubSeq(s, k + 2, Closer(s, k) - 1) \in Seq(Bytes)
    BY <1>1, <2>1, SubSeqProperties, ElementOfSeq
  <2>3. Mapping(SubSeq(s, k + 2, Closer(s, k) - 1)) \in Seq(Bytes)
    BY <2>2, MappingTyped
  <2>4. Closer(s, k) + 1 \in k + 1 .. Len(s) + 1
    BY <1>1, <2>1
  <2> QED
    BY <2>3, <2>4
<1> QED
  BY <1>1, <1>2, <1>3 DEF MeantPiece, MeantNext

LEMMA MeaningSolves ==
  ASSUME NEW s \in Seq(Bytes)
  PROVE  \E from : Solves(s, from) /\ Meaning(s) = from[1]
<1> DEFINE n == Len(s)
           D == 1 .. n + 1
           piece == [k \in 1 .. n |-> MeantPiece(s, k)]
           next == [k \in 1 .. n |-> MeantNext(s, k)]
           from == CHOOSE f : f = [k \in D |-> MeantFrom(s, f, k)]
<1>1. n \in Nat /\ \A k \in 1 .. n : piece[k] \in Seq(Bytes) /\ next[k] \in k + 1 .. n + 1
  BY MeantParts
<1>2. \A f : \A k \in D : MeantFrom(s, f, k) = Part(n, piece, next, f, k)
  <2>1. \A k \in D : ~(k > n) => k \in 1 .. n
    OBVIOUS
  <2> QED
    BY <2>1 DEF MeantFrom, Part, MeantPiece, MeantNext
<1>3. Meaning(s) = from[1]
  BY DEF Meaning, MeantFrom, Closer, Closers
<1> HIDE DEF piece, next
<1>4. from = [k \in D |-> MeantFrom(s, from, k)]
  <2>1. PICK g : g = [k \in D |-> Part(n, piece, next, g, k)]
    BY <1>1, PartsSolve
  <2>2. [k \in D |-> Part(n, piece, next, g, k)] = [k \in D |-> MeantFrom(s, g, k)]
    BY <1>2
  <2>3. g = [k \in D |-> MeantFrom(s, g, k)]
    BY <2>1, <2>2
  <2> QED
    BY <2>3
<1> HIDE DEF from
<1>5. \A k \in D : from[k] = MeantFrom(s, from, k)
  BY <1>4
<1>6. from = [k \in D |-> Part(n, piece, next, from, k)]
  BY <1>2, <1>4
<1>7. from \in [D -> Seq(Bytes)]
  BY <1>1, <1>6, PartsTyped, ZenonT(60)
<1> QED
  BY <1>3, <1>5, <1>7 DEF Solves

\* The rest of the text after an operator, and the bracket that closes a name.
LEMMA RestIs ==
  ASSUME NEW s \in Seq(Bytes), NEW k \in 1 .. Len(s) - 1
  PROVE  LET rest == Slice(s, k, Len(s)) IN
           /\ rest \in Seq(Bytes) /\ Len(rest) = Len(s) - k /\ rest # << >>
           /\ \A h \in 1 .. Len(s) - k : rest[h] = s[k + h]
           /\ \A h \in 1 .. Len(s) - k - 1 : rest[h + 1] = s[k + h + 1]
<1>1. Len(s) \in Nat /\ k \in Nat /\ k < Len(s)
  OBVIOUS
<1>2. \A h \in k + 1 .. Len(s) : s[h] \in Bytes
  BY <1>1, ElementOfSeq
<1> DEFINE rest == SubSeq(s, k + 1, Len(s))
<1>3. /\ rest \in Seq(Bytes)
      /\ Len(rest) = IF k + 1 <= Len(s) THEN Len(s) - (k + 1) + 1 ELSE 0
      /\ \A h \in 1 .. Len(s) - (k + 1) + 1 : rest[h] = s[k + 1 + h - 1]
  BY <1>1, <1>2, SubSeqProperties
<1> HIDE DEF rest
<1>4. Len(rest) = Len(s) - k /\ rest # << >>
  BY <1>1, <1>3
<1>5. \A h \in 1 .. Len(s) - k : rest[h] = s[k + h]
  BY <1>1, <1>3
<1>6. ASSUME NEW h \in 1 .. Len(s) - k - 1
      PROVE  rest[h + 1] = s[k + h + 1]
  <2>1. h + 1 \in 1 .. Len(s) - k /\ k + (h + 1) = k + h + 1
    BY <1>1
  <2> QED
    BY <1>5, <2>1
<1> QED
  BY <1>3, <1>4, <1>5, <1>6 DEF Slice, rest

LEMMA SameCloser ==
  ASSUME NEW s \in Seq(Bytes), NEW k \in 1 .. Len(s) - 1, s[k] = "$", s[k + 1] = "(",
         NEW closers, closers = {h \in 1 .. Len(s) - k - 1 : s[k + h + 1] = ")"}
  PROVE  /\ \A c \in closers : k + c + 1 \in Closers(s, k)
         /\ \A m \in Closers(s, k) : m \in Nat /\ m - k - 1 \in closers
<1>1. Len(s) \in Nat /\ k \in Nat \ {0} /\ k < Len(s)
  OBVIOUS
<1>2. \A c \in closers : k + c + 1 \in Closers(s, k)
  BY <1>1 DEF Closers
<1>3. ASSUME NEW m \in Closers(s, k)
      PROVE  m \in Nat /\ m - k - 1 \in closers
  <2>1. m \in k .. Len(s) /\ s[m] = ")" /\ m # k /\ m # k + 1
    BY DEF Closers
  <2>2. m - k - 1 \in 1 .. Len(s) - k - 1 /\ k + (m - k - 1) + 1 = m
    BY <1>1, <2>1
  <2> QED
    BY <2>1, <2>2
<1> QED
  BY <1>2, <1>3

LEMMA TwoBytes ==
  ASSUME NEW a \in Bytes, NEW b \in Bytes
  PROVE  <<a>> \o <<b>> = <<a, b>>
<1>1. /\ <<a>> \in Seq(Bytes) /\ Len(<<a>>) = 1 /\ <<a>>[1] = a
      /\ <<b>> \in Seq(Bytes) /\ Len(<<b>>) = 1 /\ <<b>>[1] = b
      /\ <<a, b>> \in Seq(Bytes) /\ Len(<<a, b>>) = 2 /\ <<a, b>>[1] = a /\ <<a, b>>[2] = b
  OBVIOUS
<1> DEFINE l == <<a>>
           r == <<b>>
           lr == <<a, b>>
<1> HIDE DEF l, r, lr
<1>2. /\ l \in Seq(Bytes) /\ Len(l) = 1 /\ l[1] = a
      /\ r \in Seq(Bytes) /\ Len(r) = 1 /\ r[1] = b
      /\ lr \in Seq(Bytes) /\ Len(lr) = 2 /\ lr[1] = a /\ lr[2] = b
  BY <1>1 DEF l, r, lr
<1>3. /\ l \o r \in Seq(Bytes) /\ Len(l \o r) = 2
      /\ \A h \in 1 .. 2 : (l \o r)[h] = IF h <= 1 THEN l[h] ELSE r[h - 1]
  <2>1. /\ l \o r \in Seq(Bytes) /\ Len(l \o r) = Len(l) + Len(r)
        /\ \A h \in 1 .. Len(l) + Len(r) :
             (l \o r)[h] = IF h <= Len(l) THEN l[h] ELSE r[h - Len(l)]
    BY <1>2, ConcatProperties
  <2> QED
    BY <1>2, <2>1
<1>4. (l \o r)[1] = a /\ (l \o r)[2] = b
  BY <1>2, <1>3
<1>5. \A h \in 1 .. Len(l \o r) : (l \o r)[h] = lr[h]
  BY <1>2, <1>3, <1>4
<1>6. l \o r = lr
  BY <1>2, <1>3, <1>5, SeqEqual
<1> QED
  BY <1>6 DEF l, r, lr

\* What an operator is replaced by is the meaning of what is consumed.
LEMMA ReadMeans ==
  ASSUME NEW s \in Seq(Bytes), NEW from, Solves(s, from),
         NEW k \in 1 .. Len(s) - 1, s[k] = "$", Encode[s[k + 1]] = <<s[k + 1]>>
  PROVE  LET r == TryRead(Slice(s, k, Len(s)))
             piece == IF r.isVar THEN Mapping(r.read) ELSE r.read
         IN  /\ piece \in Seq(Bytes)
             /\ r.advance \in Nat /\ k + r.advance + 1 \in k .. Len(s) + 1
             /\ from[k] = piece \o from[k + r.advance + 1]
<1> DEFINE rest == Slice(s, k, Len(s))
           closers == {h \in 1 .. Len(rest) - 1 : rest[h + 1] = ")"}
           c == CHOOSE h \in closers : \A j \in closers : h <= j
           r == TryRead(rest)
           D == 1 .. Len(s) + 1
<1>1. Len(s) \in Nat /\ k \in Nat \ {0} /\ k < Len(s)
  OBVIOUS
<1>2. /\ rest \in Seq(Bytes) /\ Len(rest) = Len(s) - k
      /\ \A h \in 1 .. Len(s) - k : rest[h] = s[k + h]
      /\ \A h \in 1 .. Len(s) - k - 1 : rest[h + 1] = s[k + h + 1]
  BY RestIs
<1>3. rest[1] = s[k + 1] /\ s[k + 1] \in Bytes /\ "$" \in Bytes /\ "(" \in Bytes
  BY <1>1, <1>2, ElementOfSeq, ExpansionAssumption
<1>4. \A h \in D : from[h] = MeantFrom(s, from, h) /\ from[h] \in Seq(Bytes)
  BY DEF Solves
<1>5. k \in D /\ k + 1 \in D /\ k + 2 \in D /\ ~(k > Len(s)) /\ ~(k + 1 > Len(s))
  BY <1>1
<1> HIDE DEF rest
<1>6. CASE s[k + 1] = "$"
  <2>1. r = [read |-> <<"$">>, isVar |-> FALSE, advance |-> 1]
    BY <1>3, <1>6 DEF TryRead
  <2>2. from[k] = <<"$">> \o from[k + 2]
    BY <1>1, <1>4, <1>5, <1>6 DEF MeantFrom
  <2>3. <<"$">> \in Seq(Bytes) /\ k + 1 + 1 = k + 2 /\ k + 2 \in k .. Len(s) + 1
    BY <1>1, <1>3
  <2> QED
    BY <2>1, <2>2, <2>3 DEF rest
<1>7. CASE s[k + 1] = "(" /\ closers # {}
  <2>1. closers = {h \in 1 .. Len(s) - k - 1 : s[k + h + 1] = ")"}
    BY <1>1, <1>2
  <2>2. c \in closers /\ \A j \in closers : c <= j
    <3>1. closers \in SUBSET Nat
      OBVIOUS
    <3> HIDE DEF closers
    <3>2. \E h \in closers : \A j \in closers : h <= j
      BY <1>7, <3>1, LeastNumber
    <3> QED
      BY <3>2
  <2>3. Closers(s, k) # {} /\ Closer(s, k) = k + c + 1
    <3> HIDE DEF closers, c
    <3>1. /\ \A h \in closers : k + h + 1 \in Closers(s, k)
          /\ \A m \in Closers(s, k) : m \in Nat /\ m - k - 1 \in closers
      BY <1>7, <2>1, SameCloser
    <3>2. Closer(s, k) \in Closers(s, k) /\ Closer(s, k) <= k + c + 1
      BY <1>1, <2>2, <3>1, CloserIs
    <3>3. c <= Closer(s, k) - k - 1 /\ Closer(s, k) \in Nat
      BY <2>2, <3>1, <3>2
    <3>4. c \in Nat
      BY <1>1, <2>1, <2>2
    <3> QED
      BY <1>1, <2>2, <3>1, <3>2, <3>3, <3>4
  <2>4. c \in 1 .. Len(s) - k - 1
    BY <2>1, <2>2
  <2>5. r = [read |-> Slice(rest, 1, c), isVar |-> TRUE, advance |-> c + 1]
    BY <1>3, <1>7 DEF TryRead
  <2> HIDE DEF closers, c
  <2>6. Slice(rest, 1, c) = SubSeq(s, k + 2, k + c)
    <3>1. rest = SubSeq(s, k + 1, Len(s))
      BY DEF rest, Slice
    <3>2. CASE c = 1
      <4>1. SubSeq(s, k + 2, k + c) = << >> /\ SubSeq(rest, 2, 1) = << >>
        BY <1>1, <3>2, SubSeqEmpty
      <4> QED
        BY <3>2, <4>1 DEF Slice
    <3>3. CASE c # 1
      <4>1. 2 \in 1 .. Len(s) - (k + 1) + 1 /\ c \in 1 .. Len(s) - (k + 1) + 1
            /\ k + 1 \in 1 .. Len(s) /\ Len(s) \in 1 .. Len(s)
            /\ (k + 1) + 2 - 1 = k + 2 /\ (k + 1) + c - 1 = k + c
        BY <1>1, <2>4, <3>3
      <4> QED
        BY <3>1, <4>1, SubSeqOfSubSeq DEF Slice
    <3> QED
      BY <3>2, <3>3
  <2>7. SubSeq(s, k + 2, k + c) \in Seq(Bytes)
    <3>1. \A h \in k + 2 .. k + c : s[h] \in Bytes
      BY <1>1, <2>4, ElementOfSeq
    <3> QED
      BY <1>1, <2>4, <3>1, SubSeqProperties
  <2>8. from[k] = Mapping(SubSeq(s, k + 2, Closer(s, k) - 1)) \o from[Closer(s, k) + 1]
    BY <1>1, <1>4, <1>5, <1>7, <2>3 DEF MeantFrom
  <2>9. Closer(s, k) - 1 = k + c /\ Closer(s, k) + 1 = k + (c + 1) + 1
        /\ k + (c + 1) + 1 \in k .. Len(s) + 1
    BY <1>1, <2>3, <2>4
  <2> HIDE DEF r
  <2>10. r.isVar /\ r.read = SubSeq(s, k + 2, k + c) /\ r.advance = c + 1
    BY <2>5, <2>6
  <2>11. from[k] = Mapping(r.read) \o from[k + r.advance + 1]
    BY <2>8, <2>9, <2>10
  <2>12. Mapping(r.read) \in Seq(Bytes)
    BY <2>7, <2>10, MappingTyped
  <2>13. r.advance \in Nat
    BY <2>4, <2>10
  <2> QED
    BY <2>9, <2>10, <2>11, <2>12, <2>13 DEF r, rest
<1>8. CASE s[k + 1] # "$" /\ ~(s[k + 1] = "(" /\ closers # {})
  <2>1. r = [read |-> <<"$", s[k + 1]>>, isVar |-> FALSE, advance |-> 1]
    <3>1. CASE s[k + 1] = "("
      BY <1>3, <1>8, <3>1 DEF TryRead
    <3>2. CASE s[k + 1] # "("
      <4>1. r = [read |-> <<"$">> \o Encode[rest[1]], isVar |-> FALSE, advance |-> 1]
        BY <1>3, <1>8, <3>2 DEF TryRead
      <4>2. <<"$">> \o <<s[k + 1]>> = <<"$", s[k + 1]>>
        BY <1>3, TwoBytes
      <4> QED
        BY <1>3, <4>1, <4>2
    <3> QED
      BY <3>1, <3>2
  <2>2. s[k + 1] = "(" => Closers(s, k) = {}
    <3>1. closers = {h \in 1 .. Len(s) - k - 1 : s[k + h + 1] = ")"}
      BY <1>1, <1>2
    <3> HIDE DEF closers
    <3> QED
      BY <1>8, <3>1, SameCloser
  <2>3. from[k] = <<"$">> \o from[k + 1] /\ from[k + 1] = <<s[k + 1]>> \o from[k + 2]
    <3>1. (k + 1) + 1 = k + 2
      BY <1>1
    <3> QED
      BY <1>1, <1>4, <1>5, <1>8, <2>2, <3>1 DEF MeantFrom
  <2>4. from[k] = <<"$", s[k + 1]>> \o from[k + 2]
    <3>1. <<"$">> \in Seq(Bytes) /\ <<s[k + 1]>> \in Seq(Bytes) /\ from[k + 2] \in Seq(Bytes)
      BY <1>3, <1>4, <1>5
    <3>2. from[k] = (<<"$">> \o <<s[k + 1]>>) \o from[k + 2]
      <4> DEFINE a == <<"$">>
                 b == <<s[k + 1]>>
                 more == from[k + 2]
      <4>1. a \in Seq(Bytes) /\ b \in Seq(Bytes) /\ more \in Seq(Bytes)
        BY <3>1
      <4>2. from[k] = a \o (b \o more)
        BY <2>3
      <4> HIDE DEF a, b, more
      <4>3. (a \o b) \o more = a \o (b \o more)
        BY <4>1, Associates, Zenon
      <4> QED
        BY <4>2, <4>3 DEF a, b, more
    <3>3. <<"$">> \o <<s[k + 1]>> = <<"$", s[k + 1]>>
      BY <1>3, TwoBytes
    <3> QED
      BY <3>2, <3>3
  <2>5. <<"$", s[k + 1]>> \in Seq(Bytes) /\ k + 1 + 1 = k + 2 /\ k + 2 \in k .. Len(s) + 1
    BY <1>1, <1>3
  <2> QED
    BY <2>1, <2>4, <2>5 DEF rest
<1> QED
  BY <1>6, <1>7, <1>8

\* What has been built, what is to be copied and what follows: the whole.
Assembles(from) ==
  /\ buf \in Seq(Bytes)
  /\ IF done THEN result = from[1]
     ELSE buf \o Slice(input, checkpoint, cursor) \o from[cursor + 1] = from[1]

\* The bytes of a slice of the input.
LEMMA Slices ==
  ASSUME ExpandTypeOK
  PROVE  /\ Slice(input, checkpoint, cursor) \in Seq(Bytes)
         /\ cursor < Len(input) =>
              Slice(input, checkpoint, cursor + 1) =
                Slice(input, checkpoint, cursor) \o <<input[cursor + 1]>>
<1>1. /\ input \in Seq(Bytes) /\ Len(input) \in Nat
      /\ cursor \in 0 .. Len(input) /\ checkpoint \in 0 .. cursor
  BY DEF ExpandTypeOK
<1>2. \A h \in checkpoint + 1 .. cursor : input[h] \in Bytes
  BY <1>1, ElementOfSeq
<1>3. SubSeq(input, checkpoint + 1, cursor) \in Seq(Bytes)
  BY <1>1, <1>2, SubSeqProperties
<1>4. ASSUME cursor < Len(input)
      PROVE  SubSeq(input, checkpoint + 1, cursor + 1) =
               SubSeq(input, checkpoint + 1, cursor) \o <<input[cursor + 1]>>
  <2>1. /\ checkpoint + 1 \in 1 .. Len(input) /\ cursor + 1 \in checkpoint + 1 .. Len(input)
        /\ (cursor + 1) - 1 = cursor
    BY <1>1, <1>4
  <2> QED
    BY <1>1, <2>1, SubSeqRecursiveSecond
<1> QED
  BY <1>3, <1>4 DEF Slice

LEMMA BeginAssembles ==
  ASSUME ExpandInit, NEW from \in [1 .. Len(input) + 1 -> Seq(Bytes)]
  PROVE  Assembles(from)
<1>1. /\ input \in Seq(Bytes) /\ cursor = 0 /\ checkpoint = 0 /\ buf = << >> /\ done = FALSE
      /\ Len(input) \in Nat /\ cursor + 1 = 1
  BY ExpansionAssumption DEF ExpandInit, ExpandBegin
<1>2. Slice(input, checkpoint, cursor) = << >>
  BY <1>1, SubSeqEmpty DEF Slice
<1>3. << >> \in Seq(Bytes) /\ << >> \o << >> = << >>
  BY EmptySeq, ConcatEmptySeq
<1>4. << >> \o from[1] = from[1]
  <2>1. from[1] \in Seq(Bytes)
    BY <1>1
  <2> QED
    BY <2>1, ConcatEmptySeq
<1> QED
  BY <1>1, <1>2, <1>3, <1>4 DEF Assembles

\* A byte that is passed ...
LEMMA CopyAssembles ==
  ASSUME ExpandTypeOK, Copy, NEW from \in [1 .. Len(input) + 1 -> Seq(Bytes)],
         Assembles(from), from[cursor + 1] = <<input[cursor + 1]>> \o from[cursor + 2]
  PROVE  Assembles(from)'
<1>1. /\ input \in Seq(Bytes) /\ Len(input) \in Nat /\ cursor \in Nat
      /\ cursor < Len(input) /\ cursor' = cursor + 1 /\ cursor' + 1 = cursor + 2
      /\ UNCHANGED <<input, checkpoint, buf, result, done>>
  BY DEF ExpandTypeOK, Copy
<1> DEFINE slice == Slice(input, checkpoint, cursor)
           byte == <<input[cursor + 1]>>
           rest == from[cursor + 2]
<1>2. slice \in Seq(Bytes) /\ Slice(input, checkpoint, cursor + 1) = slice \o byte
  BY <1>1, Slices
<1>3. byte \in Seq(Bytes) /\ rest \in Seq(Bytes)
  <2>1. cursor + 1 \in 1 .. Len(input) /\ cursor + 2 \in 1 .. Len(input) + 1
    BY <1>1
  <2>2. input[cursor + 1] \in Bytes
    BY <1>1, <2>1, ElementOfSeq
  <2> QED
    BY <2>1, <2>2
<1>4. buf \in Seq(Bytes) /\ (~done => (buf \o slice) \o (byte \o rest) = from[1])
  BY DEF Assembles
<1> HIDE DEF slice, byte, rest
<1>5. ~done => (buf \o (slice \o byte)) \o rest = from[1]
  <2> DEFINE x == buf \o slice
  <2>1. (buf \o slice) \o byte = buf \o (slice \o byte)
    <3>1. buf \in Seq(Bytes) /\ slice \in Seq(Bytes) /\ byte \in Seq(Bytes)
      BY <1>2, <1>3, <1>4
    <3> QED
      BY <3>1
  <2>2. x \in Seq(Bytes)
    BY <1>2, <1>4, ConcatProperties
  <2> HIDE DEF x
  <2>3. (x \o byte) \o rest = x \o (byte \o rest)
    BY <1>3, <2>2, Associates, Zenon
  <2>4. x \o byte = buf \o (slice \o byte) /\ (~done => x \o (byte \o rest) = from[1])
    BY <1>4, <2>1 DEF x
  <2> QED
    BY <2>3, <2>4
<1> QED
  BY <1>1, <1>2, <1>4, <1>5 DEF Assembles, rest

\* ... an operator that is replaced ...
LEMMA SubstituteAssembles ==
  ASSUME ExpandTypeOK, ~done, NEW from \in [1 .. Len(input) + 1 -> Seq(Bytes)],
         Assembles(from), NEW piece \in Seq(Bytes), NEW next \in 1 .. Len(input) + 1,
         buf' = buf \o Slice(input, checkpoint, cursor) \o piece,
         cursor' = next - 1, checkpoint' = next - 1, UNCHANGED <<input, result, done>>,
         from[cursor + 1] = piece \o from[next]
  PROVE  Assembles(from)'
<1> DEFINE slice == Slice(input, checkpoint, cursor)
           x == buf \o slice
           rest == from[next]
<1>1. /\ x \in Seq(Bytes) /\ buf' = x \o piece /\ x \o (piece \o rest) = from[1]
      /\ rest \in Seq(Bytes)
  <2>1. slice \in Seq(Bytes) /\ buf \in Seq(Bytes)
    BY Slices DEF Assembles
  <2> QED
    BY <2>1, ConcatProperties DEF Assembles
<1>2. Slice(input, checkpoint', cursor') = << >> /\ cursor' + 1 = next
  <2>1. next - 1 + 1 \in Int /\ next - 1 \in Int /\ next - 1 < next - 1 + 1
        /\ next - 1 + 1 = next
    BY DEF ExpandTypeOK
  <2> QED
    BY <2>1, SubSeqEmpty DEF Slice
<1> HIDE DEF x, slice, rest
<1>3. (x \o piece) \o rest = x \o (piece \o rest)
  <2>1. x \in Seq(Bytes) /\ rest \in Seq(Bytes)
    BY <1>1
  <2> QED
    BY <2>1, Associates, Zenon
<1>4. x \o piece \in Seq(Bytes) /\ (x \o piece) \o << >> = x \o piece
  <2>1. x \o piece \in Seq(Bytes)
    BY <1>1, ConcatProperties
  <2> QED
    BY <2>1, ConcatEmptySeq
<1>5. buf' \in Seq(Bytes) /\ buf' \o << >> \o from[cursor' + 1] = from[1]
  BY <1>1, <1>2, <1>3, <1>4 DEF rest
<1> QED
  BY <1>2, <1>5 DEF Assembles

\* ... and the end of the text.
LEMMA ReturnAssembles ==
  ASSUME ExpandTypeOK, Return, NEW from \in [1 .. Len(input) + 1 -> Seq(Bytes)],
         Assembles(from), from[Len(input) + 1] = << >>
  PROVE  Assembles(from)'
<1> DEFINE slice == Slice(input, checkpoint, cursor)
<1>1. /\ cursor = Len(input) /\ done' = TRUE /\ result' = buf \o slice /\ ~done
      /\ UNCHANGED buf
  BY DEF Return
<1>2. /\ slice \in Seq(Bytes) /\ buf \in Seq(Bytes)
      /\ buf \o slice \o << >> = from[1]
  BY <1>1, Slices DEF Assembles
<1> HIDE DEF slice
<1>3. buf \o slice = from[1]
  <2>1. buf \o slice \in Seq(Bytes)
    BY <1>2, ConcatProperties
  <2> QED
    BY <1>2, <2>1, ConcatEmptySeq
<1> QED
  BY <1>1, <1>2, <1>3 DEF Assembles

Covered ==
  ~BeforeRune => \E from : /\ Solves(input, from) /\ Meaning(input) = from[1]
                           /\ Assembles(from)

Ended == done => cursor = Len(input)

LEMMA EndedStep == ExpandTypeOK /\ Ended /\ [ExpandNext]_expandVars => Ended'
<1> SUFFICES ASSUME ExpandTypeOK, Ended, [ExpandNext]_expandVars PROVE Ended'
  OBVIOUS
<1>1. Len(input) \in Nat /\ cursor \in Nat
  BY DEF ExpandTypeOK
<1>2. CASE Copy \/ Substitute
  <2>1. cursor < Len(input) /\ done' = done
    BY <1>2 DEF Copy, Substitute
  <2>2. ~done
    BY <1>1, <2>1 DEF Ended
  <2> QED
    BY <2>1, <2>2 DEF Ended
<1>3. CASE Return \/ UNCHANGED expandVars
  BY <1>3 DEF Ended, Return, expandVars
<1> QED
  BY <1>2, <1>3 DEF ExpandNext

LEMMA CoveredStep ==
  ASSUME ExpandTypeOK, Ended, Covered, [ExpandNext]_expandVars
  PROVE  Covered'
<1>1. input \in Seq(Bytes) /\ Len(input) \in Nat /\ cursor \in Nat /\ input' = input
  <2>1. input' = input
    BY DEF ExpandNext, Copy, Substitute, Return, expandVars
  <2> QED
    BY <2>1 DEF ExpandTypeOK
<1>2. SUFFICES ASSUME ~BeforeRune PROVE Covered'
  BY <1>1 DEF Covered, BeforeRune
<1>3. PICK from : Solves(input, from) /\ Meaning(input) = from[1] /\ Assembles(from)
  BY <1>2 DEF Covered
<1>4. SUFFICES Assembles(from)'
  BY <1>1, <1>3 DEF Covered
<1>5. /\ from \in [1 .. Len(input) + 1 -> Seq(Bytes)]
      /\ \A k \in 1 .. Len(input) + 1 : from[k] = MeantFrom(input, from, k)
  BY <1>3 DEF Solves
<1>6. CASE Copy
  <2>1. cursor < Len(input) /\ ~AtOperator
    BY <1>6 DEF Copy
  <2>2. /\ cursor + 1 \in 1 .. Len(input) + 1 /\ ~(cursor + 1 > Len(input))
        /\ (cursor + 1) + 1 = cursor + 2
    BY <1>1, <2>1
  <2>3. from[cursor + 1] = <<input[cursor + 1]>> \o from[cursor + 2]
    BY <1>1, <1>5, <2>1, <2>2 DEF MeantFrom, AtOperator
  <2> QED
    BY <1>3, <1>5, <1>6, <2>3, CopyAssembles
<1>7. CASE Substitute
  <2> DEFINE k == cursor + 1
             r == TryRead(Slice(input, k, Len(input)))
             piece == IF r.isVar THEN Mapping(r.read) ELSE r.read
  <2>1. k \in 1 .. Len(input) - 1 /\ input[k] = "$" /\ ~done
    BY <1>1, <1>7 DEF Substitute, AtOperator, Ended
  <2>2. Encode[input[k + 1]] = <<input[k + 1]>>
    BY <1>1, <1>2, <2>1 DEF BeforeRune
  <2>3. /\ piece \in Seq(Bytes) /\ r.advance \in Nat /\ k + r.advance + 1 \in k .. Len(input) + 1
        /\ from[k] = piece \o from[k + r.advance + 1]
    BY <1>1, <1>3, <2>1, <2>2, ReadMeans
  <2> HIDE DEF r, piece
  <2>4. k + r.advance + 1 = cursor + r.advance + 2
        /\ cursor + r.advance + 2 \in 1 .. Len(input) + 1
    <3>1. r.advance \in Nat /\ k + r.advance + 1 \in k .. Len(input) + 1
      BY <2>3
    <3> QED
      BY <1>1, <3>1
  <2>5. from[cursor + 1] = piece \o from[cursor + r.advance + 2]
    BY <2>3, <2>4
  <2>6. /\ buf' = buf \o Slice(input, checkpoint, cursor) \o piece
        /\ UNCHANGED <<input, result, done>>
    BY <1>7 DEF Substitute, r, piece
  <2>7. PICK next \in 1 .. Len(input) + 1 : next = cursor + r.advance + 2
    BY <2>4
  <2>8. cursor' = next - 1 /\ checkpoint' = next - 1
    <3>1. r.advance \in Nat
      BY <2>3
    <3>2. cursor' = cursor + r.advance + 1 /\ checkpoint' = cursor + r.advance + 1
      BY <1>7 DEF Substitute, r
    <3>3. cursor + r.advance + 1 = next - 1
      BY <1>1, <2>7, <3>1
    <3> QED
      BY <3>2, <3>3
  <2>9. piece \in Seq(Bytes) /\ from[cursor + 1] = piece \o from[next]
    BY <2>3, <2>5, <2>7
  <2> QED
    BY <1>3, <1>5, <2>1, <2>6, <2>8, <2>9, SubstituteAssembles
<1>8. CASE Return
  <2>1. Len(input) + 1 \in 1 .. Len(input) + 1 /\ Len(input) + 1 > Len(input)
    BY <1>1
  <2>2. from[Len(input) + 1] = << >>
    BY <1>5, <2>1 DEF MeantFrom
  <2> QED
    BY <1>3, <1>5, <1>8, <2>2, ReturnAssembles
<1>9. CASE UNCHANGED expandVars
  BY <1>3, <1>9 DEF expandVars, Assembles
<1> QED
  BY <1>6, <1>7, <1>8, <1>9 DEF ExpandNext

\* Whatever the text and the names, Expand returns what the text means.
THEOREM Expands == ExpandSpec => []ExpandsReferences
<1>1. ExpandInit => Ended /\ Covered
  <2> SUFFICES ASSUME ExpandInit PROVE Ended /\ Covered
    OBVIOUS
  <2>1. input \in Seq(Bytes) /\ ~done
    BY ExpansionAssumption DEF ExpandInit, ExpandBegin
  <2>2. PICK from : Solves(input, from) /\ Meaning(input) = from[1]
    BY <2>1, MeaningSolves
  <2>3. Assembles(from)
    BY <2>2, BeginAssembles DEF Solves
  <2> QED
    BY <2>1, <2>2, <2>3 DEF Ended, Covered
<1>2. Ended /\ Covered => ExpandsReferences
  BY DEF Covered, Assembles, ExpandsReferences
<1> QED
  BY <1>1, <1>2, EndedStep, CoveredStep, SlicesWithin, PTL DEF ExpandSpec

\* What Halved is built from, in the same way.
HalfFrom(s, from, k) ==
  IF k > Len(s) THEN << >>
  ELSE IF k < Len(s) /\ s[k] = "$" THEN <<"$">> \o from[k + 2]
  ELSE <<s[k]>> \o from[k + 1]

Halves(s, from) ==
  /\ from \in [1 .. Len(s) + 1 -> Seq(Bytes)]
  /\ \A k \in 1 .. Len(s) + 1 : from[k] = HalfFrom(s, from, k)

LEMMA HalvedIs ==
  ASSUME NEW s \in Seq(Bytes)
  PROVE  \E from : Halves(s, from) /\ Halved(s) = from[1]
<1> DEFINE n == Len(s)
           D == 1 .. n + 1
           Pairs(k) == k < n /\ s[k] = "$"
           piece == [k \in 1 .. n |-> IF Pairs(k) THEN <<"$">> ELSE <<s[k]>>]
           next == [k \in 1 .. n |-> IF Pairs(k) THEN k + 2 ELSE k + 1]
           from == CHOOSE f : f = [k \in D |-> HalfFrom(s, f, k)]
<1>1. n \in Nat /\ \A k \in 1 .. n : piece[k] \in Seq(Bytes) /\ next[k] \in k + 1 .. n + 1
  <2>1. n \in Nat /\ "$" \in Bytes /\ \A k \in 1 .. n : s[k] \in Bytes
    BY ElementOfSeq, ExpansionAssumption
  <2> QED
    BY <2>1
<1>2. \A f : \A k \in D : HalfFrom(s, f, k) = Part(n, piece, next, f, k)
  <2>1. \A k \in D : ~(k > n) => k \in 1 .. n
    OBVIOUS
  <2> QED
    BY <2>1 DEF HalfFrom, Part
<1>3. Halved(s) = from[1]
  BY DEF Halved, HalfFrom
<1> HIDE DEF piece, next
<1>4. from = [k \in D |-> HalfFrom(s, from, k)]
  <2>1. PICK g : g = [k \in D |-> Part(n, piece, next, g, k)]
    BY <1>1, PartsSolve
  <2>2. [k \in D |-> Part(n, piece, next, g, k)] = [k \in D |-> HalfFrom(s, g, k)]
    BY <1>2
  <2>3. g = [k \in D |-> HalfFrom(s, g, k)]
    BY <2>1, <2>2
  <2> QED
    BY <2>3
<1> HIDE DEF from
<1>5. \A k \in D : from[k] = HalfFrom(s, from, k)
  BY <1>4
<1>6. from = [k \in D |-> Part(n, piece, next, from, k)]
  BY <1>2, <1>4
<1>7. from \in [D -> Seq(Bytes)]
  BY <1>1, <1>6, PartsTyped, ZenonT(60)
<1> QED
  BY <1>3, <1>5, <1>7 DEF Halves

\* The operators just passed, since the last byte that is none, are pairs.
Even == \E j \in 1 .. cursor + 1 : /\ \A l \in j .. cursor : input[l] = "$"
                                   /\ j = 1 \/ input[j - 1] # "$"
                                   /\ (cursor + 1 - j) % 2 = 0

Protected ==
  Paired(input) => /\ ~done => Even
                   /\ \E from : /\ Halves(input, from) /\ Halved(input) = from[1]
                                /\ Assembles(from)

\* So the loop meets the first operator of a pair, and the second with it.
LEMMA MeetsPairs ==
  ASSUME ExpandTypeOK, Paired(input), Even, cursor < Len(input), input[cursor + 1] = "$"
  PROVE  cursor + 1 < Len(input) /\ input[cursor + 2] = "$"
<1>1. /\ Len(input) \in Nat /\ cursor \in Nat /\ (cursor + 1) + 1 = cursor + 2
      /\ cursor + 1 \in 1 .. Len(input)
  BY DEF ExpandTypeOK
<1>2. PICK j \in 1 .. cursor + 1 : /\ \A l \in j .. cursor : input[l] = "$"
                                   /\ j = 1 \/ input[j - 1] # "$"
                                   /\ (cursor + 1 - j) % 2 = 0
  BY DEF Even
<1>3. j \in 1 .. Len(input) /\ j <= cursor + 1 /\ \A l \in j .. cursor + 1 : input[l] = "$"
  BY <1>1, <1>2
<1>4. SUFFICES ASSUME cursor + 1 = Len(input) \/ input[(cursor + 1) + 1] # "$" PROVE FALSE
  BY <1>1
<1>5. (cursor + 1 - j) % 2 = 1
  BY <1>1, <1>2, <1>3, <1>4 DEF Paired
<1> QED
  BY <1>2, <1>5

LEMMA EvenCopy ==
  ASSUME ExpandTypeOK, Paired(input), Even, Copy
  PROVE  Even' /\ input[cursor + 1] # "$"
<1>1. /\ Len(input) \in Nat /\ cursor \in Nat /\ cursor < Len(input)
      /\ cursor' = cursor + 1 /\ input' = input /\ ~AtOperator
  BY DEF ExpandTypeOK, Copy
<1>2. input[cursor + 1] # "$"
  BY <1>1, MeetsPairs DEF AtOperator
<1>3. /\ cursor + 2 \in 1 .. cursor' + 1 /\ cursor' + 1 - (cursor + 2) = 0
      /\ (cursor + 2) - 1 = cursor + 1 /\ cursor + 2 .. cursor' = {}
      /\ 0 % 2 = 0
  BY <1>1
<1> QED
  BY <1>1, <1>2, <1>3 DEF Even

LEMMA EvenSubstitute ==
  ASSUME ExpandTypeOK, Paired(input), Even, Substitute
  PROVE  /\ Even' /\ UNCHANGED <<input, result, done>>
         /\ cursor + 1 < Len(input) /\ input[cursor + 1] = "$"
         /\ buf' = buf \o Slice(input, checkpoint, cursor) \o <<"$">>
         /\ cursor' = cursor + 2 /\ checkpoint' = cursor + 2
<1>1. /\ input \in Seq(Bytes) /\ Len(input) \in Nat /\ cursor \in Nat
      /\ cursor + 1 < Len(input) /\ input[cursor + 1] = "$"
      /\ UNCHANGED <<input, result, done>>
  BY DEF ExpandTypeOK, Substitute, AtOperator
<1>2. input[cursor + 2] = "$"
  BY <1>1, MeetsPairs
<1> DEFINE rest == Slice(input, cursor + 1, Len(input))
           r == TryRead(rest)
<1>3. rest[1] = "$"
  <2>1. cursor + 1 \in 1 .. Len(input) - 1 /\ 1 \in 1 .. Len(input) - (cursor + 1)
        /\ (cursor + 1) + 1 = cursor + 2
    BY <1>1
  <2> QED
    BY <1>1, <1>2, <2>1, RestIs
<1>4. r = [read |-> <<"$">>, isVar |-> FALSE, advance |-> 1]
  BY <1>3 DEF TryRead
<1> HIDE DEF r
<1>5. /\ buf' = buf \o Slice(input, checkpoint, cursor) \o <<"$">>
      /\ cursor' = cursor + 2 /\ checkpoint' = cursor + 2
  <2>1. /\ buf' = buf \o Slice(input, checkpoint, cursor)
                      \o (IF r.isVar THEN Mapping(r.read) ELSE r.read)
        /\ cursor' = cursor + r.advance + 1 /\ checkpoint' = cursor + r.advance + 1
    BY DEF Substitute, r
  <2> QED
    BY <1>1, <1>4, <2>1
<1>6. Even'
  <2>1. PICK j \in 1 .. cursor + 1 : /\ \A l \in j .. cursor : input[l] = "$"
                                     /\ j = 1 \/ input[j - 1] # "$"
                                     /\ (cursor + 1 - j) % 2 = 0
    BY DEF Even
  <2>2. j \in 1 .. (cursor + 2) + 1 /\ ((cursor + 2) + 1 - j) % 2 = 0
    BY <1>1, <2>1
  <2>3. \A l \in j .. cursor + 2 : l \in j .. cursor \/ l = cursor + 1 \/ l = cursor + 2
    BY <1>1
  <2>4. \A l \in j .. cursor + 2 : input[l] = "$"
    BY <1>1, <1>2, <2>1, <2>3
  <2> QED
    BY <1>1, <1>5, <2>1, <2>2, <2>4 DEF Even
<1> QED
  BY <1>1, <1>5, <1>6

LEMMA ProtectedStep ==
  ASSUME ExpandTypeOK, Ended, Protected, [ExpandNext]_expandVars
  PROVE  Protected'
<1>1. input \in Seq(Bytes) /\ Len(input) \in Nat /\ cursor \in Nat /\ input' = input
  <2>1. input' = input
    BY DEF ExpandNext, Copy, Substitute, Return, expandVars
  <2> QED
    BY <2>1 DEF ExpandTypeOK
<1>2. SUFFICES ASSUME Paired(input) PROVE Protected'
  BY <1>1 DEF Protected
<1>3. PICK from : Halves(input, from) /\ Halved(input) = from[1] /\ Assembles(from)
  BY <1>2 DEF Protected
<1>4. SUFFICES (~done' => Even') /\ Assembles(from)'
  BY <1>1, <1>3 DEF Protected
<1>5. /\ from \in [1 .. Len(input) + 1 -> Seq(Bytes)]
      /\ \A k \in 1 .. Len(input) + 1 : from[k] = HalfFrom(input, from, k)
  BY <1>3 DEF Halves
<1>6. (Copy \/ Substitute) => ~done /\ Even
  <2>1. (Copy \/ Substitute) => cursor < Len(input)
    BY DEF Copy, Substitute
  <2> QED
    BY <1>1, <1>2, <2>1 DEF Ended, Protected
<1>7. CASE Copy
  <2>1. Even' /\ input[cursor + 1] # "$" /\ cursor < Len(input)
    BY <1>2, <1>6, <1>7, EvenCopy DEF Copy
  <2>2. /\ cursor + 1 \in 1 .. Len(input) + 1 /\ ~(cursor + 1 > Len(input))
        /\ (cursor + 1) + 1 = cursor + 2
    BY <1>1, <2>1
  <2>3. from[cursor + 1] = <<input[cursor + 1]>> \o from[cursor + 2]
    BY <1>5, <2>1, <2>2 DEF HalfFrom
  <2> QED
    BY <1>3, <1>5, <1>7, <2>1, <2>3, CopyAssembles
<1>8. CASE Substitute
  <2>1. /\ Even' /\ UNCHANGED <<input, result, done>>
        /\ cursor + 1 < Len(input) /\ input[cursor + 1] = "$"
        /\ buf' = buf \o Slice(input, checkpoint, cursor) \o <<"$">>
        /\ cursor' = cursor + 2 /\ checkpoint' = cursor + 2
    BY <1>2, <1>6, <1>8, EvenSubstitute
  <2>2. PICK next \in 1 .. Len(input) + 1 : next = (cursor + 1) + 2
    BY <1>1, <2>1
  <2>3. cursor' = next - 1 /\ checkpoint' = next - 1
    BY <1>1, <2>1, <2>2
  <2>4. from[cursor + 1] = <<"$">> \o from[next]
    <3>1. cursor + 1 \in 1 .. Len(input) + 1 /\ ~(cursor + 1 > Len(input))
      BY <1>1, <2>1
    <3> QED
      BY <1>5, <2>1, <2>2, <3>1 DEF HalfFrom
  <2>5. <<"$">> \in Seq(Bytes)
    BY ExpansionAssumption
  <2> QED
    BY <1>3, <1>5, <1>6, <1>8, <2>1, <2>3, <2>4, <2>5, SubstituteAssembles
<1>9. CASE Return
  <2>1. Len(input) + 1 \in 1 .. Len(input) + 1 /\ Len(input) + 1 > Len(input)
    BY <1>1
  <2>2. from[Len(input) + 1] = << >>
    BY <1>5, <2>1 DEF HalfFrom
  <2>3. done'
    BY <1>9 DEF Return
  <2> QED
    BY <1>3, <1>5, <1>9, <2>2, <2>3, ReturnAssembles
<1>10. CASE UNCHANGED expandVars
  <2>1. ~done => Even
    BY <1>2 DEF Protected
  <2> QED
    BY <1>3, <1>10, <2>1 DEF expandVars, Assembles, Even
<1> QED
  BY <1>7, <1>8, <1>9, <1>10 DEF ExpandNext

\* Whatever the text and the names, to double its operators protects it.
THEOREM DoublingWorks == ExpandSpec => []DoublingProtects
<1>1. ExpandInit => Ended /\ Protected
  <2> SUFFICES ASSUME ExpandInit PROVE Ended /\ Protected
    OBVIOUS
  <2>1. input \in Seq(Bytes) /\ ~done /\ cursor = 0
    BY ExpansionAssumption DEF ExpandInit, ExpandBegin
  <2>2. PICK from : Halves(input, from) /\ Halved(input) = from[1]
    BY <2>1, HalvedIs
  <2>3. Assembles(from)
    BY <2>2, BeginAssembles DEF Halves
  <2>4. Even
    <3>1. 1 \in 1 .. 0 + 1 /\ 1 .. 0 = {} /\ (0 + 1 - 1) % 2 = 0
      OBVIOUS
    <3> QED
      BY <2>1, <3>1 DEF Even
  <2> QED
    BY <2>1, <2>2, <2>3, <2>4 DEF Ended, Protected
<1>2. Ended /\ Protected => DoublingProtects
  BY DEF Protected, Assembles, DoublingProtects
<1> QED
  BY <1>1, <1>2, EndedStep, ProtectedStep, SlicesWithin, PTL DEF ExpandSpec

---------------------------------------------------------------------------
(* TemplateEvaluation.  The inductive invariant says how far the           *)
(* evaluation is: the sections before at are complete and did not fail,    *)
(* those after it are not begun, and each entry that is there is the value *)
(* of its expression.                                                      *)

Expr(s, key) == template[Sections[s]][key]

\* Where the evaluation is.
Order ==
  /\ at \in 1 .. 5
  /\ DOMAIN entries = 1 .. 5
  /\ \A s \in 1 .. 5 : s > at => DOMAIN entries[s] = {}
  /\ \A s \in 1 .. 5 : s < at =>
       DOMAIN entries[s] = DOMAIN template[Sections[s]]
  /\ DOMAIN entries[at] \subseteq DOMAIN template[Sections[at]]

\* What has been evaluated.
Values == \A s \in 1 .. 5 : \A key \in DOMAIN entries[s] :
  /\ entries[s][key] = ValueOf(Sections[s], Expr(s, key))
  /\ ValueOf(Sections[s], Expr(s, key)) # Nil

\* What has been reported.
Report ==
  /\ outcome \in {"running", "ok"} \cup {Sections[s] : s \in 1 .. 5}
  /\ outcome = "ok" => at = 5 /\ DOMAIN entries[5] = DOMAIN template[Sections[5]]
  /\ outcome \notin {"running", "ok"} => outcome = Sections[at] /\ Fails(at)

EvalInv ==
  /\ template \in Templates
  /\ template = Nil => outcome \in {"running", "nil"} /\ \A s \in 1 .. 5 : DOMAIN entries[s] = {}
  /\ template # Nil => Order /\ Values /\ Report

LEMMA SectionsAre ==
  /\ Len(Sections) = 5 /\ DOMAIN Sections = 1 .. 5
  /\ Sections[1] = "data" /\ Sections[2] = "stringData" /\ Sections[3] = "annotations"
  /\ Sections[4] = "labels" /\ Sections[5] = "type"
BY DEF Sections

LEMMA EvalInitInv == EvalInit => EvalInv
<1> SUFFICES ASSUME EvalInit PROVE EvalInv
  OBVIOUS
<1>1. /\ template \in Templates /\ at = 1 /\ outcome = "running"
      /\ entries = [s \in 1 .. 5 |-> << >>]
  BY SectionsAre DEF EvalInit, EvalBegin
<1>2. \A s \in 1 .. 5 : entries[s] = << >> /\ DOMAIN entries[s] = {}
  BY <1>1
<1>3. Order
  BY <1>1, <1>2 DEF Order
<1>4. Values
  BY <1>2 DEF Values
<1>5. Report
  BY <1>1 DEF Report
<1> QED
  BY <1>1, <1>2, <1>3, <1>4, <1>5 DEF EvalInv

LEMMA EvaluateStep ==
  ASSUME EvalInv, Running, NEW key \in Left, Evaluate(key)
  PROVE  EvalInv'
<1> DEFINE value == ValueOf(Section, template[Section][key])
<1>1. /\ template # Nil /\ template' = template /\ at' = at /\ outcome = "running"
      /\ Order /\ Values /\ Report /\ template \in Templates
      /\ Section = Sections[at] /\ key \in DOMAIN template[Sections[at]]
      /\ at \in 1 .. 5
  BY DEF Evaluate, Running, EvalInv, Section, Left, Order
<1>2. CASE value = Nil
  <2>1. outcome' = Section /\ entries' = entries
    BY <1>2 DEF Evaluate
  <2>2. Fails(at)
    BY <1>1, <1>2 DEF Fails
  <2>3. Order' /\ Values'
    BY <1>1, <2>1 DEF Order, Values, Expr
  <2>4. Fails(at)'
    BY <1>1, <2>2 DEF Fails
  <2>5. Report'
    BY <1>1, <2>1, <2>4, SectionsAre DEF Report
  <2> QED
    BY <1>1, <2>3, <2>5 DEF EvalInv
<1>3. CASE value # Nil
  <2> DEFINE more == [k \in DOMAIN entries[at] \cup {key} |->
                        IF k = key THEN value ELSE entries[at][k]]
  <2>1. outcome' = outcome /\ entries' = [entries EXCEPT ![at] = more]
    BY <1>3 DEF Evaluate
  <2>2. /\ DOMAIN entries' = DOMAIN entries /\ entries'[at] = more
        /\ \A s \in 1 .. 5 : s # at => entries'[s] = entries[s]
        /\ DOMAIN more = DOMAIN entries[at] \cup {key}
    BY <1>1, <2>1 DEF Order
  <2>3. Order'
    BY <1>1, <2>2 DEF Order
  <2>4. Values'
    <3> SUFFICES ASSUME NEW s \in 1 .. 5, NEW k \in DOMAIN entries'[s]
                 PROVE  /\ entries'[s][k] = ValueOf(Sections[s], Expr(s, k))
                        /\ ValueOf(Sections[s], Expr(s, k)) # Nil
      BY <1>1 DEF Values, Expr
    <3>1. CASE s = at /\ k = key
      BY <1>1, <1>3, <2>2, <3>1 DEF Expr
    <3>2. CASE s = at /\ k # key
      BY <1>1, <2>2, <3>2 DEF Values
    <3>3. CASE s # at
      BY <1>1, <2>2, <3>3 DEF Values
    <3> QED
      BY <3>1, <3>2, <3>3
  <2>5. Report'
    BY <1>1, <2>1 DEF Report
  <2> QED
    BY <1>1, <2>3, <2>4, <2>5 DEF EvalInv
<1> QED
  BY <1>2, <1>3

LEMMA NextSectionStep ==
  ASSUME EvalInv, NextSection
  PROVE  EvalInv'
<1>1. /\ template # Nil /\ template' = template /\ entries' = entries
      /\ outcome = "running" /\ Order /\ Values /\ Report /\ template \in Templates
      /\ DOMAIN template[Sections[at]] \ DOMAIN entries[at] = {} /\ at \in 1 .. 5
  BY DEF NextSection, Running, EvalInv, Left, Section, Order
<1>2. DOMAIN entries[at] = DOMAIN template[Sections[at]]
  BY <1>1 DEF Order
<1>3. Values'
  BY <1>1 DEF Values, Expr
<1>4. CASE at < 5 /\ at' = at + 1 /\ outcome' = outcome
  <2>1. Order'
    BY <1>1, <1>2, <1>4 DEF Order
  <2>2. Report'
    BY <1>1, <1>4 DEF Report
  <2> QED
    BY <1>1, <1>3, <2>1, <2>2 DEF EvalInv
<1>5. CASE at = 5 /\ at' = at /\ outcome' = "ok"
  <2>1. Order'
    BY <1>1, <1>5 DEF Order
  <2>2. Report'
    BY <1>1, <1>2, <1>5 DEF Report
  <2> QED
    BY <1>1, <1>3, <2>1, <2>2 DEF EvalInv
<1> QED
  BY <1>1, <1>4, <1>5, SectionsAre DEF NextSection

LEMMA EvalInvariant == EvalSpec => []EvalInv
<1>1. EvalInv /\ [EvalNext]_evalVars => EvalInv'
  <2> SUFFICES ASSUME EvalInv, [EvalNext]_evalVars PROVE EvalInv'
    OBVIOUS
  <2>1. CASE NilTemplate
    BY <2>1 DEF NilTemplate, EvalInv
  <2>2. CASE UNCHANGED evalVars
    BY <2>2 DEF evalVars, EvalInv, Order, Values, Report, Expr, Fails
  <2> QED
    BY <2>1, <2>2, EvaluateStep, NextSectionStep DEF EvalNext
<1> QED
  BY <1>1, EvalInitInv, PTL DEF EvalSpec

---------------------------------------------------------------------------

\* A complete section did not fail.
LEMMA CompleteSucceeds ==
  ASSUME Values, NEW s \in 1 .. 5, DOMAIN entries[s] = DOMAIN template[Sections[s]]
  PROVE  ~Fails(s)
BY DEF Values, Fails, Expr

\* The outcome, the Secret and the section that is said to fail are the
\* same in whatever order maps are ranged over.
THEOREM AnyOrder == EvalSpec => []OrderIrrelevant
<1>1. EvalInv => OrderIrrelevant
  <2> SUFFICES ASSUME EvalInv, template # Nil, outcome # "running"
               PROVE  OrderIrrelevant
    BY DEF OrderIrrelevant
  <2>1. Order /\ Values /\ Report /\ at \in 1 .. 5
    BY DEF EvalInv, Order
  <2>2. \A s \in 1 .. at - 1 : ~Fails(s)
    BY <2>1, CompleteSucceeds DEF Order
  <2>3. CASE outcome = "ok"
    <3>1. at = 5 /\ \A s \in 1 .. 5 : DOMAIN entries[s] = DOMAIN template[Sections[s]]
      BY <2>1, <2>3 DEF Report, Order
    <3> QED
      BY <2>1, <2>3, <3>1, CompleteSucceeds, SectionsAre DEF OrderIrrelevant
  <2>4. CASE outcome # "ok"
    <3>1. outcome = Sections[at] /\ Fails(at)
      BY <2>1, <2>4 DEF Report
    <3> QED
      BY <2>1, <2>2, <2>4, <3>1, SectionsAre DEF OrderIrrelevant
  <2> QED
    BY <2>3, <2>4
<1> QED
  BY <1>1, EvalInvariant, PTL
---------------------------------------------------------------------------
(* What expressions mean.                                                  *)

FromSecret(expr) == \E p \in DOMAIN expr :
  expr[p].kind = "ref" /\ expr[p].field = "data" /\ Inputs[expr[p].input].secret

\* A part is a text or a reference.
LEMMA PartsAre ==
  ASSUME NEW part \in Parts
  PROVE  /\ part.kind \in {"text", "ref"}
         /\ part.kind = "ref" =>
              part \in [kind : {"ref"}, input : STRING, field : STRING, key : STRING]
BY DEF Parts

\* The fields of an input.
LEMMA ContentIs ==
  ASSUME NEW name
  PROVE  /\ Content(name)["data"] = Inputs[name].data
         /\ Inputs[name].secret =>
              /\ DOMAIN Content(name) = {"data", "decodedData"}
              /\ \A key \in DOMAIN Inputs[name].data :
                   Content(name)["decodedData"][key] = Decoded(Inputs[name].data[key])
              /\ DOMAIN Content(name)["decodedData"] = DOMAIN Inputs[name].data
         /\ ~Inputs[name].secret => DOMAIN Content(name) = {"data"}
BY DEF Content

\* A reference that is found, but not a Secret's .data., yields its meaning.
LEMMA PlainPart ==
  ASSUME NEW expr \in Seq(Parts), NEW p \in DOMAIN expr, Found(expr[p]),
         ~(expr[p].kind = "ref" /\ expr[p].field = "data" /\ Inputs[expr[p].input].secret)
  PROVE  Evaluated(expr)[p] = Meant(expr[p])
<1>1. expr[p] \in Parts
  OBVIOUS
<1>2. CASE expr[p].kind = "text"
  BY <1>2 DEF Evaluated, Meant
<1>3. CASE expr[p].kind = "ref" /\ ~Inputs[expr[p].input].secret
  <2>1. expr[p].field = "data"
    BY <1>3, ContentIs DEF Found
  <2> QED
    BY <1>3, <2>1, ContentIs DEF Evaluated, Meant
<1>4. CASE expr[p].kind = "ref" /\ Inputs[expr[p].input].secret
  <2>1. expr[p].field = "decodedData"
    BY <1>4, ContentIs DEF Found
  <2>2. expr[p].key \in DOMAIN Inputs[expr[p].input].data
    BY <1>4, <2>1, ContentIs DEF Found
  <2> QED
    BY <1>4, <2>1, <2>2, ContentIs DEF Evaluated, Meant
<1> QED
  BY <1>1, <1>2, <1>3, <1>4, PartsAre
\* A reference whose field is replaced.
LEMMA DecodedRef ==
  ASSUME NEW part \in [kind : {"ref"}, input : STRING, field : STRING, key : STRING],
         NEW new, new = [part EXCEPT !.field = "decodedData"]
  PROVE  /\ new.kind = "ref" /\ new.input = part.input
         /\ new.field = "decodedData" /\ new.key = part.key
OBVIOUS

\* The one .data. of an expression, where it is a Secret's, is replaced, and
\* the expression then evaluates to what it means.
LEMMA SubstitutedMeans ==
  ASSUME NEW expr \in Seq(Parts), Evaluates(expr), NEW p \in DOMAIN expr,
         Matching(expr) = {p}, expr[p].kind = "ref", expr[p].field = "data",
         Inputs[expr[p].input].secret
  PROVE  /\ UsesDecoded(expr)
         /\ \A j \in DOMAIN expr : Evaluated(Substituted(expr))[j] = Meant(expr[j])
<1> DEFINE new == [expr[p] EXCEPT !.field = "decodedData"]
           sub == Substituted(expr)
<1>1. expr[p] \in Parts
  OBVIOUS
<1>2. /\ new.kind = "ref" /\ new.input = expr[p].input
      /\ new.field = "decodedData" /\ new.key = expr[p].key
  BY <1>1, PartsAre, DecodedRef, Zenon
<1>3. sub = [expr EXCEPT ![p] = new]
  <2>1. (CHOOSE k \in Matching(expr) : \A j \in Matching(expr) : k <= j) = p
    <3>1. p <= p
      OBVIOUS
    <3> QED
      BY <3>1, Zenon
  <2> QED
    BY <2>1, Zenon DEF Substituted
<1> HIDE DEF new
<1>4. /\ DOMAIN sub = DOMAIN expr /\ sub[p] = new
      /\ \A j \in DOMAIN expr : j # p => sub[j] = expr[j]
  BY <1>3
<1> HIDE DEF sub
<1>5. expr[p].key \in DOMAIN Inputs[expr[p].input].data /\ expr[p].input \in DOMAIN Inputs
  BY ContentIs DEF Evaluates, Found
<1>6. Found(new)
  BY <1>2, <1>5, ContentIs DEF Found
<1>7. Evaluates(sub)
  BY <1>4, <1>6 DEF Evaluates
<1>8. UsesDecoded(expr)
  BY <1>7 DEF UsesDecoded, sub
<1>9. Content(expr[p].input)["decodedData"][expr[p].key] = Meant(expr[p])
  BY <1>5, ContentIs DEF Meant
<1>10. Evaluated(sub)[p] = Meant(expr[p])
  BY <1>2, <1>4, <1>9 DEF Evaluated
<1>11. ASSUME NEW j \in DOMAIN expr, j # p PROVE Evaluated(sub)[j] = Meant(expr[j])
  <2>1. ~(expr[j].kind = "ref" /\ expr[j].field = "data")
    BY <1>11 DEF Matching, Matches
  <2>2. Evaluated(expr)[j] = Meant(expr[j])
    BY <2>1, PlainPart DEF Evaluates
  <2>3. Evaluated(sub)[j] = Evaluated(expr)[j]
    BY <1>4, <1>11 DEF Evaluated
  <2> QED
    BY <2>2, <2>3
<1> QED
  BY <1>8, <1>10, <1>11 DEF sub

\* Without a Secret's .data. nothing is replaced, or to no avail.
LEMMA PlainMeans ==
  ASSUME NEW expr \in Seq(Parts), Evaluates(expr), Simple(expr), ~FromSecret(expr)
  PROVE  /\ ~UsesDecoded(expr)
         /\ \A j \in DOMAIN expr : Evaluated(expr)[j] = Meant(expr[j])
<1>1. \A j \in DOMAIN expr : Evaluated(expr)[j] = Meant(expr[j])
  BY PlainPart DEF Evaluates, FromSecret
<1>2. CASE Matching(expr) = {}
  BY <1>1, <1>2 DEF UsesDecoded
<1>3. ASSUME NEW p \in Matching(expr) PROVE ~UsesDecoded(expr)
  <2> DEFINE new == [expr[p] EXCEPT !.field = "decodedData"]
             sub == Substituted(expr)
  <2>1. /\ p \in DOMAIN expr /\ expr[p].kind = "ref" /\ expr[p].field = "data"
        /\ Matching(expr) = {p} /\ ~Inputs[expr[p].input].secret
    BY <1>3 DEF Simple, Matching, Matches, FromSecret
  <2>2. expr[p] \in Parts
    BY <2>1
  <2>3. new.kind = "ref" /\ new.input = expr[p].input /\ new.field = "decodedData"
    BY <2>1, <2>2, PartsAre, DecodedRef, Zenon
  <2>4. sub = [expr EXCEPT ![p] = new]
    <3>1. (CHOOSE k \in Matching(expr) : \A j \in Matching(expr) : k <= j) = p
      <4>1. p <= p
        BY <2>1
      <4> QED
        BY <2>1, <4>1, Zenon
    <3> QED
      BY <2>1, <3>1, Zenon DEF Substituted
  <2> HIDE DEF new
  <2>5. sub[p] = new /\ p \in DOMAIN sub
    BY <2>1, <2>4
  <2> HIDE DEF sub
  <2>6. ~Found(new)
    BY <2>1, <2>3, ContentIs DEF Found
  <2>7. ~Evaluates(sub)
    BY <2>5, <2>6 DEF Evaluates
  <2> QED
    BY <2>7 DEF UsesDecoded, sub
<1> QED
  BY <1>1, <1>2, <1>3

\* Each of the four maps of a template has the meanings of its expressions.
THEOREM EntriesMeant == EvalSpec => []AsMeant
<1>1. EvalInv => AsMeant
  <2> SUFFICES ASSUME EvalInv, NEW s \in {1, 2, 3, 4}, NEW key \in DOMAIN entries[s],
                      Simple(Expr(s, key)), NEW p \in DOMAIN Expr(s, key)
               PROVE  entries[s][key][p] =
                        IF Sections[s] = "data" /\ ~FromSecret(Expr(s, key))
                        THEN Decoded(Meant(Expr(s, key)[p])) ELSE Meant(Expr(s, key)[p])
    BY DEF AsMeant, Expr, FromSecret
  <2> DEFINE expr == Expr(s, key)
             value == ValueOf(Sections[s], expr)
  <2>1. /\ template \in Templates \ {Nil} /\ Order /\ Values /\ s \in 1 .. 5
        /\ entries[s][key] = value /\ value # Nil
    BY DEF EvalInv, Values
  <2>2. key \in DOMAIN template[Sections[s]]
    BY <2>1 DEF Order
  <2>3. expr \in Seq(Parts)
    BY <2>1, <2>2, SectionsAre, EvalAssumption DEF Expr
  <2> HIDE DEF expr
  <2>4. Evaluates(expr)
    BY <2>1 DEF ValueOf, BytesOf, StringOf
  <2>5. CASE FromSecret(expr)
    <3>1. PICK k \in DOMAIN expr :
            /\ expr[k].kind = "ref" /\ expr[k].field = "data"
            /\ Inputs[expr[k].input].secret
      BY <2>5 DEF FromSecret
    <3>2. Matching(expr) = {k}
      BY <3>1 DEF Simple, Matching, Matches, expr
    <3>3. /\ UsesDecoded(expr)
          /\ Evaluated(Substituted(expr))[p] = Meant(expr[p])
      BY <2>3, <2>4, <3>1, <3>2, SubstitutedMeans DEF expr
    <3>4. value = Evaluated(Substituted(expr))
      BY <2>4, <3>3, SectionsAre DEF ValueOf, BytesOf, StringOf
    <3> QED
      BY <2>1, <2>5, <3>3, <3>4 DEF expr
  <2>6. CASE ~FromSecret(expr)
    <3>1. ~UsesDecoded(expr) /\ Evaluated(expr)[p] = Meant(expr[p])
      BY <2>3, <2>4, <2>6, PlainMeans DEF expr
    <3>2. CASE s = 1
      <4>1. value = [j \in DOMAIN Evaluated(expr) |-> Decoded(Evaluated(expr)[j])]
        BY <2>1, <2>4, <3>1, <3>2, SectionsAre DEF ValueOf, BytesOf
      <4>2. p \in DOMAIN Evaluated(expr)
        BY DEF Evaluated, expr
      <4> QED
        BY <2>1, <2>6, <3>1, <3>2, <4>1, <4>2, SectionsAre DEF expr
    <3>3. CASE s # 1
      <4>1. value = Evaluated(expr) /\ Sections[s] # "data"
        BY <2>4, <3>1, <3>3, SectionsAre DEF ValueOf, StringOf
      <4> QED
        BY <2>1, <3>1, <4>1 DEF expr
    <3> QED
      BY <3>2, <3>3
  <2> QED
    BY <2>5, <2>6
<1> QED
  BY <1>1, EvalInvariant, PTL

================================================================================
