--------------------------- MODULE MessageText_proofs --------------------------
(***************************************************************************)
(* What the proofs about MessageStreams know of the bytes: the positions   *)
(* of line ends and of blank lines, and what stays as it is when more      *)
(* arrives; numbers of any width; chunked bodies; and ChunkedStreamDecoder, *)
(* which reads byte by byte what ResponseParser reads line by line.        *)
(***************************************************************************)
EXTENDS MessageStreams, FiniteSetTheorems, SequenceTheorems, WellFoundedInduction, TLAPS

--------------------------------------------------------------------------------
(* Least elements, for arguments by the smallest counterexample *)

LEMMA SmallestBelow ==
    ASSUME NEW R, IsWellFoundedOn(R, Nat), \A x, y \in Nat : <<y, x>> \in R <=> y < x,
           NEW T \in SUBSET Nat, T # {}
    PROVE  \E x \in T : \A y \in T : x <= y
<1>1. PICK x \in T : \A y \in T : ~(<<y, x>> \in R)
  BY WFMin
<1>2. ASSUME NEW y \in T
      PROVE  x <= y
  <2>1. x \in Nat /\ y \in Nat /\ <<y, x>> \notin R
    BY <1>1
  <2>2. ~(y < x)
    BY <2>1, Zenon
  <2> QED BY <2>1, <2>2
<1> QED BY <1>2

LEMMA Smallest ==
    ASSUME NEW T \in SUBSET Nat, T # {}
    PROVE  \E x \in T : \A y \in T : x <= y
<1>1. \A x, y \in Nat : <<y, x>> \in OpToRel(<, Nat) <=> y < x
  BY DEF OpToRel
<1> QED BY <1>1, NatLessThanWellFounded, SmallestBelow

LEMMA MaxOfInterval ==
    ASSUME NEW n \in Nat, NEW s \in SUBSET (1..n), s # {}
    PROVE  Max(s) \in s /\ \A y \in s : Max(s) >= y
<1> DEFINE bounds == {u \in Nat : \A y \in s : y <= u}
<1>1. n \in bounds
  OBVIOUS
<1>2. PICK u \in bounds : \A v \in bounds : u <= v
  BY <1>1, Smallest
<1>3. u \in s
  <2>1. SUFFICES ASSUME u \notin s PROVE FALSE
    OBVIOUS
  <2>2. PICK y \in s : TRUE
    OBVIOUS
  <2>3. u >= 1 /\ u - 1 \in Nat
    BY <1>2, <2>2
  <2>4. \A z \in s : z <= u - 1
    BY <1>2, <2>1
  <2>5. u - 1 \in bounds
    BY <2>3, <2>4
  <2> QED BY <1>2, <2>5
<1>4. \A y \in s : u >= y
  BY <1>2
<1>5. \E x \in s : \A y \in s : x >= y
  BY <1>3, <1>4
<1> QED BY <1>5, Zenon DEF Max

--------------------------------------------------------------------------------
(* Numbers *)

LEMMA DigitType == ASSUME NEW d \in Digits PROVE DigitValue(d) \in Nat
  BY DEF Digits, DigitValue

\* What the recursions of ParsedSize and of ExactSize say of place i.
ParsedStep(v, text, base, i) ==
    IF i = 0 THEN 0
    ELSE IF \/ text[i] \notin Digits
            \/ v[i - 1] = NoSize
            \/ DigitValue(text[i]) >= base
            \/ v[i - 1] > (SizeMax - DigitValue(text[i])) \div base
    THEN NoSize
    ELSE v[i - 1] * base + DigitValue(text[i])

ExactStep(v, text, base, i) == IF i = 0 THEN 0 ELSE v[i - 1] * base + DigitValue(text[i])

Parses(v, text, base, n) == \A i \in 0..n : v[i] = ParsedStep(v, text, base, i)
Adds(v, text, base, n) == \A i \in 0..n : v[i] = ExactStep(v, text, base, i)

LEMMA ParsedStepType ==
    ASSUME NEW text, NEW base \in Nat, NEW i \in Nat, NEW v, i > 0 => v[i - 1] \in Nat
    PROVE  ParsedStep(v, text, base, i) \in Nat
<1>1. NoSize \in Nat
  BY SizeAssumption DEF NoSize
<1>2. CASE i = 0 \/ text[i] \notin Digits
  BY <1>1, <1>2 DEF ParsedStep
<1>3. CASE i # 0 /\ text[i] \in Digits
  <2>1. v[i - 1] \in Nat /\ DigitValue(text[i]) \in Nat
    BY <1>3, DigitType
  <2>2. v[i - 1] * base + DigitValue(text[i]) \in Nat
    BY <2>1
  <2> QED BY <1>1, <2>2 DEF ParsedStep
<1> QED BY <1>2, <1>3

LEMMA ParsedExists ==
    ASSUME NEW text, NEW base \in Nat, NEW n \in Nat
    PROVE  \E v \in [0..n -> Nat] : Parses(v, text, base, n)
<1> DEFINE Solves(v, k) == v \in [0..k -> Nat] /\ Parses(v, text, base, k)
           unsolved == {k \in Nat : ~\E v : Solves(v, k)}
<1>1. SUFFICES ASSUME unsolved # {} PROVE FALSE
  <2>1. n \notin unsolved => \E v : Solves(v, n)
    OBVIOUS
  <2> QED BY <2>1
<1>2. PICK k \in unsolved : \A m \in unsolved : k <= m
  BY <1>1, Smallest
<1>3. k # 0
  <2> DEFINE v == [i \in 0..0 |-> 0]
  <2>1. Solves(v, 0)
    BY DEF Parses, ParsedStep
  <2> QED BY <1>2, <2>1
<1>4. PICK v : Solves(v, k - 1)
  <2>1. k - 1 \in Nat /\ ~(k <= k - 1)
    BY <1>2, <1>3
  <2> QED BY <1>2, <2>1
<1> DEFINE w == [i \in 0..k |-> IF i = k THEN ParsedStep(v, text, base, k) ELSE v[i]]
<1>5. ParsedStep(v, text, base, k) \in Nat
  <2>1. v[k - 1] \in Nat
    BY <1>2, <1>3, <1>4
  <2> QED BY <1>2, <2>1, ParsedStepType
<1>6. w \in [0..k -> Nat]
  BY <1>2, <1>4, <1>5
<1>7. ASSUME NEW i \in 0..k
      PROVE  w[i] = ParsedStep(w, text, base, i)
  <2>1. i = 0 \/ w[i - 1] = v[i - 1]
    BY <1>2
  <2>2. ParsedStep(w, text, base, i) = ParsedStep(v, text, base, i)
    BY <2>1 DEF ParsedStep
  <2> QED BY <1>2, <1>4, <2>2 DEF Parses
<1>8. Solves(w, k)
  BY <1>6, <1>7 DEF Parses
<1> QED BY <1>2, <1>8

\* A recursion that fills a function from its start has one solution.
LEMMA ParsedUnique ==
    ASSUME NEW text, NEW base, NEW n \in Nat, NEW v, NEW w,
           Parses(v, text, base, n), Parses(w, text, base, n)
    PROVE  \A i \in 0..n : v[i] = w[i]
<1> DEFINE apart == {i \in Nat : i <= n /\ v[i] # w[i]}
<1>1. SUFFICES ASSUME apart # {} PROVE FALSE
  BY DEF apart
<1>2. PICK k \in apart : \A m \in apart : k <= m
  BY <1>1, Smallest
<1>3. k \in 0..n
  BY <1>2
<1>4. CASE k = 0
  BY <1>2, <1>3, <1>4 DEF Parses, ParsedStep
<1>5. CASE k # 0
  <2>1. k - 1 \in Nat /\ k - 1 <= n /\ ~(k <= k - 1)
    BY <1>3, <1>5
  <2>2. v[k - 1] = w[k - 1]
    BY <1>2, <2>1
  <2>3. ParsedStep(v, text, base, k) = ParsedStep(w, text, base, k)
    BY <2>2 DEF ParsedStep
  <2> QED BY <1>2, <1>3, <2>3 DEF Parses
<1> QED BY <1>4, <1>5

LEMMA ExactUnique ==
    ASSUME NEW text, NEW base, NEW n \in Nat, NEW v, NEW w,
           Adds(v, text, base, n), Adds(w, text, base, n)
    PROVE  \A i \in 0..n : v[i] = w[i]
<1> DEFINE apart == {i \in Nat : i <= n /\ v[i] # w[i]}
<1>1. SUFFICES ASSUME apart # {} PROVE FALSE
  BY DEF apart
<1>2. PICK k \in apart : \A m \in apart : k <= m
  BY <1>1, Smallest
<1>3. k \in 0..n
  BY <1>2
<1>4. CASE k = 0
  BY <1>2, <1>3, <1>4 DEF Adds, ExactStep
<1>5. CASE k # 0
  <2>1. k - 1 \in Nat /\ k - 1 <= n /\ ~(k <= k - 1)
    BY <1>3, <1>5
  <2>2. v[k - 1] = w[k - 1]
    BY <1>2, <2>1
  <2>3. ExactStep(v, text, base, k) = ExactStep(w, text, base, k)
    BY <2>2 DEF ExactStep
  <2> QED BY <1>2, <1>3, <2>3 DEF Adds
<1> QED BY <1>4, <1>5

\* The two functions are what their recursions say, if anything is.
LEMMA ParsedValue ==
    ASSUME NEW text, Len(text) \in Nat, text # <<>>, NEW base,
           NEW v \in [0..Len(text) -> Nat],
           Parses(v, text, base, Len(text))
    PROVE  ParsedSize(text, base) = v[Len(text)]
<1> DEFINE n == Len(text)
           Parse(f) == f = [i \in 0..n |-> ParsedStep(f, text, base, i)]
           parsed == CHOOSE f : Parse(f)
<1>1. ParsedSize(text, base) = parsed[n]
  BY Zenon DEF ParsedSize, ParsedStep
<1>2. Parse(v)
  BY DEF Parses
<1>3. Parse(parsed)
  BY <1>2, Zenon
<1> HIDE DEF parsed
<1>4. Parses(parsed, text, base, n) /\ Parses(v, text, base, n)
  BY <1>3 DEF Parses
<1>5. \A i \in 0..n : parsed[i] = v[i]
  BY <1>4, ParsedUnique
<1> QED BY <1>1, <1>5

LEMMA ExactValue ==
    ASSUME NEW text, Len(text) \in Nat, NEW base, NEW v \in [0..Len(text) -> Nat],
           Adds(v, text, base, Len(text))
    PROVE  ExactSize(text, base) = v[Len(text)]
<1> DEFINE n == Len(text)
           Exact(f) == f = [i \in 0..n |-> ExactStep(f, text, base, i)]
           exact == CHOOSE f : Exact(f)
<1>1. ExactSize(text, base) = exact[n]
  BY Zenon DEF ExactSize, ExactStep
<1>2. Exact(v)
  BY DEF Adds
<1>3. Exact(exact)
  BY <1>2, Zenon
<1> HIDE DEF exact
<1>4. Adds(exact, text, base, n) /\ Adds(v, text, base, n)
  BY <1>3 DEF Adds
<1>5. \A i \in 0..n : exact[i] = v[i]
  BY <1>4, ExactUnique
<1> QED BY <1>1, <1>5

\* What has been refused at one place stays refused.
LEMMA NeverLost ==
    ASSUME NEW text, NEW base, NEW n \in Nat, NEW v, Parses(v, text, base, n), v[n] # NoSize
    PROVE  \A i \in 0..n : v[i] # NoSize
<1> DEFINE lost == {k \in Nat : k <= n /\ v[n - k] = NoSize}
<1>1. lost = {}
  <2>1. SUFFICES ASSUME lost # {} PROVE FALSE
    OBVIOUS
  <2>2. PICK k \in lost : \A m \in lost : k <= m
    BY <2>1, Smallest
  <2>3. k # 0 /\ k \in 1..n
    BY <2>2
  <2>4. PICK i \in 1..n : i = n - (k - 1) /\ i - 1 = n - k
    BY <2>3
  <2>5. v[i - 1] = NoSize /\ v[i] = ParsedStep(v, text, base, i)
    BY <2>2, <2>4 DEF Parses
  <2>6. v[n - (k - 1)] = NoSize
    BY <2>4, <2>5 DEF ParsedStep
  <2>7. k - 1 \in lost
    BY <2>3, <2>6
  <2>8. k <= k - 1
    BY <2>2, <2>7
  <2> HIDE DEF lost
  <2> QED BY <2>3, <2>8
<1>2. ASSUME NEW i \in 0..n PROVE v[i] # NoSize
  <2>1. n - i \in Nat /\ n - i <= n /\ n - (n - i) = i
    OBVIOUS
  <2> QED BY <1>1, <2>1
<1> QED BY <1>2

\* A number that is parsed is the number exact arithmetic makes of its digits: no
\* step of the loop has wrapped.
LEMMA ParsedIsExact ==
    ASSUME NEW text, Len(text) \in Nat, NEW base \in Nat
    PROVE  /\ ParsedSize(text, base) \in Nat
           /\ ParsedSize(text, base) # NoSize => ParsedSize(text, base) = ExactSize(text, base)
<1> DEFINE n == Len(text)
<1>1. PICK v \in [0..n -> Nat] : Parses(v, text, base, n)
  BY ParsedExists
<1>2. text # <<>> => ParsedSize(text, base) = v[n]
  BY <1>1, ParsedValue
<1>3. text = <<>> => ParsedSize(text, base) = NoSize
  BY Zenon DEF ParsedSize
<1>4. NoSize \in Nat
  BY SizeAssumption DEF NoSize
<1>5. ASSUME v[n] # NoSize
      PROVE  ExactSize(text, base) = v[n]
  <2>1. \A i \in 0..n : v[i] # NoSize
    BY <1>1, <1>5, NeverLost
  <2>2. Adds(v, text, base, n)
    BY <1>1, <2>1 DEF Parses, Adds, ParsedStep, ExactStep
  <2> QED BY <2>2, ExactValue
<1>6. v[n] \in Nat
  BY <1>1
<1> QED BY <1>2, <1>3, <1>4, <1>5, <1>6

--------------------------------------------------------------------------------
(* Positions in a text *)

Texts == Seq(Symbols)

\* u goes on where t ends.
Begins(t, u) == Len(t) <= Len(u) /\ \A i \in 1..Len(t) : t[i] = u[i]

LineEnd(t, i) == t[i] = "CR" /\ t[i + 1] = "LF"
HeadEnd(t, i) == LineEnd(t, i) /\ LineEnd(t, i + 2)

\* e is the first line end, or end of a head, from position `from' on.
FirstLineEnd(t, from, e) ==
    /\ e \in from..(Len(t) - 1) /\ LineEnd(t, e)
    /\ \A i \in from..(e - 1) : ~LineEnd(t, i)

FirstHeadEnd(t, e) ==
    /\ e \in 1..(Len(t) - 3) /\ HeadEnd(t, e)
    /\ \A i \in 1..(e - 1) : ~HeadEnd(t, i)

LEMMA TextType ==
    ASSUME NEW t \in Texts
    PROVE  /\ Len(t) \in Nat /\ DOMAIN t = 1..Len(t)
           /\ \A i \in 1..Len(t) : t[i] \in Symbols
  BY LenProperties, ElementOfSeq DEF Texts

LEMMA Cut ==
    ASSUME NEW t \in Texts, NEW a \in Nat \ {0}, NEW b \in Nat, b <= Len(t)
    PROVE  /\ SubSeq(t, a, b) \in Texts
           /\ Len(SubSeq(t, a, b)) = IF a <= b THEN (b - a) + 1 ELSE 0
           /\ \A i \in 1..((b - a) + 1) : SubSeq(t, a, b)[i] = t[(a + i) - 1]
<1>1. \A i \in a..b : t[i] \in Symbols
  BY TextType
<1>2. a \in Int /\ b \in Int
  OBVIOUS
<1>3. /\ SubSeq(t, a, b) \in Seq(Symbols)
      /\ Len(SubSeq(t, a, b)) = IF a <= b THEN b - a + 1 ELSE 0
      /\ \A i \in 1..(b - a + 1) : SubSeq(t, a, b)[i] = t[a + i - 1]
  BY <1>1, <1>2, SubSeqProperties
<1> QED BY <1>3 DEF Texts

LEMMA CutEqual ==
    ASSUME NEW t \in Texts, NEW u \in Texts, Len(t) = Len(u), \A i \in 1..Len(t) : t[i] = u[i]
    PROVE  t = u
  BY SeqEqual DEF Texts

\* What two texts have in common they have in every piece of it.
LEMMA CutCommon ==
    ASSUME NEW t \in Texts, NEW u \in Texts, Begins(t, u),
           NEW a \in Nat \ {0}, NEW b \in Nat, b <= Len(t)
    PROVE  SubSeq(t, a, b) = SubSeq(u, a, b)
<1>1. Len(t) \in Nat /\ Len(u) \in Nat /\ b <= Len(u)
  BY TextType DEF Begins
<1> DEFINE x == SubSeq(t, a, b)
           y == SubSeq(u, a, b)
<1>2. /\ x \in Texts /\ Len(x) = IF a <= b THEN (b - a) + 1 ELSE 0
      /\ \A i \in 1..((b - a) + 1) : x[i] = t[(a + i) - 1]
  BY Cut
<1>3. /\ y \in Texts /\ Len(y) = IF a <= b THEN (b - a) + 1 ELSE 0
      /\ \A i \in 1..((b - a) + 1) : y[i] = u[(a + i) - 1]
  BY <1>1, Cut
<1> HIDE DEF x, y
<1>4. ASSUME NEW i \in 1..Len(x)
      PROVE  x[i] = y[i]
  <2>1. i \in 1..((b - a) + 1) /\ (a + i) - 1 \in 1..Len(t)
    BY <1>1, <1>2
  <2> QED BY <1>2, <1>3, <2>1 DEF Begins
<1> QED BY <1>2, <1>3, <1>4, CutEqual DEF x, y

LEMMA BlankType ==
    /\ CRLF \in Texts /\ Len(CRLF) = 2 /\ CRLF[1] = "CR" /\ CRLF[2] = "LF"
    /\ CRLF \o CRLF \in Texts /\ Len(CRLF \o CRLF) = 4
    /\ \A i \in 1..2 : (CRLF \o CRLF)[i] = CRLF[i] /\ (CRLF \o CRLF)[i + 2] = CRLF[i]
<1>1. "CR" \in Symbols /\ "LF" \in Symbols
  BY DEF Symbols, Controls
<1> DEFINE S == Symbols
<1> HIDE DEF S
<1>2. CRLF \in Seq(S) /\ Len(CRLF) = 2 /\ CRLF[1] = "CR" /\ CRLF[2] = "LF"
  BY <1>1 DEF CRLF, S
<1> DEFINE c == CRLF
<1>3. c \in Seq(S) /\ Len(c) = 2
  BY <1>2
<1> HIDE DEF c
<1>4. /\ c \o c \in Seq(S) /\ Len(c \o c) = Len(c) + Len(c)
      /\ \A i \in 1..Len(c) + Len(c) : (c \o c)[i] = IF i <= Len(c) THEN c[i] ELSE c[i - Len(c)]
  BY <1>3, ConcatProperties
<1>5. ASSUME NEW i \in 1..2
      PROVE  (c \o c)[i] = c[i] /\ (c \o c)[i + 2] = c[i]
  BY <1>3, <1>4
<1> QED BY <1>2, <1>3, <1>4, <1>5 DEF Texts, S, c

LEMMA CutIsLineEnd ==
    ASSUME NEW t \in Texts, NEW i \in 1..(Len(t) - 1)
    PROVE  SubSeq(t, i, i + 1) = CRLF <=> LineEnd(t, i)
<1> DEFINE x == SubSeq(t, i, i + 1)
<1>1. Len(t) \in Nat
  BY TextType
<1>2. x \in Texts /\ Len(x) = 2 /\ x[1] = t[i] /\ x[2] = t[i + 1]
  <2>1. /\ x \in Texts /\ Len(x) = IF i <= i + 1 THEN ((i + 1) - i) + 1 ELSE 0
        /\ \A k \in 1..(((i + 1) - i) + 1) : x[k] = t[(i + k) - 1]
    BY <1>1, Cut
  <2>2. ((i + 1) - i) + 1 = 2 /\ i <= i + 1 /\ (i + 1) - 1 = i /\ (i + 2) - 1 = i + 1
    BY <1>1
  <2> HIDE DEF x
  <2>3. 1 \in 1..(((i + 1) - i) + 1) /\ 2 \in 1..(((i + 1) - i) + 1)
    BY <2>2
  <2> QED BY <2>1, <2>2, <2>3
<1> HIDE DEF x
<1>3. CRLF \in Texts /\ Len(CRLF) = 2 /\ CRLF[1] = "CR" /\ CRLF[2] = "LF"
  BY BlankType
<1>4. ASSUME x[1] = CRLF[1], x[2] = CRLF[2]
      PROVE  x = CRLF
  <2>1. \A k \in 1..Len(x) : x[k] = CRLF[k]
    BY <1>2, <1>4
  <2> QED BY <1>2, <1>3, <2>1, CutEqual
<1> QED BY <1>2, <1>3, <1>4 DEF LineEnd, x

LEMMA CutIsHeadEnd ==
    ASSUME NEW t \in Texts, NEW i \in 1..(Len(t) - 3)
    PROVE  SubSeq(t, i, i + 3) = CRLF \o CRLF <=> HeadEnd(t, i)
<1> DEFINE x == SubSeq(t, i, i + 3)
           blank == CRLF \o CRLF
<1>1. Len(t) \in Nat
  BY TextType
<1>2. x \in Texts /\ Len(x) = 4 /\ x[1] = t[i] /\ x[2] = t[i + 1] /\ x[3] = t[i + 2] /\ x[4] = t[i + 3]
  <2>1. /\ x \in Texts /\ Len(x) = IF i <= i + 3 THEN ((i + 3) - i) + 1 ELSE 0
        /\ \A k \in 1..(((i + 3) - i) + 1) : x[k] = t[(i + k) - 1]
    BY <1>1, Cut
  <2>2. /\ ((i + 3) - i) + 1 = 4 /\ i <= i + 3 /\ (i + 1) - 1 = i /\ (i + 2) - 1 = i + 1
        /\ (i + 3) - 1 = i + 2 /\ (i + 4) - 1 = i + 3
    BY <1>1
  <2> HIDE DEF x
  <2>3. {1, 2, 3, 4} \subseteq 1..(((i + 3) - i) + 1)
    BY <2>2
  <2> QED BY <2>1, <2>2, <2>3
<1> HIDE DEF x
<1>3. /\ blank \in Texts /\ Len(blank) = 4
      /\ blank[1] = "CR" /\ blank[2] = "LF" /\ blank[3] = "CR" /\ blank[4] = "LF"
  <2>1. 1 + 2 = 3 /\ 2 + 2 = 4 /\ 1 \in 1..2 /\ 2 \in 1..2
    OBVIOUS
  <2> QED BY <2>1, BlankType
<1> HIDE DEF blank
<1>4. ASSUME x[1] = blank[1], x[2] = blank[2], x[3] = blank[3], x[4] = blank[4]
      PROVE  x = blank
  <2>1. \A k \in 1..Len(x) : x[k] = blank[k]
    <3>1. \A k \in 1..4 : k = 1 \/ k = 2 \/ k = 3 \/ k = 4
      OBVIOUS
    <3> QED BY <1>2, <1>4, <3>1
  <2> QED BY <1>2, <1>3, <2>1, CutEqual
<1>5. (i + 2) + 1 = i + 3
  BY <1>1
<1> QED BY <1>2, <1>3, <1>4, <1>5 DEF LineEnd, HeadEnd, x, blank

--------------------------------------------------------------------------------
(* find *)

\* The positions at which find may stop.
Hits(text, pattern, from) ==
    {i \in from..(Len(text) - Len(pattern) + 1) :
       SubSeq(text, i, i + Len(pattern) - 1) = pattern}

LEMMA FindFirst ==
    ASSUME NEW text, NEW pattern, Len(text) \in Nat, Len(pattern) \in Nat,
           NEW from \in Nat \ {0}
    PROVE  LET e == Find(text, pattern, from)
               hits == Hits(text, pattern, from)
           IN  /\ hits = {} => e = 0
               /\ hits # {} => e \in hits /\ \A i \in hits : e <= i
<1> DEFINE hits == Hits(text, pattern, from)
           e == Find(text, pattern, from)
<1>1. e = IF hits = {} THEN 0 ELSE CHOOSE i \in hits : \A j \in hits : i <= j
  BY Zenon DEF Find, Hits
<1>2. hits \in SUBSET Nat
  BY DEF Hits
<1> HIDE DEF hits, e
<1>3. hits # {} => \E i \in hits : \A j \in hits : i <= j
  BY <1>2, Smallest
<1>4. hits # {} => e \in hits /\ \A i \in hits : e <= i
  BY <1>1, <1>3, Zenon
<1>5. hits = {} => e = 0
  BY <1>1
<1> QED BY <1>4, <1>5 DEF hits, e

LEMMA FindLine ==
    ASSUME NEW t \in Texts, NEW from \in Nat \ {0}
    PROVE  LET e == Find(t, CRLF, from)
           IN  /\ e \in Nat
               /\ e # 0 => FirstLineEnd(t, from, e)
               /\ e = 0 => \A i \in from..(Len(t) - 1) : ~LineEnd(t, i)
<1> DEFINE e == Find(t, CRLF, from)
           hits == Hits(t, CRLF, from)
<1>1. Len(t) \in Nat /\ Len(CRLF) = 2
  BY TextType, BlankType
<1>2. hits = {i \in from..(Len(t) - 1) : LineEnd(t, i)}
  <2>1. hits = {i \in from..(Len(t) - 1) : SubSeq(t, i, i + 1) = CRLF}
    <3>1. Len(t) - 2 + 1 = Len(t) - 1 /\ \A i \in from..(Len(t) - 1) : i + 2 - 1 = i + 1
      BY <1>1
    <3> QED BY <1>1, <3>1 DEF Hits
  <2>2. \A i \in from..(Len(t) - 1) : i \in 1..(Len(t) - 1)
    BY <1>1
  <2> QED BY <2>1, <2>2, CutIsLineEnd
<1>3. /\ hits = {} => e = 0
      /\ hits # {} => e \in hits /\ \A i \in hits : e <= i
  BY <1>1, FindFirst
<1> HIDE DEF hits, e
<1>4. CASE hits = {}
  BY <1>2, <1>3, <1>4 DEF e
<1>5. CASE hits # {}
  <2>1. e \in from..(Len(t) - 1) /\ LineEnd(t, e) /\ e # 0 /\ e \in Nat
    BY <1>1, <1>2, <1>3, <1>5
  <2>2. ASSUME NEW i \in from..(e - 1)
        PROVE  ~LineEnd(t, i)
    <3>1. i \in from..(Len(t) - 1) /\ ~(e <= i)
      BY <1>1, <2>1
    <3> QED BY <1>2, <1>3, <3>1
  <2> QED BY <2>1, <2>2 DEF FirstLineEnd, e
<1> QED BY <1>4, <1>5

LEMMA FindHead ==
    ASSUME NEW t \in Texts
    PROVE  LET e == Find(t, CRLF \o CRLF, 1)
           IN  /\ e \in Nat
               /\ e # 0 => FirstHeadEnd(t, e)
               /\ e = 0 => \A i \in 1..(Len(t) - 3) : ~HeadEnd(t, i)
<1> DEFINE blank == CRLF \o CRLF
           e == Find(t, blank, 1)
           hits == Hits(t, blank, 1)
<1>1. Len(t) \in Nat /\ Len(blank) = 4
  BY TextType, BlankType
<1>2. hits = {i \in 1..(Len(t) - 3) : HeadEnd(t, i)}
  <2>1. \A i \in 1..(Len(t) - 3) : SubSeq(t, i, i + 3) = blank <=> HeadEnd(t, i)
    BY CutIsHeadEnd
  <2> HIDE DEF blank
  <2>2. hits = {i \in 1..(Len(t) - 3) : SubSeq(t, i, i + 3) = blank}
    <3>1. Len(t) - 4 + 1 = Len(t) - 3 /\ \A i \in 1..(Len(t) - 3) : i + 4 - 1 = i + 3
      BY <1>1
    <3> QED BY <1>1, <3>1 DEF Hits
  <2> HIDE DEF hits
  <2> QED BY <2>1, <2>2
<1> HIDE DEF blank
<1>3. /\ hits = {} => e = 0
      /\ hits # {} => e \in hits /\ \A i \in hits : e <= i
  BY <1>1, FindFirst
<1> HIDE DEF hits, e
<1>4. CASE hits = {}
  BY <1>2, <1>3, <1>4 DEF e, blank
<1>5. CASE hits # {}
  <2>1. e \in 1..(Len(t) - 3) /\ HeadEnd(t, e) /\ e # 0 /\ e \in Nat
    BY <1>1, <1>2, <1>3, <1>5
  <2>2. ASSUME NEW i \in 1..(e - 1)
        PROVE  ~HeadEnd(t, i)
    <3>1. i \in 1..(Len(t) - 3) /\ ~(e <= i)
      BY <1>1, <2>1
    <3> QED BY <1>2, <1>3, <3>1
  <2> QED BY <2>1, <2>2 DEF FirstHeadEnd, e, blank
<1> QED BY <1>4, <1>5

LEMMA LineAt ==
    ASSUME NEW t \in Texts, NEW from \in Nat \ {0}, NEW e, FirstLineEnd(t, from, e)
    PROVE  Find(t, CRLF, from) = e
<1> DEFINE f == Find(t, CRLF, from)
<1>1. /\ f \in Nat
      /\ f # 0 => FirstLineEnd(t, from, f)
      /\ f = 0 => \A i \in from..(Len(t) - 1) : ~LineEnd(t, i)
  BY FindLine
<1>2. e \in from..(Len(t) - 1) /\ LineEnd(t, e) /\ \A i \in from..(e - 1) : ~LineEnd(t, i)
  BY DEF FirstLineEnd
<1>3. Len(t) \in Nat
  BY TextType
<1> HIDE DEF f
<1>4. f # 0
  BY <1>1, <1>2
<1>5. f \in from..(Len(t) - 1) /\ LineEnd(t, f) /\ \A i \in from..(f - 1) : ~LineEnd(t, i)
  BY <1>1, <1>4 DEF FirstLineEnd
<1>6. ~(e < f) /\ ~(f < e)
  BY <1>2, <1>3, <1>5
<1>7. f = e
  BY <1>2, <1>3, <1>5, <1>6
<1> QED BY <1>7 DEF f

LEMMA HeadAt ==
    ASSUME NEW t \in Texts, NEW e, FirstHeadEnd(t, e)
    PROVE  Find(t, CRLF \o CRLF, 1) = e
<1> DEFINE f == Find(t, CRLF \o CRLF, 1)
<1>1. /\ f \in Nat
      /\ f # 0 => FirstHeadEnd(t, f)
      /\ f = 0 => \A i \in 1..(Len(t) - 3) : ~HeadEnd(t, i)
  BY FindHead
<1>2. e \in 1..(Len(t) - 3) /\ HeadEnd(t, e) /\ \A i \in 1..(e - 1) : ~HeadEnd(t, i)
  BY DEF FirstHeadEnd
<1>3. Len(t) \in Nat
  BY TextType
<1> HIDE DEF f
<1>4. f # 0
  BY <1>1, <1>2
<1>5. f \in 1..(Len(t) - 3) /\ HeadEnd(t, f) /\ \A i \in 1..(f - 1) : ~HeadEnd(t, i)
  BY <1>1, <1>4 DEF FirstHeadEnd
<1>6. ~(e < f) /\ ~(f < e)
  BY <1>2, <1>3, <1>5
<1>7. f = e
  BY <1>2, <1>3, <1>5, <1>6
<1> QED BY <1>7 DEF f

LEMMA LineGoesOn ==
    ASSUME NEW t \in Texts, NEW u \in Texts, Begins(t, u), NEW from \in Nat \ {0}, NEW e
    PROVE  /\ FirstLineEnd(t, from, e) => FirstLineEnd(u, from, e)
           /\ FirstLineEnd(u, from, e) /\ e < Len(t) => FirstLineEnd(t, from, e)
<1>1. Len(t) \in Nat /\ Len(u) \in Nat /\ Len(t) <= Len(u) /\ \A i \in 1..Len(t) : t[i] = u[i]
  BY TextType DEF Begins
<1>2. \A i \in 1..(Len(t) - 1) : LineEnd(t, i) <=> LineEnd(u, i)
  BY <1>1 DEF LineEnd
<1> QED BY <1>1, <1>2 DEF FirstLineEnd

LEMMA HeadGoesOn ==
    ASSUME NEW t \in Texts, NEW u \in Texts, Begins(t, u), NEW e
    PROVE  /\ FirstHeadEnd(t, e) => FirstHeadEnd(u, e)
           /\ FirstHeadEnd(u, e) /\ e + 3 <= Len(t) => FirstHeadEnd(t, e)
<1>1. Len(t) \in Nat /\ Len(u) \in Nat /\ Len(t) <= Len(u) /\ \A i \in 1..Len(t) : t[i] = u[i]
  BY TextType DEF Begins
<1>2. \A i \in 1..(Len(t) - 3) : HeadEnd(t, i) <=> HeadEnd(u, i)
  BY <1>1 DEF LineEnd, HeadEnd
<1> QED BY <1>1, <1>2 DEF FirstHeadEnd

LEMMA BeginsOn ==
    ASSUME NEW t \in Texts, NEW u \in Texts, NEW w \in Texts, Begins(t, u), Begins(u, w)
    PROVE  Begins(t, w)
  BY TextType DEF Begins

LEMMA BeginsItself == ASSUME NEW t \in Texts PROVE Begins(t, t)
  BY TextType DEF Begins

LEMMA Joined ==
    ASSUME NEW t \in Texts, NEW u \in Texts
    PROVE  t \o u \in Texts /\ Len(t \o u) = Len(t) + Len(u) /\ Begins(t, t \o u)
<1> DEFINE S == Symbols
<1> HIDE DEF S
<1>1. t \in Seq(S) /\ u \in Seq(S)
  BY DEF Texts, S
<1>2. /\ t \o u \in Seq(S) /\ Len(t \o u) = Len(t) + Len(u)
      /\ \A i \in 1..Len(t) + Len(u) : (t \o u)[i] = IF i <= Len(t) THEN t[i] ELSE u[i - Len(t)]
  BY <1>1, ConcatProperties
<1>3. Len(t) \in Nat /\ Len(u) \in Nat
  BY TextType
<1> DEFINE w == t \o u
<1> HIDE DEF w
<1>4. Begins(t, w)
  BY <1>2, <1>3 DEF Begins, w
<1> QED BY <1>2, <1>4 DEF Texts, S, w

\* A piece of what comes behind the first n symbols, put behind them.
LEMMA CutJoined ==
    ASSUME NEW t \in Texts, NEW a \in Nat, NEW b \in Nat, a <= b, b <= Len(t)
    PROVE  SubSeq(t, 1, a) \o SubSeq(t, a + 1, b) = SubSeq(t, 1, b)
<1> DEFINE x == SubSeq(t, 1, a)
           y == SubSeq(t, a + 1, b)
           z == SubSeq(t, 1, b)
<1>1. Len(t) \in Nat
  BY TextType
<1>2. x \in Texts /\ Len(x) = a /\ \A i \in 1..a : x[i] = t[i]
  <2>1. /\ x \in Texts /\ Len(x) = IF 1 <= a THEN (a - 1) + 1 ELSE 0
        /\ \A i \in 1..((a - 1) + 1) : x[i] = t[(1 + i) - 1]
    BY <1>1, Cut
  <2> HIDE DEF x
  <2> QED BY <2>1
<1>3. y \in Texts /\ Len(y) = b - a /\ \A i \in 1..(b - a) : y[i] = t[a + i]
  <2>1. /\ y \in Texts /\ Len(y) = IF a + 1 <= b THEN (b - (a + 1)) + 1 ELSE 0
        /\ \A i \in 1..((b - (a + 1)) + 1) : y[i] = t[((a + 1) + i) - 1]
    BY <1>1, Cut
  <2> HIDE DEF y
  <2>2. (b - (a + 1)) + 1 = b - a /\ \A i \in 1..(b - a) : ((a + 1) + i) - 1 = a + i
    OBVIOUS
  <2> QED BY <2>1, <2>2
<1>4. z \in Texts /\ Len(z) = b /\ \A i \in 1..b : z[i] = t[i]
  <2>1. /\ z \in Texts /\ Len(z) = IF 1 <= b THEN (b - 1) + 1 ELSE 0
        /\ \A i \in 1..((b - 1) + 1) : z[i] = t[(1 + i) - 1]
    BY <1>1, Cut
  <2> HIDE DEF z
  <2> QED BY <2>1
<1> HIDE DEF x, y, z
<1> DEFINE S == Symbols
           w == x \o y
<1> HIDE DEF S
<1>5. /\ w \in Seq(S) /\ Len(w) = Len(x) + Len(y)
      /\ \A i \in 1..Len(x) + Len(y) : w[i] = IF i <= Len(x) THEN x[i] ELSE y[i - Len(x)]
  <2>1. x \in Seq(S) /\ y \in Seq(S)
    BY <1>2, <1>3 DEF Texts, S
  <2> QED BY <2>1, ConcatProperties
<1> HIDE DEF w
<1>6. ASSUME NEW i \in 1..b
      PROVE  w[i] = z[i]
  <2>1. CASE i <= a
    <3>1. i \in 1..a /\ i \in 1..Len(x) + Len(y) /\ i <= Len(x)
      BY <1>2, <1>3, <2>1
    <3> QED BY <1>2, <1>4, <1>5, <3>1
  <2>2. CASE ~(i <= a)
    <3>1. i - a \in 1..(b - a) /\ i \in 1..Len(x) + Len(y) /\ ~(i <= Len(x)) /\ a + (i - a) = i
      BY <1>2, <1>3, <2>2
    <3> QED BY <1>2, <1>3, <1>4, <1>5, <3>1
  <2> QED BY <2>1, <2>2
<1>7. w \in Texts /\ Len(w) = b
  BY <1>2, <1>3, <1>5 DEF Texts, S
<1>8. w = z
  BY <1>4, <1>6, <1>7, CutEqual
<1> QED BY <1>8 DEF w, x, y, z

--------------------------------------------------------------------------------
(* The head of a text *)

LEMMA HeadLengthIs ==
    ASSUME NEW t \in Texts
    PROVE  LET e == Find(t, CRLF \o CRLF, 1)
           IN  /\ HeadLength(t) \in Nat
               /\ e = 0 <=> HeadLength(t) = 0
               /\ e # 0 => HeadLength(t) = e + 3 /\ FirstHeadEnd(t, e) /\ HeadLength(t) <= Len(t)
<1> DEFINE e == Find(t, CRLF \o CRLF, 1)
<1>1. e \in Nat /\ (e # 0 => FirstHeadEnd(t, e))
  BY FindHead
<1>2. HeadLength(t) = IF e = 0 THEN 0 ELSE e + 3
  BY DEF HeadLength
<1>3. Len(t) \in Nat
  BY TextType
<1> HIDE DEF e
<1>4. HeadLength(t) \in Nat /\ (e = 0 <=> HeadLength(t) = 0)
      /\ (e # 0 => HeadLength(t) = e + 3 /\ FirstHeadEnd(t, e) /\ HeadLength(t) <= Len(t))
  BY <1>1, <1>2, <1>3 DEF FirstHeadEnd
<1> QED BY <1>4 DEF e

LEMMA EmptyText ==
    /\ <<>> \in Texts /\ Len(<<>>) = 0 /\ HeadLength(<<>>) = 0
    /\ \A t \in Texts : Len(t) = 0 => t = <<>>
<1> DEFINE S == Symbols
<1> HIDE DEF S
<1>1. <<>> \in Seq(S) /\ Len(<<>>) = 0 /\ \A t \in Seq(S) : Len(t) = 0 => t = <<>>
  BY EmptySeq
<1>2. <<>> \in Texts /\ \A t \in Texts : Len(t) = 0 => t = <<>>
  BY <1>1 DEF Texts, S
<1>3. HeadLength(<<>>) = 0
  <2>1. SUFFICES ASSUME HeadLength(<<>>) # 0 PROVE FALSE
    OBVIOUS
  <2>2. HeadLength(<<>>) \in Nat /\ HeadLength(<<>>) <= Len(<<>>)
    BY <1>2, <2>1, HeadLengthIs
  <2> QED BY <1>1, <2>1, <2>2
<1> QED BY <1>1, <1>2, <1>3

\* A head has a first line.
LEMMA HeadHasLine ==
    ASSUME NEW t \in Texts, NEW e, FirstHeadEnd(t, e), NEW i \in 1..e
    PROVE  LET f == Find(t, CRLF, i) IN f \in i..e /\ FirstLineEnd(t, i, f)
<1> DEFINE f == Find(t, CRLF, i)
<1>1. /\ f \in Nat
      /\ f # 0 => FirstLineEnd(t, i, f)
      /\ f = 0 => \A k \in i..(Len(t) - 1) : ~LineEnd(t, k)
  <2>1. i \in Nat \ {0}
    OBVIOUS
  <2> QED BY <2>1, FindLine
<1>2. e \in 1..(Len(t) - 3) /\ LineEnd(t, e)
  BY DEF FirstHeadEnd, HeadEnd
<1>3. Len(t) \in Nat
  BY TextType
<1> HIDE DEF f
<1>4. f # 0
  BY <1>1, <1>2, <1>3
<1>5. f \in i..(Len(t) - 1) /\ \A k \in i..(f - 1) : ~LineEnd(t, k)
  BY <1>1, <1>4 DEF FirstLineEnd
<1>6. f \in i..e
  BY <1>2, <1>3, <1>5
<1> QED BY <1>1, <1>4, <1>6 DEF f

\* Where the field lines begin.
Starts(text, from, last) ==
    LET ends == {i \in from..last : SubSeq(text, i, i + 1) = CRLF}
    IN  IF last < from THEN {} ELSE {from} \cup {i + 2 : i \in ends \ {last}}

LEMMA StartsIn ==
    ASSUME NEW t \in Texts, NEW e, FirstHeadEnd(t, e), NEW from \in Nat \ {0}
    PROVE  Starts(t, from, e) \subseteq 1..e
<1>1. Len(t) \in Nat /\ e \in 1..(Len(t) - 3) /\ t[e] = "CR"
  BY TextType DEF FirstHeadEnd, HeadEnd, LineEnd
<1>2. ASSUME NEW i \in from..e, SubSeq(t, i, i + 1) = CRLF, i # e
      PROVE  i + 2 \in 1..e
  <2>1. i \in 1..(Len(t) - 1)
    BY <1>1
  <2>2. t[i + 1] = "LF"
    BY <1>2, <2>1, CutIsLineEnd DEF LineEnd
  <2>3. i + 1 # e
    BY <1>1, <2>2
  <2> QED BY <1>1, <1>2, <2>3
<1> QED BY <1>1, <1>2 DEF Starts

LEMMA SameStarts ==
    ASSUME NEW t \in Texts, NEW u \in Texts, Begins(t, u), NEW e, FirstHeadEnd(t, e),
           NEW from \in Nat \ {0}
    PROVE  Starts(t, from, e) = Starts(u, from, e)
<1>1. Len(t) \in Nat /\ e \in 1..(Len(t) - 3)
  BY TextType DEF FirstHeadEnd
<1>2. ASSUME NEW i \in from..e
      PROVE  SubSeq(t, i, i + 1) = SubSeq(u, i, i + 1)
  <2>1. i \in Nat \ {0} /\ i + 1 \in Nat /\ i + 1 <= Len(t)
    BY <1>1
  <2> QED BY <2>1, CutCommon
<1>3. {i \in from..e : SubSeq(t, i, i + 1) = CRLF} = {i \in from..e : SubSeq(u, i, i + 1) = CRLF}
  BY <1>2
<1> QED BY <1>3, Zenon DEF Starts

LEMMA FieldLinesAre ==
    ASSUME NEW text, NEW from, NEW last
    PROVE  FieldLines(text, from, last)
             = [i \in Starts(text, from, last) |-> SubSeq(text, i, Find(text, CRLF, i) - 1)]
  BY Zenon DEF FieldLines, Starts

\* The field lines of a head are texts, and they are the same when more follows.
LEMMA FieldTexts ==
    ASSUME NEW t \in Texts, NEW e, FirstHeadEnd(t, e), NEW from \in Nat \ {0}
    PROVE  \A i \in DOMAIN FieldLines(t, from, e) : FieldLines(t, from, e)[i] \in Texts
<1> DEFINE starts == Starts(t, from, e)
           line(i) == SubSeq(t, i, Find(t, CRLF, i) - 1)
<1>1. FieldLines(t, from, e) = [i \in starts |-> line(i)]
  BY FieldLinesAre
<1>2. ASSUME NEW i \in starts
      PROVE  line(i) \in Texts
  <2> DEFINE f == Find(t, CRLF, i)
  <2>1. i \in 1..e
    BY StartsIn
  <2>2. f \in i..e /\ FirstLineEnd(t, i, f)
    BY <2>1, HeadHasLine
  <2> HIDE DEF f
  <2>3. Len(t) \in Nat /\ f - 1 \in Nat /\ f - 1 <= Len(t) /\ i \in Nat \ {0}
    BY <2>1, <2>2, TextType DEF FirstLineEnd
  <2>4. SubSeq(t, i, f - 1) \in Texts
    BY <2>3, Cut
  <2> QED BY <2>4 DEF f
<1> HIDE DEF starts, line
<1> QED BY <1>1, <1>2

LEMMA SameFieldLines ==
    ASSUME NEW t \in Texts, NEW u \in Texts, Begins(t, u), NEW e, FirstHeadEnd(t, e),
           NEW from \in Nat \ {0}
    PROVE  FieldLines(t, from, e) = FieldLines(u, from, e)
<1> DEFINE starts == Starts(t, from, e)
           line(i) == SubSeq(t, i, Find(t, CRLF, i) - 1)
           longer(i) == SubSeq(u, i, Find(u, CRLF, i) - 1)
<1>1. FieldLines(t, from, e) = [i \in starts |-> line(i)]
  BY FieldLinesAre
<1>2. FieldLines(u, from, e) = [i \in starts |-> longer(i)]
  BY FieldLinesAre, SameStarts
<1>3. ASSUME NEW i \in starts
      PROVE  line(i) = longer(i)
  <2> DEFINE f == Find(t, CRLF, i)
  <2>1. i \in 1..e
    BY StartsIn
  <2>2. f \in i..e /\ FirstLineEnd(t, i, f)
    BY <2>1, HeadHasLine
  <2> HIDE DEF f
  <2>3. Len(t) \in Nat /\ f - 1 \in Nat /\ f - 1 <= Len(t) /\ i \in Nat \ {0}
    BY <2>1, <2>2, TextType DEF FirstLineEnd
  <2>4. Find(u, CRLF, i) = f
    <3>1. FirstLineEnd(u, i, f)
      BY <2>2, <2>3, LineGoesOn
    <3> QED BY <2>3, <3>1, LineAt
  <2>5. SubSeq(t, i, f - 1) = SubSeq(u, i, f - 1)
    BY <2>3, CutCommon
  <2> QED BY <2>4, <2>5 DEF f
<1> HIDE DEF starts, line, longer
<1> QED BY <1>1, <1>2, <1>3

\* What a text with a head says, every longer one says.
LEMMA SameHead ==
    ASSUME NEW t \in Texts, NEW u \in Texts, Begins(t, u), HeadLength(t) # 0
    PROVE  /\ HeadLength(u) = HeadLength(t)
           /\ FirstLine(u) = FirstLine(t)
           /\ FieldsOf(u) = FieldsOf(t)
<1> DEFINE e == Find(t, CRLF \o CRLF, 1)
           f == Find(t, CRLF, 1)
<1>1. e # 0 /\ HeadLength(t) = e + 3 /\ FirstHeadEnd(t, e)
  BY HeadLengthIs
<1>2. Len(t) \in Nat /\ e \in 1..(Len(t) - 3)
  BY <1>1, TextType DEF FirstHeadEnd
<1>3. Find(u, CRLF \o CRLF, 1) = e
  BY <1>1, HeadGoesOn, HeadAt
<1>4. HeadLength(u) = e + 3
  BY <1>1, <1>3, HeadLengthIs
<1>5. f \in 1..e /\ FirstLineEnd(t, 1, f)
  <2>1. 1 \in 1..e
    BY <1>2
  <2> QED BY <1>1, <2>1, HeadHasLine
<1>6. Find(u, CRLF, 1) = f
  <2>1. 1 \in Nat \ {0}
    OBVIOUS
  <2> QED BY <1>5, <2>1, LineGoesOn, LineAt
<1>7. FirstLine(u) = FirstLine(t)
  <2>1. f - 1 \in Nat /\ f - 1 <= Len(t) /\ 1 \in Nat \ {0}
    BY <1>2, <1>5
  <2>2. SubSeq(t, 1, f - 1) = SubSeq(u, 1, f - 1)
    BY <2>1, CutCommon
  <2> QED BY <1>6, <2>2 DEF FirstLine
<1>8. FieldsOf(u) = FieldsOf(t)
  <2>1. f + 2 \in Nat \ {0} /\ HeadLength(t) - 3 = e
    BY <1>1, <1>2, <1>5
  <2>2. FieldLines(t, f + 2, e) = FieldLines(u, f + 2, e)
    BY <1>1, <2>1, SameFieldLines
  <2> QED BY <1>1, <1>4, <1>6, <2>1, <2>2 DEF FieldsOf
<1> QED BY <1>1, <1>4, <1>7, <1>8

LEMMA FieldsAreTexts ==
    ASSUME NEW t \in Texts, HeadLength(t) # 0
    PROVE  \A i \in DOMAIN FieldsOf(t) : FieldsOf(t)[i] \in Texts
<1> DEFINE e == Find(t, CRLF \o CRLF, 1)
           f == Find(t, CRLF, 1)
<1>1. e # 0 /\ HeadLength(t) = e + 3 /\ FirstHeadEnd(t, e)
  BY HeadLengthIs
<1>2. Len(t) \in Nat /\ e \in 1..(Len(t) - 3)
  BY <1>1, TextType DEF FirstHeadEnd
<1>3. f \in 1..e
  <2>1. 1 \in 1..e
    BY <1>2
  <2> QED BY <1>1, <2>1, HeadHasLine
<1>4. f + 2 \in Nat \ {0} /\ HeadLength(t) - 3 = e
  BY <1>1, <1>2, <1>3
<1>5. FieldsOf(t) = FieldLines(t, f + 2, e)
  BY <1>4 DEF FieldsOf
<1> QED BY <1>1, <1>4, <1>5, FieldTexts

--------------------------------------------------------------------------------
(* Lengths *)

\* A well-formed line has a first symbol, so that what follows it is a text.
LEMMA ValueType ==
    ASSUME NEW line \in Texts, WellFormedField(line)
    PROVE  Len(Tail(line)) \in Nat
<1>1. PICK k \in DOMAIN line : line[k] \in FieldStarts
  BY DEF WellFormedField, Named
<1>2. Len(line) \in Nat /\ k \in 1..Len(line)
  BY <1>1, TextType
<1> DEFINE S == Symbols
<1> HIDE DEF S
<1>3. line \in Seq(S) /\ line # <<>>
  <2>1. line \in Seq(S)
    BY DEF Texts, S
  <2>2. Len(line) # 0
    BY <1>2
  <2> QED BY <2>1, <2>2, EmptySeq
<1>4. Tail(line) \in Seq(S)
  BY <1>3, HeadTailProperties
<1> QED BY <1>4, LenProperties

LEMMA LengthType ==
    ASSUME NEW fields, ValidRequestFields(fields), \A i \in DOMAIN fields : fields[i] \in Texts
    PROVE  /\ \A n \in LengthsOf(fields) : n \in Nat /\ n = ContentLengthOf(fields)
           /\ ContentLengthOf(fields) \in Nat
<1>1. /\ \A i \in DOMAIN fields : WellFormedField(fields[i])
      /\ NoSize \notin LengthsOf(fields)
      /\ \A m, n \in LengthsOf(fields) : m = n
  BY DEF ValidRequestFields
<1>2. ASSUME NEW n \in LengthsOf(fields)
      PROVE  n \in Nat
  <2>1. PICK i \in DOMAIN fields : n = DecimalSize(Tail(fields[i]))
    BY DEF LengthsOf
  <2>2. Len(Tail(fields[i])) \in Nat
    BY <1>1, ValueType
  <2>3. 10 \in Nat
    OBVIOUS
  <2> QED BY <2>1, <2>2, <2>3, ParsedIsExact DEF DecimalSize
<1>3. ASSUME NEW n \in LengthsOf(fields)
      PROVE  n = ContentLengthOf(fields)
  <2>1. (CHOOSE m \in LengthsOf(fields) : TRUE) \in LengthsOf(fields)
    OBVIOUS
  <2>2. ContentLengthOf(fields) = CHOOSE m \in LengthsOf(fields) : TRUE
    BY DEF ContentLengthOf
  <2> QED BY <1>1, <2>1, <2>2
<1>4. LengthsOf(fields) = {} => ContentLengthOf(fields) = 0
  BY DEF ContentLengthOf
<1>5. CASE LengthsOf(fields) = {}
  BY <1>4, <1>5
<1>6. CASE LengthsOf(fields) # {}
  BY <1>2, <1>3, <1>6
<1> QED BY <1>2, <1>3, <1>5, <1>6

\* What parse_decimal_size makes of every Content-Length is its exact value.
LEMMA LengthIsExact ==
    ASSUME NEW fields, ValidRequestFields(fields), \A i \in DOMAIN fields : fields[i] \in Texts
    PROVE  ExactLength(fields, ContentLengthOf(fields))
<1>1. ASSUME NEW i \in DOMAIN fields, FieldName(fields[i]) = "Content-Length"
      PROVE  ExactSize(Tail(fields[i]), 10) = ContentLengthOf(fields)
  <2> DEFINE text == Tail(fields[i])
             n == ParsedSize(text, 10)
  <2>1. WellFormedField(fields[i]) /\ NoSize \notin LengthsOf(fields)
    BY DEF ValidRequestFields
  <2>2. Len(text) \in Nat
    BY <2>1, ValueType
  <2>3. n \in LengthsOf(fields)
    BY <1>1 DEF LengthsOf, DecimalSize
  <2>4. 10 \in Nat
    OBVIOUS
  <2>5. n # NoSize
    BY <2>1, <2>3
  <2>6. n = ExactSize(text, 10)
    BY <2>2, <2>4, <2>5, ParsedIsExact
  <2>7. n = ContentLengthOf(fields)
    BY <2>3, LengthType
  <2> QED BY <2>6, <2>7
<1> QED BY <1>1 DEF ExactLength

--------------------------------------------------------------------------------
(* Numbers that are not accepted *)

LEMMA AllDigits ==
    ASSUME NEW text, Len(text) \in Nat, NEW base \in Nat, ParsedSize(text, base) # NoSize
    PROVE  text # <<>> /\ \A i \in 1..Len(text) : text[i] \in Digits
<1> DEFINE n == Len(text)
<1>1. PICK v \in [0..n -> Nat] : Parses(v, text, base, n)
  BY ParsedExists
<1>2. text # <<>>
  BY Zenon DEF ParsedSize
<1>3. v[n] # NoSize
  BY <1>1, <1>2, ParsedValue
<1>4. \A i \in 0..n : v[i] # NoSize
  BY <1>1, <1>3, NeverLost
<1>5. ASSUME NEW i \in 1..n
      PROVE  text[i] \in Digits
  BY <1>1, <1>4 DEF Parses, ParsedStep
<1> QED BY <1>2, <1>5

LEMMA DigitOf16 == ASSUME NEW d \in Digits PROVE DigitValue(d) \in Nat /\ ~(DigitValue(d) >= 16)
<1>1. DigitValue(d) \in {0, 1, 2, 3, 4, 5, 6, 7, 8, 9, 15}
  BY Zenon DEF Digits, DigitValue
<1> QED BY <1>1

LEMMA ExactExists ==
    ASSUME NEW text, NEW base \in Nat, NEW n \in Nat, \A i \in 1..n : text[i] \in Digits
    PROVE  \E v \in [0..n -> Nat] : Adds(v, text, base, n)
<1> DEFINE Solves(v, k) == v \in [0..k -> Nat] /\ Adds(v, text, base, k)
           unsolved == {k \in Nat : k <= n /\ ~\E v : Solves(v, k)}
<1>1. SUFFICES ASSUME unsolved # {} PROVE FALSE
  <2>1. n \notin unsolved => \E v : Solves(v, n)
    OBVIOUS
  <2> QED BY <2>1
<1>2. PICK k \in unsolved : \A m \in unsolved : k <= m
  BY <1>1, Smallest
<1>3. k # 0
  <2> DEFINE v == [i \in 0..0 |-> 0]
  <2>1. Solves(v, 0)
    BY DEF Adds, ExactStep
  <2> QED BY <1>2, <2>1
<1>4. PICK v : Solves(v, k - 1)
  <2>1. k - 1 \in Nat /\ ~(k <= k - 1) /\ k - 1 <= n
    BY <1>2, <1>3
  <2> QED BY <1>2, <2>1
<1> DEFINE w == [i \in 0..k |-> IF i = k THEN ExactStep(v, text, base, k) ELSE v[i]]
<1>5. ExactStep(v, text, base, k) \in Nat
  <2>1. v[k - 1] \in Nat /\ DigitValue(text[k]) \in Nat
    BY <1>2, <1>3, <1>4, DigitType
  <2>2. v[k - 1] * base + DigitValue(text[k]) \in Nat
    BY <2>1
  <2> QED BY <1>3, <2>2 DEF ExactStep
<1>6. w \in [0..k -> Nat]
  BY <1>2, <1>4, <1>5
<1>7. ASSUME NEW i \in 0..k
      PROVE  w[i] = ExactStep(w, text, base, i)
  <2>1. i = 0 \/ w[i - 1] = v[i - 1]
    BY <1>2
  <2>2. ExactStep(w, text, base, i) = ExactStep(v, text, base, i)
    BY <2>1 DEF ExactStep
  <2> QED BY <1>2, <1>4, <2>2 DEF Adds
<1>8. Solves(w, k)
  BY <1>6, <1>7 DEF Adds
<1> QED BY <1>2, <1>8

LEMMA ExactType ==
    ASSUME NEW text, Len(text) \in Nat, NEW base \in Nat, \A i \in 1..Len(text) : text[i] \in Digits
    PROVE  ExactSize(text, base) \in Nat
<1>1. PICK v \in [0..Len(text) -> Nat] : Adds(v, text, base, Len(text))
  BY ExactExists
<1> QED BY <1>1, ExactValue

\* What does not pass the test of the loop does not fit.
LEMMA TooLarge ==
    ASSUME NEW v \in Nat, NEW d \in Nat, NEW m \in Nat, v > (m - d) \div 16
    PROVE  v * 16 + d > m
  OBVIOUS

\* A hexadecimal number that is refused is larger than the largest size.
LEMMA RefusedIsLarge ==
    ASSUME NEW text, Len(text) \in Nat, text # <<>>, \A i \in 1..Len(text) : text[i] \in Digits,
           ParsedSize(text, 16) = NoSize
    PROVE  ExactSize(text, 16) > SizeMax
<1> DEFINE n == Len(text)
<1>0. 16 \in Nat /\ SizeMax \in Nat /\ NoSize = SizeMax + 1
  BY SizeAssumption DEF NoSize
<1>1. PICK v \in [0..n -> Nat] : Parses(v, text, 16, n)
  BY <1>0, ParsedExists
<1>2. PICK a \in [0..n -> Nat] : Adds(a, text, 16, n)
  BY <1>0, ExactExists
<1>3. v[n] = NoSize
  BY <1>0, <1>1, ParsedValue
<1>4. ExactSize(text, 16) = a[n]
  BY <1>0, <1>2, ExactValue
<1> DEFINE lost == {k \in Nat : k <= n /\ v[k] = NoSize}
<1>5. PICK k \in lost : \A m \in lost : k <= m
  <2>1. n \in lost
    BY <1>3
  <2> QED BY <2>1, Smallest
<1>6. k \in 0..n /\ v[k] = NoSize
  BY <1>5
<1>7. k # 0
  BY <1>0, <1>1, <1>6 DEF Parses, ParsedStep
<1>8. \A i \in 0..(k - 1) : v[i] # NoSize
  BY <1>5, <1>6
<1> HIDE DEF lost
<1>9. \A i \in 0..(k - 1) : a[i] = v[i]
  <2>1. k - 1 \in Nat
    BY <1>6, <1>7
  <2>2. Adds(a, text, 16, k - 1)
    BY <1>2, <1>6 DEF Adds
  <2>3. Adds(v, text, 16, k - 1)
    BY <1>1, <1>6, <1>8 DEF Parses, Adds, ParsedStep, ExactStep
  <2> QED BY <2>1, <2>2, <2>3, ExactUnique
<1>10. a[k] > SizeMax
  <2> DEFINE d == DigitValue(text[k])
  <2>1. text[k] \in Digits /\ d \in Nat /\ ~(d >= 16) /\ v[k - 1] \in Nat /\ a[k - 1] = v[k - 1]
        /\ v[k - 1] # NoSize
    <3>1. k \in 1..n /\ k - 1 \in 0..(k - 1) /\ k - 1 \in 0..n
      BY <1>6, <1>7
    <3>2. text[k] \in Digits
      BY <3>1
    <3> QED BY <1>1, <1>8, <1>9, <3>1, <3>2, DigitOf16
  <2>2. a[k] = v[k - 1] * 16 + d
    BY <1>2, <1>6, <1>7, <2>1 DEF Adds, ExactStep
  <2>3. v[k] = IF v[k - 1] > (SizeMax - d) \div 16 THEN NoSize ELSE v[k - 1] * 16 + d
    BY <1>1, <1>6, <1>7, <2>1 DEF Parses, ParsedStep
  <2> HIDE DEF d
  <2>4. CASE v[k - 1] > (SizeMax - d) \div 16
    BY <1>0, <2>1, <2>2, <2>4, TooLarge
  <2>5. CASE ~(v[k - 1] > (SizeMax - d) \div 16)
    <3>1. a[k] = NoSize
      BY <1>6, <2>2, <2>3, <2>5
    <3> QED BY <1>0, <3>1
  <2> QED BY <2>4, <2>5
<1> DEFINE small == {i \in Nat : k <= i /\ i <= n /\ ~(a[i] > SizeMax)}
<1>11. small = {}
  <2>1. SUFFICES ASSUME small # {} PROVE FALSE
    OBVIOUS
  <2>2. PICK i \in small : \A m \in small : i <= m
    BY <2>1, Smallest
  <2>3. i # k /\ i \in 1..n /\ k <= i - 1 /\ i - 1 \in Nat /\ i - 1 <= n /\ ~(i <= i - 1)
    BY <1>6, <1>10, <2>2
  <2>4. a[i - 1] > SizeMax
    BY <2>2, <2>3
  <2>5. a[i] = a[i - 1] * 16 + DigitValue(text[i]) /\ DigitValue(text[i]) \in Nat /\ a[i - 1] \in Nat
    BY <1>2, <2>3, DigitType DEF Adds, ExactStep
  <2>6. a[i] > SizeMax
    BY <1>0, <2>4, <2>5
  <2> QED BY <2>2, <2>6
<1> QED BY <1>4, <1>6, <1>11

--------------------------------------------------------------------------------
(* Size lines *)

Semi == ";"
Semicolon == <<Semi>>

LEMMA SemicolonType == Semicolon \in Texts /\ Len(Semicolon) = 1 /\ Semicolon[1] = Semi
<1> DEFINE S == Symbols
<1>1. Semi \in S
  BY Zenon DEF Symbols, Semi
<1> HIDE DEF S
<1>2. Semicolon \in Seq(S) /\ Len(Semicolon) = 1 /\ Semicolon[1] = Semi
  BY <1>1 DEF Semicolon
<1> QED BY <1>2 DEF Texts, S

LEMMA FindSemicolon ==
    ASSUME NEW line \in Texts
    PROVE  LET s == Find(line, Semicolon, 1)
           IN  /\ s \in Nat /\ s <= Len(line)
               /\ s = 0 <=> \A i \in DOMAIN line : line[i] # Semi
               /\ s # 0 => line[s] = Semi
<1> DEFINE s == Find(line, Semicolon, 1)
           hits == Hits(line, Semicolon, 1)
<1>1. Len(line) \in Nat /\ DOMAIN line = 1..Len(line) /\ Len(Semicolon) = 1
  BY TextType, SemicolonType
<1>2. hits = {i \in 1..Len(line) : line[i] = Semi}
  <2>1. ASSUME NEW i \in 1..Len(line)
        PROVE  SubSeq(line, i, i) = Semicolon <=> line[i] = Semi
    <3> DEFINE x == SubSeq(line, i, i)
    <3>1. x \in Texts /\ Len(x) = 1 /\ x[1] = line[i]
      <4>1. /\ x \in Texts /\ Len(x) = IF i <= i THEN (i - i) + 1 ELSE 0
            /\ \A k \in 1..((i - i) + 1) : x[k] = line[(i + k) - 1]
        BY <1>1, Cut
      <4>2. (i - i) + 1 = 1 /\ (i + 1) - 1 = i /\ i <= i
        BY <1>1
      <4> HIDE DEF x
      <4>3. 1 \in 1..((i - i) + 1)
        BY <4>2
      <4> QED BY <4>1, <4>2, <4>3
    <3> HIDE DEF x
    <3>2. x = Semicolon => line[i] = Semi
      BY <3>1, SemicolonType
    <3>3. ASSUME line[i] = Semi PROVE x = Semicolon
      <4>1. \A k \in 1..Len(x) : x[k] = Semicolon[k]
        BY <3>1, <3>3, SemicolonType
      <4> QED BY <3>1, SemicolonType, <4>1, CutEqual
    <3> QED BY <3>2, <3>3 DEF x
  <2>2. hits = {i \in 1..Len(line) : SubSeq(line, i, i) = Semicolon}
    <3>1. Len(line) - 1 + 1 = Len(line) /\ \A i \in 1..Len(line) : i + 1 - 1 = i
      BY <1>1
    <3> QED BY <1>1, <3>1 DEF Hits
  <2> HIDE DEF hits
  <2> QED BY <2>1, <2>2
<1>3. /\ hits = {} => s = 0
      /\ hits # {} => s \in hits /\ \A i \in hits : s <= i
  <2>1. 1 \in Nat \ {0} /\ Len(Semicolon) \in Nat
    BY <1>1
  <2> QED BY <1>1, <2>1, FindFirst
<1> SUFFICES /\ s \in Nat /\ s <= Len(line)
             /\ (s = 0 <=> \A i \in DOMAIN line : line[i] # Semi)
             /\ (s # 0 => line[s] = Semi)
  OBVIOUS
<1> HIDE DEF hits, s
<1>4. CASE hits = {}
  BY <1>1, <1>2, <1>3, <1>4
<1>5. CASE hits # {}
  BY <1>1, <1>2, <1>3, <1>5
<1> QED BY <1>4, <1>5

\* A size line: its digits, and what may follow them.
LEMMA SizeTextIs ==
    ASSUME NEW line \in Texts
    PROVE  LET s == Find(line, Semicolon, 1)
               text == SizeText(line)
           IN  /\ text = IF s = 0 THEN line ELSE SubSeq(line, 1, s - 1)
               /\ text \in Texts
               /\ Len(text) = IF s = 0 THEN Len(line) ELSE s - 1
               /\ \A i \in 1..Len(text) : text[i] = line[i]
<1> DEFINE s == Find(line, Semicolon, 1)
           text == SizeText(line)
<1>1. s \in Nat /\ s <= Len(line) /\ (s = 0 <=> \A i \in DOMAIN line : line[i] # Semi)
  BY FindSemicolon
<1>2. text = IF s = 0 THEN line ELSE SubSeq(line, 1, s - 1)
  <2>1. text = IF \E i \in DOMAIN line : line[i] = Semi THEN SubSeq(line, 1, s - 1) ELSE line
    BY Zenon DEF SizeText, Semicolon, Semi
  <2> HIDE DEF s, text
  <2> QED BY <1>1, <2>1
<1>3. Len(line) \in Nat
  BY TextType
<1> SUFFICES /\ text = IF s = 0 THEN line ELSE SubSeq(line, 1, s - 1)
             /\ text \in Texts
             /\ Len(text) = IF s = 0 THEN Len(line) ELSE s - 1
             /\ \A i \in 1..Len(text) : text[i] = line[i]
  OBVIOUS
<1> HIDE DEF s, text
<1>4. CASE s = 0
  BY <1>2, <1>4
<1>5. CASE s # 0
  <2> DEFINE x == SubSeq(line, 1, s - 1)
  <2>1. s - 1 \in Nat /\ s - 1 <= Len(line) /\ 1 \in Nat \ {0}
    BY <1>1, <1>3, <1>5
  <2>2. /\ x \in Texts /\ Len(x) = IF 1 <= s - 1 THEN ((s - 1) - 1) + 1 ELSE 0
        /\ \A i \in 1..(((s - 1) - 1) + 1) : x[i] = line[(1 + i) - 1]
    BY <2>1, Cut
  <2>3. text = x
    BY <1>2, <1>5
  <2> HIDE DEF x
  <2>4. Len(x) = s - 1 /\ \A i \in 1..(s - 1) : x[i] = line[i]
    BY <2>1, <2>2
  <2> QED BY <1>2, <1>5, <2>2, <2>3, <2>4
<1> QED BY <1>4, <1>5

LEMMA DigitsPrint ==
    /\ \A d \in Digits : d \notin Controls
    /\ Semi \notin Controls
  BY Zenon DEF Digits, Controls, Semi

\* What the extension of a size line is looked at for.
LEMMA PrintableBehind ==
    ASSUME NEW line \in Texts, NEW s \in 1..Len(line)
    PROVE  Printable(SubSeq(line, s + 1, Len(line)))
             <=> \A i \in (s + 1)..Len(line) : line[i] \notin Controls
<1> DEFINE x == SubSeq(line, s + 1, Len(line))
           n == Len(line)
<1>1. n \in Nat /\ s \in 1..n
  BY TextType
<1>2. x \in Texts /\ Len(x) = n - s /\ \A i \in 1..(n - s) : x[i] = line[s + i]
  <2>1. s + 1 \in Nat \ {0} /\ n <= n
    BY <1>1
  <2>2. /\ x \in Texts /\ Len(x) = IF s + 1 <= n THEN (n - (s + 1)) + 1 ELSE 0
        /\ \A i \in 1..((n - (s + 1)) + 1) : x[i] = line[((s + 1) + i) - 1]
    BY <1>1, <2>1, Cut
  <2> HIDE DEF x
  <2>3. (n - (s + 1)) + 1 = n - s /\ \A i \in 1..(n - s) : ((s + 1) + i) - 1 = s + i
    BY <1>1
  <2> HIDE DEF n
  <2> QED BY <1>1, <2>2, <2>3
<1> HIDE DEF x
<1>3. DOMAIN x = 1..(n - s)
  BY <1>2, TextType
<1>4. Printable(x) <=> \A i \in 1..(n - s) : x[i] \notin Controls
  BY <1>3 DEF Printable
<1>5. ASSUME \A i \in 1..(n - s) : x[i] \notin Controls, NEW i \in (s + 1)..n
      PROVE  line[i] \notin Controls
  <2>1. i - s \in 1..(n - s) /\ s + (i - s) = i
    BY <1>1
  <2> QED BY <1>2, <1>5, <2>1
<1>6. ASSUME \A i \in (s + 1)..n : line[i] \notin Controls, NEW i \in 1..(n - s)
      PROVE  x[i] \notin Controls
  <2>1. s + i \in (s + 1)..n
    BY <1>1
  <2> QED BY <1>2, <1>6, <2>1
<1> QED BY <1>4, <1>5, <1>6 DEF x

LEMMA SizeLineType ==
    ASSUME NEW line \in Texts, IsSizeLine(line)
    PROVE  ExactSize(SizeText(line), 16) \in Nat
<1> DEFINE text == SizeText(line)
<1>1. text \in Texts
  BY SizeTextIs
<1>2. Len(text) \in Nat /\ \A i \in 1..Len(text) : text[i] \in Digits
  BY <1>1, TextType DEF IsSizeLine
<1>3. 16 \in Nat
  OBVIOUS
<1> QED BY <1>2, <1>3, ExactType

\* finish_size_line of the parser accepts size lines, for what they say, and
\* refuses nothing but what is no size line or too large for any limit.
LEMMA SizeLineRead ==
    ASSUME NEW line \in Texts
    PROVE  /\ SizeOf(line) \in Nat
           /\ SizeOf(line) # NoSize =>
                IsSizeLine(line) /\ SizeOf(line) = ExactSize(SizeText(line), 16)
           /\ SizeOf(line) = NoSize /\ IsSizeLine(line) =>
                ExactSize(SizeText(line), 16) > SizeMax
<1> DEFINE s == Find(line, Semicolon, 1)
           text == SizeText(line)
           size == ParsedSize(text, 16)
           clean == s = 0 \/ Printable(SubSeq(line, s + 1, Len(line)))
<1>1. /\ s \in Nat /\ s <= Len(line) /\ (s # 0 => line[s] = Semi)
  BY FindSemicolon
<1>2. /\ text \in Texts /\ Len(text) = IF s = 0 THEN Len(line) ELSE s - 1
      /\ \A i \in 1..Len(text) : text[i] = line[i]
      /\ text = IF s = 0 THEN line ELSE SubSeq(line, 1, s - 1)
  BY SizeTextIs
<1>3. Len(line) \in Nat /\ DOMAIN line = 1..Len(line) /\ Len(text) \in Nat /\ 16 \in Nat
      /\ DOMAIN text = 1..Len(text)
  BY <1>2, TextType
<1>4. SizeOf(line) = IF clean THEN size ELSE NoSize
  <2>1. SizeOf(line) = IF s = 0 THEN ParsedSize(line, 16)
                       ELSE IF ~Printable(SubSeq(line, s + 1, Len(line))) THEN NoSize
                       ELSE ParsedSize(SubSeq(line, 1, s - 1), 16)
    BY Zenon DEF SizeOf, HexSize, Semicolon, Semi
  <2> HIDE DEF s, text
  <2> QED BY <1>2, <2>1
<1>5. clean <=> s = 0 \/ \A i \in (s + 1)..Len(line) : line[i] \notin Controls
  <2>1. s # 0 => s \in 1..Len(line)
    BY <1>1, <1>3
  <2> HIDE DEF s
  <2> QED BY <2>1, PrintableBehind
<1>6. size \in Nat /\ (size # NoSize => size = ExactSize(text, 16))
  BY <1>3, ParsedIsExact
<1>7. size # NoSize => text # <<>> /\ \A i \in 1..Len(text) : text[i] \in Digits
  BY <1>3, AllDigits
<1>8. text # <<>> /\ (\A i \in 1..Len(text) : text[i] \in Digits) /\ size = NoSize
        => ExactSize(text, 16) > SizeMax
  BY <1>3, RefusedIsLarge
<1>9. NoSize \in Nat
  BY SizeAssumption DEF NoSize
<1>10. IsSizeLine(line) <=> /\ \A i \in 1..Len(line) : line[i] \notin Controls
                            /\ text # <<>> /\ \A i \in 1..Len(text) : text[i] \in Digits
  BY <1>3 DEF IsSizeLine, Printable
<1> HIDE DEF s, text, size, clean
<1>11. ASSUME clean, \A i \in 1..Len(text) : text[i] \in Digits, NEW i \in 1..Len(line)
       PROVE  line[i] \notin Controls
  <2>1. CASE i \in 1..Len(text)
    BY <1>2, <1>11, <2>1, DigitsPrint
  <2>2. CASE i \notin 1..Len(text)
    <3>1. s # 0 /\ (i = s \/ i \in (s + 1)..Len(line))
      BY <1>1, <1>2, <1>3, <2>2
    <3> QED BY <1>1, <1>5, <1>11, <3>1, DigitsPrint
  <2> QED BY <2>1, <2>2
<1>12. IsSizeLine(line) => clean
  <2>1. \A i \in (s + 1)..Len(line) : i \in 1..Len(line)
    BY <1>1, <1>3
  <2> QED BY <1>5, <1>10, <2>1
<1>13. CASE ~clean
  BY <1>4, <1>9, <1>12, <1>13 DEF text
<1>14. CASE clean /\ size # NoSize
  BY <1>4, <1>6, <1>7, <1>10, <1>11, <1>14 DEF text
<1>15. CASE clean /\ size = NoSize
  BY <1>4, <1>6, <1>8, <1>9, <1>10, <1>15 DEF text
<1> QED BY <1>13, <1>14, <1>15

--------------------------------------------------------------------------------
(* Chunked bodies *)

\* What the recursions of ChunkedLength say of position i.
TrailerStep(f, b, i) ==
    LET end == Find(b, CRLF, i)
    IN  IF end = 0 THEN 0
        ELSE IF end = i THEN end + 1
        ELSE IF ValidTrailer(LineTo(b, i, end)) THEN f[end + 2] ELSE 0

SolvesTrailers(f, b, k) ==
    \A i \in k..(Len(b) + 1) : f[i] = TrailerStep(f, b, i) /\ (f[i] = 0 \/ f[i] \in (i + 1)..Len(b))

LEMMA TrailerStepType ==
    ASSUME NEW b \in Texts, NEW i \in 1..(Len(b) + 1), NEW f, SolvesTrailers(f, b, i + 1)
    PROVE  TrailerStep(f, b, i) = 0 \/ TrailerStep(f, b, i) \in (i + 1)..Len(b)
<1> DEFINE end == Find(b, CRLF, i)
<1>1. Len(b) \in Nat
  BY TextType
<1>2. end # 0 => end \in i..(Len(b) - 1)
  <2>1. i \in Nat \ {0}
    BY <1>1
  <2> QED BY <2>1, FindLine DEF FirstLineEnd
<1>3. \/ TrailerStep(f, b, i) = 0
      \/ end # 0 /\ end = i /\ TrailerStep(f, b, i) = end + 1
      \/ end # 0 /\ TrailerStep(f, b, i) = f[end + 2]
  BY Zenon DEF TrailerStep
<1> HIDE DEF end
<1>4. ASSUME end # 0 PROVE f[end + 2] = 0 \/ f[end + 2] \in (i + 1)..Len(b)
  <2>1. end + 2 \in (i + 1)..(Len(b) + 1)
    BY <1>1, <1>2, <1>4
  <2>2. f[end + 2] = 0 \/ f[end + 2] \in ((end + 2) + 1)..Len(b)
    BY <2>1 DEF SolvesTrailers
  <2> QED BY <1>1, <1>2, <1>4, <2>2
<1>5. CASE TrailerStep(f, b, i) = 0
  BY <1>5
<1>6. CASE end # 0 /\ end = i /\ TrailerStep(f, b, i) = end + 1
  <2>1. end + 1 \in (i + 1)..Len(b)
    BY <1>1, <1>2, <1>6
  <2> QED BY <1>6, <2>1
<1>7. CASE end # 0 /\ TrailerStep(f, b, i) = f[end + 2]
  BY <1>4, <1>7
<1> QED BY <1>3, <1>5, <1>6, <1>7

\* A step looks only behind its position.
LEMMA TrailerStepLocal ==
    ASSUME NEW b \in Texts, NEW i \in 1..(Len(b) + 1), NEW f, NEW g,
           \A k \in (i + 1)..(Len(b) + 1) : f[k] = g[k]
    PROVE  TrailerStep(f, b, i) = TrailerStep(g, b, i)
<1> DEFINE end == Find(b, CRLF, i)
<1>1. Len(b) \in Nat
  BY TextType
<1>2. end # 0 => end + 2 \in (i + 1)..(Len(b) + 1)
  <2>1. i \in Nat \ {0}
    BY <1>1
  <2>2. end # 0 => end \in i..(Len(b) - 1)
    BY <2>1, FindLine DEF FirstLineEnd
  <2> QED BY <1>1, <2>2
<1>3. end # 0 => f[end + 2] = g[end + 2]
  BY <1>2
<1> QED BY <1>3, Zenon DEF TrailerStep

LEMMA TrailersExist ==
    ASSUME NEW b \in Texts
    PROVE  \E f : f = [i \in 1..(Len(b) + 1) |-> f[i]] /\ SolvesTrailers(f, b, 1)
<1> DEFINE n == Len(b) + 1
           Solves(f, m) == f = [i \in (n + 1 - m)..n |-> f[i]] /\ SolvesTrailers(f, b, n + 1 - m)
           unsolved == {m \in Nat : m <= n /\ ~\E f : Solves(f, m)}
<1>0. Len(b) \in Nat /\ n \in Nat /\ n + 1 - n = 1 /\ n + 1 - 0 = n + 1
  BY TextType
<1>1. SUFFICES ASSUME unsolved # {} PROVE FALSE
  <2>1. n \notin unsolved => \E f : Solves(f, n)
    BY <1>0
  <2>2. n + 1 - n = 1 /\ Len(b) + 1 = n
    BY <1>0
  <2> QED BY <2>1, <2>2
<1>2. PICK m \in unsolved : \A k \in unsolved : m <= k
  BY <1>1, Smallest
<1>3. m # 0
  <2> DEFINE f == [i \in (n + 1)..n |-> 0]
  <2>1. \A i \in (n + 1)..n : FALSE
    BY <1>0
  <2>2. f = [i \in (n + 1)..n |-> f[i]]
    OBVIOUS
  <2>3. SolvesTrailers(f, b, n + 1)
    BY <2>1 DEF SolvesTrailers
  <2>4. Solves(f, 0)
    BY <1>0, <2>2, <2>3
  <2> QED BY <1>2, <2>4
<1>4. PICK f : Solves(f, m - 1)
  <2>1. m - 1 \in Nat /\ ~(m <= m - 1) /\ m - 1 <= n
    BY <1>0, <1>2, <1>3
  <2>2. m - 1 \notin unsolved
    BY <1>2, <2>1
  <2> QED BY <2>1, <2>2
<1> DEFINE k == n + 1 - m
           w == [i \in k..n |-> IF i = k THEN TrailerStep(f, b, k) ELSE f[i]]
<1>5. k \in 1..n /\ n + 1 - (m - 1) = k + 1 /\ n = Len(b) + 1
  BY <1>0, <1>2, <1>3
<1>6. SolvesTrailers(f, b, k + 1)
  BY <1>4, <1>5
<1> HIDE DEF k
<1>7. TrailerStep(f, b, k) = 0 \/ TrailerStep(f, b, k) \in (k + 1)..Len(b)
  BY <1>5, <1>6, TrailerStepType
<1>8. \A i \in (k + 1)..n : w[i] = f[i]
  BY <1>0, <1>5
<1>9. w[k] = TrailerStep(f, b, k)
  BY <1>0, <1>5
<1>10. w = [i \in k..n |-> w[i]]
  OBVIOUS
<1> HIDE DEF w
<1>11. ASSUME NEW i \in k..n
       PROVE  w[i] = TrailerStep(w, b, i) /\ (w[i] = 0 \/ w[i] \in (i + 1)..Len(b))
  <2>1. TrailerStep(w, b, i) = TrailerStep(f, b, i)
    <3>1. i \in 1..(Len(b) + 1) /\ \A j \in (i + 1)..(Len(b) + 1) : w[j] = f[j]
      BY <1>0, <1>5, <1>8
    <3> QED BY <3>1, TrailerStepLocal
  <2>2. CASE i = k
    BY <1>7, <1>9, <2>1, <2>2
  <2>3. CASE i # k
    <3>1. i \in (k + 1)..n
      BY <1>0, <1>5, <2>3
    <3> QED BY <1>5, <1>6, <1>8, <2>1, <3>1 DEF SolvesTrailers
  <2> QED BY <2>2, <2>3
<1>12. SolvesTrailers(w, b, k)
  BY <1>5, <1>11 DEF SolvesTrailers
<1>13. Solves(w, m)
  BY <1>10, <1>12 DEF k
<1> QED BY <1>2, <1>13

Trailers(b) == CHOOSE f : f = [i \in 1..(Len(b) + 1) |-> TrailerStep(f, b, i)]
TrailerEnd(b, i) == Trailers(b)[i]

LEMMA TrailersUnfold ==
    ASSUME NEW b \in Texts
    PROVE  Trailers(b) = [i \in 1..(Len(b) + 1) |-> TrailerStep(Trailers(b), b, i)]
<1> DEFINE Q(f) == f = [i \in 1..(Len(b) + 1) |-> TrailerStep(f, b, i)]
<1>1. PICK f : f = [i \in 1..(Len(b) + 1) |-> f[i]] /\ SolvesTrailers(f, b, 1)
  BY TrailersExist
<1>2. Q(f)
  BY <1>1 DEF SolvesTrailers
<1>3. Q(CHOOSE g : Q(g))
  BY <1>2, Zenon
<1> QED BY <1>3 DEF Trailers

\* Where the trailers that go on at position i end: behind it, if they do.
LEMMA TrailerEndIs ==
    ASSUME NEW b \in Texts, NEW i \in 1..(Len(b) + 1)
    PROVE  /\ TrailerEnd(b, i) = LET end == Find(b, CRLF, i)
                                 IN  IF end = 0 THEN 0
                                     ELSE IF end = i THEN end + 1
                                     ELSE IF ValidTrailer(LineTo(b, i, end))
                                     THEN TrailerEnd(b, end + 2) ELSE 0
           /\ TrailerEnd(b, i) = 0 \/ TrailerEnd(b, i) \in (i + 1)..Len(b)
<1> DEFINE n == Len(b) + 1
           f == Trailers(b)
<1>1. f = [j \in 1..n |-> TrailerStep(f, b, j)]
  BY TrailersUnfold
<1>2. f[i] = TrailerStep(f, b, i)
  BY <1>1
<1>3. Len(b) \in Nat /\ n \in Nat
  BY TextType
<1> DEFINE bad == {m \in Nat : m <= n /\ ~(f[n + 1 - m] = 0 \/ f[n + 1 - m] \in ((n + 1 - m) + 1)..Len(b)) /\ m # 0}
<1> HIDE DEF f
<1>4. bad = {}
  <2>1. SUFFICES ASSUME bad # {} PROVE FALSE
    OBVIOUS
  <2>2. PICK m \in bad : \A k \in bad : m <= k
    BY <2>1, Smallest
  <2> DEFINE k == n + 1 - m
  <2>3. k \in 1..n /\ ~(f[k] = 0 \/ f[k] \in (k + 1)..Len(b)) /\ n = Len(b) + 1
    BY <1>3, <2>2
  <2>4. SolvesTrailers(f, b, k + 1)
    <3>1. SUFFICES ASSUME NEW j \in (k + 1)..n
                   PROVE  f[j] = TrailerStep(f, b, j) /\ (f[j] = 0 \/ f[j] \in (j + 1)..Len(b))
      BY <2>3 DEF SolvesTrailers
    <3>2. j \in 1..n /\ n + 1 - (n + 1 - j) = j /\ n + 1 - j \in Nat /\ n + 1 - j <= n
          /\ ~(m <= n + 1 - j) /\ n + 1 - j # 0
      BY <1>3, <2>2, <2>3
    <3>3. n + 1 - j \notin bad
      BY <2>2, <3>2
    <3>4. f[j] = 0 \/ f[j] \in (j + 1)..Len(b)
      BY <3>2, <3>3
    <3> QED BY <1>1, <3>2, <3>4
  <2> HIDE DEF k
  <2>5. f[k] = TrailerStep(f, b, k)
    BY <1>1, <2>3
  <2> QED BY <2>3, <2>4, <2>5, TrailerStepType
<1>5. f[i] = 0 \/ f[i] \in (i + 1)..Len(b)
  <2>1. n + 1 - i \in Nat /\ n + 1 - i <= n /\ n + 1 - (n + 1 - i) = i /\ n + 1 - i # 0
    BY <1>3
  <2>2. n + 1 - i \notin bad
    BY <1>4
  <2> QED BY <2>1, <2>2
<1>6. TrailerEnd(b, i) = f[i]
  BY DEF TrailerEnd, f
<1>7. f[i] = LET end == Find(b, CRLF, i)
             IN  IF end = 0 THEN 0
                 ELSE IF end = i THEN end + 1
                 ELSE IF ValidTrailer(LineTo(b, i, end)) THEN f[end + 2] ELSE 0
  BY <1>2, Zenon DEF TrailerStep
<1> QED BY <1>5, <1>6, <1>7, Zenon DEF TrailerEnd, f

LineOf(b, i) == LineTo(b, i, Find(b, CRLF, i))
SizeAt(b, i) == ExactSize(SizeText(LineOf(b, i)), 16)
DataEnd(b, i) == Find(b, CRLF, i) + 2 + SizeAt(b, i)

\* A size line of at most longestLine bytes stands at position i.
SizeLineAt(b, longestLine, i) ==
    Find(b, CRLF, i) # 0 /\ ~(Len(LineOf(b, i)) > longestLine) /\ IsSizeLine(LineOf(b, i))

\* The body ends with the trailers behind the size line that ends at end.
BodyWithTrailers(b, end) ==
    LET last == TrailerEnd(b, end + 2)
    IN  IF last = 0 \/ last - (end + 1) > MaxHeader THEN 0 ELSE last

ChunkStep(f, b, longestLine, i, room) ==
    IF Find(b, CRLF, i) = 0 \/ Len(LineOf(b, i)) > longestLine \/ ~IsSizeLine(LineOf(b, i))
    THEN 0
    ELSE IF SizeAt(b, i) = 0 THEN BodyWithTrailers(b, Find(b, CRLF, i))
    ELSE IF SizeAt(b, i) > room \/ DataEnd(b, i) + 1 > Len(b) THEN 0
    ELSE IF SubSeq(b, DataEnd(b, i), DataEnd(b, i) + 1) # CRLF THEN 0
    ELSE f[DataEnd(b, i) + 2][room - SizeAt(b, i)]

Chunks(b, longestLine) ==
    CHOOSE f : f = [i \in 1..(Len(b) + 1) |->
                      [room \in 0..MaxBody |-> ChunkStep(f, b, longestLine, i, room)]]
BodyEnd(b, longestLine, i, room) == Chunks(b, longestLine)[i][room]

LEMMA LineOfType ==
    ASSUME NEW b \in Texts, NEW i \in Nat \ {0}
    PROVE  LET end == Find(b, CRLF, i)
           IN  end # 0 => /\ end \in i..(Len(b) - 1) /\ LineEnd(b, end)
                          /\ LineOf(b, i) \in Texts /\ Len(LineOf(b, i)) = end - i
<1> DEFINE end == Find(b, CRLF, i)
<1> SUFFICES ASSUME end # 0
             PROVE  /\ end \in i..(Len(b) - 1) /\ LineEnd(b, end)
                    /\ LineOf(b, i) \in Texts /\ Len(LineOf(b, i)) = end - i
  OBVIOUS
<1>1. end \in i..(Len(b) - 1) /\ LineEnd(b, end)
  BY FindLine DEF FirstLineEnd
<1>2. Len(b) \in Nat
  BY TextType
<1>3. LineOf(b, i) = SubSeq(b, i, end - 1)
  BY DEF LineOf, LineTo
<1> HIDE DEF end
<1> DEFINE x == SubSeq(b, i, end - 1)
<1>4. x \in Texts /\ Len(x) = IF i <= end - 1 THEN ((end - 1) - i) + 1 ELSE 0
  <2>1. end - 1 \in Nat /\ end - 1 <= Len(b)
    BY <1>1, <1>2
  <2> QED BY <2>1, Cut
<1> HIDE DEF x
<1>5. Len(x) = end - i
  BY <1>1, <1>2, <1>4
<1> QED BY <1>1, <1>3, <1>4, <1>5 DEF x

LEMMA SizeAtType ==
    ASSUME NEW b \in Texts, NEW i \in Nat \ {0}, NEW longestLine, SizeLineAt(b, longestLine, i)
    PROVE  /\ SizeAt(b, i) \in Nat
           /\ Find(b, CRLF, i) \in i..(Len(b) - 1)
           /\ DataEnd(b, i) = Find(b, CRLF, i) + 2 + SizeAt(b, i)
<1>1. Find(b, CRLF, i) # 0 /\ IsSizeLine(LineOf(b, i))
  BY DEF SizeLineAt
<1>2. Find(b, CRLF, i) \in i..(Len(b) - 1) /\ LineOf(b, i) \in Texts
  BY <1>1, LineOfType
<1>3. SizeAt(b, i) \in Nat
  BY <1>1, <1>2, SizeLineType DEF SizeAt
<1> QED BY <1>2, <1>3 DEF DataEnd

LEMMA ChunkedLengthIs ==
    ASSUME NEW b, NEW start, NEW longestLine
    PROVE  ChunkedLength(b, start, longestLine) = BodyEnd(b, longestLine, start, MaxBody)
  BY Zenon DEF ChunkedLength, BodyEnd, Chunks, ChunkStep, BodyWithTrailers, TrailerEnd, Trailers,
     TrailerStep, LineOf, SizeAt, DataEnd

\* There is a line end behind the data that end before position next.
ChunkEnds(b, next) == ~(next + 1 > Len(b)) /\ SubSeq(b, next, next + 1) = CRLF

LEMMA ChunkStepIs ==
    ASSUME NEW f, NEW b, NEW longestLine, NEW i, NEW room
    PROVE  ChunkStep(f, b, longestLine, i, room) =
             IF ~SizeLineAt(b, longestLine, i) THEN 0
             ELSE IF SizeAt(b, i) = 0 THEN BodyWithTrailers(b, Find(b, CRLF, i))
             ELSE IF SizeAt(b, i) > room \/ ~ChunkEnds(b, DataEnd(b, i)) THEN 0
             ELSE f[DataEnd(b, i) + 2][room - SizeAt(b, i)]
  BY Zenon DEF ChunkStep, SizeLineAt, ChunkEnds

\* The body ends behind i, if it does.
EndsBehind(end, b, i) == end = 0 \/ end \in (i + 1)..Len(b)

SolvesChunks(f, b, longestLine, k) ==
    \A i \in k..(Len(b) + 1), room \in 0..MaxBody :
      /\ f[i][room] = ChunkStep(f, b, longestLine, i, room)
      /\ EndsBehind(f[i][room], b, i)

LEMMA TrailersBehind ==
    ASSUME NEW b \in Texts, NEW end \in 1..(Len(b) - 1)
    PROVE  EndsBehind(BodyWithTrailers(b, end), b, end)
<1>1. Len(b) \in Nat
  BY TextType
<1>2. end + 2 \in 1..(Len(b) + 1)
  BY <1>1
<1>3. TrailerEnd(b, end + 2) = 0 \/ TrailerEnd(b, end + 2) \in ((end + 2) + 1)..Len(b)
  BY <1>2, TrailerEndIs
<1>4. BodyWithTrailers(b, end) = 0 \/ BodyWithTrailers(b, end) = TrailerEnd(b, end + 2)
  BY Zenon DEF BodyWithTrailers
<1> QED BY <1>1, <1>3, <1>4 DEF EndsBehind

\* What a step that goes on at the next chunk looks at.
LEMMA NextChunk ==
    ASSUME NEW b \in Texts, NEW longestLine, NEW i \in 1..(Len(b) + 1), NEW room \in 0..MaxBody,
           SizeLineAt(b, longestLine, i), SizeAt(b, i) # 0, ~(SizeAt(b, i) > room),
           ~(DataEnd(b, i) + 1 > Len(b))
    PROVE  DataEnd(b, i) + 2 \in (i + 1)..(Len(b) + 1) /\ room - SizeAt(b, i) \in 0..MaxBody
<1>1. Len(b) \in Nat /\ i \in Nat \ {0} /\ MaxBody \in Nat
  BY TextType, SizeAssumption
<1>2. /\ SizeAt(b, i) \in Nat /\ Find(b, CRLF, i) \in i..(Len(b) - 1)
      /\ DataEnd(b, i) = Find(b, CRLF, i) + 2 + SizeAt(b, i)
  BY <1>1, SizeAtType
<1> QED BY <1>1, <1>2

LEMMA ChunkStepType ==
    ASSUME NEW b \in Texts, NEW longestLine, NEW i \in 1..(Len(b) + 1), NEW room \in 0..MaxBody,
           NEW f, SolvesChunks(f, b, longestLine, i + 1)
    PROVE  EndsBehind(ChunkStep(f, b, longestLine, i, room), b, i)
<1> DEFINE step == ChunkStep(f, b, longestLine, i, room)
<1>1. Len(b) \in Nat /\ i \in Nat \ {0}
  BY TextType
<1>2. \/ step = 0
      \/ SizeLineAt(b, longestLine, i) /\ step = BodyWithTrailers(b, Find(b, CRLF, i))
      \/ /\ SizeLineAt(b, longestLine, i) /\ SizeAt(b, i) # 0 /\ ~(SizeAt(b, i) > room)
         /\ ChunkEnds(b, DataEnd(b, i))
         /\ step = f[DataEnd(b, i) + 2][room - SizeAt(b, i)]
  BY ChunkStepIs
<1> HIDE DEF step
<1>3. CASE step = 0
  BY <1>3 DEF EndsBehind, step
<1>4. CASE SizeLineAt(b, longestLine, i) /\ step = BodyWithTrailers(b, Find(b, CRLF, i))
  <2> DEFINE end == Find(b, CRLF, i)
  <2>1. end \in i..(Len(b) - 1)
    BY <1>1, <1>4, SizeAtType
  <2> HIDE DEF end
  <2>2. EndsBehind(BodyWithTrailers(b, end), b, end)
    BY <1>1, <2>1, TrailersBehind
  <2>3. EndsBehind(step, b, end)
    BY <1>4, <2>2 DEF end
  <2> QED BY <1>1, <2>1, <2>3 DEF EndsBehind, step
<1>5. CASE /\ SizeLineAt(b, longestLine, i) /\ SizeAt(b, i) # 0 /\ ~(SizeAt(b, i) > room)
           /\ ChunkEnds(b, DataEnd(b, i))
           /\ step = f[DataEnd(b, i) + 2][room - SizeAt(b, i)]
  <2> DEFINE k == DataEnd(b, i) + 2
  <2>1. k \in (i + 1)..(Len(b) + 1) /\ room - SizeAt(b, i) \in 0..MaxBody
    BY <1>5, NextChunk DEF ChunkEnds
  <2> HIDE DEF k
  <2>2. EndsBehind(f[k][room - SizeAt(b, i)], b, k)
    BY <2>1 DEF SolvesChunks
  <2>3. EndsBehind(step, b, k)
    BY <1>5, <2>2 DEF k
  <2> QED BY <1>1, <2>1, <2>3 DEF EndsBehind, step
<1> QED BY <1>2, <1>3, <1>4, <1>5

LEMMA ChunkStepLocal ==
    ASSUME NEW b \in Texts, NEW longestLine, NEW i \in 1..(Len(b) + 1), NEW room \in 0..MaxBody,
           NEW f, NEW g, \A k \in (i + 1)..(Len(b) + 1) : f[k] = g[k]
    PROVE  ChunkStep(f, b, longestLine, i, room) = ChunkStep(g, b, longestLine, i, room)
<1> DEFINE goes == /\ SizeLineAt(b, longestLine, i) /\ SizeAt(b, i) # 0 /\ ~(SizeAt(b, i) > room)
                   /\ ChunkEnds(b, DataEnd(b, i))
<1>1. goes => f[DataEnd(b, i) + 2] = g[DataEnd(b, i) + 2]
  BY NextChunk DEF ChunkEnds
<1>2. CASE goes
  BY <1>1, <1>2, ChunkStepIs
<1>3. CASE ~goes
  BY <1>3, ChunkStepIs
<1> QED BY <1>2, <1>3

LEMMA ChunksExist ==
    ASSUME NEW b \in Texts, NEW longestLine
    PROVE  \E f : /\ f = [i \in 1..(Len(b) + 1) |-> [room \in 0..MaxBody |-> f[i][room]]]
                  /\ SolvesChunks(f, b, longestLine, 1)
<1> DEFINE n == Len(b) + 1
           Rooms == 0..MaxBody
           Solves(f, m) == /\ f = [i \in (n + 1 - m)..n |-> [room \in Rooms |-> f[i][room]]]
                           /\ SolvesChunks(f, b, longestLine, n + 1 - m)
           unsolved == {m \in Nat : m <= n /\ ~\E f : Solves(f, m)}
<1>0. Len(b) \in Nat /\ n \in Nat /\ n + 1 - n = 1 /\ n + 1 - 0 = n + 1
  BY TextType
<1>1. SUFFICES ASSUME unsolved # {} PROVE FALSE
  <2>1. n \notin unsolved => \E f : Solves(f, n)
    BY <1>0
  <2>2. n + 1 - n = 1 /\ Len(b) + 1 = n
    BY <1>0
  <2> QED BY <2>1, <2>2
<1>2. PICK m \in unsolved : \A k \in unsolved : m <= k
  BY <1>1, Smallest
<1>3. m # 0
  <2> DEFINE f == [i \in (n + 1)..n |-> [room \in Rooms |-> 0]]
  <2>1. \A i \in (n + 1)..n : FALSE
    BY <1>0
  <2>2. f = [i \in (n + 1)..n |-> [room \in Rooms |-> f[i][room]]]
    OBVIOUS
  <2>3. SolvesChunks(f, b, longestLine, n + 1)
    BY <2>1 DEF SolvesChunks
  <2>4. Solves(f, 0)
    BY <1>0, <2>2, <2>3
  <2> QED BY <1>2, <2>4
<1>4. PICK f : Solves(f, m - 1)
  <2>1. m - 1 \in Nat /\ ~(m <= m - 1) /\ m - 1 <= n
    BY <1>0, <1>2, <1>3
  <2>2. m - 1 \notin unsolved
    BY <1>2, <2>1
  <2> QED BY <2>1, <2>2
<1> DEFINE k == n + 1 - m
           w == [i \in k..n |-> IF i = k THEN [room \in Rooms |-> ChunkStep(f, b, longestLine, k, room)]
                                ELSE f[i]]
<1>5. k \in 1..n /\ n + 1 - (m - 1) = k + 1 /\ n = Len(b) + 1
  BY <1>0, <1>2, <1>3
<1>6. SolvesChunks(f, b, longestLine, k + 1)
  BY <1>4, <1>5
<1>60. f = [i \in (k + 1)..n |-> [room \in Rooms |-> f[i][room]]]
  BY <1>4, <1>5
<1> HIDE DEF k
<1>7. \A room \in Rooms : EndsBehind(ChunkStep(f, b, longestLine, k, room), b, k)
  BY <1>5, <1>6, ChunkStepType
<1>8. \A i \in (k + 1)..n : w[i] = f[i]
  BY <1>0, <1>5
<1>9. w[k] = [room \in Rooms |-> ChunkStep(f, b, longestLine, k, room)]
  BY <1>0, <1>5
<1>90. \A room \in Rooms : w[k][room] = ChunkStep(f, b, longestLine, k, room)
  <2> HIDE DEF w
  <2> QED BY <1>9
<1>100. w = [i \in k..n |-> w[i]]
  OBVIOUS
<1> HIDE DEF w
<1>10. w = [i \in k..n |-> [room \in Rooms |-> w[i][room]]]
  <2>1. ASSUME NEW i \in k..n
        PROVE  w[i] = [room \in Rooms |-> w[i][room]]
    <3>1. CASE i = k
      BY <1>9, <1>90, <3>1
    <3>2. CASE i # k
      <4>1. i \in (k + 1)..n
        BY <1>0, <1>5, <3>2
      <4>2. f[i] = [room \in Rooms |-> f[i][room]]
        BY <1>60, <4>1
      <4> QED BY <1>8, <4>1, <4>2
    <3> QED BY <3>1, <3>2
  <2> QED BY <1>100, <2>1
<1>11. ASSUME NEW i \in k..n, NEW room \in Rooms
       PROVE  w[i][room] = ChunkStep(w, b, longestLine, i, room) /\ EndsBehind(w[i][room], b, i)
  <2>1. ChunkStep(w, b, longestLine, i, room) = ChunkStep(f, b, longestLine, i, room)
    <3>1. i \in 1..(Len(b) + 1) /\ \A j \in (i + 1)..(Len(b) + 1) : w[j] = f[j]
      BY <1>0, <1>5, <1>8
    <3> QED BY <3>1, ChunkStepLocal
  <2>2. CASE i = k
    BY <1>7, <1>90, <2>1, <2>2
  <2>3. CASE i # k
    <3>1. i \in (k + 1)..n
      BY <1>0, <1>5, <2>3
    <3> QED BY <1>5, <1>6, <1>8, <2>1, <3>1 DEF SolvesChunks
  <2> QED BY <2>2, <2>3
<1>12. SolvesChunks(w, b, longestLine, k)
  BY <1>5, <1>11 DEF SolvesChunks
<1>13. Solves(w, m)
  BY <1>10, <1>12 DEF k
<1> QED BY <1>2, <1>13

LEMMA ChunksUnfold ==
    ASSUME NEW b \in Texts, NEW longestLine
    PROVE  Chunks(b, longestLine)
             = [i \in 1..(Len(b) + 1) |->
                  [room \in 0..MaxBody |-> ChunkStep(Chunks(b, longestLine), b, longestLine, i, room)]]
<1> DEFINE Rooms == 0..MaxBody
           n == Len(b) + 1
           Q(f) == f = [i \in 1..n |-> [room \in Rooms |-> ChunkStep(f, b, longestLine, i, room)]]
<1>1. PICK f : /\ f = [i \in 1..n |-> [room \in Rooms |-> f[i][room]]]
               /\ SolvesChunks(f, b, longestLine, 1)
  BY ChunksExist
<1>2. \A i \in 1..n, room \in Rooms : f[i][room] = ChunkStep(f, b, longestLine, i, room)
  BY <1>1 DEF SolvesChunks
<1>3. Q(f)
  <2> HIDE DEF n, Rooms
  <2>1. \A i \in 1..n : [room \in Rooms |-> f[i][room]]
                          = [room \in Rooms |-> ChunkStep(f, b, longestLine, i, room)]
    BY <1>2
  <2> QED BY <1>1, <2>1
<1>4. Q(CHOOSE g : Q(g))
  BY <1>3, Zenon
<1> QED BY <1>4 DEF Chunks

\* Where the body ends whose next chunk begins at position i, with room left.
LEMMA BodyEndIs ==
    ASSUME NEW b \in Texts, NEW longestLine, NEW i \in 1..(Len(b) + 1), NEW room \in 0..MaxBody
    PROVE  /\ BodyEnd(b, longestLine, i, room) =
                IF ~SizeLineAt(b, longestLine, i) THEN 0
                ELSE IF SizeAt(b, i) = 0 THEN BodyWithTrailers(b, Find(b, CRLF, i))
                ELSE IF SizeAt(b, i) > room \/ ~ChunkEnds(b, DataEnd(b, i)) THEN 0
                ELSE BodyEnd(b, longestLine, DataEnd(b, i) + 2, room - SizeAt(b, i))
           /\ EndsBehind(BodyEnd(b, longestLine, i, room), b, i)
<1> DEFINE n == Len(b) + 1
           Rooms == 0..MaxBody
           f == Chunks(b, longestLine)
           behind(k) == \A r \in Rooms : EndsBehind(f[k][r], b, k)
           bad == {m \in Nat : m <= n /\ m # 0 /\ ~behind(n + 1 - m)}
<1>1. f = [j \in 1..n |-> [r \in Rooms |-> ChunkStep(f, b, longestLine, j, r)]]
  BY ChunksUnfold
<1> HIDE DEF f
<1>2. \A j \in 1..n, r \in Rooms : f[j][r] = ChunkStep(f, b, longestLine, j, r)
  <2>1. \A j \in 1..n : f[j] = [r \in Rooms |-> ChunkStep(f, b, longestLine, j, r)]
    BY <1>1
  <2> QED BY <2>1
<1>3. Len(b) \in Nat /\ n \in Nat
  BY TextType
<1>4. bad = {}
  <2>1. SUFFICES ASSUME bad # {} PROVE FALSE
    OBVIOUS
  <2>2. PICK m \in bad : \A k \in bad : m <= k
    BY <2>1, Smallest
  <2> DEFINE k == n + 1 - m
  <2>3. k \in 1..n /\ ~behind(k) /\ n = Len(b) + 1
    BY <1>3, <2>2
  <2>4. SolvesChunks(f, b, longestLine, k + 1)
    <3>1. SUFFICES ASSUME NEW j \in (k + 1)..n, NEW r \in Rooms
                   PROVE  f[j][r] = ChunkStep(f, b, longestLine, j, r) /\ EndsBehind(f[j][r], b, j)
      BY <2>3 DEF SolvesChunks
    <3>2. j \in 1..n /\ n + 1 - (n + 1 - j) = j /\ n + 1 - j \in Nat /\ n + 1 - j <= n
          /\ ~(m <= n + 1 - j) /\ n + 1 - j # 0
      BY <1>3, <2>2, <2>3
    <3>3. n + 1 - j \notin bad
      BY <2>2, <3>2
    <3>4. behind(j)
      BY <3>2, <3>3
    <3> QED BY <1>2, <3>2, <3>4
  <2> HIDE DEF k
  <2>5. \A r \in Rooms : f[k][r] = ChunkStep(f, b, longestLine, k, r)
    BY <1>2, <2>3
  <2>6. \A r \in Rooms : EndsBehind(ChunkStep(f, b, longestLine, k, r), b, k)
    BY <2>3, <2>4, ChunkStepType
  <2> QED BY <2>3, <2>5, <2>6
<1>5. EndsBehind(f[i][room], b, i)
  <2>1. n + 1 - i \in Nat /\ n + 1 - i <= n /\ n + 1 - (n + 1 - i) = i /\ n + 1 - i # 0
    BY <1>3
  <2>2. n + 1 - i \notin bad
    BY <1>4
  <2> QED BY <2>1, <2>2
<1>6. f[i][room] = ChunkStep(f, b, longestLine, i, room)
  BY <1>2
<1> QED BY <1>5, <1>6, ChunkStepIs DEF BodyEnd, f

--------------------------------------------------------------------------------
(* The length of a body does not depend on what follows it *)

LEMMA LineKept ==
    ASSUME NEW t \in Texts, NEW u \in Texts, Begins(t, u), NEW i \in Nat \ {0},
           Find(t, CRLF, i) # 0 \/ (Find(u, CRLF, i) # 0 /\ Find(u, CRLF, i) < Len(t))
    PROVE  /\ Find(u, CRLF, i) = Find(t, CRLF, i) /\ Find(t, CRLF, i) # 0
           /\ LineOf(u, i) = LineOf(t, i)
<1> DEFINE end == Find(t, CRLF, i)
           fin == Find(u, CRLF, i)
<1>1. end # 0 => FirstLineEnd(t, i, end)
  BY FindLine
<1>2. fin # 0 => FirstLineEnd(u, i, fin)
  BY FindLine
<1>3. end # 0 => fin = end
  BY <1>1, LineGoesOn, LineAt
<1>4. end = 0 => fin # 0 /\ fin = end
  <2>1. end = 0 => FirstLineEnd(t, i, fin) /\ fin # 0
    BY <1>2, LineGoesOn
  <2> QED BY <2>1, LineAt
<1>5. fin = end /\ end # 0
  BY <1>3, <1>4
<1>6. end # 0
  BY <1>5
<1>7. end \in i..(Len(t) - 1) /\ Len(t) \in Nat
  BY <1>1, <1>6, TextType DEF FirstLineEnd
<1>8. SubSeq(t, i, end - 1) = SubSeq(u, i, end - 1)
  <2> HIDE DEF end
  <2>1. end - 1 \in Nat /\ end - 1 <= Len(t)
    BY <1>7
  <2> QED BY <2>1, CutCommon
<1> QED BY <1>5, <1>6, <1>8 DEF LineOf, LineTo

\* Two texts, of which one begins the other, have the same trailers at i.
SameTrailers(t, u, i) ==
    /\ TrailerEnd(t, i) # 0 => TrailerEnd(u, i) = TrailerEnd(t, i)
    /\ TrailerEnd(u, i) # 0 /\ TrailerEnd(u, i) <= Len(t) => TrailerEnd(t, i) = TrailerEnd(u, i)

LEMMA TrailersStep ==
    ASSUME NEW t \in Texts, NEW u \in Texts, Begins(t, u), NEW i \in 1..(Len(t) + 1),
           \A k \in (i + 1)..(Len(t) + 1) : SameTrailers(t, u, k)
    PROVE  SameTrailers(t, u, i)
<1> DEFINE end == Find(t, CRLF, i)
           fin == Find(u, CRLF, i)
<1>0. Len(t) \in Nat /\ Len(u) \in Nat /\ Len(t) <= Len(u) /\ i \in Nat \ {0}
      /\ i \in 1..(Len(u) + 1)
  BY TextType DEF Begins
<1>1. /\ TrailerEnd(t, i) = IF end = 0 THEN 0
                            ELSE IF end = i THEN end + 1
                            ELSE IF ValidTrailer(LineOf(t, i)) THEN TrailerEnd(t, end + 2) ELSE 0
      /\ TrailerEnd(t, i) = 0 \/ TrailerEnd(t, i) \in (i + 1)..Len(t)
  BY TrailerEndIs DEF LineOf
<1>2. /\ TrailerEnd(u, i) = IF fin = 0 THEN 0
                            ELSE IF fin = i THEN fin + 1
                            ELSE IF ValidTrailer(LineOf(u, i)) THEN TrailerEnd(u, fin + 2) ELSE 0
      /\ TrailerEnd(u, i) = 0 \/ TrailerEnd(u, i) \in (i + 1)..Len(u)
  BY <1>0, TrailerEndIs DEF LineOf
<1>3. end # 0 => end \in i..(Len(t) - 1) /\ fin = end /\ LineOf(u, i) = LineOf(t, i)
  BY <1>0, LineOfType, LineKept
<1>4. fin # 0 => fin \in i..(Len(u) - 1)
  BY <1>0, LineOfType
<1>5. fin # 0 /\ fin < Len(t) => end = fin
  BY <1>0, LineKept
<1> HIDE DEF end, fin
<1>6. CASE end # 0
  <2>1. end + 2 \in (i + 1)..(Len(t) + 1)
    BY <1>0, <1>3, <1>6
  <2>2. SameTrailers(t, u, end + 2)
    BY <2>1
  <2> QED BY <1>1, <1>2, <1>3, <1>6, <2>2 DEF SameTrailers
<1>7. CASE end = 0
  <2>1. TrailerEnd(t, i) = 0
    BY <1>1, <1>7
  <2>2. TrailerEnd(u, i) = 0 \/ TrailerEnd(u, i) > Len(t)
    <3>1. CASE fin = 0
      BY <1>2, <3>1
    <3>2. CASE fin # 0
      <4>1. fin \in i..(Len(u) - 1) /\ ~(fin < Len(t)) /\ fin + 2 \in 1..(Len(u) + 1)
        BY <1>0, <1>4, <1>5, <1>7, <3>2
      <4>2. TrailerEnd(u, fin + 2) = 0 \/ TrailerEnd(u, fin + 2) \in ((fin + 2) + 1)..Len(u)
        BY <4>1, TrailerEndIs
      <4>3. TrailerEnd(u, i) = 0 \/ TrailerEnd(u, i) = fin + 1 \/ TrailerEnd(u, i) = TrailerEnd(u, fin + 2)
        BY <1>2
      <4> QED BY <1>0, <4>1, <4>2, <4>3
    <3> QED BY <3>1, <3>2
  <2>3. TrailerEnd(u, i) # 0 => ~(TrailerEnd(u, i) <= Len(t))
    BY <1>0, <1>2, <2>2
  <2> QED BY <2>1, <2>3 DEF SameTrailers
<1> QED BY <1>6, <1>7

LEMMA TrailersStay ==
    ASSUME NEW t \in Texts, NEW u \in Texts, Begins(t, u)
    PROVE  \A i \in 1..(Len(t) + 1) : SameTrailers(t, u, i)
<1> DEFINE n == Len(t) + 1
           bad == {m \in Nat : m <= n /\ m # 0 /\ ~SameTrailers(t, u, n + 1 - m)}
<1>1. Len(t) \in Nat /\ n \in Nat
  BY TextType
<1>2. bad = {}
  <2>1. SUFFICES ASSUME bad # {} PROVE FALSE
    OBVIOUS
  <2>2. PICK m \in bad : \A k \in bad : m <= k
    BY <2>1, Smallest
  <2> DEFINE k == n + 1 - m
  <2>3. k \in 1..n /\ ~SameTrailers(t, u, k) /\ n = Len(t) + 1
    BY <1>1, <2>2
  <2>4. ASSUME NEW j \in (k + 1)..n
        PROVE  SameTrailers(t, u, j)
    <3>1. n + 1 - (n + 1 - j) = j /\ n + 1 - j \in Nat /\ n + 1 - j <= n
          /\ ~(m <= n + 1 - j) /\ n + 1 - j # 0
      BY <1>1, <2>2, <2>3
    <3>2. n + 1 - j \notin bad
      BY <2>2, <3>1
    <3> QED BY <3>1, <3>2
  <2> HIDE DEF k
  <2> QED BY <2>3, <2>4, TrailersStep
<1>3. ASSUME NEW i \in 1..n
      PROVE  SameTrailers(t, u, i)
  <2>1. n + 1 - i \in Nat /\ n + 1 - i <= n /\ n + 1 - (n + 1 - i) = i /\ n + 1 - i # 0
    BY <1>1
  <2>2. n + 1 - i \notin bad
    BY <1>2
  <2> QED BY <2>1, <2>2
<1> QED BY <1>3

SameChunks(t, u, longestLine, i) ==
    \A room \in 0..MaxBody :
      LET end == BodyEnd(t, longestLine, i, room)
          fin == BodyEnd(u, longestLine, i, room)
      IN  (end # 0 => fin = end) /\ (fin # 0 /\ fin <= Len(t) => end = fin)

LEMMA SizeLineKept ==
    ASSUME NEW t \in Texts, NEW u \in Texts, Begins(t, u), NEW i \in Nat \ {0}, NEW longestLine,
           SizeLineAt(t, longestLine, i)
             \/ (SizeLineAt(u, longestLine, i) /\ Find(u, CRLF, i) < Len(t))
    PROVE  /\ SizeLineAt(t, longestLine, i) /\ SizeLineAt(u, longestLine, i)
           /\ Find(u, CRLF, i) = Find(t, CRLF, i) /\ SizeAt(u, i) = SizeAt(t, i)
           /\ DataEnd(u, i) = DataEnd(t, i)
<1>1. /\ Find(u, CRLF, i) = Find(t, CRLF, i) /\ Find(t, CRLF, i) # 0
      /\ LineOf(u, i) = LineOf(t, i)
  BY LineKept DEF SizeLineAt
<1> QED BY <1>1 DEF SizeLineAt, SizeAt, DataEnd

LEMMA WithTrailersKept ==
    ASSUME NEW t \in Texts, NEW u \in Texts, Begins(t, u), NEW end \in 1..(Len(t) - 1)
    PROVE  LET v == BodyWithTrailers(t, end)
               w == BodyWithTrailers(u, end)
           IN  (v # 0 => w = v) /\ (w # 0 /\ w <= Len(t) => v = w)
<1>1. Len(t) \in Nat
  BY TextType
<1>2. SameTrailers(t, u, end + 2)
  <2>1. end + 2 \in 1..(Len(t) + 1)
    BY <1>1
  <2> QED BY <2>1, TrailersStay
<1> QED BY <1>2 DEF BodyWithTrailers, SameTrailers

LEMMA ChunksStep ==
    ASSUME NEW t \in Texts, NEW u \in Texts, Begins(t, u), NEW longestLine,
           NEW i \in 1..(Len(t) + 1),
           \A k \in (i + 1)..(Len(t) + 1) : SameChunks(t, u, longestLine, k)
    PROVE  SameChunks(t, u, longestLine, i)
<1> SUFFICES ASSUME NEW room \in 0..MaxBody
             PROVE  LET v == BodyEnd(t, longestLine, i, room)
                        w == BodyEnd(u, longestLine, i, room)
                    IN  (v # 0 => w = v) /\ (w # 0 /\ w <= Len(t) => v = w)
  BY DEF SameChunks
<1> DEFINE v == BodyEnd(t, longestLine, i, room)
           w == BodyEnd(u, longestLine, i, room)
           end == Find(u, CRLF, i)
           size == SizeAt(u, i)
           next == DataEnd(u, i)
           lineT == SizeLineAt(t, longestLine, i)
           lineU == SizeLineAt(u, longestLine, i)
<1>0. Len(t) \in Nat /\ Len(u) \in Nat /\ Len(t) <= Len(u) /\ i \in Nat \ {0}
      /\ i \in 1..(Len(u) + 1) /\ MaxBody \in Nat
  BY TextType, SizeAssumption DEF Begins
<1>1. v = IF ~lineT THEN 0
          ELSE IF SizeAt(t, i) = 0 THEN BodyWithTrailers(t, Find(t, CRLF, i))
          ELSE IF SizeAt(t, i) > room \/ ~ChunkEnds(t, DataEnd(t, i)) THEN 0
          ELSE BodyEnd(t, longestLine, DataEnd(t, i) + 2, room - SizeAt(t, i))
  BY BodyEndIs
<1>2. w = IF ~lineU THEN 0
          ELSE IF size = 0 THEN BodyWithTrailers(u, end)
          ELSE IF size > room \/ ~ChunkEnds(u, next) THEN 0
          ELSE BodyEnd(u, longestLine, next + 2, room - size)
  BY <1>0, BodyEndIs
<1>3. lineU => size \in Nat /\ end \in i..(Len(u) - 1) /\ next = end + 2 + size
  BY <1>0, SizeAtType
<1>4. lineT \/ (lineU /\ end < Len(t)) =>
        /\ lineT /\ lineU /\ Find(t, CRLF, i) = end /\ SizeAt(t, i) = size /\ DataEnd(t, i) = next
  BY <1>0, SizeLineKept
<1>5. lineT => Find(t, CRLF, i) \in i..(Len(t) - 1)
  BY <1>0, SizeAtType
<1> SUFFICES (v # 0 => w = v) /\ (w # 0 /\ w <= Len(t) => v = w)
  OBVIOUS
<1>6. lineT => end \in 1..(Len(t) - 1)
  BY <1>0, <1>4, <1>5
<1>7. lineT => /\ BodyWithTrailers(t, end) # 0 => BodyWithTrailers(u, end) = BodyWithTrailers(t, end)
               /\ BodyWithTrailers(u, end) # 0 /\ BodyWithTrailers(u, end) <= Len(t)
                    => BodyWithTrailers(t, end) = BodyWithTrailers(u, end)
  BY <1>6, WithTrailersKept
<1> DEFINE goesOn == lineT /\ size # 0 /\ ~(size > room)
           rest == room - size
<1>8. goesOn /\ next + 1 <= Len(t) => (ChunkEnds(t, next) <=> ChunkEnds(u, next))
  <2> SUFFICES ASSUME goesOn, next + 1 <= Len(t)
               PROVE  ChunkEnds(t, next) <=> ChunkEnds(u, next)
    OBVIOUS
  <2>1. next \in Nat \ {0} /\ next + 1 \in Nat /\ next + 1 <= Len(t)
    BY <1>0, <1>3, <1>4
  <2> HIDE DEF next, goesOn
  <2>2. SubSeq(t, next, next + 1) = SubSeq(u, next, next + 1)
    BY <2>1, CutCommon
  <2> QED BY <1>0, <2>1, <2>2 DEF ChunkEnds
<1>9. goesOn /\ next + 1 <= Len(t) =>
        /\ BodyEnd(t, longestLine, next + 2, rest) # 0 =>
             BodyEnd(u, longestLine, next + 2, rest) = BodyEnd(t, longestLine, next + 2, rest)
        /\ BodyEnd(u, longestLine, next + 2, rest) # 0
             /\ BodyEnd(u, longestLine, next + 2, rest) <= Len(t) =>
             BodyEnd(t, longestLine, next + 2, rest) = BodyEnd(u, longestLine, next + 2, rest)
  <2> SUFFICES ASSUME goesOn, next + 1 <= Len(t)
               PROVE  SameChunks(t, u, longestLine, next + 2) /\ rest \in 0..MaxBody
    BY DEF SameChunks
  <2>1. next + 2 \in (i + 1)..(Len(t) + 1) /\ rest \in 0..MaxBody
    BY <1>0, <1>3, <1>4
  <2> QED BY <2>1
<1>10. goesOn => next \in Nat /\ next > end
  BY <1>0, <1>3, <1>4
<1>11. lineU /\ ~(end < Len(t)) => w = 0 \/ w > Len(t)
  <2> SUFFICES ASSUME lineU, ~(end < Len(t)) PROVE w = 0 \/ w > Len(t)
    OBVIOUS
  <2>1. end \in 1..(Len(u) - 1) /\ end >= Len(t)
    BY <1>0, <1>3
  <2>2. w = 0 \/ w = BodyWithTrailers(u, end)
        \/ (size # 0 /\ ~(size > room) /\ ChunkEnds(u, next)
            /\ w = BodyEnd(u, longestLine, next + 2, rest))
    BY <1>2
  <2> HIDE DEF w, end, next, size, lineU
  <2>3. CASE w = BodyWithTrailers(u, end)
    <3>1. EndsBehind(w, u, end)
      BY <2>1, <2>3, TrailersBehind
    <3> QED BY <1>0, <2>1, <3>1 DEF EndsBehind
  <2>4. CASE size # 0 /\ ~(size > room) /\ ChunkEnds(u, next) /\ w = BodyEnd(u, longestLine, next + 2, rest)
    <3>1. next + 2 \in (end + 1)..(Len(u) + 1) /\ rest \in 0..MaxBody
      BY <1>0, <1>3, <2>1, <2>4 DEF ChunkEnds
    <3>2. next + 2 \in 1..(Len(u) + 1)
      BY <1>0, <2>1, <3>1
    <3>3. EndsBehind(w, u, next + 2)
      BY <2>4, <3>1, <3>2, BodyEndIs
    <3> QED BY <1>0, <2>1, <3>1, <3>3 DEF EndsBehind
  <2> QED BY <2>2, <2>3, <2>4
<1>12. goesOn /\ ChunkEnds(u, next) /\ ~(next + 1 <= Len(t)) =>
         \/ BodyEnd(u, longestLine, next + 2, rest) = 0
         \/ BodyEnd(u, longestLine, next + 2, rest) > Len(t)
  <2> SUFFICES ASSUME goesOn, ChunkEnds(u, next), ~(next + 1 <= Len(t))
               PROVE  \/ BodyEnd(u, longestLine, next + 2, rest) = 0
                      \/ BodyEnd(u, longestLine, next + 2, rest) > Len(t)
    OBVIOUS
  <2>1. size \in Nat /\ ~(size > room) /\ next \in Nat /\ next > end /\ end \in Nat
    BY <1>0, <1>3, <1>4, <1>10
  <2> HIDE DEF next, end, size
  <2>2. next + 2 \in 1..(Len(u) + 1) /\ next + 1 > Len(t)
    BY <1>0, <2>1 DEF ChunkEnds
  <2>3. rest \in 0..MaxBody
    BY <1>0, <2>1
  <2> HIDE DEF rest
  <2>4. EndsBehind(BodyEnd(u, longestLine, next + 2, rest), u, next + 2)
    BY <2>2, <2>3, BodyEndIs
  <2> QED BY <1>0, <2>1, <2>2, <2>4 DEF EndsBehind
<1>13. ChunkEnds(t, next) => ~(next + 1 > Len(t))
  BY DEF ChunkEnds
<1>130. w = 0 \/ w \in (i + 1)..Len(u)
  BY <1>0, BodyEndIs DEF EndsBehind
<1> HIDE DEF v, w, end, size, next, lineT, lineU, rest
<1>14. CASE ~lineT /\ ~lineU
  BY <1>1, <1>2, <1>14
<1>15. CASE ~lineT /\ lineU
  BY <1>0, <1>1, <1>4, <1>11, <1>130, <1>15
<1>16. CASE lineT /\ size = 0
  BY <1>1, <1>2, <1>4, <1>7, <1>16
<1>17. CASE lineT /\ size # 0 /\ size > room
  BY <1>1, <1>2, <1>4, <1>17
<1>18. CASE goesOn /\ ~(next + 1 <= Len(t))
  <2>1. ~ChunkEnds(t, next)
    BY <1>0, <1>10, <1>13, <1>18
  <2>2. v = 0
    BY <1>1, <1>4, <1>18, <2>1
  <2>3. w = 0 \/ w > Len(t)
    BY <1>2, <1>4, <1>12, <1>18 DEF rest
  <2>4. w = 0 \/ ~(w <= Len(t))
    BY <1>0, <1>130, <2>3
  <2> QED BY <2>2, <2>4
<1>19. CASE goesOn /\ next + 1 <= Len(t) /\ ChunkEnds(t, next)
  BY <1>1, <1>2, <1>4, <1>8, <1>9, <1>19 DEF rest
<1>20. CASE goesOn /\ next + 1 <= Len(t) /\ ~ChunkEnds(t, next)
  BY <1>1, <1>2, <1>4, <1>8, <1>20
<1> QED BY <1>4, <1>14, <1>15, <1>16, <1>17, <1>18, <1>19, <1>20

LEMMA ChunksStay ==
    ASSUME NEW t \in Texts, NEW u \in Texts, Begins(t, u), NEW longestLine
    PROVE  \A i \in 1..(Len(t) + 1) : SameChunks(t, u, longestLine, i)
<1> DEFINE n == Len(t) + 1
           bad == {m \in Nat : m <= n /\ m # 0 /\ ~SameChunks(t, u, longestLine, n + 1 - m)}
<1>1. Len(t) \in Nat /\ n \in Nat
  BY TextType
<1>2. bad = {}
  <2>1. SUFFICES ASSUME bad # {} PROVE FALSE
    OBVIOUS
  <2>2. PICK m \in bad : \A k \in bad : m <= k
    BY <2>1, Smallest
  <2> DEFINE k == n + 1 - m
  <2>3. k \in 1..n /\ ~SameChunks(t, u, longestLine, k) /\ n = Len(t) + 1
    BY <1>1, <2>2
  <2>4. ASSUME NEW j \in (k + 1)..n
        PROVE  SameChunks(t, u, longestLine, j)
    <3>1. n + 1 - (n + 1 - j) = j /\ n + 1 - j \in Nat /\ n + 1 - j <= n
          /\ ~(m <= n + 1 - j) /\ n + 1 - j # 0
      BY <1>1, <2>2, <2>3
    <3>2. n + 1 - j \notin bad
      BY <2>2, <3>1
    <3> QED BY <3>1, <3>2
  <2> HIDE DEF k
  <2> QED BY <2>3, <2>4, ChunksStep
<1>3. ASSUME NEW i \in 1..n
      PROVE  SameChunks(t, u, longestLine, i)
  <2>1. n + 1 - i \in Nat /\ n + 1 - i <= n /\ n + 1 - (n + 1 - i) = i /\ n + 1 - i # 0
    BY <1>1
  <2>2. n + 1 - i \notin bad
    BY <1>2
  <2> QED BY <2>1, <2>2
<1> QED BY <1>3

\* Whether and where a chunked body ends is the same in every text that holds it.
LEMMA LengthKept ==
    ASSUME NEW t \in Texts, NEW u \in Texts, Begins(t, u), NEW longestLine,
           NEW start \in 1..(Len(t) + 1)
    PROVE  LET end == ChunkedLength(t, start, longestLine)
               fin == ChunkedLength(u, start, longestLine)
           IN  /\ end # 0 => fin = end
               /\ fin # 0 /\ fin <= Len(t) => end = fin
               /\ end = 0 \/ end \in (start + 1)..Len(t)
<1>1. MaxBody \in 0..MaxBody
  BY SizeAssumption
<1>2. SameChunks(t, u, longestLine, start)
  BY ChunksStay
<1>3. EndsBehind(BodyEnd(t, longestLine, start, MaxBody), t, start)
  BY <1>1, BodyEndIs
<1> QED BY <1>1, <1>2, <1>3, ChunkedLengthIs DEF SameChunks, EndsBehind

--------------------------------------------------------------------------------
(* ChunkedStreamDecoder byte by byte *)

\* v[k] is the decoder behind those of the first k bytes whose places are in s.
PlaceTaken(v, bytes, s, k) == IF k \in s THEN DecodeByte(v[k - 1], bytes[k]) ELSE v[k - 1]
DecodesAt(v, d, bytes, s, n) == v[0] = d /\ \A k \in 1..n : v[k] = PlaceTaken(v, bytes, s, k)

LEMMA DecodesExist ==
    ASSUME NEW d, NEW bytes, NEW s, NEW n \in Nat
    PROVE  \E v : DecodesAt(v, d, bytes, s, n)
<1> DEFINE unsolved == {k \in Nat : ~\E v : DecodesAt(v, d, bytes, s, k)}
<1>1. SUFFICES ASSUME unsolved # {} PROVE FALSE
  <2>1. n \notin unsolved => \E v : DecodesAt(v, d, bytes, s, n)
    OBVIOUS
  <2> QED BY <2>1
<1>2. PICK k \in unsolved : \A m \in unsolved : k <= m
  BY <1>1, Smallest
<1>3. k # 0
  <2> DEFINE v == [i \in 0..0 |-> d]
  <2>1. DecodesAt(v, d, bytes, s, 0)
    BY DEF DecodesAt
  <2> QED BY <1>2, <2>1
<1>4. PICK v : DecodesAt(v, d, bytes, s, k - 1)
  <2>1. k - 1 \in Nat /\ ~(k <= k - 1)
    BY <1>2, <1>3
  <2> QED BY <1>2, <2>1
<1> DEFINE w == [i \in 0..k |-> IF i = k THEN PlaceTaken(v, bytes, s, k) ELSE v[i]]
<1>5. w[0] = d
  BY <1>2, <1>3, <1>4 DEF DecodesAt
<1>6. ASSUME NEW i \in 1..k
      PROVE  w[i] = PlaceTaken(w, bytes, s, i)
  <2>1. w[i - 1] = v[i - 1]
    BY <1>2
  <2>2. i # k => i \in 1..(k - 1) /\ w[i] = v[i]
    BY <1>2
  <2>3. i = k => w[i] = PlaceTaken(v, bytes, s, i)
    BY <1>2
  <2> HIDE DEF w
  <2>4. PlaceTaken(w, bytes, s, i) = PlaceTaken(v, bytes, s, i)
    BY <2>1 DEF PlaceTaken
  <2> QED BY <1>4, <2>2, <2>3, <2>4 DEF DecodesAt
<1> HIDE DEF w
<1>7. DecodesAt(w, d, bytes, s, k)
  BY <1>5, <1>6 DEF DecodesAt
<1> QED BY <1>2, <1>7

\* The decoder behind n bytes is given by those that are taken.
LEMMA DecodesUnique ==
    ASSUME NEW d, NEW bytes, NEW other, NEW s, NEW t, NEW n \in Nat, NEW v, NEW w,
           DecodesAt(v, d, bytes, s, n), DecodesAt(w, d, other, t, n),
           \A k \in 1..n : (k \in s <=> k \in t) /\ bytes[k] = other[k]
    PROVE  \A i \in 0..n : v[i] = w[i]
<1> DEFINE apart == {i \in Nat : i <= n /\ v[i] # w[i]}
<1>1. SUFFICES ASSUME apart # {} PROVE FALSE
  BY DEF apart
<1>2. PICK k \in apart : \A m \in apart : k <= m
  BY <1>1, Smallest
<1>3. CASE k = 0
  BY <1>2, <1>3 DEF DecodesAt
<1>4. CASE k # 0
  <2>1. k - 1 \in Nat /\ k - 1 <= n /\ ~(k <= k - 1) /\ k \in 1..n
    BY <1>2, <1>4
  <2>2. v[k - 1] = w[k - 1]
    BY <1>2, <2>1
  <2>3. PlaceTaken(v, bytes, s, k) = PlaceTaken(w, other, t, k)
    BY <2>1, <2>2 DEF PlaceTaken
  <2> QED BY <1>2, <2>1, <2>3 DEF DecodesAt
<1> QED BY <1>3, <1>4

\* Places that are not taken change nothing.
LEMMA DecodesIdle ==
    ASSUME NEW d, NEW bytes, NEW s, NEW n \in Nat, NEW v, DecodesAt(v, d, bytes, s, n),
           NEW a \in 0..n, \A k \in (a + 1)..n : k \notin s
    PROVE  v[n] = v[a]
<1> DEFINE apart == {i \in Nat : a <= i /\ i <= n /\ v[i] # v[a]}
<1>1. SUFFICES ASSUME apart # {} PROVE FALSE
  <2>1. n \notin apart => v[n] = v[a]
    OBVIOUS
  <2> QED BY <2>1
<1>2. PICK k \in apart : \A m \in apart : k <= m
  BY <1>1, Smallest
<1>3. k # a
  BY <1>2
<1>4. k - 1 \in Nat /\ k - 1 <= n /\ ~(k <= k - 1) /\ k \in 1..n /\ k \in (a + 1)..n /\ a <= k - 1
  BY <1>2, <1>3
<1>5. v[k - 1] = v[a]
  BY <1>2, <1>4
<1>6. v[k] = v[k - 1]
  BY <1>4 DEF DecodesAt, PlaceTaken
<1> QED BY <1>2, <1>5, <1>6

LEMMA MaxIs ==
    ASSUME NEW n \in Nat, NEW k \in 1..n
    PROVE  Max(1..k) = k
<1>1. 1..k \in SUBSET (1..n) /\ 1..k # {}
  OBVIOUS
<1>2. Max(1..k) \in 1..k /\ \A y \in 1..k : Max(1..k) >= y
  BY <1>1, MaxOfInterval
<1> DEFINE m == Max(1..k)
<1> HIDE DEF m
<1>3. m \in 1..k /\ m >= k
  BY <1>2 DEF m
<1>4. m = k
  BY <1>3
<1> QED BY <1>4 DEF m

\* What the recursion of the fold says of f.
DecodeFolds(f, d, bytes, n) ==
    f = [s \in SUBSET (1..n) |->
           IF s = {} THEN d ELSE DecodeByte(f[s \ {Max(s)}], bytes[Max(s)])]

LEMMA DecodeFoldExists ==
    ASSUME NEW d, NEW bytes, NEW n \in Nat
    PROVE  \E f : DecodeFolds(f, d, bytes, n)
<1> DEFINE V(s) == CHOOSE v : DecodesAt(v, d, bytes, s, n)
           f == [s \in SUBSET (1..n) |-> V(s)[n]]
<1>1. \A s : DecodesAt(V(s), d, bytes, s, n)
  BY DecodesExist
<1> HIDE DEF V
<1>2. ASSUME NEW s \in SUBSET (1..n)
      PROVE  f[s] = IF s = {} THEN d ELSE DecodeByte(f[s \ {Max(s)}], bytes[Max(s)])
  <2>1. CASE s = {}
    <3>1. V(s)[n] = V(s)[0]
      <4>1. 0 \in 0..n /\ \A k \in (0 + 1)..n : k \notin s
        BY <2>1
      <4> QED BY <1>1, <4>1, DecodesIdle
    <3> QED BY <1>1, <2>1, <3>1 DEF DecodesAt
  <2>2. CASE s # {}
    <3> DEFINE m == Max(s)
               rest == s \ {m}
    <3>1. m \in s /\ m \in 1..n /\ \A y \in s : m >= y
      BY <2>2, MaxOfInterval
    <3> HIDE DEF m
    <3>2. m \in 0..n /\ m - 1 \in 0..n /\ m - 1 \in Nat
      BY <3>1
    <3>3. \A k \in (m + 1)..n : k \notin s
      BY <3>1
    <3>4. \A k \in ((m - 1) + 1)..n : k \notin rest
      BY <3>1
    <3>5. V(s)[n] = V(s)[m]
      BY <1>1, <3>2, <3>3, DecodesIdle
    <3>6. V(rest)[n] = V(rest)[m - 1]
      BY <1>1, <3>2, <3>4, DecodesIdle
    <3>7. V(s)[m] = DecodeByte(V(s)[m - 1], bytes[m])
      BY <1>1, <3>1 DEF DecodesAt, PlaceTaken
    <3>8. V(s)[m - 1] = V(rest)[m - 1]
      <4>1. DecodesAt(V(s), d, bytes, s, m - 1) /\ DecodesAt(V(rest), d, bytes, rest, m - 1)
        BY <1>1, <3>2 DEF DecodesAt
      <4>2. \A k \in 1..(m - 1) : (k \in s <=> k \in rest) /\ bytes[k] = bytes[k]
        BY <3>2
      <4>3. m - 1 \in 0..(m - 1)
        BY <3>2
      <4> HIDE DEF rest
      <4> QED BY <3>2, <4>1, <4>2, <4>3, DecodesUnique
    <3>9. f[s] = V(s)[n] /\ f[rest] = V(rest)[n]
      OBVIOUS
    <3> HIDE DEF f, rest
    <3>10. f[s] = DecodeByte(f[rest], bytes[m])
      BY <3>5, <3>6, <3>7, <3>8, <3>9
    <3> QED BY <2>2, <3>10 DEF rest, m
  <2> QED BY <2>1, <2>2
<1>3. f = [s \in SUBSET (1..n) |-> f[s]]
  OBVIOUS
<1> HIDE DEF f
<1>4. DecodeFolds(f, d, bytes, n)
  BY <1>2, <1>3 DEF DecodeFolds
<1> QED BY <1>4

\* consume takes the bytes in their order.
LEMMA DecodeIs ==
    ASSUME NEW d, NEW bytes \in Texts
    PROVE  \E v : DecodesAt(v, d, bytes, Nat, Len(bytes)) /\ Decode(d, bytes) = v[Len(bytes)]
<1> DEFINE n == Len(bytes)
           fold == CHOOSE f : f = [s \in SUBSET (DOMAIN bytes) |->
                      IF s = {} THEN d ELSE DecodeByte(f[s \ {Max(s)}], bytes[Max(s)])]
<1>1. n \in Nat /\ DOMAIN bytes = 1..n
  BY TextType
<1>2. Decode(d, bytes) = fold[DOMAIN bytes]
  BY Zenon DEF Decode, FoldLeft, MapThenFoldSet
<1> HIDE DEF n
<1>3. \A f : DecodeFolds(f, d, bytes, n) <=>
               f = [s \in SUBSET (DOMAIN bytes) |->
                      IF s = {} THEN d ELSE DecodeByte(f[s \ {Max(s)}], bytes[Max(s)])]
  BY <1>1 DEF DecodeFolds
<1>4. DecodeFolds(fold, d, bytes, n)
  <2>1. \E f : f = [s \in SUBSET (DOMAIN bytes) |->
                      IF s = {} THEN d ELSE DecodeByte(f[s \ {Max(s)}], bytes[Max(s)])]
    BY <1>1, <1>3, DecodeFoldExists
  <2>2. fold = [s \in SUBSET (DOMAIN bytes) |->
                  IF s = {} THEN d ELSE DecodeByte(fold[s \ {Max(s)}], bytes[Max(s)])]
    BY <2>1, Zenon
  <2> QED BY <1>3, <2>2
<1> HIDE DEF fold
<1> DEFINE v == [k \in 0..n |-> fold[1..k]]
<1>5. ASSUME NEW s \in SUBSET (1..n)
      PROVE  fold[s] = IF s = {} THEN d ELSE DecodeByte(fold[s \ {Max(s)}], bytes[Max(s)])
  BY <1>4 DEF DecodeFolds
<1>6. v[0] = d
  <2>1. v[0] = fold[1..0]
    BY <1>1
  <2>2. 1..0 = {} /\ 1..0 \in SUBSET (1..n)
    OBVIOUS
  <2> HIDE DEF v
  <2> QED BY <1>5, <2>1, <2>2
<1>7. ASSUME NEW k \in 1..n
      PROVE  v[k] = PlaceTaken(v, bytes, Nat, k)
  <2>1. 1..k \in SUBSET (1..n) /\ 1..k # {} /\ k \in Nat
    <3>1. k \in Nat /\ k <= n /\ k \in 1..k
      BY <1>1
    <3>2. \A i \in 1..k : i \in 1..n
      BY <1>1, <3>1
    <3> QED BY <3>1, <3>2
  <2>2. Max(1..k) = k
    BY <1>1, MaxIs
  <2>3. (1..k) \ {k} = 1..(k - 1)
    BY <1>1
  <2>4. v[k] = fold[1..k] /\ v[k - 1] = fold[1..(k - 1)]
    BY <1>1
  <2> HIDE DEF v
  <2> QED BY <1>5, <2>1, <2>2, <2>3, <2>4 DEF PlaceTaken
<1>8. v[n] = fold[1..n]
  BY <1>1
<1> HIDE DEF v
<1>9. DecodesAt(v, d, bytes, Nat, n)
  BY <1>6, <1>7 DEF DecodesAt
<1> QED BY <1>1, <1>2, <1>8, <1>9 DEF n

\* The decoder of a body that begins at start, behind the byte at place n.
After(t, start, n) == Decode(NewDecoder, SubSeq(t, start, n))

\* One byte more, whatever recv has brought it.
LEMMA AfterStep ==
    ASSUME NEW t \in Texts, NEW start \in Nat \ {0}, start <= Len(t) + 1
    PROVE  /\ After(t, start, start - 1) = NewDecoder
           /\ \A n \in start..Len(t) : After(t, start, n) = DecodeByte(After(t, start, n - 1), t[n])
<1>1. Len(t) \in Nat
  BY TextType
<1>2. After(t, start, start - 1) = NewDecoder
  <2> DEFINE x == SubSeq(t, start, start - 1)
  <2>1. x \in Texts /\ Len(x) = IF start <= start - 1 THEN ((start - 1) - start) + 1 ELSE 0
    <3>1. start - 1 \in Nat /\ start - 1 <= Len(t)
      BY <1>1
    <3> QED BY <3>1, Cut
  <2> HIDE DEF x
  <2>2. Len(x) = 0
    BY <2>1
  <2>3. PICK v : DecodesAt(v, NewDecoder, x, Nat, 0) /\ Decode(NewDecoder, x) = v[0]
    BY <2>1, <2>2, DecodeIs
  <2> QED BY <2>3 DEF DecodesAt, After, x
<1>3. ASSUME NEW n \in start..Len(t)
      PROVE  After(t, start, n) = DecodeByte(After(t, start, n - 1), t[n])
  <2> DEFINE x == SubSeq(t, start, n)
             y == SubSeq(t, start, n - 1)
             m == n - start
  <2>1. /\ m \in Nat /\ n \in Nat /\ n <= Len(t) /\ n - 1 \in Nat /\ n - 1 <= Len(t)
        /\ (IF start <= n THEN (n - start) + 1 ELSE 0) = m + 1
        /\ (IF start <= n - 1 THEN ((n - 1) - start) + 1 ELSE 0) = m
        /\ (n - start) + 1 = m + 1 /\ ((n - 1) - start) + 1 = m
        /\ (start + (m + 1)) - 1 = n /\ m + 1 \in 1..(m + 1)
    BY <1>1
  <2>2. x \in Texts /\ Len(x) = m + 1 /\ \A i \in 1..(m + 1) : x[i] = t[(start + i) - 1]
    BY <2>1, Cut
  <2>3. y \in Texts /\ Len(y) = m /\ \A i \in 1..m : y[i] = t[(start + i) - 1]
    BY <2>1, Cut
  <2>4. After(t, start, n) = Decode(NewDecoder, x) /\ After(t, start, n - 1) = Decode(NewDecoder, y)
    BY DEF After
  <2> HIDE DEF x, y, m
  <2>5. PICK v : DecodesAt(v, NewDecoder, x, Nat, m + 1) /\ Decode(NewDecoder, x) = v[m + 1]
    BY <2>2, DecodeIs
  <2>6. PICK w : DecodesAt(w, NewDecoder, y, Nat, m) /\ Decode(NewDecoder, y) = w[m]
    BY <2>3, DecodeIs
  <2>7. v[m] = w[m]
    <3>1. DecodesAt(v, NewDecoder, x, Nat, m)
      BY <2>1, <2>5 DEF DecodesAt
    <3>2. \A k \in 1..m : (k \in Nat <=> k \in Nat) /\ x[k] = y[k]
      BY <2>1, <2>2, <2>3
    <3>3. m \in 0..m
      BY <2>1
    <3>4. DecodesAt(w, NewDecoder, y, Nat, m)
      BY <2>6
    <3>5. m \in Nat
      BY <2>1
    <3> HIDE DEF x, y, m
    <3>6. \A i \in 0..m : v[i] = w[i]
      BY ONLY <3>1, <3>2, <3>4, <3>5, DecodesUnique
    <3> QED BY <3>3, <3>6
  <2>8. v[m + 1] = DecodeByte(v[m], x[m + 1])
    <3>1. m + 1 \in 1..(m + 1) /\ m + 1 \in Nat /\ (m + 1) - 1 = m
      BY <2>1
    <3> QED BY <2>5, <3>1 DEF DecodesAt, PlaceTaken
  <2>9. x[m + 1] = t[n]
    BY <2>1, <2>2
  <2> QED BY <2>4, <2>5, <2>6, <2>7, <2>8, <2>9
<1> QED BY <1>2, <1>3

\* It does not depend on what follows.
LEMMA AfterCommon ==
    ASSUME NEW t \in Texts, NEW u \in Texts, Begins(t, u), NEW start \in Nat \ {0},
           NEW n \in Nat, n <= Len(t)
    PROVE  After(t, start, n) = After(u, start, n)
  BY CutCommon DEF After

LEMMA DecodeOn ==
    ASSUME NEW t \in Texts, NEW chunk \in Texts, NEW start \in Nat \ {0}, start <= Len(t) + 1
    PROVE  Decode(After(t, start, Len(t)), chunk) = After(t \o chunk, start, Len(t \o chunk))
<1> DEFINE w == t \o chunk
           n == Len(t)
           m == Len(chunk)
<1>1. n \in Nat /\ m \in Nat /\ w \in Texts /\ Len(w) = n + m /\ Begins(t, w)
  BY TextType, Joined
<1>2. \A k \in 1..m : w[n + k] = chunk[k]
  BY <1>1 DEF Texts
<1> HIDE DEF w, n, m
<1>3. PICK v : DecodesAt(v, After(t, start, n), chunk, Nat, m) /\ Decode(After(t, start, n), chunk) = v[m]
  BY DecodeIs DEF n, m
<1> DEFINE apart == {k \in Nat : k <= m /\ v[k] # After(w, start, n + k)}
<1>4. apart = {}
  <2>1. SUFFICES ASSUME apart # {} PROVE FALSE
    OBVIOUS
  <2>2. PICK k \in apart : \A i \in apart : k <= i
    BY <2>1, Smallest
  <2>3. k # 0
    <3>1. After(t, start, n) = After(w, start, n)
      BY <1>1, AfterCommon DEF n
    <3>2. n + 0 = n
      BY <1>1
    <3> QED BY <1>3, <2>2, <3>1, <3>2 DEF DecodesAt
  <2>4. k - 1 \in Nat /\ k - 1 <= m /\ ~(k <= k - 1) /\ k \in 1..m /\ k \in Nat
    BY <1>1, <2>2, <2>3
  <2>5. v[k - 1] = After(w, start, n + (k - 1))
    BY <2>2, <2>4
  <2>6. v[k] = DecodeByte(v[k - 1], chunk[k])
    BY <1>3, <2>4 DEF DecodesAt, PlaceTaken
  <2>7. n + k \in start..Len(w) /\ start <= Len(w) + 1 /\ (n + k) - 1 = n + (k - 1)
    BY <1>1, <2>4 DEF n
  <2>8. After(w, start, n + k) = DecodeByte(After(w, start, n + (k - 1)), w[n + k])
    BY <1>1, <2>7, AfterStep
  <2> QED BY <1>2, <2>2, <2>4, <2>5, <2>6, <2>8
<1>5. v[m] = After(w, start, n + m)
  BY <1>1, <1>4
<1> QED BY <1>1, <1>3, <1>5 DEF n, w

DecoderRecords == [state: DecoderStates, line: Texts, sawCr: BOOLEAN, remaining: Int, decoded: Int]

\* A decoder with nothing of a line read.
Fresh(e, state, decoded) ==
    e.state = state /\ e.line = <<>> /\ e.sawCr = FALSE /\ e.decoded = decoded

LEMMA NewDecoderIs == NewDecoder \in DecoderRecords /\ Fresh(NewDecoder, "SizeLine", 0)
  BY EmptyText DEF NewDecoder, DecoderRecords, DecoderStates, Fresh

LEMMA HexType ==
    ASSUME NEW line \in Texts
    PROVE  HexSize(SizeText(line)) \in Nat
<1>1. Len(SizeText(line)) \in Nat /\ 16 \in Nat
  BY SizeTextIs, TextType
<1> QED BY <1>1, ParsedIsExact DEF HexSize

\* finish_size_line: the size is what it makes of the text before a semicolon.
LEMMA SizeFinished ==
    ASSUME NEW d \in DecoderRecords
    PROVE  LET e == FinishSizeLine(d)
               size == HexSize(SizeText(d.line))
           IN  /\ e \in DecoderRecords
               /\ size > MaxBody - d.decoded => e.state = "Error"
               /\ ~(size > MaxBody - d.decoded) /\ size = 0 =>
                    /\ e.state = "TrailerLine" /\ e.line = <<>> /\ e.sawCr = d.sawCr
                    /\ e.decoded = d.decoded
               /\ ~(size > MaxBody - d.decoded) /\ size # 0 =>
                    /\ e.state = "Data" /\ e.line = <<>> /\ e.sawCr = d.sawCr
                    /\ e.decoded = d.decoded + size /\ e.remaining = size
<1> DEFINE s == Find(d.line, Semicolon, 1)
           size == HexSize(SizeText(d.line))
<1>1. d.line \in Texts /\ d.decoded \in Int
  BY DEF DecoderRecords
<1>2. SizeText(d.line) = IF s = 0 THEN d.line ELSE SubSeq(d.line, 1, s - 1)
  BY <1>1, SizeTextIs
<1>3. FinishSizeLine(d) =
        IF HexSize(IF s = 0 THEN d.line ELSE SubSeq(d.line, 1, s - 1)) > MaxBody - d.decoded
        THEN Failed(d)
        ELSE IF HexSize(IF s = 0 THEN d.line ELSE SubSeq(d.line, 1, s - 1)) = 0
        THEN [d EXCEPT !.state = "TrailerLine", !.line = <<>>]
        ELSE [d EXCEPT !.state = "Data", !.line = <<>>,
                       !.remaining = HexSize(IF s = 0 THEN d.line ELSE SubSeq(d.line, 1, s - 1)),
                       !.decoded = @ + HexSize(IF s = 0 THEN d.line ELSE SubSeq(d.line, 1, s - 1))]
  BY Zenon DEF FinishSizeLine, Semicolon, Semi
<1>4. FinishSizeLine(d) =
        IF size > MaxBody - d.decoded THEN Failed(d)
        ELSE IF size = 0 THEN [d EXCEPT !.state = "TrailerLine", !.line = <<>>]
        ELSE [d EXCEPT !.state = "Data", !.line = <<>>, !.remaining = size, !.decoded = @ + size]
  BY <1>2, <1>3, Zenon
<1>5. size \in Nat
  BY <1>1, HexType
<1> DEFINE e == FinishSizeLine(d)
<1> SUFFICES /\ e \in DecoderRecords
             /\ size > MaxBody - d.decoded => e.state = "Error"
             /\ ~(size > MaxBody - d.decoded) /\ size = 0 =>
                  /\ e.state = "TrailerLine" /\ e.line = <<>> /\ e.sawCr = d.sawCr
                  /\ e.decoded = d.decoded
             /\ ~(size > MaxBody - d.decoded) /\ size # 0 =>
                  /\ e.state = "Data" /\ e.line = <<>> /\ e.sawCr = d.sawCr
                  /\ e.decoded = d.decoded + size /\ e.remaining = size
  BY Zenon
<1> HIDE DEF size, e
<1>6. CASE size > MaxBody - d.decoded
  <2>1. e = Failed(d)
    BY <1>4, <1>6 DEF e
  <2> QED BY <1>6, <2>1 DEF Failed, DecoderRecords, DecoderStates
<1>7. CASE ~(size > MaxBody - d.decoded) /\ size = 0
  <2>1. e = [d EXCEPT !.state = "TrailerLine", !.line = <<>>]
    BY <1>4, <1>7 DEF e
  <2> QED BY <1>7, <2>1, EmptyText DEF DecoderRecords, DecoderStates
<1>8. CASE ~(size > MaxBody - d.decoded) /\ size # 0
  <2>1. e = [d EXCEPT !.state = "Data", !.line = <<>>, !.remaining = size, !.decoded = @ + size]
    BY <1>4, <1>8 DEF e
  <2>2. size \in Int /\ d.decoded + size \in Int
    BY <1>1, <1>5
  <2>3. e \in DecoderRecords
    BY <2>1, <2>2, EmptyText DEF DecoderRecords, DecoderStates
  <2>4. /\ e.state = "Data" /\ e.line = <<>> /\ e.sawCr = d.sawCr
        /\ e.decoded = d.decoded + size /\ e.remaining = size
    BY <2>1 DEF DecoderRecords
  <2> QED BY <1>8, <2>3, <2>4
<1> QED BY <1>6, <1>7, <1>8

\* A trailer as finish_trailer_line accepts it, without a look at its value.
TrailerNamed(line) ==
    Named(line) /\ FieldName(line) \notin {"Content-Length", "Transfer-Encoding", "Host"}

LEMMA TrailerFinished ==
    ASSUME NEW d \in DecoderRecords
    PROVE  LET e == FinishTrailerLine(d)
           IN  /\ e \in DecoderRecords
               /\ d.line = <<>> => e.state = "Complete"
               /\ d.line # <<>> /\ TrailerNamed(d.line) =>
                    /\ e.state = d.state /\ e.line = <<>> /\ e.sawCr = d.sawCr
                    /\ e.decoded = d.decoded
               /\ d.line # <<>> /\ ~TrailerNamed(d.line) => e.state = "Error"
<1> DEFINE named == TrailerNamed(d.line)
<1>1. FinishTrailerLine(d) = IF d.line = <<>> THEN [d EXCEPT !.state = "Complete"]
                             ELSE IF named THEN [d EXCEPT !.line = <<>>] ELSE Failed(d)
  BY Zenon DEF FinishTrailerLine, TrailerNamed
<1> HIDE DEF named
<1> QED BY <1>1, EmptyText DEF Failed, DecoderRecords, DecoderStates, named

\* What a byte does to a decoder within a line.
LEMMA LineByte ==
    ASSUME NEW d \in DecoderRecords, d.state \in {"SizeLine", "TrailerLine"}, NEW c \in Symbols
    PROVE  LET e == DecodeByte(d, c)
               t == [d EXCEPT !.sawCr = FALSE]
           IN  /\ d.sawCr /\ c # "LF" => e = Failed(t)
               /\ d.sawCr /\ c = "LF" =>
                    e = IF d.state = "SizeLine" THEN FinishSizeLine(t) ELSE FinishTrailerLine(t)
               /\ ~d.sawCr /\ c = "CR" => e = [d EXCEPT !.sawCr = TRUE]
               /\ ~d.sawCr /\ c # "CR" /\ (c = "LF" \/ Len(d.line) >= MaxLine) => e = Failed(d)
               /\ ~d.sawCr /\ c \notin {"CR", "LF"} /\ ~(Len(d.line) >= MaxLine) =>
                    e = [d EXCEPT !.line = Append(@, c)]
<1>1. DecodeByte(d, c) = AppendLineCharacter(d, c)
  BY DEF DecodeByte
<1> QED BY <1>1, Zenon DEF AppendLineCharacter

LEMMA DataByte ==
    ASSUME NEW d \in DecoderRecords, NEW c
    PROVE  LET e == DecodeByte(d, c)
           IN  /\ d.state = "Data" =>
                    e = [d EXCEPT !.remaining = @ - 1,
                                  !.state = IF d.remaining = 1 THEN "DataCr" ELSE "Data"]
               /\ d.state = "DataCr" =>
                    e = IF c = "CR" THEN [d EXCEPT !.state = "DataLf"] ELSE Failed(d)
               /\ d.state = "DataLf" =>
                    e = IF c = "LF" THEN [d EXCEPT !.state = "SizeLine"] ELSE Failed(d)
               /\ d.state \in {"Complete", "Error"} => e = Failed(d)
<1>1. d.state = "Data" => DecodeByte(d, c) = [d EXCEPT !.remaining = @ - 1,
                                  !.state = IF d.remaining = 1 THEN "DataCr" ELSE "Data"]
  BY DEF DecodeByte, DecoderRecords
<1>2. d.state = "DataCr" => DecodeByte(d, c) = AfterData(d, c)
  BY DEF DecodeByte
<1>3. d.state = "DataLf" => DecodeByte(d, c) =
          IF c = "LF" THEN [d EXCEPT !.state = "SizeLine"] ELSE Failed(d)
  BY DEF DecodeByte
<1>4. d.state \in {"Complete", "Error"} => DecodeByte(d, c) = Failed(d)
  BY DEF DecodeByte
<1> QED BY <1>1, <1>2, <1>3, <1>4, Zenon DEF AfterData

LEMMA DecodeByteType ==
    ASSUME NEW d \in DecoderRecords, NEW c \in Symbols
    PROVE  DecodeByte(d, c) \in DecoderRecords
<1> DEFINE e == DecodeByte(d, c)
           t == [d EXCEPT !.sawCr = FALSE]
<1>1. t \in DecoderRecords /\ [d EXCEPT !.sawCr = TRUE] \in DecoderRecords
      /\ Failed(d) \in DecoderRecords /\ Failed(t) \in DecoderRecords
  BY DEF DecoderRecords, Failed, DecoderStates
<1>2. [d EXCEPT !.line = Append(@, c)] \in DecoderRecords
  <2>1. Append(d.line, c) \in Texts
    BY DEF DecoderRecords, Texts
  <2> QED BY <2>1 DEF DecoderRecords
<1>3. FinishSizeLine(t) \in DecoderRecords /\ FinishTrailerLine(t) \in DecoderRecords
  BY <1>1, SizeFinished, TrailerFinished
<1>4. CASE d.state \in {"SizeLine", "TrailerLine"}
  <2> HIDE DEF e, t
  <2>1. d.sawCr \in BOOLEAN
    BY DEF DecoderRecords
  <2>2. \/ e = Failed(t) \/ e = FinishSizeLine(t) \/ e = FinishTrailerLine(t)
        \/ e = [d EXCEPT !.sawCr = TRUE] \/ e = Failed(d) \/ e = [d EXCEPT !.line = Append(@, c)]
    BY <1>4, <2>1, LineByte, Zenon DEF e, t
  <2> QED BY <1>1, <1>2, <1>3, <2>2 DEF e
<1>5. CASE d.state \notin {"SizeLine", "TrailerLine"}
  <2>1. d.state \in {"Data", "DataCr", "DataLf", "Complete", "Error"}
    BY <1>5 DEF DecoderRecords, DecoderStates
  <2>2. /\ [d EXCEPT !.state = "DataLf"] \in DecoderRecords
        /\ [d EXCEPT !.state = "SizeLine"] \in DecoderRecords
        /\ [d EXCEPT !.remaining = @ - 1, !.state = IF d.remaining = 1 THEN "DataCr" ELSE "Data"]
              \in DecoderRecords
    <3>1. d.remaining - 1 \in Int
      BY DEF DecoderRecords
    <3>2. (IF d.remaining = 1 THEN "DataCr" ELSE "Data") \in DecoderStates
      BY DEF DecoderStates
    <3> QED BY <3>1, <3>2 DEF DecoderRecords, DecoderStates
  <2> QED BY <1>1, <2>1, <2>2, DataByte
<1> QED BY <1>4, <1>5

LEMMA AfterType ==
    ASSUME NEW t \in Texts, NEW start \in Nat \ {0}, start <= Len(t) + 1
    PROVE  \A n \in (start - 1)..Len(t) : After(t, start, n) \in DecoderRecords
<1> DEFINE bad == {n \in Nat : start - 1 <= n /\ n <= Len(t) /\ After(t, start, n) \notin DecoderRecords}
<1>1. Len(t) \in Nat
  BY TextType
<1>2. bad = {}
  <2>1. SUFFICES ASSUME bad # {} PROVE FALSE
    OBVIOUS
  <2>2. PICK n \in bad : \A m \in bad : n <= m
    BY <2>1, Smallest
  <2>3. n # start - 1
    BY <2>2, AfterStep, NewDecoderIs
  <2>4. n - 1 \in Nat /\ start - 1 <= n - 1 /\ n - 1 <= Len(t) /\ ~(n <= n - 1)
        /\ n \in start..Len(t) /\ n \in 1..Len(t)
    BY <1>1, <2>2, <2>3
  <2>5. After(t, start, n - 1) \in DecoderRecords
    BY <2>2, <2>4
  <2>6. t[n] \in Symbols
    BY <2>4, TextType
  <2>7. After(t, start, n) = DecodeByte(After(t, start, n - 1), t[n])
    BY <2>4, AfterStep
  <2> QED BY <2>2, <2>5, <2>6, <2>7, DecodeByteType
<1> QED BY <1>1, <1>2

--------------------------------------------------------------------------------
(* Lines and data, as the decoder reads them *)

\* A body of which t is received begins at start.
BodyAt(t, start) == t \in Texts /\ start \in Nat \ {0} /\ start <= Len(t) + 1

LEMMA BodyStepped ==
    ASSUME NEW t, NEW start, BodyAt(t, start), NEW n \in start..Len(t)
    PROVE  /\ After(t, start, n) = DecodeByte(After(t, start, n - 1), t[n])
           /\ After(t, start, n) \in DecoderRecords /\ After(t, start, n - 1) \in DecoderRecords
           /\ t[n] \in Symbols
<1>1. t \in Texts /\ start \in Nat \ {0} /\ start <= Len(t) + 1 /\ Len(t) \in Nat
  BY TextType DEF BodyAt
<1>2. n \in (start - 1)..Len(t) /\ n - 1 \in (start - 1)..Len(t) /\ n \in 1..Len(t)
  BY <1>1
<1> QED BY <1>1, <1>2, AfterStep, AfterType, TextType

\* The end and an error are for good.
LEMMA Absorbed ==
    ASSUME NEW t, NEW start, BodyAt(t, start), NEW n \in (start - 1)..Len(t),
           After(t, start, n).state \in {"Complete", "Error"}
    PROVE  \A m \in (n + 1)..Len(t) : After(t, start, m).state = "Error"
<1>1. start \in Nat \ {0} /\ Len(t) \in Nat
  BY TextType DEF BodyAt
<1> DEFINE bad == {m \in Nat : n + 1 <= m /\ m <= Len(t) /\ After(t, start, m).state # "Error"}
<1>2. bad = {}
  <2>1. SUFFICES ASSUME bad # {} PROVE FALSE
    OBVIOUS
  <2>2. PICK m \in bad : \A k \in bad : m <= k
    BY <2>1, Smallest
  <2>3. m - 1 \in Nat /\ m - 1 <= Len(t) /\ ~(m <= m - 1) /\ m \in start..Len(t)
        /\ (m - 1 = n \/ n + 1 <= m - 1)
    BY <1>1, <2>2
  <2>4. After(t, start, m - 1).state \in {"Complete", "Error"}
    BY <2>2, <2>3
  <2>5. /\ After(t, start, m) = DecodeByte(After(t, start, m - 1), t[m])
        /\ After(t, start, m - 1) \in DecoderRecords
    BY <2>3, BodyStepped
  <2>6. After(t, start, m) = Failed(After(t, start, m - 1))
    BY <2>4, <2>5, DataByte
  <2>7. After(t, start, m).state = "Error"
    BY <2>5, <2>6 DEF Failed, DecoderRecords
  <2> QED BY <2>2, <2>7
<1> QED BY <1>1, <1>2

LEMMA CutAppend ==
    ASSUME NEW t \in Texts, NEW a \in Nat \ {0}, NEW b \in Nat, a <= b + 1, b < Len(t)
    PROVE  Append(SubSeq(t, a, b), t[b + 1]) = SubSeq(t, a, b + 1)
<1> DEFINE x == SubSeq(t, a, b)
           y == SubSeq(t, a, b + 1)
           m == (b - a) + 1
<1>1. Len(t) \in Nat /\ t[b + 1] \in Symbols /\ m \in Nat
  <2>1. Len(t) \in Nat
    BY TextType
  <2>2. b + 1 \in 1..Len(t)
    BY <2>1
  <2> QED BY <2>1, <2>2, TextType
<1>2. x \in Texts /\ Len(x) = m /\ \A i \in 1..m : x[i] = t[(a + i) - 1]
  <2>1. b <= Len(t) /\ (IF a <= b THEN (b - a) + 1 ELSE 0) = m
    BY <1>1
  <2> QED BY <2>1, Cut
<1>3. y \in Texts /\ Len(y) = m + 1 /\ \A i \in 1..(m + 1) : y[i] = t[(a + i) - 1]
  <2>1. /\ b + 1 \in Nat /\ b + 1 <= Len(t)
        /\ (IF a <= b + 1 THEN ((b + 1) - a) + 1 ELSE 0) = m + 1 /\ ((b + 1) - a) + 1 = m + 1
    BY <1>1
  <2> QED BY <2>1, Cut
<1>4. (a + (m + 1)) - 1 = b + 1 /\ m + 1 \in 1..(m + 1)
  BY <1>1
<1> HIDE DEF x, y, m
<1> DEFINE z == Append(x, t[b + 1])
<1>5. z \in Texts /\ Len(z) = m + 1 /\ z[m + 1] = t[b + 1] /\ \A i \in 1..m : z[i] = x[i]
  <2> DEFINE c == t[b + 1]
             S == Symbols
  <2>1. x \in Seq(S) /\ c \in S /\ m \in Nat /\ Len(x) = m
    BY <1>1, <1>2 DEF Texts
  <2> HIDE DEF c, S
  <2>2. /\ Append(x, c) \in Seq(S) /\ Len(Append(x, c)) = m + 1
        /\ Append(x, c)[m + 1] = c /\ \A i \in 1..m : Append(x, c)[i] = x[i]
    BY <2>1
  <2> QED BY <2>2 DEF c, S, Texts
<1> HIDE DEF z
<1>6. \A i \in 1..Len(z) : z[i] = y[i]
  <2>1. \A i \in 1..(m + 1) : i \in 1..m \/ i = m + 1
    BY <1>1
  <2> QED BY <1>2, <1>3, <1>4, <1>5, <2>1
<1>7. z = y
  BY <1>3, <1>5, <1>6, CutEqual
<1> QED BY <1>7 DEF z, x, y

LineStates == {"SizeLine", "TrailerLine"}

\* A CR or LF that does not end the line stands between i and n.
Broken(t, i, n) == \E j \in i..n : t[j] \in {"CR", "LF"}

\* The decoder within the line that begins at i, behind place n.
WithinLine(e, t, state, decoded, i, n) ==
    \/ e.state = "Error" /\ (Broken(t, i, n) \/ (n - i) + 1 > MaxLine)
    \/ /\ e.state = state /\ e.decoded = decoded /\ e.sawCr = FALSE
       /\ e.line = SubSeq(t, i, n) /\ ~Broken(t, i, n)
    \/ /\ e.state = state /\ e.decoded = decoded /\ e.sawCr = TRUE
       /\ i <= n /\ t[n] = "CR"

LEMMA LineRun ==
    ASSUME NEW t, NEW start, BodyAt(t, start), NEW state \in LineStates, NEW decoded,
           NEW i \in start..(Len(t) + 1), Fresh(After(t, start, i - 1), state, decoded),
           NEW last \in (i - 1)..Len(t), \A j \in i..(last - 1) : ~LineEnd(t, j)
    PROVE  \A n \in (i - 1)..last : WithinLine(After(t, start, n), t, state, decoded, i, n)
<1>1. t \in Texts /\ start \in Nat \ {0} /\ Len(t) \in Nat /\ i \in Nat \ {0} /\ last \in Nat
  BY TextType DEF BodyAt
<1>2. MaxLine \in Nat
  BY SizeAssumption
<1> DEFINE bad == {n \in Nat : /\ i - 1 <= n /\ n <= last
                               /\ ~WithinLine(After(t, start, n), t, state, decoded, i, n)}
<1>3. bad = {}
  <2>1. SUFFICES ASSUME bad # {} PROVE FALSE
    OBVIOUS
  <2>2. PICK n \in bad : \A m \in bad : n <= m
    BY <2>1, Smallest
  <2> DEFINE d == After(t, start, n - 1)
             e == After(t, start, n)
  <2>3. n # i - 1
    <3>1. SubSeq(t, i, i - 1) = <<>>
      <4>1. i - 1 \in Nat /\ i - 1 <= Len(t) /\ (IF i <= i - 1 THEN ((i - 1) - i) + 1 ELSE 0) = 0
        BY <1>1
      <4> QED BY <1>1, <4>1, Cut, EmptyText
    <3>2. ~Broken(t, i, i - 1)
      BY <1>1 DEF Broken
    <3> QED BY <2>2, <3>1, <3>2 DEF WithinLine, Fresh
  <2>4. /\ n - 1 \in Nat /\ i - 1 <= n - 1 /\ n - 1 <= last /\ ~(n <= n - 1)
        /\ n \in start..Len(t) /\ i <= n /\ n \in Nat /\ (n - 1) + 1 = n /\ n - 1 < Len(t)
    BY <1>1, <2>2, <2>3
  <2>5. WithinLine(d, t, state, decoded, i, n - 1)
    BY <2>2, <2>4
  <2>6. e = DecodeByte(d, t[n]) /\ d \in DecoderRecords /\ t[n] \in Symbols
    BY <2>4, BodyStepped
  <2> HIDE DEF d, e
  <2>7. Broken(t, i, n - 1) => Broken(t, i, n)
    BY <1>1, <2>4 DEF Broken
  <2>8. CASE d.state = "Error"
    <3>1. e.state = "Error"
      BY <2>6, <2>8, DataByte DEF Failed, DecoderRecords
    <3>2. Broken(t, i, n - 1) \/ ((n - 1) - i) + 1 > MaxLine
      BY <2>5, <2>8 DEF WithinLine, LineStates
    <3>3. Broken(t, i, n) \/ (n - i) + 1 > MaxLine
      BY <1>1, <1>2, <2>4, <2>7, <3>2
    <3>4. WithinLine(e, t, state, decoded, i, n)
      BY <3>1, <3>3 DEF WithinLine
    <3> QED BY <2>2, <3>4 DEF e
  <2>9. CASE /\ d.state = state /\ d.decoded = decoded /\ d.sawCr = TRUE
             /\ i <= n - 1 /\ t[n - 1] = "CR"
    <3>1. t[n] # "LF"
      <4>1. n - 1 \in i..(last - 1) /\ (n - 1) + 1 = n
        BY <1>1, <2>2, <2>4, <2>9
      <4>2. ~LineEnd(t, n - 1)
        BY <4>1
      <4> QED BY <2>9, <4>1, <4>2 DEF LineEnd
    <3> DEFINE x == [d EXCEPT !.sawCr = FALSE]
    <3>2. e = Failed(x) /\ x \in DecoderRecords
      <4>1. x \in DecoderRecords
        BY <2>6 DEF DecoderRecords
      <4>2. d.state \in {"SizeLine", "TrailerLine"}
        BY <2>9 DEF LineStates
      <4> QED BY <2>6, <2>9, <3>1, <4>1, <4>2, LineByte
    <3> HIDE DEF x
    <3>3. e.state = "Error"
      BY <3>2 DEF Failed, DecoderRecords
    <3>4. Broken(t, i, n)
      <4>1. n - 1 \in i..n
        BY <1>1, <2>4, <2>9
      <4> QED BY <2>9, <4>1 DEF Broken
    <3>5. WithinLine(e, t, state, decoded, i, n)
      BY <3>3, <3>4 DEF WithinLine
    <3> QED BY <2>2, <3>5 DEF e
  <2>10. CASE /\ d.state = state /\ d.decoded = decoded /\ d.sawCr = FALSE
              /\ d.line = SubSeq(t, i, n - 1) /\ ~Broken(t, i, n - 1)
    <3>1. d.state \in {"SizeLine", "TrailerLine"}
      BY <2>10 DEF LineStates
    <3>2. Len(d.line) = n - i
      <4>1. Len(SubSeq(t, i, n - 1)) = IF i <= n - 1 THEN ((n - 1) - i) + 1 ELSE 0
        BY <1>1, <2>4, Cut
      <4> QED BY <1>1, <2>4, <2>10, <4>1
    <3>3. n \in i..n
      BY <1>1, <2>4
    <3>4. CASE t[n] = "CR"
      <4>1. e = [d EXCEPT !.sawCr = TRUE]
        BY <2>6, <2>10, <3>1, <3>4, LineByte
      <4>2. WithinLine(e, t, state, decoded, i, n)
        BY <2>4, <2>6, <2>10, <3>4, <4>1 DEF WithinLine, DecoderRecords
      <4> QED BY <2>2, <4>2 DEF e
    <3>5. CASE t[n] # "CR" /\ (t[n] = "LF" \/ Len(d.line) >= MaxLine)
      <4>1. e = Failed(d)
        BY <2>6, <2>10, <3>1, <3>5, LineByte
      <4>2. e.state = "Error"
        BY <2>6, <4>1 DEF Failed, DecoderRecords
      <4>3. Broken(t, i, n) \/ (n - i) + 1 > MaxLine
        <5>1. CASE t[n] = "LF"
          BY <3>3, <5>1 DEF Broken
        <5>2. CASE Len(d.line) >= MaxLine
          BY <1>1, <1>2, <2>4, <3>2, <5>2
        <5> QED BY <3>5, <5>1, <5>2
      <4>4. WithinLine(e, t, state, decoded, i, n)
        BY <4>2, <4>3 DEF WithinLine
      <4> QED BY <2>2, <4>4 DEF e
    <3>6. CASE t[n] \notin {"CR", "LF"} /\ ~(Len(d.line) >= MaxLine)
      <4>1. e = [d EXCEPT !.line = Append(@, t[n])]
        BY <2>6, <2>10, <3>1, <3>6, LineByte
      <4>2. Append(d.line, t[n]) = SubSeq(t, i, n)
        <5>1. i <= (n - 1) + 1
          BY <2>4
        <5> QED BY <1>1, <2>4, <2>10, <5>1, CutAppend
      <4>3. ~Broken(t, i, n)
        <5>1. ASSUME NEW j \in i..n PROVE t[j] \notin {"CR", "LF"}
          <6>1. j = n \/ j \in i..(n - 1)
            BY <1>1, <2>4
          <6> QED BY <2>10, <3>6, <6>1 DEF Broken
        <5> QED BY <5>1 DEF Broken
      <4>4. /\ e.state = state /\ e.decoded = decoded /\ e.sawCr = FALSE
            /\ e.line = SubSeq(t, i, n)
        BY <2>6, <2>10, <4>1, <4>2 DEF DecoderRecords
      <4>5. WithinLine(e, t, state, decoded, i, n)
        BY <4>3, <4>4 DEF WithinLine
      <4> QED BY <2>2, <4>5 DEF e
    <3> QED BY <3>4, <3>5, <3>6
  <2> QED BY <2>5, <2>8, <2>9, <2>10 DEF WithinLine
<1> QED BY <1>1, <1>3

LEMMA ErrorByte ==
    ASSUME NEW d \in DecoderRecords, NEW c, d.state \in {"Complete", "Error"}
    PROVE  DecodeByte(d, c).state = "Error"
<1>1. DecodeByte(d, c) = Failed(d)
  BY DataByte
<1> QED BY <1>1 DEF Failed, DecoderRecords

Unfinished(t, start, from, to) == \A n \in from..to : After(t, start, n).state # "Complete"

\* A decoder that has been given the line at i: it has given up, for something
\* within the line or for its length, or finishes it.
LineGiven(e, t, state, decoded, i) ==
    LET end == Find(t, CRLF, i)
        line == LineOf(t, i)
    IN  \/ e.state = "Error" /\ (Broken(t, i, end - 1) \/ Len(line) > MaxLine)
        \/ /\ ~Broken(t, i, end - 1)
           /\ \E d \in DecoderRecords :
                /\ d.state = state /\ d.decoded = decoded /\ d.sawCr = FALSE /\ d.line = line
                /\ e = IF state = "SizeLine" THEN FinishSizeLine(d) ELSE FinishTrailerLine(d)

LEMMA LineDecoded ==
    ASSUME NEW t, NEW start, BodyAt(t, start), NEW state \in LineStates, NEW decoded,
           NEW i \in start..Len(t), Fresh(After(t, start, i - 1), state, decoded),
           Find(t, CRLF, i) # 0
    PROVE  LET end == Find(t, CRLF, i)
           IN  /\ end \in i..(Len(t) - 1)
               /\ LineGiven(After(t, start, end + 1), t, state, decoded, i)
               /\ Unfinished(t, start, i - 1, end)
<1> DEFINE end == Find(t, CRLF, i)
           line == LineOf(t, i)
           E(n) == After(t, start, n)
<1>1. t \in Texts /\ start \in Nat \ {0} /\ Len(t) \in Nat /\ i \in Nat \ {0} /\ MaxLine \in Nat
      /\ i \in start..(Len(t) + 1)
  BY TextType, SizeAssumption DEF BodyAt
<1>2. /\ end \in i..(Len(t) - 1) /\ LineEnd(t, end) /\ \A j \in i..(end - 1) : ~LineEnd(t, j)
      /\ line \in Texts /\ Len(line) = end - i /\ line = SubSeq(t, i, end - 1)
  BY <1>1, FindLine, LineOfType DEF FirstLineEnd, LineOf, LineTo
<1> HIDE DEF end, line
<1>3. t[end] = "CR" /\ t[end + 1] = "LF"
  BY <1>2 DEF LineEnd
<1>4. \A n \in (i - 1)..end : WithinLine(E(n), t, state, decoded, i, n)
  <2>1. end \in (i - 1)..Len(t)
    BY <1>1, <1>2
  <2> QED BY <1>1, <1>2, <2>1, LineRun
<1>5. Unfinished(t, start, i - 1, end)
  <2>1. ASSUME NEW n \in (i - 1)..end PROVE E(n).state # "Complete"
    BY <1>4 DEF WithinLine, LineStates
  <2> QED BY <2>1 DEF Unfinished
<1>6. /\ E(end) = DecodeByte(E(end - 1), "CR") /\ E(end + 1) = DecodeByte(E(end), "LF")
      /\ E(end - 1) \in DecoderRecords /\ E(end) \in DecoderRecords
      /\ "CR" \in Symbols /\ "LF" \in Symbols
  <2>1. end \in start..Len(t) /\ end + 1 \in start..Len(t) /\ (end + 1) - 1 = end
    BY <1>1, <1>2
  <2> QED BY <1>3, <2>1, BodyStepped
<1>7. LineGiven(E(end + 1), t, state, decoded, i)
  <2> DEFINE a == E(end - 1)
             b == E(end)
             c == E(end + 1)
             broken == Broken(t, i, end - 1)
  <2>0. SUFFICES \/ c.state = "Error" /\ (broken \/ Len(line) > MaxLine)
                 \/ /\ ~broken
                    /\ \E d \in DecoderRecords :
                         /\ d.state = state /\ d.decoded = decoded /\ d.sawCr = FALSE /\ d.line = line
                         /\ c = IF state = "SizeLine" THEN FinishSizeLine(d) ELSE FinishTrailerLine(d)
    BY Zenon DEF LineGiven, end, line
  <2>1. WithinLine(a, t, state, decoded, i, end - 1)
    <3>1. end - 1 \in (i - 1)..end
      BY <1>1, <1>2
    <3> QED BY <1>4, <3>1
  <2>2. /\ b = DecodeByte(a, "CR") /\ c = DecodeByte(b, "LF")
        /\ a \in DecoderRecords /\ b \in DecoderRecords
    BY <1>6
  <2> HIDE DEF a, b, c, E
  <2>3. CASE a.state = "Error"
    <3>1. b.state = "Error"
      BY <2>2, <2>3, ErrorByte
    <3>2. c.state = "Error"
      BY <2>2, <3>1, ErrorByte
    <3>3. broken \/ ((end - 1) - i) + 1 > MaxLine
      BY <2>1, <2>3 DEF WithinLine, LineStates
    <3>4. broken \/ Len(line) > MaxLine
      BY <1>1, <1>2, <3>3
    <3> QED BY <3>2, <3>4
  <2>4. CASE /\ a.state = state /\ a.decoded = decoded /\ a.sawCr = TRUE
             /\ i <= end - 1 /\ t[end - 1] = "CR"
    <3> DEFINE x == [a EXCEPT !.sawCr = FALSE]
    <3>1. x \in DecoderRecords
      BY <2>2 DEF DecoderRecords
    <3>2. b = Failed(x)
      <4>1. a.state \in {"SizeLine", "TrailerLine"}
        BY <2>4 DEF LineStates
      <4> QED BY <1>6, <2>2, <2>4, <4>1, LineByte
    <3> HIDE DEF x
    <3>3. b.state = "Error"
      BY <3>1, <3>2 DEF Failed, DecoderRecords
    <3>4. c.state = "Error"
      BY <2>2, <3>3, ErrorByte
    <3>5. broken
      <4>1. end - 1 \in i..(end - 1)
        BY <1>1, <1>2, <2>4
      <4> QED BY <2>4, <4>1 DEF Broken
    <3> QED BY <3>4, <3>5
  <2>5. CASE /\ a.state = state /\ a.decoded = decoded /\ a.sawCr = FALSE
             /\ a.line = line /\ ~broken
    <3>1. a.state \in {"SizeLine", "TrailerLine"}
      BY <2>5 DEF LineStates
    <3>2. b = [a EXCEPT !.sawCr = TRUE]
      BY <1>6, <2>2, <2>5, <3>1, LineByte
    <3>3. /\ b.state = state /\ b.decoded = decoded /\ b.sawCr = TRUE /\ b.line = line
      BY <2>2, <2>5, <3>2 DEF DecoderRecords
    <3> DEFINE d == [b EXCEPT !.sawCr = FALSE]
    <3>4. c = IF state = "SizeLine" THEN FinishSizeLine(d) ELSE FinishTrailerLine(d)
      BY <1>6, <2>2, <2>5, <3>1, <3>3, LineByte
    <3>5. d \in DecoderRecords /\ d.state = state /\ d.decoded = decoded /\ d.sawCr = FALSE
          /\ d.line = line
      BY <2>2, <3>3 DEF DecoderRecords
    <3> HIDE DEF d
    <3> QED BY <2>5, <3>4, <3>5
  <2> QED BY <1>2, <2>1, <2>3, <2>4, <2>5 DEF WithinLine
<1> QED BY <1>2, <1>5, <1>7 DEF end

LEMMA SizeLineDecoded ==
    ASSUME NEW t, NEW start, BodyAt(t, start), NEW decoded,
           NEW i \in start..Len(t), Fresh(After(t, start, i - 1), "SizeLine", decoded),
           Find(t, CRLF, i) # 0
    PROVE  LET end == Find(t, CRLF, i)
               line == LineOf(t, i)
               size == HexSize(SizeText(line))
               e == After(t, start, end + 1)
           IN  \/ /\ e.state = "Error"
                  /\ Broken(t, i, end - 1) \/ Len(line) > MaxLine \/ size > MaxBody - decoded
               \/ /\ ~Broken(t, i, end - 1) /\ ~(size > MaxBody - decoded)
                  /\ size = 0 /\ Fresh(e, "TrailerLine", decoded)
               \/ /\ ~Broken(t, i, end - 1) /\ ~(size > MaxBody - decoded)
                  /\ size # 0 /\ Fresh(e, "Data", decoded + size) /\ e.remaining = size
<1> DEFINE end == Find(t, CRLF, i)
           line == LineOf(t, i)
           size == HexSize(SizeText(line))
           e == After(t, start, end + 1)
           broken == Broken(t, i, end - 1)
<1>1. LineGiven(e, t, "SizeLine", decoded, i)
  <2>1. "SizeLine" \in LineStates
    BY DEF LineStates
  <2> QED BY <2>1, LineDecoded
<1>2. \/ e.state = "Error" /\ (broken \/ Len(line) > MaxLine)
      \/ /\ ~broken
         /\ \E d \in DecoderRecords :
              /\ d.decoded = decoded /\ d.sawCr = FALSE /\ d.line = line
              /\ e = FinishSizeLine(d)
  BY <1>1, Zenon DEF LineGiven
<1> SUFFICES \/ e.state = "Error" /\ (broken \/ Len(line) > MaxLine \/ size > MaxBody - decoded)
             \/ /\ ~broken /\ ~(size > MaxBody - decoded)
                /\ size = 0 /\ Fresh(e, "TrailerLine", decoded)
             \/ /\ ~broken /\ ~(size > MaxBody - decoded)
                /\ size # 0 /\ Fresh(e, "Data", decoded + size) /\ e.remaining = size
  OBVIOUS
<1> HIDE DEF e, line, broken, end
<1>3. ASSUME ~broken, NEW d \in DecoderRecords, d.decoded = decoded, d.sawCr = FALSE,
             d.line = line, e = FinishSizeLine(d)
      PROVE  \/ e.state = "Error" /\ size > MaxBody - decoded
             \/ ~(size > MaxBody - decoded) /\ size = 0 /\ Fresh(e, "TrailerLine", decoded)
             \/ /\ ~(size > MaxBody - decoded)
                /\ size # 0 /\ Fresh(e, "Data", decoded + size) /\ e.remaining = size
  <2>1. /\ size > MaxBody - decoded => e.state = "Error"
        /\ ~(size > MaxBody - decoded) /\ size = 0 =>
             e.state = "TrailerLine" /\ e.line = <<>> /\ e.sawCr = FALSE /\ e.decoded = decoded
        /\ ~(size > MaxBody - decoded) /\ size # 0 =>
             /\ e.state = "Data" /\ e.line = <<>> /\ e.sawCr = FALSE
             /\ e.decoded = decoded + size /\ e.remaining = size
    BY <1>3, SizeFinished, Zenon
  <2> HIDE DEF size
  <2> QED BY <2>1, Zenon DEF Fresh
<1> HIDE DEF size
<1> QED BY <1>2, <1>3

LEMMA TrailerDecoded ==
    ASSUME NEW t, NEW start, BodyAt(t, start), NEW decoded,
           NEW i \in start..Len(t), Fresh(After(t, start, i - 1), "TrailerLine", decoded),
           Find(t, CRLF, i) # 0
    PROVE  LET end == Find(t, CRLF, i)
               line == LineOf(t, i)
               e == After(t, start, end + 1)
           IN  \/ /\ e.state = "Error"
                  /\ \/ Broken(t, i, end - 1) \/ Len(line) > MaxLine
                     \/ line # <<>> /\ ~TrailerNamed(line)
               \/ ~Broken(t, i, end - 1) /\ line = <<>> /\ e.state = "Complete"
               \/ /\ ~Broken(t, i, end - 1) /\ line # <<>> /\ TrailerNamed(line)
                  /\ Fresh(e, "TrailerLine", decoded)
<1> DEFINE end == Find(t, CRLF, i)
           line == LineOf(t, i)
           named == TrailerNamed(line)
           e == After(t, start, end + 1)
           broken == Broken(t, i, end - 1)
<1>1. LineGiven(e, t, "TrailerLine", decoded, i)
  <2>1. "TrailerLine" \in LineStates
    BY DEF LineStates
  <2> QED BY <2>1, LineDecoded
<1>2. \/ e.state = "Error" /\ (broken \/ Len(line) > MaxLine)
      \/ /\ ~broken
         /\ \E d \in DecoderRecords :
              /\ d.state = "TrailerLine" /\ d.decoded = decoded /\ d.sawCr = FALSE /\ d.line = line
              /\ e = FinishTrailerLine(d)
  <2>1. "TrailerLine" # "SizeLine"
    OBVIOUS
  <2> QED BY <1>1, <2>1, Zenon DEF LineGiven
<1> SUFFICES \/ e.state = "Error" /\ (broken \/ Len(line) > MaxLine \/ (line # <<>> /\ ~named))
             \/ ~broken /\ line = <<>> /\ e.state = "Complete"
             \/ ~broken /\ line # <<>> /\ named /\ Fresh(e, "TrailerLine", decoded)
  OBVIOUS
<1> HIDE DEF e, line, broken, end
<1>3. ASSUME ~broken, NEW d \in DecoderRecords, d.state = "TrailerLine", d.decoded = decoded,
             d.sawCr = FALSE, d.line = line, e = FinishTrailerLine(d)
      PROVE  \/ e.state = "Error" /\ line # <<>> /\ ~named
             \/ line = <<>> /\ e.state = "Complete"
             \/ line # <<>> /\ named /\ Fresh(e, "TrailerLine", decoded)
  <2>1. /\ line = <<>> => e.state = "Complete"
        /\ line # <<>> /\ named =>
             e.state = "TrailerLine" /\ e.line = <<>> /\ e.sawCr = FALSE /\ e.decoded = decoded
        /\ line # <<>> /\ ~named => e.state = "Error"
    BY <1>3, TrailerFinished, Zenon
  <2> HIDE DEF named
  <2> QED BY <2>1, Zenon DEF Fresh
<1> HIDE DEF named
<1> QED BY <1>2, <1>3

\* The decoder within the data that begin at i, behind place n.
DataState(i, size, n) == IF n = (i - 1) + size THEN "DataCr" ELSE "Data"

LEMMA DataRun ==
    ASSUME NEW t, NEW start, BodyAt(t, start), NEW decoded,
           NEW i \in start..(Len(t) + 1), Fresh(After(t, start, i - 1), "Data", decoded),
           NEW size \in Nat \ {0}, After(t, start, i - 1).remaining = size
    PROVE  \A n \in (i - 1)..Len(t) : n <= (i - 1) + size =>
             /\ Fresh(After(t, start, n), DataState(i, size, n), decoded)
             /\ After(t, start, n).remaining = size - (n - (i - 1))
<1>1. t \in Texts /\ start \in Nat \ {0} /\ Len(t) \in Nat /\ i \in Nat \ {0}
  BY TextType DEF BodyAt
<1> DEFINE Holds(n) == /\ Fresh(After(t, start, n), DataState(i, size, n), decoded)
                       /\ After(t, start, n).remaining = size - (n - (i - 1))
           bad == {n \in Nat : i - 1 <= n /\ n <= Len(t) /\ n <= (i - 1) + size /\ ~Holds(n)}
<1>2. bad = {}
  <2>1. SUFFICES ASSUME bad # {} PROVE FALSE
    OBVIOUS
  <2>2. PICK n \in bad : \A m \in bad : n <= m
    BY <2>1, Smallest
  <2>3. n # i - 1
    <3>1. (i - 1) # (i - 1) + size /\ size - ((i - 1) - (i - 1)) = size
      BY <1>1
    <3>2. Holds(i - 1)
      BY <3>1 DEF DataState
    <3> HIDE DEF Holds
    <3> QED BY <2>2, <3>2
  <2>4. /\ n - 1 \in Nat /\ i - 1 <= n - 1 /\ n - 1 <= Len(t) /\ ~(n <= n - 1)
        /\ n \in start..Len(t) /\ n - 1 <= (i - 1) + size /\ n - 1 # (i - 1) + size
    BY <1>1, <2>2, <2>3
  <2>5. Holds(n - 1)
    BY <2>2, <2>4
  <2> DEFINE d == After(t, start, n - 1)
             e == After(t, start, n)
  <2>6. e = DecodeByte(d, t[n]) /\ d \in DecoderRecords
    BY <2>4, BodyStepped
  <2>7. Fresh(d, "Data", decoded) /\ d.remaining = size - ((n - 1) - (i - 1))
    BY <2>4, <2>5 DEF DataState
  <2> HIDE DEF d, e
  <2>8. e = [d EXCEPT !.remaining = @ - 1,
                      !.state = IF d.remaining = 1 THEN "DataCr" ELSE "Data"]
    BY <2>6, <2>7, DataByte DEF Fresh
  <2>9. d.remaining = 1 <=> n = (i - 1) + size
    BY <1>1, <2>4, <2>7
  <2>10. Fresh(e, DataState(i, size, n), decoded)
    BY <2>6, <2>7, <2>8, <2>9 DEF Fresh, DataState, DecoderRecords
  <2>11. e.remaining = size - (n - (i - 1))
    <3>1. e.remaining = d.remaining - 1
      BY <2>6, <2>8 DEF DecoderRecords
    <3> QED BY <1>1, <2>4, <2>7, <3>1
  <2> QED BY <2>2, <2>10, <2>11 DEF e
<1> HIDE DEF Holds
<1>3. ASSUME NEW n \in (i - 1)..Len(t), n <= (i - 1) + size
      PROVE  Holds(n)
  <2>1. n \in Nat /\ i - 1 <= n /\ n <= Len(t)
    BY <1>1
  <2> QED BY <1>2, <1>3, <2>1
<1> QED BY <1>3 DEF Holds

LEMMA DataDecoded ==
    ASSUME NEW t, NEW start, BodyAt(t, start), NEW decoded,
           NEW i \in start..(Len(t) + 1), Fresh(After(t, start, i - 1), "Data", decoded),
           NEW size \in Nat \ {0}, After(t, start, i - 1).remaining = size
    PROVE  LET end == i + size
           IN  /\ Unfinished(t, start, i - 1, IF end <= Len(t) THEN end ELSE Len(t))
               /\ end + 1 <= Len(t) =>
                    After(t, start, end + 1).state = "Error" \/ LineEnd(t, end)
               /\ end + 1 <= Len(t) /\ LineEnd(t, end) =>
                    Fresh(After(t, start, end + 1), "SizeLine", decoded)
<1> DEFINE end == i + size
           E(n) == After(t, start, n)
<1>1. t \in Texts /\ start \in Nat \ {0} /\ Len(t) \in Nat /\ i \in Nat \ {0}
      /\ end \in Nat /\ end - 1 = (i - 1) + size /\ end - 1 >= i
  BY TextType DEF BodyAt
<1>2. \A n \in (i - 1)..Len(t) : n <= end - 1 => Fresh(E(n), DataState(i, size, n), decoded)
  BY <1>1, DataRun
<1> HIDE DEF end
<1>3. ASSUME end <= Len(t)
      PROVE  /\ E(end - 1) \in DecoderRecords /\ E(end) = DecodeByte(E(end - 1), t[end])
             /\ Fresh(E(end - 1), "DataCr", decoded)
  <2>1. end \in start..Len(t) /\ end - 1 \in (i - 1)..Len(t) /\ end - 1 <= end - 1
    BY <1>1, <1>3
  <2>2. Fresh(E(end - 1), "DataCr", decoded)
    BY <1>1, <1>2, <2>1 DEF DataState
  <2> QED BY <2>1, <2>2, BodyStepped
<1>4. ASSUME end <= Len(t)
      PROVE  /\ t[end] # "CR" => E(end).state = "Error"
             /\ t[end] = "CR" => Fresh(E(end), "DataLf", decoded)
  <2> DEFINE d == E(end - 1)
             e == E(end)
  <2>1. d \in DecoderRecords /\ e = DecodeByte(d, t[end]) /\ Fresh(d, "DataCr", decoded)
    BY <1>3, <1>4
  <2> HIDE DEF d, e, E
  <2>2. e = IF t[end] = "CR" THEN [d EXCEPT !.state = "DataLf"] ELSE Failed(d)
    BY <2>1, DataByte DEF Fresh
  <2>3. t[end] # "CR" => e.state = "Error"
    BY <2>1, <2>2 DEF Failed, DecoderRecords
  <2>4. t[end] = "CR" => Fresh(e, "DataLf", decoded)
    BY <2>1, <2>2 DEF Fresh, DecoderRecords
  <2> QED BY <2>3, <2>4 DEF e
<1>5. ASSUME end + 1 <= Len(t)
      PROVE  /\ E(end + 1).state = "Error" \/ LineEnd(t, end)
             /\ LineEnd(t, end) => Fresh(E(end + 1), "SizeLine", decoded)
  <2> DEFINE d == E(end)
             e == E(end + 1)
  <2>1. end <= Len(t) /\ end + 1 \in start..Len(t) /\ (end + 1) - 1 = end
    BY <1>1, <1>5
  <2>2. d \in DecoderRecords /\ e = DecodeByte(d, t[end + 1])
    BY <2>1, BodyStepped
  <2>3. /\ t[end] # "CR" => d.state = "Error"
        /\ t[end] = "CR" => Fresh(d, "DataLf", decoded)
    BY <1>4, <2>1
  <2> HIDE DEF d, e, E
  <2>4. CASE t[end] # "CR"
    <3>1. e.state = "Error"
      BY <2>2, <2>3, <2>4, ErrorByte
    <3>2. ~LineEnd(t, end)
      BY <2>4 DEF LineEnd
    <3> QED BY <3>1, <3>2 DEF e, E
  <2>5. CASE t[end] = "CR"
    <3>1. e = IF t[end + 1] = "LF" THEN [d EXCEPT !.state = "SizeLine"] ELSE Failed(d)
      BY <2>2, <2>3, <2>5, DataByte DEF Fresh
    <3>2. t[end + 1] # "LF" => e.state = "Error"
      BY <2>2, <3>1 DEF Failed, DecoderRecords
    <3>3. t[end + 1] = "LF" => Fresh(e, "SizeLine", decoded)
      BY <2>2, <2>3, <2>5, <3>1 DEF Fresh, DecoderRecords
    <3> QED BY <2>5, <3>2, <3>3 DEF LineEnd, e
  <2> QED BY <2>4, <2>5
<1>6. Unfinished(t, start, i - 1, IF end <= Len(t) THEN end ELSE Len(t))
  <2>1. ASSUME NEW n \in (i - 1)..(IF end <= Len(t) THEN end ELSE Len(t))
        PROVE  E(n).state # "Complete"
    <3>1. n \in (i - 1)..Len(t) /\ (n <= end - 1 \/ (n = end /\ end <= Len(t)))
      BY <1>1
    <3>2. CASE n <= end - 1
      BY <1>2, <3>1, <3>2 DEF Fresh, DataState
    <3>3. CASE n = end /\ end <= Len(t)
      BY <1>4, <3>3 DEF Fresh
    <3> QED BY <3>1, <3>2, <3>3
  <2> QED BY <2>1 DEF Unfinished
<1> QED BY <1>5, <1>6 DEF end

--------------------------------------------------------------------------------
(* Lines without control characters *)

\* finish_size_line of both make the same of a line that prints.
LEMMA PrintedSize ==
    ASSUME NEW line \in Texts, Printable(line)
    PROVE  SizeOf(line) = HexSize(SizeText(line))
<1> DEFINE s == Find(line, Semicolon, 1)
           text == SizeText(line)
<1>1. s \in Nat /\ s <= Len(line) /\ Len(line) \in Nat /\ DOMAIN line = 1..Len(line)
  BY FindSemicolon, TextType
<1>2. text = IF s = 0 THEN line ELSE SubSeq(line, 1, s - 1)
  BY SizeTextIs
<1>3. SizeOf(line) = IF s = 0 THEN HexSize(line)
                     ELSE IF ~Printable(SubSeq(line, s + 1, Len(line))) THEN NoSize
                     ELSE HexSize(SubSeq(line, 1, s - 1))
  BY Zenon DEF SizeOf, Semicolon, Semi
<1> HIDE DEF s, text
<1>4. s # 0 => Printable(SubSeq(line, s + 1, Len(line)))
  <2>1. ASSUME s # 0
        PROVE  s \in 1..Len(line) /\ \A i \in (s + 1)..Len(line) : i \in 1..Len(line)
    BY <1>1, <2>1
  <2>2. \A i \in 1..Len(line) : line[i] \notin Controls
    BY <1>1 DEF Printable
  <2> QED BY <2>1, <2>2, PrintableBehind
<1> QED BY <1>2, <1>3, <1>4 DEF text

LEMMA LinePrints ==
    ASSUME NEW t \in Texts, NEW i \in Nat \ {0}, Find(t, CRLF, i) # 0
    PROVE  LET end == Find(t, CRLF, i)
           IN  /\ Printable(LineOf(t, i)) => ~Broken(t, i, end - 1)
               /\ ~Broken(t, i, end - 1) =>
                    Printable(LineOf(t, i)) \/ \E j \in 1..Len(t) : t[j] = "ctl"
<1> DEFINE end == Find(t, CRLF, i)
           line == LineOf(t, i)
<1>1. end \in i..(Len(t) - 1) /\ line \in Texts /\ Len(line) = end - i
      /\ line = SubSeq(t, i, end - 1)
  BY LineOfType DEF LineOf, LineTo
<1>2. Len(t) \in Nat /\ DOMAIN line = 1..Len(line)
  BY <1>1, TextType
<1>3. \A j \in 1..(((end - 1) - i) + 1) : line[j] = t[(i + j) - 1]
  <2>1. end - 1 \in Nat /\ end - 1 <= Len(t)
    BY <1>1, <1>2
  <2> QED BY <1>1, <2>1, Cut
<1> HIDE DEF end, line
<1>4. \A j \in 1..(end - i) : line[j] = t[(i + j) - 1]
  BY <1>1, <1>2, <1>3
<1>5. Printable(line) => ~Broken(t, i, end - 1)
  <2>1. ASSUME Printable(line), NEW j \in i..(end - 1)
        PROVE  t[j] \notin {"CR", "LF"}
    <3>1. (j - i) + 1 \in 1..(end - i) /\ (i + ((j - i) + 1)) - 1 = j
      BY <1>1, <1>2
    <3>2. line[(j - i) + 1] = t[j] /\ line[(j - i) + 1] \notin Controls
      BY <1>1, <1>2, <1>4, <2>1, <3>1 DEF Printable
    <3> QED BY <3>2 DEF Controls
  <2> QED BY <2>1 DEF Broken
<1>6. ~Broken(t, i, end - 1) => Printable(line) \/ \E j \in 1..Len(t) : t[j] = "ctl"
  <2>1. ASSUME ~Broken(t, i, end - 1), NEW j \in 1..(end - i), line[j] \in Controls
        PROVE  \E k \in 1..Len(t) : t[k] = "ctl"
    <3>1. (i + j) - 1 \in i..(end - 1) /\ (i + j) - 1 \in 1..Len(t)
      BY <1>1, <1>2
    <3>2. t[(i + j) - 1] \in Controls /\ t[(i + j) - 1] \notin {"CR", "LF"}
      BY <1>4, <2>1, <3>1 DEF Broken
    <3>3. t[(i + j) - 1] = "ctl"
      BY <3>2 DEF Controls
    <3> QED BY <3>1, <3>3
  <2> QED BY <1>1, <1>2, <2>1 DEF Printable
<1> QED BY <1>5, <1>6 DEF end, line

--------------------------------------------------------------------------------
(* What one of the two proxies rejects alone *)

LongLine(t) == LongSizeLine(t, MaxLine) \/ LongTrailer(t, MaxLine)

\* The line of the last chunk is there, and the trailers begin at `from'.
LastChunk(t, from) ==
    \E i \in BodyLines(t) :
      /\ IsSizeLine(BodyLine(t, i)) /\ ExactSize(SizeText(BodyLine(t, i)), 16) = 0
      /\ Find(t, CRLF, i) + 2 = from

\* Why a message that ends at k may be rejected in u.
Excused(u, k) ==
    \/ \E i \in 1..Len(u) : u[i] = "ctl"
    \/ LongTrailers(SubSeq(u, 1, k))
    \/ LongSizeLine(u, MaxHeader - 2)

LEMMA BodyLineIs == \A t, i : BodyLine(t, i) = LineOf(t, i)
  BY DEF BodyLine, LineOf

LEMMA BodyLineStays ==
    ASSUME NEW t \in Texts, NEW u \in Texts, Begins(t, u), HeadLength(t) # 0,
           NEW i \in BodyLines(t)
    PROVE  /\ i \in BodyLines(u) /\ Find(u, CRLF, i) = Find(t, CRLF, i)
           /\ BodyLine(u, i) = BodyLine(t, i)
<1>1. /\ i \in (HeadLength(t) + 1)..Len(t) /\ t[i - 1] = "LF" /\ Find(t, CRLF, i) # 0
      /\ HeadLength(t) \in Nat /\ HeadLength(u) = HeadLength(t)
      /\ Len(t) \in Nat /\ Len(u) \in Nat /\ Len(t) <= Len(u)
  BY HeadLengthIs, SameHead, TextType DEF BodyLines, Begins
<1>2. i \in Nat \ {0} /\ i - 1 \in 1..Len(t) /\ i \in (HeadLength(u) + 1)..Len(u)
  BY <1>1
<1>3. u[i - 1] = "LF"
  BY <1>1, <1>2 DEF Begins
<1>4. Find(u, CRLF, i) = Find(t, CRLF, i) /\ LineOf(u, i) = LineOf(t, i)
  BY <1>1, <1>2, LineKept
<1> QED BY <1>1, <1>2, <1>3, <1>4, BodyLineIs DEF BodyLines

LEMMA LongLineStays ==
    ASSUME NEW t \in Texts, NEW u \in Texts, Begins(t, u), HeadLength(t) # 0
    PROVE  /\ LongLine(t) => LongLine(u)
           /\ \A from : LastChunk(t, from) => LastChunk(u, from)
  BY BodyLineStays DEF LongLine, LongSizeLine, LongTrailer, LastChunk

\* A line that ends before k is a line of the first k symbols.
LEMMA LastChunkLong ==
    ASSUME NEW t \in Texts, NEW u \in Texts, Begins(t, u), HeadLength(t) # 0, NEW from \in Nat,
           LastChunk(t, from), NEW k \in (from - 1)..Len(u), k - (from - 1) > MaxHeader
    PROVE  LongTrailers(SubSeq(u, 1, k))
<1> DEFINE b == SubSeq(u, 1, k)
<1>1. PICK i \in BodyLines(u) :
        /\ IsSizeLine(BodyLine(u, i)) /\ ExactSize(SizeText(BodyLine(u, i)), 16) = 0
        /\ Find(u, CRLF, i) + 2 = from
  <2>1. LastChunk(u, from)
    BY LongLineStays
  <2> QED BY <2>1 DEF LastChunk
<1>2. /\ i \in (HeadLength(u) + 1)..Len(u) /\ u[i - 1] = "LF" /\ Find(u, CRLF, i) # 0
      /\ HeadLength(u) # 0 /\ HeadLength(u) \in Nat /\ Len(u) \in Nat
  BY HeadLengthIs, SameHead, TextType DEF BodyLines
<1>3. i \in Nat \ {0} /\ Find(u, CRLF, i) \in i..(Len(u) - 1)
  BY <1>2, LineOfType
<1>4. k \in Nat /\ k <= Len(u) /\ k >= Find(u, CRLF, i) + 1 /\ from - 1 = Find(u, CRLF, i) + 1
  BY <1>1, <1>2, <1>3
<1>5. b \in Texts /\ Len(b) = k /\ Begins(b, u)
  <2>1. 1 \in Nat \ {0}
    OBVIOUS
  <2>2. /\ b \in Texts /\ Len(b) = IF 1 <= k THEN (k - 1) + 1 ELSE 0
        /\ \A j \in 1..((k - 1) + 1) : b[j] = u[(1 + j) - 1]
    BY <1>4, <2>1, Cut
  <2> HIDE DEF b
  <2>3. Len(b) = k
    BY <1>4, <2>2
  <2> QED BY <1>2, <1>4, <2>2, <2>3 DEF Begins
<1> HIDE DEF b
<1>6. HeadLength(b) = HeadLength(u)
  <2> DEFINE e == Find(u, CRLF \o CRLF, 1)
  <2>1. HeadLength(u) = e + 3 /\ FirstHeadEnd(u, e) /\ e \in Nat
    BY <1>2, HeadLengthIs, FindHead
  <2> HIDE DEF e
  <2>2. e + 3 <= Len(b)
    BY <1>2, <1>3, <1>4, <1>5, <2>1
  <2>3. FirstHeadEnd(b, e)
    BY <1>5, <2>1, <2>2, HeadGoesOn
  <2>4. Find(b, CRLF \o CRLF, 1) = e /\ e # 0
    BY <1>5, <2>3, HeadAt DEF FirstHeadEnd
  <2> QED BY <1>5, <2>1, <2>4, HeadLengthIs
<1>7. Find(b, CRLF, i) = Find(u, CRLF, i) /\ LineOf(b, i) = LineOf(u, i)
  <2>1. Find(u, CRLF, i) < Len(b)
    BY <1>2, <1>3, <1>4, <1>5
  <2> QED BY <1>2, <1>3, <1>5, <2>1, LineKept
<1>8. i \in BodyLines(b)
  <2>1. i \in (HeadLength(b) + 1)..Len(b) /\ i - 1 \in 1..Len(b)
    BY <1>2, <1>3, <1>4, <1>5, <1>6
  <2>2. b[i - 1] = "LF"
    BY <1>2, <1>5, <2>1 DEF Begins
  <2> QED BY <1>2, <1>7, <2>1, <2>2 DEF BodyLines
<1>9. Len(b) - (Find(b, CRLF, i) + 1) > MaxHeader
  BY <1>4, <1>5, <1>7
<1> QED BY <1>1, <1>7, <1>8, <1>9, BodyLineIs DEF LongTrailers, b

--------------------------------------------------------------------------------
(* What a decoder must have read that comes to an end *)

LEMMA UnfinishedJoins ==
    ASSUME NEW t, NEW start, NEW a \in Int, NEW b \in Int, NEW c \in Int,
           Unfinished(t, start, a, b), Unfinished(t, start, b, c)
    PROVE  Unfinished(t, start, a, c)
<1>1. \A n \in a..c : n \in a..b \/ n \in b..c
  OBVIOUS
<1> QED BY <1>1 DEF Unfinished

LEMMA UnfinishedOn ==
    ASSUME NEW t, NEW start, BodyAt(t, start), NEW u \in Texts, Begins(t, u),
           NEW to \in Int, to <= Len(t), Unfinished(t, start, start - 1, to)
    PROVE  Unfinished(u, start, start - 1, to)
<1>1. t \in Texts /\ start \in Nat \ {0} /\ Len(t) \in Nat
  BY TextType DEF BodyAt
<1>2. ASSUME NEW n \in (start - 1)..to
      PROVE  After(u, start, n).state # "Complete"
  <2>1. n \in Nat /\ n <= Len(t)
    BY <1>1
  <2>2. After(u, start, n) = After(t, start, n)
    BY <1>1, <2>1, AfterCommon
  <2> QED BY <2>2 DEF Unfinished
<1> QED BY <1>2 DEF Unfinished

LEMMA BodyOn ==
    ASSUME NEW t, NEW start, BodyAt(t, start), NEW u \in Texts, Begins(t, u)
    PROVE  BodyAt(u, start)
  BY TextType DEF BodyAt, Begins

\* Within a line that does not end, a body does not.
LEMMA LineWaited ==
    ASSUME NEW t, NEW start, BodyAt(t, start), NEW state \in LineStates, NEW decoded,
           NEW i \in start..(Len(t) + 1), Fresh(After(t, start, i - 1), state, decoded),
           Find(t, CRLF, i) = 0
    PROVE  Unfinished(t, start, i - 1, Len(t))
<1>1. t \in Texts /\ start \in Nat \ {0} /\ Len(t) \in Nat /\ i \in Nat \ {0}
  BY TextType DEF BodyAt
<1>2. \A j \in i..(Len(t) - 1) : ~LineEnd(t, j)
  BY <1>1, FindLine
<1>3. Len(t) \in (i - 1)..Len(t)
  BY <1>1
<1>4. \A n \in (i - 1)..Len(t) : WithinLine(After(t, start, n), t, state, decoded, i, n)
  BY <1>2, <1>3, LineRun
<1> QED BY <1>4 DEF Unfinished, WithinLine, LineStates

\* A body that ends behind a line has read it.
LEMMA LinePassed ==
    ASSUME NEW t, NEW start, BodyAt(t, start), NEW state \in LineStates, NEW decoded,
           NEW i \in start..(Len(t) + 1), Fresh(After(t, start, i - 1), state, decoded),
           NEW k \in (i - 1)..Len(t), After(t, start, k).state = "Complete"
    PROVE  LET end == Find(t, CRLF, i)
           IN  /\ end # 0 /\ end \in i..(Len(t) - 1) /\ end + 1 <= k
               /\ After(t, start, end + 1).state # "Error"
<1> DEFINE end == Find(t, CRLF, i)
<1>1. t \in Texts /\ start \in Nat \ {0} /\ Len(t) \in Nat /\ i \in Nat \ {0}
  BY TextType DEF BodyAt
<1>2. end # 0
  BY LineWaited DEF Unfinished
<1>3. end \in i..(Len(t) - 1)
  BY <1>1, <1>2, LineOfType
<1>4. Unfinished(t, start, i - 1, end)
  <2>1. i \in start..Len(t)
    BY <1>1, <1>3
  <2> QED BY <1>2, <2>1, LineDecoded
<1> HIDE DEF end
<1>5. end + 1 <= k
  <2>1. k \notin (i - 1)..end
    BY <1>4 DEF Unfinished
  <2> QED BY <1>1, <1>3, <2>1
<1>6. After(t, start, end + 1).state # "Error"
  <2>1. SUFFICES ASSUME After(t, start, end + 1).state = "Error" PROVE FALSE
    OBVIOUS
  <2>2. end + 1 \in (start - 1)..Len(t) /\ (k = end + 1 \/ k \in ((end + 1) + 1)..Len(t))
    BY <1>1, <1>3, <1>5
  <2>3. \A m \in ((end + 1) + 1)..Len(t) : After(t, start, m).state = "Error"
    BY <2>1, <2>2, Absorbed
  <2> QED BY <2>1, <2>2, <2>3
<1> QED BY <1>2, <1>3, <1>5, <1>6 DEF end

LEMMA SizeLinePassed ==
    ASSUME NEW t, NEW start, BodyAt(t, start), NEW decoded,
           NEW i \in start..(Len(t) + 1), Fresh(After(t, start, i - 1), "SizeLine", decoded),
           NEW k \in (i - 1)..Len(t), After(t, start, k).state = "Complete"
    PROVE  LET end == Find(t, CRLF, i)
               size == HexSize(SizeText(LineOf(t, i)))
           IN  /\ end # 0 /\ end \in i..(Len(t) - 1) /\ end + 1 <= k
               /\ ~Broken(t, i, end - 1) /\ ~(size > MaxBody - decoded)
<1> DEFINE end == Find(t, CRLF, i)
           size == HexSize(SizeText(LineOf(t, i)))
<1>1. /\ end # 0 /\ end \in i..(Len(t) - 1) /\ end + 1 <= k
      /\ After(t, start, end + 1).state # "Error"
  <2>1. "SizeLine" \in LineStates
    BY DEF LineStates
  <2> QED BY <2>1, LinePassed
<1>2. i \in start..Len(t)
  BY <1>1, TextType DEF BodyAt
<1>3. ~Broken(t, i, end - 1) /\ ~(size > MaxBody - decoded)
  BY <1>1, <1>2, SizeLineDecoded
<1> QED BY <1>1, <1>3

LEMMA TrailerPassed ==
    ASSUME NEW t, NEW start, BodyAt(t, start), NEW decoded,
           NEW i \in start..(Len(t) + 1), Fresh(After(t, start, i - 1), "TrailerLine", decoded),
           NEW k \in (i - 1)..Len(t), After(t, start, k).state = "Complete"
    PROVE  LET end == Find(t, CRLF, i)
               line == LineOf(t, i)
           IN  /\ end # 0 /\ end \in i..(Len(t) - 1) /\ end + 1 <= k
               /\ ~Broken(t, i, end - 1) /\ (line = <<>> \/ TrailerNamed(line))
<1> DEFINE end == Find(t, CRLF, i)
           line == LineOf(t, i)
<1>1. /\ end # 0 /\ end \in i..(Len(t) - 1) /\ end + 1 <= k
      /\ After(t, start, end + 1).state # "Error"
  <2>1. "TrailerLine" \in LineStates
    BY DEF LineStates
  <2> QED BY <2>1, LinePassed
<1>2. i \in start..Len(t)
  BY <1>1, TextType DEF BodyAt
<1>3. ~Broken(t, i, end - 1) /\ (line = <<>> \/ TrailerNamed(line))
  BY <1>1, <1>2, TrailerDecoded
<1> QED BY <1>1, <1>3

\* The decoder ends with byte m, or has given up for a line that is too long for it.
EndsAt(t, start, m) ==
    /\ Unfinished(t, start, start - 1, m - 1)
    /\ \/ After(t, start, m).state = "Complete"
       \/ After(t, start, m).state = "Error" /\ LongLine(t)

\* Whatever follows, the decoder does not come to the end of a body that the
\* parser has no reason of its own to reject.
Unaccepted(t, start) ==
    \A u \in Texts : Begins(t, u) =>
      \A k \in (start - 1)..Len(u) : After(u, start, k).state = "Complete" => Excused(u, k)

================================================================================
