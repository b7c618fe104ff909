----------------------- MODULE IronyExchangeProofs -----------------------
(* What matching a prefix does for every prefix and every typed text; that  *)
(* the server reads every command as irony-mode meant it, and Emacs every   *)
(* reply as the server did; and that candidates are what libclang described.*)
EXTENDS IronyExchange, InductionLemmas, SequenceTheorems, TLAPS

----------------------------------------------------------------------------
(* Matching a prefix.                                                       *)

(* A prefix with an upper case letter keeps it when it grows, so that       *)
(* smart-case can only become sensitive, never insensitive.                 *)
LEMMA GrowingIsStricter ==
  ASSUME NEW prefix \in Seq(Letter), NEW c \in Letter, NEW style,
         IsStyleCaseInsensitive(Append(prefix, c), style)
  PROVE  IsStyleCaseInsensitive(prefix, style)
<1>1. \A i \in DOMAIN prefix : i \in DOMAIN Append(prefix, c) /\ Append(prefix, c)[i] = prefix[i]
  OBVIOUS
<1>2. Range(prefix) \subseteq Range(Append(prefix, c))
  BY <1>1 DEF Range
<1> QED
  BY <1>2 DEF IsStyleCaseInsensitive, HasUppercase

LEMMA EqualIsEqual ==
  ASSUME NEW a, NEW b, IsEqual(FALSE, a, b)
  PROVE  IsEqual(TRUE, a, b)
BY DEF IsEqual

LEMMA LooserStartsWith ==
  ASSUME NEW str \in Seq(Letter), NEW prefix \in Seq(Letter), NEW strict \in BOOLEAN, NEW loose \in BOOLEAN,
         strict => loose, StartsWith(str, prefix, strict)
  PROVE  StartsWith(str, prefix, loose)
BY EqualIsEqual DEF StartsWith

\* What matches a prefix matched the prefix before its last letter was typed, in
\* every style (startsWith, isStyleCaseInsensitive of Irony.cpp).
THEOREM LongerMatchesLess ==
  ASSUME NEW str \in Seq(Letter), NEW prefix \in Seq(Letter), NEW c \in Letter, NEW style \in PrefixStyle,
         Matches(str, Append(prefix, c), style)
  PROVE  Matches(str, prefix, style)
<1> DEFINE strict == IsStyleCaseInsensitive(Append(prefix, c), style)
           loose == IsStyleCaseInsensitive(prefix, style)
<1>1. StartsWith(str, Append(prefix, c), strict)
  BY DEF Matches
<1>2. StartsWith(str, prefix, strict)
  <2>1. Len(Append(prefix, c)) = Len(prefix) + 1 /\ Len(prefix) \in Nat /\ Len(str) \in Nat
    OBVIOUS
  <2>2. \A i \in DOMAIN prefix : i \in DOMAIN Append(prefix, c) /\ Append(prefix, c)[i] = prefix[i]
    OBVIOUS
  <2> HIDE DEF strict
  <2> QED
    BY <1>1, <2>1, <2>2 DEF StartsWith
<1>3. strict => loose
  BY GrowingIsStricter
<1>4. strict \in BOOLEAN /\ loose \in BOOLEAN
  BY DEF IsStyleCaseInsensitive
<1> HIDE DEF strict, loose
<1>5. StartsWith(str, prefix, loose)
  BY <1>2, <1>3, <1>4, LooserStartsWith
<1> QED
  BY <1>5 DEF Matches, loose

\* Each style lets through all that a stricter one does.
THEOREM StylesAreOrdered ==
  ASSUME NEW str \in Seq(Letter), NEW prefix \in Seq(Letter)
  PROVE  /\ Matches(str, prefix, "exact") => Matches(str, prefix, "smart-case")
         /\ Matches(str, prefix, "smart-case") => Matches(str, prefix, "case-insensitive")
<1>1. /\ IsStyleCaseInsensitive(prefix, "exact") = FALSE
      /\ IsStyleCaseInsensitive(prefix, "smart-case") \in BOOLEAN
      /\ IsStyleCaseInsensitive(prefix, "case-insensitive") = TRUE
  BY DEF IsStyleCaseInsensitive
<1> QED
  BY <1>1, LooserStartsWith DEF Matches

LEMMA BoundedIsSeq ==
  ASSUME NEW S, NEW n \in Nat, NEW s \in BoundedSeq(S, n)
  PROVE  s \in Seq(S)
<1>1. PICK m \in 0..n : s \in [1..m -> S]
  BY DEF BoundedSeq, SeqOf
<1> QED
  BY <1>1

\* PrefixMonotone, whatever the alphabet: a prefix that grows never brings a
\* candidate back, and stricter styles match less.
THEOREM PrefixStaysMonotone == Spec => []PrefixMonotone
<1>1. NotMonotone = {}
  <2> SUFFICES ASSUME NEW prefix \in BoundedSeq(Letter, 2), NEW str \in BoundedSeq(Letter, 3),
                      \/ \E style \in PrefixStyle, c \in Letter :
                           Matches(str, Append(prefix, c), style) /\ ~Matches(str, prefix, style)
                      \/ Matches(str, prefix, "exact") /\ ~Matches(str, prefix, "smart-case")
                      \/ Matches(str, prefix, "smart-case") /\ ~Matches(str, prefix, "case-insensitive")
               PROVE  FALSE
    BY DEF NotMonotone
  <2>1. prefix \in Seq(Letter) /\ str \in Seq(Letter)
    BY BoundedIsSeq
  <2> QED
    BY <2>1, LongerMatchesLess, StylesAreOrdered
<1>2. PrefixMonotone
  BY <1>1 DEF PrefixMonotone
<1> QED
  BY <1>2, PTL

----------------------------------------------------------------------------
(* Writing a line and reading it.                                           *)

(* One step of the parser of lines, of the one that counts parentheses, and *)
(* of the reader of replies.                                                *)
ByLine == "line"
ByDepth == "depth"
ByReader == "reader"
Change(token) == IF token = Open THEN 1 ELSE IF token = Close THEN -1 ELSE 0
Deeper(depth, token) == IF depth = 0 THEN 0 ELSE depth + Change(token)
Step(p, st, x) ==
  IF p = ByLine THEN Scan(st, x) ELSE IF p = ByDepth THEN Deeper(st, x) ELSE ReadCharacter(st, x)

LEMMA StepIs ==
  ASSUME NEW st, NEW x
  PROVE  /\ Step(ByLine, st, x) = Scan(st, x)
         /\ Step(ByDepth, st, x) = Deeper(st, x)
         /\ Step(ByReader, st, x) = ReadCharacter(st, x)
BY DEF Step, ByLine, ByDepth, ByReader

(* A parser goes from a to b over x.                                        *)
Reads(p, a, x, b) ==
  \E h : h[0] = a /\ h[Len(x)] = b /\ \A i \in 1..Len(x) : h[i] = Step(p, h[i - 1], x[i])

(* One character, and one piece of text after the other.                    *)
LEMMA ReadsOne ==
  ASSUME NEW p, NEW a, NEW c, NEW b, Step(p, a, c) = b
  PROVE  Reads(p, a, <<c>>, b)
<1> DEFINE x == <<c>>
           h == [i \in 0..1 |-> IF i = 0 THEN a ELSE Step(p, a, c)]
<1>1. Len(x) = 1 /\ x[1] = c
  OBVIOUS
<1>2. h[0] = a /\ h[1] = b
  OBVIOUS
<1> HIDE DEF x, h
<1>3. h[0] = a /\ h[Len(x)] = b /\ \A i \in 1..Len(x) : h[i] = Step(p, h[i - 1], x[i])
  <2>1. \A i \in 1..1 : i = 1 /\ i - 1 = 0
    OBVIOUS
  <2> QED
    BY <1>1, <1>2, <2>1
<1> QED
  BY <1>3 DEF Reads, x

LEMMA ReadsConcat ==
  ASSUME NEW p, NEW S, NEW x \in Seq(S), NEW y \in Seq(S), NEW a, NEW b, NEW c, Reads(p, a, x, b), Reads(p, b, y, c)
  PROVE  Reads(p, a, x \o y, c)
<1> DEFINE m == Len(x)
           n == Len(y)
           z == x \o y
<1>1. /\ m \in Nat /\ n \in Nat /\ Len(z) = m + n
      /\ \A i \in 1..(m + n) : z[i] = IF i <= m THEN x[i] ELSE y[i - m]
  BY ConcatProperties
<1>2. PICK f : f[0] = a /\ f[m] = b /\ \A i \in 1..m : f[i] = Step(p, f[i - 1], x[i])
  BY DEF Reads
<1>3. PICK g : g[0] = b /\ g[n] = c /\ \A i \in 1..n : g[i] = Step(p, g[i - 1], y[i])
  BY DEF Reads
<1> DEFINE h == [i \in 0..(m + n) |-> IF i <= m THEN f[i] ELSE g[i - m]]
<1> HIDE DEF m, n, z
<1>4. h[0] = a
  BY <1>1, <1>2
<1>5. h[m + n] = c
  <2>1. CASE n = 0
    BY <1>1, <1>2, <1>3, <2>1
  <2>2. CASE n # 0
    <3>1. m + n \in 0..(m + n) /\ ~(m + n <= m) /\ (m + n) - m = n
      BY <1>1, <2>2
    <3> QED
      BY <1>3, <3>1
  <2> QED
    BY <2>1, <2>2
<1>6. ASSUME NEW i \in 1..(m + n) PROVE h[i] = Step(p, h[i - 1], z[i])
  <2>1. i \in 0..(m + n) /\ i - 1 \in 0..(m + n)
    BY <1>1
  <2>2. CASE i <= m
    <3>1. i \in 1..m /\ i - 1 <= m /\ h[i] = f[i] /\ h[i - 1] = f[i - 1] /\ z[i] = x[i]
      BY <1>1, <2>1, <2>2
    <3> HIDE DEF h
    <3> QED
      BY <1>2, <3>1
  <2>3. CASE i = m + 1
    <3>1. h[i] = g[1] /\ h[i - 1] = f[m] /\ z[i] = y[1] /\ 1 \in 1..n /\ 1 - 1 = 0
      <4>1. /\ ~(i <= m) /\ i - m = 1 /\ i - 1 = m /\ m <= m /\ 1 \in 1..n /\ 1 - 1 = 0
            /\ i \in 0..(m + n) /\ m \in 0..(m + n)
        BY <1>1, <2>3
      <4>2. h[i] = g[i - m] /\ h[m] = f[m]
        BY <4>1
      <4>3. z[i] = y[i - m]
        BY <1>1, <4>1
      <4> QED
        BY <4>1, <4>2, <4>3
    <3>2. g[1] = Step(p, g[0], y[1])
      BY <1>3, <3>1
    <3> HIDE DEF h
    <3> QED
      BY <1>2, <1>3, <3>1, <3>2
  <2>4. CASE i > m + 1
    <3>1. /\ i - m \in 1..n /\ ~(i <= m) /\ ~(i - 1 <= m) /\ (i - 1) - m = (i - m) - 1
          /\ h[i] = g[i - m] /\ h[i - 1] = g[(i - m) - 1] /\ z[i] = y[i - m]
      BY <1>1, <2>1, <2>4
    <3> HIDE DEF h
    <3> QED
      BY <1>3, <3>1
  <2> QED
    BY <1>1, <2>2, <2>3, <2>4
<1> HIDE DEF h
<1>7. h[0] = a /\ h[Len(z)] = c /\ \A i \in 1..Len(z) : h[i] = Step(p, h[i - 1], z[i])
  BY <1>1, <1>4, <1>5, <1>6
<1> QED
  BY <1>7 DEF Reads, z

(* The server takes a line apart from its beginning to its end.             *)
Beginning == [mode |-> "between", argument |-> <<>>, argv |-> <<>>]

LEMMA ReadsAll ==
  ASSUME NEW S, NEW line \in Seq(S), NEW end, Reads(ByLine, Beginning, line, end)
  PROVE  UnescapeCommandLine(line) =
           IF end.mode = "between" THEN end.argv ELSE Append(end.argv, end.argument)
<1> DEFINE n == Len(line)
           step(g, i) == IF i = 0 THEN [mode |-> "between", argument |-> <<>>, argv |-> <<>>]
                         ELSE Scan(g[i - 1], line[i])
<1>1. n \in Nat
  OBVIOUS
<1>2. PICK h : h[0] = Beginning /\ h[n] = end /\ \A i \in 1..n : h[i] = Scan(h[i - 1], line[i])
  BY StepIs DEF Reads
<1> DEFINE g == [i \in 0..n |-> h[i]]
<1>3. ASSUME NEW i \in 0..n PROVE g[i] = step(g, i)
  <2>1. CASE i = 0
    BY <1>1, <1>2, <2>1 DEF Beginning
  <2>2. CASE i # 0
    <3>1. i \in 1..n /\ i - 1 \in 0..n /\ g[i] = h[i] /\ g[i - 1] = h[i - 1]
      BY <1>1, <2>2
    <3> HIDE DEF g
    <3> QED
      BY <1>2, <2>2, <3>1
  <2> QED
    BY <2>1, <2>2
<1>4. \E f : f = [i \in 0..n |-> step(f, i)]
  <2>1. g = [i \in 0..n |-> step(g, i)]
    BY <1>3
  <2> QED
    BY <2>1
<1> DEFINE after == CHOOSE f : f = [i \in 0..n |-> step(f, i)]
<1>5. after = [i \in 0..n |-> step(after, i)]
  BY <1>4
<1>6. UnescapeCommandLine(line) =
        IF after[n].mode = "between" THEN after[n].argv ELSE Append(after[n].argv, after[n].argument)
  BY DEF UnescapeCommandLine
<1> HIDE DEF after
<1>7. \A i \in 0..n : after[i] = step(after, i)
  BY <1>5
<1> DEFINE T == {i \in Nat : i <= n => after[i] = h[i]}
<1>8. 0 \in T
  BY <1>1, <1>2, <1>7 DEF Beginning
<1>9. ASSUME NEW i \in Nat, i \in T, i + 1 <= n PROVE after[i + 1] = h[i + 1]
  <2>1. i + 1 \in 0..n /\ i + 1 \in 1..n /\ i + 1 # 0 /\ (i + 1) - 1 = i /\ i <= n
    BY <1>1, <1>9
  <2>2. after[i] = h[i]
    BY <1>9, <2>1
  <2> QED
    BY <1>2, <1>7, <2>1, <2>2
<1>10. after[n] = h[n]
  <2>1. \A i \in Nat : i \in T => i + 1 \in T
    <3> SUFFICES ASSUME NEW i \in Nat, i \in T, i + 1 <= n PROVE after[i + 1] = h[i + 1]
      OBVIOUS
    <3> QED
      BY <1>9
  <2> HIDE DEF T
  <2>2. Nat \subseteq T
    BY <1>8, <2>1, SetInduction
  <2>3. n \in T
    BY <1>1, <2>2
  <2> QED
    BY <2>3 DEF T
<1> QED
  BY <1>2, <1>6, <1>10

(* f[i] is what the first i of n sequences are when joined.                 *)
Joins(f, seqs, n, S) ==
  /\ f[0] = <<>> /\ \A i \in 0..n : f[i] \in Seq(S)
  /\ \A i \in 1..n : f[i] = f[i - 1] \o seqs[i]

(* There is such an f.                                                      *)
LEMMA Joined ==
  ASSUME NEW S, NEW n \in Nat, NEW seqs
  PROVE  (\A i \in 1..n : seqs[i] \in Seq(S)) => \E f : Joins(f, seqs, n, S)
<1> DEFINE strings == Seq(S)
           none == <<>>
           F == [i \in 1..n |-> [x \in strings |-> x \o seqs[i]]]
<1>1. ASSUME \A i \in 1..n : seqs[i] \in Seq(S)
      PROVE  \E f : Joins(f, seqs, n, S)
  <2>1. F \in [1..n -> [strings -> strings]] /\ none \in strings
    <3>1. ASSUME NEW i \in 1..n, NEW x \in Seq(S) PROVE x \o seqs[i] \in Seq(S)
      BY <1>1, ConcatProperties
    <3> QED
      BY <3>1
  <2> HIDE DEF F, strings, none
  <2>2. PICK f \in [0..n -> strings] : f[0] = none /\ \A i \in 1..n : f[i] = F[i][f[i - 1]]
    BY <2>1, RecursionSolved
  <2>3. ASSUME NEW i \in 1..n PROVE f[i] = f[i - 1] \o seqs[i]
    <3>1. i - 1 \in 0..n /\ f[i - 1] \in strings
      OBVIOUS
    <3>2. F[i][f[i - 1]] = f[i - 1] \o seqs[i]
      BY <3>1 DEF F
    <3> QED
      BY <2>2, <3>2
  <2>4. f[0] = <<>> /\ \A i \in 0..n : f[i] \in Seq(S)
    BY <2>2 DEF none, strings
  <2> QED
    BY <2>3, <2>4 DEF Joins
<1> QED
  BY <1>1

(* What was joined is read one after the other.                             *)
LEMMA ReadsFlattened ==
  ASSUME NEW p, NEW S, NEW seqs \in Seq(Seq(S)), NEW st,
         \A i \in 1..Len(seqs) : Reads(p, st[i - 1], seqs[i], st[i])
  PROVE  FlattenSeq(seqs) \in Seq(S) /\ Reads(p, st[0], FlattenSeq(seqs), st[Len(seqs)])
<1> DEFINE n == Len(seqs)
           step(g, i) == IF i = 1 THEN seqs[i] ELSE g[i - 1] \o seqs[i]
<1>1. n \in Nat /\ \A i \in 1..n : seqs[i] \in Seq(S)
  OBVIOUS
<1>3. PICK f : /\ f[0] = <<>> /\ \A i \in 0..n : f[i] \in Seq(S)
               /\ \A i \in 1..n : f[i] = f[i - 1] \o seqs[i]
  <2>1. n \in Nat /\ \A i \in 1..n : seqs[i] \in Seq(S)
    BY <1>1
  <2> HIDE DEF n
  <2>2. \E f : Joins(f, seqs, n, S)
    BY <2>1, Joined
  <2> QED
    BY <2>2 DEF Joins
<1>4. ASSUME NEW i \in 1..n PROVE f[i] = f[i - 1] \o seqs[i] /\ f[i - 1] \in Seq(S)
  <2>1. i - 1 \in 0..n
    BY <1>1
  <2> QED
    BY <1>3, <2>1
<1>5. f[0] = <<>> /\ f[n] \in Seq(S)
  BY <1>1, <1>3
<1>6. CASE n = 0
  <2>1. seqs = <<>> /\ FlattenSeq(seqs) = <<>>
    BY <1>6 DEF FlattenSeq
  <2>2. Reads(p, st[0], <<>>, st[0])
    <3> DEFINE h == [i \in 0..0 |-> st[0]]
    <3>1. h[0] = st[0] /\ Len(<<>>) = 0 /\ \A i \in 1..0 : FALSE
      OBVIOUS
    <3> HIDE DEF h
    <3>2. h[Len(<<>>)] = st[0] /\ \A i \in 1..Len(<<>>) : h[i] = Step(p, h[i - 1], <<>>[i])
      BY <3>1
    <3> QED
      BY <3>1, <3>2 DEF Reads
  <2> QED
    <3>1. <<>> \in Seq(S)
      OBVIOUS
    <3> QED
      BY <1>6, <2>1, <2>2, <3>1
<1>7. CASE n # 0
  <2>1. \E g : g = [i \in 1..n |-> step(g, i)]
    <3> DEFINE g == [i \in 1..n |-> f[i]]
    <3>1. ASSUME NEW i \in 1..n PROVE g[i] = step(g, i)
      <4>1. CASE i = 1
        <5>1. f[1] = f[0] \o seqs[1]
          <6>1. 1 \in 1..n /\ 1 - 1 = 0
            BY <4>1
          <6> QED
            BY <1>4, <6>1
        <5>2. <<>> \o seqs[1] = seqs[1]
          BY <1>1, <4>1
        <5> QED
          BY <1>5, <4>1, <5>1, <5>2
      <4>2. CASE i # 1
        <5>1. i - 1 \in 1..n /\ g[i - 1] = f[i - 1] /\ g[i] = f[i]
          BY <1>1, <4>2
        <5> HIDE DEF g
        <5> QED
          BY <1>4, <4>2, <5>1
      <4> QED
        BY <4>1, <4>2
    <3>2. g = [i \in 1..n |-> step(g, i)]
      BY <3>1
    <3> QED
      BY <3>2
  <2> DEFINE flatten == CHOOSE g : g = [i \in 1..n |-> step(g, i)]
  <2>2. flatten = [i \in 1..n |-> step(flatten, i)]
    BY <2>1
  <2>3. FlattenSeq(seqs) = flatten[n]
    BY <1>7 DEF FlattenSeq
  <2> HIDE DEF flatten
  <2>4. \A i \in 1..n : flatten[i] = step(flatten, i)
    BY <2>2
  <2> DEFINE good(i) == flatten[i + 1] \in Seq(S) /\ Reads(p, st[0], flatten[i + 1], st[i + 1])
             T == {i \in Nat : i + 1 <= n => good(i)}
  <2>5. 0 \in T
    <3>1. 1 \in 1..n
      BY <1>1, <1>7
    <3>2. flatten[1] = seqs[1]
      BY <2>4, <3>1
    <3>3. seqs[1] \in Seq(S) /\ Reads(p, st[1 - 1], seqs[1], st[1])
      BY <1>1, <3>1
    <3>4. good(0)
      BY <3>2, <3>3
    <3> HIDE DEF good
    <3> QED
      BY <3>4
  <2>6. ASSUME NEW i \in Nat, i \in T, (i + 1) + 1 <= n PROVE good(i + 1)
    <3>1. /\ i + 1 <= n /\ (i + 1) + 1 \in 1..n /\ (i + 1) + 1 # 1 /\ ((i + 1) + 1) - 1 = i + 1
      BY <1>1, <2>6
    <3>2. good(i)
      BY <2>6, <3>1
    <3>3. flatten[(i + 1) + 1] = flatten[i + 1] \o seqs[(i + 1) + 1]
      BY <2>4, <3>1
    <3>4. seqs[(i + 1) + 1] \in Seq(S) /\ Reads(p, st[i + 1], seqs[(i + 1) + 1], st[(i + 1) + 1])
      BY <1>1, <3>1
    <3>5. flatten[i + 1] \o seqs[(i + 1) + 1] \in Seq(S)
      BY <3>2, <3>4, ConcatProperties
    <3> QED
      BY <3>2, <3>3, <3>4, <3>5, ReadsConcat
  <2>7. good(n - 1)
    <3>1. \A i \in Nat : i \in T => i + 1 \in T
      <4> SUFFICES ASSUME NEW i \in Nat, i \in T, (i + 1) + 1 <= n PROVE good(i + 1)
        OBVIOUS
      <4> QED
        BY <2>6
    <3> HIDE DEF T
    <3>2. Nat \subseteq T
      BY <2>5, <3>1, SetInduction
    <3>3. n - 1 \in T /\ (n - 1) + 1 <= n
      BY <1>1, <1>7, <3>2
    <3> QED
      BY <3>3 DEF T
  <2>8. (n - 1) + 1 = n
    BY <1>1
  <2> QED
    BY <2>3, <2>7, <2>8
<1> QED
  BY <1>6, <1>7

(* Where the parser is, what it has of an argument, and the arguments read. *)
State(mode, argument, argv) == [mode |-> mode, argument |-> argument, argv |-> argv]

(* What a character does to the parser where a word or a quote is read.     *)
LEMMA ScanOpens ==
  ASSUME NEW arg, NEW argv
  PROVE  Step(ByLine, State("between", arg, argv), DQuote) = State("double", arg, argv)
<1>1. Scan(State("between", arg, argv), DQuote) = State("double", arg, argv)
  BY DEF Scan, State, DQuote, SQuote, Backslash, Space
<1> QED
  BY <1>1, StepIs

LEMMA ScanCloses ==
  ASSUME NEW arg, NEW argv
  PROVE  Step(ByLine, State("double", arg, argv), DQuote) = State("word", arg, argv)
<1>1. Scan(State("double", arg, argv), DQuote) = State("word", arg, argv)
  BY DEF Scan, State, DQuote, SQuote, Backslash, Space
<1> QED
  BY <1>1, StepIs

LEMMA ScanEscapes ==
  ASSUME NEW arg, NEW argv
  PROVE  Step(ByLine, State("double", arg, argv), Backslash) = State("double escaped", arg, argv)
<1>1. Scan(State("double", arg, argv), Backslash) = State("double escaped", arg, argv)
  BY DEF Scan, State, DQuote, SQuote, Backslash, Space
<1> QED
  BY <1>1, StepIs

LEMMA ScanEscaped ==
  ASSUME NEW arg, NEW argv, NEW c
  PROVE  Step(ByLine, State("double escaped", arg, argv), c) = State("double", Append(arg, c), argv)
<1>1. Scan(State("double escaped", arg, argv), c) = State("double", Append(arg, c), argv)
  BY DEF Scan, State, DQuote, SQuote, Backslash, Space
<1> QED
  BY <1>1, StepIs

LEMMA ScanQuoted ==
  ASSUME NEW arg, NEW argv, NEW c, c \notin {DQuote, Backslash}
  PROVE  Step(ByLine, State("double", arg, argv), c) = State("double", Append(arg, c), argv)
<1>1. Scan(State("double", arg, argv), c) = State("double", Append(arg, c), argv)
  BY DEF Scan, State, DQuote, SQuote, Backslash, Space
<1> QED
  BY <1>1, StepIs

LEMMA ScanPlain ==
  ASSUME NEW arg, NEW argv, NEW c, c \notin {Space, DQuote, SQuote, Backslash},
         NEW mode, mode \in {"between", "word"}
  PROVE  Step(ByLine, State(mode, arg, argv), c) = State("word", Append(arg, c), argv)
<1>1. Scan(State(mode, arg, argv), c) = State("word", Append(arg, c), argv)
  BY DEF Scan, State, DQuote, SQuote, Backslash, Space
<1> QED
  BY <1>1, StepIs

LEMMA ScanEnds ==
  ASSUME NEW arg, NEW argv
  PROVE  Step(ByLine, State("word", arg, argv), Space) = State("between", <<>>, Append(argv, arg))
<1>1. Scan(State("word", arg, argv), Space) = State("between", <<>>, Append(argv, arg))
  BY DEF Scan, State, DQuote, SQuote, Backslash, Space
<1> QED
  BY <1>1, StepIs

(* A beginning of a sequence, and the next one.                             *)
LEMMA Grows ==
  ASSUME NEW S, NEW str \in Seq(S)
  PROVE  /\ SubSeq(str, 1, 0) = <<>> /\ SubSeq(str, 1, Len(str)) = str
         /\ \A i \in 1..Len(str) : SubSeq(str, 1, i) = Append(SubSeq(str, 1, i - 1), str[i])
<1>1. SubSeq(str, 1, 0) = <<>> /\ SubSeq(str, 1, Len(str)) = str
  OBVIOUS
<1>2. ASSUME NEW i \in 1..Len(str) PROVE SubSeq(str, 1, i) = Append(SubSeq(str, 1, i - 1), str[i])
  OBVIOUS
<1> QED
  BY <1>1, <1>2

(* What a word is quoted for, and how a character looks inside quotes.      *)
Marks == {Space, DQuote, Backslash}
Escape(c) == IF c \in {DQuote, Backslash} THEN <<Backslash, c>> ELSE <<c>>

(* A character that was escaped arrives as itself.                          *)
LEMMA EscapeRead ==
  ASSUME NEW S, Marks \subseteq S, NEW c \in S, NEW arg, NEW argv
  PROVE  /\ Escape(c) \in Seq(S)
         /\ Reads(ByLine, State("double", arg, argv), Escape(c), State("double", Append(arg, c), argv))
<1>1. CASE c \in {DQuote, Backslash}
  <2> DEFINE a == State("double", arg, argv)
             b == State("double escaped", arg, argv)
             d == State("double", Append(arg, c), argv)
  <2>4. Step(ByLine, a, Backslash) = b /\ Step(ByLine, b, c) = d
    BY ScanEscapes, ScanEscaped
  <2> HIDE DEF a, b, d
  <2>1. Reads(ByLine, a, <<Backslash>>, b)
    BY <2>4, ReadsOne
  <2>2. Reads(ByLine, b, <<c>>, d)
    BY <2>4, ReadsOne
  <2>3. /\ <<Backslash>> \in Seq(S) /\ <<c>> \in Seq(S) /\ Escape(c) \in Seq(S)
        /\ Escape(c) = <<Backslash>> \o <<c>>
    BY <1>1 DEF Escape, Marks
  <2>5. Reads(ByLine, a, <<Backslash>> \o <<c>>, d)
    BY <2>1, <2>2, <2>3, ReadsConcat
  <2> QED
    BY <2>3, <2>5 DEF a, d
<1>2. CASE c \notin {DQuote, Backslash}
  <2> DEFINE a == State("double", arg, argv)
             d == State("double", Append(arg, c), argv)
  <2>1. Step(ByLine, a, c) = d
    BY <1>2, ScanQuoted
  <2> HIDE DEF a, d
  <2>2. Reads(ByLine, a, <<c>>, d)
    BY <2>1, ReadsOne
  <2> QED
    BY <1>2, <2>2 DEF Escape, a, d
<1> QED
  BY <1>1, <1>2

(* A word without marks is read character by character.                     *)
LEMMA PlainRead ==
  ASSUME NEW S, NEW str \in Seq(S), str # <<>>, NEW argv,
         \A i \in 1..Len(str) : str[i] \notin {Space, DQuote, SQuote, Backslash}
  PROVE  Reads(ByLine, State("between", <<>>, argv), str, State("word", str, argv))
<1> DEFINE n == Len(str)
           h == [i \in 0..n |-> State(IF i = 0 THEN "between" ELSE "word", SubSeq(str, 1, i), argv)]
<1>1. n \in Nat /\ n # 0
  OBVIOUS
<1>2. h[0] = State("between", <<>>, argv) /\ h[n] = State("word", str, argv)
  <2>1. h[0] = State("between", SubSeq(str, 1, 0), argv) /\ h[n] = State("word", SubSeq(str, 1, n), argv)
    BY <1>1
  <2> HIDE DEF h
  <2> QED
    BY <2>1, Grows
<1>3. ASSUME NEW i \in 1..n PROVE h[i] = Step(ByLine, h[i - 1], str[i])
  <2>1. /\ h[i] = State("word", SubSeq(str, 1, i), argv)
        /\ h[i - 1] = State(IF i - 1 = 0 THEN "between" ELSE "word", SubSeq(str, 1, i - 1), argv)
    BY <1>1
  <2>2. SubSeq(str, 1, i) = Append(SubSeq(str, 1, i - 1), str[i])
    BY Grows
  <2> HIDE DEF h
  <2> DEFINE mode == IF i - 1 = 0 THEN "between" ELSE "word"
             arg == SubSeq(str, 1, i - 1)
             c == str[i]
  <2>3. c \notin {Space, DQuote, SQuote, Backslash} /\ mode \in {"between", "word"}
    OBVIOUS
  <2>4. h[i - 1] = State(mode, arg, argv) /\ h[i] = State("word", Append(arg, c), argv)
    BY <2>1, <2>2
  <2> HIDE DEF mode, arg, c
  <2>5. Step(ByLine, State(mode, arg, argv), c) = State("word", Append(arg, c), argv)
    BY <2>3, ScanPlain
  <2> QED
    BY <2>4, <2>5 DEF c
<1> HIDE DEF h
<1> QED
  BY <1>2, <1>3 DEF Reads

LEMMA FunctionIsSeq ==
  ASSUME NEW T, NEW n \in Nat, NEW f, f \in [1..n -> T]
  PROVE  f \in Seq(T) /\ Len(f) = n
OBVIOUS

(* What is between quotes arrives as it was, when each character does:      *)
(* into[str] is where the parser is when it has read str.                   *)
LEMMA InsideRead ==
  ASSUME NEW p, NEW S, NEW str \in Seq(S), NEW into, \A c \in S : Escape(c) \in Seq(S),
         \A s \in Seq(S), c \in S : Reads(p, into[s], Escape(c), into[Append(s, c)])
  PROVE  LET inside == FlattenSeq([i \in DOMAIN str |-> Escape(str[i])])
         IN  inside \in Seq(S) /\ Reads(p, into[<<>>], inside, into[str])
<1> DEFINE n == Len(str)
           seqs == [i \in DOMAIN str |-> Escape(str[i])]
           st == [i \in 0..n |-> into[SubSeq(str, 1, i)]]
<1>1. n \in Nat /\ DOMAIN str = 1..n
  OBVIOUS
<1>2. ASSUME NEW i \in 1..n PROVE Escape(str[i]) \in Seq(S) /\ Reads(p, st[i - 1], Escape(str[i]), st[i])
  <2> DEFINE s == SubSeq(str, 1, i - 1)
             c == str[i]
  <2>1. c \in S /\ s \in Seq(S)
    OBVIOUS
  <2>2. st[i - 1] = into[s] /\ st[i] = into[SubSeq(str, 1, i)]
    BY <1>1
  <2>3. SubSeq(str, 1, i) = Append(s, c)
    BY Grows
  <2> HIDE DEF s, c, st
  <2>4. Escape(c) \in Seq(S) /\ Reads(p, into[s], Escape(c), into[Append(s, c)])
    BY <2>1
  <2> QED
    BY <2>2, <2>3, <2>4 DEF c
<1>3. st[0] = into[<<>>] /\ st[n] = into[str]
  <2>1. st[0] = into[SubSeq(str, 1, 0)] /\ st[n] = into[SubSeq(str, 1, n)]
    BY <1>1
  <2> HIDE DEF st
  <2> QED
    BY <2>1, Grows
<1>4. seqs \in Seq(Seq(S)) /\ Len(seqs) = n /\ \A i \in 1..n : seqs[i] = Escape(str[i])
  <2>1. seqs \in [1..n -> Seq(S)]
    BY <1>1, <1>2
  <2> HIDE DEF seqs
  <2>2. seqs \in Seq(Seq(S)) /\ Len(seqs) = n
    BY <1>1, <2>1, FunctionIsSeq
  <2> QED
    BY <1>1, <2>2 DEF seqs
<1> HIDE DEF st, seqs
<1>5. \A i \in 1..Len(seqs) : Reads(p, st[i - 1], seqs[i], st[i])
  BY <1>2, <1>4
<1>6. FlattenSeq(seqs) \in Seq(S) /\ Reads(p, st[0], FlattenSeq(seqs), st[Len(seqs)])
  BY <1>4, <1>5, ReadsFlattened
<1> QED
  BY <1>3, <1>4, <1>6 DEF seqs

LEMMA QuotedRead ==
  ASSUME NEW S, Marks \subseteq S, NEW str \in Seq(S), NEW argv
  PROVE  LET inside == FlattenSeq([i \in DOMAIN str |-> Escape(str[i])])
         IN  /\ inside \in Seq(S)
             /\ Reads(ByLine, State("double", <<>>, argv), inside, State("double", str, argv))
<1> DEFINE into == [s \in Seq(S) |-> State("double", s, argv)]
<1>1. \A s \in Seq(S) : into[s] = State("double", s, argv) /\ \A c \in S : Append(s, c) \in Seq(S)
  OBVIOUS
<1>2. <<>> \in Seq(S)
  OBVIOUS
<1> HIDE DEF into
<1>3. \A s \in Seq(S), c \in S : Escape(c) \in Seq(S) /\ Reads(ByLine, into[s], Escape(c), into[Append(s, c)])
  <2> TAKE s \in Seq(S), c \in S
  <2>1. into[s] = State("double", s, argv) /\ into[Append(s, c)] = State("double", Append(s, c), argv)
    BY <1>1
  <2> QED
    BY <2>1, EscapeRead
<1>4. \A c \in S : Escape(c) \in Seq(S)
  BY <1>2, <1>3
<1>5. into[<<>>] = State("double", <<>>, argv) /\ into[str] = State("double", str, argv)
  BY <1>1, <1>2
<1> DEFINE inside == FlattenSeq([i \in DOMAIN str |-> Escape(str[i])])
<1>6. inside \in Seq(S) /\ Reads(ByLine, into[<<>>], inside, into[str])
  BY <1>3, <1>4, InsideRead
<1> QED
  BY <1>5, <1>6

(* The server reads a word as irony-mode quoted it.                         *)
LEMMA WordRead ==
  ASSUME NEW S, Marks \subseteq S, NEW str \in Seq(S), Survives(str), NEW argv
  PROVE  /\ QuoteString(str) \in Seq(S)
         /\ Reads(ByLine, State("between", <<>>, argv), QuoteString(str), State("word", str, argv))
<1> DEFINE between == State("between", <<>>, argv)
           empty == State("double", <<>>, argv)
           full == State("double", str, argv)
           word == State("word", str, argv)
           inside == FlattenSeq([i \in DOMAIN str |-> Escape(str[i])])
<1>1. Reads(ByLine, between, <<DQuote>>, empty)
  BY ReadsOne, ScanOpens
<1>2. Reads(ByLine, full, <<DQuote>>, word)
  BY ReadsOne, ScanCloses
<1>3. <<DQuote>> \in Seq(S)
  BY DEF Marks
<1> HIDE DEF between, empty, full, word
<1>4. CASE str = <<>>
  <2>1. QuoteString(str) = <<DQuote>> \o <<DQuote>>
    BY <1>4 DEF QuoteString
  <2>2. empty = full
    BY <1>4 DEF empty, full
  <2>3. <<DQuote>> \o <<DQuote>> \in Seq(S)
    BY <1>3, ConcatProperties
  <2>4. Reads(ByLine, between, <<DQuote>> \o <<DQuote>>, word)
    BY <1>1, <1>2, <1>3, <2>2, ReadsConcat
  <2> QED
    BY <2>1, <2>3, <2>4 DEF between, word
<1>5. CASE str # <<>> /\ Range(str) \cap {DQuote, Backslash, Space} # {}
  <2>1. inside \in Seq(S) /\ Reads(ByLine, empty, inside, full)
    BY QuotedRead DEF empty, full
  <2>2. QuoteString(str) = (<<DQuote>> \o inside) \o <<DQuote>>
    BY <1>5 DEF QuoteString, Escape
  <2> HIDE DEF inside
  <2>3. <<DQuote>> \o inside \in Seq(S) /\ Reads(ByLine, between, <<DQuote>> \o inside, full)
    BY <1>1, <1>3, <2>1, ReadsConcat, ConcatProperties
  <2>4. (<<DQuote>> \o inside) \o <<DQuote>> \in Seq(S)
    BY <1>3, <2>3, ConcatProperties
  <2>5. Reads(ByLine, between, (<<DQuote>> \o inside) \o <<DQuote>>, word)
    BY <1>2, <1>3, <2>3, ReadsConcat
  <2> QED
    BY <2>2, <2>4, <2>5 DEF between, word
<1>6. CASE str # <<>> /\ Range(str) \cap {DQuote, Backslash, Space} = {}
  <2>1. QuoteString(str) = str
    BY <1>6 DEF QuoteString
  <2>2. ASSUME NEW i \in 1..Len(str) PROVE str[i] \notin {Space, DQuote, SQuote, Backslash}
    <3>1. str[i] \in Range(str)
      BY DEF Range
    <3> QED
      BY <1>6, <2>1, <3>1 DEF Survives
  <2>3. Reads(ByLine, between, str, word)
    BY <1>6, <2>2, PlainRead DEF between, word
  <2> QED
    BY <2>1, <2>3 DEF between, word
<1> QED
  BY <1>4, <1>5, <1>6

(* The server takes a line to its newline, when there is none before.       *)
LEMMA LineRead ==
  ASSUME NEW S, Newline \notin S, NEW line \in Seq(S)
  PROVE  GetLine(Append(line, Newline)) = line
<1> DEFINE sent == Append(line, Newline)
           n == Len(line)
           Ends(k) == /\ \A i \in 1..k : sent[i] # Newline
                      /\ k < Len(sent) => sent[k + 1] = Newline
<1>1. /\ n \in Nat /\ Len(sent) = n + 1 /\ sent[n + 1] = Newline
      /\ \A i \in 1..n : sent[i] = line[i] /\ line[i] \in S
  OBVIOUS
<1>2. SubSeq(sent, 1, n) = line
  OBVIOUS
<1> HIDE DEF sent, n
<1>3. n \in 0..Len(sent) /\ Ends(n)
  BY <1>1
<1>4. ASSUME NEW k \in 0..Len(sent), Ends(k) PROVE k = n
  <2>1. CASE k < n
    <3>1. sent[k + 1] = Newline /\ k + 1 \in 1..n
      BY <1>1, <1>4, <2>1
    <3> QED
      BY <1>1, <3>1
  <2>2. CASE k > n
    <3>1. n + 1 \in 1..k
      BY <1>1, <2>2
    <3> QED
      BY <1>1, <1>4, <3>1
  <2> QED
    BY <1>1, <2>1, <2>2
<1>5. (CHOOSE k \in 0..Len(sent) : Ends(k)) = n
  BY <1>3, <1>4
<1>6. GetLine(sent) = SubSeq(sent, 1, CHOOSE k \in 0..Len(sent) : Ends(k))
  BY DEF GetLine
<1> QED
  BY <1>2, <1>5, <1>6 DEF sent

(* The server takes apart a line into the words irony-mode made it of,      *)
(* whatever blanks, quotes and backslashes are in them; but for a word with *)
(* a newline, or with an apostrophe that is not quoted                      *)
(* (irony--quote-strings, std::getline, unescapeCommandLine).               *)
THEOREM WordsReadBack ==
  ASSUME NEW Char, NEW strings \in Seq(Seq(Char)), \A i \in DOMAIN strings : Survives(strings[i])
  PROVE  UnescapeCommandLine(GetLine(Sent(strings))) = strings
<1> DEFINE S == (Char \ {Newline}) \cup Marks
           n == Len(strings)
           quoted(i) == IF i = 1 THEN QuoteString(strings[i]) ELSE <<Space>> \o QuoteString(strings[i])
           seqs == [i \in DOMAIN strings |-> quoted(i)]
           st == [i \in 0..n |-> IF i = 0 THEN Beginning
                                 ELSE State("word", strings[i], SubSeq(strings, 1, i - 1))]
<1>1. n \in Nat /\ DOMAIN strings = 1..n /\ Marks \subseteq S /\ <<Space>> \in Seq(S)
  BY DEF Marks
<1>2. \A i \in 1..n : strings[i] \in Seq(S)
  <2> SUFFICES ASSUME NEW i \in 1..n PROVE strings[i] \in Seq(S)
    OBVIOUS
  <2> DEFINE str == strings[i]
  <2> HIDE DEF seqs, st, S
  <2>6. strings[i] \in Seq(Char)
    BY <1>1
  <2>7. Survives(strings[i])
    BY <1>1
  <2>1. str \in Seq(Char) /\ Survives(str)
    BY <2>6, <2>7
  <2> HIDE DEF str
  <2> USE DEF S
  <2>2. ASSUME NEW k \in 1..Len(str) PROVE str[k] \in S
    BY <2>1 DEF Survives, Range
  <2>3. str = [k \in 1..Len(str) |-> str[k]] /\ Len(str) \in Nat
    BY <2>1
  <2> HIDE DEF S
  <2>4. str \in [1..Len(str) -> S]
    BY <2>2, <2>3
  <2>5. str \in Seq(S)
    BY <2>3, <2>4, FunctionIsSeq
  <2> QED
    BY <2>5 DEF str
<1>11. Newline \notin S
  BY DEF Newline, Marks, Space, DQuote, SQuote, Backslash
<1> HIDE DEF S
<1>3. ASSUME NEW i \in 1..n PROVE quoted(i) \in Seq(S) /\ Reads(ByLine, st[i - 1], quoted(i), st[i])
  <2> DEFINE str == strings[i]
             argv == SubSeq(strings, 1, i - 1)
             between == State("between", <<>>, argv)
             word == State("word", str, argv)
  <2>1. str \in Seq(S) /\ Survives(str) /\ st[i] = word
    <3>1. str \in Seq(S) /\ Survives(str)
      BY <1>1, <1>2
    <3>2. i \in 0..n /\ i # 0
      BY <1>1
    <3>3. st[i] = State("word", strings[i], SubSeq(strings, 1, i - 1))
      BY <3>2
    <3> QED
      BY <3>1, <3>3
  <2> HIDE DEF argv, str
  <2>2. QuoteString(str) \in Seq(S) /\ Reads(ByLine, between, QuoteString(str), word)
    BY <1>1, <2>1, WordRead
  <2> HIDE DEF between, word, st
  <2>3. CASE i = 1
    <3>1. st[i - 1] = Beginning
      BY <1>1, <2>3 DEF st
    <3>2. argv = <<>>
      BY <2>3 DEF argv
    <3>3. between = Beginning
      BY <3>2 DEF between, State, Beginning
    <3> QED
      BY <2>1, <2>2, <2>3, <3>1, <3>3 DEF str
  <2>4. CASE i # 1
    <3> DEFINE before == SubSeq(strings, 1, (i - 1) - 1)
               last == strings[i - 1]
    <3>1. i - 1 \in 1..n /\ i - 1 # 0
      BY <1>1, <2>4
    <3>2. st[i - 1] = State("word", last, before)
      BY <1>1, <3>1 DEF st
    <3>3. argv = Append(before, last)
      BY <3>1, Grows DEF argv
    <3> HIDE DEF before, last
    <3>4. Step(ByLine, State("word", last, before), Space) = between
      BY <3>3, ScanEnds DEF between
    <3>5. Reads(ByLine, st[i - 1], <<Space>>, between)
      BY <3>2, <3>4, ReadsOne
    <3>6. /\ <<Space>> \o QuoteString(str) \in Seq(S)
          /\ Reads(ByLine, st[i - 1], <<Space>> \o QuoteString(str), word)
      BY <1>1, <2>2, <3>5, ReadsConcat, ConcatProperties
    <3> QED
      BY <2>1, <2>4, <3>6 DEF str
  <2> QED
    BY <2>3, <2>4
<1>4. seqs \in Seq(Seq(S)) /\ Len(seqs) = n /\ \A i \in 1..n : seqs[i] = quoted(i)
  <2> HIDE DEF quoted
  <2>1. seqs \in [1..n -> Seq(S)]
    BY <1>1, <1>3
  <2> HIDE DEF seqs
  <2>2. seqs \in Seq(Seq(S)) /\ Len(seqs) = n
    BY <1>1, <2>1, FunctionIsSeq
  <2> QED
    BY <1>1, <2>2 DEF seqs
<1>5. QuoteStrings(strings) = FlattenSeq(seqs)
  BY DEF QuoteStrings
<1>6. st[0] = Beginning /\ (n # 0 => st[n] = State("word", strings[n], SubSeq(strings, 1, n - 1)))
  BY <1>1
<1> HIDE DEF seqs, quoted, st
<1>7. FlattenSeq(seqs) \in Seq(S) /\ Reads(ByLine, st[0], FlattenSeq(seqs), st[n])
  <2>1. \A i \in 1..Len(seqs) : Reads(ByLine, st[i - 1], seqs[i], st[i])
    BY <1>3, <1>4
  <2> QED
    BY <1>4, <2>1, ReadsFlattened
<1>8. UnescapeCommandLine(FlattenSeq(seqs)) =
        IF st[n].mode = "between" THEN st[n].argv ELSE Append(st[n].argv, st[n].argument)
  BY <1>6, <1>7, ReadsAll
<1>12. GetLine(Sent(strings)) = FlattenSeq(seqs)
  BY <1>5, <1>7, <1>11, LineRead DEF Sent
<1>9. CASE n = 0
  <2>1. strings = <<>>
    BY <1>9
  <2> QED
    BY <1>6, <1>8, <1>9, <1>12, <2>1 DEF Beginning
<1>10. CASE n # 0
  <2>1. n \in 1..n
    BY <1>1, <1>10
  <2>2. strings = Append(SubSeq(strings, 1, n - 1), strings[n])
    <3>1. /\ SubSeq(strings, 1, n) = Append(SubSeq(strings, 1, n - 1), strings[n])
          /\ SubSeq(strings, 1, n) = strings
      BY <2>1, Grows
    <3> QED
      BY <3>1
  <2>3. UnescapeCommandLine(FlattenSeq(seqs)) = Append(SubSeq(strings, 1, n - 1), strings[n])
    <3> DEFINE argv == SubSeq(strings, 1, n - 1)
               last == strings[n]
    <3>1. st[n] = State("word", last, argv)
      BY <1>6, <1>10
    <3> HIDE DEF argv, last
    <3>2. st[n].mode # "between" /\ st[n].argv = argv /\ st[n].argument = last
      BY <3>1 DEF State
    <3> QED
      BY <1>8, <3>2 DEF argv, last
  <2> QED
    BY <1>12, <2>2, <2>3
<1> QED
  BY <1>9, <1>10

----------------------------------------------------------------------------
(* From words to a command.                                                 *)

(* A digit has a value, and is neither a blank nor a sign.                  *)
LEMMA DigitValues == \A d \in Digit : DigitValue[d] \in 0..9 /\ d \notin {Space, "+", "-"}
<1> SUFFICES ASSUME NEW d \in Digit PROVE DigitValue[d] \in 0..9 /\ d \notin {Space, "+", "-"}
  OBVIOUS
<1>1. DigitValue[d] \in 0..9
  BY DEF DigitValue
<1>2. d \notin {Space, "+", "-"}
  BY DEF Digit, Space
<1> QED
  BY <1>1, <1>2

(* What a text of digits is worth.                                          *)
DigitsValue(digits) ==
  LET upTo[i \in 0..Len(digits)] == IF i = 0 THEN 0 ELSE upTo[i - 1] * 10 + DigitValue[digits[i]]
  IN  upTo[Len(digits)]

(* g holds the values of the beginnings of a text of digits.                *)
LEMMA DigitsConverted ==
  ASSUME NEW digits \in Seq(Digit), digits # <<>>, NEW g, g[0] = 0,
         \A i \in 1..Len(digits) : g[i] = g[i - 1] * 10 + DigitValue[digits[i]]
  PROVE  UnsignedIntConverter(digits) =
           IF g[Len(digits)] > LongMax \/ g[Len(digits)] > UIntMax THEN {} ELSE {g[Len(digits)]}
<1> DEFINE n == Len(digits)
           step(f, i) == IF i = 0 THEN 0 ELSE f[i - 1] * 10 + DigitValue[digits[i]]
           f0 == [i \in 0..n |-> g[i]]
           upTo == CHOOSE f : f = [i \in 0..n |-> step(f, i)]
           blanks == CHOOSE k \in 0..n : /\ \A i \in 1..k : digits[i] = Space
                                         /\ k < n => digits[k + 1] # Space
<1>1. n \in Nat /\ n # 0 /\ digits[1] \in Digit
  OBVIOUS
<1>2. f0 = [i \in 0..n |-> step(f0, i)]
  <2>1. ASSUME NEW i \in 0..n PROVE f0[i] = step(f0, i)
    <3>1. CASE i = 0
      BY <3>1
    <3>2. CASE i # 0
      <4>1. i \in 1..n /\ i - 1 \in 0..n
        BY <1>1, <3>2
      <4>2. f0[i] = g[i] /\ f0[i - 1] = g[i - 1]
        BY <4>1
      <4> HIDE DEF f0
      <4> QED
        BY <3>2, <4>1, <4>2
    <3> QED
      BY <3>1, <3>2
  <2> QED
    BY <2>1
<1>3. upTo = [i \in 0..n |-> step(upTo, i)]
  <2> HIDE DEF f0
  <2> QED
    BY <1>2
<1>4. blanks = 0
  <2>1. digits[1] # Space
    BY <1>1, DigitValues
  <2>2. 0 \in 0..n /\ (\A i \in 1..0 : digits[i] = Space) /\ (0 < n => digits[0 + 1] # Space)
    BY <1>1, <2>1
  <2>3. ASSUME NEW k \in 0..n, \A i \in 1..k : digits[i] = Space PROVE k = 0
    <3>1. k # 0 => 1 \in 1..k
      BY <1>1
    <3> QED
      BY <2>1, <2>3, <3>1
  <2>4. /\ blanks \in 0..n
        /\ \A i \in 1..blanks : digits[i] = Space
    BY <2>2
  <2> HIDE DEF blanks
  <2> QED
    BY <2>3, <2>4
<1>5. digits[1] \notin {"+", "-"}
  BY <1>1, DigitValues
<1> DEFINE signed == blanks < n /\ digits[blanks + 1] \in {"+", "-"}
           negative == signed /\ digits[blanks + 1] = "-"
           ds == SubSeq(digits, blanks + (IF signed THEN 2 ELSE 1), n)
<1>6. UnsignedIntConverter(digits) =
        IF digits = <<>> THEN {0}
        ELSE IF ds = <<>> \/ ~(Range(ds) \subseteq Digit) THEN {}
        ELSE IF DigitsValue(ds) > LongMax \/ DigitsValue(ds) > UIntMax \/ (negative /\ DigitsValue(ds) > 0) THEN {}
        ELSE {DigitsValue(ds)}
  BY DEF UnsignedIntConverter, DigitsValue
<1>11. signed = FALSE /\ negative = FALSE /\ ds = digits
  <2> HIDE DEF blanks
  <2>1. SubSeq(digits, 1, n) = digits
    OBVIOUS
  <2> QED
    BY <1>4, <1>5, <2>1
<1>12. DigitsValue(digits) = upTo[n]
  BY DEF DigitsValue
<1> HIDE DEF upTo, f0, blanks, signed, negative, ds
<1>7. \A i \in 0..n : upTo[i] = step(upTo, i)
  BY <1>3
<1> DEFINE T == {i \in Nat : i <= n => upTo[i] = g[i]}
<1>8. 0 \in T
  BY <1>1, <1>7
<1>9. \A i \in Nat : i \in T => i + 1 \in T
  <2> SUFFICES ASSUME NEW i \in Nat, i \in T, i + 1 <= n PROVE upTo[i + 1] = g[i + 1]
    OBVIOUS
  <2>1. i + 1 \in 0..n /\ i + 1 \in 1..n /\ i + 1 # 0 /\ (i + 1) - 1 = i /\ i <= n
    BY <1>1
  <2>2. upTo[i] = g[i]
    BY <2>1
  <2> QED
    BY <1>7, <2>1, <2>2
<1> HIDE DEF T
<1>10. n \in T
  BY <1>1, <1>8, <1>9, SetInduction
<1>13. DigitsValue(digits) = g[n]
  BY <1>1, <1>10, <1>12 DEF T
<1>14. Range(digits) \subseteq Digit
  BY DEF Range
<1> HIDE DEF n
<1>15. UnsignedIntConverter(digits) = IF g[n] > LongMax \/ g[n] > UIntMax THEN {} ELSE {g[n]}
  BY <1>6, <1>11, <1>13, <1>14
<1> QED
  BY <1>15 DEF n

(* The digit of every number below ten.                                     *)
DigitOf(k) == CHOOSE d \in Digit : DigitValue[d] = k % 10

(* The digit number-to-string writes has the value it should have.          *)
LEMMA DigitChosen ==
  ASSUME NEW k \in Nat
  PROVE  DigitOf(k) \in Digit /\ DigitValue[DigitOf(k)] = k % 10
<1>1. ASSUME NEW v \in 0..9 PROVE \E d \in Digit : DigitValue[d] = v
  <2>1. v \in {0, 1, 2, 3, 4, 5, 6, 7, 8, 9}
    OBVIOUS
  <2>2. /\ DigitValue["0"] = 0 /\ DigitValue["1"] = 1 /\ DigitValue["2"] = 2 /\ DigitValue["3"] = 3
        /\ DigitValue["4"] = 4 /\ DigitValue["5"] = 5 /\ DigitValue["6"] = 6 /\ DigitValue["7"] = 7
        /\ DigitValue["8"] = 8 /\ DigitValue["9"] = 9
    BY DEF DigitValue, Digit
  <2>3. Digit = {"0", "1", "2", "3", "4", "5", "6", "7", "8", "9"}
    BY DEF Digit
  <2> QED
    BY <2>1, <2>2, <2>3
<1>2. k % 10 \in 0..9
  OBVIOUS
<1>3. \E d \in Digit : DigitValue[d] = k % 10
  BY <1>1, <1>2
<1> QED
  BY <1>3 DEF DigitOf

(* A number irony-mode writes is read, unless it is too large.              *)
LEMMA NumberRead ==
  ASSUME NEW n \in 0..999
  PROVE  /\ NumberToString(n) \in Seq(Digit) /\ NumberToString(n) # <<>> /\ NumberToString(n) # <<"--">>
         /\ UnsignedIntConverter(NumberToString(n)) = IF n > LongMax \/ n > UIntMax THEN {} ELSE {n}
<1> DEFINE c == DigitOf(n)
           b == DigitOf(n \div 10)
           a == DigitOf(n \div 100)
<1>1. /\ n \in Nat /\ n \div 10 \in Nat /\ n \div 100 \in Nat
      /\ n >= 10 => n = (n \div 10) * 10 + (n % 10)
      /\ n < 10 => n % 10 = n
      /\ n < 100 => (n \div 10) % 10 = n \div 10
      /\ n = (((n \div 100) % 10) * 10 + ((n \div 10) % 10)) * 10 + (n % 10)
  OBVIOUS
<1>2. /\ a \in Digit /\ b \in Digit /\ c \in Digit
      /\ DigitValue[a] = (n \div 100) % 10 /\ DigitValue[b] = (n \div 10) % 10 /\ DigitValue[c] = n % 10
  BY <1>1, DigitChosen
<1>3. NumberToString(n) = IF n < 10 THEN <<c>> ELSE IF n < 100 THEN <<b, c>> ELSE <<a, b, c>>
  BY DEF NumberToString, DigitOf
<1> HIDE DEF a, b, c
<1>7. NumberToString(n) # <<"--">>
  BY <1>2, <1>3 DEF Digit
<1>4. CASE n < 10
  <2> DEFINE g == [i \in 0..1 |-> IF i = 0 THEN 0 ELSE n]
             ds == <<c>>
  <2>1. ds \in Seq(Digit) /\ ds # <<>> /\ Len(ds) = 1 /\ ds[1] = c
    BY <1>2
  <2>2. g[0] = 0 /\ g[1] = n
    OBVIOUS
  <2> HIDE DEF g, ds
  <2>3. \A i \in 1..Len(ds) : g[i] = g[i - 1] * 10 + DigitValue[ds[i]]
    <3>1. \A i \in 1..1 : i = 1 /\ i - 1 = 0
      OBVIOUS
    <3>2. g[1] = g[0] * 10 + DigitValue[ds[1]]
      BY <1>1, <1>2, <1>4, <2>1, <2>2
    <3> QED
      BY <2>1, <3>1, <3>2
  <2>4. UnsignedIntConverter(ds) = IF n > LongMax \/ n > UIntMax THEN {} ELSE {n}
    BY <2>1, <2>2, <2>3, DigitsConverted
  <2> QED
    BY <1>3, <1>4, <1>7, <2>1, <2>4 DEF ds
<1>5. CASE n >= 10 /\ n < 100
  <2> DEFINE g == [i \in 0..2 |-> IF i = 0 THEN 0 ELSE IF i = 1 THEN n \div 10 ELSE n]
             ds == <<b, c>>
  <2>1. ds \in Seq(Digit) /\ ds # <<>> /\ Len(ds) = 2 /\ ds[1] = b /\ ds[2] = c
    BY <1>2
  <2>2. g[0] = 0 /\ g[1] = n \div 10 /\ g[2] = n
    OBVIOUS
  <2> HIDE DEF g, ds
  <2>3. \A i \in 1..Len(ds) : g[i] = g[i - 1] * 10 + DigitValue[ds[i]]
    <3>1. \A i \in 1..2 : (i = 1 /\ i - 1 = 0) \/ (i = 2 /\ i - 1 = 1)
      OBVIOUS
    <3>2. g[1] = g[0] * 10 + DigitValue[ds[1]]
      BY <1>1, <1>2, <1>5, <2>1, <2>2
    <3>3. g[2] = g[1] * 10 + DigitValue[ds[2]]
      BY <1>1, <1>2, <1>5, <2>1, <2>2
    <3> QED
      BY <2>1, <3>1, <3>2, <3>3
  <2>4. UnsignedIntConverter(ds) = IF n > LongMax \/ n > UIntMax THEN {} ELSE {n}
    BY <2>1, <2>2, <2>3, DigitsConverted
  <2> QED
    BY <1>3, <1>5, <1>7, <2>1, <2>4 DEF ds
<1>6. CASE n >= 100
  <2> DEFINE g == [i \in 0..3 |-> IF i = 0 THEN 0 ELSE IF i = 1 THEN n \div 100 ELSE IF i = 2 THEN n \div 10 ELSE n]
             ds == <<a, b, c>>
  <2>1. ds \in Seq(Digit) /\ ds # <<>> /\ Len(ds) = 3 /\ ds[1] = a /\ ds[2] = b /\ ds[3] = c
    BY <1>2
  <2>2. g[0] = 0 /\ g[1] = n \div 100 /\ g[2] = n \div 10 /\ g[3] = n
    OBVIOUS
  <2> HIDE DEF g, ds
  <2>3. \A i \in 1..Len(ds) : g[i] = g[i - 1] * 10 + DigitValue[ds[i]]
    <3>1. \A i \in 1..3 : (i = 1 /\ i - 1 = 0) \/ (i = 2 /\ i - 1 = 1) \/ (i = 3 /\ i - 1 = 2)
      OBVIOUS
    <3>2. /\ (n \div 100) % 10 = n \div 100
          /\ n \div 10 = (n \div 100) * 10 + ((n \div 10) % 10)
          /\ n = (n \div 10) * 10 + (n % 10)
      BY <1>6
    <3>3. g[1] = g[0] * 10 + DigitValue[ds[1]]
      BY <1>1, <1>2, <2>1, <2>2, <3>2
    <3>4. g[2] = g[1] * 10 + DigitValue[ds[2]]
      BY <1>2, <2>1, <2>2, <3>2
    <3>5. g[3] = g[2] * 10 + DigitValue[ds[3]]
      BY <1>2, <2>1, <2>2, <3>2
    <3> QED
      BY <2>1, <3>1, <3>3, <3>4, <3>5
  <2>4. UnsignedIntConverter(ds) = IF n > LongMax \/ n > UIntMax THEN {} ELSE {n}
    <3>1. /\ ds \in Seq(Digit) /\ ds # <<>> /\ g[0] = 0
          /\ \A i \in 1..Len(ds) : g[i] = g[i - 1] * 10 + DigitValue[ds[i]]
      BY <2>1, <2>2, <2>3
    <3>2. UnsignedIntConverter(ds) = IF g[Len(ds)] > LongMax \/ g[Len(ds)] > UIntMax THEN {} ELSE {g[Len(ds)]}
      BY <3>1, DigitsConverted
    <3> QED
      BY <2>1, <2>2, <3>2
  <2> QED
    BY <1>3, <1>6, <1>7, <2>1, <2>4 DEF ds
<1> QED
  BY <1>4, <1>5, <1>6

(* What a command is before its positional arguments are stored.            *)
Started(action, argv, end) ==
  [Cleared EXCEPT !.action = action,
                  !.flags = IF action \in ReadsCompileOptions THEN SubSeq(argv, end + 1, Len(argv)) ELSE <<>>]

Store(command, member, value) == [command EXCEPT ![member] = value]

(* A file named "-" is the temporary one.                                   *)
Named(command, temp) == [command EXCEPT !.file = IF @ = <<"-">> THEN temp ELSE @]

(* The words of a command: its action, its m arguments, then the separator, *)
(* or the end.                                                              *)
WordsOf(argv, action, m) ==
  /\ Len(argv) \in Nat /\ argv # <<>> /\ action \in Action /\ argv[1] = <<action>>
  /\ m \in Nat /\ m + 2 <= Len(argv) + 1
  /\ m + 2 <= Len(argv) => argv[m + 2] = <<"--">>
  /\ \A j \in 2..(m + 1) : argv[j] # <<"--">>
  /\ Len(PositionalArgs[action]) = m /\ DOMAIN PositionalArgs[action] = 1..m

(* The parser finds the separator behind the arguments.                     *)
LEMMA SeparatorFound ==
  ASSUME NEW argv, NEW action, NEW m, WordsOf(argv, action, m)
  PROVE  (CHOOSE i \in 2..(Len(argv) + 1) : /\ i <= Len(argv) => argv[i] = <<"--">>
                                            /\ \A j \in 2..(i - 1) : argv[j] # <<"--">>) = m + 2
<1> DEFINE n == Len(argv)
           ends(i) == (i <= n => argv[i] = <<"--">>) /\ \A j \in 2..(i - 1) : argv[j] # <<"--">>
<1>1. n \in Nat /\ m + 2 \in 2..(n + 1) /\ ends(m + 2)
  BY DEF WordsOf
<1>2. ASSUME NEW i \in 2..(n + 1), ends(i) PROVE i = m + 2
  <2>1. CASE i < m + 2
    <3>1. i \in 2..((m + 2) - 1) /\ i <= n
      BY <1>1, <2>1
    <3> QED
      BY <1>1, <1>2, <3>1
  <2>2. CASE m + 2 < i
    <3>1. m + 2 \in 2..(i - 1) /\ m + 2 <= n
      BY <1>1, <2>2
    <3> QED
      BY <1>1, <1>2, <3>1
  <2> QED
    BY <1>1, <2>1, <2>2
<1> DEFINE end == CHOOSE i \in 2..(n + 1) : ends(i)
<1> HIDE DEF ends
<1>3. end \in 2..(n + 1) /\ ends(end)
  BY <1>1
<1> HIDE DEF end
<1>4. end = m + 2
  BY <1>2, <1>3
<1> QED
  BY <1>4 DEF end, ends

(* v are the values of the arguments, s the command after each.             *)
Taken(argv, action, m, v) == \A k \in 1..m : Convert(PositionalArgs[action][k], argv[k + 1]) = {v[k]}
Stored(argv, action, m, v, s) ==
  /\ s[0] = Started(action, argv, m + 2)
  /\ \A k \in 1..m : s[k] = Store(s[k - 1], PositionalArgs[action][k], v[k])

(* A converter refuses an argument.                                         *)
LEMMA ArgumentRefused ==
  ASSUME NEW argv, NEW action, NEW m, WordsOf(argv, action, m), NEW temp,
         NEW k \in 1..m, Convert(PositionalArgs[action][k], argv[k + 1]) = {}
  PROVE  ParseCommand(argv, temp) = Invalid
<1> DEFINE members == PositionalArgs[argv[1][1]]
           values == [i \in DOMAIN members |-> Convert(members[i], argv[i + 1])]
<1>1. argv[1][1] = action /\ k \in DOMAIN members
  BY DEF WordsOf
<1>2. values[k] = {}
  BY <1>1
<1>3. \E i \in DOMAIN members : values[i] = {}
  BY <1>1, <1>2
<1> QED
  BY <1>3 DEF ParseCommand

(* All arguments are taken.                                                 *)
LEMMA ArgumentsStored ==
  ASSUME NEW argv, NEW action, NEW m, WordsOf(argv, action, m), NEW temp,
         NEW v, Taken(argv, action, m, v), NEW s, Stored(argv, action, m, v, s)
  PROVE  ParseCommand(argv, temp) = Named(s[m], temp)
<1> DEFINE end == CHOOSE i \in 2..(Len(argv) + 1) : /\ i <= Len(argv) => argv[i] = <<"--">>
                                                    /\ \A j \in 2..(i - 1) : argv[j] # <<"--">>
           act == argv[1][1]
           members == PositionalArgs[act]
           values == [k \in DOMAIN members |-> Convert(members[k], argv[k + 1])]
           flags == IF act \in ReadsCompileOptions THEN SubSeq(argv, end + 1, Len(argv)) ELSE <<>>
           step(f, k) == IF k = 0 THEN [Cleared EXCEPT !.action = act, !.flags = flags]
                         ELSE [f[k - 1] EXCEPT ![members[k]] = CHOOSE x \in values[k] : TRUE]
           stored == CHOOSE f : f = [k \in 0..Len(members) |-> step(f, k)]
<1>1. /\ argv # <<>> /\ Len(argv[1]) = 1 /\ act = action /\ act \in Action
      /\ m \in Nat /\ Len(members) = m /\ DOMAIN members = 1..m
  BY DEF WordsOf
<1>2. end = m + 2
  BY SeparatorFound
<1>3. ParseCommand(argv, temp) =
        IF end - 2 # Len(members) \/ (\E k \in DOMAIN members : values[k] = {}) THEN Invalid
        ELSE Named(stored[Len(members)], temp)
  BY <1>1 DEF ParseCommand, Named
<1>4. \A k \in 1..m : values[k] = Convert(members[k], argv[k + 1])
  BY <1>1
<1>16. /\ \A k \in 1..m : Convert(members[k], argv[k + 1]) = {v[k]}
       /\ s[0] = Started(action, argv, m + 2)
       /\ \A k \in 1..m : s[k] = Store(s[k - 1], members[k], v[k])
  BY <1>1 DEF Taken, Stored
<1>5. \A k \in 1..m : values[k] = {v[k]}
  BY <1>1, <1>4, <1>16
<1> HIDE DEF values
<1>6. \A k \in 1..m : (CHOOSE x \in values[k] : TRUE) = v[k]
  <2> SUFFICES ASSUME NEW k \in 1..m PROVE (CHOOSE x \in values[k] : TRUE) = v[k]
    OBVIOUS
  <2> DEFINE c == CHOOSE x \in values[k] : TRUE
  <2>1. \E x \in values[k] : TRUE
    BY <1>5
  <2>2. c \in values[k]
    BY <2>1
  <2> HIDE DEF c
  <2>3. c = v[k]
    BY <1>5, <2>2
  <2> QED
    BY <2>3 DEF c
<1>7. [Cleared EXCEPT !.action = act, !.flags = flags] = Started(action, argv, m + 2)
  <2> HIDE DEF end, act, members, values
  <2> QED
    BY <1>1, <1>2 DEF Started
<1> HIDE DEF flags, end
<1> DEFINE f0 == [k \in 0..Len(members) |-> s[k]]
<1>8. f0 = [k \in 0..Len(members) |-> step(f0, k)]
  <2>1. ASSUME NEW k \in 0..m PROVE f0[k] = step(f0, k)
    <3>1. f0[k] = s[k] /\ (k # 0 => k \in 1..m /\ f0[k - 1] = s[k - 1])
      BY <1>1
    <3> HIDE DEF f0
    <3>2. CASE k = 0
      BY <1>7, <1>16, <3>1, <3>2
    <3>3. CASE k # 0
      <4>1. s[k] = [s[k - 1] EXCEPT ![members[k]] = v[k]]
        BY <1>1, <1>16, <3>1, <3>3 DEF Store
      <4>2. (CHOOSE x \in values[k] : TRUE) = v[k]
        BY <1>6, <3>1, <3>3
      <4> HIDE DEF members
      <4> QED
        BY <3>1, <3>3, <4>1, <4>2
    <3> QED
      BY <3>2, <3>3
  <2> HIDE DEF step
  <2>2. [k \in 0..Len(members) |-> s[k]] = [k \in 0..Len(members) |-> step(f0, k)]
    <3>1. \A k \in 0..Len(members) : s[k] = step(f0, k)
      <4>1. ASSUME NEW k \in 0..Len(members) PROVE s[k] = step(f0, k)
        <5>1. f0[k] = s[k] /\ k \in 0..m
          BY <1>1
        <5> HIDE DEF f0
        <5> QED
          BY <2>1, <5>1
      <4> QED
        BY <4>1
    <3> HIDE DEF f0, members
    <3> QED
      BY <3>1
  <2> QED
    BY <2>2
<1>9. stored = [k \in 0..Len(members) |-> step(stored, k)]
  <2> HIDE DEF f0, step
  <2> QED
    BY <1>8
<1> HIDE DEF stored, f0
<1>10. \A k \in 0..m : stored[k] = step(stored, k)
  <2> HIDE DEF step
  <2> QED
    BY <1>1, <1>9
<1> DEFINE T == {k \in Nat : k <= m => stored[k] = s[k]}
<1>11. 0 \in T
  <2>1. stored[0] = step(stored, 0)
    <3> HIDE DEF step
    <3> QED
      BY <1>1, <1>10
  <2>2. stored[0] = s[0]
    BY <1>7, <1>16, <2>1
  <2> QED
    BY <2>2
<1>12. \A k \in Nat : k \in T => k + 1 \in T
  <2> SUFFICES ASSUME NEW k \in Nat, k \in T, k + 1 <= m PROVE stored[k + 1] = s[k + 1]
    OBVIOUS
  <2>1. k + 1 \in 0..m /\ k + 1 \in 1..m /\ k + 1 # 0 /\ (k + 1) - 1 = k /\ k <= m
    BY <1>1
  <2>2. stored[k] = s[k]
    BY <2>1
  <2>3. stored[k + 1] = step(stored, k + 1)
    BY <1>10, <2>1
  <2>4. stored[k + 1] = [stored[k] EXCEPT ![members[k + 1]] = CHOOSE x \in values[k + 1] : TRUE]
    BY <2>1, <2>3
  <2>5. s[k + 1] = [s[k] EXCEPT ![members[k + 1]] = v[k + 1]]
    BY <1>1, <1>16, <2>1 DEF Store
  <2>6. (CHOOSE x \in values[k + 1] : TRUE) = v[k + 1]
    BY <1>6, <2>1
  <2> HIDE DEF members
  <2> QED
    BY <2>2, <2>4, <2>5, <2>6
<1> HIDE DEF T
<1>13. m \in T
  BY <1>1, <1>11, <1>12, SetInduction
<1>14. stored[m] = s[m]
  BY <1>1, <1>13 DEF T
<1>15. ~(end - 2 # Len(members) \/ (\E k \in DOMAIN members : values[k] = {}))
  <2>1. end - 2 = m
    BY <1>1, <1>2
  <2> QED
    BY <1>1, <1>5, <2>1
<1> QED
  BY <1>1, <1>3, <1>14, <1>15

(* Options stand after the separator, at the end.                           *)
EndsInOptions(argv, head, sep, l, S) ==
  /\ argv \in Seq(S) /\ Len(argv) = Len(head) + 1 + Len(l)
  /\ \A i \in 1..Len(head) : argv[i] = head[i]
  /\ argv[Len(head) + 1] = sep
  /\ SubSeq(argv, Len(head) + 2, Len(argv)) = l

(* Words, a separator and options, one after the other.                     *)
LEMMA OptionsLast ==
  ASSUME NEW S, NEW head \in Seq(S), NEW l \in Seq(S), NEW sep \in S
  PROVE  EndsInOptions(head \o (<<sep>> \o l), head, sep, l, S)
<1> DEFINE tail == <<sep>> \o l
           argv == head \o tail
           m == Len(head)
           n == Len(l)
<1>1. <<sep>> \in Seq(S) /\ Len(<<sep>>) = 1 /\ <<sep>>[1] = sep /\ m \in Nat /\ n \in Nat
  OBVIOUS
<1>2. /\ tail \in Seq(S) /\ Len(tail) = 1 + n
      /\ \A i \in 1..(1 + n) : tail[i] = IF i <= 1 THEN <<sep>>[i] ELSE l[i - 1]
  BY <1>1, ConcatProperties
<1> HIDE DEF tail
<1>3. /\ argv \in Seq(S) /\ Len(argv) = m + (1 + n)
      /\ \A i \in 1..(m + (1 + n)) : argv[i] = IF i <= m THEN head[i] ELSE tail[i - m]
  <2>1. /\ argv \in Seq(S) /\ Len(argv) = Len(head) + Len(tail)
        /\ \A i \in 1..(Len(head) + Len(tail)) : argv[i] = IF i <= Len(head) THEN head[i] ELSE tail[i - Len(head)]
    BY <1>2, ConcatProperties
  <2> QED
    BY <1>2, <2>1
<1> HIDE DEF argv
<1>4. \A i \in 1..m : argv[i] = head[i]
  BY <1>1, <1>3
<1>5. argv[m + 1] = sep
  <2>1. m + 1 \in 1..(m + (1 + n)) /\ ~(m + 1 <= m) /\ (m + 1) - m = 1 /\ 1 \in 1..(1 + n)
    BY <1>1
  <2> QED
    BY <1>1, <1>2, <1>3, <2>1
<1>6. SubSeq(argv, m + 2, Len(argv)) = l
  <2>1. \A i \in (m + 2)..Len(argv) : argv[i] \in S
    BY <1>1, <1>3
  <2>2. /\ SubSeq(argv, m + 2, Len(argv)) \in Seq(S) /\ Len(SubSeq(argv, m + 2, Len(argv))) = n
        /\ \A i \in 1..n : SubSeq(argv, m + 2, Len(argv))[i] = argv[(m + 2) + i - 1]
    BY <1>1, <1>3, <2>1, SubSeqProperties
  <2>3. ASSUME NEW i \in 1..n PROVE argv[(m + 2) + i - 1] = l[i]
    <3>1. /\ (m + 2) + i - 1 \in 1..(m + (1 + n)) /\ ~((m + 2) + i - 1 <= m)
          /\ ((m + 2) + i - 1) - m = 1 + i /\ 1 + i \in 1..(1 + n) /\ ~(1 + i <= 1) /\ (1 + i) - 1 = i
      BY <1>1
    <3>2. argv[(m + 2) + i - 1] = tail[1 + i]
      BY <1>3, <3>1
    <3> QED
      BY <1>2, <3>1, <3>2
  <2> QED
    BY <1>1, <2>2, <2>3, SeqEqual
<1> QED
  BY <1>1, <1>3, <1>4, <1>5, <1>6 DEF argv, tail, EndsInOptions

(* Argument k is stored in a member, as a value.                            *)
Took(argv, action, k, member, value) ==
  PositionalArgs[action][k] = member /\ Convert(member, argv[k + 1]) = {value}

(* The command after no, one, two or three arguments.                       *)
LEMMA NoneStored ==
  ASSUME NEW argv, NEW action, WordsOf(argv, action, 0), NEW temp
  PROVE  ParseCommand(argv, temp) = Named(Started(action, argv, 2), temp)
<1> DEFINE v == <<>>
           s == [k \in 0..0 |-> Started(action, argv, 2)]
<1>1. s[0] = Started(action, argv, 2) /\ \A k \in 1..0 : FALSE
  OBVIOUS
<1> HIDE DEF v, s
<1>2. Taken(argv, action, 0, v) /\ Stored(argv, action, 0, v, s)
  BY <1>1 DEF Taken, Stored
<1>3. ParseCommand(argv, temp) = Named(s[0], temp)
  BY <1>2, ArgumentsStored
<1> QED
  BY <1>1, <1>3

(* One argument.                                                            *)
LEMMA OneStored ==
  ASSUME NEW argv, NEW action, WordsOf(argv, action, 1), NEW temp, NEW a, NEW x,
         Took(argv, action, 1, a, x)
  PROVE  ParseCommand(argv, temp) =
           Named(Store(Started(action, argv, 3), a, x), temp)
<1> DEFINE v == <<x>>
           s0 == Started(action, argv, 3)
           s1 == Store(s0, a, x)
           s == [k \in 0..1 |-> IF k = 0 THEN s0 ELSE s1]
<1>1. s[0] = s0 /\ s[1] = s1
  OBVIOUS
<1>2. v[1] = x
  OBVIOUS
<1>3. s1 = Store(s0, a, x)
  OBVIOUS
<1>4. s0 = Started(action, argv, 3)
  OBVIOUS
<1> HIDE DEF v, s, s0, s1
<1>5. \A k \in 1..1 : (k = 1 /\ k - 1 = 0 /\ k + 1 = 2)
  OBVIOUS
<1>6. Taken(argv, action, 1, v)
  BY <1>2, <1>5 DEF Taken, Took
<1>7. Stored(argv, action, 1, v, s)
  BY <1>1, <1>2, <1>3, <1>4, <1>5 DEF Stored, Took
<1>8. ParseCommand(argv, temp) = Named(s[1], temp)
  BY <1>6, <1>7, ArgumentsStored
<1> QED
  BY <1>1, <1>3, <1>4, <1>8

(* Two.                                                                     *)
LEMMA TwoStored ==
  ASSUME NEW argv, NEW action, WordsOf(argv, action, 2), NEW temp, NEW a, NEW b, NEW x, NEW y,
         Took(argv, action, 1, a, x), Took(argv, action, 2, b, y)
  PROVE  ParseCommand(argv, temp) =
           Named(Store(Store(Started(action, argv, 4), a, x), b, y), temp)
<1> DEFINE v == <<x, y>>
           s0 == Started(action, argv, 4)
           s1 == Store(s0, a, x)
           s2 == Store(s1, b, y)
           s == [k \in 0..2 |-> IF k = 0 THEN s0 ELSE IF k = 1 THEN s1 ELSE s2]
<1>1. s[0] = s0 /\ s[1] = s1 /\ s[2] = s2
  OBVIOUS
<1>2. v[1] = x /\ v[2] = y
  OBVIOUS
<1>3. s1 = Store(s0, a, x) /\ s2 = Store(s1, b, y)
  OBVIOUS
<1>4. s0 = Started(action, argv, 4)
  OBVIOUS
<1> HIDE DEF v, s, s0, s1, s2
<1>5. \A k \in 1..2 : (k = 1 /\ k - 1 = 0 /\ k + 1 = 2) \/ (k = 2 /\ k - 1 = 1 /\ k + 1 = 3)
  OBVIOUS
<1>6. Taken(argv, action, 2, v)
  BY <1>2, <1>5 DEF Taken, Took
<1>7. Stored(argv, action, 2, v, s)
  BY <1>1, <1>2, <1>3, <1>4, <1>5 DEF Stored, Took
<1>8. ParseCommand(argv, temp) = Named(s[2], temp)
  BY <1>6, <1>7, ArgumentsStored
<1> QED
  BY <1>1, <1>3, <1>4, <1>8

(* Three.                                                                   *)
LEMMA ThreeStored ==
  ASSUME NEW argv, NEW action, WordsOf(argv, action, 3), NEW temp, NEW a, NEW b, NEW c, NEW x, NEW y, NEW z,
         Took(argv, action, 1, a, x), Took(argv, action, 2, b, y), Took(argv, action, 3, c, z)
  PROVE  ParseCommand(argv, temp) =
           Named(Store(Store(Store(Started(action, argv, 5), a, x), b, y), c, z), temp)
<1> DEFINE v == <<x, y, z>>
           s0 == Started(action, argv, 5)
           s1 == Store(s0, a, x)
           s2 == Store(s1, b, y)
           s3 == Store(s2, c, z)
           s == [k \in 0..3 |-> IF k = 0 THEN s0 ELSE IF k = 1 THEN s1 ELSE IF k = 2 THEN s2 ELSE s3]
<1>1. s[0] = s0 /\ s[1] = s1 /\ s[2] = s2 /\ s[3] = s3
  OBVIOUS
<1>2. v[1] = x /\ v[2] = y /\ v[3] = z
  OBVIOUS
<1>3. s1 = Store(s0, a, x) /\ s2 = Store(s1, b, y) /\ s3 = Store(s2, c, z)
  OBVIOUS
<1>4. s0 = Started(action, argv, 5)
  OBVIOUS
<1> HIDE DEF v, s, s0, s1, s2, s3
<1>5. \A k \in 1..3 : (k = 1 /\ k - 1 = 0 /\ k + 1 = 2) \/ (k = 2 /\ k - 1 = 1 /\ k + 1 = 3) \/ (k = 3 /\ k - 1 = 2 /\ k + 1 = 4)
  OBVIOUS
<1>6. Taken(argv, action, 3, v)
  BY <1>2, <1>5 DEF Taken, Took
<1>7. Stored(argv, action, 3, v, s)
  BY <1>1, <1>2, <1>3, <1>4, <1>5 DEF Stored, Took
<1>8. ParseCommand(argv, temp) = Named(s[3], temp)
  BY <1>6, <1>7, ArgumentsStored
<1> QED
  BY <1>1, <1>3, <1>4, <1>8

(* An action without compile options starts without flags.                  *)
LEMMA NoOptions ==
  ASSUME NEW action, action \notin ReadsCompileOptions, NEW argv, NEW e
  PROVE  Started(action, argv, e) = Empty(action)
<1>1. Started(action, argv, e) = [Cleared EXCEPT !.action = action, !.flags = <<>>]
  BY DEF Started
<1>2. [Cleared EXCEPT !.action = action, !.flags = <<>>] = [Cleared EXCEPT !.action = action]
  <2> DEFINE r == [Cleared EXCEPT !.action = action]
             none == <<>>
  <2>1. r.flags = none /\ "flags" \in DOMAIN r
    BY DEF Cleared
  <2>2. [Cleared EXCEPT !.action = action, !.flags = none] = [r EXCEPT !.flags = none]
    OBVIOUS
  <2> HIDE DEF none
  <2>3. r = [f \in DOMAIN Cleared |-> r[f]]
    OBVIOUS
  <2> HIDE DEF r
  <2>4. [r EXCEPT !.flags = none] = r
    BY <2>1, <2>3
  <2> QED
    BY <2>2, <2>4 DEF r, none
<1> QED
  BY <1>1, <1>2 DEF Empty

(* A command is parsed as r from the words it is written in, all of them    *)
(* words of W.                                                              *)
ReadAs(c, W, r, temp) ==
  CommandStrings(c) \in Seq(W) /\ ParseCommand(CommandStrings(c), temp) = r

(* Each is parsed as it was meant.                                          *)
LEMMA ParseParsed ==
  ASSUME NEW W, <<"parse">> \in W, <<"--">> \in W, NEW f \in W, f # <<"--">>, NEW l \in Seq(W), NEW temp
  PROVE  ReadAs(Parsing(f, l), W, Named(Parsing(f, l), temp), temp)
<1> DEFINE c == Parsing(f, l)
           head == <<<<"parse">>, f>>
           sep == <<"--">>
           argv == head \o (<<sep>> \o l)
<1>1. CommandStrings(c) = argv
  BY DEF CommandStrings, Parsing, Empty, Cleared
<1>2. head \in Seq(W) /\ sep \in W /\ Len(head) = 2 /\ head[1] = <<"parse">> /\ head[2] = f
  OBVIOUS
<1> HIDE DEF head, sep
<1>3. EndsInOptions(argv, head, sep, l, W)
  BY <1>2, OptionsLast
<1> HIDE DEF argv
<1>4. /\ argv \in Seq(W) /\ Len(argv) = 3 + Len(l) /\ Len(l) \in Nat /\ argv # <<>>
      /\ argv[1] = <<"parse">> /\ argv[2] = f /\ argv[3] = <<"--">>
      /\ SubSeq(argv, 4, Len(argv)) = l
  BY <1>2, <1>3 DEF EndsInOptions, sep
<1>5. WordsOf(argv, "parse", 1)
  <2>1. PositionalArgs["parse"] = <<"file">> /\ "parse" \in Action
    BY DEF PositionalArgs, Action
  <2>2. \A j \in 2..(1 + 1) : j = 2
    OBVIOUS
  <2> QED
    BY <1>4, <2>1, <2>2 DEF WordsOf
<1>6. Took(argv, "parse", 1, "file", f)
  BY <1>4 DEF PositionalArgs, Convert, Took
<1>7. ParseCommand(argv, temp) = Named(Store(Started("parse", argv, 3), "file", f), temp)
  BY <1>5, <1>6, OneStored
<1>8. Store(Started("parse", argv, 3), "file", f) = c
  <2>1. "parse" \in ReadsCompileOptions /\ SubSeq(argv, 3 + 1, Len(argv)) = l
    BY <1>4 DEF ReadsCompileOptions
  <2>2. Started("parse", argv, 3) = [Cleared EXCEPT !.action = "parse", !.flags = l]
    BY <2>1 DEF Started
  <2> QED
    BY <2>2 DEF Store, Parsing, Empty, Cleared
<1> QED
  BY <1>1, <1>4, <1>7, <1>8 DEF ReadAs

(* What the server makes of a command with these numbers.                   *)
Fits(n) == ~(n > LongMax \/ n > UIntMax)
Meant(c, temp) == IF Fits(c.line) /\ Fits(c.column) THEN Named(c, temp) ELSE Invalid

(* Numbers of up to three digits.                                           *)
ThreeDigits == 0..999

(* A number is taken if it fits, and refused if not.                        *)
LEMMA NumberConverted ==
  ASSUME NEW n \in 0..999, NEW member \in {"line", "column"}
  PROVE  Convert(member, NumberToString(n)) = IF Fits(n) THEN {n} ELSE {}
BY NumberRead DEF Convert, Fits

(* The numbers of a completion may be refused.                              *)
LEMMA CompleteParsed ==
  ASSUME NEW W, <<"complete">> \in W, <<"--">> \in W, Seq(Digit) \subseteq W, NEW f \in W, f # <<"--">>,
         NEW l \in Seq(W), NEW n \in ThreeDigits, NEW m \in ThreeDigits, NEW temp
  PROVE  ReadAs(Completing(f, n, m, l), W, Meant(Completing(f, n, m, l), temp), temp)
<1> DEFINE c == Completing(f, n, m, l)
           x == NumberToString(n)
           y == NumberToString(m)
           head == <<<<"complete">>, f, x, y>>
           sep == <<"--">>
           argv == head \o (<<sep>> \o l)
<1>1. CommandStrings(c) = argv
  BY DEF CommandStrings, Completing, Empty, Cleared
<1>0. x \in W /\ y \in W /\ x # <<"--">> /\ y # <<"--">>
  BY NumberRead DEF ThreeDigits
<1>9. c.line = n /\ c.column = m
  BY DEF Completing, Empty, Cleared
<1>10. /\ Convert("line", x) = IF Fits(n) THEN {n} ELSE {}
       /\ Convert("column", y) = IF Fits(m) THEN {m} ELSE {}
  BY NumberConverted DEF ThreeDigits
<1> HIDE DEF x, y
<1>2. /\ head \in Seq(W) /\ sep \in W /\ Len(head) = 4
      /\ head[1] = <<"complete">> /\ head[2] = f /\ head[3] = x /\ head[4] = y
  BY <1>0
<1> HIDE DEF head, sep
<1>3. EndsInOptions(argv, head, sep, l, W)
  BY <1>2, OptionsLast
<1> HIDE DEF argv
<1>4. /\ argv \in Seq(W) /\ Len(argv) = 5 + Len(l) /\ Len(l) \in Nat /\ argv # <<>>
      /\ argv[1] = <<"complete">> /\ argv[2] = f /\ argv[3] = x /\ argv[4] = y /\ argv[5] = <<"--">>
      /\ SubSeq(argv, 6, Len(argv)) = l
  BY <1>2, <1>3 DEF EndsInOptions, sep
<1>5. WordsOf(argv, "complete", 3)
  <2>1. PositionalArgs["complete"] = <<"file", "line", "column">> /\ "complete" \in Action
    BY DEF PositionalArgs, Action
  <2>2. \A j \in 2..(3 + 1) : j = 2 \/ j = 3 \/ j = 4
    OBVIOUS
  <2> QED
    BY <1>0, <1>4, <2>1, <2>2 DEF WordsOf
<1>6. /\ PositionalArgs["complete"][1] = "file" /\ PositionalArgs["complete"][2] = "line"
      /\ PositionalArgs["complete"][3] = "column" /\ Convert("file", argv[2]) = {f}
  BY <1>4 DEF PositionalArgs, Convert
<1>7. CASE Fits(n) /\ Fits(m)
  <2>1. Convert("line", argv[3]) = {n} /\ Convert("column", argv[4]) = {m}
    BY <1>4, <1>7, <1>10
  <2>2. ParseCommand(argv, temp) =
          Named(Store(Store(Store(Started("complete", argv, 5), "file", f), "line", n), "column", m), temp)
    <3>1. Took(argv, "complete", 1, "file", f) /\ Took(argv, "complete", 2, "line", n)
      BY <1>6, <2>1 DEF Took
    <3>2. Took(argv, "complete", 3, "column", m)
      BY <1>6, <2>1 DEF Took
    <3> QED
      BY <1>5, <3>1, <3>2, ThreeStored
  <2>3. Store(Store(Store(Started("complete", argv, 5), "file", f), "line", n), "column", m) = c
    <3>1. "complete" \in ReadsCompileOptions /\ SubSeq(argv, 5 + 1, Len(argv)) = l
      BY <1>4 DEF ReadsCompileOptions
    <3>2. Started("complete", argv, 5) = [Cleared EXCEPT !.action = "complete", !.flags = l]
      BY <3>1 DEF Started
    <3> QED
      BY <3>2 DEF Store, Completing, Empty, Cleared
  <2>4. Meant(c, temp) = Named(c, temp)
    BY <1>7, <1>9 DEF Meant
  <2> HIDE DEF c
  <2> QED
    BY <1>1, <1>4, <2>2, <2>3, <2>4 DEF c, ReadAs
<1>8. CASE ~(Fits(n) /\ Fits(m))
  <2>1. Meant(c, temp) = Invalid
    BY <1>8, <1>9 DEF Meant
  <2>2. \E k \in 1..3 : Convert(PositionalArgs["complete"][k], argv[k + 1]) = {}
    <3>1. ~Fits(n) => Convert(PositionalArgs["complete"][2], argv[2 + 1]) = {}
      BY <1>4, <1>6, <1>10
    <3>2. ~Fits(m) => Convert(PositionalArgs["complete"][3], argv[3 + 1]) = {}
      BY <1>4, <1>6, <1>10
    <3> QED
      BY <1>8, <3>1, <3>2
  <2>3. ParseCommand(argv, temp) = Invalid
    BY <1>5, <2>2, ArgumentRefused
  <2> HIDE DEF c
  <2> QED
    BY <1>1, <1>4, <2>1, <2>3 DEF c, ReadAs
<1> QED
  BY <1>7, <1>8

(* The style of candidates is one of three.                                 *)
LEMMA CandidatesParsed ==
  ASSUME NEW W, <<"candidates">> \in W, NEW x \in W, x # <<"--">>, NEW y \in PrefixMatchStyle, <<y>> \in W, NEW temp
  PROVE  ReadAs(Selecting(x, y), W, Named(Selecting(x, y), temp), temp)
<1> DEFINE c == Selecting(x, y)
           argv == <<<<"candidates">>, x, <<y>>>>
<1>1. CommandStrings(c) = argv
  BY DEF CommandStrings, Selecting, Empty, Cleared
<1>2. /\ argv \in Seq(W) /\ Len(argv) = 3 /\ argv # <<>>
      /\ argv[1] = <<"candidates">> /\ argv[2] = x /\ argv[3] = <<y>>
  OBVIOUS
<1> HIDE DEF argv
<1>3. WordsOf(argv, "candidates", 2)
  <2>1. PositionalArgs["candidates"] = <<"prefix", "style">> /\ "candidates" \in Action
    BY DEF PositionalArgs, Action
  <2>2. \A j \in 2..(2 + 1) : j = 2 \/ j = 3
    OBVIOUS
  <2> QED
    BY <1>2, <2>1, <2>2 DEF WordsOf, PrefixMatchStyle
<1>4. Took(argv, "candidates", 1, "prefix", x) /\ Took(argv, "candidates", 2, "style", y)
  BY <1>2 DEF PositionalArgs, Convert, Took, StyleConverter
<1>5. ParseCommand(argv, temp) = Named(Store(Store(Started("candidates", argv, 4), "prefix", x), "style", y), temp)
  BY <1>3, <1>4, TwoStored
<1>6. Store(Store(Started("candidates", argv, 4), "prefix", x), "style", y) = c
  <2>1. "candidates" \notin ReadsCompileOptions
    BY DEF ReadsCompileOptions
  <2>2. Started("candidates", argv, 4) = Empty("candidates")
    BY <2>1, NoOptions
  <2> QED
    BY <2>2 DEF Store, Selecting, Empty, Cleared
<1> HIDE DEF c
<1> QED
  BY <1>1, <1>2, <1>5, <1>6 DEF c, ReadAs

(* Two files.                                                               *)
LEMMA SetUnsavedParsed ==
  ASSUME NEW W, <<"set_unsaved">> \in W, NEW x \in W, x # <<"--">>, NEW y \in W, y # <<"--">>, NEW temp
  PROVE  ReadAs(Setting(x, y), W, Named(Setting(x, y), temp), temp)
<1> DEFINE c == Setting(x, y)
           argv == <<<<"set_unsaved">>, x, y>>
<1>1. CommandStrings(c) = argv
  BY DEF CommandStrings, Setting, Empty, Cleared
<1>2. /\ argv \in Seq(W) /\ Len(argv) = 3 /\ argv # <<>>
      /\ argv[1] = <<"set_unsaved">> /\ argv[2] = x /\ argv[3] = y
  OBVIOUS
<1> HIDE DEF argv
<1>3. WordsOf(argv, "set_unsaved", 2)
  <2>1. PositionalArgs["set_unsaved"] = <<"file", "unsavedFile">> /\ "set_unsaved" \in Action
    BY DEF PositionalArgs, Action
  <2>2. \A j \in 2..(2 + 1) : j = 2 \/ j = 3
    OBVIOUS
  <2> QED
    BY <1>2, <2>1, <2>2 DEF WordsOf
<1>4. Took(argv, "set_unsaved", 1, "file", x) /\ Took(argv, "set_unsaved", 2, "unsavedFile", y)
  BY <1>2 DEF PositionalArgs, Convert, Took
<1>5. ParseCommand(argv, temp) = Named(Store(Store(Started("set_unsaved", argv, 4), "file", x), "unsavedFile", y), temp)
  BY <1>3, <1>4, TwoStored
<1>6. Store(Store(Started("set_unsaved", argv, 4), "file", x), "unsavedFile", y) = c
  <2>1. "set_unsaved" \notin ReadsCompileOptions
    BY DEF ReadsCompileOptions
  <2>2. Started("set_unsaved", argv, 4) = Empty("set_unsaved")
    BY <2>1, NoOptions
  <2> QED
    BY <2>2 DEF Store, Setting, Empty, Cleared
<1> HIDE DEF c
<1> QED
  BY <1>1, <1>2, <1>5, <1>6 DEF c, ReadAs

(* A directory and a file.                                                  *)
LEMMA GetCompileOptionsParsed ==
  ASSUME NEW W, <<"get_compile_options">> \in W, NEW x \in W, x # <<"--">>, NEW y \in W, y # <<"--">>, NEW temp
  PROVE  ReadAs(Asking(x, y), W, Named(Asking(x, y), temp), temp)
<1> DEFINE c == Asking(x, y)
           argv == <<<<"get_compile_options">>, x, y>>
<1>1. CommandStrings(c) = argv
  BY DEF CommandStrings, Asking, Empty, Cleared
<1>2. /\ argv \in Seq(W) /\ Len(argv) = 3 /\ argv # <<>>
      /\ argv[1] = <<"get_compile_options">> /\ argv[2] = x /\ argv[3] = y
  OBVIOUS
<1> HIDE DEF argv
<1>3. WordsOf(argv, "get_compile_options", 2)
  <2>1. PositionalArgs["get_compile_options"] = <<"dir", "file">> /\ "get_compile_options" \in Action
    BY DEF PositionalArgs, Action
  <2>2. \A j \in 2..(2 + 1) : j = 2 \/ j = 3
    OBVIOUS
  <2> QED
    BY <1>2, <2>1, <2>2 DEF WordsOf
<1>4. Took(argv, "get_compile_options", 1, "dir", x) /\ Took(argv, "get_compile_options", 2, "file", y)
  BY <1>2 DEF PositionalArgs, Convert, Took
<1>5. ParseCommand(argv, temp) = Named(Store(Store(Started("get_compile_options", argv, 4), "dir", x), "file", y), temp)
  BY <1>3, <1>4, TwoStored
<1>6. Store(Store(Started("get_compile_options", argv, 4), "dir", x), "file", y) = c
  <2>1. "get_compile_options" \notin ReadsCompileOptions
    BY DEF ReadsCompileOptions
  <2>2. Started("get_compile_options", argv, 4) = Empty("get_compile_options")
    BY <2>1, NoOptions
  <2> QED
    BY <2>2 DEF Store, Asking, Empty, Cleared
<1> HIDE DEF c
<1> QED
  BY <1>1, <1>2, <1>5, <1>6 DEF c, ReadAs

(* One file.                                                                *)
LEMMA ResetUnsavedParsed ==
  ASSUME NEW W, <<"reset_unsaved">> \in W, NEW x \in W, x # <<"--">>, NEW temp
  PROVE  ReadAs(Resetting(x), W, Named(Resetting(x), temp), temp)
<1> DEFINE c == Resetting(x)
           argv == <<<<"reset_unsaved">>, x>>
<1>1. CommandStrings(c) = argv
  BY DEF CommandStrings, Resetting, Empty, Cleared
<1>2. argv \in Seq(W) /\ Len(argv) = 2 /\ argv # <<>> /\ argv[1] = <<"reset_unsaved">> /\ argv[2] = x
  OBVIOUS
<1> HIDE DEF argv
<1>3. WordsOf(argv, "reset_unsaved", 1)
  <2>1. PositionalArgs["reset_unsaved"] = <<"file">> /\ "reset_unsaved" \in Action
    BY DEF PositionalArgs, Action
  <2>2. \A j \in 2..(1 + 1) : j = 2
    OBVIOUS
  <2> QED
    BY <1>2, <2>1, <2>2 DEF WordsOf
<1>4. Took(argv, "reset_unsaved", 1, "file", x)
  BY <1>2 DEF PositionalArgs, Convert, Took
<1>5. ParseCommand(argv, temp) = Named(Store(Started("reset_unsaved", argv, 3), "file", x), temp)
  BY <1>3, <1>4, OneStored
<1>6. Store(Started("reset_unsaved", argv, 3), "file", x) = c
  <2>1. "reset_unsaved" \notin ReadsCompileOptions
    BY DEF ReadsCompileOptions
  <2>2. Started("reset_unsaved", argv, 3) = Empty("reset_unsaved")
    BY <2>1, NoOptions
  <2> QED
    BY <2>2 DEF Store, Resetting, Empty, Cleared
<1> HIDE DEF c
<1> QED
  BY <1>1, <1>2, <1>5, <1>6 DEF c, ReadAs

(* No argument at all.                                                      *)
LEMMA DiagnosticsParsed ==
  ASSUME NEW W, <<"diagnostics">> \in W, NEW temp
  PROVE  ReadAs(Empty("diagnostics"), W, Named(Empty("diagnostics"), temp), temp)
<1> DEFINE c == Empty("diagnostics")
           argv == <<<<"diagnostics">>>>
<1>1. CommandStrings(c) = argv
  BY DEF CommandStrings, Empty, Cleared
<1>2. argv \in Seq(W) /\ Len(argv) = 1 /\ argv # <<>> /\ argv[1] = <<"diagnostics">>
  OBVIOUS
<1> HIDE DEF argv
<1>3. WordsOf(argv, "diagnostics", 0)
  <2>1. PositionalArgs["diagnostics"] = <<>> /\ "diagnostics" \in Action
    BY DEF PositionalArgs, Action
  <2>2. \A j \in 2..(0 + 1) : FALSE
    OBVIOUS
  <2> QED
    BY <1>2, <2>1, <2>2 DEF WordsOf
<1>4. ParseCommand(argv, temp) = Named(Started("diagnostics", argv, 2), temp)
  BY <1>3, NoneStored
<1>5. Started("diagnostics", argv, 2) = c
  <2>1. "diagnostics" \notin ReadsCompileOptions
    BY DEF ReadsCompileOptions
  <2> QED
    BY <2>1, NoOptions
<1> HIDE DEF c
<1> QED
  BY <1>1, <1>2, <1>4, <1>5 DEF c, ReadAs

(* Two numbers.                                                             *)
LEMMA GetTypeParsed ==
  ASSUME NEW W, <<"get_type">> \in W, Seq(Digit) \subseteq W, NEW n \in ThreeDigits, NEW m \in ThreeDigits, NEW temp
  PROVE  ReadAs(Typing(n, m), W, Meant(Typing(n, m), temp), temp)
<1> DEFINE c == Typing(n, m)
           x == NumberToString(n)
           y == NumberToString(m)
           argv == <<<<"get_type">>, x, y>>
<1>1. CommandStrings(c) = argv
  BY DEF CommandStrings, Typing, Empty, Cleared
<1>0. x \in W /\ y \in W /\ x # <<"--">> /\ y # <<"--">>
  BY NumberRead DEF ThreeDigits
<1>9. c.line = n /\ c.column = m
  BY DEF Typing, Empty, Cleared
<1>10. /\ Convert("line", x) = IF Fits(n) THEN {n} ELSE {}
       /\ Convert("column", y) = IF Fits(m) THEN {m} ELSE {}
  BY NumberConverted DEF ThreeDigits
<1> HIDE DEF x, y
<1>4. argv \in Seq(W) /\ Len(argv) = 3 /\ argv # <<>> /\ argv[1] = <<"get_type">> /\ argv[2] = x /\ argv[3] = y
  BY <1>0
<1> HIDE DEF argv
<1>5. WordsOf(argv, "get_type", 2)
  <2>1. PositionalArgs["get_type"] = <<"line", "column">> /\ "get_type" \in Action
    BY DEF PositionalArgs, Action
  <2>2. \A j \in 2..(2 + 1) : j = 2 \/ j = 3
    OBVIOUS
  <2> QED
    BY <1>0, <1>4, <2>1, <2>2 DEF WordsOf
<1>6. PositionalArgs["get_type"][1] = "line" /\ PositionalArgs["get_type"][2] = "column"
  BY DEF PositionalArgs
<1>7. CASE Fits(n) /\ Fits(m)
  <2>1. Convert("line", argv[2]) = {n} /\ Convert("column", argv[3]) = {m}
    BY <1>4, <1>7, <1>10
  <2>2. ParseCommand(argv, temp) = Named(Store(Store(Started("get_type", argv, 4), "line", n), "column", m), temp)
    <3>1. Took(argv, "get_type", 1, "line", n) /\ Took(argv, "get_type", 2, "column", m)
      BY <1>6, <2>1 DEF Took
    <3> QED
      BY <1>5, <3>1, TwoStored
  <2>3. Store(Store(Started("get_type", argv, 4), "line", n), "column", m) = c
    <3>1. "get_type" \notin ReadsCompileOptions
      BY DEF ReadsCompileOptions
    <3>2. Started("get_type", argv, 4) = Empty("get_type")
      BY <3>1, NoOptions
    <3> QED
      BY <3>2 DEF Store, Typing, Empty, Cleared
  <2>4. Meant(c, temp) = Named(c, temp)
    BY <1>7, <1>9 DEF Meant
  <2> HIDE DEF c
  <2> QED
    BY <1>1, <1>4, <2>2, <2>3, <2>4 DEF c, ReadAs
<1>8. CASE ~(Fits(n) /\ Fits(m))
  <2>1. Meant(c, temp) = Invalid
    BY <1>8, <1>9 DEF Meant
  <2>2. \E k \in 1..2 : Convert(PositionalArgs["get_type"][k], argv[k + 1]) = {}
    <3>1. ~Fits(n) => Convert(PositionalArgs["get_type"][1], argv[1 + 1]) = {}
      BY <1>4, <1>6, <1>10
    <3>2. ~Fits(m) => Convert(PositionalArgs["get_type"][2], argv[2 + 1]) = {}
      BY <1>4, <1>6, <1>10
    <3> QED
      BY <1>8, <3>1, <3>2
  <2>3. ParseCommand(argv, temp) = Invalid
    BY <1>5, <2>2, ArgumentRefused
  <2> HIDE DEF c
  <2> QED
    BY <1>1, <1>4, <2>1, <2>3 DEF c, ReadAs
<1> QED
  BY <1>7, <1>8

(* The characters and names commands are made of.                           *)
Atom == {"parse", "complete", "get_type", "candidates", "set_unsaved", "reset_unsaved",
         "get_compile_options", "diagnostics", "--"}
        \cup PrefixMatchStyle \cup Digit \cup UNION {Range(w) : w \in Word}

(* All the words of commands are made of these.                             *)
LEMMA AtomsWritten ==
  /\ \A w \in Word : w \in Seq(Atom)
  /\ Seq(Digit) \subseteq Seq(Atom)
  /\ \A s \in PrefixMatchStyle : <<s>> \in Seq(Atom)
  /\ <<"parse">> \in Seq(Atom) /\ <<"complete">> \in Seq(Atom) /\ <<"get_type">> \in Seq(Atom)
  /\ <<"candidates">> \in Seq(Atom) /\ <<"set_unsaved">> \in Seq(Atom)
  /\ <<"reset_unsaved">> \in Seq(Atom) /\ <<"get_compile_options">> \in Seq(Atom)
  /\ <<"diagnostics">> \in Seq(Atom) /\ <<"--">> \in Seq(Atom)
<1>1. ASSUME NEW w \in Word PROVE w \in Seq(Atom)
  <2>1. w \in Seq(Range(w)) /\ Range(w) \subseteq Atom
    BY WordAssumption DEF Atom
  <2> DEFINE R == Range(w)
  <2> HIDE DEF R
  <2>2. PICK n \in Nat : w \in [1..n -> R]
    <3>1. w \in Seq(R)
      BY <2>1 DEF R
    <3>2. Len(w) \in Nat /\ w \in [1..Len(w) -> R]
      BY <3>1
    <3> QED
      BY <3>2
  <2>3. w \in [1..n -> Atom]
    BY <2>1, <2>2 DEF R
  <2> QED
    BY <2>3, FunctionIsSeq
<1>2. Seq(Digit) \subseteq Seq(Atom)
  BY DEF Atom
<1>3. \A a \in Atom : <<a>> \in Seq(Atom)
  OBVIOUS
<1>4. /\ PrefixMatchStyle \subseteq Atom /\ "parse" \in Atom /\ "complete" \in Atom /\ "get_type" \in Atom
      /\ "candidates" \in Atom /\ "set_unsaved" \in Atom /\ "reset_unsaved" \in Atom
      /\ "get_compile_options" \in Atom /\ "diagnostics" \in Atom /\ "--" \in Atom
  BY DEF Atom
<1> HIDE DEF Atom
<1> QED
  BY <1>1, <1>2, <1>3, <1>4

(* The words of a command are read as it was meant.                         *)
ReadAsMeant(c, temp) ==
  /\ CommandStrings(c) \in Seq(Seq(Atom))
  /\ ParseCommand(CommandStrings(c), temp) = Meant(c, temp)

(* Every command of irony-mode is.                                          *)
LEMMA ClientRead ==
  ASSUME NEW temp, NEW c \in ClientCommand, <<"--">> \notin {c.file, c.unsavedFile, c.prefix, c.dir}
  PROVE  ReadAsMeant(c, temp) /\ c.line \in ThreeDigits /\ c.column \in ThreeDigits
<1> DEFINE W == Seq(Atom)
           flags == {<<>>} \cup {<<w>> : w \in Word} \cup {<<w, <<"--">>>> : w \in Word}
<1>w. /\ \A w \in Word : w \in W
      /\ Seq(Digit) \subseteq W
      /\ \A s \in PrefixMatchStyle : <<s>> \in W
      /\ <<"parse">> \in W /\ <<"complete">> \in W /\ <<"get_type">> \in W
      /\ <<"candidates">> \in W /\ <<"set_unsaved">> \in W
      /\ <<"reset_unsaved">> \in W /\ <<"get_compile_options">> \in W
      /\ <<"diagnostics">> \in W /\ <<"--">> \in W
  BY AtomsWritten
<1>z. Fits(0) /\ 0 \in ThreeDigits /\ 1 \in ThreeDigits
  BY LimitsAssumption DEF Fits, ThreeDigits
<1>s. ReadAsMeant(c, temp) <=> ReadAs(c, W, Meant(c, temp), temp)
  BY DEF ReadAsMeant, ReadAs
<1>f. (\A f \in Word : <<f>> \in Seq(W)) /\ flags \subseteq Seq(W)
  <2> DEFINE V == W
  <2>1. Word \subseteq V /\ <<"--">> \in V
    BY <1>w
  <2> HIDE DEF V
  <2>2. \A f \in Word : <<f>> \in Seq(V)
    BY <2>1
  <2>3. \A f \in Word : <<f, <<"--">>>> \in Seq(V)
    BY <2>1
  <2>4. <<>> \in Seq(V)
    OBVIOUS
  <2> QED
    BY <2>2, <2>3, <2>4 DEF V
<1> HIDE DEF W
<1>m. c.line = 0 /\ c.column = 0 => Meant(c, temp) = Named(c, temp) /\ c.line \in ThreeDigits /\ c.column \in ThreeDigits
  BY <1>z DEF Meant
<1>n. Number \subseteq ThreeDigits /\ {1, 80} \subseteq ThreeDigits
  BY NumberAssumption DEF ThreeDigits
<1>1. ASSUME NEW f \in Word, NEW l \in flags, c = Parsing(f, l)
      PROVE  ReadAsMeant(c, temp) /\ c.line \in ThreeDigits /\ c.column \in ThreeDigits
  <2>1. c.file = f /\ c.line = 0 /\ c.column = 0
    BY <1>1 DEF Parsing, Empty, Cleared
  <2>2. l \in Seq(W)
    BY <1>f
  <2>3. ReadAs(c, W, Named(c, temp), temp)
    BY <1>1, <1>w, <2>1, <2>2, ParseParsed
  <2> QED
    BY <1>s, <1>m, <2>1, <2>3
<1>2. ASSUME NEW f \in Word, NEW n \in Number, NEW m \in {1, 80}, NEW l \in flags,
             c = Completing(f, n, m, l)
      PROVE  ReadAsMeant(c, temp) /\ c.line \in ThreeDigits /\ c.column \in ThreeDigits
  <2>1. c.file = f /\ c.line = n /\ c.column = m /\ n \in ThreeDigits /\ m \in ThreeDigits
    BY <1>2, <1>n, <1>z DEF Completing, Empty, Cleared
  <2>2. l \in Seq(W)
    BY <1>f
  <2>3. ReadAs(c, W, Meant(c, temp), temp)
    BY <1>2, <1>w, <2>1, <2>2, CompleteParsed
  <2> QED
    BY <1>s, <2>1, <2>3
<1>3. ASSUME NEW n \in Number, NEW m \in {1, 80}, c = Typing(n, m)
      PROVE  ReadAsMeant(c, temp) /\ c.line \in ThreeDigits /\ c.column \in ThreeDigits
  <2>1. c.line = n /\ c.column = m /\ n \in ThreeDigits /\ m \in ThreeDigits
    BY <1>3, <1>n DEF Typing, Empty, Cleared
  <2>3. ReadAs(c, W, Meant(c, temp), temp)
    BY <1>3, <1>w, <2>1, GetTypeParsed
  <2> QED
    BY <1>s, <2>1, <2>3
<1>4. ASSUME NEW w \in Word, NEW s \in PrefixMatchStyle, c = Selecting(w, s)
      PROVE  ReadAsMeant(c, temp) /\ c.line \in ThreeDigits /\ c.column \in ThreeDigits
  <2>1. c.prefix = w /\ c.line = 0 /\ c.column = 0
    BY <1>4 DEF Selecting, Empty, Cleared
  <2>3. ReadAs(c, W, Named(c, temp), temp)
    BY <1>4, <1>w, <2>1, CandidatesParsed
  <2> QED
    BY <1>s, <1>m, <2>1, <2>3
<1>5. ASSUME NEW f \in Word, NEW w \in Word, c = Setting(f, w)
      PROVE  ReadAsMeant(c, temp) /\ c.line \in ThreeDigits /\ c.column \in ThreeDigits
  <2>1. c.file = f /\ c.unsavedFile = w /\ c.line = 0 /\ c.column = 0
    BY <1>5 DEF Setting, Empty, Cleared
  <2>3. ReadAs(c, W, Named(c, temp), temp)
    BY <1>5, <1>w, <2>1, SetUnsavedParsed
  <2> QED
    BY <1>s, <1>m, <2>1, <2>3
<1>6. ASSUME NEW f \in Word, c = Resetting(f)
      PROVE  ReadAsMeant(c, temp) /\ c.line \in ThreeDigits /\ c.column \in ThreeDigits
  <2>1. c.file = f /\ c.line = 0 /\ c.column = 0
    BY <1>6 DEF Resetting, Empty, Cleared
  <2>3. ReadAs(c, W, Named(c, temp), temp)
    BY <1>6, <1>w, <2>1, ResetUnsavedParsed
  <2> QED
    BY <1>s, <1>m, <2>1, <2>3
<1>7. ASSUME NEW d \in Word, NEW f \in Word, c = Asking(d, f)
      PROVE  ReadAsMeant(c, temp) /\ c.line \in ThreeDigits /\ c.column \in ThreeDigits
  <2>1. c.dir = d /\ c.file = f /\ c.line = 0 /\ c.column = 0
    BY <1>7 DEF Asking, Empty, Cleared
  <2>3. ReadAs(c, W, Named(c, temp), temp)
    BY <1>7, <1>w, <2>1, GetCompileOptionsParsed
  <2> QED
    BY <1>s, <1>m, <2>1, <2>3
<1>8. ASSUME c = Empty("diagnostics")
      PROVE  ReadAsMeant(c, temp) /\ c.line \in ThreeDigits /\ c.column \in ThreeDigits
  <2>1. c.line = 0 /\ c.column = 0
    BY <1>8 DEF Empty, Cleared
  <2>3. ReadAs(c, W, Named(c, temp), temp)
    BY <1>8, <1>w, DiagnosticsParsed
  <2> QED
    BY <1>s, <1>m, <2>1, <2>3
<1> DEFINE good == ReadAsMeant(c, temp) /\ c.line \in ThreeDigits /\ c.column \in ThreeDigits
<1>9. /\ \A f \in Word, l \in flags : c = Parsing(f, l) => good
      /\ \A f \in Word, n \in Number, m \in {1, 80}, l \in flags : c = Completing(f, n, m, l) => good
      /\ \A n \in Number, m \in {1, 80} : c = Typing(n, m) => good
      /\ \A w \in Word, s \in PrefixMatchStyle : c = Selecting(w, s) => good
      /\ \A f \in Word, w \in Word : c = Setting(f, w) => good
      /\ \A f \in Word : c = Resetting(f) => good
      /\ \A d \in Word, f \in Word : c = Asking(d, f) => good
      /\ c = Empty("diagnostics") => good
  BY <1>1, <1>2, <1>3, <1>4, <1>5, <1>6, <1>7, <1>8
<1> DEFINE P == {Parsing(f, l) : f \in Word, l \in flags}
           C == {Completing(f, n, m, l) : f \in Word, n \in Number, m \in {1, 80}, l \in flags}
           T == {Typing(n, m) : n \in Number, m \in {1, 80}}
           S == {Selecting(w, s) : w \in Word, s \in PrefixMatchStyle}
           U == {Setting(f, w) : f \in Word, w \in Word}
           R == {Resetting(f) : f \in Word}
           O == {Asking(d, f) : d \in Word, f \in Word}
           D == {Empty("diagnostics")}
<1>11. c \in P \/ c \in C \/ c \in T \/ c \in S \/ c \in U \/ c \in R \/ c \in O \/ c \in D
  <2>1. c \in P \cup C \cup T \cup S \cup U \cup R \cup O \cup D
    <3> HIDE DEF good
    <3> QED
      BY DEF ClientCommand
  <2> HIDE DEF P, C, T, S, U, R, O, D
  <2> QED
    BY <2>1
<1> HIDE DEF good, flags
<1>13. c \in P => good
  BY <1>9
<1>14. c \in C => good
  BY <1>9
<1>15. c \in T => good
  BY <1>9
<1>16. c \in S => good
  BY <1>9
<1>17. c \in U => good
  BY <1>9
<1>18. c \in R => good
  BY <1>9
<1>19. c \in O => good
  BY <1>9
<1>20. c \in D => good
  BY <1>9
<1> HIDE DEF P, C, T, S, U, R, O, D
<1>10. good
  BY <1>11, <1>13, <1>14, <1>15, <1>16, <1>17, <1>18, <1>19, <1>20
<1> QED
  BY <1>10 DEF good

\* CommandsReadBack, whatever numbers and words without a newline or a lone
\* apostrophe the commands are made of: the server parses from the line of a
\* command the command itself, or refuses it for a number an unsigned cannot
\* hold (irony--quote-strings, std::getline, unescapeCommandLine,
\* CommandParser::parse).
THEOREM CommandsStayReadBack == Spec => []CommandsReadBack
<1>1. Misread = {}
  <2> SUFFICES ASSUME NEW c \in ClientCommand,
                      \A i \in DOMAIN CommandStrings(c) : Survives(CommandStrings(c)[i]),
                      <<"--">> \notin {c.file, c.unsavedFile, c.prefix, c.dir}
               PROVE  ParseCommand(UnescapeCommandLine(GetLine(Sent(CommandStrings(c)))), <<"temp">>) =
                        IF c.line > UIntMax \/ c.column > UIntMax THEN Invalid
                        ELSE [c EXCEPT !.file = IF @ = <<"-">> THEN <<"temp">> ELSE @]
    BY DEF Misread
  <2> DEFINE strings == CommandStrings(c)
  <2>1. /\ strings \in Seq(Seq(Atom)) /\ c.line \in ThreeDigits /\ c.column \in ThreeDigits
        /\ ParseCommand(strings, <<"temp">>) = Meant(c, <<"temp">>)
    BY ClientRead DEF ReadAsMeant
  <2> HIDE DEF strings
  <2>2. UnescapeCommandLine(GetLine(Sent(strings))) = strings
    BY <2>1, WordsReadBack DEF strings
  <2>3. \A n \in 0..999 : ~Fits(n) <=> n > UIntMax
    BY LimitsAssumption DEF Fits
  <2> QED
    BY <2>1, <2>2, <2>3 DEF Meant, Named, strings, ThreeDigits
<1>2. CommandsReadBack
  BY <1>1 DEF CommandsReadBack
<1> QED
  BY <1>2, PTL

----------------------------------------------------------------------------
(* Sequences that are joined, and what is between two places of them.       *)

(* The first n are sequences over S.                                        *)
Strings(p, n, S) == \A i \in 1..n : p[i] \in Seq(S)

(* FlattenSeq joins.                                                        *)
LEMMA FlattenIsJoin ==
  ASSUME NEW S, NEW n \in Nat, NEW seqs, Len(seqs) = n, NEW f, Joins(f, seqs, n, S),
         Strings(seqs, n, S), n = 0 => seqs = <<>>
  PROVE  FlattenSeq(seqs) = f[n]
<1> DEFINE step(g, i) == IF i = 1 THEN seqs[i] ELSE g[i - 1] \o seqs[i]
<1>1. /\ f[0] = <<>>
      /\ \A i \in 0..n : f[i] \in Seq(S)
      /\ \A i \in 1..n : f[i] = f[i - 1] \o seqs[i] /\ seqs[i] \in Seq(S)
  BY DEF Joins, Strings
<1>2. CASE n = 0
  BY <1>1, <1>2 DEF FlattenSeq
<1>3. CASE n # 0
  <2>0. 1 \in 1..n /\ 1 - 1 = 0
    BY <1>3
  <2>1. f[1] = seqs[1]
    <3>1. f[1] = <<>> \o seqs[1] /\ seqs[1] \in Seq(S)
      BY <1>1, <2>0
    <3> QED
      BY <3>1
  <2>2. \E g : g = [i \in 1..n |-> step(g, i)]
    <3> DEFINE g == [i \in 1..n |-> f[i]]
    <3>1. ASSUME NEW i \in 1..n PROVE g[i] = step(g, i)
      <4>1. CASE i = 1
        BY <2>1, <4>1
      <4>2. CASE i # 1
        <5>1. i - 1 \in 1..n /\ g[i - 1] = f[i - 1] /\ g[i] = f[i]
          BY <4>2
        <5> HIDE DEF g
        <5> QED
          BY <1>1, <4>2, <5>1
      <4> QED
        BY <4>1, <4>2
    <3>2. g = [i \in 1..n |-> step(g, i)]
      BY <3>1
    <3> QED
      BY <3>2
  <2> DEFINE flatten == CHOOSE g : g = [i \in 1..n |-> step(g, i)]
  <2>3. flatten = [i \in 1..n |-> step(flatten, i)]
    BY <2>2
  <2>4. FlattenSeq(seqs) = flatten[n]
    BY <1>3 DEF FlattenSeq
  <2> HIDE DEF flatten
  <2>5. \A i \in 1..n : flatten[i] = step(flatten, i)
    BY <2>3
  <2> DEFINE T == {i \in Nat : i + 1 <= n => flatten[i + 1] = f[i + 1]}
  <2>6. 0 \in T
    BY <2>0, <2>1, <2>5
  <2>7. \A i \in Nat : i \in T => i + 1 \in T
    <3> SUFFICES ASSUME NEW i \in Nat, i \in T, (i + 1) + 1 <= n
                 PROVE  flatten[(i + 1) + 1] = f[(i + 1) + 1]
      OBVIOUS
    <3>1. i + 1 <= n /\ (i + 1) + 1 \in 1..n /\ (i + 1) + 1 # 1 /\ ((i + 1) + 1) - 1 = i + 1
      OBVIOUS
    <3>2. flatten[i + 1] = f[i + 1]
      BY <3>1
    <3>3. f[(i + 1) + 1] = f[i + 1] \o seqs[(i + 1) + 1]
      BY <1>1, <3>1
    <3>4. flatten[(i + 1) + 1] = flatten[i + 1] \o seqs[(i + 1) + 1]
      BY <2>5, <3>1
    <3> QED
      BY <3>2, <3>3, <3>4
  <2> HIDE DEF T
  <2>10. Nat \subseteq T
    BY <2>6, <2>7, SetInduction
  <2>8. n - 1 \in T /\ (n - 1) + 1 = n
    BY <1>3, <2>10
  <2>9. flatten[n] = f[n]
    BY <2>8 DEF T
  <2> QED
    BY <2>4, <2>9
<1> QED
  BY <1>2, <1>3

(* The pieces from place a to place b.                                      *)
Between(p, a, b) == FlattenSeq([k \in 1..(b - a) |-> p[a + k]])

(* It does not matter which two of three are joined first.                  *)
LEMMA Associative ==
  ASSUME NEW S, NEW x \in Seq(S), NEW y \in Seq(S), NEW z \in Seq(S)
  PROVE  (x \o y) \o z = x \o (y \o z)
BY ConcatAssociative

(* What was joined up to b is what was joined up to a, and what is between. *)
Divided(p, f, a, b, S) ==
  Between(p, a, b) \in Seq(S) /\ f[b] = f[a] \o Between(p, a, b)

(* So every two places divide what is joined.                               *)
LEMMA JoinedBetween ==
  ASSUME NEW S, NEW n \in Nat, NEW p, Strings(p, n, S), NEW f, Joins(f, p, n, S),
         NEW a \in 0..n, NEW b \in 0..n, a <= b
  PROVE  Divided(p, f, a, b, S)
<1> DEFINE m == b - a
           q == [k \in 1..m |-> p[a + k]]
<1>1. m \in Nat /\ a + m = b /\ \A k \in 1..m : a + k \in 1..n /\ (a + k) - 1 = a + (k - 1) /\ a + k \in 0..n
  OBVIOUS
<1>2. Strings(q, m, S) /\ \A k \in 1..m : q[k] = p[a + k]
  BY <1>1 DEF Strings
<1>3. Len(q) = m /\ (m = 0 => q = <<>>)
  BY <1>1
<1>4. Between(p, a, b) = FlattenSeq(q)
  BY DEF Between
<1> HIDE DEF q, m
<1>5. PICK d : Joins(d, q, m, S)
  BY <1>1, <1>2, Joined DEF Strings
<1>6. FlattenSeq(q) = d[m]
  BY <1>1, <1>2, <1>3, <1>5, FlattenIsJoin
<1> DEFINE good(k) == f[a + k] = f[a] \o d[k]
           T == {k \in Nat : k <= m => good(k)}
<1>7. /\ f[0] = <<>>
      /\ \A i \in 0..n : f[i] \in Seq(S)
      /\ \A i \in 1..n : f[i] = f[i - 1] \o p[i] /\ p[i] \in Seq(S)
  BY DEF Joins, Strings
<1>8. /\ d[0] = <<>>
      /\ \A i \in 0..m : d[i] \in Seq(S)
      /\ \A i \in 1..m : d[i] = d[i - 1] \o q[i]
  BY <1>5 DEF Joins
<1>9. 0 \in T
  <2>1. f[a] \in Seq(S) /\ d[0] = <<>> /\ a + 0 = a
    BY <1>7, <1>8
  <2>2. f[a] \o <<>> = f[a]
    BY <2>1
  <2>3. good(0)
    BY <2>1, <2>2
  <2> HIDE DEF good
  <2> QED
    BY <2>3
<1>10. \A k \in Nat : k \in T => k + 1 \in T
  <2> SUFFICES ASSUME NEW k \in Nat, k \in T, k + 1 <= m
               PROVE  good(k + 1)
    <3> HIDE DEF good
    <3> QED
      OBVIOUS
  <2>1. k <= m /\ k + 1 \in 1..m /\ (k + 1) - 1 = k /\ k \in 0..m
    BY <1>1
  <2>2. good(k)
    <3> HIDE DEF good
    <3> QED
      BY <2>1
  <2> DEFINE x == f[a]
             y == d[k]
             z == p[a + (k + 1)]
  <2>3. f[a + (k + 1)] = f[a + k] \o z /\ z \in Seq(S)
    <3>1. a + (k + 1) \in 1..n /\ (a + (k + 1)) - 1 = a + k
      BY <1>1, <2>1
    <3> QED
      BY <1>7, <3>1
  <2>4. d[k + 1] = y \o z /\ y \in Seq(S)
    BY <1>2, <1>8, <2>1
  <2>5. x \in Seq(S)
    BY <1>7
  <2> HIDE DEF x, y, z
  <2>8. x \in Seq(S) /\ y \in Seq(S) /\ z \in Seq(S)
    BY <2>3, <2>4, <2>5
  <2>6. (x \o y) \o z = x \o (y \o z)
    BY <2>8, Associative
  <2>7. f[a + k] = x \o y
    BY <2>2 DEF x, y
  <2> QED
    BY <2>3, <2>4, <2>6, <2>7 DEF x
<1> HIDE DEF T, good
<1>11. m \in T
  BY <1>1, <1>9, <1>10, SetInduction
<1>14. good(m)
  BY <1>1, <1>11 DEF T
<1>12. f[a + m] = f[a] \o d[m]
  BY <1>14 DEF good
<1>13. d[m] \in Seq(S)
  BY <1>1, <1>8
<1> QED
  BY <1>1, <1>4, <1>6, <1>12, <1>13 DEF Divided

(* Emacs cuts out just these pieces.                                        *)
LEMMA SubstringBetween ==
  ASSUME NEW S, NEW n \in Nat, NEW p, Strings(p, n, S), NEW f, Joins(f, p, n, S),
         NEW a \in 0..n, NEW b \in 0..n, a <= b
  PROVE  Substring(f[n], Len(f[a]), Len(f[b])) = Between(p, a, b)
<1> DEFINE x == f[a]
           y == Between(p, a, b)
           z == Between(p, b, n)
<1>0. n \in 0..n /\ b <= n /\ x \in Seq(S)
  BY DEF Joins
<1>00. Divided(p, f, a, b, S) /\ Divided(p, f, b, n, S)
  BY <1>0, JoinedBetween
<1>01. y \in Seq(S) /\ f[b] = x \o y /\ z \in Seq(S) /\ f[n] = f[b] \o z
  BY <1>00 DEF Divided
<1> HIDE DEF x, y, z
<1> DEFINE v == x \o y
           w == v \o z
<1>1. x \in Seq(S) /\ y \in Seq(S) /\ z \in Seq(S) /\ f[b] = v /\ f[n] = w
  BY <1>0, <1>01
<1>2. /\ v \in Seq(S) /\ Len(v) = Len(x) + Len(y)
      /\ \A i \in 1..(Len(x) + Len(y)) : v[i] = IF i <= Len(x) THEN x[i] ELSE y[i - Len(x)]
  BY <1>1, ConcatProperties
<1> HIDE DEF v
<1>3. /\ w \in Seq(S) /\ Len(w) = Len(v) + Len(z)
      /\ \A i \in 1..(Len(v) + Len(z)) : w[i] = IF i <= Len(v) THEN v[i] ELSE z[i - Len(v)]
  <2>1. v \in Seq(S) /\ z \in Seq(S)
    BY <1>1, <1>2
  <2> QED
    BY <2>1, ConcatProperties
<1> HIDE DEF w
<1>4. Len(x) \in Nat /\ Len(y) \in Nat /\ Len(z) \in Nat
  BY <1>1
<1>5. Substring(w, Len(x), Len(v)) = SubSeq(w, Len(x) + 1, Len(v))
  BY <1>2, <1>3, <1>4 DEF Substring
<1>6. SubSeq(w, Len(x) + 1, Len(v)) = y
  <2>1. \A i \in (Len(x) + 1)..Len(v) : w[i] \in S
    <3>1. \A i \in 1..Len(w) : w[i] \in S
      BY <1>3
    <3> QED
      BY <1>2, <1>3, <1>4, <3>1
  <2>2. /\ SubSeq(w, Len(x) + 1, Len(v)) \in Seq(S) /\ Len(SubSeq(w, Len(x) + 1, Len(v))) = Len(y)
        /\ \A i \in 1..Len(y) : SubSeq(w, Len(x) + 1, Len(v))[i] = w[(Len(x) + 1) + i - 1]
    BY <1>2, <1>3, <1>4, <2>1, SubSeqProperties
  <2>3. ASSUME NEW i \in 1..Len(y) PROVE w[(Len(x) + 1) + i - 1] = y[i]
    <3>1. /\ (Len(x) + 1) + i - 1 = Len(x) + i
          /\ Len(x) + i \in 1..(Len(v) + Len(z)) /\ Len(x) + i <= Len(v)
          /\ Len(x) + i \in 1..(Len(x) + Len(y)) /\ ~(Len(x) + i <= Len(x)) /\ (Len(x) + i) - Len(x) = i
      BY <1>2, <1>4
    <3> QED
      BY <1>2, <1>3, <3>1
  <2> QED
    BY <1>1, <2>2, <2>3, SeqEqual
<1> QED
  BY <1>1, <1>5, <1>6 DEF x, y

----------------------------------------------------------------------------
(* What becomes of a completion string.                                     *)

(* What a candidate is while its chunks are gone through: before the typed  *)
(* text, when that does not match, and after it.                            *)
Early(r, p) ==
  [typed |-> <<>>, resultType |-> r, prototype |-> p, annotationStart |-> 0,
   car |-> <<>>, cdr |-> <<>>, typedTextSet |-> FALSE, hasPrefix |-> TRUE]
Refused(y, r, p) ==
  [typed |-> y, resultType |-> r, prototype |-> p, annotationStart |-> 0,
   car |-> <<>>, cdr |-> <<>>, typedTextSet |-> FALSE, hasPrefix |-> FALSE]
Late(y, r, p, a, car, cdr) ==
  [typed |-> y, resultType |-> r, prototype |-> p, annotationStart |-> a,
   car |-> car, cdr |-> cdr, typedTextSet |-> TRUE, hasPrefix |-> TRUE]

(* The typed text, and the kinds that are shown, inserted, left for the     *)
(* user to fill in, and skipped by postCompCallback.                        *)
Typed(chunk) == chunk.kind = "typed text"

(* The kinds of chunks that are shown, and that are inserted.               *)
Shown == TextKind \cup {"punctuation"}
Inserted == Shown \ {"informative"}
Field == {"placeholder", "current parameter"}
Skipped == {"informative", "result type", "optional"}
Piece(kinds, chunk) == IF chunk.kind \in kinds THEN Printed(chunk) ELSE <<>>

(* What a chunk adds to either text.                                        *)
LEMMA PiecesPrinted ==
  ASSUME NEW chunk
  PROVE  /\ Printed(chunk) = Piece(Shown, chunk)
         /\ chunk.kind \notin Skipped => Printed(chunk) = Piece(Inserted, chunk)
         /\ chunk.kind \in Skipped => Piece(Inserted, chunk) = <<>>
         /\ chunk.kind \in Field => Piece(Inserted, chunk) = chunk.text
<1>1. chunk.kind \notin Shown => Printed(chunk) = <<>>
  BY DEF Shown, Printed
<1>2. Printed(chunk) = Piece(Shown, chunk)
  BY <1>1 DEF Piece
<1>3. chunk.kind \notin Skipped => Printed(chunk) = Piece(Inserted, chunk)
  BY <1>1 DEF Piece, Inserted, Skipped
<1>4. chunk.kind \in Skipped => Piece(Inserted, chunk) = <<>>
  BY DEF Piece, Inserted, Shown, TextKind, Skipped
<1>5. chunk.kind \in Field => Piece(Inserted, chunk) = chunk.text
  BY DEF Piece, Inserted, Shown, TextKind, Field, Printed
<1> QED
  BY <1>2, <1>3, <1>4, <1>5

(* One text is another with a third after it.                               *)
Extends(q, p, x) == q = p \o x

(* The result type after a chunk.                                           *)
NewResult(r, chunk) == IF chunk.kind = "result type" THEN chunk.text ELSE r

(* Before the typed text.                                                   *)
LEMMA AddBefore ==
  ASSUME NEW prefix, NEW style, NEW chunk, ~Typed(chunk),
         NEW r, NEW p, NEW q, Extends(q, p, Printed(chunk))
  PROVE  AddChunk(prefix, style, Early(r, p), chunk) = Early(NewResult(r, chunk), q)
BY DEF AddChunk, Typed, Extends, PostComp, Skipped, Early, Refused, Late, NewResult

(* At the typed text.                                                       *)
LEMMA AddMatching ==
  ASSUME NEW prefix, NEW style, NEW chunk, Typed(chunk), Matches(chunk.text, prefix, style),
         NEW r, NEW p, NEW q, Extends(q, p, Printed(chunk)), NEW z, z = Size(q)
  PROVE  AddChunk(prefix, style, Early(r, p), chunk)
           = Late(chunk.text, r, q, z, <<>>, <<>>)
BY DEF AddChunk, Typed, Extends, PostComp, Skipped, Early, Refused, Late

(* The typed text does not match.                                           *)
LEMMA AddOther ==
  ASSUME NEW prefix, NEW style, NEW chunk, Typed(chunk), ~Matches(chunk.text, prefix, style),
         NEW r, NEW p, NEW q, Extends(q, p, Printed(chunk))
  PROVE  AddChunk(prefix, style, Early(r, p), chunk)
           = Refused(chunk.text, r, q)
BY DEF AddChunk, Typed, Extends, PostComp, Skipped, Early, Refused, Late

(* Nothing is added once it did not match.                                  *)
LEMMA AddRefused ==
  ASSUME NEW prefix, NEW style, NEW chunk, NEW y, NEW r, NEW p
  PROVE  AddChunk(prefix, style, Refused(y, r, p), chunk)
           = Refused(y, r, p)
BY DEF AddChunk, Early, Refused, Late

(* After it.                                                                *)
LEMMA AddShown ==
  ASSUME NEW prefix, NEW style, NEW chunk, chunk.kind \in Skipped,
         NEW y, NEW r, NEW p, NEW a, NEW car, NEW cdr, NEW q, Extends(q, p, Printed(chunk))
  PROVE  AddChunk(prefix, style, Late(y, r, p, a, car, cdr), chunk)
           = Late(y, NewResult(r, chunk), q, a, car, cdr)
BY DEF AddChunk, Typed, Extends, PostComp, Skipped, Early, Refused, Late, NewResult

(* A placeholder, with its range.                                           *)
LEMMA AddField ==
  ASSUME NEW prefix, NEW style, NEW chunk, chunk.kind \in Field,
         NEW y, NEW r, NEW p, NEW a, NEW car, NEW cdr, NEW q, Extends(q, p, Printed(chunk)),
         NEW next, Extends(next, car, Printed(chunk)), NEW places, Extends(places, cdr, <<Size(car), Size(next)>>)
  PROVE  AddChunk(prefix, style, Late(y, r, p, a, car, cdr), chunk)
           = Late(y, r, q, a, next, places)
BY DEF AddChunk, Typed, Extends, PostComp, Skipped, Early, Refused, Late, Field

(* Any other chunk that is inserted.                                        *)
LEMMA AddInserted ==
  ASSUME NEW prefix, NEW style, NEW chunk, chunk.kind \notin Field, chunk.kind \notin Skipped,
         NEW y, NEW r, NEW p, NEW a, NEW car, NEW cdr, NEW q, Extends(q, p, Printed(chunk)),
         NEW next, Extends(next, car, Printed(chunk))
  PROVE  AddChunk(prefix, style, Late(y, r, p, a, car, cdr), chunk)
           = Late(y, r, q, a, next, cdr)
BY DEF AddChunk, Typed, Extends, PostComp, Skipped, Early, Refused, Late, Field

(* The loop over the chunks ends with the last of any states that follow    *)
(* each other as it goes.                                                   *)
Goes(st, chunks, n, prefix, style) ==
  st[0] = Nothing /\ \A i \in 1..n : st[i] = AddChunk(prefix, style, st[i - 1], chunks[i])

(* What is offered of the last state.                                       *)
Offered(completion, st) ==
  IF completion.availability = "not available" \/ ~st.hasPrefix \/ ~st.typedTextSet THEN {} ELSE {st}

(* The last of any states that follow each other is offered.                *)
LEMMA CandidateOf ==
  ASSUME NEW completion, NEW prefix, NEW style, NEW n \in Nat, n = Len(completion.chunks), NEW st,
         Goes(st, completion.chunks, n, prefix, style), NEW u, u = st[n]
  PROVE  Candidate(completion, prefix, style) = Offered(completion, u)
<1> DEFINE chunks == completion.chunks
           step(g, i) == IF i = 0 THEN Nothing ELSE AddChunk(prefix, style, g[i - 1], chunks[i])
           g == [i \in 0..n |-> st[i]]
           after == CHOOSE f : f = [i \in 0..n |-> step(f, i)]
<1>1. st[0] = Nothing /\ \A i \in 1..n : st[i] = AddChunk(prefix, style, st[i - 1], chunks[i])
  BY DEF Goes
<1>2. ASSUME NEW i \in 0..n PROVE g[i] = step(g, i)
  <2>1. CASE i = 0
    BY <1>1, <2>1
  <2>2. CASE i # 0
    <3>1. i \in 1..n /\ i - 1 \in 0..n /\ g[i] = st[i] /\ g[i - 1] = st[i - 1]
      BY <2>2
    <3> HIDE DEF g
    <3> QED
      BY <1>1, <2>2, <3>1
  <2> QED
    BY <2>1, <2>2
<1>3. \E f : f = [i \in 0..n |-> step(f, i)]
  <2>1. g = [i \in 0..n |-> step(g, i)]
    BY <1>2
  <2> QED
    BY <2>1
<1>4. after = [i \in 0..n |-> step(after, i)]
  BY <1>3
<1>5. Candidate(completion, prefix, style) =
        IF completion.availability = "not available" \/ ~after[n].hasPrefix \/ ~after[n].typedTextSet
        THEN {} ELSE {after[n]}
  BY DEF Candidate
<1> HIDE DEF after
<1>6. \A i \in 0..n : after[i] = step(after, i)
  BY <1>4
<1> DEFINE good(i) == after[i] = st[i]
           T == {i \in Nat : i <= n => good(i)}
<1>7. 0 \in T
  BY <1>1, <1>6
<1>8. \A i \in Nat : i \in T => i + 1 \in T
  <2> SUFFICES ASSUME NEW i \in Nat, i \in T, i + 1 <= n PROVE after[i + 1] = st[i + 1]
    OBVIOUS
  <2>1. i + 1 \in 0..n /\ i + 1 \in 1..n /\ i + 1 # 0 /\ (i + 1) - 1 = i /\ i <= n
    OBVIOUS
  <2>2. after[i] = st[i]
    BY <2>1
  <2> QED
    BY <1>1, <1>6, <2>1, <2>2
<1> HIDE DEF T, good
<1>9. n \in T
  BY <1>7, <1>8, SetInduction
<1>10. after[n] = st[n]
  BY <1>9 DEF T, good
<1> QED
  BY <1>5, <1>10 DEF Offered

(* What has been put together after each chunk: the result type, the        *)
(* prototype and, from the typed text at t on, the text to insert with the  *)
(* ranges of its placeholders.                                              *)
IsField(chunks, t, i) == i > t /\ chunks[i].kind \in Field

Kept(chunks, n, t, R, P, C, E) ==
  /\ R[0] = <<>> /\ \A i \in 1..n : R[i] = NewResult(R[i - 1], chunks[i])
  /\ P[0] = <<>> /\ \A i \in 1..n : Extends(P[i], P[i - 1], Printed(chunks[i]))
  /\ \A i \in 0..n : i <= t => C[i] = <<>> /\ E[i] = <<>>
  /\ \A i \in 1..n : i > t =>
       /\ Extends(C[i], C[i - 1], Piece(Inserted, chunks[i]))
       /\ Extends(E[i], E[i - 1], IF chunks[i].kind \in Field THEN <<Size(C[i - 1]), Size(C[i])>> ELSE <<>>)
  /\ \A i \in 0..n : Extends(C[i], C[i], <<>>) /\ Extends(E[i], E[i], <<>>)

(* The typed text is the first of its kind.                                 *)
NoneTyped(chunks, m) == \A i \in 1..m : ~Typed(chunks[i])
IsTyped(chunks, n, t) == t \in 1..n /\ Typed(chunks[t]) /\ NoneTyped(chunks, t - 1)

(* A step of the loop after the typed text.                                 *)
LEMMA AddAfter ==
  ASSUME NEW prefix, NEW style, NEW chunk, NEW y, NEW r, NEW p, NEW a, NEW car, NEW cdr, NEW next, NEW places,
         Extends(car, car, <<>>), Extends(cdr, cdr, <<>>), NEW q, Extends(q, p, Printed(chunk)),
         Extends(next, car, Piece(Inserted, chunk)),
         Extends(places, cdr, IF chunk.kind \in Field THEN <<Size(car), Size(next)>> ELSE <<>>)
  PROVE  AddChunk(prefix, style, Late(y, r, p, a, car, cdr), chunk)
           = Late(y, NewResult(r, chunk), q, a, next, places)
<1>1. CASE chunk.kind \in Skipped
  <2>1. chunk.kind \notin Field
    BY <1>1 DEF Field, Skipped
  <2>2. next = car /\ places = cdr
    BY <1>1, <2>1, PiecesPrinted DEF Extends
  <2>3. AddChunk(prefix, style, Late(y, r, p, a, car, cdr), chunk)
          = Late(y, NewResult(r, chunk), q, a, car, cdr)
    BY <1>1, AddShown
  <2> QED
    BY <2>2, <2>3
<1>2. CASE chunk.kind \notin Skipped
  <2>1. Extends(next, car, Printed(chunk)) /\ NewResult(r, chunk) = r
    BY <1>2, PiecesPrinted DEF NewResult, Skipped
  <2>2. CASE chunk.kind \in Field
    <3>1. Extends(places, cdr, <<Size(car), Size(next)>>)
      BY <2>2
    <3>2. AddChunk(prefix, style, Late(y, r, p, a, car, cdr), chunk)
            = Late(y, r, q, a, next, places)
      BY <2>1, <2>2, <3>1, AddField
    <3> QED
      BY <2>1, <3>2
  <2>3. CASE chunk.kind \notin Field
    <3>1. places = cdr
      BY <2>3 DEF Extends
    <3>2. AddChunk(prefix, style, Late(y, r, p, a, car, cdr), chunk)
            = Late(y, r, q, a, next, cdr)
      BY <1>2, <2>1, <2>3, AddInserted
    <3> QED
      BY <2>1, <3>1, <3>2
  <2> QED
    BY <2>2, <2>3
<1> QED
  BY <1>1, <1>2

(* The loop begins early.                                                   *)
LEMMA NothingIsEarly == Nothing = Early(<<>>, <<>>)
BY DEF Nothing, Early

(* Without a typed text, with one that does not match, and with one that    *)
(* does.                                                                    *)
LEMMA LoopNone ==
  ASSUME NEW chunks, NEW n \in Nat, NEW t, NEW R, NEW P, NEW C, NEW E, Kept(chunks, n, t, R, P, C, E),
         NoneTyped(chunks, n), NEW prefix, NEW style
  PROVE  Goes([i \in 0..n |-> Early(R[i], P[i])], chunks, n, prefix, style)
<1> DEFINE st == [i \in 0..n |-> Early(R[i], P[i])]
<1>1. st[0] = Nothing
  BY NothingIsEarly DEF Kept
<1>2. ASSUME NEW i \in 1..n PROVE st[i] = AddChunk(prefix, style, st[i - 1], chunks[i])
  <2>1. i - 1 \in 0..n /\ i \in 0..n
    OBVIOUS
  <2>2. st[i] = Early(R[i], P[i]) /\ st[i - 1] = Early(R[i - 1], P[i - 1])
    BY <2>1
  <2>3. R[i] = NewResult(R[i - 1], chunks[i]) /\ Extends(P[i], P[i - 1], Printed(chunks[i]))
    BY DEF Kept
  <2>4. ~Typed(chunks[i])
    BY DEF NoneTyped
  <2>5. AddChunk(prefix, style, Early(R[i - 1], P[i - 1]), chunks[i])
          = Early(NewResult(R[i - 1], chunks[i]), P[i])
    BY <2>3, <2>4, AddBefore
  <2> HIDE DEF st
  <2> QED
    BY <2>2, <2>3, <2>5
<1> HIDE DEF st
<1>3. Goes(st, chunks, n, prefix, style)
  BY <1>1, <1>2 DEF Goes
<1> QED
  BY <1>3 DEF st

(* The states when the typed text does not match.                           *)
LEMMA LoopRefused ==
  ASSUME NEW chunks, NEW n \in Nat, NEW t, NEW R, NEW P, NEW C, NEW E, Kept(chunks, n, t, R, P, C, E),
         IsTyped(chunks, n, t), NEW prefix, NEW style, ~Matches(chunks[t].text, prefix, style)
  PROVE  Goes([i \in 0..n |-> IF i < t THEN Early(R[i], P[i]) ELSE Refused(chunks[t].text, R[t], P[t])],
              chunks, n, prefix, style)
<1> DEFINE st == [i \in 0..n |-> IF i < t THEN Early(R[i], P[i]) ELSE Refused(chunks[t].text, R[t], P[t])]
<1>0. t \in 1..n
  BY DEF IsTyped
<1>1. st[0] = Nothing
  <2>1. st[0] = Early(R[0], P[0])
    BY <1>0
  <2> QED
    BY <2>1, NothingIsEarly DEF Kept
<1>2. ASSUME NEW i \in 1..n PROVE st[i] = AddChunk(prefix, style, st[i - 1], chunks[i])
  <2>1. i - 1 \in 0..n /\ i \in 0..n
    OBVIOUS
  <2>3. R[i] = NewResult(R[i - 1], chunks[i]) /\ Extends(P[i], P[i - 1], Printed(chunks[i]))
    BY DEF Kept
  <2>4. CASE i < t
    <3>1. st[i] = Early(R[i], P[i]) /\ st[i - 1] = Early(R[i - 1], P[i - 1])
      BY <1>0, <2>1, <2>4
    <3>2. ~Typed(chunks[i])
      <4>1. i \in 1..(t - 1)
        BY <1>0, <2>4
      <4> QED
        BY <4>1 DEF IsTyped, NoneTyped
    <3>3. AddChunk(prefix, style, Early(R[i - 1], P[i - 1]), chunks[i])
            = Early(NewResult(R[i - 1], chunks[i]), P[i])
      BY <2>3, <3>2, AddBefore
    <3> HIDE DEF st
    <3> QED
      BY <2>3, <3>1, <3>3
  <2>5. CASE i = t
    <3>1. st[i] = Refused(chunks[t].text, R[t], P[t]) /\ st[i - 1] = Early(R[t - 1], P[t - 1])
      BY <1>0, <2>1, <2>5
    <3>2. Typed(chunks[t])
      BY DEF IsTyped
    <3>3. R[t] = R[t - 1]
      BY <2>3, <2>5, <3>2 DEF NewResult, Typed
    <3>4. Extends(P[t], P[t - 1], Printed(chunks[t]))
      BY <2>3, <2>5
    <3>5. AddChunk(prefix, style, Early(R[t - 1], P[t - 1]), chunks[t]) = Refused(chunks[t].text, R[t - 1], P[t])
      BY <3>2, <3>4, AddOther
    <3> HIDE DEF st
    <3> QED
      BY <2>5, <3>1, <3>3, <3>5
  <2>6. CASE i > t
    <3>1. /\ st[i] = Refused(chunks[t].text, R[t], P[t])
          /\ st[i - 1] = Refused(chunks[t].text, R[t], P[t])
      BY <1>0, <2>1, <2>6
    <3> HIDE DEF st
    <3> QED
      BY <3>1, AddRefused
  <2> QED
    BY <1>0, <2>4, <2>5, <2>6
<1> HIDE DEF st
<1>3. Goes(st, chunks, n, prefix, style)
  BY <1>1, <1>2 DEF Goes
<1> QED
  BY <1>3 DEF st

(* The states when it matches.                                              *)
LEMMA LoopMatching ==
  ASSUME NEW chunks, NEW n \in Nat, NEW t, NEW R, NEW P, NEW C, NEW E, Kept(chunks, n, t, R, P, C, E),
         IsTyped(chunks, n, t), NEW prefix, NEW style, Matches(chunks[t].text, prefix, style),
         NEW z, z = Size(P[t])
  PROVE  Goes([i \in 0..n |-> IF i < t THEN Early(R[i], P[i]) ELSE Late(chunks[t].text, R[i], P[i], z, C[i], E[i])],
              chunks, n, prefix, style)
<1> DEFINE y == chunks[t].text
           st == [i \in 0..n |-> IF i < t THEN Early(R[i], P[i]) ELSE Late(y, R[i], P[i], z, C[i], E[i])]
<1>0. t \in 1..n
  BY DEF IsTyped
<1>1. st[0] = Nothing
  <2>1. st[0] = Early(R[0], P[0])
    BY <1>0
  <2> QED
    BY <2>1, NothingIsEarly DEF Kept
<1>2. ASSUME NEW i \in 1..n PROVE st[i] = AddChunk(prefix, style, st[i - 1], chunks[i])
  <2>1. i - 1 \in 0..n /\ i \in 0..n
    OBVIOUS
  <2>3. R[i] = NewResult(R[i - 1], chunks[i]) /\ Extends(P[i], P[i - 1], Printed(chunks[i]))
    BY DEF Kept
  <2>4. CASE i < t
    <3>1. st[i] = Early(R[i], P[i]) /\ st[i - 1] = Early(R[i - 1], P[i - 1])
      BY <1>0, <2>1, <2>4
    <3>2. ~Typed(chunks[i])
      <4>1. i \in 1..(t - 1)
        BY <1>0, <2>4
      <4> QED
        BY <4>1 DEF IsTyped, NoneTyped
    <3>3. AddChunk(prefix, style, Early(R[i - 1], P[i - 1]), chunks[i])
            = Early(NewResult(R[i - 1], chunks[i]), P[i])
      BY <2>3, <3>2, AddBefore
    <3> HIDE DEF st
    <3> QED
      BY <2>3, <3>1, <3>3
  <2>5. CASE i = t
    <3>1. st[i] = Late(y, R[t], P[t], z, C[t], E[t]) /\ st[i - 1] = Early(R[t - 1], P[t - 1])
      BY <1>0, <2>1, <2>5
    <3>2. Typed(chunks[t])
      BY DEF IsTyped
    <3>3. R[t] = R[t - 1] /\ C[t] = <<>> /\ E[t] = <<>>
      <4>1. C[t] = <<>> /\ E[t] = <<>>
        BY <1>0 DEF Kept
      <4> QED
        BY <2>3, <2>5, <3>2, <4>1 DEF NewResult, Typed
    <3>4. Extends(P[t], P[t - 1], Printed(chunks[t]))
      BY <2>3, <2>5
    <3>5. AddChunk(prefix, style, Early(R[t - 1], P[t - 1]), chunks[t])
            = Late(y, R[t - 1], P[t], z, <<>>, <<>>)
      BY <3>2, <3>4, AddMatching
    <3> HIDE DEF st
    <3> QED
      BY <2>5, <3>1, <3>3, <3>5
  <2>6. CASE i > t
    <3>1. /\ st[i] = Late(y, R[i], P[i], z, C[i], E[i])
          /\ st[i - 1] = Late(y, R[i - 1], P[i - 1], z, C[i - 1], E[i - 1])
      BY <1>0, <2>1, <2>6
    <3>2. /\ Extends(C[i - 1], C[i - 1], <<>>) /\ Extends(E[i - 1], E[i - 1], <<>>)
          /\ Extends(C[i], C[i - 1], Piece(Inserted, chunks[i]))
          /\ Extends(E[i], E[i - 1], IF chunks[i].kind \in Field THEN <<Size(C[i - 1]), Size(C[i])>> ELSE <<>>)
      BY <2>1, <2>6 DEF Kept
    <3> HIDE DEF st, y
    <3>3. AddChunk(prefix, style, Late(y, R[i - 1], P[i - 1], z, C[i - 1], E[i - 1]), chunks[i])
            = Late(y, NewResult(R[i - 1], chunks[i]), P[i], z, C[i], E[i])
      BY <2>3, <3>2, AddAfter
    <3> QED
      BY <2>3, <3>1, <3>3
  <2> QED
    BY <1>0, <2>4, <2>5, <2>6
<1> HIDE DEF st
<1>3. Goes(st, chunks, n, prefix, style)
  BY <1>1, <1>2 DEF Goes
<1> QED
  BY <1>3 DEF st

(* The fields so far, and the ranges of their texts.                        *)
Marked(chunks, n, t, U) ==
  U[0] = <<>> /\ \A i \in 1..n : U[i] = IF IsField(chunks, t, i) THEN Append(U[i - 1], i) ELSE U[i - 1]

(* u holds the fields among the first i chunks in order, e where each       *)
(* begins and ends in the text to insert.                                   *)
Ranged(u, e, i, t, chunks, C) ==
  /\ u \in Seq(Nat) /\ e \in Seq(Nat) /\ Len(e) = 2 * Len(u)
  /\ \A k \in 1..Len(u) : /\ u[k] \in (t + 1)..i /\ chunks[u[k]].kind \in Field
                          /\ e[2 * k - 1] = Size(C[u[k] - 1]) /\ e[2 * k] = Size(C[u[k]])
  /\ \A k \in 2..Len(u) : u[k - 1] < u[k]

(* A chunk that is no field changes neither.                                *)
LEMMA RangedLonger ==
  ASSUME NEW u, NEW e, NEW i \in Nat, NEW t \in Nat, NEW chunks, NEW C, Ranged(u, e, i, t, chunks, C)
  PROVE  Ranged(u, e, i + 1, t, chunks, C)
<1>1. \A k \in 1..Len(u) : u[k] \in (t + 1)..(i + 1)
  BY DEF Ranged
<1> QED
  BY <1>1 DEF Ranged

(* A field is added to both.                                                *)
LEMMA RangedField ==
  ASSUME NEW u, NEW e, NEW i \in Nat, NEW t \in Nat, NEW chunks, NEW C, Ranged(u, e, i, t, chunks, C),
         IsField(chunks, t, i + 1), Size(C[i]) \in Nat, Size(C[i + 1]) \in Nat,
         NEW f, Extends(f, e, <<Size(C[i]), Size(C[i + 1])>>)
  PROVE  Ranged(Append(u, i + 1), f, i + 1, t, chunks, C)
<1> DEFINE v == Append(u, i + 1)
           m == Len(u)
           x == Size(C[i])
           z == Size(C[i + 1])
<1>1. u \in Seq(Nat) /\ e \in Seq(Nat) /\ m \in Nat /\ Len(e) = 2 * m
  BY DEF Ranged
<1>2. v \in Seq(Nat) /\ Len(v) = m + 1 /\ v[m + 1] = i + 1 /\ \A k \in 1..m : v[k] = u[k]
  BY <1>1
<1> HIDE DEF x, z
<1>3. /\ f \in Seq(Nat) /\ Len(f) = 2 * m + 2 /\ f[2 * m + 1] = x /\ f[2 * m + 2] = z
      /\ \A k \in 1..(2 * m) : f[k] = e[k]
  <2>1. x \in Nat /\ z \in Nat /\ f = e \o <<x, z>>
    BY DEF x, z, Extends
  <2>2. <<x, z>> \in Seq(Nat) /\ Len(<<x, z>>) = 2 /\ <<x, z>>[1] = x /\ <<x, z>>[2] = z
    BY <2>1
  <2> DEFINE y == <<x, z>>
  <2> HIDE DEF y
  <2>3. y \in Seq(Nat) /\ Len(y) = 2 /\ y[1] = x /\ y[2] = z
    BY <2>2 DEF y
  <2>4. /\ e \o y \in Seq(Nat) /\ Len(e \o y) = Len(e) + Len(y)
        /\ \A k \in 1..(Len(e) + Len(y)) : (e \o y)[k] = IF k <= Len(e) THEN e[k] ELSE y[k - Len(e)]
    BY <1>1, <2>3, ConcatProperties
  <2>5. f = e \o y
    BY <2>1 DEF y
  <2>6. \A k \in 1..(2 * m + 2) : f[k] = IF k <= 2 * m THEN e[k] ELSE y[k - 2 * m]
    BY <1>1, <2>3, <2>4, <2>5
  <2>7. /\ 2 * m + 1 \in 1..(2 * m + 2) /\ ~(2 * m + 1 <= 2 * m) /\ (2 * m + 1) - 2 * m = 1
        /\ 2 * m + 2 \in 1..(2 * m + 2) /\ ~(2 * m + 2 <= 2 * m) /\ (2 * m + 2) - 2 * m = 2
        /\ \A k \in 1..(2 * m) : k \in 1..(2 * m + 2) /\ k <= 2 * m
    BY <1>1
  <2> QED
    BY <1>1, <2>3, <2>4, <2>5, <2>6, <2>7
<1>4. i + 1 > t /\ chunks[i + 1].kind \in Field
  BY DEF IsField
<1> HIDE DEF v, m
<1>5. ASSUME NEW k \in 1..Len(v)
      PROVE  /\ v[k] \in (t + 1)..(i + 1) /\ chunks[v[k]].kind \in Field
             /\ f[2 * k - 1] = Size(C[v[k] - 1]) /\ f[2 * k] = Size(C[v[k]])
  <2>1. CASE k = m + 1
    <3>1. v[k] = i + 1 /\ v[k] - 1 = i /\ 2 * k - 1 = 2 * m + 1 /\ 2 * k = 2 * m + 2
      BY <1>1, <1>2, <2>1
    <3> QED
      BY <1>3, <1>4, <3>1 DEF x, z
  <2>2. CASE k # m + 1
    <3>0. k \in 1..m
      BY <1>1, <1>2, <2>2
    <3>1. k \in 1..m /\ v[k] = u[k] /\ 2 * k - 1 \in 1..(2 * m) /\ 2 * k \in 1..(2 * m)
      <4>1. v[k] = u[k]
        BY <1>2, <3>0
      <4>2. k \in Nat /\ m \in Nat /\ 1 <= k /\ k <= m
        BY <1>1, <3>0
      <4>3. 2 * k - 1 \in 1..(2 * m) /\ 2 * k \in 1..(2 * m)
        BY <4>2
      <4> QED
        BY <3>0, <4>1, <4>3
    <3>2. /\ u[k] \in (t + 1)..i /\ chunks[u[k]].kind \in Field
          /\ e[2 * k - 1] = Size(C[u[k] - 1]) /\ e[2 * k] = Size(C[u[k]])
      BY <3>1 DEF Ranged, m
    <3>3. u[k] \in (t + 1)..(i + 1)
      BY <3>2
    <3> QED
      BY <1>3, <3>1, <3>2, <3>3
  <2> QED
    BY <2>1, <2>2
<1>6. ASSUME NEW k \in 2..Len(v) PROVE v[k - 1] < v[k]
  <2>1. CASE k = m + 1
    <3>1. k - 1 = m /\ m \in 1..m /\ v[k - 1] = u[m] /\ v[k] = i + 1
      BY <1>1, <1>2, <2>1
    <3>2. u[m] \in (t + 1)..i
      BY <3>1 DEF Ranged, m
    <3> QED
      BY <3>1, <3>2
  <2>2. CASE k # m + 1
    <3>1. k \in 2..m /\ k \in 1..m /\ k - 1 \in 1..m
      BY <1>1, <1>2, <2>2
    <3>2. u[k - 1] < u[k]
      BY <3>1 DEF Ranged, m
    <3> QED
      BY <1>2, <3>1, <3>2
  <2> QED
    BY <2>1, <2>2
<1>7. Len(f) = 2 * Len(v)
  BY <1>1, <1>2, <1>3
<1>8. Ranged(v, f, i + 1, t, chunks, C)
  BY <1>2, <1>3, <1>5, <1>6, <1>7 DEF Ranged
<1> QED
  BY <1>8 DEF v

(* So it is after all chunks.                                               *)
LEMMA RangedAll ==
  ASSUME NEW chunks, NEW n \in Nat, NEW t \in Nat, NEW R, NEW P, NEW C, NEW E, Kept(chunks, n, t, R, P, C, E),
         NEW U, Marked(chunks, n, t, U), \A i \in 0..n : Size(C[i]) \in Nat
  PROVE  Ranged(U[n], E[n], n, t, chunks, C)
<1> DEFINE good(i) == Ranged(U[i], E[i], i, t, chunks, C)
           T == {i \in Nat : i <= n => good(i)}
<1>1. good(0)
  <2>1. U[0] = <<>> /\ E[0] = <<>>
    BY DEF Marked, Kept
  <2>2. <<>> \in Seq(Nat) /\ Len(<<>>) = 0 /\ 0 = 2 * 0 /\ (\A k \in 1..0 : FALSE) /\ \A k \in 2..0 : FALSE
    OBVIOUS
  <2>3. Ranged(<<>>, <<>>, 0, t, chunks, C)
    BY <2>2 DEF Ranged
  <2> QED
    BY <2>1, <2>3
<1>2. ASSUME NEW i \in Nat, i + 1 <= n, good(i) PROVE good(i + 1)
  <2>1. i + 1 \in 1..n /\ (i + 1) - 1 = i /\ i \in 0..n /\ i + 1 \in 0..n
    BY <1>2
  <2>2. U[i + 1] = IF IsField(chunks, t, i + 1) THEN Append(U[i], i + 1) ELSE U[i]
    BY <2>1 DEF Marked
  <2>3. E[i] \in Seq(Nat)
    BY <1>2 DEF Ranged
  <2>4. CASE IsField(chunks, t, i + 1)
    <3>1. i + 1 > t /\ chunks[i + 1].kind \in Field
      BY <2>4 DEF IsField
    <3>2. Extends(E[i + 1], E[i], <<Size(C[i]), Size(C[i + 1])>>)
      BY <2>1, <3>1 DEF Kept
    <3>3. Size(C[i]) \in Nat /\ Size(C[i + 1]) \in Nat
      BY <2>1
    <3>4. Ranged(Append(U[i], i + 1), E[i + 1], i + 1, t, chunks, C)
      BY <1>2, <2>4, <3>2, <3>3, RangedField
    <3> QED
      BY <2>2, <2>4, <3>4
  <2>5. CASE ~IsField(chunks, t, i + 1)
    <3>1. E[i + 1] = E[i]
      <4>1. CASE i + 1 <= t
        <5>1. i <= t
          BY <4>1
        <5> QED
          BY <2>1, <4>1, <5>1 DEF Kept
      <4>2. CASE ~(i + 1 <= t)
        <5>1. i + 1 > t /\ chunks[i + 1].kind \notin Field
          BY <2>5, <4>2 DEF IsField
        <5>2. Extends(E[i + 1], E[i], <<>>)
          BY <2>1, <5>1 DEF Kept
        <5>3. E[i] \o <<>> = E[i]
          BY <2>3
        <5> QED
          BY <5>2, <5>3 DEF Extends
      <4> QED
        BY <4>1, <4>2
    <3>2. Ranged(U[i], E[i], i + 1, t, chunks, C)
      BY <1>2, RangedLonger
    <3> QED
      BY <2>2, <2>5, <3>1, <3>2
  <2> QED
    BY <2>4, <2>5
<1> HIDE DEF good
<1>3. 0 \in T /\ \A i \in Nat : i \in T => i + 1 \in T
  <2>1. 0 \in T
    BY <1>1
  <2>2. ASSUME NEW i \in Nat, i \in T PROVE i + 1 \in T
    <3>1. i + 1 <= n => i <= n
      OBVIOUS
    <3>2. i + 1 <= n => good(i + 1)
      BY <1>2, <2>2, <3>1
    <3> QED
      BY <3>2
  <2> QED
    BY <2>1, <2>2
<1> HIDE DEF T
<1>4. n \in T
  BY <1>3, SetInduction
<1>5. good(n)
  BY <1>4 DEF T
<1> QED
  BY <1>5 DEF good

(* Texts and the sizes of texts.                                            *)
Texts(chunks, n, S) == "," \in S /\ " " \in S /\ \A i \in 1..n : chunks[i].text \in Seq(S)

(* A sequence of two.                                                       *)
LEMMA PairIsText ==
  ASSUME NEW S, NEW a \in S, NEW b \in S
  PROVE  <<a, b>> \in Seq(S)
OBVIOUS

(* What a chunk adds is text.                                               *)
LEMMA PrintedIsText ==
  ASSUME NEW S, NEW chunk, "," \in S, " " \in S, chunk.text \in Seq(S)
  PROVE  Printed(chunk) \in Seq(S) /\ Piece(Inserted, chunk) \in Seq(S)
<1>0. <<>> \in Seq(S)
  BY EmptySeq
<1>1. <<",", " ">> \in Seq(S)
  BY PairIsText
<1>2. Printed(chunk) \in Seq(S)
  <2>1. CASE chunk.kind \in TextKind
    <3>1. Printed(chunk) = chunk.text
      BY <2>1 DEF Printed, TextKind
    <3> QED
      BY <3>1
  <2>2. CASE chunk.kind \notin TextKind /\ chunk.kind = "punctuation"
    BY <1>1, <2>2 DEF Printed
  <2>3. CASE chunk.kind \notin TextKind /\ chunk.kind # "punctuation"
    BY <1>0, <2>3 DEF Printed
  <2> QED
    BY <2>1, <2>2, <2>3
<1> QED
  BY <1>0, <1>2 DEF Piece

(* The bytes of a text are its characters when none is wide.                *)
LEMMA SizeIsNat ==
  ASSUME NEW S, NEW x \in Seq(S)
  PROVE  Size(x) \in Nat /\ (S \cap Wide = {} => Size(x) = Len(x))
<1> DEFINE w == {i \in DOMAIN x : x[i] \in Wide}
<1>1. Len(x) \in Nat /\ DOMAIN x = 1..Len(x)
  OBVIOUS
<1>2. Cardinality(w) \in Nat
  <2>1. IsFiniteSet(1..Len(x))
    BY <1>1, FS_Interval
  <2>2. IsFiniteSet(w)
    BY <1>1, <2>1, FS_Subset
  <2> QED
    BY <2>2, FS_CardinalityType
<1>3. S \cap Wide = {} => Cardinality(w) = 0
  <2>1. S \cap Wide = {} => w = {}
    <3>1. \A i \in DOMAIN x : x[i] \in S
      BY <1>1
    <3> QED
      BY <3>1
  <2> QED
    BY <2>1, FS_EmptySet
<1>4. Size(x) = Len(x) + Cardinality(w)
  BY DEF Size
<1> HIDE DEF w
<1> QED
  BY <1>1, <1>2, <1>3, <1>4

(* Joining nothing up to t.                                                 *)
LEMMA JoinsNothing ==
  ASSUME NEW S, NEW n \in Nat, NEW t \in Nat, NEW p, NEW f, Joins(f, p, n, S),
         \A i \in 1..n : i <= t => p[i] = <<>>
  PROVE  \A i \in 0..n : i <= t => f[i] = <<>>
<1> DEFINE good(i) == i <= n /\ i <= t => f[i] = <<>>
           T == {i \in Nat : good(i)}
<1>1. 0 \in T
  BY DEF Joins
<1>2. ASSUME NEW i \in Nat, i \in T PROVE i + 1 \in T
  <2> SUFFICES ASSUME i + 1 <= n, i + 1 <= t PROVE f[i + 1] = <<>>
    OBVIOUS
  <2>1. i + 1 \in 1..n /\ (i + 1) - 1 = i /\ i <= n /\ i <= t
    OBVIOUS
  <2>2. f[i] = <<>> /\ p[i + 1] = <<>>
    BY <1>2, <2>1
  <2>3. f[i + 1] = f[i] \o p[i + 1]
    BY <2>1 DEF Joins
  <2> QED
    BY <2>2, <2>3
<1>3. \A i \in Nat : i \in T => i + 1 \in T
  BY <1>2
<1> HIDE DEF T, good
<1>4. Nat \subseteq T
  BY <1>1, <1>3, SetInduction
<1>5. \A i \in Nat : good(i)
  BY <1>4 DEF T
<1> QED
  BY <1>5 DEF good

(* The pieces of the prototype and those of the text to insert.             *)
ShownPieces(chunks, n) == [i \in 1..n |-> Printed(chunks[i])]
InsertedPieces(chunks, n, t) == [i \in 1..n |-> IF i > t THEN Piece(Inserted, chunks[i]) ELSE <<>>]

(* The texts that are put together, and their fields.                       *)
LEMMA ResultsKept ==
  ASSUME NEW S, NEW chunks, NEW n \in Nat, Texts(chunks, n, S)
  PROVE  \E R : R[0] = <<>> /\ \A i \in 1..n : R[i] = NewResult(R[i - 1], chunks[i])
<1> DEFINE strings == Seq(S)
           none == <<>>
           F == [i \in 1..n |-> [x \in strings |-> NewResult(x, chunks[i])]]
<1>1. F \in [1..n -> [strings -> strings]] /\ none \in strings
  <2>1. ASSUME NEW i \in 1..n, NEW x \in strings PROVE NewResult(x, chunks[i]) \in strings
    BY DEF NewResult, Texts
  <2> QED
    BY <2>1
<1> HIDE DEF F, strings, none
<1>2. PICK R \in [0..n -> strings] : R[0] = none /\ \A i \in 1..n : R[i] = F[i][R[i - 1]]
  BY <1>1, RecursionSolved
<1>3. ASSUME NEW i \in 1..n PROVE R[i] = NewResult(R[i - 1], chunks[i])
  <2>1. i - 1 \in 0..n /\ R[i - 1] \in strings
    OBVIOUS
  <2>2. F[i][R[i - 1]] = NewResult(R[i - 1], chunks[i])
    BY <2>1 DEF F
  <2> QED
    BY <1>2, <2>2
<1> QED
  BY <1>2, <1>3 DEF none

(* The texts with the pieces they are joined from.                          *)
Together(chunks, n, t, R, P, C, E, S) ==
  /\ Kept(chunks, n, t, R, P, C, E)
  /\ Strings(ShownPieces(chunks, n), n, S) /\ Joins(P, ShownPieces(chunks, n), n, S)
  /\ Strings(InsertedPieces(chunks, n, t), n, S) /\ Joins(C, InsertedPieces(chunks, n, t), n, S)

(* There are such texts.                                                    *)
LEMMA PutTogether ==
  ASSUME NEW S, NEW chunks, NEW n \in Nat, NEW t \in Nat, Texts(chunks, n, S)
  PROVE  \E R, P, C, E : Together(chunks, n, t, R, P, C, E, S)
<1> DEFINE p == ShownPieces(chunks, n)
           c == InsertedPieces(chunks, n, t)
<1>1. \A i \in 1..n : Printed(chunks[i]) \in Seq(S) /\ Piece(Inserted, chunks[i]) \in Seq(S)
  BY PrintedIsText DEF Texts
<1>2. \A i \in 1..n : /\ p[i] = Printed(chunks[i])
                      /\ i > t => c[i] = Piece(Inserted, chunks[i])
                      /\ i <= t => c[i] = <<>>
  BY DEF ShownPieces, InsertedPieces
<1> HIDE DEF p, c
<1>3. Strings(p, n, S) /\ Strings(c, n, S)
  <2>1. <<>> \in Seq(S)
    OBVIOUS
  <2>2. \A i \in 1..n : i > t \/ i <= t
    OBVIOUS
  <2> QED
    BY <1>1, <1>2, <2>1, <2>2 DEF Strings
<1>4. PICK P : Joins(P, p, n, S)
  BY <1>3, Joined DEF Strings
<1>5. PICK C : Joins(C, c, n, S)
  BY <1>3, Joined DEF Strings
<1>6. PICK R : R[0] = <<>> /\ \A i \in 1..n : R[i] = NewResult(R[i - 1], chunks[i])
  BY ResultsKept
<1> DEFINE range(i) == IF chunks[i].kind \in Field THEN <<Size(C[i - 1]), Size(C[i])>> ELSE <<>>
           e == [i \in 1..n |-> IF i > t THEN range(i) ELSE <<>>]
<1>7. \A i \in 0..n : C[i] \in Seq(S) /\ Size(C[i]) \in Nat
  BY <1>5, SizeIsNat DEF Joins
<1>8. ASSUME NEW i \in 1..n
      PROVE  /\ i > t => e[i] = range(i)
             /\ i <= t => e[i] = <<>>
             /\ e[i] \in Seq(Nat)
  <2>1. i - 1 \in 0..n /\ i \in 0..n
    OBVIOUS
  <2>2. Size(C[i - 1]) \in Nat /\ Size(C[i]) \in Nat
    BY <1>7, <2>1
  <2>3. range(i) \in Seq(Nat) /\ <<>> \in Seq(Nat)
    BY <2>2
  <2> HIDE DEF range
  <2> QED
    BY <2>3
<1> HIDE DEF e
<1>9. PICK E : Joins(E, e, n, Nat)
  BY <1>8, Joined
<1>10. \A i \in 0..n : i <= t => C[i] = <<>> /\ E[i] = <<>>
  <2> HIDE DEF range
  <2>0. \A i \in 1..n : i <= t => c[i] = <<>>
    BY <1>2
  <2>1. \A i \in 0..n : i <= t => C[i] = <<>>
    BY <1>5, <2>0, JoinsNothing
  <2>2. \A i \in 0..n : i <= t => E[i] = <<>>
    BY <1>8, <1>9, JoinsNothing
  <2> QED
    BY <2>1, <2>2
<1>11. P[0] = <<>> /\ \A i \in 1..n : Extends(P[i], P[i - 1], Printed(chunks[i]))
  BY <1>2, <1>4 DEF Joins, Extends
<1>12. ASSUME NEW i \in 1..n, i > t
       PROVE  /\ Extends(C[i], C[i - 1], Piece(Inserted, chunks[i]))
              /\ Extends(E[i], E[i - 1], range(i))
  <2>1. C[i] = C[i - 1] \o c[i] /\ E[i] = E[i - 1] \o e[i]
    BY <1>5, <1>9 DEF Joins
  <2>2. c[i] = Piece(Inserted, chunks[i]) /\ e[i] = range(i)
    BY <1>2, <1>8, <1>12
  <2> HIDE DEF range
  <2> QED
    BY <2>1, <2>2 DEF Extends
<1>13. \A i \in 0..n : Extends(C[i], C[i], <<>>) /\ Extends(E[i], E[i], <<>>)
  <2> TAKE i \in 0..n
  <2>1. C[i] \in Seq(S) /\ E[i] \in Seq(Nat)
    BY <1>5, <1>9 DEF Joins
  <2> QED
    BY <2>1 DEF Extends
<1>14. Kept(chunks, n, t, R, P, C, E)
  BY <1>6, <1>10, <1>11, <1>12, <1>13 DEF Kept
<1>15. Together(chunks, n, t, R, P, C, E, S)
  BY <1>3, <1>4, <1>5, <1>14 DEF Together, p, c
<1> QED
  BY <1>15

(* What Emacs cuts out, when every character is one byte.                   *)
LEMMA AnnotationCut ==
  ASSUME NEW S, S \cap Wide = {}, NEW chunks, NEW n \in Nat, NEW t \in 0..n, NEW R, NEW P, NEW C, NEW E,
         Together(chunks, n, t, R, P, C, E, S)
  PROVE  Substring(P[n], Size(P[t]), Len(P[n])) = Between(ShownPieces(chunks, n), t, n)
<1> DEFINE p == ShownPieces(chunks, n)
<1>1. Strings(p, n, S) /\ Joins(P, p, n, S)
  BY DEF Together
<1>2. P[t] \in Seq(S)
  BY <1>1 DEF Joins
<1>3. Size(P[t]) = Len(P[t])
  BY <1>2, SizeIsNat
<1> HIDE DEF p
<1>4. n \in 0..n /\ t <= n
  OBVIOUS
<1>5. Substring(P[n], Len(P[t]), Len(P[n])) = Between(p, t, n)
  BY <1>1, <1>4, SubstringBetween
<1> QED
  BY <1>3, <1>5 DEF p

(* One piece.                                                               *)
LEMMA FlattenOne ==
  ASSUME NEW S, NEW x \in Seq(S), NEW q, Len(q) = 1, q[1] = x
  PROVE  FlattenSeq(q) = x
<1> DEFINE f == [i \in 0..1 |-> IF i = 0 THEN <<>> ELSE x]
<1>1. f[0] = <<>> /\ f[1] = x /\ <<>> \in Seq(S) /\ <<>> \o x = x
  BY EmptySeq
<1> HIDE DEF f
<1>2. \A i \in 0..1 : i = 0 \/ i = 1
  OBVIOUS
<1>3. \A i \in 1..1 : i = 1 /\ i - 1 = 0
  OBVIOUS
<1>4. Joins(f, q, 1, S)
  BY <1>1, <1>2, <1>3 DEF Joins
<1>5. Strings(q, 1, S)
  BY <1>3 DEF Strings
<1>6. FlattenSeq(q) = f[1]
  <2> DEFINE n == 1
  <2>1. n \in Nat /\ Len(q) = n /\ n # 0 /\ Joins(f, q, n, S) /\ Strings(q, n, S)
    BY <1>4, <1>5
  <2> HIDE DEF n
  <2>2. FlattenSeq(q) = f[n]
    BY <2>1, FlattenIsJoin
  <2> QED
    BY <2>2 DEF n
<1> QED
  BY <1>1, <1>6

(* Between the ends of a field is its text.                                 *)
LEMMA FieldCut ==
  ASSUME NEW S, NEW chunks, NEW n \in Nat, Texts(chunks, n, S), NEW t \in Nat, NEW i \in 1..n, i > t,
         chunks[i].kind \in Field
  PROVE  Between(InsertedPieces(chunks, n, t), i - 1, i) = chunks[i].text
<1> DEFINE c == InsertedPieces(chunks, n, t)
           q == [k \in 1..(i - (i - 1)) |-> c[(i - 1) + k]]
           x == chunks[i].text
<1>1. i - (i - 1) = 1 /\ (i - 1) + 1 = i
  OBVIOUS
<1>2. c[i] = x
  <2>1. c[i] = Piece(Inserted, chunks[i])
    BY DEF InsertedPieces
  <2> QED
    BY <2>1, PiecesPrinted
<1> HIDE DEF c
<1>3. Len(q) = 1 /\ q[1] = x
  BY <1>1, <1>2
<1>4. x \in Seq(S)
  BY DEF Texts
<1>5. Between(c, i - 1, i) = FlattenSeq(q)
  BY DEF Between
<1> HIDE DEF q, x
<1>6. FlattenSeq(q) = x
  BY <1>3, <1>4, FlattenOne
<1> QED
  BY <1>5, <1>6 DEF c, x

(* Where the literal text before field k begins.                            *)
LiteralFrom(u, t, k) == IF k = 1 THEN t ELSE u[k - 1]

(* The snippet in terms of the pieces.                                      *)
SnippetOf(chunks, n, t, u) ==
  LET c == InsertedPieces(chunks, n, t)
  IN  [literals |-> [k \in 1..Len(u) |-> Between(c, LiteralFrom(u, t, k), u[k] - 1)],
       fields |-> [k \in 1..Len(u) |-> chunks[u[k]].text],
       rest |-> Between(c, LiteralFrom(u, t, Len(u) + 1), n)]

(* Emacs cuts out just that.                                                *)
LEMMA SnippetCut ==
  ASSUME NEW S, S \cap Wide = {}, NEW chunks, NEW n \in Nat, NEW t \in 0..n, NEW R, NEW P, NEW C, NEW E,
         Together(chunks, n, t, R, P, C, E, S), Texts(chunks, n, S),
         NEW u, Ranged(u, E[n], n, t, chunks, C), NEW candidate, candidate.car = C[n], candidate.cdr = E[n]
  PROVE  Snippet(candidate) = SnippetOf(chunks, n, t, u)
<1> DEFINE c == InsertedPieces(chunks, n, t)
           e == E[n]
           m == Len(u)
           car == C[n]
           from(k) == IF k = 1 THEN 0 ELSE e[2 * k - 2]
           h == Len(e) \div 2
<1>1. Strings(c, n, S) /\ Joins(C, c, n, S)
  BY DEF Together
<1>2. \A i \in 0..n : Size(C[i]) = Len(C[i])
  BY <1>1, SizeIsNat DEF Joins
<1>3. u \in Seq(Nat) /\ m \in Nat /\ Len(e) = 2 * m
  BY DEF Ranged
<1>4. h = m
  BY <1>3
<1>5. \A k \in 1..m : /\ u[k] \in (t + 1)..n /\ chunks[u[k]].kind \in Field
                      /\ e[2 * k - 1] = Size(C[u[k] - 1]) /\ e[2 * k] = Size(C[u[k]])
  BY DEF Ranged
<1>6. \A k \in 2..m : u[k - 1] < u[k]
  BY DEF Ranged
<1>7. Snippet(candidate) =
        [literals |-> [k \in 1..h |-> Substring(car, from(k), e[2 * k - 1])],
         fields |-> [k \in 1..h |-> Substring(car, e[2 * k - 1], e[2 * k])],
         rest |-> Substring(car, from(h + 1), Len(car))]
  BY DEF Snippet
<1>8. C[t] = <<>>
  BY DEF Together, Kept
<1> HIDE DEF c, e, m, h
<1>9. ASSUME NEW k \in 1..(m + 1)
      PROVE  LiteralFrom(u, t, k) \in t..n /\ from(k) = Len(C[LiteralFrom(u, t, k)])
  <2>1. CASE k = 1
    BY <1>8, <2>1 DEF LiteralFrom
  <2>2. CASE k # 1
    <3>1. k - 1 \in 1..m /\ 2 * k - 2 = 2 * (k - 1)
      BY <1>3, <2>2
    <3>2. u[k - 1] \in (t + 1)..n /\ e[2 * (k - 1)] = Size(C[u[k - 1]])
      BY <1>5, <3>1
    <3>3. LiteralFrom(u, t, k) = u[k - 1] /\ from(k) = e[2 * (k - 1)]
      BY <2>2, <3>1 DEF LiteralFrom
    <3>4. u[k - 1] \in 0..n /\ u[k - 1] \in t..n
      BY <3>2
    <3> HIDE DEF from
    <3> QED
      BY <1>2, <3>2, <3>3, <3>4
  <2> QED
    BY <2>1, <2>2
<1> HIDE DEF from
<1>10. ASSUME NEW k \in 1..m
       PROVE  /\ Substring(car, from(k), e[2 * k - 1]) = Between(c, LiteralFrom(u, t, k), u[k] - 1)
              /\ Substring(car, e[2 * k - 1], e[2 * k]) = chunks[u[k]].text
  <2> DEFINE a == LiteralFrom(u, t, k)
             b == u[k]
  <2>1. k \in 1..(m + 1)
    BY <1>3
  <2>2. a \in t..n /\ from(k) = Len(C[a])
    BY <1>9, <2>1
  <2>3. b \in (t + 1)..n /\ chunks[b].kind \in Field /\ e[2 * k - 1] = Size(C[b - 1]) /\ e[2 * k] = Size(C[b])
    BY <1>5
  <2>4. a <= b - 1
    <3>1. CASE k = 1
      BY <2>3, <3>1 DEF LiteralFrom
    <3>2. CASE k # 1
      <4>1. k \in 2..m /\ k - 1 \in 1..m
        BY <1>3, <3>2
      <4>2. u[k - 1] < u[k] /\ u[k - 1] \in (t + 1)..n
        BY <1>5, <1>6, <4>1
      <4>3. a = u[k - 1]
        BY <3>2 DEF LiteralFrom
      <4> HIDE DEF a
      <4> QED
        BY <2>3, <4>2, <4>3
    <3> QED
      BY <3>1, <3>2
  <2> HIDE DEF a, b
  <2>5. a \in 0..n /\ b - 1 \in 0..n /\ b \in 0..n /\ b \in 1..n /\ b > t /\ b - 1 <= b
    BY <2>2, <2>3
  <2>6. e[2 * k - 1] = Len(C[b - 1]) /\ e[2 * k] = Len(C[b])
    BY <1>2, <2>3, <2>5
  <2>7. Substring(C[n], Len(C[a]), Len(C[b - 1])) = Between(c, a, b - 1)
    BY <1>1, <2>4, <2>5, SubstringBetween
  <2>8. Substring(C[n], Len(C[b - 1]), Len(C[b])) = Between(c, b - 1, b)
    BY <1>1, <2>5, SubstringBetween
  <2>9. Between(c, b - 1, b) = chunks[b].text
    BY <2>3, <2>5, FieldCut DEF c
  <2> QED
    BY <2>2, <2>6, <2>7, <2>8, <2>9 DEF a, b
<1>11. Substring(car, from(m + 1), Len(car)) = Between(c, LiteralFrom(u, t, m + 1), n)
  <2> DEFINE a == LiteralFrom(u, t, m + 1)
  <2>1. m + 1 \in 1..(m + 1)
    BY <1>3
  <2>2. a \in t..n /\ from(m + 1) = Len(C[a])
    BY <1>9, <2>1
  <2> HIDE DEF a
  <2>3. a \in 0..n /\ n \in 0..n /\ a <= n
    BY <2>2
  <2>4. Substring(C[n], Len(C[a]), Len(C[n])) = Between(c, a, n)
    BY <1>1, <2>3, SubstringBetween
  <2> QED
    BY <2>2, <2>4 DEF a
<1>12. /\ [k \in 1..m |-> Substring(car, from(k), e[2 * k - 1])]
            = [k \in 1..m |-> Between(c, LiteralFrom(u, t, k), u[k] - 1)]
       /\ [k \in 1..m |-> Substring(car, e[2 * k - 1], e[2 * k])] = [k \in 1..m |-> chunks[u[k]].text]
  BY <1>10
<1> HIDE DEF car
<1>13. SnippetOf(chunks, n, t, u) =
         [literals |-> [k \in 1..m |-> Between(c, LiteralFrom(u, t, k), u[k] - 1)],
          fields |-> [k \in 1..m |-> chunks[u[k]].text],
          rest |-> Between(c, LiteralFrom(u, t, m + 1), n)]
  BY DEF SnippetOf, c, m
<1> QED
  BY <1>4, <1>7, <1>11, <1>12, <1>13

(* The same texts as Faithful says them.                                    *)
TextOf(chunks, kinds, i, j) ==
  FlattenSeq([k \in 1..(j - i + 1) |->
    IF chunks[i + k - 1].kind \in kinds THEN Printed(chunks[i + k - 1]) ELSE <<>>])

(* The text of the annotation.                                              *)
LEMMA TextIsShown ==
  ASSUME NEW chunks, NEW n \in Nat, NEW t \in 0..n
  PROVE  TextOf(chunks, TextKind \cup {"punctuation"}, t + 1, n) = Between(ShownPieces(chunks, n), t, n)
<1> DEFINE p == ShownPieces(chunks, n)
           x(k) == IF chunks[(t + 1) + k - 1].kind \in TextKind \cup {"punctuation"}
                   THEN Printed(chunks[(t + 1) + k - 1]) ELSE <<>>
<1>1. n - (t + 1) + 1 = n - t
  OBVIOUS
<1>2. ASSUME NEW k \in 1..(n - t) PROVE x(k) = p[t + k]
  <2>1. (t + 1) + k - 1 = t + k /\ t + k \in 1..n
    OBVIOUS
  <2>2. p[t + k] = Printed(chunks[t + k])
    BY <2>1 DEF ShownPieces
  <2>3. Printed(chunks[t + k]) = Piece(Shown, chunks[t + k])
    BY PiecesPrinted
  <2> QED
    BY <2>1, <2>2, <2>3 DEF Piece, Shown
<1> HIDE DEF x, p
<1>3. [k \in 1..(n - t) |-> x(k)] = [k \in 1..(n - t) |-> p[t + k]]
  BY <1>2
<1>4. TextOf(chunks, TextKind \cup {"punctuation"}, t + 1, n) = FlattenSeq([k \in 1..(n - (t + 1) + 1) |-> x(k)])
  BY DEF TextOf, x
<1> QED
  BY <1>1, <1>3, <1>4 DEF Between, p

(* The texts of the snippet.                                                *)
LEMMA TextIsInserted ==
  ASSUME NEW chunks, NEW n \in Nat, NEW t \in 0..n, NEW a \in t..n, NEW b \in t..n
  PROVE  TextOf(chunks, (TextKind \cup {"punctuation"}) \ {"informative"}, a + 1, b)
           = Between(InsertedPieces(chunks, n, t), a, b)
<1> DEFINE p == InsertedPieces(chunks, n, t)
           x(k) == IF chunks[(a + 1) + k - 1].kind \in (TextKind \cup {"punctuation"}) \ {"informative"}
                   THEN Printed(chunks[(a + 1) + k - 1]) ELSE <<>>
<1>1. b - (a + 1) + 1 = b - a
  OBVIOUS
<1>2. ASSUME NEW k \in 1..(b - a) PROVE x(k) = p[a + k]
  <2>1. (a + 1) + k - 1 = a + k /\ a + k \in 1..n /\ a + k > t
    OBVIOUS
  <2>2. p[a + k] = Piece(Inserted, chunks[a + k])
    BY <2>1 DEF InsertedPieces
  <2> QED
    BY <2>1, <2>2 DEF Piece, Shown, Inserted
<1> HIDE DEF x, p
<1>3. [k \in 1..(b - a) |-> x(k)] = [k \in 1..(b - a) |-> p[a + k]]
  BY <1>2
<1>4. TextOf(chunks, (TextKind \cup {"punctuation"}) \ {"informative"}, a + 1, b)
        = FlattenSeq([k \in 1..(b - (a + 1) + 1) |-> x(k)])
  BY DEF TextOf, x
<1> QED
  BY <1>1, <1>3, <1>4 DEF Between, p

(* Either no text is typed or one is the first.                             *)
LEMMA FirstTyped ==
  ASSUME NEW chunks, NEW n \in Nat, ~NoneTyped(chunks, n)
  PROVE  \E t \in 1..n : IsTyped(chunks, n, t)
<1> SUFFICES ASSUME \A t \in 1..n : ~IsTyped(chunks, n, t) PROVE FALSE
  OBVIOUS
<1> DEFINE good(i) == i <= n => NoneTyped(chunks, i)
           T == {i \in Nat : good(i)}
<1>1. 0 \in T
  BY DEF NoneTyped
<1>2. \A i \in Nat : i \in T => i + 1 \in T
  <2> SUFFICES ASSUME NEW i \in Nat, good(i), i + 1 <= n PROVE NoneTyped(chunks, i + 1)
    OBVIOUS
  <2>1. i <= n /\ i + 1 \in 1..n /\ (i + 1) - 1 = i
    OBVIOUS
  <2>2. NoneTyped(chunks, i)
    BY <2>1
  <2>3. ~Typed(chunks[i + 1])
    BY <2>1, <2>2 DEF IsTyped
  <2>4. \A j \in 1..(i + 1) : j \in 1..i \/ j = i + 1
    OBVIOUS
  <2> QED
    BY <2>2, <2>3, <2>4 DEF NoneTyped
<1> HIDE DEF T, good
<1>3. n \in T
  BY <1>1, <1>2, SetInduction
<1> QED
  BY <1>3 DEF T, good

(* What Faithful marks.                                                     *)
LEMMA MarksMade ==
  ASSUME NEW chunks, NEW n \in Nat, NEW t,
         NEW U, U = CHOOSE f : f = [i \in 0..n |-> IF i = 0 THEN <<>>
                                                  ELSE IF IsField(chunks, t, i) THEN Append(f[i - 1], i)
                                                  ELSE f[i - 1]]
  PROVE  Marked(chunks, n, t, U)
<1> DEFINE step(f, i) == IF i = 0 THEN <<>> ELSE IF IsField(chunks, t, i) THEN Append(f[i - 1], i) ELSE f[i - 1]
           places == Seq(Nat)
           none == <<>>
           F == [i \in 1..n |-> [x \in places |-> IF IsField(chunks, t, i) THEN Append(x, i) ELSE x]]
<1>1. F \in [1..n -> [places -> places]] /\ none \in places
  OBVIOUS
<1>2. \A i \in 1..n : \A x \in places : F[i][x] = IF IsField(chunks, t, i) THEN Append(x, i) ELSE x
  OBVIOUS
<1> HIDE DEF F, places, none
<1>3. PICK g \in [0..n -> places] : g[0] = none /\ \A i \in 1..n : g[i] = F[i][g[i - 1]]
  BY <1>1, RecursionSolved
<1>4. ASSUME NEW i \in 0..n PROVE g[i] = step(g, i)
  <2>1. CASE i = 0
    BY <1>3, <2>1 DEF none
  <2>2. CASE i # 0
    <3>1. i \in 1..n /\ i - 1 \in 0..n /\ g[i - 1] \in places
      BY <2>2
    <3> QED
      BY <1>2, <1>3, <2>2, <3>1
  <2> QED
    BY <2>1, <2>2
<1>5. g = [i \in 0..n |-> step(g, i)]
  <2> HIDE DEF step
  <2> QED
    BY <1>4
<1>6. U = [i \in 0..n |-> step(U, i)]
  BY <1>5
<1>7. \A i \in 0..n : U[i] = step(U, i)
  <2> HIDE DEF step
  <2> QED
    BY <1>6
<1>8. U[0] = <<>>
  BY <1>7
<1>9. ASSUME NEW i \in 1..n PROVE U[i] = IF IsField(chunks, t, i) THEN Append(U[i - 1], i) ELSE U[i - 1]
  <2>1. i \in 0..n /\ i # 0
    OBVIOUS
  <2> QED
    BY <1>7, <2>1
<1> QED
  BY <1>8, <1>9 DEF Marked

(* The candidate of a completion string.                                    *)
LEMMA CandidateNone ==
  ASSUME NEW completion, NEW n \in Nat, n = Len(completion.chunks), NEW R, NEW P, NEW C, NEW E, NEW t,
         Kept(completion.chunks, n, t, R, P, C, E), NoneTyped(completion.chunks, n), NEW prefix, NEW style
  PROVE  Candidate(completion, prefix, style) = {}
<1> DEFINE st == [i \in 0..n |-> Early(R[i], P[i])]
<1>1. Goes(st, completion.chunks, n, prefix, style)
  BY LoopNone
<1>2. st[n] = Early(R[n], P[n])
  OBVIOUS
<1>3. Offered(completion, Early(R[n], P[n])) = {}
  BY DEF Early, Offered
<1> HIDE DEF st
<1> QED
  BY <1>1, <1>2, <1>3, CandidateOf

(* None when the typed text does not match.                                 *)
LEMMA CandidateRefused ==
  ASSUME NEW completion, NEW n \in Nat, n = Len(completion.chunks), NEW R, NEW P, NEW C, NEW E, NEW t,
         Kept(completion.chunks, n, t, R, P, C, E), IsTyped(completion.chunks, n, t), NEW prefix, NEW style,
         ~Matches(completion.chunks[t].text, prefix, style)
  PROVE  Candidate(completion, prefix, style) = {}
<1> DEFINE y == completion.chunks[t].text
           st == [i \in 0..n |-> IF i < t THEN Early(R[i], P[i]) ELSE Refused(y, R[t], P[t])]
<1>1. Goes(st, completion.chunks, n, prefix, style)
  BY LoopRefused
<1>2. st[n] = Refused(y, R[t], P[t])
  BY DEF IsTyped
<1> HIDE DEF y
<1>3. Offered(completion, Refused(y, R[t], P[t])) = {}
  BY DEF Refused, Offered
<1> HIDE DEF st
<1> QED
  BY <1>1, <1>2, <1>3, CandidateOf

(* When it matches, what the loop ended with is offered.                    *)
Makes(completion, prefix, style, u) == Candidate(completion, prefix, style) = Offered(completion, u)
LateAt(u, y, n, t, R, P, C, E) == u = Late(y, R[n], P[n], Size(P[t]), C[n], E[n])

(* That is what happens.                                                    *)
LEMMA CandidateMatching ==
  ASSUME NEW completion, NEW n \in Nat, n = Len(completion.chunks), NEW R, NEW P, NEW C, NEW E, NEW t,
         Kept(completion.chunks, n, t, R, P, C, E), IsTyped(completion.chunks, n, t), NEW prefix, NEW style,
         Matches(completion.chunks[t].text, prefix, style),
         NEW u, LateAt(u, completion.chunks[t].text, n, t, R, P, C, E)
  PROVE  Makes(completion, prefix, style, u)
<1> DEFINE y == completion.chunks[t].text
           z == Size(P[t])
           st == [i \in 0..n |-> IF i < t THEN Early(R[i], P[i]) ELSE Late(y, R[i], P[i], z, C[i], E[i])]
<1>1. Goes(st, completion.chunks, n, prefix, style)
  BY LoopMatching
<1>2. st[n] = u
  BY DEF IsTyped, LateAt
<1> HIDE DEF st
<1>3. Candidate(completion, prefix, style) = Offered(completion, u)
  BY <1>1, <1>2, CandidateOf
<1> QED
  BY <1>3 DEF Makes

(* What Faithful asks of the candidate when each character is one byte.     *)
SnippetAsked(chunks, n, t, u) ==
  LET inserted == (TextKind \cup {"punctuation"}) \ {"informative"}
      before(k) == (IF k = 1 THEN t ELSE u[k - 1]) + 1
  IN  [literals |-> [k \in 1..Len(u) |-> TextOf(chunks, inserted, before(k), u[k] - 1)],
       fields |-> [k \in 1..Len(u) |-> chunks[u[k]].text],
       rest |-> TextOf(chunks, inserted, before(Len(u) + 1), n)]

(* The snippet in terms of the pieces is the one asked for.                 *)
LEMMA SnippetIsAsked ==
  ASSUME NEW chunks, NEW n \in Nat, NEW t \in 0..n, NEW e, NEW C, NEW u, Ranged(u, e, n, t, chunks, C)
  PROVE  SnippetAsked(chunks, n, t, u) = SnippetOf(chunks, n, t, u)
<1> DEFINE c == InsertedPieces(chunks, n, t)
           m == Len(u)
           inserted == (TextKind \cup {"punctuation"}) \ {"informative"}
           before(k) == (IF k = 1 THEN t ELSE u[k - 1]) + 1
<1>1. u \in Seq(Nat) /\ m \in Nat
  BY DEF Ranged
<1>2. \A k \in 1..m : u[k] \in (t + 1)..n
  BY DEF Ranged
<1>3. \A k \in 2..m : u[k - 1] < u[k]
  BY DEF Ranged
<1> HIDE DEF m
<1>4. ASSUME NEW k \in 1..(m + 1)
      PROVE  before(k) = LiteralFrom(u, t, k) + 1 /\ LiteralFrom(u, t, k) \in t..n
  <2>1. CASE k = 1
    BY <2>1 DEF LiteralFrom
  <2>2. CASE k # 1
    <3>1. k - 1 \in 1..m
      BY <1>1, <2>2
    <3>2. u[k - 1] \in (t + 1)..n
      BY <1>2, <3>1
    <3> QED
      BY <2>2, <3>2 DEF LiteralFrom
  <2> QED
    BY <2>1, <2>2
<1> HIDE DEF before, c, inserted
<1>5. ASSUME NEW k \in 1..m
      PROVE  TextOf(chunks, inserted, before(k), u[k] - 1) = Between(c, LiteralFrom(u, t, k), u[k] - 1)
  <2> DEFINE a == LiteralFrom(u, t, k)
             b == u[k] - 1
  <2>1. k \in 1..(m + 1)
    BY <1>1
  <2>2. before(k) = a + 1 /\ a \in t..n
    BY <1>4, <2>1
  <2>3. b \in t..n
    BY <1>2
  <2> HIDE DEF a, b
  <2>4. TextOf(chunks, inserted, a + 1, b) = Between(c, a, b)
    BY <2>2, <2>3, TextIsInserted DEF inserted, c
  <2> QED
    BY <2>2, <2>4 DEF a, b
<1>6. TextOf(chunks, inserted, before(m + 1), n) = Between(c, LiteralFrom(u, t, m + 1), n)
  <2> DEFINE a == LiteralFrom(u, t, m + 1)
  <2>1. m + 1 \in 1..(m + 1)
    BY <1>1
  <2>2. before(m + 1) = a + 1 /\ a \in t..n /\ n \in t..n
    BY <1>4, <2>1
  <2> HIDE DEF a
  <2>3. TextOf(chunks, inserted, a + 1, n) = Between(c, a, n)
    BY <2>2, TextIsInserted DEF inserted, c
  <2> QED
    BY <2>2, <2>3 DEF a
<1>7. [k \in 1..m |-> TextOf(chunks, inserted, before(k), u[k] - 1)]
        = [k \in 1..m |-> Between(c, LiteralFrom(u, t, k), u[k] - 1)]
  BY <1>5
<1>8. SnippetAsked(chunks, n, t, u) =
        [literals |-> [k \in 1..m |-> TextOf(chunks, inserted, before(k), u[k] - 1)],
         fields |-> [k \in 1..m |-> chunks[u[k]].text],
         rest |-> TextOf(chunks, inserted, before(m + 1), n)]
  BY DEF SnippetAsked, before, inserted, m
<1>9. SnippetOf(chunks, n, t, u) =
        [literals |-> [k \in 1..m |-> Between(c, LiteralFrom(u, t, k), u[k] - 1)],
         fields |-> [k \in 1..m |-> chunks[u[k]].text],
         rest |-> Between(c, LiteralFrom(u, t, m + 1), n)]
  BY DEF SnippetOf, c, m
<1> QED
  BY <1>6, <1>7, <1>8, <1>9

(* Every character that is put together.                                    *)
Characters(chunks) == {",", " "} \cup UNION {Range(chunks[i].text) : i \in DOMAIN chunks}

(* All texts are made of them.                                              *)
LEMMA CharactersOfTexts ==
  ASSUME NEW chunks, NEW n \in Nat, DOMAIN chunks = 1..n,
         \A i \in DOMAIN chunks : chunks[i].text \in Seq(Range(chunks[i].text))
  PROVE  /\ Texts(chunks, n, Characters(chunks))
         /\ (\A i \in DOMAIN chunks : Range(chunks[i].text) \cap Wide = {}) => Characters(chunks) \cap Wide = {}
<1> DEFINE S == Characters(chunks)
<1>1. "," \in S /\ " " \in S
  BY DEF Characters
<1>2. ASSUME NEW i \in DOMAIN chunks PROVE Range(chunks[i].text) \subseteq S
  BY DEF Characters
<1>3. ASSUME NEW i \in 1..n PROVE chunks[i].text \in Seq(S)
  <2> DEFINE x == chunks[i].text
  <2>1. x \in Seq(Range(x)) /\ Range(x) \subseteq S
    BY <1>2
  <2> HIDE DEF x, S
  <2>2. Len(x) \in Nat /\ x \in [1..Len(x) -> Range(x)]
    BY <2>1
  <2>3. x \in [1..Len(x) -> S]
    BY <2>1, <2>2
  <2> QED
    BY <2>2, <2>3 DEF x
<1>4. ASSUME \A i \in DOMAIN chunks : Range(chunks[i].text) \cap Wide = {} PROVE S \cap Wide = {}
  BY <1>4, WideAssumption DEF Characters
<1> QED
  BY <1>1, <1>3, <1>4 DEF Texts

\* Of every completion string libclang may send, whatever its chunks are, the
\* server makes no candidate when it must make none and otherwise one with the
\* typed text; and when each of its characters is one byte, Emacs cuts out of it
\* the annotation after the typed text and the snippet with all its fields
\* (Irony::candidates, irony-completion--post-complete-yas-snippet).
THEOREM CandidatesAreFaithful ==
  ASSUME NEW completion, NEW style, completion.chunks \in Seq(Range(completion.chunks)),
         \A i \in DOMAIN completion.chunks :
           completion.chunks[i].text \in Seq(Range(completion.chunks[i].text))
  PROVE  Faithful(completion, style)
<1> DEFINE chunks == completion.chunks
           n == Len(chunks)
           isTyped(i) == chunks[i].kind = "typed text" /\ \A j \in 1..(i - 1) : chunks[j].kind # "typed text"
           typed == IF \E i \in DOMAIN chunks : isTyped(i) THEN CHOOSE i \in DOMAIN chunks : isTyped(i) ELSE 0
           U == CHOOSE f : f = [i \in 0..n |-> IF i = 0 THEN <<>>
                                               ELSE IF i > typed /\ chunks[i].kind \in {"placeholder", "current parameter"}
                                               THEN Append(f[i - 1], i) ELSE f[i - 1]]
           u == U[n]
           prefix == <<"a">>
           candidates == Candidate(completion, prefix, style)
           narrow == \A i \in DOMAIN chunks : Range(chunks[i].text) \cap Wide = {}
           refused == \/ completion.availability = "not available" \/ typed = 0
                      \/ ~Matches(chunks[typed].text, prefix, style)
           annotation == TextOf(chunks, TextKind \cup {"punctuation"}, typed + 1, n)
           asked(c) == /\ c.typed = chunks[typed].text
                       /\ narrow => Annotation(c) = annotation /\ Snippet(c) = SnippetAsked(chunks, n, typed, u)
<1>1. (IF refused THEN candidates = {} ELSE \E c \in candidates : asked(c)) => Faithful(completion, style)
  BY DEF Faithful, TextOf, SnippetAsked
<1>2. n \in Nat /\ DOMAIN chunks = 1..n
  OBVIOUS
<1> DEFINE S == Characters(chunks)
<1>3. Texts(chunks, n, S) /\ (narrow => S \cap Wide = {})
  BY <1>2, CharactersOfTexts
<1>4. typed \in 0..n
  <2> HIDE DEF isTyped
  <2> QED
    BY <1>2
<1>5. typed = 0 => NoneTyped(chunks, n)
  <2>1. SUFFICES ASSUME ~NoneTyped(chunks, n) PROVE \E i \in DOMAIN chunks : isTyped(i)
    <3> HIDE DEF isTyped
    <3>1. (\E i \in DOMAIN chunks : isTyped(i)) => typed \in 1..n
      BY <1>2
    <3> QED
      BY <2>1, <3>1
  <2>2. PICK t \in 1..n : IsTyped(chunks, n, t)
    BY <1>2, <2>1, FirstTyped
  <2>3. isTyped(t)
    BY <2>2 DEF IsTyped, NoneTyped, Typed
  <2> QED
    BY <1>2, <2>3
<1>6. typed # 0 => IsTyped(chunks, n, typed)
  <2>1. typed # 0 => typed \in 1..n /\ isTyped(typed)
    <3> HIDE DEF isTyped
    <3> QED
      BY <1>2
  <2> HIDE DEF typed
  <2> QED
    BY <2>1 DEF IsTyped, NoneTyped, Typed
<1>7. PICK R, P, C, E : Together(chunks, n, typed, R, P, C, E, S)
  <2> HIDE DEF n, typed, S, chunks
  <2>1. Texts(chunks, n, S) /\ n \in Nat /\ typed \in Nat
    BY <1>2, <1>3, <1>4
  <2> QED
    BY <2>1, PutTogether
<1>8. Kept(chunks, n, typed, R, P, C, E) /\ Joins(C, InsertedPieces(chunks, n, typed), n, S)
  BY <1>7 DEF Together
<1>9. Marked(chunks, n, typed, U)
  <2> HIDE DEF typed
  <2>1. U = CHOOSE f : f = [i \in 0..n |-> IF i = 0 THEN <<>>
                                           ELSE IF IsField(chunks, typed, i) THEN Append(f[i - 1], i)
                                           ELSE f[i - 1]]
    BY DEF IsField, Field
  <2> HIDE DEF U, n, chunks
  <2> QED
    BY <1>2, <2>1, MarksMade
<1> HIDE DEF U, typed, isTyped, S
<1>10. Ranged(u, E[n], n, typed, chunks, C)
  <2>1. \A i \in 0..n : Size(C[i]) \in Nat
    BY <1>8, SizeIsNat DEF Joins
  <2> HIDE DEF n, chunks
  <2> QED
    BY <1>2, <1>4, <1>8, <1>9, <2>1, RangedAll
<1>11. CASE refused
  <2>1. CASE typed = 0
    BY <1>1, <1>2, <1>5, <1>8, <1>11, <2>1, CandidateNone
  <2>2. CASE typed # 0 /\ ~Matches(chunks[typed].text, prefix, style)
    BY <1>1, <1>2, <1>6, <1>8, <1>11, <2>2, CandidateRefused
  <2>3. CASE typed # 0 /\ Matches(chunks[typed].text, prefix, style) /\ completion.availability = "not available"
    <3> DEFINE z == Size(P[typed])
               c == Late(chunks[typed].text, R[n], P[n], z, C[n], E[n])
    <3>1. Offered(completion, c) = {}
      BY <2>3 DEF Offered
    <3>2. /\ IsTyped(chunks, n, typed) /\ n \in Nat /\ n = Len(completion.chunks)
          /\ LateAt(c, chunks[typed].text, n, typed, R, P, C, E)
      BY <1>2, <1>6, <2>3 DEF LateAt
    <3> HIDE DEF c, n, prefix
    <3>3. Makes(completion, prefix, style, c)
      BY <1>8, <2>3, <3>2, CandidateMatching
    <3> QED
      BY <1>1, <1>11, <3>1, <3>3 DEF Makes
  <2> QED
    BY <1>11, <2>1, <2>2, <2>3
<1>12. CASE ~refused
  <2> DEFINE z == Size(P[typed])
             c == Late(chunks[typed].text, R[n], P[n], z, C[n], E[n])
  <2>1. candidates = {c}
    <3>1. /\ IsTyped(chunks, n, typed) /\ Matches(chunks[typed].text, prefix, style)
          /\ completion.availability # "not available"
      BY <1>6, <1>12
    <3>0. n \in Nat /\ n = Len(completion.chunks) /\ LateAt(c, chunks[typed].text, n, typed, R, P, C, E)
      BY <1>2 DEF LateAt
    <3> HIDE DEF c, n, prefix
    <3>2. Makes(completion, prefix, style, c)
      BY <1>8, <3>0, <3>1, CandidateMatching
    <3>3. Offered(completion, c) = {c}
      BY <3>1 DEF Offered, Late, c
    <3> QED
      BY <3>2, <3>3 DEF Makes
  <2>2. /\ c.typed = chunks[typed].text /\ c.car = C[n] /\ c.cdr = E[n]
        /\ Annotation(c) = Substring(P[n], z, Len(P[n]))
    BY DEF Late, Annotation
  <2> HIDE DEF c
  <2>3. ASSUME narrow PROVE Annotation(c) = annotation
    <3>1. Substring(P[n], Size(P[typed]), Len(P[n])) = Between(ShownPieces(chunks, n), typed, n)
      BY <1>2, <1>3, <1>4, <1>7, <2>3, AnnotationCut
    <3>2. annotation = Between(ShownPieces(chunks, n), typed, n)
      BY <1>2, <1>4, TextIsShown
    <3> QED
      BY <2>2, <3>1, <3>2
  <2>4. ASSUME narrow PROVE Snippet(c) = SnippetAsked(chunks, n, typed, u)
    <3> HIDE DEF n, chunks, u
    <3>1. Snippet(c) = SnippetOf(chunks, n, typed, u)
      BY <1>2, <1>3, <1>4, <1>7, <1>10, <2>2, <2>4, SnippetCut
    <3>2. SnippetAsked(chunks, n, typed, u) = SnippetOf(chunks, n, typed, u)
      BY <1>2, <1>4, <1>10, SnippetIsAsked
    <3> QED
      BY <3>1, <3>2
  <2>5. asked(c)
    BY <2>2, <2>3, <2>4
  <2> HIDE DEF asked
  <2> QED
    BY <1>1, <1>12, <2>1, <2>5
<1> QED
  BY <1>11, <1>12

\* SnippetsFaithful, whatever the completion strings that are tried.
THEOREM SnippetsStayFaithful == Spec => []SnippetsFaithful
<1>1. Unfaithful = {}
  BY CandidatesAreFaithful, CompletionAssumption DEF Unfaithful
<1>2. SnippetsFaithful
  BY <1>1 DEF SnippetsFaithful
<1> QED
  BY <1>2, PTL
----------------------------------------------------------------------------
(* Printing a reply and reading it.                                         *)

(* The reader outside a string, after the expression, inside a string that  *)
(* so far is s, after a backslash in it, and after a token.                 *)
Reader(mode, text, d, tokens) == [mode |-> mode, text |-> text, depth |-> d, tokens |-> tokens]
Outside(d, tokens) == Reader("outside", <<>>, d, tokens)
Ended(tokens) == Reader("done", <<>>, 0, tokens)
Inside(d, tokens, s) == Reader("string", s, d, tokens)
Escaping(d, tokens, s) == Reader("escaped", s, d, tokens)
After(d, tokens) == IF d = 0 THEN Ended(tokens) ELSE Outside(d, tokens)

(* The line that ends a reply, as one character.                            *)
EndLine == ";;EOT"

LEMMA EndIs == Range(Eot) = {Newline, EndLine}
<1>1. DOMAIN Eot = 1..3 /\ Eot[1] = Newline /\ Eot[2] = EndLine /\ Eot[3] = Newline
  BY DEF Eot, Newline, EndLine
<1>2. 1 \in 1..3 /\ 2 \in 1..3 /\ \A i \in 1..3 : i = 1 \/ i = 2 \/ i = 3
  OBVIOUS
<1> QED
  BY <1>1, <1>2 DEF Range

(* One character in each of these states.                                   *)
LEMMA QuoteOpens ==
  ASSUME NEW d, NEW tokens
  PROVE  Step(ByReader, Outside(d, tokens), DQuote) = Inside(d, tokens, <<>>)
<1> DEFINE none == <<>>
<1> HIDE DEF none
<1>1. ReadCharacter(Reader("outside", none, d, tokens), DQuote) = Reader("string", none, d, tokens)
  BY EndIs DEF ReadCharacter, Reader, DQuote, Newline, EndLine
<1> QED
  BY <1>1, StepIs DEF Outside, Inside, none

LEMMA BackslashEscapes ==
  ASSUME NEW d, NEW tokens, NEW s
  PROVE  Step(ByReader, Inside(d, tokens, s), Backslash) = Escaping(d, tokens, s)
<1>1. ReadCharacter(Inside(d, tokens, s), Backslash) = Escaping(d, tokens, s)
  BY DEF ReadCharacter, Inside, Escaping, Backslash, Reader
<1> QED
  BY <1>1, StepIs

LEMMA EscapedIsRead ==
  ASSUME NEW d, NEW tokens, NEW s, NEW c
  PROVE  Step(ByReader, Escaping(d, tokens, s), c) = Inside(d, tokens, Append(s, c))
<1>1. ReadCharacter(Escaping(d, tokens, s), c) = Inside(d, tokens, Append(s, c))
  BY DEF ReadCharacter, Inside, Escaping, Reader
<1> QED
  BY <1>1, StepIs

LEMMA CharacterIsRead ==
  ASSUME NEW d, NEW tokens, NEW s, NEW c, c \notin {DQuote, Backslash}
  PROVE  Step(ByReader, Inside(d, tokens, s), c) = Inside(d, tokens, Append(s, c))
<1>1. ReadCharacter(Inside(d, tokens, s), c) = Inside(d, tokens, Append(s, c))
  BY DEF ReadCharacter, Inside, DQuote, Backslash, Reader
<1> QED
  BY <1>1, StepIs

LEMMA QuoteCloses ==
  ASSUME NEW d, NEW tokens, NEW s
  PROVE  Step(ByReader, Inside(d, tokens, s), DQuote) = After(d, Append(tokens, String(s)))
<1> DEFINE none == <<>>
           token == String(s)
<1>1. ReadCharacter(Inside(d, tokens, s), DQuote)
        = Reader(IF d = 0 THEN "done" ELSE "outside", <<>>, d, Append(tokens, token))
  BY DEF ReadCharacter, Inside, Reader, DQuote
<1> HIDE DEF token
<1>2. CASE d = 0
  BY <1>1, <1>2, StepIs DEF After, Ended, token
<1>3. CASE d # 0
  BY <1>1, <1>3, StepIs DEF After, Outside, token
<1> QED
  BY <1>2, <1>3

LEMMA EndIsIgnored ==
  ASSUME NEW d, NEW tokens, NEW c, c \in {Newline, EndLine}
  PROVE  Step(ByReader, After(d, tokens), c) = After(d, tokens)
<1>1. Step(ByReader, Outside(d, tokens), c) = Outside(d, tokens)
  <2>1. ReadCharacter(Outside(d, tokens), c) = Outside(d, tokens)
    BY EndIs DEF ReadCharacter, Outside, Newline, EndLine, Reader
  <2> QED
    BY <2>1, StepIs
<1>2. Step(ByReader, Ended(tokens), c) = Ended(tokens)
  <2>1. ReadCharacter(Ended(tokens), c) = Ended(tokens)
    BY DEF ReadCharacter, Ended, Reader
  <2> QED
    BY <2>1, StepIs
<1> QED
  BY <1>1, <1>2 DEF After

LEMMA SymbolChange ==
  ASSUME NEW c
  PROVE  Change(Symbol(c)) = IF c = "(" THEN 1 ELSE IF c = ")" THEN -1 ELSE 0
<1>1. Symbol(c) = Open <=> c = "("
  <2>1. Symbol(c).text[1] = c /\ Open.text[1] = "("
    BY DEF Symbol, Open
  <2> QED
    BY <2>1 DEF Open
<1>2. Symbol(c) = Close <=> c = ")"
  <2>1. Symbol(c).text[1] = c /\ Close.text[1] = ")"
    BY DEF Symbol, Close
  <2> QED
    BY <2>1 DEF Close
<1> QED
  BY <1>1, <1>2 DEF Change

LEMMA SymbolIsRead ==
  ASSUME NEW d \in Int, NEW tokens, NEW c, c \notin {DQuote, Newline, EndLine},
         NEW e, e = d + Change(Symbol(c))
  PROVE  Step(ByReader, Outside(d, tokens), c) = After(e, Append(tokens, Symbol(c)))
<1> DEFINE none == <<>>
           token == Symbol(c)
<1>1. e = d + (CASE c = "(" -> 1 [] c = ")" -> -1 [] OTHER -> 0)
  BY SymbolChange
<1>2. c # DQuote /\ c \notin Range(Eot)
  BY EndIs
<1>3. ReadCharacter(Outside(d, tokens), c)
        = Reader(IF e = 0 THEN "done" ELSE "outside", <<>>, e, Append(tokens, token))
  BY <1>1, <1>2 DEF ReadCharacter, Outside, Reader, DQuote
<1> HIDE DEF token
<1>4. CASE e = 0
  BY <1>3, <1>4, StepIs DEF After, Ended, token
<1>5. CASE e # 0
  BY <1>3, <1>5, StepIs DEF After, Outside, token
<1> QED
  BY <1>4, <1>5

(* A text inside quotes arrives as it was, and so does a token.             *)
LEMMA EscapeIsRead ==
  ASSUME NEW S, {DQuote, Backslash} \subseteq S, NEW c \in S, NEW d, NEW tokens, NEW s
  PROVE  /\ Escape(c) \in Seq(S)
         /\ Reads(ByReader, Inside(d, tokens, s), Escape(c), Inside(d, tokens, Append(s, c)))
<1> DEFINE a == Inside(d, tokens, s)
           b == Escaping(d, tokens, s)
           e == Inside(d, tokens, Append(s, c))
<1>1. CASE c \in {DQuote, Backslash}
  <2>1. Step(ByReader, a, Backslash) = b /\ Step(ByReader, b, c) = e
    BY BackslashEscapes, EscapedIsRead
  <2> HIDE DEF a, b, e
  <2>2. Reads(ByReader, a, <<Backslash>>, b) /\ Reads(ByReader, b, <<c>>, e)
    BY <2>1, ReadsOne
  <2>3. /\ <<Backslash>> \in Seq(S) /\ <<c>> \in Seq(S) /\ Escape(c) \in Seq(S)
        /\ Escape(c) = <<Backslash>> \o <<c>>
    BY <1>1 DEF Escape
  <2>4. Reads(ByReader, a, <<Backslash>> \o <<c>>, e)
    BY <2>2, <2>3, ReadsConcat
  <2> QED
    BY <2>3, <2>4 DEF a, e
<1>2. CASE c \notin {DQuote, Backslash}
  <2>1. Step(ByReader, a, c) = e
    BY <1>2, CharacterIsRead
  <2> HIDE DEF a, e
  <2>2. Reads(ByReader, a, <<c>>, e)
    BY <2>1, ReadsOne
  <2> QED
    BY <1>2, <2>2 DEF Escape, a, e
<1> QED
  BY <1>1, <1>2

LEMMA StringIsRead ==
  ASSUME NEW S, {DQuote, Backslash} \subseteq S, NEW s \in Seq(S), NEW d, NEW tokens
  PROVE  /\ Quoted(s) \in Seq(S)
         /\ Reads(ByReader, Outside(d, tokens), Quoted(s), After(d, Append(tokens, String(s))))
<1> DEFINE into == [r \in Seq(S) |-> Inside(d, tokens, r)]
           inside == FlattenSeq([i \in DOMAIN s |-> Escape(s[i])])
           a == Outside(d, tokens)
           b == Inside(d, tokens, <<>>)
           c == Inside(d, tokens, s)
           e == After(d, Append(tokens, String(s)))
<1>1. \A r \in Seq(S) : into[r] = Inside(d, tokens, r) /\ \A k \in S : Append(r, k) \in Seq(S)
  OBVIOUS
<1>2. <<>> \in Seq(S)
  OBVIOUS
<1>3. into[<<>>] = b /\ into[s] = c
  BY <1>1, <1>2
<1> HIDE DEF into
<1>4. \A r \in Seq(S), k \in S : Escape(k) \in Seq(S) /\ Reads(ByReader, into[r], Escape(k), into[Append(r, k)])
  <2> TAKE r \in Seq(S), k \in S
  <2>1. into[r] = Inside(d, tokens, r) /\ into[Append(r, k)] = Inside(d, tokens, Append(r, k))
    BY <1>1
  <2> QED
    BY <2>1, EscapeIsRead
<1>5. \A k \in S : Escape(k) \in Seq(S)
  BY <1>2, <1>4
<1>6. inside \in Seq(S) /\ Reads(ByReader, b, inside, c)
  <2>1. inside \in Seq(S) /\ Reads(ByReader, into[<<>>], inside, into[s])
    BY <1>4, <1>5, InsideRead
  <2> QED
    BY <1>3, <2>1
<1>7. Quoted(s) = (<<DQuote>> \o inside) \o <<DQuote>>
  BY DEF Quoted, Escape, DQuote, Backslash
<1>8. Step(ByReader, a, DQuote) = b /\ Step(ByReader, c, DQuote) = e
  BY QuoteOpens, QuoteCloses
<1> HIDE DEF a, b, c, e, inside
<1>9. Reads(ByReader, a, <<DQuote>>, b) /\ Reads(ByReader, c, <<DQuote>>, e) /\ <<DQuote>> \in Seq(S)
  BY <1>8, ReadsOne
<1>10. <<DQuote>> \o inside \in Seq(S) /\ Reads(ByReader, a, <<DQuote>> \o inside, c)
  BY <1>6, <1>9, ReadsConcat, ConcatProperties
<1>11. (<<DQuote>> \o inside) \o <<DQuote>> \in Seq(S)
  BY <1>9, <1>10, ConcatProperties
<1>12. Reads(ByReader, a, (<<DQuote>> \o inside) \o <<DQuote>>, e)
  BY <1>9, <1>10, ReadsConcat
<1> QED
  BY <1>7, <1>11, <1>12 DEF a, e

(* The tokens over an alphabet: strings of any of its characters, and       *)
(* symbols that are one of them.                                            *)
Unmarked(S) == S \ {DQuote, Newline, EndLine}
AtomOf(S) == {Symbol(a) : a \in Unmarked(S) \ {"(", ")"}} \cup {String(s) : s \in Seq(S)}
Token(S) == AtomOf(S) \cup {Open, Close}
PrintedToken(token) == IF token.kind = "string" THEN Quoted(token.text) ELSE token.text

LEMMA AtomChanges ==
  ASSUME NEW S, NEW token \in AtomOf(S)
  PROVE  Change(token) = 0
<1>1. CASE token \in {Symbol(a) : a \in Unmarked(S) \ {"(", ")"}}
  <2>1. PICK a \in Unmarked(S) \ {"(", ")"} : token = Symbol(a)
    BY <1>1
  <2> QED
    BY <2>1, SymbolChange
<1>2. CASE token \in {String(s) : s \in Seq(S)}
  <2>1. token.kind = "string" /\ Open.kind = "symbol" /\ Close.kind = "symbol"
    BY <1>2 DEF String, Open, Close, Symbol
  <2>2. token # Open /\ token # Close
    BY <2>1
  <2> QED
    BY <2>2 DEF Change
<1> QED
  BY <1>1, <1>2 DEF AtomOf

LEMMA TokenIsRead ==
  ASSUME NEW S, {DQuote, Backslash, "(", ")"} \subseteq S, NEW token \in Token(S), NEW d \in Int, NEW tokens,
         NEW e, e = d + Change(token)
  PROVE  /\ PrintedToken(token) \in Seq(S)
         /\ Reads(ByReader, Outside(d, tokens), PrintedToken(token), After(e, Append(tokens, token)))
<1>1. ASSUME NEW c \in Unmarked(S), token = Symbol(c)
      PROVE  /\ PrintedToken(token) \in Seq(S)
             /\ Reads(ByReader, Outside(d, tokens), PrintedToken(token), After(e, Append(tokens, token)))
  <2>1. PrintedToken(token) = <<c>> /\ <<c>> \in Seq(S)
    BY <1>1 DEF PrintedToken, Symbol, Unmarked
  <2> DEFINE a == Outside(d, tokens)
             b == After(e, Append(tokens, Symbol(c)))
  <2>2. Step(ByReader, a, c) = b
    BY <1>1, SymbolIsRead DEF Unmarked
  <2> HIDE DEF a, b
  <2>3. Reads(ByReader, a, <<c>>, b)
    BY <2>2, ReadsOne
  <2> QED
    BY <1>1, <2>1, <2>3 DEF a, b
<1>2. CASE token \in {Open, Close}
  <2>1. "(" \in Unmarked(S) /\ ")" \in Unmarked(S)
    BY DEF Unmarked, DQuote, Newline, EndLine
  <2> QED
    BY <1>1, <1>2, <2>1 DEF Open, Close
<1>3. CASE token \in {Symbol(a) : a \in Unmarked(S) \ {"(", ")"}}
  BY <1>1, <1>3
<1>4. CASE token \in {String(s) : s \in Seq(S)}
  <2>1. PICK s \in Seq(S) : token = String(s)
    BY <1>4
  <2>2. PrintedToken(token) = Quoted(s)
    BY <2>1 DEF PrintedToken, String
  <2>3. token \in AtomOf(S)
    BY <1>4 DEF AtomOf
  <2>4. e = d
    BY <2>3, AtomChanges
  <2> QED
    BY <2>1, <2>2, <2>4, StringIsRead
<1> QED
  BY <1>2, <1>3, <1>4 DEF Token, AtomOf

(* How deep each token of an expression is nested: only the last may close  *)
(* the first parenthesis.                                                   *)
Nested(depth, e) ==
  /\ depth[0] = 0
  /\ \A i \in 1..Len(e) : /\ depth[i] \in Nat /\ depth[i] = depth[i - 1] + Change(e[i])
                          /\ i < Len(e) => depth[i] # 0

(* What is printed of the tokens.                                           *)
Chars(e) == FlattenSeq([i \in DOMAIN e |-> PrintedToken(e[i])])
Specials == {DQuote, Backslash, "(", ")"}

(* The reader gets token by token what was printed.                         *)
LEMMA TokensAreRead ==
  ASSUME NEW S, Specials \subseteq S, NEW e \in Seq(Token(S)), e # <<>>, NEW depth, Nested(depth, e)
  PROVE  /\ Chars(e) \in Seq(S)
         /\ Reads(ByReader, Outside(0, <<>>), Chars(e), After(depth[Len(e)], e))
<1> DEFINE n == Len(e)
           seqs == [i \in DOMAIN e |-> PrintedToken(e[i])]
           st == [i \in 0..n |-> IF i = 0 THEN Outside(0, <<>>) ELSE After(depth[i], SubSeq(e, 1, i))]
<1>1. n \in Nat /\ DOMAIN e = 1..n /\ n # 0
  OBVIOUS
<1>2. ASSUME NEW i \in 1..n PROVE PrintedToken(e[i]) \in Seq(S) /\ Reads(ByReader, st[i - 1], PrintedToken(e[i]), st[i])
  <2> DEFINE tokens == SubSeq(e, 1, i - 1)
             token == e[i]
             d == depth[i - 1]
  <2>1. token \in Token(S) /\ d \in Int /\ depth[i] = d + Change(token)
    <3>1. i - 1 = 0 \/ i - 1 \in 1..n
      BY <1>1
    <3>2. d \in Int
      BY <3>1 DEF Nested
    <3> QED
      BY <3>2 DEF Nested
  <2>2. st[i] = After(depth[i], Append(tokens, token))
    <3>1. st[i] = After(depth[i], SubSeq(e, 1, i))
      BY <1>1
    <3>2. SubSeq(e, 1, i) = Append(tokens, token)
      BY Grows
    <3> HIDE DEF st, tokens, token
    <3> QED
      BY <3>1, <3>2
  <2>3. st[i - 1] = Outside(d, tokens)
    <3>1. CASE i = 1
      <4>1. st[i - 1] = Outside(0, <<>>) /\ d = 0
        BY <1>1, <3>1 DEF Nested
      <4>2. tokens = <<>>
        BY <3>1, Grows
      <4> HIDE DEF st, tokens, d
      <4> QED
        BY <4>1, <4>2
    <3>2. CASE i # 1
      <4>1. st[i - 1] = After(d, tokens)
        BY <1>1, <3>2
      <4>2. d # 0
        <5>1. i - 1 \in 1..n /\ i - 1 < n
          BY <1>1, <3>2
        <5> QED
          BY <5>1 DEF Nested
      <4> HIDE DEF st, tokens, d
      <4> QED
        BY <4>1, <4>2 DEF After
    <3> QED
      BY <3>1, <3>2
  <2> HIDE DEF st, tokens, token, d
  <2>4. /\ PrintedToken(token) \in Seq(S)
        /\ Reads(ByReader, Outside(d, tokens), PrintedToken(token), After(depth[i], Append(tokens, token)))
    BY <2>1, TokenIsRead DEF Specials
  <2> QED
    BY <2>2, <2>3, <2>4 DEF token
<1>3. st[0] = Outside(0, <<>>) /\ st[n] = After(depth[n], e)
  <2>1. st[0] = Outside(0, <<>>) /\ st[n] = After(depth[n], SubSeq(e, 1, n))
    BY <1>1
  <2> HIDE DEF st
  <2> QED
    BY <2>1, Grows
<1>4. seqs \in Seq(Seq(S)) /\ Len(seqs) = n /\ \A i \in 1..n : seqs[i] = PrintedToken(e[i])
  <2>1. seqs \in [1..n -> Seq(S)]
    BY <1>1, <1>2
  <2> HIDE DEF seqs
  <2>2. seqs \in Seq(Seq(S)) /\ Len(seqs) = n
    BY <1>1, <2>1, FunctionIsSeq
  <2> QED
    BY <1>1, <2>2 DEF seqs
<1> HIDE DEF st, seqs
<1>5. \A i \in 1..Len(seqs) : Reads(ByReader, st[i - 1], seqs[i], st[i])
  BY <1>2, <1>4
<1>6. FlattenSeq(seqs) \in Seq(S) /\ Reads(ByReader, st[0], FlattenSeq(seqs), st[Len(seqs)])
  BY <1>4, <1>5, ReadsFlattened
<1> QED
  BY <1>3, <1>4, <1>6 DEF seqs, Chars

(* Emacs reads from the beginning of the buffer to its end.                 *)
LEMMA ReadsBuffer ==
  ASSUME NEW S, NEW chars \in Seq(S), NEW end, Reads(ByReader, Outside(0, <<>>), chars, end)
  PROVE  Read(chars) = IF end.mode = "done" THEN end.tokens ELSE EndOfFile
<1> DEFINE n == Len(chars)
           begin == Outside(0, <<>>)
           step(g, i) == IF i = 0 THEN [mode |-> "outside", text |-> <<>>, depth |-> 0, tokens |-> <<>>]
                         ELSE ReadCharacter(g[i - 1], chars[i])
<1>1. n \in Nat
  OBVIOUS
<1>2. PICK h : h[0] = begin /\ h[n] = end /\ \A i \in 1..n : h[i] = ReadCharacter(h[i - 1], chars[i])
  BY StepIs DEF Reads
<1> DEFINE g == [i \in 0..n |-> h[i]]
<1>3. ASSUME NEW i \in 0..n PROVE g[i] = step(g, i)
  <2>1. CASE i = 0
    BY <1>1, <1>2, <2>1 DEF Outside, Reader
  <2>2. CASE i # 0
    <3>1. i \in 1..n /\ i - 1 \in 0..n /\ g[i] = h[i] /\ g[i - 1] = h[i - 1]
      BY <1>1, <2>2
    <3> HIDE DEF g, begin
    <3> QED
      BY <1>2, <2>2, <3>1
  <2> QED
    BY <2>1, <2>2
<1>4. \E f : f = [i \in 0..n |-> step(f, i)]
  <2>1. g = [i \in 0..n |-> step(g, i)]
    BY <1>3
  <2> QED
    BY <2>1
<1> DEFINE after == CHOOSE f : f = [i \in 0..n |-> step(f, i)]
<1>5. after = [i \in 0..n |-> step(after, i)]
  BY <1>4
<1>6. Read(chars) = IF after[n].mode = "done" THEN after[n].tokens ELSE EndOfFile
  BY DEF Read
<1> HIDE DEF after
<1>7. \A i \in 0..n : after[i] = step(after, i)
  BY <1>5
<1> DEFINE T == {i \in Nat : i <= n => after[i] = h[i]}
<1>8. 0 \in T
  BY <1>1, <1>2, <1>7 DEF Outside, Reader
<1>9. ASSUME NEW i \in Nat, i \in T, i + 1 <= n PROVE after[i + 1] = h[i + 1]
  <2>1. i + 1 \in 0..n /\ i + 1 \in 1..n /\ i + 1 # 0 /\ (i + 1) - 1 = i /\ i <= n
    BY <1>1, <1>9
  <2>2. after[i] = h[i]
    BY <1>9, <2>1
  <2> QED
    BY <1>2, <1>7, <2>1, <2>2
<1>10. after[n] = h[n]
  <2>1. \A i \in Nat : i \in T => i + 1 \in T
    <3> SUFFICES ASSUME NEW i \in Nat, i \in T, i + 1 <= n PROVE after[i + 1] = h[i + 1]
      OBVIOUS
    <3> QED
      BY <1>9
  <2> HIDE DEF T
  <2>2. Nat \subseteq T
    BY <1>8, <2>1, SetInduction
  <2>3. n \in T
    BY <1>1, <2>2
  <2> QED
    BY <2>3 DEF T
<1> QED
  BY <1>2, <1>6, <1>10

(* A reply is read when it has arrived, and not before.                     *)
LEMMA EndParts ==
  Eot \in Seq({Newline, EndLine}) /\ Len(Eot) = 3 /\ Eot[1] = Newline /\ Eot[2] = EndLine /\ Eot[3] = Newline
BY DEF Eot, Newline, EndLine

LEMMA EndIsRead ==
  ASSUME NEW d, NEW tokens
  PROVE  Reads(ByReader, After(d, tokens), Eot, After(d, tokens))
<1> DEFINE st == After(d, tokens)
           h == [i \in 0..3 |-> st]
<1>1. ASSUME NEW i \in 1..3 PROVE Step(ByReader, st, Eot[i]) = st
  <2>1. i = 1 \/ i = 2 \/ i = 3
    OBVIOUS
  <2> QED
    BY <2>1, EndParts, EndIsIgnored
<1>2. \A i \in 1..3 : h[i] = st /\ h[i - 1] = st
  OBVIOUS
<1>3. h[0] = st /\ h[3] = st
  OBVIOUS
<1> HIDE DEF h, st
<1>4. h[0] = st /\ h[Len(Eot)] = st /\ \A i \in 1..Len(Eot) : h[i] = Step(ByReader, h[i - 1], Eot[i])
  BY <1>1, <1>2, <1>3, EndParts
<1> QED
  BY <1>4 DEF Reads, st

LEMMA Followed ==
  ASSUME NEW T, NEW x \in Seq(T), NEW y \in Seq(T), Len(y) = 3
  PROVE  LET z == x \o y
             m == Len(x)
         IN  /\ z \in Seq(T) /\ m \in Nat /\ Len(z) = m + 3
             /\ \A i \in 1..m : z[i] = x[i]
             /\ z[m + 1] = y[1] /\ z[m + 2] = y[2] /\ z[m + 3] = y[3]
             /\ SubSeq(z, m + 1, m + 3) = y
<1> DEFINE z == x \o y
           m == Len(x)
           part == SubSeq(z, m + 1, m + 3)
<1>1. m \in Nat
  OBVIOUS
<1>2. /\ z \in Seq(T) /\ Len(z) = m + 3
      /\ \A i \in 1..(m + 3) : z[i] = IF i <= m THEN x[i] ELSE y[i - m]
  <2>1. /\ z \in Seq(T) /\ Len(z) = Len(x) + Len(y)
        /\ \A i \in 1..(Len(x) + Len(y)) : z[i] = IF i <= Len(x) THEN x[i] ELSE y[i - Len(x)]
    BY ConcatProperties
  <2> HIDE DEF z
  <2> QED
    BY <2>1
<1> HIDE DEF z, m
<1>3. \A i \in 1..m : z[i] = x[i]
  BY <1>1, <1>2
<1>4. ASSUME NEW k \in 1..3 PROVE z[m + k] = y[k]
  <2>1. m + k \in 1..(m + 3) /\ ~(m + k <= m) /\ (m + k) - m = k
    BY <1>1
  <2> QED
    BY <1>2, <2>1
<1>5. part \in Seq(T) /\ Len(part) = 3 /\ \A i \in 1..3 : part[i] = z[m + i]
  <2>1. \A i \in (m + 1)..(m + 3) : z[i] \in T
    BY <1>1, <1>2
  <2>2. /\ part \in Seq(T) /\ Len(part) = 3
        /\ \A i \in 1..((m + 3) - (m + 1) + 1) : part[i] = z[(m + 1) + i - 1]
    BY <1>1, <2>1, SubSeqProperties
  <2>3. (m + 3) - (m + 1) + 1 = 3 /\ \A i \in 1..3 : (m + 1) + i - 1 = m + i
    BY <1>1
  <2> HIDE DEF part
  <2> QED
    BY <2>2, <2>3
<1> HIDE DEF part
<1>6. part = y
  BY <1>4, <1>5
<1> QED
  BY <1>1, <1>2, <1>3, <1>4, <1>6 DEF part, z, m

LEMMA ReplyIsRead ==
  ASSUME NEW S, Specials \subseteq S, NEW e \in Seq(Token(S)), e # <<>>, NEW depth, Nested(depth, e)
  PROVE  Update(Output(e)) = IF depth[Len(e)] = 0 THEN e ELSE EndOfFile
<1> DEFINE chars == Chars(e)
           all == S \cup {Newline, EndLine}
           out == chars \o Eot
           d == depth[Len(e)]
           end == After(d, e)
           begin == Outside(0, <<>>)
<1>1. chars \in Seq(S) /\ Reads(ByReader, begin, chars, end)
  BY TokensAreRead
<1>2. Output(e) = out
  BY DEF Output, Chars, PrintedToken
<1>3. Reads(ByReader, end, Eot, end)
  BY EndIsRead
<1> HIDE DEF chars
<1>4. chars \in Seq(all) /\ Eot \in Seq(all)
  BY <1>1, EndParts
<1> HIDE DEF begin, end, all, d
<1>5. out \in Seq(all) /\ Reads(ByReader, begin, out, end)
  BY <1>1, <1>3, <1>4, ReadsConcat, ConcatProperties
<1>6. Len(out) >= 3 /\ SubSeq(out, Len(out) - 2, Len(out)) = Eot
  <2>1. Len(chars) \in Nat /\ Len(out) = Len(chars) + 3 /\ SubSeq(out, Len(chars) + 1, Len(chars) + 3) = Eot
    BY <1>4, EndParts, Followed
  <2> HIDE DEF out
  <2>2. Len(out) - 2 = Len(chars) + 1
    BY <2>1
  <2> QED
    BY <2>1, <2>2
<1> HIDE DEF out
<1>7. Update(out) = Read(out)
  BY <1>6 DEF Update
<1>8. Read(out) = IF end.mode = "done" THEN end.tokens ELSE EndOfFile
  BY <1>5, ReadsBuffer DEF begin
<1>9. d = 0 => end.mode = "done" /\ end.tokens = e
  BY DEF end, After, Ended, Reader
<1>10. d # 0 => end.mode # "done"
  BY DEF end, After, Outside, Reader
<1> QED
  BY <1>2, <1>7, <1>8, <1>9, <1>10 DEF d

LEMMA ReplyIsAwaited ==
  ASSUME NEW S, Specials \subseteq S, EndLine \notin S, NEW e \in Seq(Token(S)), e # <<>>,
         NEW depth, Nested(depth, e), NEW n \in 0..(Len(Output(e)) - 1)
  PROVE  Update(SubSeq(Output(e), 1, n)) = Wait
<1> DEFINE chars == Chars(e)
           m == Len(chars)
           all == S \cup {Newline, EndLine}
           out == chars \o Eot
           part == SubSeq(out, 1, n)
<1>1. chars \in Seq(S)
  BY TokensAreRead
<1>2. Output(e) = out
  BY DEF Output, Chars, PrintedToken
<1> HIDE DEF chars
<1>0. chars \in Seq(all) /\ Eot \in Seq(all)
  BY <1>1, EndParts
<1> HIDE DEF all
<1>3. /\ m \in Nat /\ out \in Seq(all) /\ Len(out) = m + 3 /\ \A i \in 1..m : out[i] = chars[i]
      /\ out[m + 1] = Newline /\ out[m + 3] = Newline
  BY <1>0, EndParts, Followed
<1> HIDE DEF out
<1>4. n \in Nat /\ n < m + 3
  BY <1>2, <1>3
<1>5. ASSUME NEW i \in 1..(m + 3), out[i] = EndLine PROVE i = m + 2
  <2>1. CASE i <= m
    <3>1. out[i] = chars[i] /\ chars[i] \in S
      BY <1>1, <1>3, <2>1
    <3> QED
      BY <1>5, <3>1
  <2>2. CASE i > m
    <3>1. i = m + 1 \/ i = m + 2 \/ i = m + 3
      BY <1>3, <2>2
    <3> QED
      BY <1>3, <1>5, <3>1 DEF Newline, EndLine
  <2> QED
    BY <1>3, <2>1, <2>2
<1>7. part \in Seq(all) /\ Len(part) = n /\ \A i \in 1..n : part[i] = out[i]
  <2>1. \A i \in 1..n : out[i] \in all
    BY <1>3, <1>4
  <2>2. /\ part \in Seq(all) /\ Len(part) = (IF 1 <= n THEN n - 1 + 1 ELSE 0)
        /\ \A i \in 1..(n - 1 + 1) : part[i] = out[1 + i - 1]
    BY <1>4, <2>1, SubSeqProperties
  <2>3. n - 1 + 1 = n /\ \A i \in 1..n : 1 + i - 1 = i
    BY <1>4
  <2> HIDE DEF part
  <2> QED
    BY <1>4, <2>2, <2>3
<1> HIDE DEF part
<1>6. ASSUME n >= 3 PROVE SubSeq(part, n - 2, n) # Eot
  <2>1. n - 1 \in 1..n /\ n - 1 \in 1..(m + 3) /\ n - 1 # m + 2
    BY <1>3, <1>4, <1>6
  <2>2. part[n - 1] # EndLine
    BY <1>5, <1>7, <2>1
  <2>3. SubSeq(part, n - 2, n)[2] = part[n - 1]
    <3>1. \A i \in (n - 2)..n : part[i] \in all
      BY <1>4, <1>6, <1>7
    <3>2. \A i \in 1..(n - (n - 2) + 1) : SubSeq(part, n - 2, n)[i] = part[(n - 2) + i - 1]
      BY <1>4, <3>1, SubSeqProperties
    <3>3. 2 \in 1..(n - (n - 2) + 1) /\ (n - 2) + 2 - 1 = n - 1
      BY <1>4
    <3> QED
      BY <3>2, <3>3
  <2> QED
    BY <2>2, <2>3, EndParts
<1>8. Update(part) = Wait
  BY <1>4, <1>6, <1>7 DEF Update
<1> QED
  BY <1>2, <1>8 DEF part

(* Tokens with as many parentheses opened as closed, in order.              *)
Balanced(S, x) == x \in Seq(Token(S)) /\ \A d \in Nat \ {0} : Reads(ByDepth, d, x, d)

LEMMA AtomsBalance ==
  ASSUME NEW S, NEW x \in Seq(AtomOf(S))
  PROVE  Balanced(S, x)
<1>1. x \in Seq(Token(S))
  BY DEF Token
<1>2. ASSUME NEW d \in Nat \ {0} PROVE Reads(ByDepth, d, x, d)
  <2> DEFINE h == [i \in 0..Len(x) |-> d]
  <2>1. ASSUME NEW i \in 1..Len(x) PROVE h[i] = Step(ByDepth, h[i - 1], x[i])
    <3>1. h[i] = d /\ h[i - 1] = d
      OBVIOUS
    <3>2. Deeper(d, x[i]) = d
      BY AtomChanges DEF Deeper
    <3> HIDE DEF h
    <3> QED
      BY <3>1, <3>2, StepIs
  <2>2. h[0] = d /\ h[Len(x)] = d
    OBVIOUS
  <2> HIDE DEF h
  <2> QED
    BY <2>1, <2>2 DEF Reads
<1> QED
  BY <1>1, <1>2 DEF Balanced

LEMMA BothBalance ==
  ASSUME NEW S, NEW x, NEW y, Balanced(S, x), Balanced(S, y)
  PROVE  Balanced(S, x \o y)
<1>1. x \o y \in Seq(Token(S))
  BY ConcatProperties DEF Balanced
<1>2. ASSUME NEW d \in Nat \ {0} PROVE Reads(ByDepth, d, x \o y, d)
  BY ReadsConcat DEF Balanced
<1> QED
  BY <1>1, <1>2 DEF Balanced

LEMMA Parentheses == Change(Open) = 1 /\ Change(Close) = -1
BY SymbolChange DEF Open, Close

LEMMA ListBalances ==
  ASSUME NEW S, NEW x, Balanced(S, x)
  PROVE  Balanced(S, List(x))
<1>1. <<Open>> \in Seq(Token(S)) /\ <<Close>> \in Seq(Token(S)) /\ x \in Seq(Token(S))
  BY DEF Token, Balanced
<1>2. <<Open>> \o x \in Seq(Token(S)) /\ (<<Open>> \o x) \o <<Close>> \in Seq(Token(S))
  BY <1>1, ConcatProperties
<1>3. ASSUME NEW d \in Nat \ {0} PROVE Reads(ByDepth, d, (<<Open>> \o x) \o <<Close>>, d)
  <2>1. Deeper(d, Open) = d + 1 /\ Deeper(d + 1, Close) = d
    BY Parentheses DEF Deeper
  <2>2. Reads(ByDepth, d, <<Open>>, d + 1) /\ Reads(ByDepth, d + 1, <<Close>>, d)
    BY <2>1, StepIs, ReadsOne
  <2>3. Reads(ByDepth, d + 1, x, d + 1)
    BY DEF Balanced
  <2>4. Reads(ByDepth, d, <<Open>> \o x, d + 1)
    BY <1>1, <2>2, <2>3, ReadsConcat
  <2> QED
    BY <1>1, <1>2, <2>2, <2>4, ReadsConcat
<1> QED
  BY <1>2, <1>3 DEF Balanced, List

LEMMA ListsBalance ==
  ASSUME NEW S, NEW n \in Nat, NEW seqs, seqs = [i \in 1..n |-> seqs[i]], \A i \in 1..n : Balanced(S, seqs[i])
  PROVE  Balanced(S, FlattenSeq(seqs))
<1>1. seqs \in Seq(Seq(Token(S))) /\ Len(seqs) = n
  <2>1. seqs \in [1..n -> Seq(Token(S))]
    BY DEF Balanced
  <2> QED
    BY <2>1, FunctionIsSeq
<1>2. ASSUME NEW d \in Nat \ {0}
      PROVE  FlattenSeq(seqs) \in Seq(Token(S)) /\ Reads(ByDepth, d, FlattenSeq(seqs), d)
  <2> DEFINE st == [i \in 0..n |-> d]
  <2>1. \A i \in 1..n : st[i - 1] = d /\ st[i] = d
    OBVIOUS
  <2>2. st[0] = d /\ st[n] = d
    OBVIOUS
  <2> HIDE DEF st
  <2>3. \A i \in 1..Len(seqs) : Reads(ByDepth, st[i - 1], seqs[i], st[i])
    BY <1>1, <2>1 DEF Balanced
  <2>4. /\ FlattenSeq(seqs) \in Seq(Token(S))
        /\ Reads(ByDepth, st[0], FlattenSeq(seqs), st[Len(seqs)])
    BY <1>1, <2>3, ReadsFlattened
  <2> QED
    BY <1>1, <2>2, <2>4
<1>3. 1 \in Nat \ {0}
  OBVIOUS
<1> QED
  BY <1>2, <1>3 DEF Balanced

(* Inside a list the depth never is 0, for it would stay.                   *)
LEMMA DepthStays ==
  ASSUME NEW S, NEW x \in Seq(Token(S)), Reads(ByDepth, 1, x, 1)
  PROVE  \E g : /\ g[0] = 1 /\ g[Len(x)] = 1
                /\ \A i \in 0..Len(x) : g[i] \in Nat \ {0}
                /\ \A i \in 1..Len(x) : g[i] = g[i - 1] + Change(x[i])
<1> DEFINE n == Len(x)
<1>1. n \in Nat /\ \A i \in 1..n : Change(x[i]) \in {-1, 0, 1}
  BY DEF Change
<1>2. PICK g : g[0] = 1 /\ g[n] = 1 /\ \A i \in 1..n : g[i] = Deeper(g[i - 1], x[i])
  BY StepIs DEF Reads
<1> HIDE DEF n
<1> DEFINE T == {i \in Nat : i <= n => g[i] \in Nat}
<1>3. \A i \in 0..n : g[i] \in Nat
  <2>1. 0 \in T
    BY <1>2
  <2>2. ASSUME NEW i \in Nat, i \in T, i + 1 <= n PROVE g[i + 1] \in Nat
    <3>1. i + 1 \in 1..n /\ (i + 1) - 1 = i /\ i <= n
      BY <1>1, <2>2
    <3>2. g[i] \in Nat /\ g[i + 1] = Deeper(g[i], x[i + 1])
      BY <1>2, <2>2, <3>1
    <3> QED
      BY <1>1, <3>1, <3>2 DEF Deeper
  <2>3. \A i \in Nat : i \in T => i + 1 \in T
    BY <2>2
  <2> HIDE DEF T
  <2>4. Nat \subseteq T
    BY <2>1, <2>3, SetInduction
  <2> QED
    BY <1>1, <2>4 DEF T
<1>4. ASSUME NEW k \in 0..n, g[k] = 0 PROVE FALSE
  <2> DEFINE Z == {i \in Nat : k + i <= n => g[k + i] = 0}
  <2>1. 0 \in Z
    BY <1>4
  <2>2. ASSUME NEW i \in Nat, i \in Z, k + (i + 1) <= n PROVE g[k + (i + 1)] = 0
    <3>1. k + (i + 1) \in 1..n /\ (k + (i + 1)) - 1 = k + i /\ k + i <= n
      BY <1>1, <2>2
    <3>2. g[k + i] = 0
      BY <2>2, <3>1
    <3> QED
      BY <1>2, <3>1, <3>2 DEF Deeper
  <2>3. \A i \in Nat : i \in Z => i + 1 \in Z
    BY <2>2
  <2> HIDE DEF Z
  <2>4. Nat \subseteq Z
    BY <2>1, <2>3, SetInduction
  <2>5. n - k \in Nat /\ k + (n - k) = n
    BY <1>1
  <2>7. n - k \in Z
    BY <2>4, <2>5
  <2>6. g[k + (n - k)] = 0
    BY <2>5, <2>7 DEF Z
  <2> QED
    BY <1>2, <2>5, <2>6
<1>5. ASSUME NEW i \in 1..n PROVE g[i] = g[i - 1] + Change(x[i])
  <2>1. i - 1 \in 0..n
    BY <1>1
  <2> QED
    BY <1>2, <1>4, <2>1 DEF Deeper
<1> QED
  BY <1>2, <1>3, <1>4, <1>5 DEF n

(* A reply is one expression; what the errors about unsaved texts print is  *)
(* one without its last parenthesis.                                        *)
IsReply(S, e) ==
  /\ e \in Seq(Token(S)) /\ e # <<>>
  /\ \E depth : Nested(depth, e) /\ depth[Len(e)] = 0
IsCut(S, e) ==
  /\ e \in Seq(Token(S)) /\ e # <<>>
  /\ \E depth : Nested(depth, e) /\ depth[Len(e)] = 1
ReadBack(e) == /\ Update(Output(e)) = e
               /\ \A n \in 0..(Len(Output(e)) - 1) : Update(SubSeq(Output(e), 1, n)) = Wait

LEMMA RepliesReadBack ==
  ASSUME NEW S, Specials \subseteq S, EndLine \notin S, NEW e, IsReply(S, e)
  PROVE  ReadBack(e)
<1>1. PICK depth : Nested(depth, e) /\ depth[Len(e)] = 0
  BY DEF IsReply
<1>2. e \in Seq(Token(S)) /\ e # <<>>
  BY DEF IsReply
<1>3. Update(Output(e)) = e
  BY <1>1, <1>2, ReplyIsRead
<1>4. \A n \in 0..(Len(Output(e)) - 1) : Update(SubSeq(Output(e), 1, n)) = Wait
  BY <1>1, <1>2, ReplyIsAwaited
<1> QED
  BY <1>3, <1>4 DEF ReadBack

LEMMA CutsAreBad ==
  ASSUME NEW S, Specials \subseteq S, NEW e, IsCut(S, e)
  PROVE  Update(Output(e)) = EndOfFile
BY ReplyIsRead DEF IsCut

LEMMA NilIsReply ==
  ASSUME NEW S, NEW a \in Unmarked(S) \ {"(", ")"}
  PROVE  IsReply(S, <<Symbol(a)>>)
<1> DEFINE token == Symbol(a)
           e == <<token>>
           depth == [i \in 0..1 |-> 0]
<1>1. token \in AtomOf(S)
  BY DEF AtomOf
<1>2. Change(token) = 0 /\ token \in Token(S)
  BY <1>1, AtomChanges DEF Token
<1> HIDE DEF token
<1>3. e \in Seq(Token(S)) /\ e # <<>> /\ Len(e) = 1 /\ e[1] = token
  BY <1>2
<1>4. depth[0] = 0 /\ depth[1] = 0 /\ \A i \in 1..1 : i = 1 /\ i - 1 = 0
  OBVIOUS
<1> HIDE DEF depth, e
<1>5. Nested(depth, e)
  BY <1>2, <1>3, <1>4 DEF Nested
<1> QED
  BY <1>3, <1>4, <1>5 DEF IsReply, e, token

LEMMA OpenedIsCut ==
  ASSUME NEW S, NEW x, Balanced(S, x)
  PROVE  IsCut(S, <<Open>> \o x)
<1> DEFINE e == <<Open>> \o x
           m == Len(x)
<1>1. x \in Seq(Token(S)) /\ m \in Nat /\ Reads(ByDepth, 1, x, 1)
  BY DEF Balanced
<1>2. PICK g : /\ g[0] = 1 /\ g[m] = 1 /\ \A i \in 0..m : g[i] \in Nat \ {0}
               /\ \A i \in 1..m : g[i] = g[i - 1] + Change(x[i])
  BY <1>1, DepthStays
<1>3. e \in Seq(Token(S)) /\ Len(e) = m + 1 /\ e[1] = Open /\ \A i \in 2..(m + 1) : e[i] = x[i - 1]
  <2>1. <<Open>> \in Seq(Token(S)) /\ Len(<<Open>>) = 1
    BY DEF Token
  <2>2. /\ e \in Seq(Token(S)) /\ Len(e) = Len(<<Open>>) + Len(x)
        /\ \A i \in 1..(Len(<<Open>>) + Len(x)) :
             e[i] = IF i <= Len(<<Open>>) THEN <<Open>>[i] ELSE x[i - Len(<<Open>>)]
    BY <1>1, <2>1, ConcatProperties
  <2> HIDE DEF e
  <2> QED
    BY <1>1, <2>1, <2>2
<1> DEFINE depth == [i \in 0..(m + 1) |-> IF i = 0 THEN 0 ELSE g[i - 1]]
<1> HIDE DEF m, e
<1>4. depth[0] = 0 /\ \A i \in 1..(m + 1) : depth[i] = g[i - 1]
  BY <1>1
<1> HIDE DEF depth
<1>5. ASSUME NEW i \in 1..(m + 1)
      PROVE  depth[i] \in Nat /\ depth[i] = depth[i - 1] + Change(e[i]) /\ depth[i] # 0
  <2>1. i - 1 \in 0..m
    BY <1>1
  <2>2. depth[i] = g[i - 1] /\ depth[i] \in Nat \ {0}
    BY <1>2, <1>4, <2>1
  <2>3. depth[i] = depth[i - 1] + Change(e[i])
    <3>1. CASE i = 1
      BY <1>2, <1>3, <1>4, <2>2, <3>1, Parentheses
    <3>2. CASE i # 1
      <4>1. i - 1 \in 1..m /\ i - 1 \in 1..(m + 1) /\ i \in 2..(m + 1)
        BY <1>1, <3>2
      <4> QED
        BY <1>2, <1>3, <1>4, <2>2, <4>1
    <3> QED
      BY <3>1, <3>2
  <2> QED
    BY <2>2, <2>3
<1>6. Nested(depth, e)
  BY <1>3, <1>4, <1>5 DEF Nested
<1>7. e # <<>> /\ depth[Len(e)] = 1
  <2>1. m + 1 \in 1..(m + 1) /\ (m + 1) - 1 = m
    BY <1>1
  <2> QED
    BY <1>2, <1>3, <1>4, <2>1
<1> QED
  BY <1>3, <1>6, <1>7 DEF IsCut, e

LEMMA ListIsReply ==
  ASSUME NEW S, NEW x, Balanced(S, x)
  PROVE  IsReply(S, List(x))
<1> DEFINE c == <<Open>> \o x
           e == c \o <<Close>>
           k == Len(c)
<1>1. IsCut(S, c)
  BY OpenedIsCut
<1>2. PICK f : Nested(f, c) /\ f[k] = 1
  BY <1>1 DEF IsCut
<1>3. c \in Seq(Token(S)) /\ k \in Nat /\ k >= 1
  BY <1>1 DEF IsCut
<1>4. List(x) = e
  BY DEF List
<1> HIDE DEF c
<1>5. e \in Seq(Token(S)) /\ Len(e) = k + 1 /\ e[k + 1] = Close /\ \A i \in 1..k : e[i] = c[i]
  <2>1. <<Close>> \in Seq(Token(S)) /\ Len(<<Close>>) = 1 /\ <<Close>>[1] = Close
    BY DEF Token
  <2>2. /\ e \in Seq(Token(S)) /\ Len(e) = Len(c) + Len(<<Close>>)
        /\ \A i \in 1..(Len(c) + Len(<<Close>>)) :
             e[i] = IF i <= Len(c) THEN c[i] ELSE <<Close>>[i - Len(c)]
    BY <1>3, <2>1, ConcatProperties
  <2> HIDE DEF e
  <2> QED
    BY <1>3, <2>1, <2>2
<1> DEFINE depth == [i \in 0..(k + 1) |-> IF i = k + 1 THEN 0 ELSE f[i]]
<1> HIDE DEF k, e
<1>6. depth[k + 1] = 0 /\ \A i \in 0..k : depth[i] = f[i]
  BY <1>3
<1> HIDE DEF depth
<1>7. ASSUME NEW i \in 1..(k + 1)
      PROVE  depth[i] \in Nat /\ depth[i] = depth[i - 1] + Change(e[i]) /\ (i < k + 1 => depth[i] # 0)
  <2>1. CASE i <= k
    <3>1. i \in 1..k /\ i - 1 \in 0..k /\ i \in 0..k /\ (i < k \/ i = k)
      BY <1>3, <2>1
    <3>2. f[i] \in Nat /\ f[i] = f[i - 1] + Change(c[i]) /\ f[i] # 0
      BY <1>2, <3>1 DEF Nested, k
    <3> QED
      BY <1>5, <1>6, <3>1, <3>2
  <2>2. CASE i = k + 1
    <3>1. i - 1 = k /\ k \in 0..k
      BY <1>3, <2>2
    <3> QED
      BY <1>2, <1>5, <1>6, <2>2, <3>1, Parentheses
  <2> QED
    BY <1>3, <2>1, <2>2
<1>8. depth[0] = 0
  BY <1>2, <1>3, <1>6 DEF Nested
<1>9. Nested(depth, e)
  BY <1>5, <1>7, <1>8 DEF Nested
<1>10. e # <<>> /\ depth[Len(e)] = 0
  BY <1>3, <1>5, <1>6
<1> QED
  BY <1>4, <1>5, <1>9, <1>10 DEF IsReply

(* What the server prints itself, beside file names and texts: the names    *)
(* that stand for themselves, the messages of errors, and numbers.          *)
SymbolName ==
  {"success", ".", "t", "nil", "error", "parse-error", "complete-error", "file-read-error",
   "no-such-entry", "cannot-load-database", "available", "deprecated", "not available", "not-accessible"}
  \cup Severity
ErrorMessage ==
  {"failed to parse file", "failed to perform code completion", "failed to read unsaved buffer",
   "failed reset unsaved buffer", "failed to load compilation database from directory"}
Numeral == {ToString(n) : n \in Nat}

(* A number never looks like a parenthesis, a quote or the end.             *)
NumbersArePlain == Numeral \cap {DQuote, Newline, EndLine, "(", ")"} = {}

(* An alphabet that replies can be printed in.                              *)
Plain == Specials \cup SymbolName \cup ErrorMessage \cup Numeral \cup {",", " "}
Alphabet(S) == Plain \subseteq S /\ EndLine \notin S

LEMMA PlainIsAlphabet ==
  ASSUME NumbersArePlain, NEW S, EndLine \notin S
  PROVE  Alphabet(Plain \cup S)
<1>1. EndLine \notin SymbolName /\ EndLine \notin ErrorMessage
  BY DEF SymbolName, Severity, ErrorMessage, EndLine
<1>2. EndLine \notin Specials /\ EndLine \notin {",", " "}
  BY DEF Specials, DQuote, Backslash, EndLine
<1>3. EndLine \notin Numeral
  BY DEF NumbersArePlain
<1> QED
  BY <1>1, <1>2, <1>3 DEF Alphabet, Plain

LEMMA AlphabetHas ==
  ASSUME NEW S, Alphabet(S)
  PROVE  Specials \subseteq S /\ EndLine \notin S
BY DEF Alphabet, Plain

LEMMA NameIsAtom ==
  ASSUME NEW S, Alphabet(S), NEW a \in SymbolName
  PROVE  Symbol(a) \in AtomOf(S) /\ a \in Unmarked(S) \ {"(", ")"}
<1>1. a \notin {DQuote, Newline, EndLine, "(", ")"}
  BY DEF SymbolName, Severity, DQuote, Newline, EndLine
<1>2. a \in S
  BY DEF Alphabet, Plain
<1>3. a \in Unmarked(S) \ {"(", ")"}
  BY <1>1, <1>2 DEF Unmarked
<1> QED
  BY <1>3 DEF AtomOf

LEMMA NumberIsAtom ==
  ASSUME NumbersArePlain, NEW S, Alphabet(S), NEW n \in Nat
  PROVE  NumberToken(n) \in AtomOf(S)
<1>1. ToString(n) \in Numeral
  BY DEF Numeral
<1>2. ToString(n) \in Unmarked(S) \ {"(", ")"}
  BY <1>1 DEF Alphabet, Plain, NumbersArePlain, Unmarked
<1> QED
  BY <1>2 DEF AtomOf, NumberToken

LEMMA TextIsAtom ==
  ASSUME NEW S, NEW s \in Seq(S)
  PROVE  String(s) \in AtomOf(S)
BY DEF AtomOf

(* A pair of a name and more, as errors are, and without its end.           *)
Enclosed(a, b, y) == <<Open, a, b>> \o y \o <<Close>>

LEMMA EnclosedIsReply ==
  ASSUME NEW S, NEW a \in AtomOf(S), NEW b \in AtomOf(S), NEW y, Balanced(S, y)
  PROVE  IsReply(S, Enclosed(a, b, y)) /\ IsCut(S, Cut(Enclosed(a, b, y)))
<1> DEFINE ab == <<a, b>>
           x == ab \o y
           c == <<Open>> \o x
           e == <<Open, a, b>> \o y \o <<Close>>
<1>1. ab \in Seq(AtomOf(S)) /\ <<Open, a, b>> = <<Open>> \o ab
  OBVIOUS
<1> HIDE DEF ab
<1>2. Balanced(S, ab)
  BY <1>1, AtomsBalance
<1>3. Balanced(S, x)
  BY <1>2, BothBalance
<1>4. /\ ab \in Seq(Token(S)) /\ y \in Seq(Token(S)) /\ x \in Seq(Token(S))
      /\ <<Open>> \in Seq(Token(S)) /\ <<Close>> \in Seq(Token(S))
  BY <1>2, <1>3 DEF Balanced, Token
<1>5. (<<Open>> \o ab) \o y = c
  BY <1>4, Associative
<1>6. e = c \o <<Close>>
  BY <1>1, <1>5
<1>7. IsReply(S, e)
  <2>1. e = List(x)
    BY <1>6 DEF List
  <2> QED
    BY <1>3, <2>1, ListIsReply
<1>8. Cut(e) = c
  <2> HIDE DEF x
  <2>1. c \in Seq(Token(S))
    BY <1>4, ConcatProperties
  <2> HIDE DEF c, e
  <2>2. /\ Len(e) = Len(c) + Len(<<Close>>) /\ Len(<<Close>>) = 1
        /\ \A i \in 1..(Len(c) + Len(<<Close>>)) :
             e[i] = IF i <= Len(c) THEN c[i] ELSE <<Close>>[i - Len(c)]
    BY <1>4, <1>6, <2>1, ConcatProperties
  <2>3. Len(e) - 1 = Len(c) /\ Len(c) \in Nat /\ \A i \in 1..Len(c) : e[i] = c[i] /\ c[i] \in Token(S)
    BY <2>1, <2>2
  <2> DEFINE part == SubSeq(e, 1, Len(c))
  <2>4. /\ part \in Seq(Token(S)) /\ Len(part) = IF 1 <= Len(c) THEN Len(c) - 1 + 1 ELSE 0
        /\ \A i \in 1..(Len(c) - 1 + 1) : part[i] = e[1 + i - 1]
    BY <2>3, SubSeqProperties
  <2>5. Len(c) - 1 + 1 = Len(c) /\ \A i \in 1..Len(c) : 1 + i - 1 = i
    BY <2>3
  <2> HIDE DEF part
  <2>6. Len(part) = Len(c) /\ \A i \in 1..Len(c) : part[i] = c[i]
    BY <2>3, <2>4, <2>5
  <2>7. part = c
    BY <2>1, <2>4, <2>6
  <2> QED
    BY <2>3, <2>7 DEF Cut, part
<1>9. IsCut(S, c)
  BY <1>3, OpenedIsCut
<1> QED
  BY <1>7, <1>8, <1>9 DEF Enclosed

(* The replies, one by one.                                                 *)
LEMMA SuccessIsReply ==
  ASSUME NEW S, Alphabet(S)
  PROVE  IsReply(S, Success)
<1> DEFINE a == Symbol("success")
           b == Symbol(".")
           c == Symbol("t")
           x == <<a, b, c>>
<1>1. a \in AtomOf(S) /\ b \in AtomOf(S) /\ c \in AtomOf(S)
  <2>1. "success" \in SymbolName /\ "." \in SymbolName /\ "t" \in SymbolName
    BY DEF SymbolName
  <2> QED
    BY <2>1, NameIsAtom
<1>2. Success = List(x)
  BY DEF Success
<1> HIDE DEF a, b, c
<1>3. x \in Seq(AtomOf(S))
  BY <1>1
<1> QED
  BY <1>2, <1>3, AtomsBalance, ListIsReply

LEMMA NilIsRead ==
  ASSUME NEW S, Alphabet(S)
  PROVE  IsReply(S, Nil)
<1>1. "nil" \in SymbolName
  BY DEF SymbolName
<1> QED
  BY <1>1, NameIsAtom, NilIsReply DEF Nil

LEMMA ErrorIsReply ==
  ASSUME NEW S, Alphabet(S), NEW name \in SymbolName, NEW message \in ErrorMessage, NEW args \in Seq(AtomOf(S))
  PROVE  IsReply(S, Error(name, message, args)) /\ IsCut(S, Cut(Error(name, message, args)))
<1> DEFINE a == Symbol("error")
           b == Symbol(".")
           c == Symbol(name)
           t == <<message>>
           d == String(t)
           cd == <<c, d>>
           x == cd \o args
           y == List(x)
<1>1. "error" \in SymbolName /\ "." \in SymbolName
  BY DEF SymbolName
<1>2. a \in AtomOf(S) /\ b \in AtomOf(S) /\ c \in AtomOf(S)
  BY <1>1, NameIsAtom
<1>3. d \in AtomOf(S)
  <2>0. message \in S
    BY DEF Alphabet, Plain
  <2>1. t \in Seq(S)
    BY <2>0
  <2> HIDE DEF t
  <2> QED
    BY <2>1, TextIsAtom
<1>4. Error(name, message, args) = Enclosed(a, b, y)
  BY DEF Error, Enclosed
<1> HIDE DEF a, b, c, d
<1>5. cd \in Seq(AtomOf(S))
  BY <1>2, <1>3
<1> HIDE DEF cd
<1>6. x \in Seq(AtomOf(S))
  BY <1>5, ConcatProperties
<1> HIDE DEF x
<1>7. Balanced(S, y)
  BY <1>6, AtomsBalance, ListBalances
<1> HIDE DEF y
<1>8. IsReply(S, Enclosed(a, b, y)) /\ IsCut(S, Cut(Enclosed(a, b, y)))
  BY <1>2, <1>7, EnclosedIsReply
<1> QED
  BY <1>4, <1>8

(* Each element of a list of lists.                                         *)
LEMMA EachBalances ==
  ASSUME NEW S, NEW n \in Nat, NEW seqs, seqs = [i \in 1..n |-> seqs[i]], \A i \in 1..n : Balanced(S, seqs[i])
  PROVE  IsReply(S, List(FlattenSeq(seqs))) /\ Balanced(S, List(FlattenSeq(seqs)))
BY ListsBalance, ListIsReply, ListBalances

(* Diagnostics as libclang has them.                                        *)
Reported(S, d) ==
  /\ d.file \in Seq(S) /\ d.message \in Seq(S) /\ d.severity \in Severity
  /\ d.line \in Nat /\ d.column \in Nat /\ d.offset \in Nat

LEMMA DiagnosticBalances ==
  ASSUME NumbersArePlain, NEW S, Alphabet(S), NEW d, Reported(S, d)
  PROVE  Balanced(S, DumpDiagnostic(d))
<1> DEFINE a == String(d.file)
           b == NumberToken(d.line)
           c == NumberToken(d.column)
           o == NumberToken(d.offset)
           e == Symbol(d.severity)
           f == String(d.message)
           x == <<a, b, c, o, e, f>>
<1>1. a \in AtomOf(S) /\ f \in AtomOf(S)
  BY TextIsAtom DEF Reported
<1>2. b \in AtomOf(S) /\ c \in AtomOf(S) /\ o \in AtomOf(S)
  BY NumberIsAtom DEF Reported
<1>3. e \in AtomOf(S)
  <2>1. d.severity \in SymbolName
    BY DEF Reported, SymbolName
  <2> QED
    BY <2>1, NameIsAtom
<1>4. DumpDiagnostic(d) = List(x)
  BY DEF DumpDiagnostic
<1> HIDE DEF a, b, c, o, e, f
<1>5. x \in Seq(AtomOf(S))
  BY <1>1, <1>2, <1>3
<1> QED
  BY <1>4, <1>5, AtomsBalance, ListBalances

LEMMA DiagnosticsAreReply ==
  ASSUME NumbersArePlain, NEW S, Alphabet(S), NEW n \in Nat, NEW diagnostics, DOMAIN diagnostics = 1..n,
         \A i \in 1..n : Reported(S, diagnostics[i])
  PROVE  IsReply(S, DiagnosticsReply(diagnostics)) /\ IsReply(S, CompletionDiagnosticsReply(diagnostics))
<1> DEFINE seqs == [i \in 1..n |-> DumpDiagnostic(diagnostics[i])]
<1>1. \A i \in 1..n : Balanced(S, seqs[i])
  BY DiagnosticBalances
<1>2. DiagnosticsReply(diagnostics) = List(FlattenSeq(seqs))
  BY DEF DiagnosticsReply
<1>3. seqs = [i \in 1..n |-> seqs[i]]
  OBVIOUS
<1> HIDE DEF seqs
<1>4. IsReply(S, DiagnosticsReply(diagnostics))
  BY <1>1, <1>2, <1>3, EachBalances
<1> QED
  BY <1>4 DEF CompletionDiagnosticsReply

(* The strings of texts.                                                    *)
LEMMA TextsBalance ==
  ASSUME NEW S, NEW n \in Nat, NEW texts, \A i \in 1..n : texts[i] \in Seq(S)
  PROVE  Balanced(S, List([i \in 1..n |-> String(texts[i])])) /\ IsReply(S, List([i \in 1..n |-> String(texts[i])]))
<1> DEFINE x == [i \in 1..n |-> String(texts[i])]
<1>1. x \in [1..n -> AtomOf(S)]
  BY TextIsAtom
<1> HIDE DEF x
<1>2. x \in Seq(AtomOf(S))
  BY <1>1, FunctionIsSeq
<1>3. Balanced(S, List(x)) /\ IsReply(S, List(x))
  BY <1>2, AtomsBalance, ListBalances, ListIsReply
<1> QED
  BY <1>3 DEF x

(* There is a first type without a name, or none.                           *)
LEMMA TypesAreReply ==
  ASSUME NEW S, NEW n \in Nat, NEW types, Len(types) = n, \A i \in 1..n : types[i] \in Seq(S)
  PROVE  IsReply(S, GetTypeReply(TRUE, types))
<1> DEFINE fits(k) == /\ \A i \in 1..k : types[i] # <<>>
                      /\ k < n => types[k + 1] = <<>>
           T == {k \in 0..n : k < n => types[k + 1] = <<>>}
           named == CHOOSE k \in 0..n : fits(k)
<1>1. \E k \in 0..n : fits(k)
  <2>1. n \in T /\ T \in SUBSET Nat
    OBVIOUS
  <2> HIDE DEF T
  <2>2. PICK k \in T : \A j \in T : k <= j
    BY <2>1, LeastElement
  <2>3. k \in 0..n /\ (k < n => types[k + 1] = <<>>)
    BY <2>2 DEF T
  <2>4. ASSUME NEW i \in 1..k, types[i] = <<>> PROVE FALSE
    <3>1. i - 1 \in 0..n /\ (i - 1) + 1 = i /\ i - 1 < k
      BY <2>3
    <3>2. i - 1 \in T
      BY <2>4, <3>1 DEF T
    <3> QED
      BY <2>2, <2>3, <3>1, <3>2
  <2> QED
    BY <2>3, <2>4
<1>2. named \in 0..n
  <2> HIDE DEF fits
  <2> QED
    BY <1>1
<1>3. GetTypeReply(TRUE, types) = List([i \in 1..named |-> String(types[i])])
  BY DEF GetTypeReply
<1> HIDE DEF named
<1>4. named \in Nat /\ \A i \in 1..named : types[i] \in Seq(S)
  BY <1>2
<1> QED
  BY <1>3, <1>4, TextsBalance

LEMMA CompileOptionsAreReply ==
  ASSUME NEW S, Alphabet(S), NEW n \in Nat, NEW commands, DOMAIN commands = 1..n, NEW dir,
         \A i \in 1..n : /\ commands[i].directory \in Seq(S)
                         /\ commands[i].args \in Seq(Seq(S))
  PROVE  IsReply(S, CompileOptionsReply(TRUE, dir, commands))
<1> DEFINE a == Symbol("success")
           b == Symbol(".")
           seqs == [i \in 1..n |-> CompileCommand(commands[i])]
           y == List(FlattenSeq(seqs))
<1>1. a \in AtomOf(S) /\ b \in AtomOf(S)
  <2>1. "success" \in SymbolName /\ "." \in SymbolName
    BY DEF SymbolName
  <2> QED
    BY <2>1, NameIsAtom
<1>2. ASSUME NEW i \in 1..n PROVE Balanced(S, CompileCommand(commands[i]))
  <2> DEFINE args == commands[i].args
             d == String(commands[i].directory)
             texts == List([k \in DOMAIN args |-> String(args[k])])
             rest == <<b, d>>
  <2>1. d \in AtomOf(S)
    BY TextIsAtom
  <2>2. Balanced(S, texts)
    <3>1. Len(args) \in Nat /\ DOMAIN args = 1..Len(args) /\ \A k \in 1..Len(args) : args[k] \in Seq(S)
      OBVIOUS
    <3> HIDE DEF args
    <3> QED
      BY <3>1, TextsBalance
  <2>3. CompileCommand(commands[i]) = List(texts \o rest)
    BY DEF CompileCommand
  <2> HIDE DEF texts, b, d
  <2>4. rest \in Seq(AtomOf(S))
    BY <1>1, <2>1
  <2> HIDE DEF rest
  <2>5. Balanced(S, texts \o rest)
    BY <2>2, <2>4, AtomsBalance, BothBalance
  <2> QED
    BY <2>3, <2>5, ListBalances
<1>3. CompileOptionsReply(TRUE, dir, commands) = Enclosed(a, b, y)
  BY DEF CompileOptionsReply, Enclosed
<1>4. Balanced(S, y)
  <2>1. seqs = [i \in 1..n |-> seqs[i]] /\ \A i \in 1..n : Balanced(S, seqs[i])
    BY <1>2
  <2> HIDE DEF seqs
  <2> QED
    BY <2>1, EachBalances
<1> HIDE DEF a, b, y
<1> QED
  BY <1>1, <1>3, <1>4, EnclosedIsReply

(* What a candidate is made of.                                             *)
CandidateState(S) ==
  [typed: Seq(S), resultType: Seq(S), prototype: Seq(S), annotationStart: Nat, car: Seq(S), cdr: Seq(Nat),
   typedTextSet: BOOLEAN, hasPrefix: BOOLEAN]

LEMMA PostCompTyped ==
  ASSUME NEW S, NEW st \in CandidateState(S), NEW chunk, Printed(chunk) \in Seq(S)
  PROVE  PostComp(st, chunk) \in CandidateState(S)
<1> DEFINE car == st.car \o Printed(chunk)
           range == <<Size(st.car), Size(car)>>
           cdr == st.cdr \o range
<1>1. st.car \in Seq(S) /\ st.cdr \in Seq(Nat)
  BY DEF CandidateState
<1>2. car \in Seq(S)
  BY <1>1, ConcatProperties
<1>3. range \in Seq(Nat)
  <2> HIDE DEF car
  <2>1. Size(st.car) \in Nat /\ Size(car) \in Nat
    BY <1>1, <1>2, SizeIsNat
  <2> QED
    BY <2>1
<1>4. cdr \in Seq(Nat)
  <2> HIDE DEF range
  <2> QED
    BY <1>1, <1>3, ConcatProperties
<1>5. PostComp(st, chunk) \in {st, [st EXCEPT !.car = car], [st EXCEPT !.car = car, !.cdr = cdr]}
  BY DEF PostComp
<1> HIDE DEF car, cdr
<1>6. /\ [st EXCEPT !.car = car] \in CandidateState(S)
      /\ [st EXCEPT !.car = car, !.cdr = cdr] \in CandidateState(S)
  BY <1>2, <1>4 DEF CandidateState
<1> QED
  BY <1>5, <1>6

LEMMA AddChunkTyped ==
  ASSUME NEW S, "," \in S, " " \in S, NEW st \in CandidateState(S), NEW chunk, chunk.text \in Seq(S),
         NEW prefix, NEW style
  PROVE  AddChunk(prefix, style, st, chunk) \in CandidateState(S)
<1> DEFINE prototype == st.prototype \o Printed(chunk)
           resultType == IF chunk.kind = "result type" THEN chunk.text ELSE st.resultType
           base == [st EXCEPT !.prototype = prototype, !.resultType = resultType]
           added == PostComp(base, chunk)
           start == Size(added.prototype)
           y == chunk.text
           chosen == [added EXCEPT !.typed = y, !.typedTextSet = TRUE, !.annotationStart = start]
           refused == [added EXCEPT !.typed = y, !.hasPrefix = FALSE]
<1>1. Printed(chunk) \in Seq(S)
  BY PrintedIsText
<1>2. prototype \in Seq(S) /\ resultType \in Seq(S)
  <2>1. st.prototype \in Seq(S) /\ st.resultType \in Seq(S)
    BY DEF CandidateState
  <2> QED
    BY <1>1, <2>1, ConcatProperties
<1>3. base \in CandidateState(S)
  <2> HIDE DEF prototype, resultType
  <2> QED
    BY <1>2 DEF CandidateState
<1>4. added \in CandidateState(S)
  <2> HIDE DEF base
  <2> QED
    BY <1>1, <1>3, PostCompTyped
<1>5. AddChunk(prefix, style, st, chunk) \in {st, added, chosen, refused}
  BY DEF AddChunk
<1> HIDE DEF added
<1>6. start \in Nat
  <2>1. added.prototype \in Seq(S)
    BY <1>4 DEF CandidateState
  <2> QED
    BY <2>1, SizeIsNat
<1> HIDE DEF start, y
<1>7. chosen \in CandidateState(S) /\ refused \in CandidateState(S)
  <2>1. y \in Seq(S)
    BY DEF y
  <2> QED
    BY <1>4, <1>6, <2>1 DEF CandidateState
<1> HIDE DEF chosen, refused
<1> QED
  BY <1>4, <1>5, <1>7

LEMMA LoopTyped ==
  ASSUME NEW S, NEW chunks, NEW n \in Nat, Texts(chunks, n, S), NEW prefix, NEW style
  PROVE  \E st : st[n] \in CandidateState(S) /\ Goes(st, chunks, n, prefix, style)
<1> DEFINE states == CandidateState(S)
           none == Nothing
           F == [i \in 1..n |-> [x \in states |-> AddChunk(prefix, style, x, chunks[i])]]
<1>1. F \in [1..n -> [states -> states]]
  <2>1. ASSUME NEW i \in 1..n, NEW x \in states PROVE AddChunk(prefix, style, x, chunks[i]) \in states
    BY AddChunkTyped DEF Texts
  <2> HIDE DEF states
  <2> QED
    BY <2>1
<1>2. none \in states
  BY EmptySeq DEF Nothing, CandidateState
<1> HIDE DEF F, states, none
<1>3. PICK st \in [0..n -> states] : st[0] = none /\ \A i \in 1..n : st[i] = F[i][st[i - 1]]
  BY <1>1, <1>2, RecursionSolved
<1>4. ASSUME NEW i \in 1..n PROVE st[i] = AddChunk(prefix, style, st[i - 1], chunks[i])
  <2>1. i - 1 \in 0..n /\ st[i - 1] \in states
    OBVIOUS
  <2>2. F[i][st[i - 1]] = AddChunk(prefix, style, st[i - 1], chunks[i])
    BY <2>1 DEF F
  <2> QED
    BY <1>3, <2>2
<1>5. Goes(st, chunks, n, prefix, style)
  BY <1>3, <1>4 DEF Goes, none
<1>6. st[n] \in states
  OBVIOUS
<1> QED
  BY <1>5, <1>6 DEF states

LEMMA CandidateTyped ==
  ASSUME NEW S, NEW completion, NEW n \in Nat, n = Len(completion.chunks), Texts(completion.chunks, n, S),
         NEW prefix, NEW style, NEW c \in Candidate(completion, prefix, style)
  PROVE  c \in CandidateState(S)
<1>1. PICK st : st[n] \in CandidateState(S) /\ Goes(st, completion.chunks, n, prefix, style)
  BY LoopTyped
<1>2. Candidate(completion, prefix, style) = Offered(completion, st[n])
  BY <1>1, CandidateOf
<1>3. c = st[n]
  BY <1>2 DEF Offered
<1> QED
  BY <1>1, <1>3

(* What libclang says of a completion.                                      *)
Described(S, completion, n) ==
  /\ n = Len(completion.chunks) /\ Texts(completion.chunks, n, S)
  /\ completion.brief \in Seq(S) /\ completion.priority \in Nat /\ completion.availability \in SymbolName

LEMMA CandidateBalances ==
  ASSUME NumbersArePlain, NEW S, Alphabet(S), NEW completion, NEW n \in Nat, Described(S, completion, n),
         NEW c \in CandidateState(S)
  PROVE  Balanced(S, CandidateReply(completion, c))
<1> DEFINE a1 == String(c.typed)
           a2 == NumberToken(completion.priority)
           a3 == String(c.resultType)
           a4 == String(completion.brief)
           a5 == String(c.prototype)
           a6 == NumberToken(c.annotationStart)
           first == <<a1, a2, a3, a4, a5, a6>>
           car == String(c.car)
           cars == <<car>>
           cdr == [i \in DOMAIN c.cdr |-> NumberToken(c.cdr[i])]
           post == List(cars \o cdr)
           a7 == Symbol(completion.availability)
           last == <<a7>>
<1>1. /\ c.typed \in Seq(S) /\ c.resultType \in Seq(S) /\ c.prototype \in Seq(S) /\ c.car \in Seq(S)
      /\ c.annotationStart \in Nat /\ c.cdr \in Seq(Nat)
  BY DEF CandidateState
<1>2. a1 \in AtomOf(S) /\ a3 \in AtomOf(S) /\ a4 \in AtomOf(S) /\ a5 \in AtomOf(S) /\ car \in AtomOf(S)
  BY <1>1, TextIsAtom DEF Described
<1>3. a2 \in AtomOf(S) /\ a6 \in AtomOf(S)
  BY <1>1, NumberIsAtom DEF Described
<1>4. a7 \in AtomOf(S)
  BY NameIsAtom DEF Described
<1>5. cdr \in Seq(AtomOf(S))
  <2> DEFINE k == Len(c.cdr)
  <2>1. k \in Nat /\ DOMAIN c.cdr = 1..k /\ \A i \in 1..k : c.cdr[i] \in Nat
    BY <1>1
  <2> HIDE DEF k
  <2>2. cdr \in [1..k -> AtomOf(S)]
    BY <2>1, NumberIsAtom
  <2> HIDE DEF cdr
  <2> QED
    BY <2>1, <2>2, FunctionIsSeq
<1>6. CandidateReply(completion, c) = List((first \o post) \o last)
  BY DEF CandidateReply
<1> HIDE DEF a1, a2, a3, a4, a5, a6, a7, car, cdr
<1>7. first \in Seq(AtomOf(S)) /\ cars \in Seq(AtomOf(S)) /\ last \in Seq(AtomOf(S))
  BY <1>2, <1>3, <1>4
<1> HIDE DEF first, cars, last
<1>8. cars \o cdr \in Seq(AtomOf(S))
  BY <1>5, <1>7, ConcatProperties
<1>9. Balanced(S, post)
  BY <1>8, AtomsBalance, ListBalances
<1> HIDE DEF post
<1>10. Balanced(S, first \o post)
  BY <1>7, <1>9, AtomsBalance, BothBalance
<1>11. Balanced(S, (first \o post) \o last)
  BY <1>7, <1>10, AtomsBalance, BothBalance
<1> QED
  BY <1>6, <1>11, ListBalances

LEMMA CandidatesAreReply ==
  ASSUME NumbersArePlain, NEW S, Alphabet(S), NEW n \in Nat, NEW completions, DOMAIN completions = 1..n,
         \A i \in 1..n : \E k \in Nat : Described(S, completions[i], k), NEW prefix, NEW style
  PROVE  IsReply(S, CandidatesReply(TRUE, completions, prefix, style))
<1> DEFINE made(i) == Candidate(completions[i], prefix, style)
           reply(i) == CandidateReply(completions[i], CHOOSE c \in made(i) : TRUE)
           seqs == [i \in 1..n |-> IF made(i) = {} THEN <<>> ELSE reply(i)]
<1>1. ASSUME NEW i \in 1..n PROVE Balanced(S, seqs[i])
  <2>1. CASE made(i) = {}
    <3>1. seqs[i] = <<>>
      BY <2>1
    <3>2. <<>> \in Seq(AtomOf(S))
      BY EmptySeq
    <3> HIDE DEF seqs
    <3>3. Balanced(S, <<>>)
      BY <3>2, AtomsBalance
    <3> QED
      BY <3>1, <3>3
  <2>2. CASE made(i) # {}
    <3>1. seqs[i] = reply(i)
      BY <2>2
    <3> DEFINE c == CHOOSE c \in made(i) : TRUE
    <3>2. c \in made(i)
      BY <2>2
    <3> HIDE DEF seqs, c
    <3>3. PICK k \in Nat : Described(S, completions[i], k)
      OBVIOUS
    <3>4. c \in CandidateState(S)
      BY <3>2, <3>3, CandidateTyped DEF Described
    <3>5. Balanced(S, CandidateReply(completions[i], c))
      BY <3>3, <3>4, CandidateBalances
    <3> QED
      BY <3>1, <3>5 DEF c
  <2> QED
    BY <2>1, <2>2
<1>2. CandidatesReply(TRUE, completions, prefix, style) = List(FlattenSeq(seqs))
  BY DEF CandidatesReply
<1>3. seqs = [i \in 1..n |-> seqs[i]]
  OBVIOUS
<1> HIDE DEF seqs
<1> QED
  BY <1>1, <1>2, <1>3, EachBalances

(* The replies that the properties try.                                     *)
LEMMA MoreCharacters ==
  ASSUME NEW A, NEW B, A \subseteq B, NEW x \in Seq(A)
  PROVE  x \in Seq(B)
<1>1. Len(x) \in Nat /\ x \in [1..Len(x) -> A]
  OBVIOUS
<1>2. x \in [1..Len(x) -> B]
  BY <1>1
<1> QED
  BY <1>1, <1>2

LEMMA MessagesHaveAlphabet ==
  ASSUME NumbersArePlain, NEW f \in Message, NEW t \in Message
  PROVE  \E S : Alphabet(S) /\ f \in Seq(S) /\ t \in Seq(S)
<1> DEFINE C == Range(f) \cup Range(t)
           S == Plain \cup C
<1>1. f \in Seq(Range(f)) /\ t \in Seq(Range(t)) /\ EndLine \notin C
  BY MessageAssumption DEF EndLine
<1>2. Range(f) \subseteq S /\ Range(t) \subseteq S
  OBVIOUS
<1> HIDE DEF C
<1>3. Alphabet(S)
  BY <1>1, PlainIsAlphabet
<1> HIDE DEF S
<1>4. f \in Seq(S) /\ t \in Seq(S)
  BY <1>1, <1>2, MoreCharacters
<1> QED
  BY <1>3, <1>4

LEMMA CompletionsHaveAlphabet ==
  ASSUME NumbersArePlain, NEW c \in Completion
  PROVE  \E S : Alphabet(S) /\ Described(S, c, Len(c.chunks))
<1> DEFINE chunks == c.chunks
           n == Len(chunks)
           C == Characters(chunks)
           D == C \cup Range(c.brief)
           S == Plain \cup D
<1>1. /\ c.availability \in SymbolName /\ c.priority \in Nat /\ c.brief \in Seq(Range(c.brief))
      /\ chunks \in Seq(Range(chunks))
      /\ \A i \in DOMAIN chunks : chunks[i].text \in Seq(Range(chunks[i].text))
  BY CompletionAssumption DEF SymbolName
<1>2. EndLine \notin Range(c.brief) /\ \A i \in DOMAIN chunks : EndLine \notin Range(chunks[i].text)
  BY TextAssumption DEF EndLine
<1>3. n \in Nat /\ DOMAIN chunks = 1..n
  BY <1>1
<1>4. EndLine \notin C
  <2>1. EndLine # "," /\ EndLine # " "
    BY DEF EndLine
  <2> HIDE DEF chunks
  <2> QED
    BY <1>2, <2>1 DEF Characters
<1>5. Texts(chunks, n, C)
  <2> HIDE DEF chunks, n
  <2> QED
    BY <1>1, <1>3, CharactersOfTexts
<1> HIDE DEF C
<1>6. C \subseteq S /\ Range(c.brief) \subseteq S /\ EndLine \notin D
  BY <1>2, <1>4
<1> HIDE DEF D
<1>7. Alphabet(S)
  BY <1>6, PlainIsAlphabet
<1> HIDE DEF S
<1>8. c.brief \in Seq(S)
  BY <1>1, <1>6, MoreCharacters
<1>9. Texts(chunks, n, S)
  BY <1>5, <1>6, MoreCharacters DEF Texts
<1>10. Described(S, c, n)
  BY <1>1, <1>8, <1>9 DEF Described
<1> QED
  BY <1>7, <1>10

LEMMA ErrorsAreReplies ==
  ASSUME NumbersArePlain, NEW S, Alphabet(S), NEW f \in Seq(S), NEW t \in Seq(S)
  PROVE  /\ IsReply(S, ParseReply(FALSE, f)) /\ IsReply(S, CompleteReply(FALSE, f, 1, 2))
         /\ IsReply(S, CompileOptionsReply(FALSE, f, <<>>))
         /\ IsCut(S, SetUnsavedReply(FALSE, f, t)) /\ IsCut(S, ResetUnsavedReply(FALSE, f))
<1> DEFINE a == String(f)
           b == String(t)
           m == NumberToken(1)
           n == NumberToken(2)
           one == <<a>>
           two == <<a, b>>
           all == <<a, m, n>>
<1>1. a \in AtomOf(S) /\ b \in AtomOf(S) /\ m \in AtomOf(S) /\ n \in AtomOf(S)
  BY TextIsAtom, NumberIsAtom
<1>2. /\ ParseReply(FALSE, f) = Error("parse-error", "failed to parse file", one)
      /\ CompleteReply(FALSE, f, 1, 2) = Error("complete-error", "failed to perform code completion", all)
      /\ CompileOptionsReply(FALSE, f, <<>>)
           = Error("cannot-load-database", "failed to load compilation database from directory", one)
      /\ SetUnsavedReply(FALSE, f, t) = Cut(Error("file-read-error", "failed to read unsaved buffer", two))
      /\ ResetUnsavedReply(FALSE, f) = Cut(Error("no-such-entry", "failed reset unsaved buffer", one))
  BY DEF ParseReply, CompleteReply, CompileOptionsReply, SetUnsavedReply, ResetUnsavedReply
<1> HIDE DEF a, b, m, n
<1>3. one \in Seq(AtomOf(S)) /\ two \in Seq(AtomOf(S)) /\ all \in Seq(AtomOf(S))
  BY <1>1
<1> HIDE DEF one, two, all
<1>4. /\ "parse-error" \in SymbolName /\ "complete-error" \in SymbolName /\ "cannot-load-database" \in SymbolName
      /\ "file-read-error" \in SymbolName /\ "no-such-entry" \in SymbolName
  BY DEF SymbolName
<1>5. /\ "failed to parse file" \in ErrorMessage /\ "failed to perform code completion" \in ErrorMessage
      /\ "failed to load compilation database from directory" \in ErrorMessage
      /\ "failed to read unsaved buffer" \in ErrorMessage /\ "failed reset unsaved buffer" \in ErrorMessage
  BY DEF ErrorMessage
<1> QED
  BY <1>2, <1>3, <1>4, <1>5, ErrorIsReply

LEMMA DiagnosticsOfMessages ==
  ASSUME NumbersArePlain, NEW S, Alphabet(S), NEW f \in Seq(S), NEW t \in Seq(S)
  PROVE  LET diagnostic(a, b) == [file |-> a, line |-> 1, column |-> 2, offset |-> 3, severity |-> "error",
                                  message |-> b]
         IN  /\ IsReply(S, DiagnosticsReply(<<>>))
             /\ IsReply(S, CompletionDiagnosticsReply(<<diagnostic(f, t), diagnostic(t, f)>>))
<1> DEFINE diagnostic(a, b) == [file |-> a, line |-> 1, column |-> 2, offset |-> 3, severity |-> "error",
                                message |-> b]
           none == <<>>
           both == <<diagnostic(f, t), diagnostic(t, f)>>
<1>1. ASSUME NEW a \in Seq(S), NEW b \in Seq(S) PROVE Reported(S, diagnostic(a, b))
  <2>1. "error" \in Severity
    BY DEF Severity
  <2> QED
    BY <2>1 DEF Reported
<1>2. IsReply(S, DiagnosticsReply(none))
  <2>1. 0 \in Nat /\ DOMAIN none = 1..0 /\ \A i \in 1..0 : Reported(S, none[i])
    OBVIOUS
  <2> HIDE DEF none
  <2> QED
    BY <2>1, DiagnosticsAreReply
<1>3. IsReply(S, CompletionDiagnosticsReply(both))
  <2>1. Reported(S, diagnostic(f, t)) /\ Reported(S, diagnostic(t, f))
    BY <1>1
  <2> HIDE DEF diagnostic
  <2>2. DOMAIN both = 1..2 /\ \A i \in 1..2 : Reported(S, both[i])
    BY <2>1
  <2> HIDE DEF both
  <2>3. 2 \in Nat
    OBVIOUS
  <2> QED
    BY <2>2, <2>3, DiagnosticsAreReply
<1> QED
  BY <1>2, <1>3

LEMMA TypesOfMessages ==
  ASSUME NEW S, Alphabet(S), NEW f \in Seq(S), NEW t \in Seq(S)
  PROVE  IsReply(S, GetTypeReply(FALSE, <<>>)) /\ IsReply(S, GetTypeReply(TRUE, <<f, t>>))
<1> DEFINE types == <<f, t>>
<1>1. GetTypeReply(FALSE, <<>>) = Nil
  BY DEF GetTypeReply
<1>2. 2 \in Nat /\ Len(types) = 2 /\ \A i \in 1..2 : types[i] \in Seq(S)
  OBVIOUS
<1> HIDE DEF types
<1>3. IsReply(S, GetTypeReply(TRUE, types))
  BY <1>2, TypesAreReply
<1> QED
  BY <1>1, <1>3, NilIsRead DEF types

LEMMA CommandsOfMessages ==
  ASSUME NEW S, Alphabet(S), NEW f \in Seq(S), NEW t \in Seq(S)
  PROVE  LET command(a, d) == [args |-> <<a, d>>, directory |-> d]
         IN  IsReply(S, CompileOptionsReply(TRUE, f, <<command(f, t), command(t, t)>>))
<1> DEFINE command(a, d) == [args |-> <<a, d>>, directory |-> d]
           commands == <<command(f, t), command(t, t)>>
<1>1. ASSUME NEW a \in Seq(S), NEW d \in Seq(S)
      PROVE  command(a, d).directory \in Seq(S) /\ command(a, d).args \in Seq(Seq(S))
  OBVIOUS
<1>2. /\ command(f, t).directory \in Seq(S) /\ command(f, t).args \in Seq(Seq(S))
      /\ command(t, t).directory \in Seq(S) /\ command(t, t).args \in Seq(Seq(S))
  BY <1>1
<1> HIDE DEF command
<1>3. /\ 2 \in Nat /\ DOMAIN commands = 1..2
      /\ \A i \in 1..2 : commands[i].directory \in Seq(S) /\ commands[i].args \in Seq(Seq(S))
  BY <1>2
<1> HIDE DEF commands
<1>4. IsReply(S, CompileOptionsReply(TRUE, f, commands))
  BY <1>3, CompileOptionsAreReply
<1> QED
  BY <1>4 DEF commands, command

LEMMA CompletionsAreRead ==
  ASSUME NumbersArePlain, NEW c \in Completion
  PROVE  ReadBack(CandidatesReply(TRUE, <<c, c>>, <<>>, "exact"))
<1> DEFINE completions == <<c, c>>
           n == Len(c.chunks)
<1>1. PICK S : Alphabet(S) /\ Described(S, c, n)
  BY CompletionsHaveAlphabet
<1>2. n \in Nat
  <2>1. c.chunks \in Seq(Range(c.chunks))
    BY CompletionAssumption
  <2> QED
    BY <2>1
<1> HIDE DEF n
<1>3. 2 \in Nat /\ DOMAIN completions = 1..2 /\ \A i \in 1..2 : \E k \in Nat : Described(S, completions[i], k)
  BY <1>1, <1>2
<1> HIDE DEF completions
<1>4. IsReply(S, CandidatesReply(TRUE, completions, <<>>, "exact"))
  BY <1>1, <1>3, CandidatesAreReply
<1>5. Specials \subseteq S /\ EndLine \notin S
  BY <1>1, AlphabetHas
<1> QED
  BY <1>4, <1>5, RepliesReadBack DEF completions

(* Each of the replies with file names and texts in it is one expression.   *)
LEMMA MessagesAreRead ==
  ASSUME NumbersArePlain, NEW f \in Message, NEW t \in Message
  PROVE  LET diagnostic(a, b) == [file |-> a, line |-> 1, column |-> 2, offset |-> 3, severity |-> "error",
                                  message |-> b]
             command(a, d) == [args |-> <<a, d>>, directory |-> d]
         IN  /\ ReadBack(ParseReply(TRUE, f)) /\ ReadBack(ParseReply(FALSE, f))
             /\ ReadBack(CompleteReply(FALSE, f, 1, 2)) /\ ReadBack(SetUnsavedReply(TRUE, f, t))
             /\ ReadBack(DiagnosticsReply(<<>>))
             /\ ReadBack(CompletionDiagnosticsReply(<<diagnostic(f, t), diagnostic(t, f)>>))
             /\ ReadBack(GetTypeReply(FALSE, <<>>)) /\ ReadBack(GetTypeReply(TRUE, <<f, t>>))
             /\ ReadBack(CompileOptionsReply(FALSE, f, <<>>))
             /\ ReadBack(CompileOptionsReply(TRUE, f, <<command(f, t), command(t, t)>>))
<1> DEFINE diagnostic(a, b) == [file |-> a, line |-> 1, column |-> 2, offset |-> 3, severity |-> "error",
                                message |-> b]
           command(a, d) == [args |-> <<a, d>>, directory |-> d]
           diagnostics == CompletionDiagnosticsReply(<<diagnostic(f, t), diagnostic(t, f)>>)
           commands == CompileOptionsReply(TRUE, f, <<command(f, t), command(t, t)>>)
<1>1. PICK S : Alphabet(S) /\ f \in Seq(S) /\ t \in Seq(S)
  BY MessagesHaveAlphabet
<1>2. Specials \subseteq S /\ EndLine \notin S
  BY <1>1, AlphabetHas
<1>3. \A e : IsReply(S, e) => ReadBack(e)
  BY <1>2, RepliesReadBack
<1>5. ReadBack(ParseReply(TRUE, f)) /\ ReadBack(SetUnsavedReply(TRUE, f, t))
  BY <1>1, <1>3, SuccessIsReply DEF ParseReply, SetUnsavedReply
<1>6. /\ IsReply(S, ParseReply(FALSE, f)) /\ IsReply(S, CompleteReply(FALSE, f, 1, 2))
      /\ IsReply(S, CompileOptionsReply(FALSE, f, <<>>))
  BY <1>1, ErrorsAreReplies
<1>7. IsReply(S, DiagnosticsReply(<<>>)) /\ IsReply(S, diagnostics)
  BY <1>1, DiagnosticsOfMessages
<1>8. IsReply(S, GetTypeReply(FALSE, <<>>)) /\ IsReply(S, GetTypeReply(TRUE, <<f, t>>))
  BY <1>1, TypesOfMessages
<1>9. IsReply(S, commands)
  BY <1>1, CommandsOfMessages
<1> HIDE DEF diagnostics, commands
<1>10. /\ ReadBack(ParseReply(FALSE, f)) /\ ReadBack(CompleteReply(FALSE, f, 1, 2))
       /\ ReadBack(DiagnosticsReply(<<>>)) /\ ReadBack(diagnostics)
       /\ ReadBack(GetTypeReply(FALSE, <<>>)) /\ ReadBack(GetTypeReply(TRUE, <<f, t>>))
       /\ ReadBack(CompileOptionsReply(FALSE, f, <<>>)) /\ ReadBack(commands)
  BY <1>3, <1>6, <1>7, <1>8, <1>9
<1> QED
  BY <1>5, <1>10 DEF diagnostics, commands

(* Neither error about unsaved texts is read: the server prints one         *)
(* parenthesis too few, and Emacs meets the end of the buffer, whatever the *)
(* names of the files (Irony::setUnsaved, Irony::resetUnsaved). So          *)
(* ErrorsRead fails wherever one of them is printed.                        *)
THEOREM CutErrorsAreBad ==
  ASSUME NumbersArePlain, NEW f \in Message, NEW t \in Message
  PROVE  /\ Update(Output(SetUnsavedReply(FALSE, f, t))) = EndOfFile
         /\ Update(Output(ResetUnsavedReply(FALSE, f))) = EndOfFile
<1>1. PICK S : Alphabet(S) /\ f \in Seq(S) /\ t \in Seq(S)
  BY MessagesHaveAlphabet
<1>2. Specials \subseteq S /\ EndLine \notin S
  BY <1>1, AlphabetHas
<1>3. IsCut(S, SetUnsavedReply(FALSE, f, t)) /\ IsCut(S, ResetUnsavedReply(FALSE, f))
  BY <1>1, ErrorsAreReplies
<1>4. \A e : IsCut(S, e) => Update(Output(e)) = EndOfFile
  BY <1>2, CutsAreBad
<1> QED
  BY <1>3, <1>4

(* Emacs reads every reply as it was meant and not before it has ended, but *)
(* for the errors about unsaved texts, above. What ToString makes of a      *)
(* number is not known to the provers: the hypothesis says that it is no    *)
(* parenthesis, no quote and not the end of a reply, as the digits the      *)
(* server prints are (support::quoted, irony--server-command-update).       *)
THEOREM RepliesStayRead == ASSUME NumbersArePlain PROVE Spec => []RepliesRead
<1>1. ASSUME NEW e \in Reply PROVE ReadBack(e)
  <2> DEFINE diagnostic(f, t) == [file |-> f, line |-> 1, column |-> 2, offset |-> 3, severity |-> "error",
                                  message |-> t]
             command(a, d) == [args |-> <<a, d>>, directory |-> d]
             diagnostics(f, t) == CompletionDiagnosticsReply(<<diagnostic(f, t), diagnostic(t, f)>>)
             commands(f, t) == CompileOptionsReply(TRUE, f, <<command(f, t), command(t, t)>>)
             replies(f, t) ==
               {ParseReply(TRUE, f), ParseReply(FALSE, f), CompleteReply(FALSE, f, 1, 2), SetUnsavedReply(TRUE, f, t),
                DiagnosticsReply(<<>>), diagnostics(f, t), GetTypeReply(FALSE, <<>>), GetTypeReply(TRUE, <<f, t>>),
                CompileOptionsReply(FALSE, f, <<>>), commands(f, t)}
             candidates(c) == CandidatesReply(TRUE, <<c, c>>, <<>>, "exact")
             all == {replies(f, t) : f \in Message, t \in Message}
             more == {candidates(c) : c \in Completion}
  <2>1. Reply = more \cup UNION all
    BY DEF Reply
  <2>2. ASSUME NEW f \in Message, NEW t \in Message, e \in replies(f, t) PROVE ReadBack(e)
    <3>1. /\ ReadBack(ParseReply(TRUE, f)) /\ ReadBack(ParseReply(FALSE, f))
          /\ ReadBack(CompleteReply(FALSE, f, 1, 2)) /\ ReadBack(SetUnsavedReply(TRUE, f, t))
          /\ ReadBack(DiagnosticsReply(<<>>)) /\ ReadBack(diagnostics(f, t))
          /\ ReadBack(GetTypeReply(FALSE, <<>>)) /\ ReadBack(GetTypeReply(TRUE, <<f, t>>))
          /\ ReadBack(CompileOptionsReply(FALSE, f, <<>>)) /\ ReadBack(commands(f, t))
      BY MessagesAreRead
    <3> HIDE DEF diagnostics, commands
    <3> QED
      BY <2>2, <3>1
  <2>3. ASSUME NEW c \in Completion, e = candidates(c) PROVE ReadBack(e)
    BY <2>3, CompletionsAreRead
  <2> HIDE DEF replies, candidates
  <2>4. /\ \A x \in all : \E f \in Message : \E t \in Message : x = replies(f, t)
        /\ \A x \in more : \E c \in Completion : x = candidates(c)
    OBVIOUS
  <2> HIDE DEF all, more
  <2>5. (\E x \in all : e \in x) \/ e \in more
    BY <2>1
  <2>6. CASE \E x \in all : e \in x
    BY <2>2, <2>4, <2>6
  <2>7. CASE e \in more
    BY <2>3, <2>4, <2>7
  <2> QED
    BY <2>5, <2>6, <2>7
<1>2. Unread = {}
  BY <1>1 DEF Unread, ReadBack, Readable
<1>5. RepliesRead
  BY <1>2 DEF RepliesRead
<1> QED
  BY <1>5, PTL
=============================================================================
