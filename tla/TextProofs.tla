------------------------------ MODULE TextProofs ------------------------------
(***************************************************************************)
(* Theorems about the two readers of the text that the KAM-XL prints:      *)
(* PacketParser with StationTracker (for every set of characters and       *)
(* headers and chunks of every length), and PbbsSession (for a mailbox and *)
(* messages of any size).                                                  *)
(***************************************************************************)
EXTENDS StationTracker, PbbsSession, SubsequenceProofs, SequenceTheorems, FiniteSetTheorems, TLAPS

(***************************************************************************)
(* The packets: what the parser returns, piece by piece, is what the       *)
(* reference reads in the whole text at once.                              *)
(*                                                                         *)
(* The reference looks at positions (of the newlines, of the headers, of   *)
(* the reports); the program goes from character to character.  So each    *)
(* part of the reference gets a lemma that says what one more element at   *)
(* the end does to it (LinesAppend, PacketsAppend, HeardAppend), and each  *)
(* of the program's loops an induction whose step is that lemma.           *)
(***************************************************************************)

Text == Seq(Chars)
Packet == [header : Headers, payload : Seq(Text)]

\* The part of a text up to b is the same in a longer text.
LEMMA SubSeqOfAppend ==
  ASSUME NEW T, NEW s \in Seq(T), NEW x \in T, NEW a \in Nat \ {0}, NEW b \in Nat, b <= Len(s)
  PROVE  SubSeq(Append(s, x), a, b) = SubSeq(s, a, b)
<1> DEFINE u == Append(s, x)
<1>1. u \in Seq(T) /\ Len(u) = Len(s) + 1 /\ \A i \in 1..Len(s) : u[i] = s[i]
  OBVIOUS
<1> HIDE DEF u
<1>2. CASE a <= b
  <2>1. /\ a \in 1..(Len(s) + 1) /\ b \in (a - 1)..Len(s)
        /\ a \in 1..(Len(u) + 1) /\ b \in (a - 1)..Len(u)
    BY <1>1, <1>2
  <2>2. Len(SubSeq(s, a, b)) = b - a + 1 /\ Len(SubSeq(u, a, b)) = b - a + 1
    BY <1>1, <2>1
  <2>3. \A i \in 1..(b - a + 1) : /\ SubSeq(s, a, b)[i] = s[a + i - 1]
                                 /\ SubSeq(u, a, b)[i] = u[a + i - 1]
    BY <1>1, <2>1
  <2>4. \A i \in 1..(b - a + 1) : a + i - 1 \in 1..Len(s)
    BY <1>2
  <2>5. SubSeq(s, a, b) \in Seq(T) /\ SubSeq(u, a, b) \in Seq(T)
    BY <1>1, <2>1, SubSeqProperties
  <2> QED
    BY <1>1, <2>2, <2>3, <2>4, <2>5, SeqEqual
<1>3. CASE b < a
  <2>1. SubSeq(s, a, b) = << >> /\ SubSeq(u, a, b) = << >>
    BY <1>1, <1>3
  <2> QED
    BY <2>1
<1> QED
  BY <1>2, <1>3 DEF u

\* One more element at the end is one more at the end of the part.
LEMMA SubSeqToTheEnd ==
  ASSUME NEW T, NEW s \in Seq(T), NEW x \in T, NEW a \in 1..(Len(s) + 1)
  PROVE  SubSeq(Append(s, x), a, Len(s) + 1) = Append(SubSeq(s, a, Len(s)), x)
<1> DEFINE u == Append(s, x)
           n == Len(s)
           p == SubSeq(s, a, n)
           q == SubSeq(u, a, n + 1)
<1>1. n \in Nat /\ u \in Seq(T) /\ Len(u) = n + 1 /\ u[n + 1] = x /\ \A i \in 1..n : u[i] = s[i]
  OBVIOUS
<1>2. /\ p \in Seq(T) /\ Len(p) = n - a + 1
      /\ \A i \in 1..(n - a + 1) : p[i] = s[a + i - 1]
  BY <1>1, SubSeqProperties
<1> HIDE DEF u
<1>3. /\ q \in Seq(T) /\ Len(q) = n - a + 2
      /\ \A i \in 1..(n - a + 2) : q[i] = u[a + i - 1]
  BY <1>1, SubSeqProperties
<1> HIDE DEF n, p, q
<1>4. n \in Nat /\ a \in 1..(n + 1)
  BY <1>1 DEF n
<1>5. /\ Append(p, x) \in Seq(T) /\ Len(Append(p, x)) = n - a + 2
      /\ \A i \in 1..(n - a + 1) : Append(p, x)[i] = p[i]
      /\ Append(p, x)[n - a + 2] = x
  BY <1>4, <1>2
<1>6. ASSUME NEW i \in 1..(n - a + 2)
      PROVE  q[i] = Append(p, x)[i]
  <2>1. CASE i \in 1..(n - a + 1)
    <3>1. i \in 1..(n + 1) /\ a + i - 1 \in 1..n
      BY <1>4, <2>1
    <3>2. q[i] = u[a + i - 1] /\ p[i] = s[a + i - 1]
      BY <1>2, <1>3, <2>1
    <3> QED
      BY <1>1, <1>5, <2>1, <3>1, <3>2
  <2>2. CASE i = n - a + 2
    BY <1>1, <1>3, <1>5, <1>4, <2>2
  <2>3. n - a + 2 \in Nat /\ i \in Nat /\ (i \in 1..(n - a + 1) \/ i = n - a + 2)
    BY <1>4
  <2> QED
    BY <2>1, <2>2, <2>3, Zenon
<1>7. q = Append(p, x)
  BY <1>3, <1>5, <1>6, SeqEqual
<1> QED
  BY <1>7 DEF u, n, p, q

-----------------------------------------------------------------------------
(***************************************************************************)
(* Lines.                                                                  *)
(***************************************************************************)
LEMMA StripType ==
  ASSUME NEW oneLine \in Text
  PROVE  RStripCR(oneLine) \in Text
<1> DEFINE kept == {i \in 1..Len(oneLine) : oneLine[i] # CR}
           m == Max(kept \union {0})
<1>1. Len(oneLine) \in Nat
  BY DEF Text
<1>2. kept \union {0} \in SUBSET (0..Len(oneLine)) /\ kept \union {0} # {}
  BY <1>1
<1>3. m \in 0..Len(oneLine)
  <2> HIDE DEF kept
  <2> QED
    BY <1>1, <1>2, MaxMember
<1> HIDE DEF m
<1>4. SubSeq(oneLine, 1, m) \in Text
  BY <1>1, <1>3, SubSeqProperties DEF Text
<1> QED
  BY <1>4 DEF RStripCR, m

Ends(text) == Ascending(Len(text), NewlinesIn(text))
LastEnd(text) == Max(NewlinesIn(text) \union {0})

LEMMA NewlinesAppend ==
  ASSUME NEW text \in Text, NEW c \in Chars
  PROVE  NewlinesIn(Append(text, c)) =
           NewlinesIn(text) \cup (IF c = LF THEN {Len(text) + 1} ELSE {})
<1> DEFINE u == Append(text, c)
           n == Len(text)
<1>1. n \in Nat /\ Len(u) = n + 1 /\ u[n + 1] = c /\ \A i \in 1..n : u[i] = text[i]
  BY DEF Text
<1> HIDE DEF u, n
<1>2. 1..(n + 1) = (1..n) \cup {n + 1}
  BY <1>1
<1>3. NewlinesIn(u) = {i \in (1..n) \cup {n + 1} : u[i] = LF}
  BY <1>1, <1>2 DEF NewlinesIn
<1>4. NewlinesIn(text) = {i \in 1..n : text[i] = LF}
  BY DEF NewlinesIn, n
<1>5. NewlinesIn(u) = NewlinesIn(text) \cup (IF c = LF THEN {n + 1} ELSE {})
  BY <1>1, <1>3, <1>4
<1> QED
  BY <1>5 DEF u, n

LEMMA EndsAppend ==
  ASSUME NEW text \in Text, NEW c \in Chars
  PROVE  Ends(Append(text, c)) = IF c = LF THEN Append(Ends(text), Len(text) + 1) ELSE Ends(text)
<1> DEFINE u == Append(text, c)
           n == Len(text)
           old == NewlinesIn(text)
           kept == NewlinesIn(u)
<1>1. n \in Nat /\ Len(u) = n + 1 /\ n + 1 \notin 1..n
  BY DEF Text
<1>2. old \subseteq 1..n
  BY DEF NewlinesIn
<1>3. kept = old \cup (IF c = LF THEN {n + 1} ELSE {})
  BY NewlinesAppend
<1> HIDE DEF u, n, old, kept
<1>4. (\A i \in 1..n : i \in old <=> i \in kept) /\ (n + 1 \in kept <=> c = LF)
  BY <1>1, <1>2, <1>3
<1>5. Ascending(n + 1, kept) = IF n + 1 \in kept THEN Append(Ascending(n, old), n + 1)
                               ELSE Ascending(n, old)
  BY <1>1, <1>4, AscendingNext
<1>6. Ends(u) = Ascending(n + 1, kept) /\ Ends(text) = Ascending(n, old)
  BY <1>1, Zenon DEF Ends, kept, old, n
<1>7. Ends(u) = IF c = LF THEN Append(Ends(text), n + 1) ELSE Ends(text)
  BY <1>4, <1>5, <1>6, Zenon
<1> QED
  BY <1>7 DEF u, n

LEMMA EndsType ==
  ASSUME NEW text \in Text
  PROVE  /\ Ends(text) \in Seq(1..Len(text))
         /\ \A j, k \in 1..Len(Ends(text)) : j < k => Ends(text)[j] < Ends(text)[k]
BY AscendingEnumerates DEF Ends, Enumerates, Text

LEMMA LastEndType ==
  ASSUME NEW text \in Text
  PROVE  LastEnd(text) \in 0..Len(text)
<1>1. Len(text) \in Nat /\ NewlinesIn(text) \union {0} \in SUBSET (0..Len(text))
  BY DEF Text, NewlinesIn
<1> QED
  BY <1>1, MaxMember DEF LastEnd

LEMMA LastEndAppend ==
  ASSUME NEW text \in Text, NEW c \in Chars
  PROVE  LastEnd(Append(text, c)) = IF c = LF THEN Len(text) + 1 ELSE LastEnd(text)
<1> DEFINE u == Append(text, c)
           n == Len(text)
           S == NewlinesIn(u) \union {0}
<1>1. n \in Nat /\ NewlinesIn(text) \subseteq 1..n
  BY DEF Text, NewlinesIn
<1>2. NewlinesIn(u) = NewlinesIn(text) \cup (IF c = LF THEN {n + 1} ELSE {})
  BY NewlinesAppend
<1> HIDE DEF u, n
<1>3. CASE c = LF
  <2>1. n + 1 \in Nat /\ S \in SUBSET (0..(n + 1)) /\ n + 1 \in S
    BY <1>1, <1>2, <1>3
  <2> HIDE DEF S
  <2>2. Max(S) \in S /\ \A y \in S : Max(S) >= y
    BY <2>1, MaxMember
  <2>3. Max(S) \in 0..(n + 1) /\ Max(S) >= n + 1
    BY <2>1, <2>2
  <2>4. Max(S) = n + 1
    BY <1>1, <2>3
  <2> QED
    BY <1>3, <2>4 DEF S, LastEnd, u, n
<1>4. CASE c # LF
  <2>1. NewlinesIn(u) = NewlinesIn(text)
    BY <1>2, <1>4
  <2> QED
    BY <1>4, <2>1, Zenon DEF LastEnd, u
<1> QED
  BY <1>3, <1>4

\* Where the last line ends.
LEMMA EndsLast ==
  ASSUME NEW text \in Text
  PROVE  LastEnd(text) = IF Ends(text) = << >> THEN 0 ELSE Ends(text)[Len(Ends(text))]
<1> DEFINE Good(t) == LastEnd(t) = IF Ends(t) = << >> THEN 0 ELSE Ends(t)[Len(Ends(t))]
           P == {t \in Text : Good(t)}
<1>1. <<>> \in P
  <2>1. <<>> \in Text /\ Len(<<>>) = 0 /\ NewlinesIn(<<>>) = {}
    BY DEF Text, NewlinesIn
  <2>2. Ends(<<>>) = <<>>
    BY <2>1, AscendingZero, Zenon DEF Ends
  <2>3. LastEnd(<<>>) \in 0..0
    BY <2>1, LastEndType, Zenon
  <2> QED
    BY <2>1, <2>2, <2>3
<1>2. ASSUME NEW t \in Text, NEW c \in Chars, t \in P
      PROVE  Append(t, c) \in P
  <2>1. Append(t, c) \in Text /\ Len(t) \in Nat
    BY DEF Text
  <2>2. Ends(t) \in Seq(Nat)
    <3>1. Ends(t) \in Seq(1..Len(t))
      BY EndsType
    <3> QED
      BY <2>1, <3>1
  <2>3. CASE c = LF
    <3>1. LastEnd(Append(t, c)) = Len(t) + 1 /\ Ends(Append(t, c)) = Append(Ends(t), Len(t) + 1)
      BY <2>3, LastEndAppend, EndsAppend
    <3>2. /\ Append(Ends(t), Len(t) + 1) # << >>
          /\ Append(Ends(t), Len(t) + 1)[Len(Append(Ends(t), Len(t) + 1))] = Len(t) + 1
      BY <2>1, <2>2
    <3> QED
      BY <2>1, <3>1, <3>2
  <2>4. CASE c # LF
    <3>1. LastEnd(Append(t, c)) = LastEnd(t) /\ Ends(Append(t, c)) = Ends(t)
      BY <2>4, LastEndAppend, EndsAppend
    <3> QED
      BY <1>2, <2>1, <3>1
  <2> QED
    BY <2>3, <2>4
<1> HIDE DEF P
<1>3. Seq(Chars) \subseteq P
  BY <1>1, <1>2, SeqInd DEF Text
<1> QED
  BY <1>3 DEF P, Text

Start(text, k) == IF k = 1 THEN 1 ELSE Ends(text)[k - 1] + 1
Line(text, k) == SubSeq(text, Start(text, k), Ends(text)[k] - 1)

LEMMA LinesAre ==
  ASSUME NEW text
  PROVE  CompleteLines(text) = [k \in 1..Len(Ends(text)) |-> RStripCR(Line(text, k))]
BY DEF CompleteLines, Ends, Line, Start

LEMMA LineType ==
  ASSUME NEW text \in Text, NEW k \in 1..Len(Ends(text))
  PROVE  /\ Start(text, k) \in Nat \ {0} /\ Ends(text)[k] - 1 \in 0..Len(text)
         /\ Line(text, k) \in Text
<1> DEFINE e == Ends(text)
           a == Start(text, k)
           b == e[k] - 1
<1>1. Len(text) \in Nat /\ e \in Seq(1..Len(text))
  BY EndsType DEF Text
<1> HIDE DEF e
<1>2. e[k] \in 1..Len(text) /\ (k # 1 => k - 1 \in 1..Len(e))
  BY <1>1 DEF e
<1>3. k # 1 => e[k - 1] \in 1..Len(text)
  BY <1>1, <1>2
<1>4. a \in Nat \ {0} /\ b \in 0..Len(text)
  BY <1>1, <1>2, <1>3 DEF Start, e
<1> HIDE DEF a, b
<1>5. SubSeq(text, a, b) \in Text
  BY <1>1, <1>4, SubSeqProperties DEF Text
<1> QED
  BY <1>4, <1>5 DEF a, b, e, Line

LEMMA LinesType ==
  ASSUME NEW text \in Text
  PROVE  CompleteLines(text) \in Seq(Text)
<1>1. Ends(text) \in Seq(1..Len(text))
  BY EndsType
<1>2. Len(Ends(text)) \in Nat /\ \A k \in 1..Len(Ends(text)) : RStripCR(Line(text, k)) \in Text
  BY <1>1, LineType, StripType
<1> QED
  BY <1>2, LinesAre

LEMMA RemainderAppend ==
  ASSUME NEW text \in Text, NEW c \in Chars
  PROVE  Remainder(Append(text, c)) = IF c = LF THEN << >> ELSE Append(Remainder(text), c)
<1> DEFINE n == Len(text)
           m == LastEnd(text)
<1>1. /\ n \in Nat /\ Len(Append(text, c)) = n + 1
      /\ text \in Seq(Chars) /\ Append(text, c) \in Seq(Chars)
  BY DEF Text
<1>2. m \in 0..n
  BY LastEndType
<1>3. LastEnd(Append(text, c)) = IF c = LF THEN n + 1 ELSE m
  BY LastEndAppend
<1>4. /\ Remainder(text) = SubSeq(text, m + 1, n)
      /\ Remainder(Append(text, c)) = SubSeq(Append(text, c), LastEnd(Append(text, c)) + 1, n + 1)
  BY <1>1 DEF Remainder, LastEnd
<1> HIDE DEF m
<1>5. CASE c = LF
  BY <1>1, <1>3, <1>4, <1>5
<1>6. CASE c # LF
  <2>1. m + 1 \in 1..(Len(text) + 1)
    BY <1>1, <1>2
  <2>2. SubSeq(Append(text, c), m + 1, Len(text) + 1) = Append(SubSeq(text, m + 1, Len(text)), c)
    BY <1>1, <2>1, SubSeqToTheEnd
  <2> QED
    BY <1>3, <1>4, <1>6, <2>2
<1> QED
  BY <1>5, <1>6

LEMMA RemainderType ==
  ASSUME NEW text \in Text
  PROVE  Remainder(text) \in Text
<1>1. LastEnd(text) \in 0..Len(text) /\ Len(text) \in Nat
  BY LastEndType DEF Text
<1>2. SubSeq(text, LastEnd(text) + 1, Len(text)) \in Text
  BY <1>1, SubSeqProperties DEF Text
<1> QED
  BY <1>2 DEF Remainder, LastEnd

\* A newline completes the line that was left over.
LEMMA LinesAppend ==
  ASSUME NEW text \in Text, NEW c \in Chars
  PROVE  CompleteLines(Append(text, c)) =
           IF c = LF THEN Append(CompleteLines(text), RStripCR(Remainder(text)))
           ELSE CompleteLines(text)
<1> DEFINE u == Append(text, c)
           n == Len(text)
           e == Ends(text)
           f == Ends(u)
           m == Len(e)
<1>1. n \in Nat /\ u \in Text /\ e \in Seq(1..n) /\ m \in Nat
  BY EndsType DEF Text
<1>2. f = IF c = LF THEN Append(e, n + 1) ELSE e
  BY EndsAppend
<1>3. m <= Len(f) /\ \A k \in 1..m : f[k] = e[k] /\ f[k] \in 1..n
  <2> HIDE DEF e, f, n
  <2> QED
    BY <1>1, <1>2
<1>4. ASSUME NEW k \in 1..m
      PROVE  Line(u, k) = Line(text, k)
  <2>1. k = 1 \/ k - 1 \in 1..m
    BY <1>1
  <2>2. Start(u, k) = Start(text, k)
    BY <1>3, <2>1 DEF Start
  <2>3. f[k] = e[k]
    BY <1>3
  <2>4. Start(text, k) \in Nat \ {0} /\ e[k] - 1 \in 0..n
    BY LineType
  <2>5. SubSeq(u, Start(text, k), e[k] - 1) = SubSeq(text, Start(text, k), e[k] - 1)
    <3> DEFINE a == Start(text, k)
               b == e[k] - 1
    <3>1. a \in Nat \ {0} /\ b \in Nat /\ b <= Len(text)
      BY <1>1, <2>4
    <3> HIDE DEF a, b
    <3>2. SubSeq(u, a, b) = SubSeq(text, a, b)
      BY <3>1, SubSeqOfAppend DEF Text
    <3> QED
      BY <3>2 DEF a, b
  <2> QED
    BY <2>2, <2>3, <2>5 DEF Line
<1>5. CASE c # LF
  <2>1. Len(f) = m
    BY <1>2, <1>5
  <2>2. [k \in 1..m |-> RStripCR(Line(u, k))] = [k \in 1..m |-> RStripCR(Line(text, k))]
    BY <1>4
  <2> QED
    BY <1>5, <2>1, <2>2, LinesAre
<1>6. CASE c = LF
  <2> DEFINE L == CompleteLines(text)
             M == CompleteLines(u)
             x == RStripCR(Remainder(text))
  <2>1. Len(f) = m + 1 /\ f[m + 1] = n + 1
    <3> HIDE DEF e, f, n
    <3> QED
      BY <1>1, <1>2, <1>6
  <2>2. Start(u, m + 1) = LastEnd(text) + 1
    <3>1. CASE m = 0
      <4>1. e = << >>
        BY <1>1, <3>1
      <4>2. LastEnd(text) = 0
        BY <4>1, EndsLast
      <4> QED
        BY <3>1, <4>2 DEF Start
    <3>2. CASE m # 0
      <4>1. e # << >> /\ m \in 1..m /\ m + 1 # 1 /\ (m + 1) - 1 = m
        BY <1>1, <3>2
      <4>2. LastEnd(text) = e[m]
        BY <4>1, EndsLast
      <4> QED
        BY <1>3, <4>1, <4>2 DEF Start
    <3> QED
      BY <3>1, <3>2
  <2>3. Line(u, m + 1) = Remainder(text)
    <3> DEFINE a == LastEnd(text) + 1
    <3>1. a \in Nat \ {0} /\ n \in Nat /\ n <= Len(text) /\ (n + 1) - 1 = n
      BY <1>1, LastEndType
    <3>2. Remainder(text) = SubSeq(text, a, n)
      BY DEF Remainder, LastEnd
    <3>3. Line(u, m + 1) = SubSeq(u, a, n)
      BY <2>1, <2>2, <3>1 DEF Line
    <3> HIDE DEF a
    <3>4. SubSeq(u, a, n) = SubSeq(text, a, n)
      BY <3>1, SubSeqOfAppend DEF Text
    <3> QED
      BY <3>2, <3>3, <3>4
  <2>4. L \in Seq(Text) /\ M \in Seq(Text) /\ x \in Text
    BY <1>1, LinesType, RemainderType, StripType
  <2>5. /\ L = [k \in 1..m |-> RStripCR(Line(text, k))]
        /\ M = [k \in 1..(m + 1) |-> RStripCR(Line(u, k))]
    BY <2>1, LinesAre
  <2>6. Len(L) = m /\ Len(M) = m + 1
    BY <1>1, <2>5
  <2>7. M[m + 1] = x /\ \A k \in 1..m : M[k] = L[k]
    <3>1. M[m + 1] = x
      BY <1>1, <2>3, <2>5
    <3>2. \A k \in 1..m : M[k] = L[k]
      BY <1>1, <1>4, <2>5
    <3> QED
      BY <3>1, <3>2
  <2> HIDE DEF L, M, x, m
  <2>8. Append(L, x) \in Seq(Text) /\ Len(Append(L, x)) = m + 1
        /\ Append(L, x)[m + 1] = x /\ \A k \in 1..m : Append(L, x)[k] = L[k]
    BY <1>1, <2>4, <2>6
  <2>9. ASSUME NEW k \in 1..(m + 1)
        PROVE  M[k] = Append(L, x)[k]
    <3>1. k = m + 1 \/ k \in 1..m
      BY <1>1
    <3> QED
      BY <2>7, <2>8, <3>1
  <2>10. M = Append(L, x)
    BY <2>4, <2>6, <2>8, <2>9, SeqEqual
  <2> QED
    BY <1>6, <2>10 DEF L, M, x
<1> QED
  BY <1>5, <1>6

(***************************************************************************)
(* Packets.                                                                *)
(***************************************************************************)
HeadsIn(lines) == {i \in 1..Len(lines) : lines[i] \in Headers}
Heads(lines) == Ascending(Len(lines), HeadsIn(lines))
LastLine(lines, k) == IF k = Len(Heads(lines)) THEN Len(lines) ELSE Heads(lines)[k + 1] - 1
Payload(lines, k) == SubSeq(lines, Heads(lines)[k] + 1, LastLine(lines, k))

LEMMA PacketsAre ==
  ASSUME NEW lines
  PROVE  PacketsOf(lines) = [k \in 1..Len(Heads(lines)) |->
                               [header |-> lines[Heads(lines)[k]], payload |-> Payload(lines, k)]]
BY DEF PacketsOf, HeadsIn, Heads, LastLine, Payload

LEMMA PacketAt ==
  ASSUME NEW lines, NEW k \in 1..Len(Heads(lines))
  PROVE  PacketsOf(lines)[k] = [header |-> lines[Heads(lines)[k]], payload |-> Payload(lines, k)]
BY PacketsAre

LEMMA HeadsAppend ==
  ASSUME NEW lines \in Seq(Text), NEW oneLine \in Text
  PROVE  Heads(Append(lines, oneLine)) =
           IF oneLine \in Headers THEN Append(Heads(lines), Len(lines) + 1) ELSE Heads(lines)
<1> DEFINE u == Append(lines, oneLine)
           n == Len(lines)
           old == HeadsIn(lines)
           kept == HeadsIn(u)
<1>1. n \in Nat /\ Len(u) = n + 1 /\ u[n + 1] = oneLine /\ \A i \in 1..n : u[i] = lines[i]
  OBVIOUS
<1> HIDE DEF u, n
<1>2. \A i \in 1..n : i \in old <=> i \in kept
  BY <1>1 DEF HeadsIn, n
<1>3. n + 1 \in kept <=> oneLine \in Headers
  BY <1>1 DEF HeadsIn
<1> HIDE DEF old, kept
<1>4. Ascending(n + 1, kept) = IF n + 1 \in kept THEN Append(Ascending(n, old), n + 1)
                               ELSE Ascending(n, old)
  BY <1>1, <1>2, AscendingNext
<1>5. Heads(u) = Ascending(n + 1, kept) /\ Heads(lines) = Ascending(n, old)
  BY <1>1, Zenon DEF Heads, kept, old, n
<1>6. Heads(u) = IF oneLine \in Headers THEN Append(Heads(lines), n + 1) ELSE Heads(lines)
  BY <1>3, <1>4, <1>5, Zenon
<1> QED
  BY <1>6 DEF u, n

LEMMA HeadsType ==
  ASSUME NEW lines \in Seq(Text)
  PROVE  /\ Heads(lines) \in Seq(1..Len(lines))
         /\ \A k \in 1..Len(Heads(lines)) : lines[Heads(lines)[k]] \in Headers
         /\ \A j, k \in 1..Len(Heads(lines)) : j < k => Heads(lines)[j] < Heads(lines)[k]
<1>1. Len(lines) \in Nat
  OBVIOUS
<1>2. Enumerates(Heads(lines), Len(lines), HeadsIn(lines))
  BY <1>1, AscendingEnumerates, Zenon DEF Heads
<1> QED
  BY <1>2 DEF Enumerates, HeadsIn

LEMMA PayloadType ==
  ASSUME NEW lines \in Seq(Text), NEW k \in 1..Len(Heads(lines))
  PROVE  /\ Heads(lines)[k] \in 1..Len(lines)
         /\ LastLine(lines, k) \in Heads(lines)[k]..Len(lines)
         /\ Payload(lines, k) \in Seq(Text)
<1> DEFINE h == Heads(lines)
           b == LastLine(lines, k)
<1>1. Len(lines) \in Nat /\ h \in Seq(1..Len(lines)) /\ \A i, j \in 1..Len(h) : i < j => h[i] < h[j]
  BY HeadsType
<1>2. b = IF k = Len(h) THEN Len(lines) ELSE h[k + 1] - 1
  BY DEF LastLine
<1> HIDE DEF h, b
<1>3. k \in 1..Len(h) /\ Len(h) \in Nat
  BY <1>1 DEF h
<1>4. h[k] \in 1..Len(lines)
  BY <1>1, <1>3
<1>5. k # Len(h) => k + 1 \in 1..Len(h) /\ h[k + 1] \in 1..Len(lines) /\ h[k] < h[k + 1]
  BY <1>1, <1>3
<1>6. b \in h[k]..Len(lines)
  BY <1>1, <1>2, <1>4, <1>5
<1>7. SubSeq(lines, h[k] + 1, b) \in Seq(Text)
  BY <1>1, <1>4, <1>6, SubSeqProperties
<1> QED
  BY <1>4, <1>6, <1>7 DEF h, b, Payload

LEMMA PacketsType ==
  ASSUME NEW lines \in Seq(Text)
  PROVE  PacketsOf(lines) \in Seq(Packet)
<1> DEFINE m == Len(Heads(lines))
           P(k) == [header |-> lines[Heads(lines)[k]], payload |-> Payload(lines, k)]
<1>1. Heads(lines) \in Seq(1..Len(lines)) /\ m \in Nat
  BY HeadsType
<1>2. \A k \in 1..m : P(k) \in Packet
  <2> TAKE k \in 1..m
  <2>1. lines[Heads(lines)[k]] \in Headers /\ Payload(lines, k) \in Seq(Text)
    BY HeadsType, PayloadType
  <2> QED
    BY <2>1 DEF Packet
<1>3. PacketsOf(lines) = [k \in 1..m |-> P(k)]
  BY PacketsAre
<1> HIDE DEF P, m
<1> QED
  BY <1>1, <1>2, <1>3

\* The last packet has one more line.
Longer(packet, oneLine) == [header |-> packet.header, payload |-> Append(packet.payload, oneLine)]
Grown(packets, oneLine) ==
  [k \in 1..Len(packets) |-> IF k = Len(packets) THEN Longer(packets[k], oneLine) ELSE packets[k]]

LEMMA PacketsAppend ==
  ASSUME NEW lines \in Seq(Text), NEW oneLine \in Text
  PROVE  PacketsOf(Append(lines, oneLine)) =
           IF oneLine \in Headers
           THEN Append(PacketsOf(lines), [header |-> oneLine, payload |-> << >>])
           ELSE Grown(PacketsOf(lines), oneLine)
<1> DEFINE u == Append(lines, oneLine)
           n == Len(lines)
           e == Heads(lines)
           f == Heads(u)
           m == Len(e)
           P == PacketsOf(lines)
           Q == PacketsOf(u)
           new == [header |-> oneLine, payload |-> << >>]
<1>1. /\ n \in Nat /\ u \in Seq(Text) /\ Len(u) = n + 1
      /\ u[n + 1] = oneLine /\ \A i \in 1..n : u[i] = lines[i]
  OBVIOUS
<1>2. e \in Seq(1..n) /\ m \in Nat /\ \A i \in 1..m : e[i] \in 1..n
  BY HeadsType
<1>3. f = IF oneLine \in Headers THEN Append(e, n + 1) ELSE e
  BY HeadsAppend
<1>4. P \in Seq(Packet) /\ Q \in Seq(Packet)
  BY <1>1, PacketsType
<1>5. /\ P = [k \in 1..m |-> [header |-> lines[e[k]], payload |-> Payload(lines, k)]]
      /\ Q = [k \in 1..Len(f) |-> [header |-> u[f[k]], payload |-> Payload(u, k)]]
  BY PacketsAre
<1>6. Len(P) = m
  BY <1>2, <1>5
<1>7. \A a \in Nat \ {0}, b \in 0..n : SubSeq(u, a, b) = SubSeq(lines, a, b)
  <2> TAKE a \in Nat \ {0}, b \in 0..n
  <2>1. b \in Nat /\ b <= Len(lines)
    BY <1>1
  <2> QED
    BY <2>1, SubSeqOfAppend
<1>8. ASSUME NEW k \in 1..m
      PROVE  /\ LastLine(lines, k) \in 0..n /\ e[k] + 1 \in Nat \ {0}
             /\ Payload(lines, k) = SubSeq(lines, e[k] + 1, LastLine(lines, k))
  BY <1>1, <1>2, PayloadType DEF Payload
<1>9. CASE oneLine \in Headers
  <2>1. Len(f) = m + 1 /\ f[m + 1] = n + 1 /\ \A k \in 1..m : f[k] = e[k]
    <3> HIDE DEF e, f, n
    <3> QED
      BY <1>2, <1>3, <1>9
  <2>2. ASSUME NEW k \in 1..m
        PROVE  Q[k] = P[k]
    <3>1. k \in 1..(m + 1) /\ k # m + 1 /\ k \in Nat
      BY <1>2
    <3>2. LastLine(u, k) = f[k + 1] - 1
      BY <2>1, <3>1 DEF LastLine
    <3>3. LastLine(u, k) = LastLine(lines, k)
      <4>1. CASE k = m
        BY <1>1, <2>1, <3>2, <4>1 DEF LastLine
      <4>2. CASE k # m
        <5>1. k + 1 \in 1..m
          BY <1>2, <3>1, <4>2
        <5> QED
          BY <2>1, <3>2, <4>2, <5>1 DEF LastLine
      <4> QED
        BY <4>1, <4>2
    <3>4. Payload(u, k) = SubSeq(u, e[k] + 1, LastLine(lines, k))
      BY <2>1, <3>3 DEF Payload
    <3>5. Payload(u, k) = Payload(lines, k)
      <4> HIDE DEF u, e, n
      <4> QED
        BY <1>7, <1>8, <3>4
    <3>6. u[f[k]] = lines[e[k]]
      BY <1>1, <1>2, <2>1
    <3>7. P[k] = [header |-> lines[e[k]], payload |-> Payload(lines, k)]
      BY PacketAt
    <3>8. k \in 1..Len(Heads(u))
      BY <2>1, <3>1
    <3>9. Q[k] = [header |-> u[f[k]], payload |-> Payload(u, k)]
      BY <3>8, PacketAt
    <3> QED
      BY <3>5, <3>6, <3>7, <3>9, Zenon
  <2>3. Q[m + 1] = new
    <3>1. m + 1 \in 1..(m + 1) /\ LastLine(u, m + 1) = n + 1
      BY <1>1, <1>2, <2>1 DEF LastLine
    <3>2. Payload(u, m + 1) = SubSeq(u, n + 2, n + 1)
      BY <1>1, <2>1, <3>1 DEF Payload
    <3>3. Payload(u, m + 1) = << >>
      BY <1>1, <3>2
    <3>4. u[f[m + 1]] = oneLine
      BY <1>1, <2>1
    <3>5. m + 1 \in 1..Len(Heads(u))
      BY <2>1, <3>1
    <3>6. Q[m + 1] = [header |-> u[f[m + 1]], payload |-> Payload(u, m + 1)]
      BY <3>5, PacketAt
    <3> QED
      BY <3>3, <3>4, <3>6, Zenon
  <2>4. Len(Q) = m + 1 /\ new \in Packet
    BY <1>2, <1>5, <1>9, <2>1 DEF Packet
  <2> HIDE DEF P, Q, new, m, n, e, f, u
  <2>5. /\ Append(P, new) \in Seq(Packet) /\ Len(Append(P, new)) = m + 1
        /\ Append(P, new)[m + 1] = new /\ \A k \in 1..m : Append(P, new)[k] = P[k]
    BY <1>4, <1>6, <2>4
  <2>6. ASSUME NEW k \in 1..(m + 1)
        PROVE  Q[k] = Append(P, new)[k]
    <3>1. k \in 1..m \/ k = m + 1
      BY <1>2
    <3> QED
      BY <2>2, <2>3, <2>5, <3>1
  <2>7. Q = Append(P, new)
    BY <1>4, <2>4, <2>5, <2>6, SeqEqual
  <2> QED
    BY <1>9, <2>7 DEF P, Q, new, u
<1>10. CASE oneLine \notin Headers
  <2>1. f = e
    BY <1>3, <1>10
  <2>2. ASSUME NEW k \in 1..m
        PROVE  Q[k] = IF k = m THEN Longer(P[k], oneLine) ELSE P[k]
    <3>1. u[f[k]] = lines[e[k]]
      BY <1>1, <1>2, <2>1
    <3>2. P[k] = [header |-> lines[e[k]], payload |-> Payload(lines, k)]
      BY PacketAt
    <3>3. k \in 1..Len(Heads(u))
      BY <2>1
    <3>4. Q[k] = [header |-> u[f[k]], payload |-> Payload(u, k)]
      BY <3>3, PacketAt
    <3>5. /\ P[k].header = lines[e[k]] /\ P[k].payload = Payload(lines, k)
          /\ P[k] = [header |-> lines[e[k]], payload |-> Payload(lines, k)]
          /\ Q[k] = [header |-> lines[e[k]], payload |-> Payload(u, k)]
      <4> HIDE DEF P, Q, e, f, u
      <4> QED
        BY <3>1, <3>2, <3>4
    <3>6. CASE k = m
      <4>1. LastLine(lines, k) = n /\ LastLine(u, k) = n + 1
        BY <1>1, <2>1, <3>6 DEF LastLine
      <4>2. e[k] + 1 \in 1..(Len(lines) + 1)
        BY <1>1, <1>2
      <4>3. SubSeq(u, e[k] + 1, Len(lines) + 1) = Append(SubSeq(lines, e[k] + 1, Len(lines)), oneLine)
        <5> DEFINE a == e[k] + 1
        <5>1. a \in 1..(Len(lines) + 1)
          BY <4>2
        <5> HIDE DEF a
        <5>2. SubSeq(u, a, Len(lines) + 1) = Append(SubSeq(lines, a, Len(lines)), oneLine)
          BY <5>1, SubSeqToTheEnd
        <5> QED
          BY <5>2 DEF a
      <4>4. Payload(u, k) = Append(Payload(lines, k), oneLine)
        BY <2>1, <4>1, <4>3 DEF Payload
      <4> QED
        BY <3>5, <3>6, <4>4 DEF Longer
    <3>7. CASE k # m
      <4>1. LastLine(u, k) = LastLine(lines, k)
        BY <2>1, <3>7 DEF LastLine
      <4>2. Payload(u, k) = SubSeq(u, e[k] + 1, LastLine(lines, k))
        BY <2>1, <4>1 DEF Payload
      <4>3. Payload(u, k) = Payload(lines, k)
        <5> HIDE DEF u, e, n
        <5> QED
          BY <1>7, <1>8, <4>2
      <4> QED
        BY <3>5, <3>7, <4>3
    <3> QED
      BY <3>6, <3>7
  <2>3. Q = [k \in 1..m |-> Q[k]]
    BY <1>2, <1>5, <2>1
  <2>4. Grown(P, oneLine) = [k \in 1..m |-> IF k = m THEN Longer(P[k], oneLine) ELSE P[k]]
    BY <1>6 DEF Grown
  <2> HIDE DEF P, Q, m
  <2>5. Q = Grown(P, oneLine)
    BY <2>2, <2>3, <2>4
  <2> QED
    BY <1>10, <2>5 DEF P, Q
<1> QED
  BY <1>9, <1>10

(***************************************************************************)
(* The parser's loop.                                                      *)
(***************************************************************************)
\* What is returned and what is pending are the packets of the lines.
Assembled(returned, held, lines) ==
  /\ returned \in Seq(Packet) /\ held \in Seq(Packet)
  /\ returned \o held = PacketsOf(lines)
  /\ Len(held) <= 1
  /\ held = << >> => PacketsOf(lines) = << >>

Holding == [pending : Seq(Packet), done : Seq(Packet)]

LEMMA LongerIs ==
  ASSUME NEW packet \in Packet, NEW oneLine
  PROVE  WithLine(packet, oneLine) = Longer(packet, oneLine)
BY DEF WithLine, Longer, Packet

LEMMA OneElement ==
  ASSUME NEW T, NEW s \in Seq(T), Len(s) <= 1, s # << >>
  PROVE  s = <<s[1]>> /\ s[1] \in T
<1>1. Len(s) \in Nat /\ Len(s) # 0
  OBVIOUS
<1>2. Len(s) = 1
  <2>1. \A n \in Nat : (n <= 1 /\ n # 0) => n = 1
    OBVIOUS
  <2> QED
    BY <1>1, <2>1, Zenon
<1>3. s[1] \in T
  BY <1>2
<1> DEFINE t == <<s[1]>>
<1>4. t \in Seq(T) /\ Len(t) = 1 /\ t[1] = s[1]
  BY <1>3
<1> HIDE DEF t
<1>5. s = t
  BY <1>2, <1>4, SeqEqual
<1> QED
  BY <1>3, <1>5 DEF t

LEMMA HeldLonger ==
  ASSUME NEW held \in Seq(Packet), Len(held) <= 1, NEW oneLine \in Text
  PROVE  [i \in DOMAIN held |-> WithLine(held[i], oneLine)] =
           IF held = << >> THEN << >> ELSE <<Longer(held[1], oneLine)>>
<1>1. CASE held = << >>
  BY <1>1
<1>2. CASE held # << >>
  <2>1. Len(held) = 1 /\ DOMAIN held = 1..1 /\ 1 \in 1..1 /\ held[1] \in Packet
    <3>1. held = <<held[1]>> /\ held[1] \in Packet
      BY <1>2, OneElement
    <3>2. Len(<<held[1]>>) = 1 /\ DOMAIN <<held[1]>> = 1..1
      OBVIOUS
    <3> QED
      BY <3>1, <3>2
  <2>2. WithLine(held[1], oneLine) = Longer(held[1], oneLine)
    BY <2>1, LongerIs
  <2>3. \A i \in 1..1 : i = 1
    OBVIOUS
  <2>4. [i \in DOMAIN held |-> WithLine(held[i], oneLine)]
          = [i \in 1..1 |-> Longer(held[1], oneLine)]
    BY <2>1, <2>2, <2>3
  <2>5. <<Longer(held[1], oneLine)>> = [i \in 1..1 |-> Longer(held[1], oneLine)]
    OBVIOUS
  <2> QED
    BY <1>2, <2>4, <2>5
<1> QED
  BY <1>1, <1>2

LEMMA LongerType ==
  ASSUME NEW packet \in Packet, NEW oneLine \in Text
  PROVE  Longer(packet, oneLine) \in Packet
<1>1. packet.header \in Headers /\ packet.payload \in Seq(Text)
  BY DEF Packet
<1>2. Append(packet.payload, oneLine) \in Seq(Text)
  BY <1>1
<1> QED
  BY <1>1, <1>2 DEF Longer, Packet

LEMMA GrownLast ==
  ASSUME NEW packets \in Seq(Packet), NEW packet \in Packet, NEW oneLine \in Text
  PROVE  Grown(packets \o <<packet>>, oneLine) = packets \o <<Longer(packet, oneLine)>>
<1> DEFINE u == packets \o <<packet>>
           v == packets \o <<Longer(packet, oneLine)>>
           n == Len(packets)
           q == Longer(packet, oneLine)
<1>1. q \in Packet /\ n \in Nat
  BY LongerType
<1>2. u \in Seq(Packet) /\ Len(u) = n + 1 /\ u[n + 1] = packet /\ \A i \in 1..n : u[i] = packets[i]
  OBVIOUS
<1> HIDE DEF q
<1>3. v \in Seq(Packet) /\ Len(v) = n + 1 /\ v[n + 1] = q /\ \A i \in 1..n : v[i] = packets[i]
  BY <1>1 DEF q
<1> HIDE DEF u, v, n
<1>4. Grown(u, oneLine) = [k \in 1..(n + 1) |-> IF k = n + 1 THEN Longer(u[k], oneLine) ELSE u[k]]
  BY <1>2 DEF Grown
<1>5. ASSUME NEW k \in 1..(n + 1)
      PROVE  v[k] = IF k = n + 1 THEN Longer(u[k], oneLine) ELSE u[k]
  <2>1. k = n + 1 \/ (k # n + 1 /\ k \in 1..n)
    BY <1>1
  <2> QED
    BY <1>2, <1>3, <2>1 DEF q
<1>6. v = [k \in 1..(n + 1) |-> v[k]]
  BY <1>1, <1>3
<1>7. Grown(u, oneLine) = v
  BY <1>4, <1>5, <1>6
<1> QED
  BY <1>7 DEF u, v, q

LEMMA ProcessType ==
  ASSUME NEW s \in Holding, Len(s.pending) <= 1, NEW oneLine \in Text
  PROVE  ProcessLine(s, oneLine) \in Holding /\ Len(ProcessLine(s, oneLine).pending) <= 1
<1>1. s.pending \in Seq(Packet) /\ s.done \in Seq(Packet)
  BY DEF Holding
<1>2. CASE oneLine \in Headers
  <2> DEFINE new == [header |-> oneLine, payload |-> << >>]
  <2>1. new \in Packet
    BY <1>2 DEF Packet
  <2>2. ProcessLine(s, oneLine) = [pending |-> <<new>>, done |-> s.done \o s.pending]
    BY <1>2 DEF ProcessLine
  <2>3. s.done \o s.pending \in Seq(Packet)
    BY <1>1
  <2> HIDE DEF new
  <2>4. <<new>> \in Seq(Packet) /\ Len(<<new>>) = 1
    BY <2>1
  <2> QED
    BY <2>2, <2>3, <2>4 DEF Holding
<1>3. CASE oneLine \notin Headers
  <2> DEFINE grown == [i \in DOMAIN s.pending |-> WithLine(s.pending[i], oneLine)]
  <2>1. ProcessLine(s, oneLine) = [pending |-> grown, done |-> s.done]
    <3>1. ProcessLine(s, oneLine) = [s EXCEPT !.pending = grown]
      BY <1>3 DEF ProcessLine
    <3> HIDE DEF grown
    <3>2. [s EXCEPT !.pending = grown] = [pending |-> grown, done |-> s.done]
      BY DEF Holding
    <3> QED
      BY <3>1, <3>2
  <2>2. grown = IF s.pending = << >> THEN << >> ELSE <<Longer(s.pending[1], oneLine)>>
    BY <1>1, HeldLonger
  <2> HIDE DEF grown
  <2>3. s.pending # << >> => s.pending[1] \in Packet
    BY <1>1
  <2>4. s.pending # << >> => Longer(s.pending[1], oneLine) \in Packet
    BY <2>3, LongerType
  <2>5. grown \in Seq(Packet) /\ Len(grown) <= 1
    BY <2>2, <2>4
  <2> QED
    BY <1>1, <2>1, <2>5 DEF Holding
<1> QED
  BY <1>2, <1>3

LEMMA ProcessKeeps ==
  ASSUME NEW e \in Seq(Packet), NEW s \in Holding, NEW lines \in Seq(Text),
         Assembled(e \o s.done, s.pending, lines), NEW oneLine \in Text
  PROVE  Assembled(e \o ProcessLine(s, oneLine).done, ProcessLine(s, oneLine).pending,
                   Append(lines, oneLine))
<1> DEFINE d == s.done
           p == s.pending
           r == ProcessLine(s, oneLine)
           out == e \o d
           more == Append(lines, oneLine)
<1>1. /\ d \in Seq(Packet) /\ p \in Seq(Packet) /\ out \in Seq(Packet)
      /\ out \o p = PacketsOf(lines) /\ Len(p) <= 1
      /\ p = << >> => PacketsOf(lines) = << >>
  BY DEF Holding, Assembled
<1>2. r \in Holding /\ Len(r.pending) <= 1
  BY <1>1, ProcessType
<1>3. r.pending \in Seq(Packet) /\ r.done \in Seq(Packet)
  BY <1>2 DEF Holding
<1>4. e \o r.done \in Seq(Packet)
  BY <1>3
<1>5. PacketsOf(more) = IF oneLine \in Headers
                        THEN Append(PacketsOf(lines), [header |-> oneLine, payload |-> << >>])
                        ELSE Grown(PacketsOf(lines), oneLine)
  BY PacketsAppend
<1>6. CASE oneLine \in Headers
  <2> DEFINE new == [header |-> oneLine, payload |-> << >>]
  <2>1. new \in Packet
    BY <1>6 DEF Packet
  <2>2. r = [pending |-> <<new>>, done |-> d \o p]
    BY <1>6 DEF ProcessLine
  <2> HIDE DEF new, r, d, p
  <2>3. r.pending = <<new>> /\ r.done = d \o p
    BY <2>2
  <2>4. e \o (d \o p) = PacketsOf(lines)
    <3>1. d \in Seq(Packet) /\ p \in Seq(Packet)
      BY <1>1
    <3>2. (e \o d) \o p = e \o (d \o p)
      BY <3>1, ConcatAssociative
    <3> QED
      BY <1>1, <3>2
  <2>5. PacketsOf(lines) \in Seq(Packet)
    BY PacketsType
  <2>6. (e \o r.done) \o r.pending = Append(PacketsOf(lines), new)
    BY <2>1, <2>3, <2>4, <2>5
  <2>7. r.pending # << >>
    BY <2>3
  <2> QED
    BY <1>2, <1>3, <1>4, <1>5, <1>6, <2>6, <2>7 DEF Assembled, new, r
<1>7. CASE oneLine \notin Headers
  <2> DEFINE grown == [i \in DOMAIN p |-> WithLine(p[i], oneLine)]
  <2>1. r = [pending |-> grown, done |-> d]
    <3>1. r = [s EXCEPT !.pending = grown]
      BY <1>7 DEF ProcessLine
    <3> HIDE DEF grown
    <3>2. [s EXCEPT !.pending = grown] = [pending |-> grown, done |-> d]
      BY DEF Holding
    <3> QED
      BY <3>1, <3>2
  <2>2. grown = IF p = << >> THEN << >> ELSE <<Longer(p[1], oneLine)>>
    BY <1>1, HeldLonger
  <2> HIDE DEF grown, r, d, p
  <2>3. r.pending = grown /\ r.done = d
    BY <2>1
  <2>4. CASE p = << >>
    <3>1. PacketsOf(lines) = << >> /\ out = << >> /\ r.pending = << >>
      <4>1. out \o << >> = out
        BY <1>1, ConcatEmptySeq
      <4> QED
        BY <1>1, <2>2, <2>3, <2>4, <4>1
    <3>2. PacketsOf(more) = << >>
      BY <1>5, <1>7, <3>1 DEF Grown
    <3>3. (e \o r.done) \o r.pending = << >>
      BY <2>3, <3>1
    <3> QED
      BY <1>2, <1>3, <1>4, <3>2, <3>3 DEF Assembled, r
  <2>5. CASE p # << >>
    <3>1. p = <<p[1]>> /\ p[1] \in Packet
      BY <1>1, <2>5, OneElement
    <3>2. r.pending = <<Longer(p[1], oneLine)>>
      BY <2>2, <2>3, <2>5
    <3>3. Grown(out \o <<p[1]>>, oneLine) = out \o <<Longer(p[1], oneLine)>>
      BY <1>1, <3>1, GrownLast
    <3>4. PacketsOf(more) = (e \o r.done) \o r.pending
      BY <1>1, <1>5, <1>7, <2>3, <3>1, <3>2, <3>3
    <3>5. r.pending # << >>
      BY <3>2
    <3> QED
      BY <1>2, <1>3, <1>4, <3>4, <3>5 DEF Assembled, r
  <2> QED
    BY <2>4, <2>5
<1> QED
  BY <1>6, <1>7

-----------------------------------------------------------------------------
(***************************************************************************)
(* feed().                                                                 *)
(***************************************************************************)
Scanning == [line : Text, acc : [pending : Seq(Packet), done : Seq(Packet)]]
Scans(f, text, p) ==
  /\ f[0] = Unread(p)
  /\ \A i \in 1..Len(text) : f[i] = TakeChar(f[i - 1], text[i])

\* The recursion that FeedLines is has a solution, and its value is the last one.
LEMMA FeedLinesDef ==
  ASSUME NEW text \in Text, NEW p \in Seq(Packet), Len(p) <= 1
  PROVE  \E f : Scans(f, text, p) /\ FeedLines(text, p) = f[Len(text)]
<1> DEFINE n == Len(text)
           State == {s \in Scanning : Len(s.acc.pending) <= 1}
           h == [i \in 1..n |-> [s \in State |-> TakeChar(s, text[i])]]
           body(g) == [i \in 0..n |-> IF i = 0 THEN Unread(p) ELSE TakeChar(g[i - 1], text[i])]
           scanned == CHOOSE g : g = body(g)
<1>1. n \in Nat /\ \A i \in 1..n : text[i] \in Chars
  BY DEF Text
<1>2. Unread(p) \in State
  <2>1. << >> \in Text /\ << >> \in Seq(Packet)
    BY DEF Text
  <2> QED
    BY <2>1 DEF Unread, Scanning
<1>3. ASSUME NEW s \in State, NEW c \in Chars
      PROVE  TakeChar(s, c) \in State
  <2>1. s.line \in Text /\ s.acc \in Holding /\ Len(s.acc.pending) <= 1 /\ s \in Scanning
    BY DEF Scanning, Holding
  <2>2. CASE c = LF
    <3> DEFINE r == ProcessLine(s.acc, RStripCR(s.line))
    <3>1. r \in Holding /\ Len(r.pending) <= 1
      BY <2>1, StripType, ProcessType
    <3>2. TakeChar(s, c) = [line |-> << >>, acc |-> r]
      BY <2>2 DEF TakeChar
    <3>3. << >> \in Text
      BY DEF Text
    <3> HIDE DEF r
    <3> QED
      BY <3>1, <3>2, <3>3 DEF Scanning, Holding
  <2>3. CASE c # LF
    <3> DEFINE l == Append(s.line, c)
    <3>1. l \in Text
      BY <2>1 DEF Text
    <3>2. TakeChar(s, c) = [s EXCEPT !.line = l]
      BY <2>3 DEF TakeChar
    <3> HIDE DEF l
    <3>3. [s EXCEPT !.line = l] \in Scanning /\ [s EXCEPT !.line = l].acc = s.acc
      BY <2>1, <3>1 DEF Scanning
    <3> QED
      BY <2>1, <3>2, <3>3
  <2> QED
    BY <2>2, <2>3
<1> HIDE DEF State
<1>4. h \in [1..n -> [State -> State]]
  BY <1>1, <1>3
<1>5. PICK f \in [0..n -> State] : Recurses(f, n, Unread(p), h)
  <2> DEFINE e == Unread(p)
  <2>1. e \in State
    BY <1>2
  <2> HIDE DEF e, h, n
  <2>2. \E f \in [0..n -> State] : Recurses(f, n, e, h)
    BY <1>1, <1>4, <2>1, Recursion
  <2> QED
    BY <2>2 DEF e
<1>6. Scans(f, text, p)
  <2>1. f[0] = Unread(p)
    BY <1>5 DEF Recurses
  <2>2. ASSUME NEW i \in 1..n
        PROVE  f[i] = TakeChar(f[i - 1], text[i])
    <3>1. f[i] = h[i][f[i - 1]]
      BY <1>5 DEF Recurses
    <3>2. f[i - 1] \in State
      BY <1>1
    <3> QED
      BY <3>1, <3>2
  <2> QED
    BY <2>1, <2>2 DEF Scans
<1>7. f = body(f)
  <2>1. ASSUME NEW i \in 0..n
        PROVE  f[i] = body(f)[i]
    <3>1. i = 0 \/ (i # 0 /\ i \in 1..n)
      BY <1>1
    <3>2. body(f)[i] = IF i = 0 THEN Unread(p) ELSE TakeChar(f[i - 1], text[i])
      OBVIOUS
    <3> QED
      BY <1>6, <3>1, <3>2 DEF Scans
  <2>2. f = [i \in 0..n |-> f[i]] /\ body(f) = [i \in 0..n |-> body(f)[i]]
    BY <1>5
  <2> HIDE DEF body, n
  <2> QED
    BY <2>1, <2>2
<1>8. scanned = body(scanned)
  <2> HIDE DEF body
  <2> QED
    BY <1>7
<1>9. Scans(scanned, text, p)
  <2>1. scanned[0] = Unread(p)
    <3>1. body(scanned)[0] = Unread(p)
      <4> HIDE DEF scanned
      <4> QED
        BY <1>1
    <3> HIDE DEF body, scanned
    <3> QED
      BY <1>8, <3>1
  <2>2. ASSUME NEW i \in 1..n
        PROVE  scanned[i] = TakeChar(scanned[i - 1], text[i])
    <3>1. body(scanned)[i] = TakeChar(scanned[i - 1], text[i])
      <4> HIDE DEF scanned
      <4>1. i \in 0..n /\ i # 0
        BY <1>1
      <4> QED
        BY <4>1
    <3> HIDE DEF body, scanned
    <3> QED
      BY <1>8, <3>1
  <2> QED
    BY <2>1, <2>2 DEF Scans
<1>10. FeedLines(text, p) = scanned[n]
  BY DEF FeedLines
<1> QED
  BY <1>9, <1>10

\* Every text is complete lines and what is left over.
LEMMA TextIsLinesAndRemainder ==
  ASSUME NEW text \in Text
  PROVE  \E whole \in Text : /\ text = whole \o Remainder(text)
                             /\ Remainder(whole) = << >>
                             /\ CompleteLines(whole) = CompleteLines(text)
<1> DEFINE Good(t) == \E whole \in Text : /\ t = whole \o Remainder(t)
                                          /\ Remainder(whole) = << >>
                                          /\ CompleteLines(whole) = CompleteLines(t)
           P == {t \in Text : Good(t)}
<1>1. <<>> \in P
  <2>1. <<>> \in Text
    BY DEF Text
  <2>2. Remainder(<<>>) = <<>>
    <3>1. LastEnd(<<>>) \in 0..Len(<<>>) /\ Len(<<>>) = 0
      BY <2>1, LastEndType
    <3>2. LastEnd(<<>>) = 0
      BY <3>1
    <3> QED
      BY <3>1, <3>2 DEF Remainder, LastEnd
  <2>3. <<>> = <<>> \o <<>>
    OBVIOUS
  <2> QED
    BY <2>1, <2>2, <2>3
<1>2. ASSUME NEW t \in Text, NEW c \in Chars, t \in P
      PROVE  Append(t, c) \in P
  <2> DEFINE u == Append(t, c)
  <2>1. u \in Text
    BY DEF Text
  <2>2. CASE c = LF
    <3>1. Remainder(u) = << >>
      BY <2>2, RemainderAppend
    <3>2. u = u \o << >>
      BY <2>1, ConcatEmptySeq DEF Text
    <3> HIDE DEF u
    <3>3. u \in P
      BY <2>1, <3>1, <3>2
    <3> QED
      BY <3>3 DEF u
  <2>3. CASE c # LF
    <3>1. PICK whole \in Text : /\ t = whole \o Remainder(t)
                                /\ Remainder(whole) = << >>
                                /\ CompleteLines(whole) = CompleteLines(t)
      BY <1>2
    <3>2. Remainder(u) = Append(Remainder(t), c) /\ CompleteLines(u) = CompleteLines(t)
      BY <2>3, RemainderAppend, LinesAppend
    <3>3. Remainder(t) \in Text
      BY RemainderType
    <3>4. Append(whole \o Remainder(t), c) = whole \o Append(Remainder(t), c)
      <4> DEFINE r == Remainder(t)
      <4>1. r \in Seq(Chars) /\ whole \in Seq(Chars)
        BY <3>3 DEF Text
      <4> HIDE DEF r
      <4>2. Append(whole \o r, c) = whole \o Append(r, c)
        BY <4>1
      <4> QED
        BY <4>2 DEF r
    <3> HIDE DEF u
    <3>5. u = whole \o Remainder(u)
      BY <3>1, <3>2, <3>4, Zenon DEF u
    <3>6. u \in P
      BY <2>1, <3>1, <3>2, <3>5
    <3> QED
      BY <3>6 DEF u
  <2> QED
    BY <2>2, <2>3
<1> HIDE DEF P
<1>3. Seq(Chars) \subseteq P
  BY <1>1, <1>2, SeqInd DEF Text
<1> QED
  BY <1>3 DEF P, Text

-----------------------------------------------------------------------------
(***************************************************************************)
(* The parser.                                                             *)
(***************************************************************************)
\* The characters taken so far have been made lines, packets and a remainder.
ScannedAs(s, e, text) ==
  /\ s \in Scanning
  /\ s.line = Remainder(text)
  /\ Len(s.acc.pending) <= 1
  /\ Assembled(e \o s.acc.done, s.acc.pending, CompleteLines(text))

LEMMA TakeCharKeeps ==
  ASSUME NEW e \in Seq(Packet), NEW text \in Text, NEW c \in Chars,
         NEW s, ScannedAs(s, e, text)
  PROVE  ScannedAs(TakeChar(s, c), e, Append(text, c))
<1> DEFINE more == Append(text, c)
           lines == CompleteLines(text)
<1>1. /\ s \in Scanning /\ s.line = Remainder(text) /\ s.line \in Text
      /\ s.acc \in Holding /\ Len(s.acc.pending) <= 1
      /\ Assembled(e \o s.acc.done, s.acc.pending, lines)
  BY DEF ScannedAs, Scanning, Holding
<1>2. lines \in Seq(Text)
  BY LinesType
<1>3. CASE c = LF
  <2> DEFINE l == RStripCR(s.line)
             r == ProcessLine(s.acc, l)
             a == s.acc
  <2>1. l \in Text
    BY <1>1, StripType
  <2>2. TakeChar(s, c) = [line |-> << >>, acc |-> r]
    BY <1>3 DEF TakeChar
  <2>3. Remainder(more) = << >> /\ CompleteLines(more) = Append(lines, l)
    BY <1>1, <1>3, RemainderAppend, LinesAppend
  <2>4. r \in Holding /\ Len(r.pending) <= 1
    BY <1>1, <2>1, ProcessType
  <2>5. Assembled(e \o r.done, r.pending, Append(lines, l))
    <3>1. a \in Holding /\ Assembled(e \o a.done, a.pending, lines)
      BY <1>1
    <3> HIDE DEF a, l, lines
    <3>2. Assembled(e \o ProcessLine(a, l).done, ProcessLine(a, l).pending, Append(lines, l))
      BY <1>2, <2>1, <3>1, ProcessKeeps
    <3> QED
      BY <3>2 DEF a
  <2>6. << >> \in Text
    BY DEF Text
  <2> HIDE DEF r, more, lines, l
  <2> DEFINE t == TakeChar(s, c)
  <2>7. t = [line |-> << >>, acc |-> r]
    BY <2>2
  <2> HIDE DEF t
  <2>8. t.line = << >> /\ t.acc = r /\ t \in Scanning
    BY <2>4, <2>6, <2>7 DEF Scanning, Holding
  <2>9. ScannedAs(t, e, more)
    BY <2>3, <2>4, <2>5, <2>8 DEF ScannedAs
  <2> QED
    BY <2>9 DEF t, more
<1>4. CASE c # LF
  <2> DEFINE l == Append(s.line, c)
             t == TakeChar(s, c)
  <2>1. l \in Text
    BY <1>1 DEF Text
  <2>2. t = [s EXCEPT !.line = l]
    BY <1>4 DEF TakeChar
  <2>3. Remainder(more) = l /\ CompleteLines(more) = lines
    BY <1>1, <1>4, RemainderAppend, LinesAppend
  <2> HIDE DEF l, t, more, lines
  <2>4. t \in Scanning /\ t.line = l /\ t.acc = s.acc
    BY <1>1, <2>1, <2>2 DEF Scanning
  <2>5. ScannedAs(t, e, more)
    BY <1>1, <2>3, <2>4 DEF ScannedAs
  <2> QED
    BY <2>5 DEF t, more
<1> QED
  BY <1>3, <1>4

LEMMA AppendToEnd ==
  \A w \in Seq(Chars), v \in Seq(Chars), x \in Chars : Append(w \o v, x) = w \o Append(v, x)
OBVIOUS

\* A text read after another, from the state the other left.
LEMMA FeedKeeps ==
  ASSUME NEW e \in Seq(Packet), NEW p \in Seq(Packet), Len(p) <= 1,
         NEW whole \in Text, NEW text \in Text,
         Remainder(whole) = << >>, Assembled(e, p, CompleteLines(whole))
  PROVE  ScannedAs(FeedLines(text, p), e, whole \o text)
<1> DEFINE n == Len(text)
           Part(i) == SubSeq(text, 1, i)
<1>1. PICK f : Scans(f, text, p) /\ FeedLines(text, p) = f[n]
  BY FeedLinesDef
<1>2. n \in Nat /\ text \in Seq(Chars) /\ whole \in Seq(Chars) /\ \A i \in 1..n : text[i] \in Chars
  BY DEF Text
<1> DEFINE S == {i \in Nat : i <= n => ScannedAs(f[i], e, whole \o Part(i))}
<1>3. 0 \in S
  <2>1. Part(0) = << >>
    BY SubSeqEmpty
  <2>2. whole \o << >> = whole
    BY <1>2, ConcatEmptySeq
  <2>3. f[0] = Unread(p)
    BY <1>1 DEF Scans
  <2> DEFINE s == Unread(p)
  <2>4. s = [line |-> << >>, acc |-> [pending |-> p, done |-> << >>]]
    BY DEF Unread
  <2> HIDE DEF s
  <2>5. s.line = << >> /\ s.acc.pending = p /\ s.acc.done = << >>
    BY <2>4
  <2>6. s \in Scanning
    <3>1. << >> \in Text /\ << >> \in Seq(Packet)
      BY DEF Text
    <3> QED
      BY <2>4, <3>1 DEF Scanning
  <2>7. e \o << >> = e
    BY ConcatEmptySeq
  <2>8. ScannedAs(s, e, whole)
    BY <2>5, <2>6, <2>7 DEF ScannedAs
  <2>9. ScannedAs(f[0], e, whole \o Part(0))
    BY <2>1, <2>2, <2>3, <2>8, Zenon DEF s
  <2> QED
    BY <2>9
<1>4. ASSUME NEW i \in Nat, i \in S
      PROVE  i + 1 \in S
  <2> SUFFICES ASSUME i + 1 <= n
               PROVE  ScannedAs(f[i + 1], e, whole \o Part(i + 1))
    OBVIOUS
  <2>1. i <= n /\ i + 1 \in 1..n /\ (i + 1) - 1 = i
    BY <1>2
  <2>2. ScannedAs(f[i], e, whole \o Part(i))
    BY <1>4, <2>1
  <2>3. f[i + 1] = TakeChar(f[i], text[i + 1])
    BY <1>1, <2>1 DEF Scans
  <2> DEFINE c == text[i + 1]
             q == Part(i)
  <2>4. c \in Chars /\ q \in Seq(Chars)
    <3>1. \A j \in 1..i : text[j] \in Chars
      BY <1>2, <2>1
    <3> QED
      BY <1>2, <2>1, <3>1, SubSeqProperties
  <2>5. Part(i + 1) = Append(q, c)
    BY <1>2, <2>1
  <2> HIDE DEF c, q, Part
  <2>6. Append(whole \o q, c) = whole \o Append(q, c)
    <3>1. whole \in Seq(Chars)
      BY <1>2
    <3> QED
      BY <2>4, <3>1, AppendToEnd, Zenon
  <2>7. whole \o q \in Text
    BY <1>2, <2>4 DEF Text
  <2>8. ScannedAs(TakeChar(f[i], c), e, Append(whole \o q, c))
    BY <2>2, <2>4, <2>7, TakeCharKeeps DEF q
  <2> QED
    BY <2>3, <2>5, <2>6, <2>8 DEF c
<1>5. n \in S
  <2> HIDE DEF S
  <2> QED
    BY <1>2, <1>3, <1>4, NatInd
<1>6. Part(n) = text
  BY <1>2, SubSeqFull
<1>7. ScannedAs(f[n], e, whole \o Part(n))
  <2> HIDE DEF n, Part
  <2>1. n <= n
    BY <1>2
  <2> QED
    BY <1>5, <2>1
<1> QED
  BY <1>1, <1>6, <1>7, Zenon

\* While the session lasts, the parser holds what the text says.
ParserInv ==
  /\ fed \in Text
  /\ ~flushed => /\ Assembled(emitted, pending, CompleteLines(fed))
                 /\ buffer = Remainder(fed)
  /\ flushed => emitted \in Seq(Packet) /\ FlushDropsNothing

\* A step returns some packets, after those it returned before.
Returns == \E more \in Seq(Packet) : emitted' = emitted \o more

LEMMA NothingFed ==
  /\ << >> \in Text /\ CompleteLines(<< >>) = << >> /\ Remainder(<< >>) = << >>
  /\ PacketsOf(<< >>) = << >>
<1>1. << >> \in Text /\ Len(<< >>) = 0
  BY DEF Text
<1>2. Ends(<< >>) = << >>
  BY <1>1, AscendingZero, Zenon DEF Ends
<1>3. CompleteLines(<< >>) = << >>
  BY <1>1, <1>2, LinesAre
<1>4. LastEnd(<< >>) = 0
  BY <1>1, <1>2, EndsLast
<1>5. Remainder(<< >>) = << >>
  BY <1>1, <1>4 DEF Remainder, LastEnd
<1>6. Heads(<< >>) = << >>
  BY <1>1, AscendingZero, Zenon DEF Heads
<1>7. PacketsOf(<< >>) = << >>
  BY <1>1, <1>6, PacketsAre
<1> QED
  BY <1>1, <1>3, <1>5, <1>7

LEMMA ParserStarts == ParserInit => ParserInv
<1> SUFFICES ASSUME ParserInit
             PROVE  ParserInv
  OBVIOUS
<1>1. fed = << >> /\ buffer = << >> /\ emitted = << >> /\ pending = << >> /\ flushed = FALSE
  BY DEF ParserInit
<1>2. << >> \in Seq(Packet) /\ << >> \o << >> = << >> /\ Len(<< >>) = 0
  OBVIOUS
<1>3. Assembled(<< >>, << >>, << >>)
  BY <1>2, NothingFed DEF Assembled
<1> QED
  BY <1>1, <1>3, NothingFed DEF ParserInv

LEMMA FeedKeepsInv ==
  ASSUME ParserInv, NEW chunk \in Chunks, Feed(chunk)
  PROVE  ParserInv' /\ Returns
<1> DEFINE text == TextToScan(chunk)
           r == FeedLines(text, pending)
<1>1. /\ ~flushed /\ buffer' = r.line /\ pending' = r.acc.pending
      /\ emitted' = emitted \o r.acc.done /\ fed' = fed \o chunk /\ flushed' = flushed
  BY DEF Feed
<1>2. /\ fed \in Text /\ buffer = Remainder(fed)
      /\ Assembled(emitted, pending, CompleteLines(fed))
  BY <1>1 DEF ParserInv
<1>3. chunk \in Text
  BY CharsAssumption DEF Chunks, Text
<1>4. buffer \in Text
  BY <1>2, RemainderType
<1>5. text = buffer \o chunk /\ text \in Text
  BY <1>3, <1>4 DEF TextToScan, Text
<1>6. PICK whole \in Text : /\ fed = whole \o buffer
                            /\ Remainder(whole) = << >>
                            /\ CompleteLines(whole) = CompleteLines(fed)
  BY <1>2, TextIsLinesAndRemainder
<1>7. fed \o chunk = whole \o text
  <2>1. whole \in Seq(Chars) /\ buffer \in Seq(Chars) /\ chunk \in Seq(Chars)
    BY <1>3, <1>4 DEF Text
  <2>2. (whole \o buffer) \o chunk = whole \o (buffer \o chunk)
    BY <2>1, ConcatAssociative
  <2> QED
    BY <1>5, <1>6, <2>2
<1>8. fed \o chunk \in Text
  BY <1>2, <1>3 DEF Text
<1>9. emitted \in Seq(Packet) /\ pending \in Seq(Packet) /\ Len(pending) <= 1
  BY <1>2 DEF Assembled
<1> HIDE DEF text
<1>10. ScannedAs(r, emitted, whole \o text)
  BY <1>2, <1>5, <1>6, <1>9, FeedKeeps
<1> HIDE DEF r
<1>11. /\ r.line = Remainder(fed')
       /\ Assembled(emitted \o r.acc.done, r.acc.pending, CompleteLines(fed'))
  BY <1>1, <1>7, <1>10 DEF ScannedAs
<1>12. fed' \in Text /\ ~flushed' /\ buffer' = Remainder(fed')
       /\ Assembled(emitted', pending', CompleteLines(fed'))
  BY <1>1, <1>8, <1>11
<1>13. ParserInv'
  BY <1>12 DEF ParserInv
<1>14. r.acc.done \in Seq(Packet)
  BY <1>10 DEF ScannedAs, Scanning
<1> QED
  BY <1>1, <1>13, <1>14 DEF Returns

LEMMA FlushKeepsInv ==
  ASSUME ParserInv, Flush
  PROVE  ParserInv' /\ Returns
<1> DEFINE held == [pending |-> pending, done |-> << >>]
           unfinished == UnfinishedLine(buffer)
           s == IF unfinished = << >> THEN held ELSE ProcessLine(held, unfinished[1])
           lines == CompleteLines(fed)
           rest == Remainder(fed)
           all == lines \o (IF rest = << >> THEN << >> ELSE <<RStripCR(rest)>>)
<1>1. /\ ~flushed /\ emitted' = emitted \o s.done \o s.pending
      /\ buffer' = << >> /\ pending' = << >> /\ flushed' = TRUE /\ fed' = fed
  BY DEF Flush
<1>2. /\ fed \in Text /\ buffer = rest
      /\ Assembled(emitted, pending, lines)
  BY <1>1 DEF ParserInv
<1>3. rest \in Text /\ lines \in Seq(Text) /\ RStripCR(rest) \in Text
  BY <1>2, RemainderType, LinesType, StripType
<1>4. emitted \in Seq(Packet) /\ pending \in Seq(Packet) /\ Len(pending) <= 1
  BY <1>2 DEF Assembled
<1> HIDE DEF rest, lines, held
<1>5. held.pending = pending /\ held.done = << >> /\ held \in Holding
  BY <1>4 DEF held, Holding
<1>6. emitted \o << >> = emitted
  BY <1>4, ConcatEmptySeq
<1>7. Assembled(emitted \o s.done, s.pending, all) /\ s \in Holding
  <2>1. CASE rest = << >>
    <3>1. s = held
      BY <1>2, <2>1 DEF UnfinishedLine
    <3>2. all = lines
      BY <1>3, <2>1, ConcatEmptySeq
    <3> QED
      BY <1>2, <1>5, <1>6, <3>1, <3>2
  <2>2. CASE rest # << >>
    <3> DEFINE l == RStripCR(rest)
    <3>1. unfinished = <<l>>
      BY <1>2, <2>2 DEF UnfinishedLine
    <3>2. l \in Text
      BY <1>3
    <3> HIDE DEF l, unfinished
    <3>3. s = ProcessLine(held, l)
      BY <3>1
    <3>4. all = Append(lines, l)
      BY <1>3, <2>2, <3>2 DEF l
    <3>5. Assembled(emitted \o held.done, held.pending, lines)
      BY <1>2, <1>5, <1>6
    <3> HIDE DEF s, all
    <3>6. Assembled(emitted \o ProcessLine(held, l).done, ProcessLine(held, l).pending,
                    Append(lines, l))
      BY <1>3, <1>4, <1>5, <3>2, <3>5, ProcessKeeps
    <3>7. ProcessLine(held, l) \in Holding
      BY <1>4, <1>5, <3>2, ProcessType
    <3> QED
      BY <3>3, <3>4, <3>6, <3>7
  <2> QED
    BY <2>1, <2>2
<1> HIDE DEF s, all
<1>8. /\ emitted \o s.done \in Seq(Packet) /\ s.pending \in Seq(Packet)
      /\ (emitted \o s.done) \o s.pending = PacketsOf(all)
  BY <1>7 DEF Assembled
<1>9. emitted' = PacketsOf(all) /\ emitted' \in Seq(Packet)
  <2>1. emitted' = (emitted \o s.done) \o s.pending
    BY <1>1
  <2>2. (emitted \o s.done) \o s.pending \in Seq(Packet)
    BY <1>8, ConcatProperties
  <2> QED
    BY <1>8, <2>1, <2>2, Zenon
<1>10. FlushDropsNothing'
  BY <1>1, <1>9 DEF FlushDropsNothing, all, lines, rest
<1>11. ParserInv'
  BY <1>1, <1>2, <1>9, <1>10 DEF ParserInv
<1>12. s.done \in Seq(Packet) /\ s.pending \in Seq(Packet)
  BY <1>7 DEF Holding
<1> DEFINE d == s.done
           p == s.pending
           more == d \o p
<1>13. more \in Seq(Packet) /\ emitted' = emitted \o more
  <2>1. emitted' = (emitted \o d) \o p
    BY <1>1
  <2>2. d \in Seq(Packet) /\ p \in Seq(Packet)
    BY <1>12
  <2> HIDE DEF d, p
  <2>3. more \in Seq(Packet)
    BY <2>2, ConcatProperties
  <2>4. (emitted \o d) \o p = emitted \o (d \o p)
    BY <1>4, <2>2, ConcatAssociative
  <2> QED
    BY <2>1, <2>3, <2>4
<1> HIDE DEF more
<1> QED
  BY <1>1, <1>11, <1>13 DEF Returns

LEMMA ParserStep == ParserInv /\ [ParserNext]_parserVars => ParserInv'
<1> SUFFICES ASSUME ParserInv, [ParserNext]_parserVars
             PROVE  ParserInv'
  OBVIOUS
<1>1. ASSUME NEW chunk \in Chunks, Feed(chunk)
      PROVE  ParserInv'
  BY <1>1, FeedKeepsInv
<1>2. CASE Flush
  BY <1>2, FlushKeepsInv
<1>3. CASE UNCHANGED parserVars
  BY <1>3 DEF parserVars, ParserInv, FlushDropsNothing
<1> QED
  BY <1>1, <1>2, <1>3 DEF ParserNext

LEMMA ParserInvariant == ParserSpec => []ParserInv
<1> QED
  BY ParserStarts, ParserStep, PTL DEF ParserSpec

LEMMA ParserShowsChunking == ParserInv => ChunkingIsIrrelevant
BY DEF ParserInv, Assembled, ChunkingIsIrrelevant

\* However a session's text is cut into chunks, feed() returns the packets of its
\* complete lines, in order, each whole and with its own lines only.
THEOREM ChunksDoNotMatter == ParserSpec => []ChunkingIsIrrelevant
<1> QED
  BY ParserInvariant, ParserShowsChunking, PTL

\* flush() loses no line and leaves nothing in the parser.
THEOREM FlushIsComplete == ParserSpec => []FlushDropsNothing
<1>1. ParserInv => FlushDropsNothing
  BY DEF ParserInv, FlushDropsNothing
<1> QED
  BY <1>1, ParserInvariant, PTL

-----------------------------------------------------------------------------
(***************************************************************************)
(* The tracker.                                                            *)
(***************************************************************************)
ReportsIn(packets) == {i \in 1..Len(packets) : Considered(packets[i])}
ReportsOf(packets, s) == {i \in ReportsIn(packets) : Source[packets[i].header] = s}
HeardOf(packets, s) == [report |-> packets[Max(ReportsOf(packets, s))].payload[1],
                        count  |-> Cardinality(ReportsOf(packets, s))]
Callers(packets) == {Source[packets[i].header] : i \in ReportsIn(packets)}

LEMMA HeardInIs ==
  ASSUME NEW packets
  PROVE  HeardIn(packets) = [s \in Callers(packets) |-> HeardOf(packets, s)]
BY DEF HeardIn, Callers, HeardOf, ReportsOf, ReportsIn, Considered

\* One more packet is one more report of its station, or none.
LEMMA ReportsAppend ==
  ASSUME NEW packets \in Seq(Packet), NEW packet \in Packet
  PROVE  /\ ReportsIn(Append(packets, packet)) =
              ReportsIn(packets) \cup (IF Considered(packet) THEN {Len(packets) + 1} ELSE {})
         /\ \A i \in 1..Len(packets) : Append(packets, packet)[i] = packets[i]
         /\ Append(packets, packet)[Len(packets) + 1] = packet
<1> DEFINE u == Append(packets, packet)
           n == Len(packets)
<1>1. n \in Nat /\ Len(u) = n + 1 /\ u[n + 1] = packet /\ \A i \in 1..n : u[i] = packets[i]
  OBVIOUS
<1> HIDE DEF u, n
<1>2. 1..(n + 1) = (1..n) \cup {n + 1}
  BY <1>1
<1>3. ReportsIn(u) = {i \in (1..n) \cup {n + 1} : Considered(u[i])}
  BY <1>1, <1>2 DEF ReportsIn
<1>4. ReportsIn(packets) = {i \in 1..n : Considered(packets[i])}
  BY DEF ReportsIn, n
<1>5. ReportsIn(u) = ReportsIn(packets) \cup (IF Considered(packet) THEN {n + 1} ELSE {})
  BY <1>1, <1>3, <1>4
<1> QED
  BY <1>1, <1>5 DEF u, n

LEMMA HeardAppend ==
  ASSUME NEW packets \in Seq(Packet), NEW packet \in Packet
  PROVE  HeardIn(Append(packets, packet)) = Update(HeardIn(packets), packet)
<1> DEFINE u == Append(packets, packet)
           n == Len(packets)
           s == Source[packet.header]
           known == HeardIn(packets)
<1>1. n \in Nat /\ u[n + 1] = packet /\ \A i \in 1..n : u[i] = packets[i]
  BY ReportsAppend
<1>2. ReportsIn(u) = ReportsIn(packets) \cup (IF Considered(packet) THEN {n + 1} ELSE {})
  BY ReportsAppend
<1>3. ReportsIn(packets) \subseteq 1..n
  BY DEF ReportsIn
<1>4. /\ known = [t \in Callers(packets) |-> HeardOf(packets, t)]
      /\ HeardIn(u) = [t \in Callers(u) |-> HeardOf(u, t)]
  BY HeardInIs
<1> HIDE DEF u, n, known
<1>5. CASE ~Considered(packet)
  <2>1. ReportsIn(u) = ReportsIn(packets)
    BY <1>2, <1>5
  <2>2. \A i \in ReportsIn(packets) : u[i] = packets[i]
    BY <1>1, <1>3
  <2>3. Callers(u) = Callers(packets)
    BY <2>1, <2>2 DEF Callers
  <2>4. ASSUME NEW t \in Callers(packets)
        PROVE  HeardOf(u, t) = HeardOf(packets, t)
    <3>1. ReportsOf(u, t) = ReportsOf(packets, t)
      BY <2>1, <2>2 DEF ReportsOf
    <3>2. ReportsOf(packets, t) # {} /\ ReportsOf(packets, t) \in SUBSET (0..n)
      BY <1>1, <1>3 DEF Callers, ReportsOf
    <3>3. Max(ReportsOf(packets, t)) \in ReportsOf(packets, t)
      BY <1>1, <3>2, MaxMember
    <3>4. Max(ReportsOf(packets, t)) \in ReportsIn(packets)
      BY <3>3 DEF ReportsOf
    <3>5. u[Max(ReportsOf(packets, t))] = packets[Max(ReportsOf(packets, t))]
      BY <2>2, <3>4
    <3> QED
      BY <3>1, <3>5, Zenon DEF HeardOf
  <2>5. HeardIn(u) = known
    BY <1>4, <2>3, <2>4
  <2>6. Update(known, packet) = known
    BY <1>5 DEF Update
  <2> QED
    BY <2>5, <2>6 DEF u, known
<1>6. CASE Considered(packet)
  <2> DEFINE station == [report |-> packet.payload[1],
                         count  |-> IF s \in DOMAIN known THEN known[s].count + 1 ELSE 1]
  <2>1. ReportsIn(u) = ReportsIn(packets) \cup {n + 1} /\ n + 1 \notin ReportsIn(packets)
    BY <1>1, <1>2, <1>3, <1>6
  <2>2. (\A i \in ReportsIn(packets) : u[i] = packets[i]) /\ u[n + 1] = packet
    BY <1>1, <1>3
  <2>3. Callers(u) = Callers(packets) \cup {s}
    BY <2>1, <2>2 DEF Callers
  <2>4. ASSUME NEW t
        PROVE  ReportsOf(u, t) = ReportsOf(packets, t) \cup (IF t = s THEN {n + 1} ELSE {})
    BY <2>1, <2>2 DEF ReportsOf
  <2>5. ASSUME NEW t
        PROVE  /\ ReportsOf(packets, t) \in SUBSET (1..n) /\ IsFiniteSet(ReportsOf(packets, t))
               /\ t \in Callers(packets) <=> ReportsOf(packets, t) # {}
    <3>1. ReportsOf(packets, t) \in SUBSET (1..n)
      BY <1>3 DEF ReportsOf
    <3>2. IsFiniteSet(1..n)
      BY <1>1, FS_Interval
    <3>3. IsFiniteSet(ReportsOf(packets, t))
      BY <3>1, <3>2, FS_Subset
    <3>4. t \in Callers(packets) <=> ReportsOf(packets, t) # {}
      BY DEF Callers, ReportsOf
    <3> QED
      BY <3>1, <3>3, <3>4
  <2>6. ASSUME NEW t \in Callers(packets) \cup {s}, t # s
        PROVE  HeardOf(u, t) = known[t]
    <3>1. ReportsOf(u, t) = ReportsOf(packets, t)
      BY <2>4, <2>6
    <3>2. /\ ReportsOf(packets, t) # {} /\ ReportsOf(packets, t) \in SUBSET (0..n)
          /\ t \in Callers(packets)
      <4>1. t \in Callers(packets)
        BY <2>6
      <4> QED
        BY <1>1, <2>5, <4>1
    <3>3. Max(ReportsOf(packets, t)) \in ReportsOf(packets, t)
      BY <1>1, <3>2, MaxMember
    <3>4. Max(ReportsOf(packets, t)) \in ReportsIn(packets)
      BY <3>3 DEF ReportsOf
    <3>5. u[Max(ReportsOf(packets, t))] = packets[Max(ReportsOf(packets, t))]
      BY <2>2, <3>4
    <3>6. HeardOf(u, t) = HeardOf(packets, t)
      BY <3>1, <3>5, Zenon DEF HeardOf
    <3> QED
      BY <1>4, <3>2, <3>6
  <2>7. HeardOf(u, s) = station
    <3> DEFINE R == ReportsOf(packets, s)
               R2 == R \cup {n + 1}
    <3>1. ReportsOf(u, s) = R2
      BY <2>4
    <3>2. R \in SUBSET (1..n) /\ IsFiniteSet(R) /\ (s \in Callers(packets) <=> R # {})
      BY <2>5
    <3>3. /\ DOMAIN known = Callers(packets)
          /\ s \in Callers(packets) => known[s] = HeardOf(packets, s)
      BY <1>4
    <3>4. s \in Callers(packets) => known[s].count = Cardinality(R)
      BY <3>3 DEF HeardOf
    <3> HIDE DEF R
    <3>5. R2 \in SUBSET (0..(n + 1)) /\ n + 1 \in R2 /\ n + 1 \in Nat /\ n + 1 \notin R
      BY <1>1, <3>2
    <3>6. Cardinality(R2) = Cardinality(R) + 1
      BY <3>2, <3>5, FS_AddElement
    <3>7. R = {} => Cardinality(R) = 0
      BY FS_EmptySet
    <3>8. Max(R2) = n + 1
      <4> HIDE DEF R2
      <4>1. Max(R2) \in R2 /\ \A y \in R2 : Max(R2) >= y
        BY <3>5, MaxMember
      <4>2. Max(R2) \in 0..(n + 1) /\ Max(R2) >= n + 1
        BY <3>5, <4>1
      <4> QED
        BY <1>1, <4>2
    <3> HIDE DEF R2
    <3>9. HeardOf(u, s) = [report |-> packet.payload[1], count |-> Cardinality(R2)]
      BY <2>2, <3>1, <3>8, Zenon DEF HeardOf
    <3>10. Cardinality(R2) = IF s \in DOMAIN known THEN known[s].count + 1 ELSE 1
      BY <3>2, <3>3, <3>4, <3>6, <3>7
    <3> QED
      BY <3>9, <3>10, Zenon
  <2>8. Update(known, packet) = [t \in DOMAIN known \cup {s} |-> IF t = s THEN station ELSE known[t]]
    BY <1>6, Zenon DEF Update
  <2>9. DOMAIN known = Callers(packets)
    BY <1>4
  <2> HIDE DEF station, s
  <2>10. HeardIn(u) = Update(known, packet)
    BY <1>4, <2>3, <2>6, <2>7, <2>8, <2>9
  <2> QED
    BY <2>10 DEF u, known
<1> QED
  BY <1>5, <1>6

\* The stations after the packets up to n.
HeardUpTo(packets, n) == HeardIn(SubSeq(packets, 1, n))

LEMMA HeardNext ==
  ASSUME NEW packets \in Seq(Packet), NEW n \in 1..Len(packets)
  PROVE  HeardUpTo(packets, n) = Update(HeardUpTo(packets, n - 1), packets[n])
<1> DEFINE part == SubSeq(packets, 1, n - 1)
           p == packets[n]
<1>1. Len(packets) \in Nat /\ n - 1 \in 0..Len(packets) /\ p \in Packet
  OBVIOUS
<1>2. \A i \in 1..(n - 1) : packets[i] \in Packet
  BY <1>1
<1>3. part \in Seq(Packet)
  BY <1>1, <1>2, SubSeqProperties
<1>4. SubSeq(packets, 1, n) = Append(part, p)
  BY <1>1
<1> HIDE DEF part, p
<1>5. HeardIn(Append(part, p)) = Update(HeardIn(part), p)
  BY <1>1, <1>3, HeardAppend
<1> QED
  BY <1>4, <1>5, Zenon DEF HeardUpTo, part, p

\* Handling the packets returned is hearing them.
LEMMA HandledIsHeard ==
  ASSUME NEW old \in Seq(Packet), NEW new \in Seq(Packet), NEW more \in Seq(Packet),
         new = old \o more, emitted = old, emitted' = new,
         stations = HeardIn(old), HandlePackets
  PROVE  stations' = HeardIn(new)
<1> DEFINE a == Len(old)
           b == Len(new)
           body(g) == [n \in a..b |-> IF n = a THEN stations ELSE Update(g[n - 1], new[n])]
           known == CHOOSE g : g = body(g)
           f == [n \in a..b |-> HeardUpTo(new, n)]
<1>1. a \in Nat /\ b \in Nat /\ a <= b
  OBVIOUS
<1>2. HeardUpTo(new, a) = stations /\ HeardUpTo(new, b) = HeardIn(new)
  <2>1. SubSeq(new, 1, a) = old
    OBVIOUS
  <2>2. SubSeq(new, 1, b) = new
    OBVIOUS
  <2> QED
    BY <2>1, <2>2 DEF HeardUpTo
<1>3. f = body(f)
  <2>1. ASSUME NEW n \in a..b
        PROVE  f[n] = body(f)[n]
    <3>1. CASE n = a
      BY <1>2, <3>1
    <3>2. CASE n # a
      <4>1. n - 1 \in a..b /\ n \in 1..Len(new)
        BY <1>1, <3>2
      <4>2. HeardUpTo(new, n) = Update(HeardUpTo(new, n - 1), new[n])
        BY <4>1, HeardNext
      <4> QED
        BY <3>2, <4>1, <4>2
    <3> QED
      BY <3>1, <3>2
  <2>2. f = [n \in a..b |-> f[n]] /\ body(f) = [n \in a..b |-> body(f)[n]]
    OBVIOUS
  <2> HIDE DEF f, body
  <2> QED
    BY <2>1, <2>2
<1>4. known = body(known)
  <2> HIDE DEF body, f
  <2> QED
    BY <1>3
<1>5. stations' = known[b]
  BY DEF HandlePackets
<1> HIDE DEF known, f
<1>6. \A n \in a..b : known[n] = IF n = a THEN stations ELSE Update(known[n - 1], new[n])
  <2> TAKE n \in a..b
  <2>1. body(known)[n] = IF n = a THEN stations ELSE Update(known[n - 1], new[n])
    OBVIOUS
  <2> HIDE DEF body
  <2> QED
    BY <1>4, <2>1
<1> HIDE DEF body, a, b
<1> DEFINE S == {n \in Nat : n \in a..b => known[n] = HeardUpTo(new, n)}
<1>7. 0 \in S
  <2>1. 0 \in a..b => 0 = a
    BY <1>1
  <2> QED
    BY <1>2, <1>6, <2>1
<1>8. ASSUME NEW n \in Nat, n \in S
      PROVE  n + 1 \in S
  <2> SUFFICES ASSUME n + 1 \in a..b
               PROVE  known[n + 1] = HeardUpTo(new, n + 1)
    OBVIOUS
  <2>1. CASE n + 1 = a
    BY <1>2, <1>6, <2>1
  <2>2. CASE n + 1 # a
    <3>1. n \in a..b /\ (n + 1) - 1 = n
      BY <1>1, <2>2
    <3>2. known[n] = HeardUpTo(new, n)
      BY <1>8, <3>1
    <3>3. known[n + 1] = Update(known[n], new[n + 1])
      BY <1>6, <2>2, <3>1
    <3>4. n + 1 \in 1..Len(new)
      BY <1>1 DEF b
    <3>5. HeardUpTo(new, n + 1) = Update(HeardUpTo(new, n), new[n + 1])
      BY <3>1, <3>4, HeardNext
    <3> QED
      BY <3>2, <3>3, <3>5
  <2> QED
    BY <2>1, <2>2
<1>9. b \in S
  <2> HIDE DEF S
  <2> QED
    BY <1>1, <1>7, <1>8, NatInd
<1>10. b \in a..b
  BY <1>1
<1> QED
  BY <1>2, <1>5, <1>9, <1>10

\* The tracker knows what the packets returned so far say.
TrackerInv == ParserInv /\ stations = HeardIn(emitted)

LEMMA TrackerInitially == TrackerInit => TrackerInv
<1> SUFFICES ASSUME TrackerInit
             PROVE  TrackerInv
  OBVIOUS
<1>1. emitted = << >> /\ stations = << >> /\ ParserInv
  BY ParserStarts DEF TrackerInit, ParserInit
<1>2. Callers(<< >>) = {}
  BY DEF Callers, ReportsIn
<1>3. HeardIn(<< >>) = << >>
  BY <1>2, HeardInIs
<1> QED
  BY <1>1, <1>3 DEF TrackerInv

LEMMA TrackerStep == TrackerInv /\ [TrackerNext]_tvars => TrackerInv'
<1> SUFFICES ASSUME TrackerInv, [TrackerNext]_tvars
             PROVE  TrackerInv'
  OBVIOUS
<1>1. ParserInv /\ stations = HeardIn(emitted)
  BY DEF TrackerInv
<1>2. CASE TrackerNext
  <2>1. ParserNext /\ HandlePackets
    BY <1>2 DEF TrackerNext
  <2>2. ParserInv' /\ Returns
    <3>1. ASSUME NEW chunk \in Chunks, Feed(chunk)
          PROVE  ParserInv' /\ Returns
      BY <1>1, <3>1, FeedKeepsInv
    <3>2. CASE Flush
      BY <1>1, <3>2, FlushKeepsInv
    <3> QED
      BY <2>1, <3>1, <3>2 DEF ParserNext
  <2>3. PICK more \in Seq(Packet) : emitted' = emitted \o more
    BY <2>2 DEF Returns
  <2>4. emitted \in Seq(Packet) /\ emitted' \in Seq(Packet)
    BY <1>1, <2>2 DEF ParserInv, Assembled
  <2>5. stations' = HeardIn(emitted')
    BY <1>1, <2>1, <2>3, <2>4, HandledIsHeard
  <2> QED
    BY <2>2, <2>5 DEF TrackerInv
<1>3. CASE UNCHANGED tvars
  <2>1. UNCHANGED parserVars /\ stations' = stations
    BY <1>3 DEF tvars
  <2>2. ParserInv'
    BY <1>1, <2>1, ParserStep
  <2>3. emitted' = emitted
    BY <2>1 DEF parserVars
  <2> QED
    BY <1>1, <2>1, <2>2, <2>3 DEF TrackerInv
<1> QED
  BY <1>2, <1>3

LEMMA TrackerShowsStations == TrackerInv => StationsMatchTheText
<1> SUFFICES ASSUME TrackerInv
             PROVE  StationsMatchTheText
  OBVIOUS
<1> DEFINE all == PacketsOf(CompleteLines(fed))
<1>1. ParserInv /\ stations = HeardIn(emitted)
  BY DEF TrackerInv
<1>2. CASE flushed
  BY <1>1, <1>2 DEF StationsMatchTheText
<1>3. CASE ~flushed
  <2>1. /\ emitted \in Seq(Packet) /\ pending \in Seq(Packet)
        /\ emitted \o pending = all /\ Len(pending) <= 1 /\ (pending = << >> => all = << >>)
    BY <1>1, <1>3 DEF ParserInv, Assembled
  <2> HIDE DEF all
  <2>2. SubSeq(all, 1, Len(all) - 1) = emitted
    <3>1. CASE pending = << >>
      <4>1. emitted \o << >> = emitted
        BY <2>1, ConcatEmptySeq
      <4>2. all = << >> /\ emitted = << >>
        BY <2>1, <3>1, <4>1
      <4> QED
        BY <4>2
    <3>2. CASE pending # << >>
      <4>1. pending = <<pending[1]>> /\ pending[1] \in Packet
        BY <2>1, <3>2, OneElement
      <4> DEFINE p == pending[1]
      <4>2. p \in Packet /\ all = emitted \o <<p>>
        BY <2>1, <4>1
      <4> HIDE DEF p
      <4>3. Len(emitted \o <<p>>) = Len(emitted) + 1
        BY <2>1, <4>2
      <4>4. SubSeq(emitted \o <<p>>, 1, Len(emitted)) = emitted
        BY <2>1, <4>2
      <4>5. (Len(emitted) + 1) - 1 = Len(emitted)
        BY <2>1
      <4> QED
        BY <4>2, <4>3, <4>4, <4>5
    <3> QED
      BY <3>1, <3>2
  <2> QED
    BY <1>1, <1>3, <2>2 DEF StationsMatchTheText, all
<1> QED
  BY <1>2, <1>3

\* The tracker's list is what the session's text says, each report once and under
\* its own callsign, however the text was cut.
THEOREM StationsAreTheTexts == TrackerSpec => []StationsMatchTheText
<1> QED
  BY TrackerInitially, TrackerStep, TrackerShowsStations, PTL DEF TrackerSpec

\* The parser that the tracker listens to is the parser, so what is proved of its
\* packets holds of the session with a tracker.
THEOREM TrackerOnlyListens == TrackerSpec => ParserSpec
<1>1. TrackerInit => ParserInit
  BY DEF TrackerInit
<1>2. [TrackerNext]_tvars => [ParserNext]_parserVars
  BY DEF TrackerNext, tvars
<1> QED
  BY <1>1, <1>2, PTL DEF TrackerSpec, ParserSpec

(***************************************************************************)
(* The mailbox: sequences of tokens.                                       *)
(***************************************************************************)
LEMMA HasConcat ==
  ASSUME NEW a \in Seq(Tokens), NEW b \in Seq(Tokens), NEW t, Has(a \o b, t)
  PROVE  (a \o b) \in Seq(Tokens) /\ (Has(a, t) \/ Has(b, t))
<1>1. /\ (a \o b) \in Seq(Tokens) /\ Len(a \o b) = Len(a) + Len(b)
      /\ \A i \in 1..Len(a) + Len(b) : (a \o b)[i] = IF i <= Len(a) THEN a[i] ELSE b[i - Len(a)]
  BY ConcatProperties
<1>2. PICK i \in 1..Len(a) + Len(b) : (a \o b)[i].t = t
  BY <1>1 DEF Has
<1>3. CASE i <= Len(a)
  BY <1>1, <1>2, <1>3 DEF Has
<1>4. CASE i > Len(a)
  BY <1>1, <1>2, <1>4 DEF Has
<1> QED
  BY <1>1, <1>3, <1>4

LEMMA HasRest ==
  ASSUME NEW a \in Seq(Tokens), a # <<>>, NEW b \in Seq(Tokens), NEW t
  PROVE  /\ Append(b, Head(a)) \in Seq(Tokens) /\ Tail(a) \in Seq(Tokens)
         /\ Has(Append(b, Head(a)), t) => Has(b, t) \/ Has(a, t)
         /\ Has(Tail(a), t) => Has(a, t)
<1>1. /\ Head(a) \in Tokens /\ Head(a) = a[1] /\ Tail(a) \in Seq(Tokens)
      /\ Len(a) \in Nat /\ Len(a) >= 1
      /\ Len(Tail(a)) = Len(a) - 1 /\ \A i \in 1..Len(Tail(a)) : Tail(a)[i] = a[i + 1]
  BY HeadTailProperties, EmptySeq
<1>2. /\ Append(b, Head(a)) \in Seq(Tokens) /\ Len(Append(b, Head(a))) = Len(b) + 1
      /\ \A i \in 1..Len(b) : Append(b, Head(a))[i] = b[i]
      /\ Append(b, Head(a))[Len(b) + 1] = Head(a)
  BY <1>1, AppendProperties
<1>3. ASSUME Has(Append(b, Head(a)), t) PROVE Has(b, t) \/ Has(a, t)
  <2>1. PICK i \in 1..Len(b) + 1 : Append(b, Head(a))[i].t = t
    BY <1>2, <1>3 DEF Has
  <2>2. CASE i <= Len(b)
    BY <1>2, <2>1, <2>2 DEF Has
  <2>3. CASE i = Len(b) + 1
    BY <1>1, <1>2, <2>1, <2>3 DEF Has
  <2> QED
    BY <2>2, <2>3
<1>4. ASSUME Has(Tail(a), t) PROVE Has(a, t)
  BY <1>1, <1>4 DEF Has
<1> QED
  BY <1>1, <1>2, <1>3, <1>4

\* What the KAM-XL says of its link; what the mailbox says is nothing of it.
EndTypes == {"refused", "banner", "can't"}
Quiet == {x \in Tokens : x.t \notin EndTypes \cup {"connected"}}

LEMMA QuietSays ==
  ASSUME NEW s \in Seq(Quiet), NEW t \in EndTypes \cup {"connected"}
  PROVE  s \in Seq(Tokens) /\ ~Has(s, t)
BY DEF Quiet, Has

LEMMA QuietTokens ==
  /\ \A t \in {"signon", "column", "not found", "echo", "cmd", "EH?"} : Tok(t) \in Quiet
  /\ \A k \in Nat : Prompt(k) \in Quiet
BY DEF Quiet, Tok, Prompt, Tokens, EndTypes

LEMMA OneOrTwo ==
  ASSUME NEW S, NEW a \in S, NEW b \in S
  PROVE  <<a>> \in Seq(S) /\ <<a, b>> \in Seq(S)
OBVIOUS

LEMMA QuietAnswer ==
  ASSUME stored \in Nat, number \in Nat
  PROVE  Answer \in Seq(Quiet)
<1>1. Rows \in Seq(Quiet)
  BY DEF Rows, Quiet, Tokens, EndTypes
<1>2. BodyOf(number) \in Seq(Quiet)
  BY PbbsAssumption DEF BodyOf, Quiet, Tokens, EndTypes
<1>3. [t |-> "header", id |-> number] \in Quiet
  BY DEF Quiet, Tokens, EndTypes
<1>4. /\ <<Tok("column")>> \in Seq(Quiet) /\ <<Prompt(2)>> \in Seq(Quiet)
      /\ <<Tok("not found"), Prompt(2)>> \in Seq(Quiet)
      /\ <<[t |-> "header", id |-> number]>> \in Seq(Quiet)
  <2>1. Tok("column") \in Quiet /\ Tok("not found") \in Quiet /\ Prompt(2) \in Quiet
    BY QuietTokens
  <2> QED
    BY <1>3, <2>1, OneOrTwo
<1> DEFINE column == <<Tok("column")>>
           header == <<[t |-> "header", id |-> number]>>
           last == <<Prompt(2)>>
           none == <<Tok("not found"), Prompt(2)>>
<1>5. Answer = IF method = "list" THEN (column \o Rows) \o last
               ELSE IF number > stored THEN none
               ELSE (header \o BodyOf(number)) \o last
  BY DEF Answer
<1> HIDE DEF column, header, last, none
<1>6. (column \o Rows) \in Seq(Quiet) /\ (header \o BodyOf(number)) \in Seq(Quiet)
  BY <1>1, <1>2, <1>4, ConcatProperties DEF column, header
<1>7. ((column \o Rows) \o last) \in Seq(Quiet)
      /\ ((header \o BodyOf(number)) \o last) \in Seq(Quiet)
  BY <1>4, <1>6, ConcatProperties DEF last
<1> QED
  BY <1>4, <1>5, <1>7 DEF none

-----------------------------------------------------------------------------
(***************************************************************************)
(* The invariant: what is on its way from the KAM-XL is true of the link.  *)
(***************************************************************************)
Typing ==
  /\ line \in Seq(Tokens) /\ air \in Seq(Tokens)
  /\ link \in BOOLEAN /\ calling \in BOOLEAN
  /\ stored \in Nat /\ number \in Nat

Says(t) == Has(line, t) \/ Has(air, t)

LinkInv ==
  /\ calling => ~link /\ (pc = "await" \/ (pc = "end" /\ outcome = "timeout"))
  /\ pc \in {"name", "connect"} => ~link /\ line = <<>> /\ air = <<>>
  /\ Says("connected") => ~calling
  /\ \A t \in EndTypes : Says(t) => ~link /\ ~calling
  /\ pc = "parse" => ~link
  /\ pc = "end" /\ outcome # "timeout" => ~link

PbbsInv == Typing /\ LinkInv

LEMMA Shown ==
  /\ SignOn \in Seq(Quiet)
  /\ HungUp \in Seq(Tokens) /\ ~Has(HungUp, "connected")
  /\ \A t \in {"connected", "refused", "can't", "banner", "cmd"} :
        <<Tok(t)>> \in Seq(Tokens) /\ \A w : Has(<<Tok(t)>>, w) => w = t
  /\ \A t \in {"refused", "can't"} :
        <<Tok(t), Tok("cmd")>> \in Seq(Tokens) /\ ~Has(<<Tok(t), Tok("cmd")>>, "connected")
  /\ <<>> \in Seq(Tokens) /\ \A t : ~Has(<<>>, t)
<1>1. SignOn \in Seq(Quiet)
  BY QuietTokens, OneOrTwo DEF SignOn
<1>2. HungUp \in Seq(Tokens) /\ ~Has(HungUp, "connected")
  BY DEF HungUp, Has, Tok, Tokens
<1>3. ASSUME NEW t \in {"connected", "refused", "can't", "banner", "cmd"}
      PROVE  <<Tok(t)>> \in Seq(Tokens) /\ \A w : Has(<<Tok(t)>>, w) => w = t
  <2>1. Tok(t) \in Tokens /\ Tok(t).t = t
    BY DEF Tok, Tokens
  <2>2. /\ <<Tok(t)>> \in Seq(Tokens)
        /\ Len(<<Tok(t)>>) = 1 /\ <<Tok(t)>>[1] = Tok(t)
    BY <2>1, OneOrTwo
  <2>3. ASSUME NEW w, Has(<<Tok(t)>>, w) PROVE w = t
    <3>1. PICK i \in 1..1 : <<Tok(t)>>[i].t = w
      BY <2>2, <2>3 DEF Has
    <3> QED
      BY <2>1, <2>2, <3>1
  <2> QED
    BY <2>2, <2>3
<1>4. ASSUME NEW t \in {"refused", "can't"}
      PROVE  <<Tok(t), Tok("cmd")>> \in Seq(Tokens) /\ ~Has(<<Tok(t), Tok("cmd")>>, "connected")
  <2>1. /\ Tok(t) \in Tokens /\ Tok(t).t = t
        /\ Tok("cmd") \in Tokens /\ Tok("cmd").t = "cmd"
    BY DEF Tok, Tokens
  <2> DEFINE two == <<Tok(t), Tok("cmd")>>
  <2>2. two \in Seq(Tokens) /\ Len(two) = 2 /\ two[1] = Tok(t) /\ two[2] = Tok("cmd")
    BY <2>1, OneOrTwo
  <2> HIDE DEF two
  <2>3. ~Has(two, "connected")
    <3>1. ASSUME NEW i \in 1..2 PROVE two[i].t # "connected"
      BY <2>1, <2>2
    <3> QED
      BY <2>2, <3>1 DEF Has
  <2> QED
    BY <2>2, <2>3 DEF two
<1>5. <<>> \in Seq(Tokens) /\ \A t : ~Has(<<>>, t)
  BY DEF Has
<1> QED
  BY <1>1, <1>2, <1>3, <1>4, <1>5, Zenon

LEMMA PbbsStart == Init => PbbsInv
<1> SUFFICES ASSUME Init PROVE PbbsInv
  OBVIOUS
<1>1. Typing
  <2>1. stored \in 0..MaxStored /\ number \in 1..(MaxStored + 1) \cup {1}
    BY DEF Init
  <2>2. stored \in Nat /\ number \in Nat
    BY <2>1, PbbsAssumption
  <2>3. line = <<>> /\ air = <<>> /\ link = FALSE /\ calling = FALSE
    BY DEF Init
  <2> QED
    BY <2>2, <2>3, Shown DEF Typing
<1>2. LinkInv
  BY Shown DEF Init, LinkInv, Says, EndTypes
<1> QED
  BY <1>1, <1>2 DEF PbbsInv

-----------------------------------------------------------------------------
(***************************************************************************)
(* The steps that change the link.                                         *)
(***************************************************************************)
LEMMA LinkMadeStep == PbbsInv /\ LinkMade => PbbsInv'
<1> SUFFICES ASSUME PbbsInv, LinkMade PROVE PbbsInv'
  OBVIOUS
<1> USE DEF PbbsInv, Typing
<1> DEFINE made == <<Tok("connected")>>
<1>1. made \in Seq(Tokens) /\ \A t \in EndTypes : ~Has(made, t)
  BY Shown DEF EndTypes
<1>2. SignOn \in Seq(Tokens) /\ \A t \in EndTypes : ~Has(SignOn, t)
  BY Shown, QuietSays
<1>3. air' = (air \o made) \o SignOn /\ line' = line
  BY DEF LinkMade, driverVars
<1> HIDE DEF made
<1>4. (air \o made) \in Seq(Tokens)
  BY <1>1, ConcatProperties
<1>5. air' \in Seq(Tokens)
  BY <1>2, <1>3, <1>4, ConcatProperties
<1>6. ASSUME NEW t \in EndTypes, Has(air', t) PROVE Has(air, t)
  BY <1>1, <1>2, <1>3, <1>4, <1>6, HasConcat
<1>7. Typing'
  BY <1>3, <1>5 DEF LinkMade, callVars
<1>8. LinkInv'
  BY <1>3, <1>6 DEF LinkInv, Says, LinkMade, driverVars
<1> QED
  BY <1>7, <1>8

LEMMA LinkRefusedStep == PbbsInv /\ LinkRefused => PbbsInv'
<1> SUFFICES ASSUME PbbsInv, LinkRefused PROVE PbbsInv'
  OBVIOUS
<1> USE DEF PbbsInv, Typing
<1> DEFINE said == <<Tok("refused"), Tok("cmd")>>
<1>1. said \in Seq(Tokens) /\ ~Has(said, "connected")
  BY Shown
<1>2. air' = air \o said
  BY DEF LinkRefused
<1> HIDE DEF said
<1>3. air' \in Seq(Tokens) /\ (Has(air', "connected") => Has(air, "connected"))
  BY <1>1, <1>2, HasConcat, ConcatProperties
<1>4. Typing'
  BY <1>3 DEF LinkRefused, callVars
<1>5. LinkInv'
  BY <1>3 DEF LinkInv, Says, LinkRefused, driverVars
<1> QED
  BY <1>4, <1>5

LEMMA TakesStep == PbbsInv /\ Takes => PbbsInv'
<1> SUFFICES ASSUME PbbsInv, Takes PROVE PbbsInv'
  OBVIOUS
<1> USE DEF PbbsInv, Typing
<1>1. Answer \in Seq(Tokens) /\ \A t \in EndTypes \cup {"connected"} : ~Has(Answer, t)
  BY QuietAnswer, QuietSays
<1>2. air' = air \o Answer
  BY DEF Takes
<1>3. air' \in Seq(Tokens)
  BY <1>1, <1>2, ConcatProperties
<1>4. ASSUME NEW t \in EndTypes \cup {"connected"}, Has(air', t) PROVE Has(air, t)
  BY <1>1, <1>2, <1>4, HasConcat
<1>5. Typing'
  BY <1>3 DEF Takes, callVars, driverVars
<1>6. LinkInv'
  BY <1>4 DEF LinkInv, Says, Takes, driverVars
<1> QED
  BY <1>5, <1>6

LEMMA LinkEndsStep == PbbsInv /\ LinkEnds => PbbsInv'
<1> SUFFICES ASSUME PbbsInv, LinkEnds PROVE PbbsInv'
  OBVIOUS
<1> USE DEF PbbsInv, Typing
<1>1. air' = air \o HungUp
  BY DEF LinkEnds
<1>2. air' \in Seq(Tokens) /\ (Has(air', "connected") => Has(air, "connected"))
  BY <1>1, Shown, HasConcat, ConcatProperties
<1>3. Typing'
  BY <1>2 DEF LinkEnds, callVars, driverVars
<1>4. LinkInv'
  BY <1>2 DEF LinkInv, Says, LinkEnds, driverVars
<1> QED
  BY <1>3, <1>4

LEMMA ArriveStep == PbbsInv /\ Arrive => PbbsInv'
<1> SUFFICES ASSUME PbbsInv, Arrive PROVE PbbsInv'
  OBVIOUS
<1> USE DEF PbbsInv, Typing
<1>1. line' \in Seq(Tokens) /\ air' \in Seq(Tokens)
  BY HasRest DEF Arrive
<1>2. ASSUME NEW t, Says(t)' PROVE Says(t)
  <2>1. /\ Has(Append(line, Head(air)), t) => Has(line, t) \/ Has(air, t)
        /\ Has(Tail(air), t) => Has(air, t)
    BY HasRest DEF Arrive
  <2> QED
    BY <1>2, <2>1 DEF Says, Arrive
<1>3. Typing'
  BY <1>1 DEF Arrive, callVars
<1>4. LinkInv'
  BY <1>2 DEF LinkInv, Arrive, driverVars
<1> QED
  BY <1>3, <1>4

-----------------------------------------------------------------------------
(***************************************************************************)
(* The driver's steps.                                                     *)
(***************************************************************************)
LEMMA ConnectSteps ==
  PbbsInv /\ (Name \/ NameFails \/ Connect \/ Connected \/ ConnectFails \/ ConnectTimesOut)
    => PbbsInv'
<1> SUFFICES ASSUME PbbsInv PROVE (Name \/ NameFails \/ Connect \/ Connected
                                   \/ ConnectFails \/ ConnectTimesOut) => PbbsInv'
  OBVIOUS
<1> USE DEF PbbsInv, Typing, LinkInv, Says
<1>0. <<>> \in Seq(Tokens) /\ \A t : ~Has(<<>>, t)
  BY Shown
<1>1. Name => PbbsInv'
  BY DEF Name, callVars
<1>2. NameFails => PbbsInv'
  BY DEF NameFails, End, callVars
<1>3. Connect => PbbsInv'
  BY <1>0 DEF Connect, callVars, EndTypes
<1>4. Connected => PbbsInv'
  BY <1>0 DEF Connected, callVars
<1>5. ConnectFails => PbbsInv'
  BY <1>0 DEF ConnectFails, End, callVars, EndTypes
<1>6. ConnectTimesOut => PbbsInv'
  BY <1>0 DEF ConnectTimesOut, End, callVars
<1> QED
  BY <1>1, <1>2, <1>3, <1>4, <1>5, <1>6

LEMMA SendCommandStep == PbbsInv /\ SendCommand => PbbsInv'
<1> SUFFICES ASSUME PbbsInv, SendCommand PROVE PbbsInv'
  OBVIOUS
<1> USE DEF PbbsInv, Typing
<1> DEFINE eh == <<Tok("EH?"), Tok("cmd")>>
           repeated == <<Tok("echo")>>
<1>1. eh \in Seq(Quiet) /\ repeated \in Seq(Quiet)
  <2>1. Tok("EH?") \in Quiet /\ Tok("cmd") \in Quiet /\ Tok("echo") \in Quiet
    BY QuietTokens
  <2> QED
    BY <2>1, OneOrTwo
<1>2. line' = line \o eh \/ line' = line \o repeated \/ line' = line
  BY AppendIsConcat DEF SendCommand
<1> HIDE DEF eh, repeated
<1>3. line' \in Seq(Tokens)
  BY <1>1, <1>2, QuietSays, ConcatProperties
<1>4. ASSUME NEW t \in EndTypes \cup {"connected"}, Has(line', t) PROVE Has(line, t)
  <2>1. /\ eh \in Seq(Tokens) /\ ~Has(eh, t)
        /\ repeated \in Seq(Tokens) /\ ~Has(repeated, t)
    BY <1>1, QuietSays
  <2>2. Has(line \o eh, t) => Has(line, t)
    BY <2>1, HasConcat
  <2>3. Has(line \o repeated, t) => Has(line, t)
    BY <2>1, HasConcat
  <2> QED
    BY <1>2, <1>4, <2>2, <2>3
<1>5. Typing'
  BY <1>3 DEF SendCommand, callVars
<1>6. LinkInv'
  BY <1>4 DEF LinkInv, Says, SendCommand
<1> QED
  BY <1>5, <1>6

\* The rest of a cut line says nothing of the link.
LEMMA CollectionSays ==
  ASSUME air \in Seq(Tokens), NEW unread, CollectionEnds(unread)
  PROVE  /\ pc' = "ctrlC" /\ air' \in Seq(Tokens)
         /\ \A t \in EndTypes \cup {"connected"} : Has(air', t) => Has(air, t)
<1>1. CASE UNCHANGED <<cut, air>>
  BY <1>1 DEF CollectionEnds
<1>2. CASE air # << >> /\ air' = <<Tok("rest")>> \o Tail(air)
  <2> DEFINE end == <<Tok("rest")>>
  <2>1. Tok("rest") \in Quiet
    BY DEF Quiet, Tok, Tokens, EndTypes
  <2>2. end \in Seq(Quiet)
    BY <2>1, OneOrTwo
  <2>3. Tail(air) \in Seq(Tokens) /\ \A t : Has(Tail(air), t) => Has(air, t)
    BY <1>2, HasRest, Shown
  <2> HIDE DEF end
  <2>4. end \in Seq(Tokens) /\ \A t \in EndTypes \cup {"connected"} : ~Has(end, t)
    BY <2>2, QuietSays
  <2>5. air' = end \o Tail(air)
    BY <1>2 DEF end
  <2>6. end \o Tail(air) \in Seq(Tokens)
    BY <2>3, <2>4, ConcatProperties
  <2>7. ASSUME NEW t \in EndTypes \cup {"connected"}, Has(air', t) PROVE Has(air, t)
    BY <2>3, <2>4, <2>5, <2>7, HasConcat
  <2> QED
    BY <2>5, <2>6, <2>7 DEF CollectionEnds
<1> QED
  BY <1>1, <1>2 DEF CollectionEnds

LEMMA CollectSteps == PbbsInv /\ (Slice \/ PollTimesOut \/ CtrlC) => PbbsInv'
<1> SUFFICES ASSUME PbbsInv PROVE (Slice \/ PollTimesOut \/ CtrlC) => PbbsInv'
  OBVIOUS
<1> USE DEF PbbsInv, Typing, LinkInv, Says
<1>0. <<>> \in Seq(Tokens) /\ \A t : ~Has(<<>>, t)
  BY Shown
<1>1. ASSUME Slice PROVE PbbsInv'
  <2>1. CASE UNCHANGED <<pc, cut, air>>
    BY <1>0, <1>1, <2>1 DEF Slice, callVars
  <2>2. CASE CollectionEnds(<< >>)
    <3>1. /\ pc' = "ctrlC" /\ air' \in Seq(Tokens)
          /\ \A t \in EndTypes \cup {"connected"} : Has(air', t) => Has(air, t)
      BY <2>2, CollectionSays
    <3>2. line' = << >> /\ pc = "poll"
          /\ UNCHANGED <<callVars, outcome, link, calling>>
      BY <1>1 DEF Slice
    <3> HIDE DEF PbbsInv
    <3> QED
      BY <1>0, <3>1, <3>2 DEF callVars, PbbsInv
  <2> QED
    BY <1>1, <2>1, <2>2 DEF Slice
<1>2. ASSUME PollTimesOut PROVE PbbsInv'
  <2>1. /\ pc' = "ctrlC" /\ air' \in Seq(Tokens)
        /\ \A t \in EndTypes \cup {"connected"} : Has(air', t) => Has(air, t)
    BY <1>2, CollectionSays DEF PollTimesOut
  <2>2. pc = "poll" /\ UNCHANGED <<callVars, line, outcome, link, calling>>
    BY <1>2 DEF PollTimesOut
  <2> QED
    BY <2>1, <2>2 DEF callVars
<1>3. CtrlC => PbbsInv'
  <2>1. /\ <<Tok("cmd")>> \in Seq(Tokens)
        /\ \A t \in EndTypes \cup {"connected"} : ~Has(<<Tok("cmd")>>, t)
    BY Shown DEF EndTypes
  <2>2. ASSUME CtrlC PROVE PbbsInv'
    <3>1. /\ line' = <<>> /\ (air' = <<Tok("cmd")>> \/ air' = air)
          /\ pc' = "prompt" /\ link' = link /\ ~calling /\ ~calling'
      BY <2>2 DEF CtrlC, AfterPoll
    <3>2. Typing'
      BY <1>0, <2>1, <2>2, <3>1 DEF CtrlC, callVars
    <3>3. \A t \in EndTypes : Says(t)' => ~link'
      BY <1>0, <2>1, <3>1
    <3> QED
      BY <3>1, <3>2, <3>3
  <2> QED
    BY <2>2
<1> QED
  BY <1>1, <1>2, <1>3

LEMMA DisconnectSteps ==
  PbbsInv /\ (Disconne \/ Disconnected \/ DisconnectTimesOut \/ Return) => PbbsInv'
<1> SUFFICES ASSUME PbbsInv
             PROVE (Disconne \/ Disconnected \/ DisconnectTimesOut \/ Return) => PbbsInv'
  OBVIOUS
<1> USE DEF PbbsInv, Typing, LinkInv, Says
<1>0. <<>> \in Seq(Tokens) /\ \A t : ~Has(<<>>, t)
  BY Shown
<1>1. ASSUME Disconne PROVE PbbsInv'
  <2>1. CASE link
    BY <1>0, <1>1, <2>1, Shown DEF Disconne, callVars
  <2>2. CASE ~link
    <3>1. /\ <<Tok("can't"), Tok("cmd")>> \in Seq(Tokens)
          /\ ~Has(<<Tok("can't"), Tok("cmd")>>, "connected")
      BY Shown
    <3> QED
      BY <1>1, <2>2, <3>1 DEF Disconne, callVars
  <2> QED
    BY <2>1, <2>2
<1>2. Disconnected => PbbsInv'
  BY <1>0 DEF Disconnected, callVars, EndTypes
<1>3. DisconnectTimesOut => PbbsInv'
  BY DEF DisconnectTimesOut, End, callVars
<1>4. Return => PbbsInv'
  BY DEF Return, callVars
<1> QED
  BY <1>1, <1>2, <1>3, <1>4

LEMMA PbbsKept == PbbsInv /\ [Next]_vars => PbbsInv'
<1>1. PbbsInv /\ UNCHANGED vars => PbbsInv'
  BY DEF PbbsInv, Typing, LinkInv, Says, vars, callVars, driverVars
<1> QED
  BY <1>1, LinkMadeStep, LinkRefusedStep, TakesStep, ArriveStep, LinkEndsStep, ConnectSteps,
     SendCommandStep, CollectSteps, DisconnectSteps DEF Next, Tnc, Driver

(***************************************************************************)
(* list_pbbs_messages() and read_pbbs_message() never return, and never    *)
(* report a refused link, while the KAM-XL is connected or connecting: for *)
(* any number of messages of any length, wherever the mailbox hangs up.    *)
(***************************************************************************)
THEOREM PbbsDisconnects == Spec => []PbbsEndsDisconnected
<1>1. PbbsInv => PbbsEndsDisconnected
  BY DEF PbbsInv, LinkInv, PbbsEndsDisconnected
<1> QED
  BY <1>1, PbbsStart, PbbsKept, PTL DEF Spec

-----------------------------------------------------------------------------
(***************************************************************************)
(* What the mailbox says in a session: at most one answer, with nothing    *)
(* that looks like a part of one before and after it, and nothing after it *)
(* but a hang-up.                                                          *)
(***************************************************************************)
Plain ==
  {x \in Tokens : x.t \notin {"row", "cut row", "header", "cut header", "not found"} /\ x # Prompt(2)}
After == {b \in Seq(Plain) : b # << >> => b[1].t = "banner"}
Talk(answer, w) == \E a \in Seq(Plain), b \in After : w = a \o (answer \o b)

\* What was collected is the beginning of that.
Told(answer, text) ==
  \E rest \in Seq(Tokens) : text \o rest \in Seq(Plain) \/ Talk(answer, text \o rest)

\* And so were the lines that were collected, with the one they were followed by a
\* piece of.
Collects(answer, text, end) ==
  \/ end = << >> /\ Told(answer, text)
  \/ \E x \in Tokens : Told(answer, Append(text, x)) /\ \E piece \in Pieces(x) : end = <<piece>>

Said == heard \o (line \o air)
AllPlain == heard \in Seq(Plain) /\ line \in Seq(Plain) /\ air \in Seq(Plain)

TalkInv ==
  /\ method \in {"list", "read"} /\ heard \in Seq(Tokens)
  /\ pc \in {"name", "connect", "await", "send"} => AllPlain /\ ~asked /\ cut = << >>
  /\ pc = "poll" => cut = << >> /\ (AllPlain \/ (~asked /\ Talk(Answer, Said)))
  /\ pc \in {"ctrlC", "prompt", "banner", "parse"} => Collects(Answer, heard, cut)
  /\ pc = "end" /\ outcome = "returned" =>
       /\ Collects(Answer, heard, cut)
       /\ result = IF method = "list" THEN ParseMessageList(heard \o cut)
                   ELSE ParseMessage(heard \o cut)

\* Four sequences regrouped (see Regroups).
Follows(a, b, c, d) == a \o (b \o (c \o d)) = (a \o (b \o c)) \o d

LEMMA FourParts ==
  ASSUME NEW X, NEW a \in Seq(X), NEW b \in Seq(X), NEW c \in Seq(X), NEW d \in Seq(X)
  PROVE  Follows(a, b, c, d)
<1>1. b \o c \in Seq(X)
  BY ConcatProperties
<1>2. Regroups(b, c, d) /\ Regroups(a, b \o c, d)
  BY <1>1, ThreeParts, Zenon
<1> QED
  BY <1>2, Zenon DEF Regroups, Follows

LEMMA PlainTokens ==
  /\ << >> \in Seq(Plain) /\ << >> \in After
  /\ SignOn \in Seq(Plain) /\ HungUp \in Seq(Plain) /\ HungUp \in After
  /\ \A t \in {"connected", "cmd", "echo"} : <<Tok(t)>> \in Seq(Plain)
  /\ <<Tok("refused"), Tok("cmd")>> \in Seq(Plain) /\ <<Tok("EH?"), Tok("cmd")>> \in Seq(Plain)
<1>1. \A t \in {"signon", "connected", "refused", "cmd", "echo", "EH?", "banner"} :
         Tok(t) \in Plain /\ Tok(t).t = t
  BY DEF Tok, Plain, Tokens, Prompt
<1>2. Prompt(1) \in Plain
  <2>1. Prompt(1) \in Tokens /\ Prompt(1).t = "prompt" /\ Prompt(1).id = 1 /\ Prompt(2).id = 2
    BY DEF Tokens, Prompt
  <2>2. Prompt(1) # Prompt(2)
    BY <2>1
  <2> QED
    BY <2>1, <2>2 DEF Plain
<1>3. SignOn \in Seq(Plain) /\ HungUp \in Seq(Plain)
  BY <1>1, <1>2, OneOrTwo DEF SignOn, HungUp
<1>4. HungUp[1].t = "banner"
  <2>1. HungUp[1] = Tok("banner")
    BY DEF HungUp
  <2> QED
    BY <1>1, <2>1
<1>5. << >> \in Seq(Plain) /\ << >> \in After
  BY DEF After
<1>6. HungUp \in After
  BY <1>3, <1>4 DEF After
<1>7. \A t \in {"connected", "cmd", "echo"} : <<Tok(t)>> \in Seq(Plain)
  BY <1>1, OneOrTwo
<1>8. <<Tok("refused"), Tok("cmd")>> \in Seq(Plain) /\ <<Tok("EH?"), Tok("cmd")>> \in Seq(Plain)
  BY <1>1, OneOrTwo
<1> QED
  BY <1>3, <1>5, <1>6, <1>7, <1>8

LEMMA PlainIsTokens ==
  ASSUME NEW s \in Seq(Plain)
  PROVE  s \in Seq(Tokens)
<1>1. Plain \subseteq Tokens
  BY DEF Plain
<1> QED
  BY <1>1

LEMMA AnswerTokens ==
  ASSUME Typing
  PROVE  Answer \in Seq(Tokens)
BY QuietAnswer, QuietSays DEF Typing

LEMMA MovesOnPlain ==
  ASSUME NEW s \in Seq(Plain), NEW u \in Seq(Plain), u # << >>
  PROVE  Append(s, Head(u)) \in Seq(Plain) /\ Tail(u) \in Seq(Plain)
BY HeadTailProperties

LEMMA TalkGoesOn ==
  ASSUME NEW answer \in Seq(Tokens), NEW w, Talk(answer, w)
  PROVE  Talk(answer, w \o HungUp) /\ w \in Seq(Tokens)
<1>1. PICK a \in Seq(Plain), b \in After : w = a \o (answer \o b)
  BY DEF Talk
<1>2. /\ a \in Seq(Tokens) /\ b \in Seq(Plain) /\ b \in Seq(Tokens)
      /\ HungUp \in Seq(Plain) /\ HungUp \in Seq(Tokens)
  BY PlainIsTokens, PlainTokens DEF After
<1>3. answer \o b \in Seq(Tokens) /\ w \in Seq(Tokens)
  BY <1>1, <1>2, ConcatProperties
<1>4. w \o HungUp = a \o (answer \o (b \o HungUp))
  <2>1. Regroups(a, answer \o b, HungUp) /\ Regroups(answer, b, HungUp)
    BY <1>2, <1>3, ThreeParts, Zenon
  <2> QED
    BY <1>1, <2>1, Zenon DEF Regroups
<1>5. b \o HungUp \in After
  <2>1. b \o HungUp \in Seq(Plain)
    BY <1>2, ConcatProperties
  <2>2. CASE b = << >>
    BY <1>2, <2>2, ConcatEmptySeq, PlainTokens
  <2>3. CASE b # << >>
    <3>1. 1 \in 1..Len(b) /\ b[1].t = "banner"
      BY <1>2, <2>3 DEF After
    <3>2. (b \o HungUp)[1] = b[1]
      BY <1>2, <3>1
    <3> QED
      BY <2>1, <3>1, <3>2 DEF After
  <2> QED
    BY <2>2, <2>3
<1>6. Talk(answer, w \o HungUp)
  BY <1>4, <1>5 DEF Talk
<1> QED
  BY <1>3, <1>6

LEMMA PlainSaid ==
  ASSUME AllPlain
  PROVE  Said \in Seq(Plain)
<1>1. line \o air \in Seq(Plain)
  BY ConcatProperties DEF AllPlain
<1> QED
  BY <1>1, ConcatProperties DEF AllPlain, Said

\* A prefix of what was said is told.
LEMMA Prefixed ==
  ASSUME Typing, TalkInv, pc = "poll"
  PROVE  Told(Answer, heard) /\ Told(Answer, heard \o line)
<1>1. heard \in Seq(Tokens) /\ line \in Seq(Tokens) /\ air \in Seq(Tokens)
  BY DEF Typing, TalkInv
<1>2. Said \in Seq(Plain) \/ Talk(Answer, Said)
  BY PlainSaid DEF TalkInv
<1>3. line \o air \in Seq(Tokens)
  BY <1>1, ConcatProperties
<1>4. Regroups(heard, line, air)
  BY <1>1, ThreeParts, Zenon
<1>5. Told(Answer, heard)
  BY <1>2, <1>3, Zenon DEF Said, Told
<1>6. Told(Answer, heard \o line)
  BY <1>1, <1>2, <1>4, Zenon DEF Said, Told, Regroups
<1> QED
  BY <1>5, <1>6

\* Where the collection ends, in a line or between two.
LEMMA EndCollects ==
  ASSUME Typing, cut = << >>, NEW text \in Seq(Tokens), NEW unread, CollectionEnds(unread),
         Said \in Seq(Plain) \/ Talk(Answer, Said), Told(Answer, text),
         unread = << >> => text \o air = Said
  PROVE  Collects(Answer, text, cut')
<1>1. CASE UNCHANGED <<cut, air>>
  BY <1>1 DEF Collects
<1>2. CASE /\ unread = << >> /\ air # << >>
           /\ \E piece \in Pieces(Head(air)) : cut' = <<piece>>
  <2> DEFINE x == Head(air)
  <2>1. air \in Seq(Tokens)
    BY DEF Typing
  <2>2. /\ x \in Tokens /\ Tail(air) \in Seq(Tokens)
        /\ Append(text, x) \o Tail(air) = text \o air
    BY <1>2, <2>1, MovesOn
  <2>3. text \o air = Said
    BY <1>2
  <2>4. \E piece \in Pieces(x) : cut' = <<piece>>
    BY <1>2
  <2> HIDE DEF x
  <2>5. Told(Answer, Append(text, x))
    BY <2>2, <2>3, Zenon DEF Told
  <2> QED
    BY <2>2, <2>4, <2>5 DEF Collects
<1> QED
  BY <1>1, <1>2 DEF CollectionEnds

LEMMA SameAnswer == UNCHANGED callVars => Answer' = Answer
BY DEF callVars, Answer, Rows, BodyOf

-----------------------------------------------------------------------------
(***************************************************************************)
(* What the KAM-XL says, and the driver does, keeps it.                    *)
(***************************************************************************)
LEMMA TalkStart == Init => TalkInv
<1> SUFFICES ASSUME Init PROVE TalkInv
  OBVIOUS
<1>1. /\ heard = << >> /\ line = << >> /\ air = << >>
      /\ pc = "name" /\ ~asked /\ method \in {"list", "read"} /\ cut = << >>
  BY DEF Init
<1>2. AllPlain /\ heard \in Seq(Tokens)
  BY <1>1, PlainTokens DEF AllPlain
<1> QED
  BY <1>1, <1>2 DEF TalkInv

\* What the KAM-XL is going to say comes last.
LEMMA SaysMore ==
  ASSUME heard \in Seq(Tokens), line \in Seq(Tokens), air \in Seq(Tokens), NEW d \in Seq(Tokens)
  PROVE  heard \o (line \o (air \o d)) = Said \o d
<1>1. Follows(heard, line, air, d)
  BY FourParts, Zenon
<1> QED
  BY <1>1, Zenon DEF Follows, Said

\* The KAM-XL says something, and the driver does nothing.
LEMMA TncStep ==
  ASSUME PbbsInv, TalkInv, Tnc
  PROVE  TalkInv'
<1>1. UNCHANGED <<callVars, driverVars>> /\ Answer' = Answer
  BY SameAnswer DEF Tnc, LinkMade, LinkRefused, Takes, Arrive, LinkEnds
<1>2. /\ Typing /\ LinkInv /\ heard \in Seq(Tokens) /\ line \in Seq(Tokens) /\ air \in Seq(Tokens)
      /\ Answer \in Seq(Tokens)
  BY AnswerTokens DEF PbbsInv, Typing, TalkInv
<1>3. asked' => asked
  BY DEF Tnc, LinkMade, LinkRefused, Takes, Arrive, LinkEnds
<1>4. Said \in Seq(Tokens)
  BY <1>2, ConcatProperties DEF Said
\* Unless an answer is on its way, everything stays plain.
<1>5. ASSUME AllPlain, ~Takes
      PROVE  AllPlain'
  <2>1. CASE LinkMade
    <3> DEFINE made == <<Tok("connected")>>
    <3>1. made \in Seq(Plain) /\ SignOn \in Seq(Plain) /\ air \in Seq(Plain)
      BY <1>5, PlainTokens DEF AllPlain
    <3>2. air' = (air \o made) \o SignOn /\ line' = line
      BY <2>1 DEF LinkMade, driverVars
    <3> HIDE DEF made
    <3>3. air \o made \in Seq(Plain)
      BY <3>1, ConcatProperties
    <3>4. air' \in Seq(Plain)
      BY <3>1, <3>2, <3>3, ConcatProperties
    <3> QED
      BY <1>1, <1>5, <3>2, <3>4 DEF AllPlain, driverVars
  <2>2. CASE LinkRefused
    <3>1. air' \in Seq(Plain) /\ line' = line
      BY <1>5, <2>2, PlainTokens, ConcatProperties DEF AllPlain, LinkRefused
    <3> QED
      BY <1>1, <1>5, <3>1 DEF AllPlain, driverVars
  <2>3. CASE Arrive
    <3>1. air' \in Seq(Plain) /\ line' \in Seq(Plain)
      BY <1>5, <2>3, MovesOnPlain DEF AllPlain, Arrive
    <3> QED
      BY <1>1, <1>5, <3>1 DEF AllPlain, driverVars
  <2>4. CASE LinkEnds
    <3>1. air' \in Seq(Plain) /\ line' = line
      BY <1>5, <2>4, PlainTokens, ConcatProperties DEF AllPlain, LinkEnds
    <3> QED
      BY <1>1, <1>5, <3>1 DEF AllPlain, driverVars
  <2> QED
    BY <1>5, <2>1, <2>2, <2>3, <2>4 DEF Tnc
<1>6. ASSUME pc = "poll", AllPlain, Takes
      PROVE  ~asked' /\ Talk(Answer, Said')
  <2>1. air' = air \o Answer /\ line' = line /\ heard' = heard /\ ~asked'
    BY <1>1, <1>6 DEF Takes, driverVars
  <2>2. Said' = heard \o (line \o (air \o Answer))
    BY <2>1 DEF Said
  <2>3. Said' = Said \o Answer
    BY <1>2, <2>2, SaysMore
  <2>4. Said \in Seq(Plain) /\ Answer \o << >> = Answer
    BY <1>2, <1>6, PlainSaid, ConcatEmptySeq
  <2>5. Talk(Answer, Said')
    BY <2>3, <2>4, PlainTokens DEF Talk
  <2> QED
    BY <2>1, <2>5
<1>7. ASSUME pc = "poll", ~asked, Talk(Answer, Said)
      PROVE  Talk(Answer, Said')
  <2>1. CASE LinkMade
    BY <1>2, <1>7, <2>1 DEF LinkMade, LinkInv
  <2>2. CASE LinkRefused
    BY <1>2, <1>7, <2>2 DEF LinkRefused, LinkInv
  <2>3. CASE Takes
    BY <1>7, <2>3 DEF Takes
  <2>4. CASE Arrive
    <3>1. line' = Append(line, Head(air)) /\ air' = Tail(air) /\ air # << >> /\ heard' = heard
      BY <1>1, <2>4 DEF Arrive, driverVars
    <3>2. line' \o air' = line \o air
      BY <1>2, <3>1, MovesOn
    <3>3. Said' = Said
      BY <3>1, <3>2 DEF Said
    <3> QED
      BY <1>7, <3>3
  <2>5. CASE LinkEnds
    <3>1. line' = line /\ air' = air \o HungUp /\ heard' = heard
      BY <1>1, <2>5 DEF LinkEnds, driverVars
    <3>2. HungUp \in Seq(Tokens)
      BY PlainTokens, PlainIsTokens
    <3>5. Said' = Said \o HungUp
      BY <1>2, <3>1, <3>2, SaysMore DEF Said
    <3> QED
      BY <1>2, <1>7, <3>5, TalkGoesOn
  <2> QED
    BY <2>1, <2>2, <2>3, <2>4, <2>5 DEF Tnc
<1>8. CASE pc \in {"name", "connect", "await", "send"}
  <2>1. AllPlain /\ ~asked /\ cut = << >>
    BY <1>8 DEF TalkInv
  <2>2. ~Takes
    BY <2>1 DEF Takes
  <2>3. AllPlain' /\ ~asked'
    BY <1>3, <1>5, <2>1, <2>2
  <2> QED
    BY <1>1, <1>8, <2>1, <2>3 DEF TalkInv, driverVars, callVars
<1>9. CASE pc = "poll"
  <2>1. AllPlain' \/ (~asked' /\ Talk(Answer, Said'))
    <3>1. CASE AllPlain
      BY <1>5, <1>6, <1>9, <3>1
    <3>2. CASE ~asked /\ Talk(Answer, Said)
      BY <1>3, <1>7, <1>9, <3>2
    <3> QED
      BY <1>9, <3>1, <3>2 DEF TalkInv
  <2>2. cut = << >> /\ cut' = cut
    BY <1>1, <1>9 DEF TalkInv, driverVars
  <2> QED
    BY <1>1, <1>9, <2>1, <2>2 DEF TalkInv, driverVars, callVars, Talk
<1>10. CASE pc \notin {"name", "connect", "await", "send", "poll"}
  <2>1. /\ heard' = heard /\ cut' = cut /\ pc' = pc /\ result' = result
        /\ outcome' = outcome /\ method' = method
    BY <1>1 DEF driverVars, callVars
  <2>2. /\ ParseMessageList(heard \o cut)' = ParseMessageList(heard \o cut)
        /\ ParseMessage(heard \o cut)' = ParseMessage(heard \o cut)
        /\ Collects(Answer, heard, cut)' = Collects(Answer, heard, cut)
    BY <1>1, <2>1 DEF Collects, Told, Talk
  <2> QED
    BY <1>1, <1>10, <2>1, <2>2 DEF TalkInv
<1> QED
  BY <1>8, <1>9, <1>10

LEMMA CallSteps ==
  ASSUME PbbsInv, TalkInv,
         Name \/ NameFails \/ Connect \/ Connected \/ ConnectFails \/ ConnectTimesOut
  PROVE  TalkInv'
<1>1. pc \in {"name", "connect", "await"}
  BY DEF Name, NameFails, Connect, Connected, ConnectFails, ConnectTimesOut
<1>2. /\ AllPlain /\ ~asked /\ method \in {"list", "read"} /\ heard \in Seq(Tokens)
      /\ cut = << >>
  BY <1>1 DEF TalkInv
<1>3. /\ heard' = heard /\ cut' = cut /\ air' = air /\ asked' = asked /\ method' = method
      /\ line' \in {line, << >>}
      /\ \/ pc' \in {"connect", "await", "send"}
         \/ pc' = "end" /\ outcome' \in {"timeout", "refused"}
  BY DEF Name, NameFails, Connect, Connected, ConnectFails, ConnectTimesOut, End, callVars
<1>4. AllPlain'
  BY <1>2, <1>3, PlainTokens DEF AllPlain
<1> QED
  BY <1>2, <1>3, <1>4 DEF TalkInv

LEMMA CommandGoes ==
  ASSUME PbbsInv, TalkInv, SendCommand
  PROVE  TalkInv'
<1>1. AllPlain /\ method \in {"list", "read"} /\ heard \in Seq(Tokens) /\ cut = << >>
  BY DEF TalkInv, SendCommand
<1>2. /\ heard' = heard /\ cut' = cut /\ air' = air /\ method' = method /\ pc' = "poll"
  BY DEF SendCommand, callVars
<1> DEFINE eh == <<Tok("EH?"), Tok("cmd")>>
           repeated == <<Tok("echo")>>
<1>3. eh \in Seq(Plain) /\ repeated \in Seq(Plain)
  BY PlainTokens
<1>4. line' = line \o eh \/ line' = line \o repeated \/ line' = line
  BY AppendIsConcat DEF SendCommand, PbbsInv, Typing
<1> HIDE DEF eh, repeated
<1>5. line \o eh \in Seq(Plain) /\ line \o repeated \in Seq(Plain) /\ line \in Seq(Plain)
  BY <1>1, <1>3, ConcatProperties DEF AllPlain
<1>6. AllPlain'
  BY <1>1, <1>2, <1>4, <1>5 DEF AllPlain
<1> QED
  BY <1>1, <1>2, <1>6 DEF TalkInv

LEMMA SliceGoesOn ==
  ASSUME PbbsInv, TalkInv, Slice
  PROVE  TalkInv'
<1>1. /\ pc = "poll" /\ heard' = heard \o line /\ line' = << >>
      /\ asked' = asked /\ method' = method /\ Answer' = Answer /\ cut = << >>
  BY SameAnswer DEF Slice, Collected, callVars, TalkInv
<1>2. /\ Typing /\ method \in {"list", "read"}
      /\ heard \in Seq(Tokens) /\ line \in Seq(Tokens) /\ air \in Seq(Tokens)
  BY DEF PbbsInv, Typing, TalkInv
<1>3. Told(Answer, heard') /\ heard' \in Seq(Tokens)
  BY <1>1, <1>2, Prefixed, ConcatProperties
<1>4. heard' \o air = Said
  <2>1. Regroups(heard, line, air)
    BY <1>2, ThreeParts, Zenon
  <2> QED
    BY <1>1, <2>1 DEF Said, Regroups
<1>5. method' \in {"list", "read"} /\ heard' \in Seq(Tokens)
  BY <1>1, <1>2, <1>3
<1>6. CASE UNCHANGED <<pc, cut, air>>
  <2>1. AllPlain => AllPlain'
    BY <1>1, <1>6, PlainTokens, ConcatProperties DEF AllPlain
  <2>2. Said' = Said
    <3>1. << >> \o air = air
      BY <1>2, ConcatEmptySeq
    <3> QED
      BY <1>1, <1>4, <1>6, <3>1 DEF Said
  <2>3. AllPlain \/ (~asked /\ Talk(Answer, Said))
          => AllPlain' \/ (~asked' /\ Talk(Answer', Said'))
    BY <1>1, <2>1, <2>2, Zenon
  <2>4. AllPlain' \/ (~asked' /\ Talk(Answer', Said'))
    BY <1>1, <2>3 DEF TalkInv
  <2>5. (AllPlain \/ (~asked /\ Talk(Answer, Said)))'
    BY <2>4 DEF Talk
  <2> QED
    BY <1>1, <1>5, <1>6, <2>5 DEF TalkInv
<1>7. CASE CollectionEnds(<< >>)
  <2>1. Said \in Seq(Plain) \/ Talk(Answer, Said)
    BY <1>1, PlainSaid DEF TalkInv
  <2>2. Collects(Answer, heard', cut')
    BY <1>1, <1>2, <1>3, <1>4, <1>7, <2>1, EndCollects
  <2>3. Collects(Answer, heard, cut)' /\ pc' = "ctrlC"
    BY <1>1, <1>7, <2>2 DEF Collects, Told, Talk, CollectionEnds
  <2> QED
    BY <1>5, <2>3 DEF TalkInv
<1> QED
  BY <1>6, <1>7 DEF Slice

LEMMA TimeoutCollects ==
  ASSUME PbbsInv, TalkInv, PollTimesOut
  PROVE  TalkInv'
<1>1. /\ pc = "poll" /\ heard' = heard /\ method' = method /\ Answer' = Answer
      /\ cut = << >> /\ CollectionEnds(line)
  BY SameAnswer DEF PollTimesOut, callVars, TalkInv
<1>2. /\ Typing /\ method \in {"list", "read"}
      /\ heard \in Seq(Tokens) /\ air \in Seq(Tokens)
  BY DEF PbbsInv, Typing, TalkInv
<1>3. Said \in Seq(Plain) \/ Talk(Answer, Said)
  BY <1>1, PlainSaid DEF TalkInv
<1>4. line = << >> => heard \o air = Said
  <2>1. << >> \o air = air
    BY <1>2, ConcatEmptySeq
  <2> QED
    BY <2>1 DEF Said
<1>5. Told(Answer, heard)
  BY <1>1, <1>2, Prefixed
<1>6. Collects(Answer, heard, cut')
  BY <1>1, <1>2, <1>3, <1>4, <1>5, EndCollects
<1>7. Collects(Answer, heard, cut)' /\ pc' = "ctrlC"
  BY <1>1, <1>6 DEF Collects, Told, Talk, CollectionEnds
<1> QED
  BY <1>1, <1>2, <1>7 DEF TalkInv

LEMMA CollectingEnds ==
  ASSUME PbbsInv, TalkInv, CtrlC \/ Disconne \/ Disconnected
  PROVE  TalkInv'
<1>1. /\ heard' = heard /\ cut' = cut /\ method' = method /\ Answer' = Answer
      /\ pc' \in {"ctrlC", "prompt", "banner", "parse"}
      /\ pc \in {"ctrlC", "prompt", "banner"}
  BY SameAnswer DEF CtrlC, AfterPoll, Disconne, Disconnected, callVars
<1>2. Collects(Answer, heard, cut)
  BY <1>1 DEF TalkInv
<1> QED
  BY <1>1, <1>2 DEF TalkInv, Collects, Told, Talk

LEMMA CallEnds ==
  ASSUME PbbsInv, TalkInv, DisconnectTimesOut \/ Return
  PROVE  TalkInv'
<1>1. CASE DisconnectTimesOut
  BY <1>1 DEF DisconnectTimesOut, End, TalkInv, callVars
<1>2. CASE Return
  <2>1. /\ heard' = heard /\ cut' = cut /\ method' = method /\ Answer' = Answer
        /\ pc = "parse" /\ pc' = "end"
        /\ result' = IF method = "list" THEN ParseMessageList(heard \o cut)
                     ELSE ParseMessage(heard \o cut)
    BY <1>2, SameAnswer DEF Return, callVars
  <2>2. /\ ParseMessageList(heard \o cut)' = ParseMessageList(heard \o cut)
        /\ ParseMessage(heard \o cut)' = ParseMessage(heard \o cut)
    BY <2>1
  <2>3. Collects(Answer, heard, cut)
    BY <2>1 DEF TalkInv
  <2> QED
    BY <2>1, <2>2, <2>3 DEF TalkInv, Collects, Told, Talk
<1> QED
  BY <1>1, <1>2

LEMMA TalkKept == PbbsInv /\ TalkInv /\ [Next]_vars => TalkInv'
<1>1. ASSUME PbbsInv, TalkInv, UNCHANGED vars PROVE TalkInv'
  <2>1. /\ heard' = heard /\ cut' = cut /\ method' = method /\ Answer' = Answer
        /\ pc' = pc /\ line' = line /\ air' = air /\ asked' = asked
        /\ outcome' = outcome /\ result' = result
    BY <1>1, SameAnswer DEF vars, driverVars, callVars
  <2>2. /\ ParseMessageList(heard \o cut)' = ParseMessageList(heard \o cut)
        /\ ParseMessage(heard \o cut)' = ParseMessage(heard \o cut)
        /\ Collects(Answer, heard, cut)' = Collects(Answer, heard, cut)
        /\ Talk(Answer, Said)' = Talk(Answer, Said)
    BY <2>1 DEF Collects, Told, Talk, Said
  <2> QED
    BY <1>1, <2>1, <2>2 DEF TalkInv, AllPlain
<1> QED
  BY <1>1, TncStep, CallSteps, CommandGoes, SliceGoesOn, TimeoutCollects, CollectingEnds, CallEnds
     DEF Next, Driver

-----------------------------------------------------------------------------
(***************************************************************************)
(* What is collected: tokens, answers, and where they stand.               *)
(***************************************************************************)
LEMMA OnlyNone ==
  ASSUME NEW T, NEW s \in Seq(T), NEW types, \A i \in 1..Len(s) : s[i].t \notin types
  PROVE  Only(s, types) = << >>
<1> DEFINE P == {u \in Seq(T) :
                   (\A i \in 1..Len(u) : u[i].t \notin types) => Only(u, types) = << >>}
<1>1. << >> \in P
  BY OnlyEmpty
<1>2. ASSUME NEW u \in Seq(T), NEW x \in T, u \in P PROVE Append(u, x) \in P
  <2> SUFFICES ASSUME \A i \in 1..Len(Append(u, x)) : Append(u, x)[i].t \notin types
               PROVE  Only(Append(u, x), types) = << >>
    BY AppendProperties
  <2>1. /\ Len(Append(u, x)) = Len(u) + 1 /\ Append(u, x)[Len(u) + 1] = x
        /\ \A i \in 1..Len(u) : Append(u, x)[i] = u[i]
    BY AppendProperties
  <2>2. x.t \notin types /\ \A i \in 1..Len(u) : u[i].t \notin types
    BY <2>1
  <2>3. Only(u, types) = << >>
    BY <1>2, <2>2
  <2> QED
    BY <2>2, <2>3, OnlyAppend
<1> HIDE DEF P
<1>3. Seq(T) \subseteq P
  BY <1>1, <1>2, SeqInd
<1> QED
  BY <1>3 DEF P

LEMMA RowsAre ==
  ASSUME Typing
  PROVE  Rows \in Seq(Tokens) /\ Len(Rows) = stored
         /\ \A i \in 1..stored : Rows[i] = [t |-> "row", id |-> i]
<1>1. stored \in Nat
  BY DEF Typing
<1>2. \A i \in 1..stored : [t |-> "row", id |-> i] \in Tokens
  BY <1>1 DEF Tokens
<1>3. Rows \in Seq(Tokens) /\ Len(Rows) = stored
  BY <1>1, <1>2 DEF Rows
<1> QED
  BY <1>3 DEF Rows

LEMMA BodyIs ==
  ASSUME Typing
  PROVE  BodyOf(number) \in Seq(Tokens) /\ Len(BodyOf(number)) = BodyLines
         /\ \A i \in 1..BodyLines : BodyOf(number)[i].t \in {"body", "blank"}
<1> DEFINE lineOf(i) == [t |-> IF i \in blank THEN "blank" ELSE "body", id |-> 10 * number + i]
<1>1. number \in Nat /\ BodyLines \in Nat
  BY PbbsAssumption DEF Typing
<1>2. ASSUME NEW i \in 1..BodyLines
      PROVE  lineOf(i) \in Tokens /\ lineOf(i).t \in {"body", "blank"}
  <2>1. 10 * number + i \in Nat
    BY <1>1
  <2>2. CASE i \in blank
    BY <2>1, <2>2 DEF Tokens
  <2>3. CASE i \notin blank
    BY <2>1, <2>3 DEF Tokens
  <2> QED
    BY <2>2, <2>3
<1>3. BodyOf(number) = [i \in 1..BodyLines |-> lineOf(i)]
  BY DEF BodyOf
<1> HIDE DEF lineOf
<1>4. BodyOf(number) \in Seq(Tokens) /\ Len(BodyOf(number)) = BodyLines
  BY <1>1, <1>2, <1>3
<1> QED
  BY <1>1, <1>2, <1>3, <1>4

\* What an answer is made of.
LEMMA Between ==
  ASSUME NEW x \in Tokens, NEW s \in Seq(Tokens), NEW y \in Tokens
  PROVE  /\ Len(<<x>> \o s \o <<y>>) = Len(s) + 2
         /\ (<<x>> \o s \o <<y>>)[1] = x /\ (<<x>> \o s \o <<y>>)[Len(s) + 2] = y
         /\ \A i \in 1..Len(s) : (<<x>> \o s \o <<y>>)[i + 1] = s[i]
<1> DEFINE u == <<x>> \o s
<1>1. u \in Seq(Tokens) /\ Len(u) = Len(s) + 1 /\ u[1] = x /\ \A i \in 1..Len(s) : u[i + 1] = s[i]
  OBVIOUS
<1> HIDE DEF u
<1>2. /\ Len(u \o <<y>>) = Len(u) + 1 /\ (u \o <<y>>)[Len(u) + 1] = y
      /\ \A i \in 1..Len(u) : (u \o <<y>>)[i] = u[i]
  BY <1>1
<1>3. 1 \in 1..Len(u) /\ \A i \in 1..Len(s) : i + 1 \in 1..Len(u)
  BY <1>1
<1>4. /\ Len(u \o <<y>>) = Len(s) + 2 /\ (u \o <<y>>)[1] = x /\ (u \o <<y>>)[Len(s) + 2] = y
      /\ \A i \in 1..Len(s) : (u \o <<y>>)[i + 1] = s[i]
  BY <1>1, <1>2, <1>3
<1> QED
  BY <1>4 DEF u

LEMMA TokensAre ==
  /\ \A t \in {"column", "not found"} : Tok(t) \in Tokens /\ Tok(t).t = t
  /\ Prompt(2) \in Tokens /\ Prompt(2).t = "prompt"
  /\ \A i \in Nat : [t |-> "header", id |-> i] \in Tokens
BY DEF Tok, Prompt, Tokens

LEMMA ListAnswer ==
  ASSUME Typing, method = "list"
  PROVE  /\ Len(Answer) = stored + 2
         /\ Answer[1] = Tok("column") /\ Answer[stored + 2] = Prompt(2)
         /\ \A i \in 1..stored : Answer[i + 1] = Rows[i]
<1>1. Answer = <<Tok("column")>> \o Rows \o <<Prompt(2)>>
  BY DEF Answer
<1>2. Tok("column") \in Tokens /\ Prompt(2) \in Tokens /\ Rows \in Seq(Tokens) /\ Len(Rows) = stored
  BY TokensAre, RowsAre
<1> QED
  BY <1>1, <1>2, Between

LEMMA FoundAnswer ==
  ASSUME Typing, method = "read", number <= stored
  PROVE  /\ Len(Answer) = BodyLines + 2
         /\ Answer[1] = [t |-> "header", id |-> number] /\ Answer[BodyLines + 2] = Prompt(2)
         /\ \A i \in 1..BodyLines : Answer[i + 1] = BodyOf(number)[i]
<1> DEFINE header == [t |-> "header", id |-> number]
<1>1. Answer = <<header>> \o BodyOf(number) \o <<Prompt(2)>>
  <2>1. ~(number > stored) /\ method # "list"
    BY DEF Typing
  <2> QED
    BY <2>1, Zenon DEF Answer
<1>2. /\ header \in Tokens /\ Prompt(2) \in Tokens /\ BodyOf(number) \in Seq(Tokens)
      /\ Len(BodyOf(number)) = BodyLines
  BY TokensAre, BodyIs DEF Typing
<1> HIDE DEF header
<1>3. /\ Len(Answer) = BodyLines + 2 /\ Answer[1] = header /\ Answer[BodyLines + 2] = Prompt(2)
      /\ \A i \in 1..BodyLines : Answer[i + 1] = BodyOf(number)[i]
  BY <1>1, <1>2, Between
<1> QED
  BY <1>3 DEF header

LEMMA NoAnswer ==
  ASSUME Typing, method = "read", number > stored
  PROVE  Len(Answer) = 2 /\ Answer[1] = Tok("not found") /\ Answer[2] = Prompt(2)
BY DEF Answer

\* The answer's prompt is its last token, and its only one of that kind.
LEMMA PromptIsLast ==
  ASSUME Typing, method \in {"list", "read"}
  PROVE  /\ Answer \in Seq(Tokens) /\ Len(Answer) \in Nat \ {0}
         /\ \A j \in 1..Len(Answer) : Answer[j] = Prompt(2) <=> j = Len(Answer)
<1>1. Answer \in Seq(Tokens) /\ stored \in Nat /\ number \in Nat /\ BodyLines \in Nat
  BY AnswerTokens, PbbsAssumption DEF Typing
<1>0. \A x : x.t # "prompt" => x # Prompt(2)
  BY TokensAre
<1>2. CASE method = "list"
  <2>1. ASSUME NEW j \in 1..(stored + 1) PROVE Answer[j].t # "prompt"
    <3>1. CASE j = 1
      BY <1>2, <3>1, ListAnswer, TokensAre
    <3>2. CASE j # 1
      <4>1. j - 1 \in 1..stored /\ j = (j - 1) + 1
        BY <1>1, <3>2
      <4>2. Answer[j] = Rows[j - 1] /\ Rows[j - 1].t = "row"
        BY <1>2, <4>1, ListAnswer, RowsAre
      <4> QED
        BY <4>2
    <3> QED
      BY <3>1, <3>2
  <2>2. \A j \in 1..(stored + 2) : j \in 1..(stored + 1) \/ j = stored + 2
    BY <1>1
  <2> QED
    <3>1. Len(Answer) = stored + 2 /\ Answer[stored + 2] = Prompt(2)
      BY <1>2, ListAnswer
    <3>2. \A j \in 1..(stored + 1) : Answer[j] # Prompt(2) /\ j # stored + 2
      BY <1>0, <1>1, <2>1
    <3> QED
      BY <1>1, <2>2, <3>1, <3>2
<1>3. CASE method = "read" /\ number <= stored
  <2>1. ASSUME NEW j \in 1..(BodyLines + 1) PROVE Answer[j].t # "prompt"
    <3>1. CASE j = 1
      BY <1>3, <3>1, FoundAnswer
    <3>2. CASE j # 1
      <4>1. j - 1 \in 1..BodyLines /\ j = (j - 1) + 1
        BY <1>1, <3>2
      <4>2. Answer[j] = BodyOf(number)[j - 1] /\ BodyOf(number)[j - 1].t \in {"body", "blank"}
        BY <1>3, <4>1, FoundAnswer, BodyIs
      <4> QED
        BY <4>2
    <3> QED
      BY <3>1, <3>2
  <2>2. \A j \in 1..(BodyLines + 2) : j \in 1..(BodyLines + 1) \/ j = BodyLines + 2
    BY <1>1
  <2> QED
    <3>1. Len(Answer) = BodyLines + 2 /\ Answer[BodyLines + 2] = Prompt(2)
      BY <1>3, FoundAnswer
    <3>2. \A j \in 1..(BodyLines + 1) : Answer[j] # Prompt(2) /\ j # BodyLines + 2
      BY <1>0, <1>1, <2>1
    <3> QED
      BY <1>1, <2>2, <3>1, <3>2
<1>4. CASE method = "read" /\ number > stored
  <2>1. Len(Answer) = 2 /\ Answer[1] = Tok("not found") /\ Answer[2] = Prompt(2)
    BY <1>4, NoAnswer
  <2>2. Answer[1] # Prompt(2)
    BY <1>0, <2>1, TokensAre
  <2>3. \A j \in 1..2 : j = 1 \/ j = 2
    OBVIOUS
  <2>4. \A j \in 1..2 : Answer[j] = Prompt(2) <=> j = 2
    BY <2>1, <2>2, <2>3
  <2>5. 2 \in Nat \ {0}
    OBVIOUS
  <2> QED
    BY <1>1, <2>1, <2>4, <2>5, Zenon
<1> QED
  BY <1>1, <1>2, <1>3, <1>4

\* Where the answer stands in what was said.
Talked(w, n) ==
  /\ w \in Seq(Tokens) /\ n \in Nat /\ n + Len(Answer) <= Len(w)
  /\ \A k \in 1..n : w[k] \in Plain
  /\ \A j \in 1..Len(Answer) : w[n + j] = Answer[j]
  /\ \A k \in (n + Len(Answer) + 1)..Len(w) : w[k] \in Plain
  /\ Len(w) > n + Len(Answer) => w[n + Len(Answer) + 1].t = "banner"

LEMMA TalkPlaces ==
  ASSUME Typing, NEW w, Talk(Answer, w)
  PROVE  \E n \in Nat : Talked(w, n)
<1>1. PICK a \in Seq(Plain), b \in After : w = a \o (Answer \o b)
  BY DEF Talk
<1>2. a \in Seq(Tokens) /\ b \in Seq(Plain) /\ b \in Seq(Tokens) /\ Answer \in Seq(Tokens)
  BY <1>1, PlainIsTokens, AnswerTokens DEF After
<1> DEFINE c == Answer \o b
<1>3. /\ c \in Seq(Tokens) /\ Len(c) = Len(Answer) + Len(b)
      /\ \A j \in 1..Len(Answer) : c[j] = Answer[j]
      /\ \A j \in 1..Len(b) : c[Len(Answer) + j] = b[j]
  BY <1>2
<1> HIDE DEF c
<1>4. /\ a \o c \in Seq(Tokens) /\ Len(a \o c) = Len(a) + Len(c)
      /\ \A j \in 1..Len(a) : (a \o c)[j] = a[j]
      /\ \A j \in 1..Len(c) : (a \o c)[Len(a) + j] = c[j]
  <2> a \in Seq(Tokens) /\ c \in Seq(Tokens)
    BY <1>2, <1>3
  <2> QED
    OBVIOUS
<1>5. w = a \o c
  BY <1>1 DEF c
<1> DEFINE n == Len(a)
           m == Len(Answer)
<1>6. n \in Nat /\ m \in Nat /\ Len(b) \in Nat /\ Len(w) = n + (m + Len(b)) /\ w \in Seq(Tokens)
  BY <1>2, <1>3, <1>4, <1>5
<1>7. \A k \in 1..n : w[k] \in Plain
  BY <1>1, <1>4, <1>5
<1>8. \A j \in 1..m : w[n + j] = Answer[j]
  BY <1>3, <1>4, <1>5, <1>6
<1>9. \A j \in 1..Len(b) : w[n + (m + j)] = b[j]
  <2>1. \A j \in 1..Len(b) : m + j \in 1..Len(c)
    BY <1>3, <1>6
  <2> QED
    BY <1>3, <1>4, <1>5, <2>1
<1> HIDE DEF n, m
<1>10. ASSUME NEW k \in (n + m + 1)..Len(w) PROVE w[k] \in Plain
  <2>1. k - n - m \in 1..Len(b) /\ k = n + (m + (k - n - m))
    BY <1>6
  <2> QED
    BY <1>2, <1>9, <2>1
<1>11. Len(w) > n + m => w[n + m + 1].t = "banner"
  <2>1. n + (m + 1) = n + m + 1 /\ (Len(w) > n + m => 1 \in 1..Len(b) /\ b # << >>)
    BY <1>6
  <2> QED
    BY <1>1, <1>9, <2>1 DEF After
<1>12. Talked(w, n)
  BY <1>6, <1>7, <1>8, <1>10, <1>11 DEF Talked, m
<1> QED
  BY <1>6, <1>12

\* The rows of a text.
RowsOf(s) == Only(s, RowTypes)
LEMMA PlainTypes ==
  ASSUME NEW x \in Plain
  PROVE  x.t \notin RowTypes /\ x.t \notin HeaderTypes /\ x # Prompt(2)
BY DEF Plain, RowTypes, HeaderTypes

LEMMA PlainHasNone ==
  ASSUME NEW s \in Seq(Plain)
  PROVE  RowsOf(s) = << >>
<1>1. ASSUME NEW i \in 1..Len(s) PROVE s[i].t \notin RowTypes
  <2>1. s[i] \in Plain
    OBVIOUS
  <2> QED
    BY <2>1, PlainTypes
<1> QED
  BY <1>1, PlainIsTokens, OnlyNone DEF RowsOf

RowsJoin(s, t) == RowsOf(s \o t) = RowsOf(s) \o RowsOf(t)

LEMMA RowsJoined ==
  ASSUME NEW s \in Seq(Tokens), NEW t \in Seq(Tokens)
  PROVE  RowsJoin(s, t)
BY OnlyConcat DEF RowsJoin, RowsOf

\* The rows of an answer, and of all that was said with it, are the mailbox's.
LEMMA AnswerRows ==
  ASSUME Typing, method = "list"
  PROVE  RowsOf(Answer) = Rows
<1> DEFINE column == <<Tok("column")>>
           last == <<Prompt(2)>>
<1>1. column \in Seq(Tokens) /\ RowsOf(column) = << >>
  <2>1. Tok("column") \in Tokens /\ Tok("column").t \notin RowTypes
    BY TokensAre DEF RowTypes
  <2>2. column \in Seq(Tokens) /\ \A i \in 1..Len(column) : column[i].t \notin RowTypes
    BY <2>1
  <2> HIDE DEF column
  <2> QED
    BY <2>2, OnlyNone DEF RowsOf
<1>2. last \in Seq(Tokens) /\ RowsOf(last) = << >>
  <2>1. Prompt(2) \in Tokens /\ Prompt(2).t \notin RowTypes
    BY TokensAre DEF RowTypes
  <2>2. last \in Seq(Tokens) /\ \A i \in 1..Len(last) : last[i].t \notin RowTypes
    BY <2>1
  <2> HIDE DEF last
  <2> QED
    BY <2>2, OnlyNone DEF RowsOf
<1>3. Rows \in Seq(Tokens) /\ RowsOf(Rows) = Rows
  <2>1. Rows \in Seq(Tokens) /\ Len(Rows) = stored
        /\ \A i \in 1..stored : Rows[i] = [t |-> "row", id |-> i]
    BY RowsAre
  <2>2. "row" \in RowTypes
    BY DEF RowTypes
  <2>3. \A i \in 1..Len(Rows) : Rows[i].t \in RowTypes
    BY <2>1, <2>2
  <2> QED
    BY <2>1, <2>3, OnlyAll DEF RowsOf
<1>4. Answer = (column \o Rows) \o last
  BY DEF Answer
<1> HIDE DEF column, last
<1>5. /\ column \o Rows \in Seq(Tokens) /\ << >> \o Rows = Rows /\ Rows \o << >> = Rows
  BY <1>1, <1>3, ConcatProperties, ConcatEmptySeq
<1>6. RowsJoin(column, Rows) /\ RowsJoin(column \o Rows, last)
  BY <1>1, <1>2, <1>3, <1>5, RowsJoined
<1> QED
  BY <1>1, <1>2, <1>3, <1>4, <1>5, <1>6 DEF RowsJoin

LEMMA TalkRows ==
  ASSUME Typing, method = "list", NEW w, Talk(Answer, w)
  PROVE  RowsOf(w) = Rows
<1>1. PICK a \in Seq(Plain), b \in After : w = a \o (Answer \o b)
  BY DEF Talk
<1>2. /\ a \in Seq(Tokens) /\ b \in Seq(Plain) /\ b \in Seq(Tokens) /\ Answer \in Seq(Tokens)
      /\ Rows \in Seq(Tokens)
  BY <1>1, PlainIsTokens, AnswerTokens, RowsAre DEF After
<1>3. RowsOf(a) = << >> /\ RowsOf(b) = << >> /\ RowsOf(Answer) = Rows
  BY <1>1, <1>2, PlainHasNone, AnswerRows
<1>4. Answer \o b \in Seq(Tokens)
  BY <1>2, ConcatProperties
<1>5. RowsJoin(Answer, b) /\ RowsJoin(a, Answer \o b)
  BY <1>2, <1>4, RowsJoined
<1>6. << >> \o Rows = Rows /\ Rows \o << >> = Rows
  BY <1>2, ConcatEmptySeq
<1> QED
  BY <1>1, <1>3, <1>5, <1>6 DEF RowsJoin

\* Only the answer's prompt, and only its header, look like those of an answer.
LEMMA PromptWhere ==
  ASSUME Typing, method \in {"list", "read"}, NEW w, NEW n \in Nat, Talked(w, n),
         NEW i \in 1..Len(w), w[i] = Prompt(2)
  PROVE  i = n + Len(Answer)
<1>1. Len(Answer) \in Nat /\ Len(w) \in Nat /\ i \in Nat
  BY PromptIsLast DEF Talked
<1>2. i \notin 1..n /\ i \notin (n + Len(Answer) + 1)..Len(w)
  BY DEF Talked, Plain
<1>3. i - n \in 1..Len(Answer) /\ n + (i - n) = i
  BY <1>1, <1>2
<1>4. Answer[i - n] = Prompt(2)
  BY <1>3 DEF Talked
<1>5. i - n = Len(Answer)
  BY <1>3, <1>4, PromptIsLast
<1> QED
  BY <1>1, <1>5

LEMMA HeaderWhere ==
  ASSUME Typing, method = "read", NEW w, NEW n \in Nat, Talked(w, n),
         NEW i \in 1..Len(w), w[i].t \in HeaderTypes
  PROVE  i = n + 1 /\ number <= stored /\ w[i].id = number
<1>1. Len(Answer) \in Nat /\ Len(w) \in Nat /\ i \in Nat /\ BodyLines \in Nat
      /\ number \in Nat /\ stored \in Nat
  BY PromptIsLast, PbbsAssumption DEF Talked, Typing
<1>2. i \notin 1..n /\ i \notin (n + Len(Answer) + 1)..Len(w)
  BY PlainTypes DEF Talked
<1>3. i - n \in 1..Len(Answer) /\ n + (i - n) = i
  BY <1>1, <1>2
<1>4. w[i] = Answer[i - n]
  BY <1>3 DEF Talked
<1>5. /\ Tok("not found").t \notin HeaderTypes /\ Prompt(2).t \notin HeaderTypes
      /\ "body" \notin HeaderTypes /\ "blank" \notin HeaderTypes
  BY TokensAre DEF HeaderTypes
<1>6. ASSUME number > stored PROVE FALSE
  <2>1. Len(Answer) = 2
    BY <1>6, NoAnswer
  <2>2. i - n = 1 \/ i - n = 2
    BY <1>1, <1>3, <2>1
  <2>3. Answer[i - n] = Tok("not found") \/ Answer[i - n] = Prompt(2)
    BY <1>6, <2>2, NoAnswer
  <2> QED
    BY <1>4, <1>5, <2>3
<1>7. number <= stored
  BY <1>1, <1>6
<1>8. i - n # BodyLines + 2
  BY <1>4, <1>5, <1>7, FoundAnswer
<1>9. ASSUME i - n # 1 PROVE FALSE
  <2>1. i - n - 1 \in 1..BodyLines /\ i - n = (i - n - 1) + 1
    BY <1>1, <1>3, <1>7, <1>8, <1>9, FoundAnswer
  <2>2. Answer[i - n] = BodyOf(number)[i - n - 1]
    BY <1>7, <2>1, FoundAnswer
  <2>3. BodyOf(number)[i - n - 1].t \in {"body", "blank"}
    BY <2>1, BodyIs
  <2> QED
    BY <1>4, <1>5, <2>2, <2>3
<1>10. w[i] = [t |-> "header", id |-> number]
  BY <1>4, <1>7, <1>9, FoundAnswer
<1> QED
  BY <1>1, <1>7, <1>9, <1>10

-----------------------------------------------------------------------------
(***************************************************************************)
(* What the call returns.                                                  *)
(***************************************************************************)
Parts(s, t, u) == s \o t = u

LEMMA PrefixOf ==
  ASSUME NEW X, NEW s \in Seq(X), NEW t \in Seq(X), NEW u \in Seq(X), Parts(s, t, u)
  PROVE  IsPrefix(s, u) /\ (t = << >> => s = u)
<1>1. /\ Len(u) = Len(s) + Len(t) /\ \A i \in 1..Len(s) : u[i] = s[i]
  BY DEF Parts
<1>2. SubSeq(s, 1, Len(s)) = s
  OBVIOUS
<1>3. SubSeq(u, 1, Len(s)) = s
  <2>1. Len(s) \in Nat /\ Len(u) \in Nat /\ Len(s) <= Len(u)
    BY <1>1
  <2>2. /\ SubSeq(u, 1, Len(s)) \in Seq(X) /\ Len(SubSeq(u, 1, Len(s))) = Len(s)
        /\ \A i \in 1..Len(s) : SubSeq(u, 1, Len(s))[i] = u[i]
    BY <2>1
  <2> QED
    BY <1>1, <2>2, SeqEqual
<1>4. t = << >> => s = u
  BY <1>1, SeqEqual
<1> QED
  BY <1>1, <1>2, <1>3, <1>4 DEF IsPrefix

LEMMA ToldPlaces ==
  ASSUME Typing, NEW text \in Seq(Tokens), Told(Answer, text)
  PROVE  \E w \in Seq(Tokens) :
            /\ Len(text) <= Len(w) /\ \A i \in 1..Len(text) : i \in 1..Len(w) /\ w[i] = text[i]
            /\ w \in Seq(Plain) \/ \E n \in Nat : Talked(w, n)
<1>1. PICK rest \in Seq(Tokens) : text \o rest \in Seq(Plain) \/ Talk(Answer, text \o rest)
  BY DEF Told
<1> DEFINE w == text \o rest
<1>2. /\ w \in Seq(Tokens) /\ Len(text) <= Len(w)
      /\ \A i \in 1..Len(text) : i \in 1..Len(w) /\ w[i] = text[i]
  OBVIOUS
<1> HIDE DEF w
<1>3. w \in Seq(Plain) \/ Talk(Answer, w)
  BY <1>1 DEF w
<1>4. w \in Seq(Plain) \/ \E n \in Nat : Talked(w, n)
  BY <1>3, TalkPlaces
<1> QED
  BY <1>2, <1>4

\* The rows of a text that is the beginning of what was said.
LEMMA ToldRows ==
  ASSUME Typing, method = "list", NEW text \in Seq(Tokens), Told(Answer, text)
  PROVE  /\ RowsOf(text) \in Seq(Tokens) /\ IsPrefix(RowsOf(text), Rows)
         /\ (\E i \in 1..Len(text) : text[i] = Prompt(2)) => RowsOf(text) = Rows
<1>1. Rows \in Seq(Tokens)
  BY RowsAre
<1>2. PICK rest \in Seq(Tokens) : text \o rest \in Seq(Plain) \/ Talk(Answer, text \o rest)
  BY DEF Told
<1>3. RowsOf(text) \in Seq(Tokens) /\ RowsOf(rest) \in Seq(Tokens) /\ << >> \in Seq(Tokens)
  BY <1>1, <1>2, OnlyType DEF RowsOf
<1>4. RowsOf(text) \o RowsOf(rest) = RowsOf(text \o rest)
  BY <1>1, <1>2, RowsJoined DEF RowsJoin
<1> DEFINE w == text \o rest
<1>5. /\ w \in Seq(Tokens) /\ Len(w) = Len(text) + Len(rest)
      /\ \A i \in 1..Len(text) : i \in 1..Len(w) /\ w[i] = text[i]
      /\ \A i \in 1..Len(rest) : Len(text) + i \in 1..Len(w) /\ w[Len(text) + i] = rest[i]
  <2> text \in Seq(Tokens) /\ rest \in Seq(Tokens)
    BY <1>2
  <2> QED
    OBVIOUS
<1>6. w \in Seq(Plain) \/ Talk(Answer, w)
  BY <1>2
<1>7. RowsOf(text) \o RowsOf(rest) = RowsOf(w)
  BY <1>4
<1> HIDE DEF w
\* The KAM-XL printed nothing of an answer.
<1>8. CASE w \in Seq(Plain)
  <2>1. RowsOf(text) = << >>
    <3>1. RowsOf(text) \o RowsOf(rest) = << >>
      BY <1>7, <1>8, PlainHasNone
    <3> QED
      BY <1>3, <3>1
  <2>2. Parts(<< >>, Rows, Rows)
    BY <1>1, ConcatEmptySeq DEF Parts
  <2>3. IsPrefix(<< >>, Rows)
    BY <1>1, <1>3, <2>2, PrefixOf
  <2>4. ~ \E i \in 1..Len(text) : text[i] = Prompt(2)
    <3>1. ASSUME NEW i \in 1..Len(text) PROVE text[i] # Prompt(2)
      <4>1. text[i] = w[i] /\ w[i] \in Plain
        BY <1>5, <1>8
      <4> QED
        BY <4>1 DEF Plain
    <3> QED
      BY <3>1
  <2> QED
    BY <1>3, <2>1, <2>3, <2>4
<1>9. CASE Talk(Answer, w)
  <2>1. Parts(RowsOf(text), RowsOf(rest), Rows)
    BY <1>7, <1>9, TalkRows DEF Parts
  <2>2. IsPrefix(RowsOf(text), Rows) /\ (RowsOf(rest) = << >> => RowsOf(text) = Rows)
    BY <1>1, <1>3, <2>1, PrefixOf
  <2>3. PICK n \in Nat : Talked(w, n)
    BY <1>9, TalkPlaces
  <2>4. ASSUME \E i \in 1..Len(text) : text[i] = Prompt(2) PROVE RowsOf(rest) = << >>
    <3>1. PICK i \in 1..Len(text) : text[i] = Prompt(2)
      BY <2>4
    <3>4. i \in 1..Len(w) /\ w[i] = Prompt(2)
      BY <1>5, <3>1
    <3>5. i = n + Len(Answer) /\ Len(Answer) \in Nat
      BY <2>3, <3>4, PromptWhere, PromptIsLast
    <3>2. i = n + Len(Answer) /\ Len(Answer) \in Nat /\ Len(text) \in Nat /\ Len(rest) \in Nat
      BY <1>1, <1>2, <3>5
    <3>3. ASSUME NEW j \in 1..Len(rest) PROVE rest[j].t \notin RowTypes
      <4>1. Len(text) + j \in (n + Len(Answer) + 1)..Len(w)
        BY <1>5, <3>1, <3>2
      <4>2. rest[j] \in Plain
        BY <1>5, <2>3, <4>1 DEF Talked
      <4> QED
        BY <4>2, PlainTypes
    <3> QED
      BY <1>2, <3>3, OnlyNone DEF RowsOf
  <2> QED
    BY <1>3, <2>2, <2>4
<1> QED
  BY <1>6, <1>8, <1>9

\* What a beginning says of the whole.
LEMMA PrefixSays ==
  ASSUME NEW X, NEW s \in Seq(X), NEW u \in Seq(X), IsPrefix(s, u)
  PROVE  Len(s) <= Len(u) /\ \A i \in 1..Len(s) : s[i] = u[i]
<1>1. Len(s) <= Len(u) /\ SubSeq(s, 1, Len(s)) = SubSeq(u, 1, Len(s))
  BY DEF IsPrefix
<1>2. ASSUME NEW i \in 1..Len(s) PROVE s[i] = u[i]
  <2>1. SubSeq(s, 1, Len(s))[i] = s[i] /\ SubSeq(u, 1, Len(s))[i] = u[i]
    BY <1>1
  <2> QED
    BY <1>1, <2>1
<1> QED
  BY <1>1, <1>2

\* A text is the beginning of what was said when it is that with a token more.
LEMMA ToldBefore ==
  ASSUME NEW answer, NEW text \in Seq(Tokens), NEW x \in Tokens, Told(answer, Append(text, x))
  PROVE  Told(answer, text)
<1>1. PICK rest \in Seq(Tokens) :
        Append(text, x) \o rest \in Seq(Plain) \/ Talk(answer, Append(text, x) \o rest)
  BY DEF Told
<1> DEFINE one == <<x>>
<1>2. one \in Seq(Tokens) /\ Append(text, x) = text \o one
  BY AppendIsConcat
<1> HIDE DEF one
<1>3. Regroups(text, one, rest) /\ one \o rest \in Seq(Tokens)
  BY <1>1, <1>2, ThreeParts, ConcatProperties
<1>4. Append(text, x) \o rest = text \o (one \o rest)
  BY <1>2, <1>3, Zenon DEF Regroups
<1> QED
  BY <1>1, <1>3, <1>4, Zenon DEF Told

PieceOfRow(x, piece) == x.t = "row" /\ piece = [x EXCEPT !.t = "cut row"]
PieceOfHeader(x, piece) == x.t = "header" /\ piece = [x EXCEPT !.t = "cut header"]

LEMMA PieceTypes ==
  ASSUME NEW x \in Tokens, NEW piece \in Pieces(x)
  PROVE  /\ piece \in Tokens
         /\ piece.t \in RowTypes => PieceOfRow(x, piece)
         /\ piece.t \in HeaderTypes => PieceOfHeader(x, piece)
<1>1. /\ Tok("stub") \in Tokens /\ Tok("stub").t \notin RowTypes /\ Tok("stub").t \notin HeaderTypes
  BY DEF Tok, Tokens, RowTypes, HeaderTypes
<1>2. ASSUME NEW t \in {"cut row", "cut header", "cut body"}
      PROVE  [x EXCEPT !.t = t] \in Tokens /\ [x EXCEPT !.t = t].t = t
  BY <1>2 DEF Tokens
<1>3. CASE x.t = "row"
  <2>1. piece = Tok("stub") \/ piece = [x EXCEPT !.t = "cut row"]
    BY <1>3 DEF Pieces
  <2>2. "cut row" \notin HeaderTypes
    BY DEF HeaderTypes
  <2> QED
    BY <1>1, <1>2, <1>3, <2>1, <2>2 DEF PieceOfRow
<1>4. CASE x.t = "header"
  <2>1. piece = Tok("stub") \/ piece = [x EXCEPT !.t = "cut header"]
    BY <1>4 DEF Pieces
  <2>2. "cut header" \notin RowTypes
    BY DEF RowTypes
  <2> QED
    BY <1>1, <1>2, <1>4, <2>1, <2>2 DEF PieceOfHeader
<1>5. CASE x.t = "body"
  <2>1. piece = [x EXCEPT !.t = "cut body"]
    BY <1>5 DEF Pieces
  <2>2. "cut body" \notin RowTypes /\ "cut body" \notin HeaderTypes
    BY DEF RowTypes, HeaderTypes
  <2> QED
    BY <1>2, <2>1, <2>2
<1>6. CASE x.t = "blank"
  BY <1>6 DEF Pieces
<1>7. CASE x.t \notin {"row", "header", "body", "blank"}
  <2>1. piece = Tok("stub")
    BY <1>7 DEF Pieces
  <2> QED
    BY <1>1, <2>1
<1> QED
  BY <1>3, <1>4, <1>5, <1>6, <1>7

LEMMA ListedRight == Typing /\ TalkInv => ListedIsStored
<1> SUFFICES ASSUME Typing, TalkInv, pc = "end", method = "list", outcome = "returned"
             PROVE  /\ Len(result.body) <= stored
                    /\ \A i \in 1..Len(result.body) :
                         \/ result.body[i] = Rows[i]
                         \/ /\ i = Len(result.body)
                            /\ result.body[i] = [Rows[i] EXCEPT !.t = "cut row"]
                    /\ Answered => result.body = Rows
  BY DEF ListedIsStored, Returned
<1>1. /\ heard \in Seq(Tokens) /\ Collects(Answer, heard, cut)
      /\ result.body = RowsOf(heard \o cut)
      /\ Rows \in Seq(Tokens) /\ Len(Rows) = stored
  BY RowsAre DEF TalkInv, ParseMessageList, RowsOf
<1>2. Told(Answer, heard)
  BY <1>1, ToldBefore DEF Collects
<1> DEFINE rows == RowsOf(heard)
<1>3. /\ rows \in Seq(Tokens) /\ IsPrefix(rows, Rows) /\ (Answered => rows = Rows)
  BY <1>1, <1>2, ToldRows DEF Answered
<1>4. Len(rows) <= stored /\ \A i \in 1..Len(rows) : rows[i] = Rows[i]
  BY <1>1, <1>3, PrefixSays
<1> HIDE DEF rows
\* The text ends with a whole line.
<1>5. CASE cut = << >>
  <2>1. result.body = rows
    BY <1>1, <1>5, ConcatEmptySeq DEF rows
  <2> QED
    BY <1>3, <1>4, <2>1
\* It ends with a piece of one.
<1>6. ASSUME NEW x \in Tokens, Told(Answer, Append(heard, x)),
             NEW piece \in Pieces(x), cut = <<piece>>
      PROVE  /\ Len(result.body) <= stored
             /\ \A i \in 1..Len(result.body) :
                  \/ result.body[i] = Rows[i]
                  \/ /\ i = Len(result.body)
                     /\ result.body[i] = [Rows[i] EXCEPT !.t = "cut row"]
             /\ Answered => result.body = Rows
  <2>1. piece \in Tokens /\ heard \o cut = Append(heard, piece)
    BY <1>1, <1>6, PieceTypes, AppendIsConcat
  <2>2. result.body = IF piece.t \in RowTypes THEN Append(rows, piece) ELSE rows
    BY <1>1, <2>1, OnlyAppend DEF RowsOf, rows
  <2>3. CASE piece.t \notin RowTypes
    <3>1. result.body = rows
      BY <2>2, <2>3
    <3> QED
      BY <1>3, <1>4, <3>1
  <2>4. CASE piece.t \in RowTypes
    <3>1. PieceOfRow(x, piece)
      BY <1>6, <2>4, PieceTypes
    <3>2. RowsOf(Append(heard, x)) = Append(rows, x)
      <4>1. x.t \in RowTypes
        BY <3>1 DEF PieceOfRow, RowTypes
      <4> QED
        BY <1>1, <4>1, OnlyAppend DEF RowsOf, rows
    <3>3. Append(rows, x) \in Seq(Tokens) /\ IsPrefix(Append(rows, x), Rows)
      <4>1. Append(heard, x) \in Seq(Tokens)
        BY <1>1, AppendProperties
      <4> QED
        BY <1>6, <3>2, <4>1, ToldRows
    <3>4. /\ Len(Append(rows, x)) = Len(rows) + 1 /\ Append(rows, x)[Len(rows) + 1] = x
          /\ Len(rows) \in Nat
      BY <1>3, AppendProperties
    <3>5. Len(rows) + 1 <= stored /\ x = Rows[Len(rows) + 1]
      <4>1. /\ Len(Append(rows, x)) <= Len(Rows)
            /\ \A i \in 1..Len(Append(rows, x)) : Append(rows, x)[i] = Rows[i]
        BY <1>1, <3>3, PrefixSays
      <4>2. Len(rows) + 1 \in 1..Len(Append(rows, x))
        BY <3>4
      <4> QED
        BY <1>1, <3>4, <4>1, <4>2
    <3>6. result.body = Append(rows, piece)
      BY <2>2, <2>4
    <3>7. /\ Len(result.body) = Len(rows) + 1 /\ result.body[Len(rows) + 1] = piece
          /\ \A i \in 1..Len(rows) : result.body[i] = rows[i]
      BY <1>3, <2>1, <3>6, AppendProperties
    <3>8. piece = [Rows[Len(rows) + 1] EXCEPT !.t = "cut row"]
      BY <3>1, <3>5 DEF PieceOfRow
    <3>9. ~Answered
      BY <1>1, <1>3, <3>4, <3>5
    <3>10. ASSUME NEW i \in 1..Len(result.body)
           PROVE  \/ result.body[i] = Rows[i]
                  \/ /\ i = Len(result.body)
                     /\ result.body[i] = [Rows[i] EXCEPT !.t = "cut row"]
      <4>1. i \in 1..Len(rows) \/ i = Len(rows) + 1
        BY <3>4, <3>7
      <4> QED
        BY <1>4, <3>7, <3>8, <4>1
    <3> QED
      BY <3>5, <3>7, <3>9, <3>10
  <2> QED
    BY <2>3, <2>4
<1> QED
  BY <1>1, <1>5, <1>6 DEF Collects

\* A body, and the prompt after it: ParseMessage() takes the prompt off.
LEMMA PromptComesOff ==
  ASSUME NEW body \in Seq(Tokens), Len(body) > 0, \A i \in 1..Len(body) : body[i].t # "prompt",
         NEW lines \in Seq(Tokens), Len(lines) = Len(body) + 1,
         \A i \in 1..Len(body) : lines[i] = body[i], lines[Len(body) + 1] = Prompt(2)
  PROVE  WithoutPrompt(lines) = body
<1> DEFINE kept == {i \in 1..Len(lines) : lines[i].t # "prompt"}
           n == Len(body)
<1>1. n \in Nat /\ n > 0 /\ Len(lines) = n + 1
  OBVIOUS
<1>2. lines[n + 1].t = "prompt"
  BY TokensAre
<1>3. \A i \in 1..n : lines[i].t # "prompt"
  OBVIOUS
<1>4. \A i \in 1..(n + 1) : i \in 1..n \/ i = n + 1
  BY <1>1
<1>5. \A i : i \in kept <=> i \in 1..n
  BY <1>1, <1>2, <1>3, <1>4
<1> HIDE DEF kept
<1>6. kept \cup {0} \in SUBSET (0..n) /\ kept \cup {0} # {} /\ n \in kept \cup {0}
  BY <1>1, <1>5
<1>7. Max(kept \cup {0}) \in 0..n /\ Max(kept \cup {0}) >= n
  BY <1>1, <1>6, MaxMember
<1>8. Max(kept \cup {0}) = n
  BY <1>1, <1>7
<1>9. WithoutPrompt(lines) = SubSeq(lines, 1, n)
  BY <1>8 DEF WithoutPrompt, kept
<1>10. /\ SubSeq(lines, 1, n) \in Seq(Tokens) /\ Len(SubSeq(lines, 1, n)) = n
       /\ \A i \in 1..n : SubSeq(lines, 1, n)[i] = lines[i]
  BY <1>1
<1> QED
  BY <1>9, <1>10, SeqEqual

LEMMA TheHeader ==
  ASSUME NEW text \in Seq(Tokens), Places(text, HeaderTypes) # {}
  PROVE  LET h == Min(Places(text, HeaderTypes))
         IN  h \in 1..Len(text) /\ text[h].t \in HeaderTypes
<1> DEFINE P == Places(text, HeaderTypes)
<1>1. P \in SUBSET Nat /\ P # {} /\ \A i \in P : i \in 1..Len(text) /\ text[i].t \in HeaderTypes
  BY DEF Places
<1> HIDE DEF P
<1>2. Min(P) \in P
  BY <1>1, MinMember
<1> QED
  BY <1>1, <1>2 DEF P

\* Whatever looks like a header in what was collected is the one that was asked for.
LEMMA HeaderIsTheOneAsked ==
  ASSUME Typing, method = "read", heard \in Seq(Tokens), Collects(Answer, heard, cut),
         NEW i \in 1..Len(heard \o cut), (heard \o cut)[i].t \in HeaderTypes
  PROVE  (heard \o cut)[i].id = number /\ number <= stored
\* A text that was told, and that has such a header there.
<1>1. \E v \in Seq(Tokens) :
         /\ Told(Answer, v) /\ i \in 1..Len(v)
         /\ v[i].t \in HeaderTypes /\ v[i].id = (heard \o cut)[i].id
  <2>1. CASE cut = << >> /\ Told(Answer, heard)
    <3>1. heard \o cut = heard
      BY <2>1, ConcatEmptySeq
    <3> QED
      BY <2>1, <3>1
  <2>2. ASSUME NEW x \in Tokens, Told(Answer, Append(heard, x)),
               NEW piece \in Pieces(x), cut = <<piece>>
        PROVE  \E v \in Seq(Tokens) :
                  /\ Told(Answer, v) /\ i \in 1..Len(v)
                  /\ v[i].t \in HeaderTypes /\ v[i].id = (heard \o cut)[i].id
    <3>1. piece \in Tokens /\ heard \o cut = Append(heard, piece)
      BY <2>2, PieceTypes, AppendIsConcat
    <3>2. /\ Len(heard \o cut) = Len(heard) + 1 /\ (heard \o cut)[Len(heard) + 1] = piece
          /\ \A k \in 1..Len(heard) : (heard \o cut)[k] = heard[k]
      BY <3>1, AppendProperties
    <3> DEFINE v == Append(heard, x)
    <3>3. /\ v \in Seq(Tokens) /\ Len(v) = Len(heard) + 1 /\ v[Len(heard) + 1] = x
          /\ \A k \in 1..Len(heard) : v[k] = heard[k]
      BY AppendProperties
    <3>4. Told(Answer, v)
      BY <2>2
    <3> HIDE DEF v
    <3>5. i \in 1..Len(heard) \/ i = Len(heard) + 1
      BY <3>2
    <3>6. CASE i \in 1..Len(heard)
      BY <3>2, <3>3, <3>4, <3>6
    <3>7. CASE i = Len(heard) + 1
      <4>1. PieceOfHeader(x, piece)
        BY <2>2, <3>2, <3>7, PieceTypes
      <4>2. x.t \in HeaderTypes /\ x.id = piece.id
        BY <4>1 DEF PieceOfHeader, HeaderTypes, Tokens
      <4>3. i \in 1..Len(v)
        BY <3>2, <3>3
      <4> QED
        BY <3>2, <3>3, <3>4, <3>7, <4>2, <4>3
    <3> QED
      BY <3>5, <3>6, <3>7
  <2> QED
    BY <2>1, <2>2 DEF Collects
<1>2. PICK v \in Seq(Tokens) :
        /\ Told(Answer, v) /\ i \in 1..Len(v)
        /\ v[i].t \in HeaderTypes /\ v[i].id = (heard \o cut)[i].id
  BY <1>1
<1>3. PICK w \in Seq(Tokens) :
        /\ Len(v) <= Len(w) /\ \A k \in 1..Len(v) : k \in 1..Len(w) /\ w[k] = v[k]
        /\ w \in Seq(Plain) \/ \E n \in Nat : Talked(w, n)
  BY <1>2, ToldPlaces
<1>4. i \in 1..Len(w) /\ w[i].t \in HeaderTypes /\ w[i].id = (heard \o cut)[i].id
  BY <1>2, <1>3
<1>5. w \notin Seq(Plain)
  BY <1>4, PlainTypes
<1>6. PICK n \in Nat : Talked(w, n)
  BY <1>3, <1>5
<1> QED
  BY <1>4, <1>6, HeaderWhere

LEMMA NumberRight ==
  ASSUME Typing, TalkInv, pc = "end", method = "read", outcome = "returned", result # Nothing
  PROVE  result.number = number
<1> DEFINE text == heard \o cut
           h == Min(Places(text, HeaderTypes))
<1>1. /\ heard \in Seq(Tokens) /\ Collects(Answer, heard, cut)
      /\ result = ParseMessage(text)
  BY DEF TalkInv
<1>2. cut \in Seq(Tokens)
  <2>1. ASSUME NEW x \in Tokens, NEW piece \in Pieces(x), cut = <<piece>>
        PROVE  cut \in Seq(Tokens)
    BY <2>1, PieceTypes
  <2>2. CASE cut = << >>
    BY <2>2
  <2> QED
    BY <1>1, <2>1, <2>2 DEF Collects
<1>3. text \in Seq(Tokens)
  BY <1>1, <1>2, ConcatProperties
<1>4. Places(text, HeaderTypes) # {} /\ result.number = text[h].id
  BY <1>1 DEF ParseMessage
<1>5. h \in 1..Len(text) /\ text[h].t \in HeaderTypes
  BY <1>3, <1>4, TheHeader
<1> HIDE DEF h
<1>6. text[h].id = number
  BY <1>1, <1>5, HeaderIsTheOneAsked
<1> QED
  BY <1>4, <1>6

LEMMA BodyRight ==
  ASSUME Typing, TalkInv, pc = "end", method = "read", outcome = "returned",
         Answered, ~Has(heard, "banner"), cut = << >>
  PROVE  result.body = (IF number <= stored THEN Stripped(BodyOf(number)) ELSE << >>)
<1>1. /\ heard \in Seq(Tokens) /\ Told(Answer, heard) /\ result = ParseMessage(heard)
      /\ Nothing.body = << >> /\ stored \in Nat /\ number \in Nat /\ BodyLines \in Nat \ {0}
  <2>1. heard \in Seq(Tokens) /\ heard \o cut = heard
    BY ConcatEmptySeq DEF TalkInv
  <2>2. Told(Answer, heard)
    <3>1. ASSUME NEW x \in Tokens, NEW piece \in Pieces(x) PROVE cut # <<piece>>
      OBVIOUS
    <3> QED
      BY <3>1 DEF TalkInv, Collects
  <2> QED
    BY <2>1, <2>2, PbbsAssumption DEF TalkInv, Nothing, Typing
<1>2. PICK w \in Seq(Tokens) :
        /\ Len(heard) <= Len(w)
        /\ \A i \in 1..Len(heard) : i \in 1..Len(w) /\ w[i] = heard[i]
        /\ w \in Seq(Plain) \/ \E n \in Nat : Talked(w, n)
  BY <1>1, ToldPlaces
<1> DEFINE h == Min(Places(heard, HeaderTypes))
<1>3. Places(heard, HeaderTypes) = {} => result = Nothing
  BY <1>1 DEF ParseMessage
<1>4. Places(heard, HeaderTypes) # {} =>
        /\ h \in 1..Len(heard) /\ heard[h].t \in HeaderTypes
        /\ result.body = Stripped(WithoutPrompt(SubSeq(heard, h + 1, Len(heard))))
  BY <1>1, TheHeader DEF ParseMessage
<1> HIDE DEF h
<1>5. CASE w \in Seq(Plain)
  <2>1. ASSUME NEW i \in 1..Len(heard) PROVE heard[i] # Prompt(2)
    <3>1. heard[i] = w[i] /\ w[i] \in Plain
      BY <1>2, <1>5
    <3> QED
      BY <3>1 DEF Plain
  <2> QED
    BY <2>1 DEF Answered
<1>6. CASE \E n \in Nat : Talked(w, n)
  <2>1. PICK n \in Nat : Talked(w, n)
    BY <1>6
  <2>2. Places(heard, HeaderTypes) # {} => h = n + 1 /\ number <= stored
    <3> SUFFICES ASSUME Places(heard, HeaderTypes) # {}
                 PROVE  h = n + 1 /\ number <= stored
      OBVIOUS
    <3>1. h \in 1..Len(w) /\ w[h] = heard[h] /\ w[h].t \in HeaderTypes
      BY <1>2, <1>4
    <3> QED
      BY <2>1, <3>1, HeaderWhere
  <2>4. result.body = (IF number <= stored THEN Stripped(BodyOf(number)) ELSE << >>)
    <3>1. PICK i \in 1..Len(heard) : heard[i] = Prompt(2)
      BY DEF Answered
    <3>2. i \in 1..Len(w) /\ w[i] = Prompt(2)
      BY <1>2, <3>1
    <3>3. i = n + Len(Answer) /\ Len(Answer) \in Nat \ {0}
      BY <2>1, <3>2, PromptWhere, PromptIsLast
    <3>4. Len(heard) = n + Len(Answer)
      <4>1. Len(heard) \in Nat /\ Len(w) \in Nat /\ Len(heard) >= n + Len(Answer)
        BY <1>1, <1>2, <3>1, <3>3
      <4>2. ASSUME Len(heard) > n + Len(Answer) PROVE FALSE
        <5>1. n + Len(Answer) + 1 \in 1..Len(heard) /\ Len(w) > n + Len(Answer)
          BY <1>2, <3>3, <4>1, <4>2
        <5>2. heard[n + Len(Answer) + 1].t = "banner"
          BY <1>2, <2>1, <5>1 DEF Talked
        <5> QED
          BY <5>1, <5>2 DEF Has
      <4> QED
        BY <3>3, <4>1, <4>2
    <3>5. ASSUME NEW j \in 1..Len(Answer) PROVE n + j \in 1..Len(heard) /\ heard[n + j] = Answer[j]
      <4>1. n + j \in 1..Len(heard)
        BY <3>3, <3>4
      <4> QED
        BY <1>2, <2>1, <4>1 DEF Talked
    <3>6. CASE number > stored
      <4>1. Places(heard, HeaderTypes) = {}
        BY <1>1, <2>2, <3>6
      <4> QED
        BY <1>1, <1>3, <3>6, <4>1
    <3>7. CASE number <= stored
      <4>1. Len(Answer) = BodyLines + 2 /\ Answer[1].t = "header" /\ Answer[BodyLines + 2] = Prompt(2)
            /\ \A k \in 1..BodyLines : Answer[k + 1] = BodyOf(number)[k]
        BY <3>7, FoundAnswer
      <4>2. Places(heard, HeaderTypes) # {}
        <5>1. 1 \in 1..Len(Answer)
          BY <3>3
        <5>2. n + 1 \in Places(heard, HeaderTypes)
          BY <3>5, <4>1, <5>1 DEF Places, HeaderTypes
        <5> QED
          BY <5>2
      <4> DEFINE lines == SubSeq(heard, h + 1, Len(heard))
                 body == BodyOf(number)
      <4>3. h = n + 1 /\ Len(heard) = n + (BodyLines + 2)
        BY <2>2, <3>4, <4>1, <4>2
      <4>4. /\ lines \in Seq(Tokens) /\ Len(lines) = BodyLines + 1
            /\ \A k \in 1..(BodyLines + 1) : lines[k] = heard[n + (k + 1)]
        <5>1. h + 1 \in 1..Len(heard) /\ h + 1 = n + 2 /\ Len(heard) - (h + 1) + 1 = BodyLines + 1
          BY <1>1, <2>1, <4>3
        <5>2. /\ lines \in Seq(Tokens) /\ Len(lines) = Len(heard) - (h + 1) + 1
              /\ \A k \in 1..(Len(heard) - (h + 1) + 1) : lines[k] = heard[(h + 1) + k - 1]
          BY <1>1, <5>1
        <5>3. \A k \in 1..(BodyLines + 1) : (h + 1) + k - 1 = n + (k + 1)
          BY <1>1, <4>3
        <5> QED
          BY <5>1, <5>2, <5>3
      <4>5. /\ body \in Seq(Tokens) /\ Len(body) = BodyLines
            /\ \A k \in 1..BodyLines : body[k].t # "prompt"
        <5>1. \A k \in 1..BodyLines : body[k].t \in {"body", "blank"}
          BY BodyIs
        <5> QED
          BY <5>1, BodyIs
      <4> HIDE DEF lines, body
      <4>6. ASSUME NEW k \in 1..(BodyLines + 1) PROVE lines[k] = Answer[k + 1]
        <5>1. k + 1 \in 1..Len(Answer)
          BY <1>1, <4>1
        <5> QED
          BY <3>5, <4>4, <5>1
      <4>7. \A k \in 1..BodyLines : lines[k] = body[k]
        <5>1. \A k \in 1..BodyLines : k \in 1..(BodyLines + 1)
          BY <1>1
        <5> QED
          BY <4>1, <4>6, <5>1 DEF body
      <4>8. lines[BodyLines + 1] = Prompt(2)
        <5>1. BodyLines + 1 \in 1..(BodyLines + 1) /\ (BodyLines + 1) + 1 = BodyLines + 2
          BY <1>1
        <5> QED
          BY <4>1, <4>6, <5>1
      <4>9. WithoutPrompt(lines) = body
        <5>1. body \in Seq(Tokens) /\ Len(body) > 0 /\ lines \in Seq(Tokens)
              /\ Len(lines) = Len(body) + 1 /\ lines[Len(body) + 1] = Prompt(2)
          BY <1>1, <4>4, <4>5, <4>8
        <5>2. \A k \in 1..Len(body) : body[k].t # "prompt" /\ lines[k] = body[k]
          BY <4>5, <4>7
        <5> QED
          BY <5>1, <5>2, PromptComesOff
      <4> QED
        BY <1>4, <3>7, <4>2, <4>9 DEF lines, body
    <3> QED
      BY <1>1, <3>6, <3>7
  <2> QED
    BY <2>4
<1> QED
  BY <1>2, <1>5, <1>6

LEMMA ReadRight == Typing /\ TalkInv => ReadIsStored
BY NumberRight, BodyRight DEF ReadIsStored, Returned

LEMMA TalkHolds == Spec => [](PbbsInv /\ TalkInv)
<1>1. Init => PbbsInv /\ TalkInv
  BY PbbsStart, TalkStart
<1>2. (PbbsInv /\ TalkInv) /\ [Next]_vars => (PbbsInv /\ TalkInv)'
  BY PbbsKept, TalkKept
<1> QED
  BY <1>1, <1>2, PTL DEF Spec

(***************************************************************************)
(* list_pbbs_messages() returns messages of the mailbox in their order,    *)
(* from the first one and without a gap.  Only the last one may have lost  *)
(* the end of its row, and none is lost or cut when the prompt after the   *)
(* list was collected: for any number of messages, and however the text of *)
(* the mailbox is sliced by _poll_until(), at whatever byte the collection *)
(* ends, and wherever the link does.                                       *)
(***************************************************************************)
THEOREM ListIsTheMailbox == Spec => []ListedIsStored
<1>1. PbbsInv /\ TalkInv => ListedIsStored
  BY ListedRight DEF PbbsInv
<1> QED
  BY <1>1, TalkHolds, PTL

(***************************************************************************)
(* read_pbbs_message() returns the message asked for or none; when the     *)
(* prompt after it was collected, and nothing of a hang-up, its whole body *)
(* without the empty lines at its ends, or nothing for a number the        *)
(* mailbox does not have, whatever their sizes.                            *)
(***************************************************************************)
THEOREM MessageIsTheOneAsked == Spec => []ReadIsStored
<1>1. PbbsInv /\ TalkInv => ReadIsStored
  BY ReadRight DEF PbbsInv
<1> QED
  BY <1>1, TalkHolds, PTL
=============================================================================
