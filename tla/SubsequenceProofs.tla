-------------------------- MODULE SubsequenceProofs --------------------------
(***************************************************************************)
(* What Pick, Only and Ascending do to a sequence that grows, and the       *)
(* induction over numbers and over sequences that it takes to show it.     *)
(*                                                                         *)
(* The induction theorems of the library take the property as an operator; *)
(* here it is a set, and the principle follows from the least element that *)
(* a well-founded relation gives every set.                                *)
(***************************************************************************)
EXTENDS Subsequence, FiniteSetsExt, WellFoundedInduction, SequenceTheorems, TLAPS

LEMMA LeastNumber ==
  ASSUME NEW T \in SUBSET Nat, T # {}
  PROVE  \E x \in T : \A y \in T : x <= y
<1> DEFINE R == OpToRel(<, Nat)
<1>1. IsWellFoundedOn(R, Nat)
  BY NatLessThanWellFounded
<1>2. \A x, y \in Nat : ~(y < x) \/ <<y, x>> \in R
  BY DEF OpToRel
<1> HIDE DEF R
<1>3. PICK x \in T : \A y \in T : ~(<<y, x>> \in R)
  BY <1>1, WFMin
<1>4. ASSUME NEW y \in T PROVE x <= y
  <2>1. ~(y < x)
    BY <1>2, <1>3, Zenon
  <2> QED BY <2>1
<1> QED
  BY <1>4

LEMMA NatInd ==
  ASSUME NEW S, 0 \in S, \A n \in Nat : n \in S => n + 1 \in S
  PROVE  Nat \subseteq S
<1> DEFINE T == Nat \ S
<1>1. SUFFICES ASSUME T # {} PROVE FALSE
  OBVIOUS
<1>2. PICK x \in T : \A y \in T : x <= y
  BY <1>1, LeastNumber
<1>3. x \in Nat /\ x # 0 /\ x - 1 \in Nat
  OBVIOUS
<1>4. x - 1 \in S
  BY <1>2, <1>3
<1>5. (x - 1) + 1 \in S
  BY <1>3, <1>4
<1> QED
  BY <1>3, <1>5

LEMMA MinMember ==
  ASSUME NEW S \in SUBSET Nat, S # {}
  PROVE  Min(S) \in S /\ \A y \in S : Min(S) <= y
<1>1. PICK x \in S : \A y \in S : x <= y
  BY LeastNumber
<1> QED
  BY <1>1 DEF Min

LEMMA MaxMember ==
  ASSUME NEW n \in Nat, NEW S \in SUBSET (0..n), S # {}
  PROVE  Max(S) \in S /\ \A y \in S : Max(S) >= y
<1> DEFINE T == {n - x : x \in S}
<1>1. PICK z \in T : \A y \in T : z <= y
  <2>1. \A x \in S : n - x \in Nat
    OBVIOUS
  <2>2. T \in SUBSET Nat
    BY <2>1, Zenon
  <2>3. T # {}
    OBVIOUS
  <2> HIDE DEF T
  <2> QED BY <2>2, <2>3, LeastNumber
<1>2. PICK x \in S : z = n - x
  OBVIOUS
<1>3. \A y \in S : x >= y
  <2> SUFFICES ASSUME NEW y \in S PROVE x >= y
    OBVIOUS
  <2>1. n - y \in T
    OBVIOUS
  <2>2. z <= n - y
    BY <1>1, <2>1
  <2> QED BY <1>2, <2>2
<1> QED
  BY <1>3 DEF Max

LEMMA SeqInd ==
  ASSUME NEW T, NEW P, <<>> \in P,
         \A s \in Seq(T), x \in T : s \in P => Append(s, x) \in P
  PROVE  Seq(T) \subseteq P
<1> DEFINE S == {n \in Nat : \A s \in Seq(T) : Len(s) = n => s \in P}
<1>1. 0 \in S
  OBVIOUS
<1>2. ASSUME NEW n \in Nat, n \in S PROVE n + 1 \in S
  <2> SUFFICES ASSUME NEW s \in Seq(T), Len(s) = n + 1 PROVE s \in P
    OBVIOUS
  <2>1. s # <<>>
    OBVIOUS
  <2>2. PICK t \in Seq(T), x \in T : s = Append(t, x)
    BY <2>1, SequenceEmptyOrAppend
  <2>3. Len(t) = n
    BY <2>2
  <2> QED
    BY <1>2, <2>2, <2>3
<1> HIDE DEF S
<1>3. Nat \subseteq S
  BY <1>1, <1>2, NatInd
<1> QED
  BY <1>3 DEF S

Recurses(f, n, e, h) == f[0] = e /\ \A i \in 1..n : f[i] = h[i][f[i - 1]]

\* A recursion on the numbers up to n has a solution, and only one.
LEMMA Recursion ==
  ASSUME NEW T, NEW e \in T, NEW n \in Nat, NEW h \in [1..n -> [T -> T]]
  PROVE  \E f \in [0..n -> T] : Recurses(f, n, e, h)
<1> DEFINE Upto(m, f) == f[0] = e /\ \A i \in 1..m : f[i] = h[i][f[i - 1]]
           S == {m \in Nat : m <= n => \E f \in [0..m -> T] : Upto(m, f)}
<1>1. 0 \in S
  <2>1. [i \in 0..0 |-> e] \in [0..0 -> T] /\ Upto(0, [i \in 0..0 |-> e])
    OBVIOUS
  <2> QED BY <2>1
<1>2. ASSUME NEW m \in Nat, m \in S PROVE m + 1 \in S
  <2> SUFFICES ASSUME m + 1 <= n PROVE \E f \in [0..(m + 1) -> T] : Upto(m + 1, f)
    OBVIOUS
  <2>1. PICK f \in [0..m -> T] : Upto(m, f)
    BY <1>2
  <2> DEFINE g == [i \in 0..(m + 1) |-> IF i <= m THEN f[i] ELSE h[m + 1][f[m]]]
  <2>2. h[m + 1][f[m]] \in T
    OBVIOUS
  <2>3. g \in [0..(m + 1) -> T]
    BY <2>2
  <2>4. g[0] = e /\ \A i \in 1..m : g[i] = h[i][g[i - 1]]
    BY <2>1
  <2>5. g[m + 1] = h[m + 1][g[(m + 1) - 1]]
    <3>1. (m + 1) - 1 = m /\ g[m] = f[m] /\ g[m + 1] = h[m + 1][f[m]]
      OBVIOUS
    <3> HIDE DEF g
    <3> QED BY <3>1, Zenon
  <2>6. Upto(m + 1, g)
    <3> HIDE DEF g
    <3> SUFFICES ASSUME NEW i \in 1..(m + 1) PROVE g[i] = h[i][g[i - 1]]
      BY <2>4
    <3> CASE i = m + 1
      BY <2>5
    <3> CASE i \in 1..m
      BY <2>4
    <3> QED OBVIOUS
  <2> QED
    BY <2>3, <2>6
<1> HIDE DEF S
<1>3. Nat \subseteq S
  BY <1>1, <1>2, NatInd
<1> QED
  BY <1>3 DEF S, Recurses

\* What Pick's function is.
Picking(s, kept, f) ==
  /\ f[0] = <<>>
  /\ \A i \in 1..Len(s) : f[i] = IF i \in kept THEN Append(f[i - 1], s[i]) ELSE f[i - 1]

LEMMA PickingUnique ==
  ASSUME NEW T, NEW s \in Seq(T), NEW kept, NEW f, NEW g,
         Picking(s, kept, f), Picking(s, kept, g)
  PROVE  \A i \in 0..Len(s) : f[i] = g[i]
<1> DEFINE S == {i \in Nat : i <= Len(s) => f[i] = g[i]}
<1>1. 0 \in S
  BY DEF Picking
<1>2. ASSUME NEW i \in Nat, i \in S PROVE i + 1 \in S
  <2> SUFFICES ASSUME i + 1 <= Len(s) PROVE f[i + 1] = g[i + 1]
    OBVIOUS
  <2>1. f[i] = g[i]
    BY <1>2
  <2>2. i + 1 \in 1..Len(s) /\ (i + 1) - 1 = i
    OBVIOUS
  <2>3. f[i + 1] = IF i + 1 \in kept THEN Append(f[i], s[i + 1]) ELSE f[i]
    BY <2>2, Zenon DEF Picking
  <2>4. g[i + 1] = IF i + 1 \in kept THEN Append(g[i], s[i + 1]) ELSE g[i]
    BY <2>2, Zenon DEF Picking
  <2> QED
    <3> CASE i + 1 \in kept
      BY <2>1, <2>3, <2>4, Zenon
    <3> CASE i + 1 \notin kept
      BY <2>1, <2>3, <2>4, Zenon
    <3> QED OBVIOUS
<1> HIDE DEF S
<1>3. Nat \subseteq S
  BY <1>1, <1>2, NatInd
<1> QED
  BY <1>3 DEF S

LEMMA PickDef ==
  ASSUME NEW T, NEW s \in Seq(T), NEW kept
  PROVE  \E f \in [0..Len(s) -> Seq(T)] : Picking(s, kept, f) /\ Pick(s, kept) = f[Len(s)]
<1> DEFINE h == [i \in 1..Len(s) |-> [t \in Seq(T) |->
                   IF i \in kept THEN Append(t, s[i]) ELSE t]]
           body(p) == [i \in 0..Len(s) |->
                    IF i = 0 THEN <<>>
                    ELSE IF i \in kept THEN Append(p[i - 1], s[i]) ELSE p[i - 1]]
           picked == CHOOSE p : p = body(p)
<1>1. h \in [1..Len(s) -> [Seq(T) -> Seq(T)]]
  OBVIOUS
<1>2. PICK f \in [0..Len(s) -> Seq(T)] :
        f[0] = <<>> /\ \A i \in 1..Len(s) : f[i] = h[i][f[i - 1]]
  <2> DEFINE n == Len(s)
             TT == Seq(T)
             e == <<>>
  <2>1. e \in TT /\ n \in Nat
    OBVIOUS
  <2>2. h \in [1..n -> [TT -> TT]]
    BY <1>1
  <2> HIDE DEF h, n, TT, e
  <2>3. \E f \in [0..n -> TT] : Recurses(f, n, e, h)
    BY <2>1, <2>2, Recursion
  <2> QED BY <2>3, Zenon DEF n, TT, e, Recurses
<1>3. Picking(s, kept, f)
  <2> SUFFICES ASSUME NEW i \in 1..Len(s)
               PROVE  f[i] = IF i \in kept THEN Append(f[i - 1], s[i]) ELSE f[i - 1]
    BY <1>2, Zenon DEF Picking
  <2>1. f[i - 1] \in Seq(T) /\ f[i] = h[i][f[i - 1]]
    <3> HIDE DEF h
    <3> QED BY <1>2
  <2> QED BY <2>1
<1>4. f = body(f)
  <2>1. ASSUME NEW i \in 1..Len(s) PROVE f[i] = body(f)[i]
    BY <1>3 DEF Picking
  <2>2. f[0] = body(f)[0]
    BY <1>3 DEF Picking
  <2>3. body(f) = [i \in 0..Len(s) |-> body(f)[i]] /\ f = [i \in 0..Len(s) |-> f[i]]
    OBVIOUS
  <2> HIDE DEF body
  <2>4. \A i \in 0..Len(s) : f[i] = body(f)[i]
    BY <2>1, <2>2
  <2> QED BY <2>3, <2>4
<1>5. picked = body(picked)
  BY <1>4, Zenon
<1>6. Picking(s, kept, picked)
  <2> DEFINE q == picked
  <2>1. q = body(q)
    BY <1>5
  <2> HIDE DEF q
  <2>2. q[0] = <<>>
    BY <2>1
  <2>3. ASSUME NEW i \in 1..Len(s)
        PROVE  q[i] = IF i \in kept THEN Append(q[i - 1], s[i]) ELSE q[i - 1]
    <3>1. i \in 0..Len(s) /\ i # 0
      OBVIOUS
    <3>2. body(q)[i] = IF i \in kept THEN Append(q[i - 1], s[i]) ELSE q[i - 1]
      BY <3>1, Zenon
    <3> HIDE DEF body
    <3> QED BY <2>1, <3>2, Zenon
  <2>4. Picking(s, kept, q)
    BY <2>2, <2>3, Zenon DEF Picking
  <2> QED BY <2>4 DEF q
<1>7. picked[Len(s)] = f[Len(s)]
  BY <1>3, <1>6, PickingUnique
<1>8. Pick(s, kept) = picked[Len(s)]
  BY DEF Pick
<1> QED
  BY <1>3, <1>7, <1>8

LEMMA PickType ==
  ASSUME NEW T, NEW s \in Seq(T), NEW kept
  PROVE  Pick(s, kept) \in Seq(T)
BY PickDef

LEMMA PickEmpty ==
  ASSUME NEW kept
  PROVE  Pick(<<>>, kept) = <<>>
<1>1. <<>> \in Seq({}) /\ Len(<<>>) = 0
  OBVIOUS
<1>2. PICK f : Picking(<<>>, kept, f) /\ Pick(<<>>, kept) = f[Len(<<>>)]
  BY <1>1, PickDef
<1> QED
  BY <1>1, <1>2, Zenon DEF Picking

LEMMA PickAppend ==
  ASSUME NEW T, NEW s \in Seq(T), NEW x \in T, NEW old, NEW kept,
         \A i \in 1..Len(s) : i \in old <=> i \in kept
  PROVE  Pick(Append(s, x), kept) = IF Len(s) + 1 \in kept THEN Append(Pick(s, old), x)
                                    ELSE Pick(s, old)
<1> DEFINE u == Append(s, x)
           n == Len(s)
<1>1. /\ u \in Seq(T) /\ n \in Nat /\ Len(u) = n + 1
      /\ \A i \in 1..n : u[i] = s[i]
      /\ u[n + 1] = x
  OBVIOUS
<1>2. PICK f : Picking(s, old, f) /\ Pick(s, old) = f[n]
  BY PickDef
<1> HIDE DEF u
<1>3. PICK g : Picking(u, kept, g) /\ Pick(u, kept) = g[Len(u)]
  BY <1>1, PickDef
<1>4. Picking(s, old, g)
  <2>1. g[0] = <<>>
    BY <1>3, Zenon DEF Picking
  <2>2. ASSUME NEW i \in 1..n
        PROVE  g[i] = IF i \in old THEN Append(g[i - 1], s[i]) ELSE g[i - 1]
    <3>1. i \in 1..Len(u) /\ u[i] = s[i] /\ (i \in old <=> i \in kept)
      BY <1>1
    <3>2. g[i] = IF i \in kept THEN Append(g[i - 1], u[i]) ELSE g[i - 1]
      BY <1>3, <3>1, Zenon DEF Picking
    <3> QED
      BY <3>1, <3>2, Zenon
  <2> QED
    BY <2>1, <2>2, Zenon DEF Picking
<1>5. g[n] = f[n]
  <2>1. n \in 0..Len(s)
    OBVIOUS
  <2> QED BY <1>2, <1>4, <2>1, PickingUnique
<1>6. g[n + 1] = IF n + 1 \in kept THEN Append(g[n], x) ELSE g[n]
  <2>1. n + 1 \in 1..Len(u) /\ (n + 1) - 1 = n /\ u[n + 1] = x
    BY <1>1
  <2> QED BY <1>3, <2>1, Zenon DEF Picking
<1>7. Pick(u, kept) = g[n + 1]
  BY <1>1, <1>3, Zenon
<1>8. Pick(u, kept) = IF n + 1 \in kept THEN Append(Pick(s, old), x) ELSE Pick(s, old)
  BY <1>2, <1>5, <1>6, <1>7, Zenon
<1> QED
  BY <1>8 DEF u

LEMMA AscendingZero == ASSUME NEW kept PROVE Ascending(0, kept) = <<>>
<1>1. [i \in 1..0 |-> i] = <<>>
  OBVIOUS
<1> QED
  BY <1>1, PickEmpty, Zenon DEF Ascending

LEMMA AscendingNext ==
  ASSUME NEW n \in Nat, NEW old, NEW kept, \A i \in 1..n : i \in old <=> i \in kept
  PROVE  Ascending(n + 1, kept) = IF n + 1 \in kept THEN Append(Ascending(n, old), n + 1)
                                  ELSE Ascending(n, old)
<1> DEFINE s == [i \in 1..n |-> i]
           x == n + 1
           T == Nat
<1>1. [i \in 1..x |-> i] = Append(s, x) /\ s \in Seq(T) /\ x \in T /\ Len(s) = n
  OBVIOUS
<1> HIDE DEF s, T
<1>2. \A i \in 1..Len(s) : i \in old <=> i \in kept
  BY <1>1
<1> HIDE DEF x
<1>3. Pick(Append(s, x), kept) = IF Len(s) + 1 \in kept THEN Append(Pick(s, old), x)
                                 ELSE Pick(s, old)
  BY <1>1, <1>2, PickAppend
<1>4. Ascending(x, kept) = IF Len(s) + 1 \in kept THEN Append(Ascending(n, old), x)
                           ELSE Ascending(n, old)
  BY <1>1, <1>3, Zenon DEF Ascending, s
<1> QED
  BY <1>1, <1>4, Zenon DEF x

\* The numbers of the set, each once and in order.
Enumerates(a, n, kept) ==
  /\ a \in Seq(1..n)
  /\ \A k \in 1..Len(a) : a[k] \in kept
  /\ \A j, k \in 1..Len(a) : j < k => a[j] < a[k]
  /\ \A i \in 1..n : i \in kept => \E k \in 1..Len(a) : a[k] = i

LEMMA AscendingEnumerates ==
  ASSUME NEW n \in Nat, NEW kept
  PROVE  Enumerates(Ascending(n, kept), n, kept)
<1> DEFINE S == {m \in Nat : Enumerates(Ascending(m, kept), m, kept)}
<1>1. 0 \in S
  <2>1. Enumerates(<<>>, 0, kept)
    BY DEF Enumerates
  <2> QED BY <2>1, AscendingZero
<1>2. ASSUME NEW m \in Nat, m \in S PROVE m + 1 \in S
  <2> DEFINE a == Ascending(m, kept)
             b == Ascending(m + 1, kept)
  <2>1. b = IF m + 1 \in kept THEN Append(a, m + 1) ELSE a
    BY AscendingNext
  <2>2. Enumerates(a, m, kept)
    BY <1>2
  <2> HIDE DEF a, b
  <2>3. a \in Seq(1..m) /\ \A k \in 1..Len(a) : a[k] \in 1..m
    BY <2>2 DEF Enumerates
  <2>4. CASE m + 1 \notin kept
    <3>1. b = a
      BY <2>1, <2>4
    <3>2. a \in Seq(1..(m + 1))
      BY <2>3
    <3> QED BY <2>2, <2>4, <3>1, <3>2 DEF Enumerates, b
  <2>5. CASE m + 1 \in kept
    <3>1. b = Append(a, m + 1)
      BY <2>1, <2>5
    <3>2. a \in Seq(1..(m + 1)) /\ m + 1 \in 1..(m + 1)
      BY <2>3
    <3>3. /\ b \in Seq(1..(m + 1)) /\ Len(b) = Len(a) + 1 /\ Len(a) \in Nat
          /\ b[Len(a) + 1] = m + 1
          /\ \A k \in 1..Len(a) : b[k] = a[k]
      BY <3>1, <3>2
    <3>7. \A k \in 1..Len(b) : k = Len(a) + 1 \/ k \in 1..Len(a)
      BY <3>3
    <3>8. /\ \A k \in 1..Len(a) : a[k] \in kept
          /\ \A j, k \in 1..Len(a) : j < k => a[j] < a[k]
      BY <2>2 DEF Enumerates
    <3>4. \A k \in 1..Len(b) : b[k] \in kept
      BY <2>5, <3>3, <3>7, <3>8, Zenon
    <3>5. ASSUME NEW j \in 1..Len(b), NEW k \in 1..Len(b), j < k PROVE b[j] < b[k]
      <4>1. j \in 1..Len(a)
        BY <3>3, <3>5
      <4>2. CASE k = Len(a) + 1
        <5>1. a[j] \in 1..m /\ b[j] = a[j] /\ b[k] = m + 1
          BY <2>3, <3>3, <4>1, <4>2
        <5> QED BY <5>1
      <4>3. CASE k \in 1..Len(a)
        BY <3>3, <3>5, <3>8, <4>1, <4>3
      <4> QED BY <3>7, <4>2, <4>3
    <3>6. ASSUME NEW i \in 1..(m + 1), i \in kept PROVE \E k \in 1..Len(b) : b[k] = i
      <4>1. CASE i = m + 1
        BY <3>3, <4>1
      <4>2. CASE i \in 1..m
        <5>1. PICK k \in 1..Len(a) : a[k] = i
          BY <2>2, <3>6, <4>2 DEF Enumerates
        <5> QED BY <3>3, <5>1
      <4> QED BY <4>1, <4>2
    <3> QED BY <3>3, <3>4, <3>5, <3>6 DEF Enumerates, b
  <2> QED BY <2>4, <2>5
<1> HIDE DEF S
<1>3. Nat \subseteq S
  BY <1>1, <1>2, NatInd
<1> QED
  BY <1>3 DEF S

\* An element picked is the element at the position picked.
LEMMA PickAscending ==
  ASSUME NEW T, NEW s \in Seq(T), NEW kept
  PROVE  /\ Ascending(Len(s), kept) \in Seq(1..Len(s))
         /\ Len(Ascending(Len(s), kept)) = Len(Pick(s, kept))
         /\ \A k \in 1..Len(Pick(s, kept)) :
              Pick(s, kept)[k] = s[Ascending(Len(s), kept)[k]]
<1> DEFINE Good(u) == /\ Ascending(Len(u), kept) \in Seq(1..Len(u))
                      /\ Len(Ascending(Len(u), kept)) = Len(Pick(u, kept))
                      /\ \A k \in 1..Len(Pick(u, kept)) :
                           Pick(u, kept)[k] = u[Ascending(Len(u), kept)[k]]
           P == {u \in Seq(T) : Good(u)}
<1>1. <<>> \in P
  <2>1. Len(<<>>) = 0 /\ <<>> \in Seq(T) /\ <<>> \in Seq(1..0)
    OBVIOUS
  <2>2. Pick(<<>>, kept) = <<>> /\ Ascending(0, kept) = <<>>
    BY PickEmpty, AscendingZero
  <2>3. Ascending(Len(<<>>), kept) = <<>>
    BY <2>1, <2>2, Zenon
  <2>4. \A k \in 1..Len(<<>>) : Pick(<<>>, kept)[k] = <<>>[Ascending(Len(<<>>), kept)[k]]
    BY <2>1
  <2>5. <<>> \in Seq(1..Len(<<>>))
    BY <2>1, Zenon
  <2>6. Good(<<>>)
    BY <2>2, <2>3, <2>4, <2>5, Zenon
  <2> QED BY <2>1, <2>6
<1>2. ASSUME NEW u \in Seq(T), NEW x \in T, u \in P PROVE Append(u, x) \in P
  <2> DEFINE n == Len(u)
             v == Append(u, x)
             a == Ascending(n, kept)
             p == Pick(u, kept)
             b == Ascending(n + 1, kept)
             q == Pick(v, kept)
  <2>1. n \in Nat /\ v \in Seq(T) /\ Len(v) = n + 1 /\ v[n + 1] = x /\ \A i \in 1..n : v[i] = u[i]
    OBVIOUS
  <2>2. b = IF n + 1 \in kept THEN Append(a, n + 1) ELSE a
    BY <2>1, AscendingNext
  <2>3. q = IF n + 1 \in kept THEN Append(p, x) ELSE p
    BY PickAppend
  <2>4. a \in Seq(1..n) /\ p \in Seq(T) /\ Len(a) = Len(p) /\ \A k \in 1..Len(p) : p[k] = u[a[k]]
    BY <1>2, PickType
  <2> HIDE DEF n, v, a, p, b, q
  <2>5. CASE n + 1 \notin kept
    <3>1. a \in Seq(1..(n + 1))
      BY <2>1, <2>4
    <3>2. \A k \in 1..Len(p) : a[k] \in 1..n
      BY <2>4, <2>1
    <3>3. \A k \in 1..Len(p) : p[k] = v[a[k]]
      BY <2>4, <2>1, <3>2
    <3>4. b = a /\ q = p
      BY <2>2, <2>3, <2>5, Zenon
    <3>5. b \in Seq(1..Len(v)) /\ Len(b) = Len(q) /\ \A k \in 1..Len(q) : q[k] = v[b[k]]
      BY <3>1, <3>3, <3>4, <2>1, <2>4, Zenon
    <3> QED BY <3>5, <2>1 DEF n, v, b, q
  <2>6. CASE n + 1 \in kept
    <3>1. a \in Seq(1..(n + 1)) /\ n + 1 \in 1..(n + 1)
      BY <2>1, <2>4
    <3>2. \A k \in 1..Len(p) : a[k] \in 1..n
      BY <2>4, <2>1
    <3>3. \A k \in 1..Len(p) : p[k] = v[a[k]]
      BY <2>4, <2>1, <3>2
    <3>4. b = Append(a, n + 1) /\ q = Append(p, x)
      BY <2>2, <2>3, <2>6, Zenon
    <3>5. b \in Seq(1..(n + 1)) /\ Len(b) = Len(a) + 1 /\ Len(q) = Len(p) + 1
      BY <3>1, <3>4, <2>4, <2>1
    <3>6. q[Len(p) + 1] = v[b[Len(p) + 1]]
      BY <3>1, <3>4, <2>4, <2>1
    <3>7. \A k \in 1..Len(p) : q[k] = v[b[k]]
      BY <3>1, <3>3, <3>4, <2>4, <2>1
    <3>8. ASSUME NEW k \in 1..Len(q) PROVE q[k] = v[b[k]]
      <4> Len(p) \in Nat
        BY <2>4
      <4> CASE k = Len(p) + 1
        BY <3>6
      <4> CASE k \in 1..Len(p)
        BY <3>7
      <4> QED BY <3>5
    <3> QED BY <3>5, <3>8, <2>1, <2>4 DEF n, v, b, q
  <2> QED BY <2>5, <2>6
<1> HIDE DEF P
<1>3. Seq(T) \subseteq P
  BY <1>1, <1>2, SeqInd
<1> QED
  BY <1>3, Zenon DEF P

-----------------------------------------------------------------------------
LEMMA OnlyType ==
  ASSUME NEW T, NEW s \in Seq(T), NEW types
  PROVE  Only(s, types) \in Seq(T)
BY PickType DEF Only

LEMMA OnlyEmpty ==
  ASSUME NEW types
  PROVE  Only(<<>>, types) = <<>>
BY PickEmpty DEF Only

LEMMA OnlyAppend ==
  ASSUME NEW T, NEW s \in Seq(T), NEW x \in T, NEW types
  PROVE  Only(Append(s, x), types) = IF x.t \in types THEN Append(Only(s, types), x)
                                     ELSE Only(s, types)
<1> DEFINE u == Append(s, x)
           old == Places(s, types)
           kept == Places(u, types)
           n == Len(s)
<1>1. n \in Nat /\ Len(u) = n + 1 /\ u[n + 1] = x /\ \A i \in 1..n : u[i] = s[i]
  OBVIOUS
<1>2. \A i \in 1..n : i \in old <=> i \in kept
  <2> SUFFICES ASSUME NEW i \in 1..n PROVE i \in old <=> i \in kept
    OBVIOUS
  <2>1. i \in 1..Len(u) /\ u[i] = s[i]
    BY <1>1
  <2>2. u[i].t = s[i].t
    BY <2>1, Zenon
  <2> HIDE DEF u
  <2> QED BY <2>1, <2>2, Zenon DEF Places
<1>3. n + 1 \in kept <=> x.t \in types
  <2>1. n + 1 \in 1..Len(u) /\ u[n + 1].t = x.t
    <3> HIDE DEF u
    <3> QED BY <1>1
  <2> HIDE DEF u
  <2> QED BY <2>1, Zenon DEF Places
<1> HIDE DEF old, kept
<1>4. Pick(u, kept) = IF n + 1 \in kept THEN Append(Pick(s, old), x) ELSE Pick(s, old)
  BY <1>2, PickAppend
<1> QED
  BY <1>3, <1>4, Zenon DEF Only, old, kept

LEMMA OnlyConcat ==
  ASSUME NEW T, NEW s \in Seq(T), NEW t \in Seq(T), NEW types
  PROVE  Only(s \o t, types) = Only(s, types) \o Only(t, types)
<1> DEFINE P == {u \in Seq(T) : Only(s \o u, types) = Only(s, types) \o Only(u, types)}
<1>1. <<>> \in P
  <2>1. <<>> \in Seq(T) /\ s \o <<>> = s /\ Only(s, types) \o <<>> = Only(s, types)
    BY OnlyType, ConcatEmptySeq, EmptySeq
  <2> QED BY <2>1, OnlyEmpty
<1>2. ASSUME NEW u \in Seq(T), NEW x \in T, u \in P PROVE Append(u, x) \in P
  <2> DEFINE a == Only(s, types)
             b == Only(u, types)
  <2>1. a \in Seq(T) /\ b \in Seq(T) /\ s \o u \in Seq(T)
    BY OnlyType, ConcatProperties
  <2>3. Only(s \o u, types) = a \o b
    BY <1>2
  <2> HIDE DEF a, b
  <2>2. s \o Append(u, x) = Append(s \o u, x) /\ a \o Append(b, x) = Append(a \o b, x)
    <3>1. s \o Append(u, x) = Append(s \o u, x)
      OBVIOUS
    <3>2. a \o Append(b, x) = Append(a \o b, x)
      BY <2>1
    <3> QED BY <3>1, <3>2
  <2>4. Only(Append(s \o u, x), types) = IF x.t \in types THEN Append(a \o b, x) ELSE a \o b
    BY <2>1, <2>3, OnlyAppend, ZenonT(30)
  <2>5. Only(Append(u, x), types) = IF x.t \in types THEN Append(b, x) ELSE b
    <3>1. u \in Seq(T) /\ x \in T
      OBVIOUS
    <3>2. Only(Append(u, x), types) = IF x.t \in types THEN Append(Only(u, types), x)
                                      ELSE Only(u, types)
      BY <3>1, OnlyAppend, Zenon
    <3> QED BY <3>2, Zenon DEF b
  <2>6. Only(s \o Append(u, x), types) = a \o Only(Append(u, x), types)
    <3>1. CASE x.t \in types
      BY <3>1, <2>2, <2>4, <2>5, Zenon
    <3>2. CASE x.t \notin types
      BY <3>2, <2>2, <2>4, <2>5, Zenon
    <3> QED BY <3>1, <3>2
  <2>7. Append(u, x) \in Seq(T)
    OBVIOUS
  <2> QED BY <2>6, <2>7, Zenon DEF a
<1> HIDE DEF P
<1>3. Seq(T) \subseteq P
  BY <1>1, <1>2, SeqInd
<1> QED
  BY <1>3, Zenon DEF P

LEMMA OnlyAll ==
  ASSUME NEW T, NEW s \in Seq(T), NEW types, \A i \in 1..Len(s) : s[i].t \in types
  PROVE  Only(s, types) = s
<1> DEFINE P == {u \in Seq(T) :
                   (\A i \in 1..Len(u) : u[i].t \in types) => Only(u, types) = u}
<1>1. <<>> \in P
  <2>1. <<>> \in Seq(T) /\ Only(<<>>, types) = <<>>
    BY OnlyEmpty
  <2> QED BY <2>1, Zenon
<1>2. ASSUME NEW u \in Seq(T), NEW x \in T, u \in P PROVE Append(u, x) \in P
  <2> DEFINE v == Append(u, x)
  <2>1. /\ v \in Seq(T) /\ \A i \in 1..Len(u) : i \in 1..Len(v) /\ v[i] = u[i]
        /\ Len(u) + 1 \in 1..Len(v) /\ v[Len(u) + 1] = x
    OBVIOUS
  <2>2. Only(v, types) = IF x.t \in types THEN Append(Only(u, types), x) ELSE Only(u, types)
    BY OnlyAppend
  <2> HIDE DEF v
  <2>3. ASSUME \A i \in 1..Len(v) : v[i].t \in types PROVE Only(v, types) = Append(u, x)
    <3>1. \A i \in 1..Len(u) : u[i].t \in types
      BY <2>1, <2>3
    <3>2. x.t \in types
      BY <2>1, <2>3
    <3>3. Only(u, types) = u
      BY <1>2, <3>1
    <3> QED BY <2>2, <3>2, <3>3
  <2> QED BY <2>1, <2>3 DEF v
<1> HIDE DEF P
<1>3. Seq(T) \subseteq P
  BY <1>1, <1>2, SeqInd
<1> QED
  BY <1>3 DEF P

-----------------------------------------------------------------------------
(***************************************************************************)
(* Which positions are kept.                                               *)
(***************************************************************************)
\* Only the positions of the sequence matter.
LEMMA PickSame ==
  ASSUME NEW T, NEW s \in Seq(T), NEW old, NEW kept, \A i \in 1..Len(s) : i \in old <=> i \in kept
  PROVE  Pick(s, old) = Pick(s, kept)
<1> DEFINE Same(u) == \A i \in 1..Len(u) : i \in old <=> i \in kept
           P == {u \in Seq(T) : Same(u) => Pick(u, old) = Pick(u, kept)}
<1>1. << >> \in P
  BY PickEmpty
<1>2. ASSUME NEW u \in Seq(T), NEW x \in T, u \in P PROVE Append(u, x) \in P
  <2> SUFFICES ASSUME Same(Append(u, x))
               PROVE  Pick(Append(u, x), old) = Pick(Append(u, x), kept)
    BY AppendProperties
  <2>1. Len(Append(u, x)) = Len(u) + 1 /\ Len(u) \in Nat
    BY AppendProperties
  <2>2. Same(u) /\ (Len(u) + 1 \in old <=> Len(u) + 1 \in kept)
    BY <2>1
  <2>3. Pick(u, old) = Pick(u, kept)
    BY <1>2, <2>2
  <2>4. Pick(Append(u, x), old) = IF Len(u) + 1 \in old THEN Append(Pick(u, old), x) ELSE Pick(u, old)
    BY PickAppend
  <2>5. Pick(Append(u, x), kept) = IF Len(u) + 1 \in kept THEN Append(Pick(u, kept), x) ELSE Pick(u, kept)
    BY PickAppend
  <2> QED
    BY <2>2, <2>3, <2>4, <2>5
<1> HIDE DEF P
<1>3. Seq(T) \subseteq P
  BY <1>1, <1>2, SeqInd
<1> QED
  BY <1>3 DEF P

LEMMA PickAll ==
  ASSUME NEW T, NEW s \in Seq(T), NEW kept, \A i \in 1..Len(s) : i \in kept
  PROVE  Pick(s, kept) = s
<1> DEFINE All(u) == \A i \in 1..Len(u) : i \in kept
           P == {u \in Seq(T) : All(u) => Pick(u, kept) = u}
<1>1. << >> \in P
  BY PickEmpty
<1>2. ASSUME NEW u \in Seq(T), NEW x \in T, u \in P PROVE Append(u, x) \in P
  <2> SUFFICES ASSUME All(Append(u, x)) PROVE Pick(Append(u, x), kept) = Append(u, x)
    BY AppendProperties
  <2>1. Len(Append(u, x)) = Len(u) + 1 /\ Len(u) \in Nat
    BY AppendProperties
  <2>2. All(u) /\ Len(u) + 1 \in kept
    BY <2>1
  <2>3. Pick(Append(u, x), kept) = IF Len(u) + 1 \in kept THEN Append(Pick(u, kept), x) ELSE Pick(u, kept)
    BY PickAppend
  <2> QED
    BY <1>2, <2>2, <2>3
<1> HIDE DEF P
<1>3. Seq(T) \subseteq P
  BY <1>1, <1>2, SeqInd
<1> QED
  BY <1>3 DEF P

\* Positions of a tail none of which is kept.
LEMMA PickHead ==
  ASSUME NEW T, NEW s \in Seq(T), NEW t \in Seq(T), NEW kept,
         \A i \in 1..Len(t) : Len(s) + i \notin kept
  PROVE  Pick(s \o t, kept) = Pick(s, kept)
<1> DEFINE None(u) == \A i \in 1..Len(u) : Len(s) + i \notin kept
           P == {u \in Seq(T) : None(u) => Pick(s \o u, kept) = Pick(s, kept)}
<1>1. << >> \in P
  <2>1. << >> \in Seq(T) /\ s \o << >> = s
    BY ConcatEmptySeq
  <2> QED
    BY <2>1, Zenon
<1>2. ASSUME NEW u \in Seq(T), NEW x \in T, u \in P PROVE Append(u, x) \in P
  <2> SUFFICES ASSUME None(Append(u, x)) PROVE Pick(s \o Append(u, x), kept) = Pick(s, kept)
    BY AppendProperties
  <2>1. Len(Append(u, x)) = Len(u) + 1 /\ Len(u) \in Nat /\ Len(s) \in Nat
    BY AppendProperties
  <2>2. None(u) /\ Len(s) + (Len(u) + 1) \notin kept
    BY <2>1
  <2> DEFINE w == s \o u
  <2>3. w \in Seq(T) /\ Len(w) = Len(s) + Len(u)
    BY ConcatProperties
  <2>4. s \o Append(u, x) = Append(w, x)
    OBVIOUS
  <2>5. Pick(w, kept) = Pick(s, kept)
    BY <1>2, <2>2
  <2> HIDE DEF w
  <2>6. Pick(Append(w, x), kept) = IF Len(w) + 1 \in kept THEN Append(Pick(w, kept), x) ELSE Pick(w, kept)
    BY <2>3, PickAppend
  <2>7. Len(w) + 1 \notin kept
    BY <2>1, <2>2, <2>3
  <2> QED
    BY <2>4, <2>5, <2>6, <2>7
<1> HIDE DEF P
<1>3. Seq(T) \subseteq P
  BY <1>1, <1>2, SeqInd
<1> QED
  BY <1>3 DEF P

-----------------------------------------------------------------------------
(***************************************************************************)
(* Sequences put together and cut.                                         *)
(***************************************************************************)
\* Concatenations are regrouped with a definition, because the provers do not instantiate
\* an equation of concatenations.
Regroups(a, b, c) == (a \o b) \o c = a \o (b \o c)

LEMMA ThreeParts ==
  ASSUME NEW X, NEW a \in Seq(X), NEW b \in Seq(X), NEW c \in Seq(X)
  PROVE  Regroups(a, b, c)
BY DEF Regroups

LEMMA MovesOn ==
  ASSUME NEW X, NEW s \in Seq(X), NEW u \in Seq(X), u # << >>
  PROVE  /\ Append(s, Head(u)) \o Tail(u) = s \o u
         /\ Append(s, Head(u)) \in Seq(X) /\ Tail(u) \in Seq(X) /\ Head(u) \in X
<1> DEFINE x == Head(u)
           v == Tail(u)
<1>1. x \in X /\ v \in Seq(X) /\ u = <<x>> \o v
  BY HeadTailProperties
<1> HIDE DEF x, v
<1>2. Append(s, x) = s \o <<x>> /\ <<x>> \in Seq(X) /\ Append(s, x) \in Seq(X)
  BY <1>1, AppendProperties
<1>3. Regroups(s, <<x>>, v)
  BY <1>1, <1>2, ThreeParts, Zenon
<1> QED
  BY <1>1, <1>2, <1>3 DEF x, v, Regroups

\* The first n elements, and the others.
LEMMA Halves ==
  ASSUME NEW X, NEW s \in Seq(X), NEW n \in 0..Len(s)
  PROVE  /\ SubSeq(s, 1, n) \in Seq(X) /\ SubSeq(s, n + 1, Len(s)) \in Seq(X)
         /\ SubSeq(s, 1, n) \o SubSeq(s, n + 1, Len(s)) = s
         /\ Len(SubSeq(s, n + 1, Len(s))) = Len(s) - n
         /\ \A k \in 1..(Len(s) - n) : SubSeq(s, n + 1, Len(s))[k] = s[n + k]
<1> DEFINE a == SubSeq(s, 1, n)
           t == SubSeq(s, n + 1, Len(s))
<1>1. Len(s) \in Nat /\ n \in Nat /\ n <= Len(s)
  OBVIOUS
<1>2. /\ a \in Seq(X) /\ t \in Seq(X)
      /\ Len(a) = n /\ \A i \in 1..n : a[i] = s[i]
      /\ Len(t) = Len(s) - n /\ \A i \in 1..(Len(s) - n) : t[i] = s[n + i]
  BY <1>1
<1>3. a \o t = s
  <2> HIDE DEF a, t
  <2>1. a \o t \in Seq(X) /\ Len(a \o t) = Len(s)
    BY <1>1, <1>2
  <2>2. ASSUME NEW k \in 1..Len(s) PROVE (a \o t)[k] = s[k]
    <3>1. CASE k <= n
      BY <1>1, <1>2, <3>1
    <3>2. CASE k > n
      <4>1. k - n \in 1..(Len(s) - n) /\ n + (k - n) = k
        BY <1>1, <3>2
      <4>2. (a \o t)[k] = t[k - n]
        BY <1>1, <1>2, <3>2
      <4>3. t[k - n] = s[n + (k - n)]
        BY <1>2, <4>1
      <4> QED
        BY <4>1, <4>2, <4>3
    <3>3. k <= n \/ k > n
      BY <1>1
    <3> QED
      BY <3>1, <3>2, <3>3
  <2> QED
    BY <2>1, <2>2, SeqEqual
<1> QED
  BY <1>2, <1>3
=============================================================================
