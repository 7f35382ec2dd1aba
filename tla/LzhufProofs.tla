----------------------------- MODULE LzhufProofs -----------------------------
(***************************************************************************)
(* Lzhuf for every alphabet, window and look-ahead: the adaptive trees     *)
(* stay trees, the search trees find what is in the window, and the        *)
(* decoder follows the encoder turn by turn, to the same text.             *)
(***************************************************************************)
EXTENDS Lzhuf, SubsequenceProofs, FiniteSetTheorems, FunctionTheorems

(***************************************************************************)
(* Powers of two, numbers and bits.                                        *)
(***************************************************************************)
\* The library knows 2^n as the number of subsets of a set of n elements.
LEMMA PowerNat ==
  ASSUME NEW n \in Nat
  PROVE  2^n \in Nat
<1>1. IsFiniteSet(1..n) /\ Cardinality(1..n) = n
  BY FS_Interval
<1>2. IsFiniteSet(SUBSET (1..n)) /\ Cardinality(SUBSET (1..n)) = 2^n
  BY <1>1, FS_SUBSET
<1> QED
  BY <1>2, FS_CardinalityType

LEMMA PowerZero == 2^0 = 1
OBVIOUS

LEMMA TwiceTheSubsets ==
  ASSUME NEW A, NEW x, x \notin A, IsFiniteSet(A)
  PROVE  Cardinality(SUBSET (A \cup {x})) = 2 * Cardinality(SUBSET A)
<1> DEFINE B == {S \cup {x} : S \in SUBSET A}
           C == SUBSET A
<1>1. SUBSET (A \cup {x}) = C \cup B
  <2>1. ASSUME NEW S \in SUBSET (A \cup {x}) PROVE S \in C \cup B
    <3>1. CASE x \in S
      <4>1. S \ {x} \in SUBSET A
        OBVIOUS
      <4>2. S = (S \ {x}) \cup {x}
        BY <3>1
      <4> QED
        BY <4>1, <4>2
    <3>2. CASE x \notin S
      <4>1. S \subseteq A
        BY <3>2
      <4> QED
        BY <4>1
    <3> QED
      BY <3>1, <3>2
  <2>2. ASSUME NEW S \in C \cup B PROVE S \in SUBSET (A \cup {x})
    OBVIOUS
  <2> HIDE DEF C, B
  <2> QED
    BY <2>1, <2>2
<1>2. C \cap B = {}
  <2> SUFFICES ASSUME NEW S \in C, S \in B PROVE FALSE
    OBVIOUS
  <2> QED
    OBVIOUS
<1>3. ExistsBijection(C, B)
  <2> DEFINE g == [S \in C |-> S \cup {x}]
  <2>1. g \in [C -> B]
    OBVIOUS
  <2>2. ASSUME NEW S \in C, NEW U \in C, g[S] = g[U] PROVE S = U
    <3>1. S \cup {x} = U \cup {x}
      BY <2>2
    <3>2. \A y : y \in S <=> y \in U
      BY <3>1
    <3> QED
      BY <3>2
  <2>3. \A y \in B : \E S \in C : g[S] = y
    OBVIOUS
  <2> HIDE DEF g, B, C
  <2>4. g \in Bijection(C, B)
    BY <2>1, <2>2, <2>3, Fun_IsBij
  <2> QED
    BY <2>4 DEF ExistsBijection
<1>4. IsFiniteSet(C)
  BY FS_SUBSET
<1> HIDE DEF B, C
<1>5. IsFiniteSet(B) /\ Cardinality(B) = Cardinality(C)
  BY <1>3, <1>4, FS_Bijection
<1>6. Cardinality(C \cup B) = Cardinality(C) + Cardinality(B) - Cardinality(C \cap B)
  BY <1>4, <1>5, FS_Union
<1>7. Cardinality(C \cap B) = 0 /\ Cardinality(C) \in Nat
  BY <1>2, <1>4, FS_EmptySet, FS_CardinalityType
<1>8. Cardinality(C \cup B) = 2 * Cardinality(C)
  BY <1>5, <1>6, <1>7
<1> QED
  BY <1>1, <1>8 DEF C

LEMMA PowerNext ==
  ASSUME NEW n \in Nat
  PROVE  2^(n + 1) = 2 * 2^n
<1> DEFINE A == 1..n
           x == n + 1
<1>1. IsFiniteSet(1..n) /\ Cardinality(1..n) = n
  BY FS_Interval
<1>2. n + 1 \in Int /\ IsFiniteSet(1..(n + 1)) /\ Cardinality(1..(n + 1)) = n + 1
  BY FS_Interval
<1>3. 1..(n + 1) = A \cup {x} /\ x \notin A
  OBVIOUS
<1> HIDE DEF A, x
<1>4. Cardinality(SUBSET A) = 2^n
  BY <1>1, FS_SUBSET DEF A
<1>5. Cardinality(SUBSET (A \cup {x})) = 2^(n + 1)
  BY <1>2, <1>3, FS_SUBSET
<1>6. IsFiniteSet(A)
  BY <1>1 DEF A
<1> QED
  BY <1>3, <1>4, <1>5, <1>6, TwiceTheSubsets

LEMMA PowerSum ==
  ASSUME NEW a \in Nat, NEW b \in Nat
  PROVE  2^(a + b) = 2^a * 2^b
<1> DEFINE S == {n \in Nat : 2^(a + n) = 2^a * 2^n}
<1>1. 0 \in S
  BY PowerNat
<1>2. ASSUME NEW n \in Nat, n \in S PROVE n + 1 \in S
  <2>1. 2^(a + n) = 2^a * 2^n /\ 2^(n + 1) = 2 * 2^n
    BY <1>2, PowerNext
  <2>2. 2^((a + n) + 1) = 2 * 2^(a + n)
    BY PowerNext
  <2>3. 2^a \in Nat /\ 2^n \in Nat
    BY PowerNat
  <2>4. (a + n) + 1 = a + (n + 1)
    OBVIOUS
  <2> QED
    BY <2>1, <2>2, <2>3, <2>4
<1> HIDE DEF S
<1>3. Nat \subseteq S
  BY <1>1, <1>2, NatInd
<1> QED
  BY <1>3 DEF S

LEMMA PowerPositive ==
  ASSUME NEW n \in Nat
  PROVE  2^n \in Nat /\ 2^n > 0
<1> DEFINE S == {m \in Nat : 2^m > 0}
<1>1. 0 \in S
  BY PowerZero
<1>2. ASSUME NEW m \in Nat, m \in S PROVE m + 1 \in S
  BY <1>2, PowerNext, PowerNat
<1> HIDE DEF S
<1>3. Nat \subseteq S
  BY <1>1, <1>2, NatInd
<1> QED
  BY <1>3, PowerNat DEF S

LEMMA Divides ==
  ASSUME NEW x \in Int, NEW d \in Nat, d > 0
  PROVE  /\ x = d * (x \div d) + (x % d) /\ x % d \in 0..d - 1 /\ x \div d \in Int
         /\ x \in Nat => x \div d \in Nat
OBVIOUS

LEMMA Quotient ==
  ASSUME NEW q \in Int, NEW r \in Int, NEW d \in Int, 0 <= r, r < d
  PROVE  (q * d + r) \div d = q /\ (q * d + r) % d = r
OBVIOUS

(***************************************************************************)
(* NumberOf.                                                               *)
(***************************************************************************)
Counts(bits, v) == v[0] = 0 /\ \A k \in 1..Len(bits) : v[k] = 2 * v[k - 1] + bits[k]

LEMMA NumberDef ==
  ASSUME NEW bits \in Seq(Nat)
  PROVE  \E v \in [0..Len(bits) -> Nat] : Counts(bits, v) /\ NumberOf(bits) = v[Len(bits)]
<1> DEFINE n == Len(bits)
           h == [k \in 1..n |-> [x \in Nat |-> 2 * x + bits[k]]]
           body(v) == [k \in 0..n |-> IF k = 0 THEN 0 ELSE 2 * v[k - 1] + bits[k]]
           value == CHOOSE v : v = body(v)
<1>1. n \in Nat /\ \A k \in 1..n : bits[k] \in Nat
  OBVIOUS
<1>2. PICK v \in [0..n -> Nat] : Recurses(v, n, 0, h)
  <2>1. h \in [1..n -> [Nat -> Nat]]
    BY <1>1
  <2> HIDE DEF h, n
  <2> QED
    BY <1>1, <2>1, Recursion
<1>3. \A k \in 1..n : v[k] = 2 * v[k - 1] + bits[k]
  <2> SUFFICES ASSUME NEW k \in 1..n PROVE v[k] = 2 * v[k - 1] + bits[k]
    OBVIOUS
  <2>1. v[k - 1] \in Nat /\ v[k] = h[k][v[k - 1]]
    <3> HIDE DEF h, n
    <3>1. k - 1 \in 0..n
      BY <1>1
    <3>2. v[k] = h[k][v[k - 1]]
      BY <1>2, Zenon DEF Recurses
    <3> QED
      BY <1>2, <3>1, <3>2
  <2> QED
    BY <2>1
<1> HIDE DEF n
<1>4. v = body(v)
  BY <1>1, <1>2, <1>3 DEF Recurses
<1>5. value = body(value)
  <2> HIDE DEF body
  <2> QED
    BY <1>4, Zenon
<1> HIDE DEF value
<1>6. value[0] = 0 /\ \A k \in 1..n : value[k] = 2 * value[k - 1] + bits[k]
  BY <1>1, <1>5
<1> DEFINE S == {k \in Nat : k <= n => value[k] \in Nat}
<1>7. 0 \in S
  BY <1>6
<1>8. ASSUME NEW k \in Nat, k \in S PROVE k + 1 \in S
  <2> SUFFICES ASSUME k + 1 <= n PROVE value[k + 1] \in Nat
    OBVIOUS
  <2>1. k + 1 \in 1..n /\ (k + 1) - 1 = k /\ value[k] \in Nat
    BY <1>1, <1>8
  <2>2. value[k + 1] = 2 * value[k] + bits[k + 1]
    BY <1>6, <2>1, Zenon
  <2> QED
    BY <1>1, <2>1, <2>2, SMTT(30)
<1> HIDE DEF S
<1>9. Nat \subseteq S
  BY <1>7, <1>8, NatInd
<1>10. value \in [0..n -> Nat]
  <2>1. \A k \in 0..n : value[k] \in Nat
    BY <1>1, <1>9 DEF S
  <2>2. value = [k \in 0..n |-> value[k]]
    BY <1>5
  <2> QED
    BY <2>1, <2>2
<1>11. NumberOf(bits) = value[n]
  BY DEF NumberOf, n, value
<1> QED
  BY <1>6, <1>10, <1>11 DEF Counts, n

\* A number is what its bits before the last one make, twice, and the last one.
LEMMA NumberEmpty == NumberOf(<<>>) = 0
<1>1. <<>> \in Seq(Nat) /\ Len(<<>>) = 0
  OBVIOUS
<1> QED
  BY <1>1, NumberDef DEF Counts

LEMMA CountsUnique ==
  ASSUME NEW bits, NEW other, NEW n \in Nat, NEW v, NEW w, Counts(bits, v), Counts(other, w),
         Len(bits) \in Nat, Len(other) \in Nat, n <= Len(bits), n <= Len(other),
         \A k \in 1..n : bits[k] = other[k]
  PROVE  v[n] = w[n]
<1> DEFINE S == {k \in Nat : k <= n => v[k] = w[k]}
<1>1. 0 \in S
  BY DEF Counts
<1>2. ASSUME NEW k \in Nat, k \in S PROVE k + 1 \in S
  <2> SUFFICES ASSUME k + 1 <= n PROVE v[k + 1] = w[k + 1]
    OBVIOUS
  <2>1. k + 1 \in 1..n /\ k + 1 \in 1..Len(bits) /\ k + 1 \in 1..Len(other) /\ (k + 1) - 1 = k
    OBVIOUS
  <2>2. v[k] = w[k]
    BY <1>2
  <2>3. v[k + 1] = 2 * v[k] + bits[k + 1]
    BY <2>1, Zenon DEF Counts
  <2>4. w[k + 1] = 2 * w[k] + other[k + 1]
    BY <2>1, Zenon DEF Counts
  <2> QED
    BY <2>1, <2>2, <2>3, <2>4, Zenon
<1> HIDE DEF S
<1>3. Nat \subseteq S
  BY <1>1, <1>2, NatInd
<1> QED
  BY <1>3 DEF S

LEMMA NumberAppend ==
  ASSUME NEW bits \in Seq(Nat), NEW b \in Nat
  PROVE  NumberOf(bits) \in Nat /\ NumberOf(Append(bits, b)) = 2 * NumberOf(bits) + b
<1> DEFINE all == Append(bits, b)
           n == Len(bits)
<1>1. /\ all \in Seq(Nat) /\ n \in Nat /\ Len(all) = n + 1
      /\ \A k \in 1..n : bits[k] = all[k]
      /\ all[n + 1] = b
  OBVIOUS
<1>2. PICK v \in [0..Len(bits) -> Nat] : Counts(bits, v) /\ NumberOf(bits) = v[Len(bits)]
  BY NumberDef
<1>3. NumberOf(bits) = v[n] /\ v[n] \in Nat
  BY <1>1, <1>2
<1> HIDE DEF all, n
<1>4. PICK w \in [0..Len(all) -> Nat] : Counts(all, w) /\ NumberOf(all) = w[Len(all)]
  BY <1>1, NumberDef
<1>5. v[n] = w[n]
  <2>1. Len(bits) = n
    BY DEF n
  <2>2. Counts(bits, v) /\ Counts(all, w)
    BY <1>2, <1>4
  <2>3. Len(bits) \in Nat /\ Len(all) \in Nat /\ n <= Len(bits) /\ n <= Len(all)
    BY <1>1, <2>1
  <2>4. n \in Nat /\ \A k \in 1..n : bits[k] = all[k]
    BY <1>1
  <2> QED
    BY <2>2, <2>3, <2>4, CountsUnique, SMTT(30)
<1>6. w[n + 1] = 2 * w[n] + all[n + 1]
  <2>1. n + 1 \in 1..Len(all) /\ (n + 1) - 1 = n
    BY <1>1
  <2> QED
    BY <1>4, <2>1, Zenon DEF Counts
<1>7. NumberOf(all) = 2 * NumberOf(bits) + b
  BY <1>1, <1>3, <1>4, <1>5, <1>6
<1> QED
  BY <1>3, <1>7 DEF all

LEMMA NumberConcat ==
  ASSUME NEW a \in Seq(Nat), NEW b \in Seq(Nat)
  PROVE  NumberOf(a \o b) = NumberOf(a) * 2^Len(b) + NumberOf(b)
<1> DEFINE P == {s \in Seq(Nat) : NumberOf(a \o s) = NumberOf(a) * 2^Len(s) + NumberOf(s)}
<1>1. <<>> \in P
  <2>1. a \o <<>> = a /\ <<>> \in Seq(Nat) /\ Len(<<>>) = 0
    OBVIOUS
  <2>2. NumberOf(a) \in Nat
    BY NumberAppend, 0 \in Nat
  <2>3. NumberOf(a \o <<>>) = NumberOf(a)
    BY <2>1, Zenon
  <2>4. 2^Len(<<>>) = 1
    BY <2>1, PowerZero
  <2> QED
    BY <2>1, <2>2, <2>3, <2>4, NumberEmpty
<1>2. ASSUME NEW s \in Seq(Nat), NEW x \in Nat, s \in P PROVE Append(s, x) \in P
  <2>1. NumberOf(a \o s) = NumberOf(a) * 2^Len(s) + NumberOf(s)
    BY <1>2
  <2>2. a \o Append(s, x) = Append(a \o s, x) /\ a \o s \in Seq(Nat)
    OBVIOUS
  <2>3. NumberOf(a \o Append(s, x)) = 2 * NumberOf(a \o s) + x
    BY <2>2, NumberAppend
  <2>4. NumberOf(Append(s, x)) = 2 * NumberOf(s) + x /\ NumberOf(s) \in Nat /\ NumberOf(a) \in Nat
    BY NumberAppend
  <2>5. Len(Append(s, x)) = Len(s) + 1 /\ Len(s) \in Nat
    OBVIOUS
  <2>6. 2^Len(Append(s, x)) = 2 * 2^Len(s) /\ 2^Len(s) \in Nat
    BY <2>5, PowerNext, PowerNat
  <2>7. Append(s, x) \in Seq(Nat)
    OBVIOUS
  <2> QED
    BY <2>1, <2>3, <2>4, <2>6, <2>7
<1> HIDE DEF P
<1>3. Seq(Nat) \subseteq P
  BY <1>1, <1>2, SeqInd
<1> QED
  BY <1>3 DEF P

Bits == {0, 1}

LEMMA NumberBound ==
  ASSUME NEW bits \in Seq(Bits)
  PROVE  bits \in Seq(Nat) /\ NumberOf(bits) \in 0..2^Len(bits) - 1
<1> DEFINE P == {s \in Seq(Bits) : s \in Seq(Nat) /\ NumberOf(s) \in Nat
                                     /\ NumberOf(s) < 2^Len(s)}
<1>1. <<>> \in P
  <2>1. <<>> \in Seq(Bits) /\ <<>> \in Seq(Nat) /\ Len(<<>>) = 0
    OBVIOUS
  <2>2. 2^Len(<<>>) = 1
    BY <2>1, PowerZero
  <2> QED
    BY <2>1, <2>2, NumberEmpty
<1>2. ASSUME NEW s \in Seq(Bits), NEW x \in Bits, s \in P PROVE Append(s, x) \in P
  <2>1. s \in Seq(Nat) /\ NumberOf(s) \in Nat /\ NumberOf(s) < 2^Len(s)
    BY <1>2
  <2>2. x \in Nat /\ x <= 1
    BY DEF Bits
  <2>3. NumberOf(Append(s, x)) = 2 * NumberOf(s) + x
    BY <2>1, <2>2, NumberAppend
  <2>5. Len(Append(s, x)) = Len(s) + 1 /\ Len(s) \in Nat
    OBVIOUS
  <2>6. 2^Len(Append(s, x)) = 2 * 2^Len(s) /\ 2^Len(s) \in Nat
    BY <2>5, PowerNext, PowerNat
  <2>7. Append(s, x) \in Seq(Nat) /\ Append(s, x) \in Seq(Bits)
    BY <2>1, <2>2
  <2> QED
    BY <2>1, <2>2, <2>3, <2>6, <2>7
<1> HIDE DEF P
<1>3. Seq(Bits) \subseteq P
  BY <1>1, <1>2, SeqInd
<1>4. bits \in P /\ Len(bits) \in Nat
  BY <1>3
<1> QED
  BY <1>4, PowerNat DEF P

(***************************************************************************)
(* BitsOf.                                                                 *)
(***************************************************************************)
LEMMA BitsType ==
  ASSUME NEW x \in Nat, NEW w \in Nat
  PROVE  /\ BitsOf(x, w) \in Seq(Bits) /\ Len(BitsOf(x, w)) = w
         /\ \A k \in 1..w : BitsOf(x, w)[k] = (x \div 2^(w - k)) % 2
<1>1. ASSUME NEW k \in 1..w PROVE (x \div 2^(w - k)) % 2 \in Bits
  <2>1. w - k \in Nat
    OBVIOUS
  <2>2. 2^(w - k) \in Nat /\ 2^(w - k) > 0
    BY <2>1, PowerPositive
  <2>3. x \div 2^(w - k) \in Nat
    BY <2>2, Divides
  <2> QED
    BY <2>3 DEF Bits
<1> QED
  BY <1>1 DEF BitsOf

\* The bits of x before its last one are those of half of it.
LEMMA BitsNext ==
  ASSUME NEW x \in Nat, NEW w \in Nat
  PROVE  BitsOf(x, w + 1) = Append(BitsOf(x \div 2, w), x % 2)
<1> DEFINE h == x \div 2
           a == BitsOf(x, w + 1)
           b == Append(BitsOf(h, w), x % 2)
<1>1. h \in Nat /\ x % 2 \in Bits /\ w + 1 \in Nat
  BY DEF Bits
<1>2. /\ a \in Seq(Bits) /\ Len(a) = w + 1
      /\ \A k \in 1..w + 1 : a[k] = (x \div 2^((w + 1) - k)) % 2
  <2> DEFINE u == w + 1
  <2>1. u \in Nat
    BY <1>1
  <2> HIDE DEF u
  <2>2. /\ BitsOf(x, u) \in Seq(Bits) /\ Len(BitsOf(x, u)) = u
        /\ \A k \in 1..u : BitsOf(x, u)[k] = (x \div 2^(u - k)) % 2
    BY <2>1, BitsType
  <2> QED
    BY <2>2, Zenon DEF u
<1>3. /\ BitsOf(h, w) \in Seq(Bits) /\ Len(BitsOf(h, w)) = w
      /\ \A k \in 1..w : BitsOf(h, w)[k] = (h \div 2^(w - k)) % 2
  <2> HIDE DEF h
  <2> QED
    BY <1>1, BitsType
<1>4. /\ b \in Seq(Bits) /\ Len(b) = w + 1 /\ b[w + 1] = x % 2
      /\ \A k \in 1..w : b[k] = (h \div 2^(w - k)) % 2
  <2> HIDE DEF h
  <2> QED
    BY <1>1, <1>3
<1>5. ASSUME NEW k \in 1..w PROVE a[k] = b[k]
  <2> DEFINE p == 2^(w - k)
  <2>1. w - k \in Nat /\ (w + 1) - k = (w - k) + 1 /\ k \in 1..w + 1
    OBVIOUS
  <2>2. 2^((w + 1) - k) = 2 * p /\ p \in Nat /\ p > 0
    BY <2>1, PowerNext, PowerPositive
  <2>3. a[k] = (x \div (2 * p)) % 2 /\ b[k] = (h \div p) % 2
    BY <1>2, <1>4, <2>1, <2>2
  <2> HIDE DEF p
  <2>4. x \div (2 * p) = h \div p
    <3> DEFINE q == h \div p
               r == h % p
               e == x % 2
    <3>1. h = p * q + r /\ r \in 0..p - 1 /\ q \in Int
      <4> HIDE DEF h
      <4> QED
        BY <1>1, <2>2, Divides
    <3>2. x = 2 * h + e /\ e \in 0..1
      OBVIOUS
    <3> HIDE DEF q, r, e, h
    <3>3. x = q * (2 * p) + (2 * r + e)
      BY <2>2, <3>1, <3>2
    <3>4. 0 <= 2 * r + e /\ 2 * r + e < 2 * p /\ 2 * r + e \in Int /\ 2 * p \in Int
      BY <2>2, <3>1, <3>2
    <3>5. (q * (2 * p) + (2 * r + e)) \div (2 * p) = q
      BY <3>1, <3>4, Quotient
    <3> QED
      BY <3>3, <3>5 DEF q
  <2> QED
    BY <2>3, <2>4
<1>6. a[w + 1] = b[w + 1]
  <2>1. w + 1 \in 1..w + 1 /\ (w + 1) - (w + 1) = 0
    OBVIOUS
  <2>2. a[w + 1] = (x \div 2^0) % 2
    BY <1>2, <2>1
  <2>3. x \div 1 = x
    OBVIOUS
  <2> QED
    BY <1>4, <2>2, <2>3, PowerZero
<1> HIDE DEF a, b
<1>7. \A k \in 1..w + 1 : a[k] = b[k]
  BY <1>5, <1>6
<1>8. a = b
  BY <1>2, <1>4, <1>7, SeqEqual
<1> QED
  BY <1>8 DEF a, b

LEMMA NumberOfBits ==
  ASSUME NEW w \in Nat
  PROVE  \A x \in Nat : NumberOf(BitsOf(x, w)) = x % 2^w
<1> DEFINE S == {n \in Nat : \A x \in Nat : NumberOf(BitsOf(x, n)) = x % 2^n}
<1>1. 0 \in S
  <2> SUFFICES ASSUME NEW x \in Nat PROVE NumberOf(BitsOf(x, 0)) = x % 2^0
    OBVIOUS
  <2>1. BitsOf(x, 0) = <<>>
    BY BitsType
  <2>2. x % 1 = 0
    OBVIOUS
  <2> QED
    BY <2>1, <2>2, NumberEmpty, PowerZero
<1>2. ASSUME NEW n \in Nat, n \in S PROVE n + 1 \in S
  <2> SUFFICES ASSUME NEW x \in Nat PROVE NumberOf(BitsOf(x, n + 1)) = x % 2^(n + 1)
    OBVIOUS
  <2> DEFINE h == x \div 2
             e == x % 2
             p == 2^n
             r == h % p
             q == h \div p
  <2>1. h \in Nat /\ e \in Nat /\ e <= 1 /\ x = 2 * h + e
    OBVIOUS
  <2> HIDE DEF h, e
  <2>2. BitsOf(h, n) \in Seq(Nat)
    BY <2>1, BitsType, NumberBound
  <2>3. NumberOf(Append(BitsOf(h, n), e)) = 2 * NumberOf(BitsOf(h, n)) + e
    BY <2>1, <2>2, NumberAppend
  <2>4. NumberOf(BitsOf(h, n)) = r
    BY <1>2, <2>1
  <2>5. BitsOf(x, n + 1) = Append(BitsOf(h, n), e)
    BY BitsNext DEF h, e
  <2>6. p \in Nat /\ p > 0 /\ 2^(n + 1) = 2 * p
    BY PowerPositive, PowerNext
  <2> HIDE DEF p
  <2>7. h = p * q + r /\ r \in 0..p - 1 /\ q \in Int
    BY <2>1, <2>6, Divides
  <2> HIDE DEF q, r
  <2>8. x = q * (2 * p) + (2 * r + e)
    BY <2>1, <2>6, <2>7
  <2>9. 0 <= 2 * r + e /\ 2 * r + e < 2 * p /\ 2 * r + e \in Int /\ 2 * p \in Int
    BY <2>1, <2>6, <2>7
  <2>10. (q * (2 * p) + (2 * r + e)) % (2 * p) = 2 * r + e
    BY <2>7, <2>9, Quotient
  <2> QED
    BY <2>3, <2>4, <2>5, <2>6, <2>8, <2>10
<1> HIDE DEF S
<1>3. Nat \subseteq S
  BY <1>1, <1>2, NatInd
<1> QED
  BY <1>3 DEF S

(***************************************************************************)
(* Positions.                                                              *)
(***************************************************************************)
\* The bits of s are in a sequence of bits from place i on.
Holds(bits, i, s) == \A k \in 1..Len(s) : Bit(bits, i + k - 1) = s[k]

LEMMA BitType ==
  ASSUME NEW bits \in Seq(Bits), NEW i \in Nat, i > 0
  PROVE  Bit(bits, i) \in Bits
BY DEF Bit, Bits

LEMMA BitsAtType ==
  ASSUME NEW bits \in Seq(Bits), NEW i \in Nat, i > 0, NEW n \in Nat
  PROVE  /\ BitsAt(bits, i, n) \in Seq(Bits) /\ Len(BitsAt(bits, i, n)) = n
         /\ \A k \in 1..n : BitsAt(bits, i, n)[k] = Bit(bits, i + k - 1)
<1>1. ASSUME NEW k \in 1..n PROVE Bit(bits, i + k - 1) \in Bits
  <2>1. i + k - 1 \in Nat /\ i + k - 1 > 0
    OBVIOUS
  <2> QED
    BY <2>1, BitType
<1> QED
  BY <1>1 DEF BitsAt

LEMMA BitsAtHeld ==
  ASSUME NEW bits \in Seq(Bits), NEW i \in Nat, i > 0, NEW s \in Seq(Bits), Holds(bits, i, s)
  PROVE  BitsAt(bits, i, Len(s)) = s
<1> DEFINE n == Len(s)
           a == BitsAt(bits, i, n)
<1>1. n \in Nat
  OBVIOUS
<1>2. /\ a \in Seq(Bits) /\ Len(a) = n
      /\ \A k \in 1..n : a[k] = Bit(bits, i + k - 1)
  <2> HIDE DEF n
  <2> QED
    BY <1>1, BitsAtType
<1>3. \A k \in 1..n : Bit(bits, i + k - 1) = s[k]
  BY DEF Holds
<1> HIDE DEF a
<1>4. \A k \in 1..n : a[k] = s[k]
  BY <1>2, <1>3, Zenon
<1>5. a = s
  BY <1>2, <1>4, SeqEqual
<1> QED
  BY <1>5 DEF a

\* The first bits are s, and others follow.
LEMMA BitsAtBegins ==
  ASSUME NEW bits \in Seq(Bits), NEW i \in Nat, i > 0, NEW s \in Seq(Bits), Holds(bits, i, s),
         NEW n \in Nat, Len(s) <= n
  PROVE  \E t \in Seq(Bits) : Len(t) = n - Len(s) /\ BitsAt(bits, i, n) = s \o t
<1> DEFINE a == BitsAt(bits, i, n)
           m == Len(s)
           t == BitsAt(bits, i + m, n - m)
<1>1. m \in Nat /\ n - m \in Nat /\ i + m \in Nat /\ i + m > 0
  OBVIOUS
<1> HIDE DEF m
<1>2. /\ a \in Seq(Bits) /\ Len(a) = n
      /\ \A k \in 1..n : a[k] = Bit(bits, i + k - 1)
  BY BitsAtType
<1>3. /\ t \in Seq(Bits) /\ Len(t) = n - m
      /\ \A k \in 1..(n - m) : t[k] = Bit(bits, (i + m) + k - 1)
  BY <1>1, BitsAtType
<1>4. \A k \in 1..m : Bit(bits, i + k - 1) = s[k]
  BY DEF Holds, m
<1> HIDE DEF a, t
<1>5. s \o t \in Seq(Bits) /\ Len(s \o t) = n
  BY <1>1, <1>3 DEF m
<1>6. ASSUME NEW k \in 1..n PROVE a[k] = (s \o t)[k]
  <2>1. CASE k <= m
    <3>1. (s \o t)[k] = s[k]
      BY <1>1, <1>3, <2>1 DEF m
    <3> QED
      BY <1>1, <1>2, <1>4, <2>1, <3>1
  <2>2. CASE k > m
    <3>1. k - m \in 1..(n - m) /\ (i + m) + (k - m) - 1 = i + k - 1
      BY <1>1, <2>2
    <3>2. (s \o t)[k] = t[k - m]
      BY <1>1, <1>3, <2>2 DEF m
    <3>3. t[k - m] = Bit(bits, (i + m) + (k - m) - 1)
      BY <1>3, <3>1
    <3> QED
      BY <1>2, <3>1, <3>2, <3>3
  <2>3. k <= m \/ k > m
    BY <1>1
  <2> QED
    BY <2>1, <2>2, <2>3
<1>7. a = s \o t
  BY <1>2, <1>5, <1>6, SeqEqual
<1> QED
  BY <1>3, <1>7 DEF a, m

\* The positions that the tables can express: what is above the lower six bits of
\* one has six bits too.
Upper == 0..63

LEMMA Tables ==
  ASSUME NEW p \in Upper
  PROVE  /\ P_LEN(p) \in 3..8
         /\ P_CODE(p) \div 2^(8 - P_LEN(p)) \in 0..2^P_LEN(p) - 1
         /\ \A r \in 0..2^(8 - P_LEN(p)) - 1 :
              /\ D_LEN((P_CODE(p) \div 2^(8 - P_LEN(p))) * 2^(8 - P_LEN(p)) + r) = P_LEN(p)
              /\ D_CODE((P_CODE(p) \div 2^(8 - P_LEN(p))) * 2^(8 - P_LEN(p)) + r) = p
<1>1. CASE p = 0
  <2>1. P_LEN(p) = 3 /\ P_CODE(p) = 0 /\ 8 - 3 = 5 /\ 2^5 = 32 /\ 2^3 = 8
    BY <1>1 DEF P_LEN, P_CODE
  <2>2. 0 \div 32 = 0 /\ \A r \in 0..31 : 0 * 32 + r = r
    OBVIOUS
  <2>3. \A r \in 0..31 : D_LEN(r) = 3 /\ D_CODE(r) = 0
    BY DEF D_LEN, D_CODE
  <2>4. P_CODE(p) \div 2^(8 - P_LEN(p)) = 0 /\ 2^(8 - P_LEN(p)) = 32
    BY <2>1, <2>2
  <2>5. \A r \in 0..31 : D_LEN(0 * 32 + r) = 3 /\ D_CODE(0 * 32 + r) = 0
    BY <2>2, <2>3
  <2>7. 2^P_LEN(p) = 8 /\ P_CODE(p) \div 2^(8 - P_LEN(p)) \in 0..2^P_LEN(p) - 1
    BY <2>1, <2>4
  <2>6. ASSUME NEW r \in 0..2^(8 - P_LEN(p)) - 1
        PROVE  (P_CODE(p) \div 2^(8 - P_LEN(p))) * 2^(8 - P_LEN(p)) + r \in 0..31
    BY <2>4
  <2> QED
    BY <1>1, <2>1, <2>3, <2>5, <2>6, <2>7
<1>2. CASE p \in 1..3
  <2>1. P_LEN(p) = 4 /\ P_CODE(p) = 16 + 16 * p /\ 8 - 4 = 4 /\ 2^4 = 16
    BY <1>2 DEF P_LEN, P_CODE
  <2>2. (16 + 16 * p) \div 16 = 1 + p
    BY <1>2
  <2> QED
    BY <1>2, <2>1, <2>2 DEF D_LEN, D_CODE
<1>3. CASE p \in 4..11
  <2>1. P_LEN(p) = 5 /\ P_CODE(p) = 48 + 8 * p /\ 8 - 5 = 3 /\ 2^3 = 8 /\ 2^5 = 32
    BY <1>3 DEF P_LEN, P_CODE
  <2>2. (48 + 8 * p) \div 8 = 6 + p
    BY <1>3
  <2> QED
    BY <1>3, <2>1, <2>2 DEF D_LEN, D_CODE
<1>4. CASE p \in 12..23
  <2>1. P_LEN(p) = 6 /\ P_CODE(p) = 96 + 4 * p /\ 8 - 6 = 2 /\ 2^2 = 4 /\ 2^6 = 64
    BY <1>4 DEF P_LEN, P_CODE
  <2>2. (96 + 4 * p) \div 4 = 24 + p
    BY <1>4
  <2> QED
    BY <1>4, <2>1, <2>2 DEF D_LEN, D_CODE
<1>5. CASE p \in 24..47
  <2>1. P_LEN(p) = 7 /\ P_CODE(p) = 144 + 2 * p /\ 8 - 7 = 1 /\ 2^1 = 2 /\ 2^7 = 128
    BY <1>5 DEF P_LEN, P_CODE
  <2>2. (144 + 2 * p) \div 2 = 72 + p
    BY <1>5
  <2> QED
    BY <1>5, <2>1, <2>2 DEF D_LEN, D_CODE
<1>6. CASE p \in 48..63
  <2>1. P_LEN(p) = 8 /\ P_CODE(p) = 192 + p /\ 8 - 8 = 0 /\ 2^0 = 1 /\ 2^8 = 256
    BY <1>6 DEF P_LEN, P_CODE
  <2> QED
    BY <1>6, <2>1 DEF D_LEN, D_CODE
<1> QED
  BY <1>1, <1>2, <1>3, <1>4, <1>5, <1>6 DEF Upper

\* A byte that begins with the l bits of x is looked up as one of a code of l bits
\* that stands for q.
LooksUp(q, l, g, x) ==
  /\ g = 2^(8 - l) /\ x < 2^l
  /\ \A u \in 0..g - 1 : D_LEN(x * g + u) = l /\ D_CODE(x * g + u) = q

\* A code of l bits and six bits more are decoded to what the tables have for every
\* byte that begins with the code.
LEMMA CodeDecodes ==
  ASSUME NEW l \in 3..8, NEW g, NEW x \in Nat, NEW r \in Upper, NEW q,
         NEW bits \in Seq(Bits), NEW i \in Nat, i > 0,
         Holds(bits, i, BitsOf(x, l) \o BitsOf(r, 6)),
         LooksUp(q, l, g, x)
  PROVE  /\ BitsOf(x, l) \o BitsOf(r, 6) \in Seq(Bits)
         /\ Len(BitsOf(x, l) \o BitsOf(r, 6)) = l + 6
         /\ DecodePosition(bits, i) = [value |-> 64 * q + r, width |-> l + 6]
<1> DEFINE hi == BitsOf(x, l)
           lo == BitsOf(r, 6)
           e == hi \o lo
<1>0. g = 2^(8 - l) /\ x < 2^l
  BY DEF LooksUp
<1>1. l \in Nat /\ 2^l \in Nat /\ 8 - l \in Nat /\ g \in Nat /\ g > 0 /\ r \in Nat /\ 6 \in Nat
  <2>1. l \in Nat /\ 8 - l \in Nat /\ r \in Nat /\ 6 \in Nat
    BY DEF Upper
  <2> QED
    BY <1>0, <2>1, PowerPositive
<1>2. hi \in Seq(Bits) /\ Len(hi) = l
  BY <1>1, BitsType
<1>3. lo \in Seq(Bits) /\ Len(lo) = 6
  BY <1>1, BitsType
<1>4. NumberOf(hi) = x % 2^l /\ NumberOf(lo) = r % 2^6
  BY <1>1, NumberOfBits
<1>5. NumberOf(hi) = x /\ NumberOf(lo) = r
  BY <1>0, <1>1, <1>4 DEF Upper
<1>6. Holds(bits, i, e)
  OBVIOUS
<1> HIDE DEF hi, lo
<1>7. e \in Seq(Bits) /\ Len(e) = l + 6
  <2>1. e \in Seq(Bits) /\ Len(e) = Len(hi) + Len(lo)
    BY <1>2, <1>3, ConcatProperties
  <2> HIDE DEF e
  <2> QED
    BY <1>2, <1>3, <2>1
<1>8. Holds(bits, i, hi)
  <2>1. \A k \in 1..l : k \in 1..(l + 6) /\ e[k] = hi[k]
    BY <1>1, <1>2, <1>3
  <2> HIDE DEF e
  <2>2. \A k \in 1..l : Bit(bits, i + k - 1) = hi[k]
    BY <1>6, <1>7, <2>1 DEF Holds
  <2> QED
    BY <1>2, <2>2 DEF Holds
<1>9. NumberOf(e) = x * 64 + r
  <2>1. hi \in Seq(Nat) /\ lo \in Seq(Nat)
    BY <1>2, <1>3, NumberBound
  <2>2. NumberOf(hi \o lo) = NumberOf(hi) * 2^Len(lo) + NumberOf(lo)
    BY <2>1, NumberConcat
  <2>3. 2^6 = 64
    OBVIOUS
  <2> QED
    BY <1>3, <1>5, <2>2, <2>3
<1> HIDE DEF e
<1>10. BitsAt(bits, i, l + 6) = e
  BY <1>6, <1>7, BitsAtHeld
<1>11. PICK t \in Seq(Bits) : Len(t) = 8 - l /\ BitsAt(bits, i, 8) = hi \o t
  <2>1. l <= 8 /\ 8 \in Nat /\ Len(hi) <= 8
    BY <1>2
  <2>2. \E t \in Seq(Bits) : Len(t) = 8 - Len(hi) /\ BitsAt(bits, i, 8) = hi \o t
    BY <1>2, <1>8, <2>1, BitsAtBegins
  <2> QED
    BY <1>2, <2>2
<1> DEFINE b == NumberOf(BitsAt(bits, i, 8))
<1>12. b = x * g + NumberOf(t) /\ NumberOf(t) \in 0..g - 1
  <2>1. hi \in Seq(Nat) /\ t \in Seq(Nat) /\ NumberOf(t) \in 0..2^Len(t) - 1
    BY <1>2, NumberBound
  <2>2. NumberOf(hi \o t) = NumberOf(hi) * 2^Len(t) + NumberOf(t)
    BY <2>1, NumberConcat
  <2>3. 2^Len(t) = g
    BY <1>0, <1>11
  <2> QED
    BY <1>5, <1>11, <2>1, <2>2, <2>3
<1> HIDE DEF b
<1>13. D_LEN(b) = l /\ D_CODE(b) = q
  BY <1>12 DEF LooksUp
<1>14. PositionTail(b) = l - 2 /\ 8 + (l - 2) = l + 6
  BY <1>13 DEF PositionTail
<1>15. (x * 64 + r) % 64 = r
  <2>1. x \in Int /\ r \in Int /\ 64 \in Int /\ 0 <= r /\ r < 64
    BY DEF Upper
  <2> QED
    BY <2>1
<1>16. DecodePosition(bits, i) = [value |-> 64 * q + r, width |-> l + 6]
  <2>1. DecodePosition(bits, i)
          = [value |-> 64 * D_CODE(b) + (NumberOf(BitsAt(bits, i, 8 + PositionTail(b))) % 64),
             width |-> 8 + PositionTail(b)]
    BY DEF DecodePosition, b
  <2> QED
    BY <1>9, <1>10, <1>13, <1>14, <1>15, <2>1
<1> QED
  BY <1>7, <1>16 DEF e, hi, lo

\* The bits of a position: a code for the upper ones, and the lower ones.
LEMMA PositionParts ==
  ASSUME NEW p \in Positions
  PROVE  \E q \in Upper, r \in Upper, l \in 3..8, g \in Int, x \in Nat :
           /\ p = 64 * q + r /\ LooksUp(q, l, g, x)
           /\ EncodePosition(p) = BitsOf(x, l) \o BitsOf(r, 6)
<1>1. p \div 64 \in Upper /\ p % 64 \in Upper /\ p = 64 * (p \div 64) + (p % 64)
  BY DEF Positions, Upper
<1>2. PICK q \in Upper : q = p \div 64
  BY <1>1
<1>3. PICK r \in Upper : r = p % 64
  BY <1>1
<1>4. /\ P_LEN(q) \in 3..8
      /\ P_CODE(q) \div 2^(8 - P_LEN(q)) \in 0..2^P_LEN(q) - 1
      /\ \A u \in 0..2^(8 - P_LEN(q)) - 1 :
           /\ D_LEN((P_CODE(q) \div 2^(8 - P_LEN(q))) * 2^(8 - P_LEN(q)) + u) = P_LEN(q)
           /\ D_CODE((P_CODE(q) \div 2^(8 - P_LEN(q))) * 2^(8 - P_LEN(q)) + u) = q
  BY Tables
<1>5. PICK l \in 3..8 : l = P_LEN(q)
  BY <1>4
<1>6. PICK g : g = 2^(8 - l)
  OBVIOUS
<1>7. PICK x : x = P_CODE(q) \div g
  OBVIOUS
<1>8. x \in 0..2^l - 1 /\ \A u \in 0..g - 1 : D_LEN(x * g + u) = l /\ D_CODE(x * g + u) = q
  BY <1>4, <1>5, <1>6, <1>7, Zenon
<1>9. x \in Nat /\ x < 2^l
  <2>1. l \in Nat
    OBVIOUS
  <2> QED
    BY <1>8, <2>1, PowerNat
<1>10. EncodePosition(p) = BitsOf(x, l) \o BitsOf(r, 6)
  BY <1>2, <1>3, <1>5, <1>6, <1>7, Zenon DEF EncodePosition
<1>11. g \in Int
  BY <1>5, <1>6, PowerNat
<1>12. LooksUp(q, l, g, x)
  BY <1>6, <1>8, <1>9 DEF LooksUp
<1>13. p = 64 * q + r
  BY <1>1, <1>2, <1>3
<1> QED
  BY <1>9, <1>10, <1>11, <1>12, <1>13, Zenon

LEMMA PositionBits ==
  ASSUME NEW p \in Positions
  PROVE  EncodePosition(p) \in Seq(Bits)
<1>1. PICK q \in Upper, r \in Upper, l \in 3..8, g \in Int, x \in Nat :
        EncodePosition(p) = BitsOf(x, l) \o BitsOf(r, 6)
  BY PositionParts, Zenon
<1>2. r \in Nat /\ l \in Nat /\ 6 \in Nat
  BY DEF Upper
<1>3. BitsOf(x, l) \in Seq(Bits) /\ BitsOf(r, 6) \in Seq(Bits)
  BY <1>2, BitsType
<1> QED
  BY <1>1, <1>3, ConcatProperties

\* A position is decoded to itself, and no further than to its last bit, whatever
\* is before and after it.
LEMMA PositionDecodes ==
  ASSUME NEW p \in Positions, NEW bits \in Seq(Bits), NEW i \in Nat, i > 0,
         Holds(bits, i, EncodePosition(p))
  PROVE  DecodePosition(bits, i) = [value |-> p, width |-> Len(EncodePosition(p))]
<1>1. PICK q \in Upper, r \in Upper, l \in 3..8, g \in Int, x \in Nat :
        /\ p = 64 * q + r /\ LooksUp(q, l, g, x)
        /\ EncodePosition(p) = BitsOf(x, l) \o BitsOf(r, 6)
  BY PositionParts, Zenon
<1>2. Holds(bits, i, BitsOf(x, l) \o BitsOf(r, 6))
  BY <1>1, Zenon
<1>3. /\ Len(BitsOf(x, l) \o BitsOf(r, 6)) = l + 6
      /\ DecodePosition(bits, i) = [value |-> 64 * q + r, width |-> l + 6]
  BY <1>1, <1>2, CodeDecodes, SMTT(30)
<1> QED
  BY <1>1, <1>3, Zenon

(***************************************************************************)
(* Sums.                                                                   *)
(***************************************************************************)
Total(s) ==
  LET value[k \in 0..Len(s)] == IF k = 0 THEN 0 ELSE value[k - 1] + s[k]
  IN  value[Len(s)]

Sums(s, v) == v[0] = 0 /\ \A k \in 1..Len(s) : v[k] = v[k - 1] + s[k]

LEMMA TotalDef ==
  ASSUME NEW s \in Seq(Nat)
  PROVE  \E v \in [0..Len(s) -> Nat] : Sums(s, v) /\ Total(s) = v[Len(s)]
<1> DEFINE n == Len(s)
           h == [k \in 1..n |-> [x \in Nat |-> x + s[k]]]
           body(v) == [k \in 0..n |-> IF k = 0 THEN 0 ELSE v[k - 1] + s[k]]
           value == CHOOSE v : v = body(v)
<1>1. n \in Nat /\ \A k \in 1..n : s[k] \in Nat
  OBVIOUS
<1>2. PICK v \in [0..n -> Nat] : Recurses(v, n, 0, h)
  <2>1. h \in [1..n -> [Nat -> Nat]]
    BY <1>1
  <2> HIDE DEF h, n
  <2> QED
    BY <1>1, <2>1, Recursion
<1>3. \A k \in 1..n : v[k] = v[k - 1] + s[k]
  <2> SUFFICES ASSUME NEW k \in 1..n PROVE v[k] = v[k - 1] + s[k]
    OBVIOUS
  <2>1. v[k - 1] \in Nat /\ v[k] = h[k][v[k - 1]]
    <3> HIDE DEF h, n
    <3>1. k - 1 \in 0..n
      BY <1>1
    <3>2. v[k] = h[k][v[k - 1]]
      BY <1>2, Zenon DEF Recurses
    <3> QED
      BY <1>2, <3>1, <3>2
  <2> QED
    BY <2>1
<1> HIDE DEF n
<1>4. v = body(v)
  BY <1>1, <1>2, <1>3 DEF Recurses
<1>5. value = body(value)
  <2> HIDE DEF body
  <2> QED
    BY <1>4, Zenon
<1> HIDE DEF value
<1>6. value[0] = 0 /\ \A k \in 1..n : value[k] = value[k - 1] + s[k]
  BY <1>1, <1>5
<1> DEFINE S == {k \in Nat : k <= n => value[k] \in Nat}
<1>7. 0 \in S
  BY <1>6
<1>8. ASSUME NEW k \in Nat, k \in S PROVE k + 1 \in S
  <2> SUFFICES ASSUME k + 1 <= n PROVE value[k + 1] \in Nat
    OBVIOUS
  <2>1. k + 1 \in 1..n /\ (k + 1) - 1 = k /\ value[k] \in Nat
    BY <1>1, <1>8
  <2>2. value[k + 1] = value[k] + s[k + 1]
    BY <1>6, <2>1, Zenon
  <2> QED
    BY <1>1, <2>1, <2>2
<1> HIDE DEF S
<1>9. Nat \subseteq S
  BY <1>7, <1>8, NatInd
<1>10. value \in [0..n -> Nat]
  <2>1. \A k \in 0..n : value[k] \in Nat
    BY <1>1, <1>9 DEF S
  <2>2. value = [k \in 0..n |-> value[k]]
    BY <1>5
  <2> QED
    BY <2>1, <2>2
<1>11. Total(s) = value[n]
  BY DEF Total, n, value
<1> QED
  BY <1>6, <1>10, <1>11 DEF Sums, n

\* The sum of a sequence is that of its front and its last element.
LEMMA TotalEmpty == Total(<<>>) = 0
<1>1. <<>> \in Seq(Nat) /\ Len(<<>>) = 0
  OBVIOUS
<1> QED
  BY <1>1, TotalDef DEF Sums

LEMMA SumsUnique ==
  ASSUME NEW s, NEW other, NEW n \in Nat, NEW v, NEW w, Sums(s, v), Sums(other, w),
         Len(s) \in Nat, Len(other) \in Nat, n <= Len(s), n <= Len(other),
         \A k \in 1..n : s[k] = other[k]
  PROVE  v[n] = w[n]
<1> DEFINE S == {k \in Nat : k <= n => v[k] = w[k]}
<1>1. 0 \in S
  BY DEF Sums
<1>2. ASSUME NEW k \in Nat, k \in S PROVE k + 1 \in S
  <2> SUFFICES ASSUME k + 1 <= n PROVE v[k + 1] = w[k + 1]
    OBVIOUS
  <2>1. k + 1 \in 1..n /\ k + 1 \in 1..Len(s) /\ k + 1 \in 1..Len(other) /\ (k + 1) - 1 = k
    OBVIOUS
  <2>2. v[k] = w[k]
    BY <1>2
  <2>3. v[k + 1] = v[k] + s[k + 1]
    BY <2>1, Zenon DEF Sums
  <2>4. w[k + 1] = w[k] + other[k + 1]
    BY <2>1, Zenon DEF Sums
  <2> QED
    BY <2>1, <2>2, <2>3, <2>4, Zenon
<1> HIDE DEF S
<1>3. Nat \subseteq S
  BY <1>1, <1>2, NatInd
<1> QED
  BY <1>3 DEF S

LEMMA TotalAppend ==
  ASSUME NEW s \in Seq(Nat), NEW b \in Nat
  PROVE  Total(s) \in Nat /\ Total(Append(s, b)) = Total(s) + b
<1> DEFINE all == Append(s, b)
           n == Len(s)
<1>1. /\ all \in Seq(Nat) /\ n \in Nat /\ Len(all) = n + 1
      /\ \A k \in 1..n : s[k] = all[k]
      /\ all[n + 1] = b
  OBVIOUS
<1>2. PICK v \in [0..Len(s) -> Nat] : Sums(s, v) /\ Total(s) = v[Len(s)]
  BY TotalDef
<1>3. Total(s) = v[n] /\ v[n] \in Nat
  BY <1>1, <1>2
<1> HIDE DEF all, n
<1>4. PICK w \in [0..Len(all) -> Nat] : Sums(all, w) /\ Total(all) = w[Len(all)]
  BY <1>1, TotalDef
<1>5. v[n] = w[n]
  <2>1. Len(s) = n
    BY DEF n
  <2>2. Sums(s, v) /\ Sums(all, w)
    BY <1>2, <1>4
  <2>3. Len(s) \in Nat /\ Len(all) \in Nat /\ n <= Len(s) /\ n <= Len(all)
    BY <1>1, <2>1
  <2>4. n \in Nat /\ \A k \in 1..n : s[k] = all[k]
    BY <1>1
  <2> QED
    BY <2>2, <2>3, <2>4, SumsUnique, SMTT(30)
<1>6. w[n + 1] = w[n] + all[n + 1]
  <2>1. n + 1 \in 1..Len(all) /\ (n + 1) - 1 = n
    BY <1>1
  <2> QED
    BY <1>4, <2>1, Zenon DEF Sums
<1>7. Total(all) = Total(s) + b
  BY <1>1, <1>3, <1>4, <1>5, <1>6
<1> QED
  BY <1>3, <1>7 DEF all

\* The same of any functions, of which nothing else is known.
Adds(s, v, n) ==
  /\ v[0] = 0
  /\ \A k \in 1..n : v[k - 1] \in Nat /\ s[k] \in Nat /\ v[k] = v[k - 1] + s[k]

LEMMA AddsAt ==
  ASSUME NEW n \in Nat, NEW s, NEW v, Adds(s, v, n), NEW k \in Nat, k < n
  PROVE  v[k] \in Nat /\ s[k + 1] \in Nat /\ v[k + 1] = v[k] + s[k + 1]
<1>1. k + 1 \in 1..n /\ (k + 1) - 1 = k
  OBVIOUS
<1>2. v[(k + 1) - 1] \in Nat /\ s[k + 1] \in Nat /\ v[k + 1] = v[(k + 1) - 1] + s[k + 1]
  BY <1>1, Zenon DEF Adds
<1> QED
  BY <1>1, <1>2, Zenon

\* One element differs.
SameBut(s, u, n, j) == \A k \in 1..n : k # j => u[k] = s[k]

LEMMA AddsChange ==
  ASSUME NEW n \in Nat, NEW s, NEW u, NEW v, NEW w, NEW j \in 1..n,
         Adds(s, v, n), Adds(u, w, n), SameBut(s, u, n, j)
  PROVE  w[n] + s[j] = v[n] + u[j]
<1> DEFINE S == {k \in Nat : k <= n => IF k < j THEN w[k] = v[k] ELSE w[k] + s[j] = v[k] + u[j]}
<1>1. 0 \in S
  BY DEF Adds
<1>2. ASSUME NEW k \in Nat, k \in S PROVE k + 1 \in S
  <2> SUFFICES ASSUME k < n
               PROVE  IF k + 1 < j THEN w[k + 1] = v[k + 1] ELSE w[k + 1] + s[j] = v[k + 1] + u[j]
    OBVIOUS
  <2>1. IF k < j THEN w[k] = v[k] ELSE w[k] + s[j] = v[k] + u[j]
    BY <1>2
  <2> HIDE DEF S
  <2>2. v[k] \in Nat /\ s[k + 1] \in Nat /\ v[k + 1] = v[k] + s[k + 1]
    BY AddsAt
  <2>3. w[k] \in Nat /\ u[k + 1] \in Nat /\ w[k + 1] = w[k] + u[k + 1]
    BY AddsAt
  <2>4. k + 1 # j => u[k + 1] = s[k + 1]
    <3>1. k + 1 \in 1..n
      OBVIOUS
    <3> QED
      BY <3>1, Zenon DEF SameBut
  <2>5. s[j] \in Nat /\ u[j] \in Nat
    BY DEF Adds
  <2>6. CASE k + 1 = j
    <3>1. w[k + 1] + s[k + 1] = v[k + 1] + u[k + 1]
      BY <2>1, <2>2, <2>3, <2>6
    <3> QED
      BY <2>6, <3>1
  <2>7. CASE k + 1 # j
    BY <2>1, <2>2, <2>3, <2>4, <2>5, <2>7
  <2> QED
    BY <2>6, <2>7
<1> HIDE DEF S
<1>3. Nat \subseteq S
  BY <1>1, <1>2, NatInd
<1> QED
  BY <1>3 DEF S

\* One element is put in, after the first j.
OneMore(s, u, n, j) ==
  /\ \A k \in 1..j : u[k] = s[k]
  /\ \A k \in j + 1..n : u[k + 1] = s[k]

LEMMA AddsInsert ==
  ASSUME NEW n \in Nat, NEW s, NEW u, NEW v, NEW w, NEW j \in 0..n,
         Adds(s, v, n), Adds(u, w, n + 1), OneMore(s, u, n, j)
  PROVE  w[n + 1] = v[n] + u[j + 1]
<1> DEFINE S == {k \in Nat : k <= n => IF k <= j THEN w[k] = v[k] ELSE w[k + 1] = v[k] + u[j + 1]}
<1>1. 0 \in S
  BY DEF Adds
<1>2. ASSUME NEW k \in Nat, k \in S PROVE k + 1 \in S
  <2> SUFFICES ASSUME k < n
               PROVE  IF k + 1 <= j THEN w[k + 1] = v[k + 1]
                                    ELSE w[(k + 1) + 1] = v[k + 1] + u[j + 1]
    OBVIOUS
  <2>1. IF k <= j THEN w[k] = v[k] ELSE w[k + 1] = v[k] + u[j + 1]
    BY <1>2
  <2> HIDE DEF S
  <2>2. v[k] \in Nat /\ s[k + 1] \in Nat /\ v[k + 1] = v[k] + s[k + 1]
    BY AddsAt
  <2>3. w[k] \in Nat /\ u[k + 1] \in Nat /\ w[k + 1] = w[k] + u[k + 1]
    BY AddsAt
  <2>4. u[(k + 1) + 1] \in Nat /\ w[(k + 1) + 1] = w[k + 1] + u[(k + 1) + 1]
    BY AddsAt
  <2>5. k + 1 <= j => u[k + 1] = s[k + 1]
    BY DEF OneMore
  <2>6. k >= j => u[(k + 1) + 1] = s[k + 1]
    <3> SUFFICES ASSUME k >= j PROVE u[(k + 1) + 1] = s[k + 1]
      OBVIOUS
    <3>1. k + 1 \in j + 1..n
      OBVIOUS
    <3> QED
      BY <3>1, Zenon DEF OneMore
  <2>7. CASE k + 1 <= j
    BY <2>1, <2>2, <2>3, <2>5, <2>7
  <2>8. CASE k = j
    BY <2>1, <2>2, <2>3, <2>4, <2>6, <2>8
  <2>9. CASE k > j
    <3>1. w[k + 1] = v[k] + u[j + 1] /\ u[(k + 1) + 1] = s[k + 1]
      BY <2>1, <2>6, <2>9
    <3>2. u[j + 1] \in Nat
      <4>1. j + 1 \in 1..n + 1
        OBVIOUS
      <4> QED
        BY <4>1 DEF Adds
    <3>3. w[(k + 1) + 1] = v[k + 1] + u[j + 1]
      BY <2>2, <2>4, <3>1, <3>2
    <3> QED
      BY <2>9, <3>3
  <2> QED
    BY <2>7, <2>8, <2>9
<1> HIDE DEF S
<1>3. Nat \subseteq S
  BY <1>1, <1>2, NatInd
<1>4. IF n <= j THEN w[n] = v[n] ELSE w[n + 1] = v[n] + u[j + 1]
  BY <1>3 DEF S
<1>5. u[n + 1] \in Nat /\ w[n] \in Nat /\ w[n + 1] = w[n] + u[n + 1]
  BY AddsAt
<1> QED
  BY <1>4, <1>5

LEMMA TotalAdds ==
  ASSUME NEW s \in Seq(Nat)
  PROVE  \E v : Adds(s, v, Len(s)) /\ Total(s) = v[Len(s)]
<1>1. PICK v \in [0..Len(s) -> Nat] : Sums(s, v) /\ Total(s) = v[Len(s)]
  BY TotalDef
<1>2. Adds(s, v, Len(s))
  BY <1>1, SMTT(30) DEF Adds, Sums
<1> QED
  BY <1>1, <1>2

LEMMA TotalChange ==
  ASSUME NEW s \in Seq(Nat), NEW u \in Seq(Nat), Len(u) = Len(s), NEW j \in 1..Len(s),
         SameBut(s, u, Len(s), j)
  PROVE  Total(u) + s[j] = Total(s) + u[j]
<1>1. PICK v : Adds(s, v, Len(s)) /\ Total(s) = v[Len(s)]
  BY TotalAdds
<1>2. PICK w : Adds(u, w, Len(s)) /\ Total(u) = w[Len(s)]
  BY TotalAdds
<1>3. Len(s) \in Nat
  OBVIOUS
<1>4. w[Len(s)] + s[j] = v[Len(s)] + u[j]
  BY <1>1, <1>2, <1>3, AddsChange
<1> QED
  BY <1>1, <1>2, <1>4

LEMMA TotalInsert ==
  ASSUME NEW s \in Seq(Nat), NEW u \in Seq(Nat), Len(u) = Len(s) + 1, NEW j \in 0..Len(s),
         OneMore(s, u, Len(s), j)
  PROVE  Total(u) = Total(s) + u[j + 1]
<1>1. PICK v : Adds(s, v, Len(s)) /\ Total(s) = v[Len(s)]
  BY TotalAdds
<1>2. PICK w : Adds(u, w, Len(s) + 1) /\ Total(u) = w[Len(s) + 1]
  BY TotalAdds
<1>3. Len(s) \in Nat
  OBVIOUS
<1>4. w[Len(s) + 1] = v[Len(s)] + u[j + 1]
  BY <1>1, <1>2, <1>3, AddsInsert
<1> QED
  BY <1>1, <1>2, <1>4

\* A prefix with one element more.
LEMMA TotalPrefix ==
  ASSUME NEW s \in Seq(Nat), NEW n \in Nat, n < Len(s)
  PROVE  /\ Total(SubSeq(s, 1, n)) \in Nat
         /\ Total(SubSeq(s, 1, n + 1)) = Total(SubSeq(s, 1, n)) + s[n + 1]
<1> DEFINE a == SubSeq(s, 1, n)
           b == SubSeq(s, 1, n + 1)
<1>1. a \in Seq(Nat) /\ s[n + 1] \in Nat
  OBVIOUS
<1>2. b = Append(a, s[n + 1])
  OBVIOUS
<1> HIDE DEF a, b
<1>3. Total(a) \in Nat /\ Total(b) = Total(a) + s[n + 1]
  BY <1>1, <1>2, TotalAppend
<1> QED
  BY <1>3 DEF a, b

(***************************************************************************)
(* The Huffman tree.  Its parts are stated of its arrays.                  *)
(***************************************************************************)
\* What a son can be: a node, or a symbol and T.
Links == 0..T + NCHAR - 1

LEMMA Sizes ==
  /\ NCHAR \in Nat /\ NCHAR > 1 /\ T = 2 * NCHAR - 1 /\ T \in Nat /\ R = T - 1 /\ R \in Nat /\ R > 0
  /\ 2 * NCHAR <= MAX_FREQ /\ MAX_FREQ \in Nat
<1>1. /\ LITERALS \in Nat /\ F \in Nat /\ THRESHOLD \in Nat /\ MAX_FREQ \in Nat /\ THRESHOLD < F
      /\ LITERALS > 0 /\ 2 * (LITERALS - THRESHOLD + F) <= MAX_FREQ
  BY LzhufAssumption
<1>2. NCHAR \in Nat /\ NCHAR > 1 /\ 2 * NCHAR <= MAX_FREQ
  BY <1>1 DEF NCHAR
<1>3. T = 2 * NCHAR - 1 /\ R = T - 1
  BY DEF T, R
<1> QED
  BY <1>1, <1>2, <1>3

Arrays(f, s, p) == f \in [0..T -> Nat] /\ s \in [0..R -> Links] /\ p \in [Links -> 0..R]

\* No node is more frequent than the next one, and there is a sentinel at the end.
Ordered(f) ==
  /\ f[T] = 2 * MAX_FREQ - 1
  /\ \A i \in 0..R : f[i] >= 1 /\ f[i] <= f[i + 1]

\* Each node but the root, and each symbol, hangs below one node, which prnt names.
Linked(s, p) ==
  /\ p[R] = 0
  /\ \A k \in Links, i \in 0..R : k # R => (p[k] = i <=> k \in Children(s[i]))

\* Children are a pair of nodes, which comes before their parent.
Paired(s) == \A i \in 0..R : s[i] < T => s[i] + 1 < i /\ s[i] % 2 = 0

\* A parent is as frequent as its children are together.  While update() climbs,
\* the node x whose turn is next has one too few.
Short(i, x) == IF i = x THEN 1 ELSE 0
Summed(f, s, x) == \A i \in 0..R : s[i] < T => f[i] + Short(i, x) = f[s[i]] + f[s[i] + 1]

\* The root is as frequent as all leaves are together.
LeafFreqs(f, s) == [m \in 1..T |-> IF s[m - 1] >= T THEN f[m - 1] ELSE 0]
Weighed(f, s, x) == Total(LeafFreqs(f, s)) = f[R] + (IF x \in 0..R /\ s[x] < T THEN 1 ELSE 0)

Huffman(f, s, p, x) ==
  /\ Arrays(f, s, p) /\ Ordered(f) /\ Linked(s, p) /\ Paired(s)
  /\ Summed(f, s, x) /\ Weighed(f, s, x)

LEMMA ArraysAt ==
  ASSUME NEW f, NEW s, NEW p, Arrays(f, s, p), NEW i \in 0..R
  PROVE  /\ i \in Nat /\ i \in 0..T /\ i + 1 \in 0..T
         /\ f[i] \in Nat /\ f[i + 1] \in Nat /\ s[i] \in Nat /\ s[i] \in Links
<1>1. i \in Nat /\ i \in 0..T /\ i + 1 \in 0..T
  BY Sizes
<1>2. f[i] \in Nat /\ f[i + 1] \in Nat /\ s[i] \in Links
  BY <1>1 DEF Arrays
<1>3. s[i] \in Nat
  BY <1>2, Sizes DEF Links
<1> QED
  BY <1>1, <1>2, <1>3

LEMMA OrderedUp ==
  ASSUME NEW f, Ordered(f), \A i \in 0..T : f[i] \in Nat, NEW i \in 0..T, NEW j \in i..T
  PROVE  f[i] <= f[j]
<1> DEFINE S == {m \in Nat : i + m <= T => f[i] <= f[i + m]}
<1>1. 0 \in S
  BY Sizes
<1>2. ASSUME NEW m \in Nat, m \in S PROVE m + 1 \in S
  <2> SUFFICES ASSUME i + (m + 1) <= T PROVE f[i] <= f[i + (m + 1)]
    OBVIOUS
  <2>1. i + m \in 0..R /\ i + m \in 0..T /\ (i + m) + 1 = i + (m + 1) /\ (i + m) + 1 \in 0..T
    BY Sizes
  <2>2. f[i + m] <= f[(i + m) + 1]
    BY <2>1 DEF Ordered
  <2>3. f[i] <= f[i + m]
    BY <1>2, <2>1, Sizes
  <2>4. f[i] \in Nat /\ f[i + m] \in Nat /\ f[(i + m) + 1] \in Nat
    BY <2>1
  <2> QED
    BY <2>1, <2>2, <2>3, <2>4
<1> HIDE DEF S
<1>3. Nat \subseteq S
  BY <1>1, <1>2, NatInd
<1>4. j - i \in S /\ i + (j - i) = j /\ j <= T
  BY <1>3, Sizes
<1> QED
  BY <1>4 DEF S

\* A child, if it is a node, comes before its parent.
LEMMA ChildBelow ==
  ASSUME NEW f, NEW s, NEW p, Arrays(f, s, p), Linked(s, p), Paired(s),
         NEW i \in 0..R, NEW k \in Children(s[i])
  PROVE  k \in Links /\ k # R /\ p[k] = i /\ (k < T <=> s[i] < T) /\ (k < T => k < i)
<1>1. s[i] \in Nat /\ s[i] \in Links
  BY ArraysAt
<1>2. CASE s[i] < T
  <2>1. s[i] + 1 < i
    BY <1>2 DEF Paired
  <2>2. k \in Nat /\ k < i /\ i <= R
    BY <1>1, <1>2, <2>1, Sizes DEF Children
  <2>3. k \in Links /\ k # R /\ k < T
    BY <2>2, Sizes DEF Links
  <2> QED
    BY <1>2, <2>2, <2>3 DEF Linked
<1>3. CASE ~(s[i] < T)
  <2>1. k = s[i]
    BY <1>3 DEF Children
  <2>2. k \in Links /\ k # R /\ ~(k < T)
    BY <1>1, <1>3, <2>1, Sizes
  <2> QED
    BY <1>3, <2>1, <2>2 DEF Linked
<1> QED
  BY <1>2, <1>3

\* A node other than the root hangs below one that comes after it.
LEMMA ParentAbove ==
  ASSUME NEW f, NEW s, NEW p, Arrays(f, s, p), Linked(s, p), Paired(s), NEW n \in 0..R, n # R
  PROVE  /\ n \in Links /\ p[n] \in n + 1..R /\ n \in Children(s[p[n]]) /\ s[p[n]] < T
<1>1. n \in Links /\ n < T
  BY Sizes DEF Links
<1>2. p[n] \in 0..R
  BY <1>1 DEF Arrays
<1>3. n \in Children(s[p[n]])
  BY <1>1, <1>2 DEF Linked
<1>4. s[p[n]] < T /\ n < p[n]
  BY <1>1, <1>2, <1>3, ChildBelow
<1> QED
  BY <1>1, <1>2, <1>3, <1>4, Sizes

(***************************************************************************)
(* One turn of update()'s loop.                                            *)
(***************************************************************************)
\* What the turn makes of the arrays, when node c has overtaken node n.
NewSon(s, c, n) == [s EXCEPT ![c] = s[n], ![n] = s[c]]
NewPrnt(s, p, c, n) ==
  [k \in DOMAIN p |-> CASE k \in Children(s[c]) -> n
                        [] k \in Children(s[n]) -> c
                        [] OTHER                -> p[k]]
NewFreq(f, c, n) == [f EXCEPT ![n] = f[c] + 1]

\* Node n is the last of those that are as frequent as node c.
Overtakes(f, s, p, c, n) ==
  /\ c \in 0..R /\ n \in c..R
  /\ f[n] = f[c] /\ f[n + 1] >= f[c] + 1

LEMMA NewArrays ==
  ASSUME NEW f, NEW s, NEW p, NEW c, NEW n, Arrays(f, s, p), Overtakes(f, s, p, c, n)
  PROVE  /\ Arrays(NewFreq(f, c, n), NewSon(s, c, n), NewPrnt(s, p, c, n))
         /\ \A i \in 0..T : NewFreq(f, c, n)[i] = IF i = n THEN f[c] + 1 ELSE f[i]
         /\ \A i \in 0..R : NewSon(s, c, n)[i] = CASE i = n -> s[c] [] i = c /\ i # n -> s[n]
                                                   [] OTHER -> s[i]
         /\ \A k \in Links : NewPrnt(s, p, c, n)[k] = CASE k \in Children(s[c]) -> n
                                                         [] k \in Children(s[n]) -> c
                                                         [] OTHER                -> p[k]
<1>1. c \in 0..R /\ n \in 0..R /\ n \in 0..T
  BY Sizes DEF Overtakes
<1>2. f \in [0..T -> Nat] /\ s \in [0..R -> Links] /\ p \in [Links -> 0..R]
  BY DEF Arrays
<1>3. f[c] + 1 \in Nat /\ s[c] \in Links /\ s[n] \in Links
  BY <1>1, ArraysAt
<1>4. NewFreq(f, c, n) \in [0..T -> Nat]
  BY <1>1, <1>2, <1>3 DEF NewFreq
<1>5. NewSon(s, c, n) \in [0..R -> Links]
  BY <1>1, <1>2, <1>3 DEF NewSon
<1>6. NewPrnt(s, p, c, n) \in [Links -> 0..R]
  BY <1>1, <1>2 DEF NewPrnt
<1>7. \A i \in 0..T : NewFreq(f, c, n)[i] = IF i = n THEN f[c] + 1 ELSE f[i]
  BY <1>1, <1>2 DEF NewFreq
<1>8. \A i \in 0..R : NewSon(s, c, n)[i] = CASE i = n -> s[c] [] i = c /\ i # n -> s[n]
                                             [] OTHER -> s[i]
  BY <1>1, <1>2 DEF NewSon
<1>9. \A k \in Links : NewPrnt(s, p, c, n)[k] = CASE k \in Children(s[c]) -> n
                                                   [] k \in Children(s[n]) -> c
                                                   [] OTHER                -> p[k]
  BY <1>2 DEF NewPrnt
<1> QED
  BY <1>4, <1>5, <1>6, <1>7, <1>8, <1>9 DEF Arrays

\* What hangs below node n comes before node c.
LEMMA OtherBelow ==
  ASSUME NEW f, NEW s, NEW p, NEW c, NEW n, Huffman(f, s, p, c), Overtakes(f, s, p, c, n)
  PROVE  s[n] < T => s[n] + 1 < c
<1> SUFFICES ASSUME s[n] < T PROVE s[n] + 1 < c
  OBVIOUS
<1>1. c \in 0..R /\ n \in 0..R /\ c <= n /\ Arrays(f, s, p) /\ Ordered(f) /\ f[n] = f[c]
  BY Sizes DEF Overtakes, Huffman
<1>2. s[n] + 1 < n /\ s[n] \in Nat /\ c \in 0..T /\ s[n] \in 0..R /\ s[n] + 1 \in 0..R
  BY <1>1, ArraysAt, Sizes DEF Huffman, Paired
<1>3. CASE n = c
  BY <1>2, <1>3
<1>4. CASE n # c
  <2>1. f[n] = f[s[n]] + f[s[n] + 1]
    <3>1. f[n] + Short(n, c) = f[s[n]] + f[s[n] + 1]
      BY <1>1 DEF Huffman, Summed
    <3>2. f[n] \in Nat /\ Short(n, c) = 0
      BY <1>1, <1>4, ArraysAt DEF Short
    <3> QED
      BY <3>1, <3>2
  <2>2. f[s[n]] \in Nat /\ f[s[n]] >= 1 /\ f[s[n] + 1] \in Nat
    BY <1>1, <1>2, ArraysAt DEF Ordered
  <2>3. f[s[n] + 1] < f[c]
    BY <1>1, <2>1, <2>2
  <2>4. CASE c <= s[n] + 1
    <3>1. s[n] + 1 \in c..T
      BY <1>1, <1>2, <2>4, Sizes
    <3>2. f[c] <= f[s[n] + 1]
      BY <1>1, <1>2, <3>1, OrderedUp DEF Arrays
    <3>3. f[c] \in Nat
      BY <1>1, ArraysAt
    <3> QED
      BY <2>2, <2>3, <3>2, <3>3
  <2> QED
    BY <1>1, <1>2, <2>4, Sizes
<1> QED
  BY <1>3, <1>4

LEMMA NewLinks ==
  ASSUME NEW f, NEW s, NEW p, NEW c, NEW n, Huffman(f, s, p, c), Overtakes(f, s, p, c, n)
  PROVE  Linked(NewSon(s, c, n), NewPrnt(s, p, c, n)) /\ Paired(NewSon(s, c, n))
<1> DEFINE u == NewSon(s, c, n)
           q == NewPrnt(s, p, c, n)
<1>1. /\ c \in 0..R /\ n \in 0..R /\ c <= n /\ Arrays(f, s, p) /\ Linked(s, p) /\ Paired(s)
      /\ R \in Links
  BY Sizes DEF Overtakes, Huffman, Links
<1>2. /\ \A i \in 0..R : u[i] = CASE i = n -> s[c] [] i = c /\ i # n -> s[n] [] OTHER -> s[i]
      /\ \A k \in Links : q[k] = CASE k \in Children(s[c]) -> n
                                   [] k \in Children(s[n]) -> c
                                   [] OTHER                -> p[k]
  BY <1>1, NewArrays
<1>3. u[n] = s[c] /\ u[c] = s[n] /\ \A i \in 0..R : i # n /\ i # c => u[i] = s[i]
  BY <1>1, <1>2
<1>4. \A k \in Links : k # R => \A i \in 0..R : p[k] = i <=> k \in Children(s[i])
  BY <1>1 DEF Linked
<1>5. \A k \in Links : k # R => p[k] \in 0..R
  BY <1>1 DEF Arrays
<1>6. q[R] = 0
  <2>1. R \notin Children(s[c]) /\ R \notin Children(s[n])
    BY <1>1, ChildBelow
  <2> QED
    BY <1>1, <1>2, <2>1 DEF Linked
<1>7. Paired(u)
  <2> SUFFICES ASSUME NEW i \in 0..R, u[i] < T PROVE u[i] + 1 < i /\ u[i] % 2 = 0
    BY DEF Paired
  <2>1. CASE i = n
    <3>1. s[c] + 1 < c /\ s[c] % 2 = 0 /\ s[c] \in Nat
      BY <1>1, <1>3, <2>1, ArraysAt DEF Paired
    <3> QED
      BY <1>1, <1>3, <2>1, <3>1
  <2>2. CASE i = c
    <3>1. s[n] + 1 < c /\ s[n] % 2 = 0
      BY <1>1, <1>3, <2>2, OtherBelow DEF Paired
    <3> QED
      BY <1>3, <2>2, <3>1
  <2>3. CASE i # n /\ i # c
    BY <1>1, <1>3, <2>3 DEF Paired
  <2> QED
    BY <2>1, <2>2, <2>3
<1>8. ASSUME NEW k \in Links, k # R, NEW i \in 0..R PROVE q[k] = i <=> k \in Children(u[i])
  <2>1. CASE n = c
    <3>1. \A j \in 0..R : u[j] = s[j]
      BY <1>3, <2>1
    <3>2. q[k] = p[k]
      <4>1. CASE k \in Children(s[c])
        BY <1>1, <1>2, <1>4, <1>8, <2>1, <4>1
      <4>2. CASE k \notin Children(s[c])
        BY <1>2, <1>8, <2>1, <4>2
      <4> QED
        BY <4>1, <4>2
    <3> QED
      BY <1>4, <1>8, <3>1, <3>2
  <2>2. CASE n # c
    <3>1. CASE p[k] = c
      <4>1. k \in Children(s[c]) /\ q[k] = n /\ \A j \in 0..R : j # c => k \notin Children(s[j])
        BY <1>1, <1>2, <1>4, <1>8, <3>1
      <4> QED
        BY <1>1, <1>3, <1>8, <2>2, <4>1
    <3>2. CASE p[k] = n
      <4>1. k \in Children(s[n]) /\ q[k] = c /\ \A j \in 0..R : j # n => k \notin Children(s[j])
        BY <1>1, <1>2, <1>4, <1>8, <2>2, <3>2
      <4> QED
        BY <1>1, <1>3, <1>8, <2>2, <4>1
    <3>3. CASE p[k] # n /\ p[k] # c
      <4>1. k \notin Children(s[n]) /\ k \notin Children(s[c]) /\ q[k] = p[k]
        BY <1>1, <1>2, <1>4, <1>8, <3>3
      <4> QED
        BY <1>1, <1>3, <1>4, <1>8, <3>3, <4>1
    <3> QED
      BY <3>1, <3>2, <3>3
  <2> QED
    BY <2>1, <2>2
<1> QED
  BY <1>6, <1>7, <1>8 DEF Linked

LEMMA NewOrder ==
  ASSUME NEW f, NEW s, NEW p, NEW c, NEW n, Huffman(f, s, p, c), Overtakes(f, s, p, c, n)
  PROVE  Ordered(NewFreq(f, c, n))
<1> DEFINE g == NewFreq(f, c, n)
<1>1. c \in 0..R /\ n \in 0..R /\ Arrays(f, s, p) /\ f[n] = f[c] /\ f[n + 1] >= f[c] + 1 /\ n < T
  BY Sizes DEF Overtakes, Huffman
<1>2. \A i \in 0..T : g[i] = IF i = n THEN f[c] + 1 ELSE f[i]
  BY <1>1, NewArrays
<1>3. \A i \in 0..R : f[i] >= 1 /\ f[i] <= f[i + 1]
  BY DEF Huffman, Ordered
<1>4. g[T] = 2 * MAX_FREQ - 1
  BY <1>1, <1>2, Sizes DEF Huffman, Ordered
<1> HIDE DEF g
<1>5. ASSUME NEW i \in 0..R PROVE g[i] >= 1 /\ g[i] <= g[i + 1]
  <2>1. i \in 0..T /\ i + 1 \in 0..T /\ f[i] \in Nat /\ f[i + 1] \in Nat /\ i \in Nat
    BY <1>1, ArraysAt
  <2>2. f[i] >= 1 /\ f[i] <= f[i + 1]
    BY <1>3
  <2>3. g[i] = (IF i = n THEN f[c] + 1 ELSE f[i]) /\ g[i + 1] = (IF i + 1 = n THEN f[c] + 1 ELSE f[i + 1])
    BY <1>2, <2>1
  <2>4. CASE i = n
    BY <1>1, <2>1, <2>2, <2>3, <2>4
  <2>5. CASE i + 1 = n
    BY <1>1, <2>1, <2>2, <2>3, <2>5
  <2>6. CASE i # n /\ i + 1 # n
    BY <2>2, <2>3, <2>6
  <2> QED
    BY <2>4, <2>5, <2>6
<1> QED
  BY <1>4, <1>5 DEF Ordered, g

\* The node whose turn is next, or T when the root has had its own.
Following(p, n) == IF n = R THEN T ELSE p[n]

LEMMA NewSums ==
  ASSUME NEW f, NEW s, NEW p, NEW c, NEW n, Huffman(f, s, p, c), Overtakes(f, s, p, c, n)
  PROVE  Summed(NewFreq(f, c, n), NewSon(s, c, n), Following(p, n))
<1> DEFINE g == NewFreq(f, c, n)
           u == NewSon(s, c, n)
           y == Following(p, n)
<1>1. /\ c \in 0..R /\ n \in 0..R /\ c <= n /\ Arrays(f, s, p) /\ Linked(s, p) /\ Paired(s)
      /\ f[n] = f[c] /\ f[c] \in Nat
  BY Sizes, ArraysAt DEF Overtakes, Huffman
<1>2. /\ \A i \in 0..T : g[i] = IF i = n THEN f[c] + 1 ELSE f[i]
      /\ \A i \in 0..R : u[i] = CASE i = n -> s[c] [] i = c /\ i # n -> s[n] [] OTHER -> s[i]
  BY <1>1, NewArrays
<1>3. u[n] = s[c] /\ u[c] = s[n] /\ \A i \in 0..R : i # n /\ i # c => u[i] = s[i]
  BY <1>1, <1>2
<1>4. y \in n + 1..T /\ (n # R => y = p[n])
  BY <1>1, ParentAbove, Sizes DEF Following
<1> HIDE DEF g, u, y
<1>5. SUFFICES ASSUME NEW i \in 0..R, u[i] < T PROVE g[i] + Short(i, y) = g[u[i]] + g[u[i] + 1]
  BY DEF Summed, g, u, y
<1>6. CASE i = n
  <2>1. s[c] + 1 < c /\ s[c] \in Nat /\ s[c] \in 0..T /\ s[c] + 1 \in 0..T
    BY <1>1, <1>3, <1>5, <1>6, ArraysAt, Sizes DEF Paired
  <2>2. f[c] + Short(c, c) = f[s[c]] + f[s[c] + 1]
    BY <1>1, <1>3, <1>5, <1>6 DEF Huffman, Summed
  <2>3. g[s[c]] = f[s[c]] /\ g[s[c] + 1] = f[s[c] + 1] /\ g[n] = f[c] + 1
    BY <1>1, <1>2, <2>1, ArraysAt
  <2>4. Short(n, y) = 0 /\ Short(c, c) = 1
    BY <1>1, <1>4, Sizes DEF Short
  <2> QED
    BY <1>1, <1>3, <1>6, <2>2, <2>3, <2>4
<1>7. CASE i = c /\ i # n
  <2>1. s[n] + 1 < c /\ s[n] \in Nat /\ s[n] \in 0..T /\ s[n] + 1 \in 0..T
    BY <1>1, <1>3, <1>5, <1>7, ArraysAt, OtherBelow, Sizes
  <2>2. f[n] + Short(n, c) = f[s[n]] + f[s[n] + 1]
    BY <1>1, <1>3, <1>5, <1>7 DEF Huffman, Summed
  <2>3. g[s[n]] = f[s[n]] /\ g[s[n] + 1] = f[s[n] + 1] /\ g[c] = f[c]
    BY <1>1, <1>2, <1>7, <2>1, ArraysAt
  <2>4. Short(c, y) = 0 /\ Short(n, c) = 0
    BY <1>1, <1>4, <1>7, Sizes DEF Short
  <2> QED
    BY <1>1, <1>3, <1>7, <2>2, <2>3, <2>4
<1>8. CASE i # c /\ i # n
  <2> DEFINE k == s[i]
  <2>1. u[i] = k /\ k < T /\ k \in Nat
    BY <1>1, <1>3, <1>5, <1>8, ArraysAt
  <2>2. /\ k + 1 < i /\ k \in 0..T /\ k + 1 \in 0..T /\ k \in 0..R /\ k + 1 \in 0..R
        /\ k # R /\ k + 1 # R /\ k \in Links /\ k + 1 \in Links
    BY <1>1, <2>1, Sizes DEF Paired, Links
  <2>3. Children(s[i]) = {k, k + 1}
    BY <2>1 DEF Children
  <2> HIDE DEF k
  <2>4. f[i] + Short(i, c) = f[k] + f[k + 1]
    BY <1>1, <2>1 DEF Huffman, Summed, k
  <2>5. Short(i, c) = 0 /\ g[i] = f[i]
    BY <1>1, <1>2, <1>8, ArraysAt DEF Short
  <2>6. f[k] \in Nat /\ f[k + 1] \in Nat /\ f[i] \in Nat
    BY <1>1, <2>2, ArraysAt
  <2>7. CASE n \in Children(s[i])
    <3>1. n # R /\ p[n] = i
      BY <1>1, <2>7, ChildBelow
    <3>2. Short(i, y) = 1
      BY <1>4, <3>1 DEF Short
    <3>3. CASE n = k
      <4>1. g[k] = f[k] + 1 /\ g[k + 1] = f[k + 1]
        BY <1>1, <1>2, <2>1, <2>2, <3>3
      <4> QED
        BY <2>1, <2>4, <2>5, <2>6, <3>2, <4>1
    <3>4. CASE n = k + 1
      <4>1. g[k] = f[k] /\ g[k + 1] = f[k + 1] + 1
        BY <1>1, <1>2, <2>1, <2>2, <3>4
      <4> QED
        BY <2>1, <2>4, <2>5, <2>6, <3>2, <4>1
    <3> QED
      BY <2>3, <2>7, <3>3, <3>4
  <2>8. CASE n \notin Children(s[i])
    <3>1. Short(i, y) = 0
      <4>1. CASE n = R
        BY <4>1, Sizes DEF Short, Following, y
      <4>2. CASE n # R
        <5>1. n \in Links
          BY <1>1, <4>2, ParentAbove
        <5>2. p[n] # i
          BY <1>1, <2>8, <4>2, <5>1 DEF Linked
        <5> QED
          BY <1>4, <4>2, <5>2 DEF Short
      <4> QED
        BY <4>1, <4>2
    <3>2. g[k] = f[k] /\ g[k + 1] = f[k + 1]
      BY <1>2, <2>2, <2>3, <2>8
    <3> QED
      BY <2>1, <2>4, <2>5, <2>6, <3>1, <3>2
  <2> QED
    BY <2>7, <2>8
<1> QED
  BY <1>6, <1>7, <1>8

\* The sum of two sequences that differ in one place, or in two.
SameButTwo(a, b, n, i, j) == \A k \in 1..n : k # i /\ k # j => b[k] = a[k]

LEMMA TotalTwo ==
  ASSUME NEW n \in Nat, NEW a \in Seq(Nat), NEW b \in Seq(Nat), Len(a) = n, Len(b) = n,
         NEW i \in 1..n, NEW j \in 1..n, i # j, SameButTwo(a, b, n, i, j)
  PROVE  Total(b) + a[i] + a[j] = Total(a) + b[i] + b[j]
<1> DEFINE m == [a EXCEPT ![i] = b[i]]
<1>1. /\ m \in Seq(Nat) /\ Len(m) = n /\ m[i] = b[i] /\ m[j] = a[j]
      /\ \A k \in 1..n : k # i => m[k] = a[k]
  OBVIOUS
<1>2. a[i] \in Nat /\ a[j] \in Nat /\ b[i] \in Nat /\ b[j] \in Nat
  OBVIOUS
<1>3. SameBut(a, m, n, i)
  BY <1>1 DEF SameBut, SameButTwo
<1>4. SameBut(m, b, n, j)
  BY <1>1 DEF SameBut, SameButTwo
<1> HIDE DEF m
<1>5. Total(m) + a[i] = Total(a) + m[i]
  BY <1>1, <1>3, TotalChange
<1>6. Total(b) + m[j] = Total(m) + b[j]
  BY <1>1, <1>4, TotalChange
<1>7. Total(m) \in Nat /\ Total(a) \in Nat /\ Total(b) \in Nat
  BY <1>1, TotalAppend, 0 \in Nat
<1> DEFINE ai == a[i]
           aj == a[j]
           bi == b[i]
           bj == b[j]
           ta == Total(a)
           tb == Total(b)
           tm == Total(m)
<1>8. tm + ai = ta + bi /\ tb + aj = tm + bj
  BY <1>1, <1>5, <1>6
<1>9. /\ ai \in Nat /\ aj \in Nat /\ bi \in Nat /\ bj \in Nat
      /\ ta \in Nat /\ tb \in Nat /\ tm \in Nat
  BY <1>2, <1>7
<1> HIDE DEF ai, aj, bi, bj, ta, tb, tm
<1>10. tb + ai + aj = ta + bi + bj
  BY <1>8, <1>9
<1> QED
  BY <1>10 DEF ai, aj, bi, bj, ta, tb

LEMMA LeafFreqsType ==
  ASSUME NEW f, NEW s, NEW p, Arrays(f, s, p)
  PROVE  /\ LeafFreqs(f, s) \in Seq(Nat) /\ Len(LeafFreqs(f, s)) = T
         /\ \A m \in 1..T : LeafFreqs(f, s)[m] = IF s[m - 1] >= T THEN f[m - 1] ELSE 0
<1>1. T \in Nat
  BY Sizes
<1>2. ASSUME NEW m \in 1..T PROVE f[m - 1] \in Nat
  <2>1. m - 1 \in 0..R
    BY Sizes
  <2> QED
    BY <2>1, ArraysAt
<1>3. \A m \in 1..T : (IF s[m - 1] >= T THEN f[m - 1] ELSE 0) \in Nat
  BY <1>2
<1> QED
  BY <1>1, <1>3 DEF LeafFreqs

LEMMA NewWeight ==
  ASSUME NEW f, NEW s, NEW p, NEW c, NEW n, Huffman(f, s, p, c), Overtakes(f, s, p, c, n)
  PROVE  Weighed(NewFreq(f, c, n), NewSon(s, c, n), Following(p, n))
<1> DEFINE g == NewFreq(f, c, n)
           u == NewSon(s, c, n)
           q == NewPrnt(s, p, c, n)
           y == Following(p, n)
           a == LeafFreqs(f, s)
           b == LeafFreqs(g, u)
           x == f[c]
           before(j) == IF s[j] >= T THEN x ELSE 0
<1>1. /\ c \in 0..R /\ n \in 0..R /\ c <= n /\ Arrays(f, s, p) /\ Linked(s, p) /\ Paired(s)
      /\ f[n] = x /\ x \in Nat
  BY Sizes, ArraysAt DEF Overtakes, Huffman
<1>2. /\ \A i \in 0..T : g[i] = IF i = n THEN f[c] + 1 ELSE f[i]
      /\ \A i \in 0..R : u[i] = CASE i = n -> s[c] [] i = c /\ i # n -> s[n] [] OTHER -> s[i]
      /\ Arrays(g, u, q)
  BY <1>1, NewArrays
<1>3. u[n] = s[c] /\ u[c] = s[n] /\ \A i \in 0..R : i # n /\ i # c => u[i] = s[i]
  BY <1>1, <1>2
<1>4. g[n] = x + 1 /\ (c # n => g[c] = x) /\ \A i \in 0..R : i # n => g[i] = f[i]
  BY <1>1, <1>2, ArraysAt
<1> HIDE DEF g, u, q, y, x
<1>5. /\ a \in Seq(Nat) /\ Len(a) = T
      /\ \A m \in 1..T : a[m] = IF s[m - 1] >= T THEN f[m - 1] ELSE 0
  BY <1>1, LeafFreqsType
<1>6. /\ b \in Seq(Nat) /\ Len(b) = T
      /\ \A m \in 1..T : b[m] = IF u[m - 1] >= T THEN g[m - 1] ELSE 0
  BY <1>2, LeafFreqsType
<1>7. /\ c + 1 \in 1..T /\ n + 1 \in 1..T /\ (c + 1) - 1 = c /\ (n + 1) - 1 = n
      /\ \A m \in 1..T : m - 1 \in 0..R /\ (m # c + 1 => m - 1 # c) /\ (m # n + 1 => m - 1 # n)
  BY <1>1, Sizes
<1> HIDE DEF a, b
<1>8. /\ a[c + 1] = (IF s[c] >= T THEN x ELSE 0) /\ a[n + 1] = (IF s[n] >= T THEN x ELSE 0)
      /\ b[n + 1] = (IF s[c] >= T THEN x + 1 ELSE 0)
      /\ (c # n => b[c + 1] = (IF s[n] >= T THEN x ELSE 0))
  <2>1. x = f[c]
    BY DEF x
  <2> QED
    BY <1>1, <1>3, <1>4, <1>5, <1>6, <1>7, <2>1, SMTT(30)
<1>9. SameButTwo(a, b, T, c + 1, n + 1)
  BY <1>3, <1>4, <1>5, <1>6, <1>7 DEF SameButTwo
<1> DEFINE ta == Total(a)
           tb == Total(b)
           ac == a[c + 1]
           an == a[n + 1]
           bc == b[c + 1]
           bn == b[n + 1]
           leaf == s[c] >= T
           other == s[n] >= T
<1>10. ta \in Nat /\ tb \in Nat
  BY <1>5, <1>6, TotalAppend, 0 \in Nat
<1>11. /\ ac = (IF leaf THEN x ELSE 0) /\ an = (IF other THEN x ELSE 0)
       /\ bn = (IF leaf THEN x + 1 ELSE 0)
       /\ (c # n => bc = (IF other THEN x ELSE 0))
       /\ (c = n => (leaf <=> other))
  BY <1>8
<1>12. tb = ta + (IF leaf THEN 1 ELSE 0)
  <2>1. CASE c = n
    <3>1. SameBut(a, b, T, n + 1)
      BY <1>9, <2>1 DEF SameBut, SameButTwo
    <3>2. tb + an = ta + bn
      BY <1>5, <1>6, <1>7, <3>1, TotalChange, SMTT(30)
    <3> HIDE DEF ta, tb, an, bn, leaf, other, ac, bc
    <3> QED
      BY <1>1, <1>10, <1>11, <2>1, <3>2
  <2>2. CASE c # n
    <3>1. c + 1 # n + 1
      BY <1>1, <2>2
    <3>2. Total(b) + a[c + 1] + a[n + 1] = Total(a) + b[c + 1] + b[n + 1]
      BY <1>5, <1>6, <1>7, <1>9, <3>1, Sizes, TotalTwo
    <3>3. tb + ac + an = ta + bc + bn
      BY <3>2
    <3> HIDE DEF ta, tb, an, bn, leaf, other, ac, bc
    <3> QED
      BY <1>1, <1>10, <1>11, <2>2, <3>3
  <2> QED
    BY <2>1, <2>2
<1>13. ta = f[R] + (IF s[c] < T THEN 1 ELSE 0)
  BY <1>1 DEF Huffman, Weighed, a
<1>14. (s[c] < T <=> ~leaf) /\ f[R] \in Nat
  BY <1>1, ArraysAt, Sizes
<1>15. tb = f[R] + 1
  <2> DEFINE fr == f[R]
  <2>1. fr \in Nat /\ ta = fr + (IF leaf THEN 0 ELSE 1)
    BY <1>13, <1>14
  <2> HIDE DEF ta, tb, leaf, fr
  <2>2. tb = fr + 1
    BY <1>12, <2>1
  <2> QED
    BY <2>2 DEF fr
<1>16. tb = g[R] + (IF y \in 0..R /\ u[y] < T THEN 1 ELSE 0)
  <2>1. CASE n = R
    <3>1. y = T /\ T \notin 0..R
      BY <2>1, Sizes DEF y, Following
    <3>2. g[R] = f[R] + 1
      BY <1>1, <1>4, <2>1
    <3>3. f[R] \in Nat
      BY <1>14
    <3> QED
      BY <1>15, <3>1, <3>2, <3>3
  <2>2. CASE n # R
    <3>1. y = p[n] /\ y \in n + 1..R /\ s[y] < T
      BY <1>1, <2>2, ParentAbove DEF y, Following
    <3>2. y \in 0..R /\ y # n /\ y # c
      BY <1>1, <3>1, Sizes
    <3>3. u[y] < T
      BY <1>3, <3>1, <3>2
    <3>4. g[R] = f[R]
      BY <1>4, <2>2, Sizes
    <3> QED
      BY <1>15, <3>2, <3>3, <3>4
  <2> QED
    BY <2>1, <2>2
<1> QED
  BY <1>16 DEF Weighed, b, y, u, g

(***************************************************************************)
(* The tree as a record.                                                   *)
(***************************************************************************)
HuffmanTree(t, x) ==
  /\ t = [freq |-> t.freq, son |-> t.son, prnt |-> t.prnt]
  /\ Huffman(t.freq, t.son, t.prnt, x)

\* Between two updates, and when it is the turn of node c.
Resting(t) == HuffmanTree(t, T) /\ t.freq[R] <= MAX_FREQ
Climbing(t, c) == c \in 0..R /\ HuffmanTree(t, c) /\ t.freq[R] < MAX_FREQ

LEMMA OvertakenNode ==
  ASSUME NEW t, NEW c, Climbing(t, c)
  PROVE  Overtakes(t.freq, t.son, t.prnt, c, Overtaken(t, c, t.freq[c] + 1))
<1> DEFINE f == t.freq
           k == f[c] + 1
           S == {n \in c..R : f[n + 1] >= k}
           good(n) == n \in c..R /\ f[n + 1] >= k /\ \A m \in c + 1..n : f[m] < k
<1>1. /\ c \in 0..R /\ Arrays(f, t.son, t.prnt) /\ Ordered(f) /\ f[R] < MAX_FREQ
  BY DEF Climbing, HuffmanTree, Huffman
<1> HIDE DEF f
<1>2. /\ c \in Nat /\ c \in 0..T /\ R \in 0..T /\ R \in c..T /\ R + 1 = T
      /\ \A i \in 0..T : f[i] \in Nat
  BY <1>1, Sizes, SMTT(30) DEF Arrays
<1>3. R \in S
  <2>1. f[c] <= f[R]
    BY <1>1, <1>2, OrderedUp
  <2>2. f[T] >= f[c] + 1
    <3>1. f[c] \in Nat /\ f[R] \in Nat /\ f[T] = 2 * MAX_FREQ - 1 /\ MAX_FREQ \in Nat
      BY <1>1, <1>2, Sizes DEF Ordered
    <3> QED
      BY <1>1, <2>1, <3>1
  <2> QED
    BY <1>1, <1>2, <2>2, Sizes
<1>4. S \in SUBSET Nat
  BY <1>2, Sizes
<1>5. PICK n \in S : \A m \in S : n <= m
  <2> HIDE DEF S
  <2> QED
    BY <1>3, <1>4, LeastNumber
<1>6. good(n)
  <2>1. ASSUME NEW m \in c + 1..n PROVE f[m] < k
    <3>1. m - 1 \in c..R /\ (m - 1) + 1 = m /\ m - 1 < n /\ m \in 0..T
      BY <1>1, <1>2, Sizes
    <3>2. m - 1 \notin S
      BY <1>1, <1>5, <3>1, Sizes
    <3>3. f[m] \in Nat /\ k \in Nat
      BY <1>2, <3>1
    <3> QED
      BY <3>1, <3>2, <3>3
  <2> QED
    BY <2>1
<1> DEFINE o == CHOOSE j : good(j)
<1>7. good(o)
  <2> HIDE DEF good
  <2> QED
    BY <1>6, Zenon
<1>8. Overtaken(t, c, t.freq[c] + 1) = o
  BY Zenon DEF Overtaken, f
<1> HIDE DEF o
<1>9. f[o] = f[c]
  <2>1. CASE o = c
    BY <2>1
  <2>2. CASE o # c
    <3>1. o \in c + 1..o /\ o \in c..T /\ o \in 0..T
      BY <1>1, <1>2, <1>7, <2>2, Sizes
    <3>2. f[o] < k /\ f[c] <= f[o]
      BY <1>1, <1>2, <1>7, <3>1, OrderedUp
    <3>3. f[o] \in Nat /\ f[c] \in Nat
      BY <1>2, <3>1
    <3> QED
      BY <3>2, <3>3
  <2> QED
    BY <2>1, <2>2
<1> QED
  BY <1>1, <1>7, <1>8, <1>9 DEF Overtakes, f

LEMMA RaisedTree ==
  ASSUME NEW t, NEW c, Climbing(t, c), NEW n, n = Overtaken(t, c, t.freq[c] + 1)
  PROVE  /\ Raised(t, c).tree = [freq |-> NewFreq(t.freq, c, n), son |-> NewSon(t.son, c, n),
                                 prnt |-> NewPrnt(t.son, t.prnt, c, n)]
         /\ Raised(t, c).node = NewPrnt(t.son, t.prnt, c, n)[n]
<1> DEFINE f == t.freq
           s == t.son
           p == t.prnt
           w == IF n = c THEN t ELSE Swapped(t, c, n)
           h == [f EXCEPT ![c] = f[n], ![n] = f[c] + 1]
<1>1. /\ t = [freq |-> f, son |-> s, prnt |-> p] /\ Huffman(f, s, p, c)
      /\ Overtakes(f, s, p, c, n)
  BY OvertakenNode DEF Climbing, HuffmanTree
<1>2. /\ c \in 0..R /\ n \in 0..R /\ Arrays(f, s, p) /\ Linked(s, p) /\ Paired(s) /\ f[n] = f[c]
      /\ f \in [0..T -> Nat] /\ s \in [0..R -> Links] /\ p \in [Links -> 0..R]
      /\ c \in 0..T /\ n \in 0..T
  <2>1. c \in 0..R /\ n \in 0..R /\ c \in 0..T /\ n \in 0..T /\ f[n] = f[c]
    BY <1>1, Sizes DEF Overtakes
  <2> QED
    BY <1>1, <2>1 DEF Huffman, Arrays
<1>3. Raised(t, c) = [tree |-> [w EXCEPT !.freq = h], node |-> [w EXCEPT !.freq = h].prnt[n]]
  BY DEF Raised
<1>4. w = [freq |-> f, son |-> NewSon(s, c, n), prnt |-> NewPrnt(s, p, c, n)]
  <2>1. CASE n = c
    <3>1. NewSon(s, c, n) = s
      BY <1>2, <2>1 DEF NewSon
    <3>2. NewPrnt(s, p, c, n) = p
      <4>1. ASSUME NEW k \in Links PROVE NewPrnt(s, p, c, n)[k] = p[k]
        <5>1. CASE k \in Children(s[c])
          <6>1. p[k] = c
            BY <1>2, <5>1, ChildBelow
          <6> QED
            BY <1>2, <2>1, <5>1, <6>1 DEF NewPrnt
        <5>2. CASE k \notin Children(s[c])
          BY <1>2, <2>1, <5>2 DEF NewPrnt
        <5> QED
          BY <5>1, <5>2
      <4>2. NewPrnt(s, p, c, n) = [k \in Links |-> NewPrnt(s, p, c, n)[k]]
        BY <1>2 DEF NewPrnt
      <4>3. p = [k \in Links |-> p[k]]
        BY <1>2
      <4> QED
        BY <4>1, <4>2, <4>3
    <3> QED
      BY <1>1, <2>1, <3>1, <3>2
  <2>2. CASE n # c
    <3>1. Swapped(t, c, n) = [t EXCEPT !.son = NewSon(s, c, n), !.prnt = NewPrnt(s, p, c, n)]
      BY DEF Swapped, NewSon, NewPrnt
    <3>2. Swapped(t, c, n) = [freq |-> f, son |-> NewSon(s, c, n), prnt |-> NewPrnt(s, p, c, n)]
      BY <1>1, <3>1
    <3> QED
      BY <2>2, <3>2
  <2> QED
    BY <2>1, <2>2
<1>5. h = NewFreq(f, c, n)
  BY <1>2 DEF NewFreq
<1> HIDE DEF f, s, p, w, h
<1>6. [w EXCEPT !.freq = h] = [freq |-> NewFreq(f, c, n), son |-> NewSon(s, c, n),
                               prnt |-> NewPrnt(s, p, c, n)]
  BY <1>4, <1>5
<1> QED
  BY <1>3, <1>6 DEF f, s, p

\* A turn leaves the tree to the next one, further up, or as it should be.
LEMMA RaisedKeeps ==
  ASSUME NEW t, NEW c, Climbing(t, c)
  PROVE  \/ Raised(t, c).node = 0 /\ Resting(Raised(t, c).tree)
         \/ Raised(t, c).node \in c + 1..R /\ Climbing(Raised(t, c).tree, Raised(t, c).node)
<1> DEFINE f == t.freq
           s == t.son
           p == t.prnt
           n == Overtaken(t, c, t.freq[c] + 1)
           g == NewFreq(f, c, n)
           u == NewSon(s, c, n)
           q == NewPrnt(s, p, c, n)
           v == Raised(t, c).tree
<1>1. Huffman(f, s, p, c) /\ Overtakes(f, s, p, c, n) /\ f[R] < MAX_FREQ
  BY OvertakenNode DEF Climbing, HuffmanTree
<1>2. v = [freq |-> g, son |-> u, prnt |-> q] /\ Raised(t, c).node = q[n]
  BY RaisedTree
<1> HIDE DEF f, s, p, n, v
<1>3. c \in 0..R /\ n \in 0..R /\ c <= n /\ Arrays(f, s, p) /\ Linked(s, p) /\ Paired(s) /\ n \in Links /\ c \in Nat
  BY <1>1, Sizes DEF Overtakes, Huffman, Links
<1>4. Huffman(g, u, q, Following(p, n))
  BY <1>1, <1>3, NewArrays, NewLinks, NewOrder, NewSums, NewWeight DEF Huffman
<1>5. q[n] = p[n] /\ g[R] = IF R = n THEN f[c] + 1 ELSE f[R]
  <2>1. n \notin Children(s[c]) /\ n \notin Children(s[n])
    <3>1. n < T
      BY <1>3, Sizes
    <3> QED
      BY <1>3, <3>1, ChildBelow
  <2> QED
    BY <1>1, <1>3, <2>1, NewArrays, Sizes
<1> HIDE DEF g, u, q
<1>6. v.freq = g /\ v.son = u /\ v.prnt = q /\ v = [freq |-> v.freq, son |-> v.son, prnt |-> v.prnt]
  BY <1>2
<1>7. HuffmanTree(v, Following(p, n))
  BY <1>4, <1>6 DEF HuffmanTree
<1>8. CASE n = R
  <2>1. q[n] = 0
    BY <1>3, <1>5, <1>8 DEF Linked
  <2>2. g[R] <= MAX_FREQ
    <3>1. f[R] = f[c] /\ f[R] \in Nat
      BY <1>1, <1>3, <1>8, ArraysAt DEF Overtakes
    <3> QED
      BY <1>1, <1>5, <1>8, <3>1, Sizes
  <2> QED
    BY <1>2, <1>6, <1>7, <1>8, <2>1, <2>2 DEF Resting, Following, v
<1>9. CASE n # R
  <2>1. p[n] \in n + 1..R
    BY <1>3, <1>9, ParentAbove
  <2>2. p[n] \in c + 1..R /\ p[n] \in 0..R /\ Following(p, n) = p[n]
    BY <1>3, <1>9, <2>1, Sizes DEF Following
  <2>3. g[R] < MAX_FREQ
    BY <1>1, <1>5, <1>9
  <2> QED
    BY <1>2, <1>5, <1>6, <1>7, <2>2, <2>3 DEF Climbing, v
<1> QED
  BY <1>8, <1>9

TreeSet == [freq : [0..T -> Nat], son : [0..R -> Links], prnt : [Links -> 0..R]]

\* What a turn leaves: a tree, and the node whose turn is next, or 0.
Turns == {v \in [tree : TreeSet, node : 0..R] :
            IF v.node = 0 THEN Resting(v.tree) ELSE Climbing(v.tree, v.node)}

LEMMA RaisedTurn ==
  ASSUME NEW t, NEW c, Climbing(t, c)
  PROVE  Raised(t, c) \in Turns /\ (Raised(t, c).node = 0 \/ Raised(t, c).node > c)
<1> DEFINE v == Raised(t, c)
<1>1. \/ v.node = 0 /\ Resting(v.tree)
      \/ v.node \in c + 1..R /\ Climbing(v.tree, v.node)
  BY RaisedKeeps
<1>2. v = [tree |-> v.tree, node |-> v.node]
  BY DEF Raised
<1> HIDE DEF v
<1>3. v.tree \in TreeSet
  <2>1. PICK x : HuffmanTree(v.tree, x)
    BY <1>1 DEF Resting, Climbing
  <2> QED
    BY <2>1 DEF HuffmanTree, Huffman, Arrays, TreeSet
<1>4. c \in 0..R /\ c \in Nat
  BY Sizes DEF Climbing
<1>5. v.node \in 0..R /\ (v.node = 0 \/ v.node > c)
  BY <1>1, <1>4, Sizes
<1>6. IF v.node = 0 THEN Resting(v.tree) ELSE Climbing(v.tree, v.node)
  BY <1>1, <1>4
<1>7. v \in [tree : TreeSet, node : 0..R]
  BY <1>2, <1>3, <1>5
<1> QED
  BY <1>5, <1>6, <1>7 DEF Turns, v

LEMMA ClimbRests ==
  ASSUME NEW t, NEW c, Climbing(t, c)
  PROVE  Resting(Climb(t, c))
<1> DEFINE Above(v) == IF v.node = 0 THEN v ELSE Raised(v.tree, v.node)
           body(w) == [k \in 1..T |-> IF k = 1 THEN Raised(t, c) ELSE Above(w[k - 1])]
           turn == CHOOSE w : w = body(w)
           h == [k \in 1..R |-> [v \in Turns |-> Above(v)]]
<1>1. T \in Nat /\ R \in Nat /\ R > 0 /\ R = T - 1
  BY Sizes
<1>2. ASSUME NEW v \in Turns
      PROVE  /\ Above(v) \in Turns
             /\ (Above(v).node = 0 \/ (v.node # 0 /\ Above(v).node > v.node))
  <2>1. CASE v.node = 0
    <3>1. Above(v) = v
      BY <2>1, Zenon
    <3> HIDE DEF Above
    <3> QED
      BY <1>2, <2>1, <3>1
  <2>2. CASE v.node # 0
    <3>1. Climbing(v.tree, v.node)
      BY <1>2, <2>2 DEF Turns
    <3>2. Above(v) = Raised(v.tree, v.node)
      BY <2>2, Zenon
    <3> HIDE DEF Above
    <3> QED
      <4>1. Raised(v.tree, v.node) \in Turns
        BY <3>1, RaisedTurn
      <4>2. Raised(v.tree, v.node).node = 0 \/ Raised(v.tree, v.node).node > v.node
        BY <3>1, RaisedTurn
      <4> QED
        BY <2>2, <3>2, <4>1, <4>2
  <2> QED
    BY <2>1, <2>2
<1>3. Raised(t, c) \in Turns /\ Raised(t, c).node \in 0..R /\ (Raised(t, c).node = 0 \/ Raised(t, c).node >= 1)
  <2>1. c \in 0..R
    BY DEF Climbing
  <2>2. Raised(t, c) \in Turns
    BY RaisedTurn
  <2> QED
    BY <1>1, <2>1, <2>2, RaisedTurn DEF Turns
<1> HIDE DEF Above
<1>4. PICK f \in [0..R -> Turns] : Recurses(f, R, Raised(t, c), h)
  <2>1. h \in [1..R -> [Turns -> Turns]]
    BY <1>2
  <2> HIDE DEF h
  <2> QED
    BY <1>1, <1>3, <2>1, Recursion
<1>5. \A k \in 1..R : f[k] = Above(f[k - 1])
  <2> SUFFICES ASSUME NEW k \in 1..R PROVE f[k] = Above(f[k - 1])
    OBVIOUS
  <2>1. k - 1 \in 0..R
    BY <1>1
  <2>2. f[k] = h[k][f[k - 1]]
    <3> HIDE DEF h
    <3> QED
      BY <1>4, Zenon DEF Recurses
  <2>3. f[k - 1] \in Turns
    BY <1>4, <2>1
  <2> QED
    BY <2>2, <2>3
<1> DEFINE w0 == [k \in 1..T |-> f[k - 1]]
<1>6. w0 = body(w0)
  <2>1. ASSUME NEW k \in 1..T PROVE w0[k] = IF k = 1 THEN Raised(t, c) ELSE Above(w0[k - 1])
    <3>1. CASE k = 1
      <4>1. w0[1] = f[0]
        BY <1>1
      <4> QED
        BY <1>4, <3>1, <4>1 DEF Recurses
    <3>2. CASE k # 1
      <4>1. k - 1 \in 1..R /\ k - 1 \in 1..T /\ (k - 1) - 1 = k - 2
        BY <1>1, <3>2
      <4>2. w0[k] = f[k - 1] /\ w0[k - 1] = f[(k - 1) - 1]
        BY <4>1
      <4>3. f[k - 1] = Above(f[(k - 1) - 1])
        BY <1>5, <4>1, Zenon
      <4> QED
        BY <3>2, <4>2, <4>3
    <3> QED
      BY <3>1, <3>2
  <2>2. w0 = [k \in 1..T |-> w0[k]]
    OBVIOUS
  <2> HIDE DEF w0
  <2> QED
    BY <2>1, <2>2
<1>7. turn = body(turn)
  <2> HIDE DEF body, w0
  <2> QED
    BY <1>6, Zenon
<1> HIDE DEF turn
<1>8. turn[1] = Raised(t, c) /\ \A k \in 1..T : k # 1 => turn[k] = Above(turn[k - 1])
  BY <1>1, <1>7
<1> DEFINE S == {k \in Nat : k + 1 \in 1..T =>
                   /\ turn[k + 1] \in Turns
                   /\ turn[k + 1].node = 0 \/ turn[k + 1].node >= k + 1}
<1>9. 0 \in S
  BY <1>1, <1>3, <1>8
<1>10. ASSUME NEW k \in Nat, k \in S PROVE k + 1 \in S
  <2> SUFFICES ASSUME (k + 1) + 1 \in 1..T
               PROVE  /\ turn[(k + 1) + 1] \in Turns
                      /\ turn[(k + 1) + 1].node = 0 \/ turn[(k + 1) + 1].node >= (k + 1) + 1
    OBVIOUS
  <2>1. k + 1 \in 1..T
    BY <1>1
  <2>2. turn[k + 1] \in Turns /\ (turn[k + 1].node = 0 \/ turn[k + 1].node >= k + 1)
    BY <1>10, <2>1
  <2>3. (k + 1) + 1 # 1 /\ ((k + 1) + 1) - 1 = k + 1
    OBVIOUS
  <2>4. turn[(k + 1) + 1] = Above(turn[k + 1])
    BY <1>8, <2>3, Zenon
  <2> DEFINE a == turn[k + 1]
             b == turn[(k + 1) + 1]
  <2>5. a \in Turns /\ b = Above(a) /\ (a.node = 0 \/ a.node >= k + 1)
    BY <2>2, <2>4
  <2> HIDE DEF a, b, S
  <2>6. b \in Turns /\ (b.node = 0 \/ (a.node # 0 /\ b.node > a.node))
    BY <1>2, <2>5
  <2>7. a.node \in Nat /\ b.node \in Nat
    BY <1>1, <2>5, <2>6 DEF Turns
  <2>8. b.node = 0 \/ b.node >= (k + 1) + 1
    BY <2>5, <2>6, <2>7
  <2> QED
    BY <2>6, <2>8 DEF b
<1> HIDE DEF S
<1>11. Nat \subseteq S
  BY <1>9, <1>10, NatInd
<1>12. turn[T] \in Turns /\ (turn[T].node = 0 \/ turn[T].node >= T)
  <2>1. R \in S /\ R + 1 = T /\ R + 1 \in 1..T
    BY <1>1, <1>11
  <2> QED
    BY <2>1 DEF S
<1>13. turn[T].node = 0 /\ Resting(turn[T].tree)
  BY <1>1, <1>12 DEF Turns
<1>14. Climb(t, c) = turn[T].tree
  BY DEF Climb, turn, Above
<1> QED
  BY <1>13, <1>14

(***************************************************************************)
(* StartHuff.                                                              *)
(***************************************************************************)
\* All leaves are as frequent, and each pair of nodes has its parent in turn.
StartFreq(f) ==
  /\ f[T] = 2 * MAX_FREQ - 1
  /\ \A i \in 0..NCHAR - 1 : f[i] = 1
  /\ \A i \in NCHAR..R : f[i] = f[2 * (i - NCHAR)] + f[2 * (i - NCHAR) + 1]

LEMMA StartFreqDef ==
  StartHuff.freq = [i \in 0..T |-> StartHuff.freq[i]] /\ StartFreq(StartHuff.freq)
<1> DEFINE rule(f, i) == CASE i < NCHAR -> 1
                           [] i = T     -> 2 * MAX_FREQ - 1
                           [] OTHER     -> f[2 * (i - NCHAR)] + f[2 * (i - NCHAR) + 1]
           freq == CHOOSE f : f = [i \in 0..T |-> rule(f, i)]
           S == {m \in Nat : \E f : \A i \in 0..m : i <= T => f[i] = rule(f, i)}
<1>1. T \in Nat /\ NCHAR \in Nat /\ T = 2 * NCHAR - 1 /\ R = T - 1 /\ NCHAR > 1
  BY Sizes
<1>2. ASSUME NEW m \in Nat, NEW f, NEW g, \A i \in 0..m : i <= T => g[i] = f[i],
             NEW i \in 0..m + 1, i <= T
      PROVE  rule(g, i) = rule(f, i)
  <2>1. CASE i < NCHAR \/ i = T
    BY <2>1
  <2>2. CASE ~(i < NCHAR \/ i = T)
    <3>1. /\ 2 * (i - NCHAR) \in 0..m /\ 2 * (i - NCHAR) <= T
          /\ 2 * (i - NCHAR) + 1 \in 0..m /\ 2 * (i - NCHAR) + 1 <= T
      BY <1>1, <1>2, <2>2
    <3>2. g[2 * (i - NCHAR)] = f[2 * (i - NCHAR)] /\ g[2 * (i - NCHAR) + 1] = f[2 * (i - NCHAR) + 1]
      BY <1>2, <3>1
    <3> QED
      BY <3>2, Zenon
  <2> QED
    BY <2>1, <2>2
<1>3. 0 \in S
  <2>1. \A i \in 0..0 : [j \in 0..0 |-> 1][i] = rule([j \in 0..0 |-> 1], i)
    BY <1>1
  <2> QED
    BY <2>1
<1>4. ASSUME NEW m \in Nat, m \in S PROVE m + 1 \in S
  <2>1. PICK f : \A i \in 0..m : i <= T => f[i] = rule(f, i)
    BY <1>4
  <2> DEFINE g == [i \in 0..m + 1 |-> IF i <= m THEN f[i] ELSE rule(f, i)]
  <2>2. \A i \in 0..m : i <= T => g[i] = f[i]
    OBVIOUS
  <2> HIDE DEF rule
  <2>3. ASSUME NEW i \in 0..m + 1, i <= T PROVE g[i] = rule(g, i)
    <3>1. g[i] = rule(f, i)
      <4>1. CASE i <= m
        BY <2>1, <2>3, <4>1
      <4>2. CASE ~(i <= m)
        BY <4>2
      <4> QED
        BY <4>1, <4>2
    <3> HIDE DEF g
    <3>2. rule(g, i) = rule(f, i)
      BY <1>2, <2>2, <2>3
    <3> QED
      BY <3>1, <3>2
  <2> HIDE DEF g
  <2> QED
    BY <2>3
<1>5. T \in S
  <2> HIDE DEF S
  <2> QED
    BY <1>1, <1>3, <1>4, NatInd
<1>6. \E f : f = [i \in 0..T |-> rule(f, i)]
  <2>1. PICK f : \A i \in 0..T : f[i] = rule(f, i)
    BY <1>1, <1>5
  <2> DEFINE g == [i \in 0..T |-> f[i]]
  <2>2. \A i \in 0..T : i <= T => g[i] = f[i]
    OBVIOUS
  <2> HIDE DEF rule
  <2>3. ASSUME NEW i \in 0..T PROVE g[i] = rule(g, i)
    <3>1. rule(g, i) = rule(f, i)
      <4>1. i \in 0..T + 1 /\ i <= T
        BY <1>1
      <4> HIDE DEF g
      <4> QED
        BY <1>1, <1>2, <2>2, <4>1
    <3> QED
      BY <2>1, <3>1
  <2>4. g = [i \in 0..T |-> g[i]]
    OBVIOUS
  <2> HIDE DEF g
  <2>5. g = [i \in 0..T |-> rule(g, i)]
    BY <2>3, <2>4
  <2> QED
    BY <2>5
<1>7. freq = [i \in 0..T |-> rule(freq, i)]
  <2> HIDE DEF rule
  <2> QED
    BY <1>6, Zenon
<1>8. StartHuff.freq = freq
  BY DEF StartHuff
<1> HIDE DEF freq
<1>9. \A i \in 0..T : freq[i] = rule(freq, i)
  <2> HIDE DEF rule
  <2> QED
    BY <1>7, Zenon
<1>10. StartFreq(freq)
  <2>1. freq[T] = 2 * MAX_FREQ - 1
    BY <1>1, <1>9
  <2>2. \A i \in 0..NCHAR - 1 : freq[i] = 1
    BY <1>1, <1>9
  <2>3. \A i \in NCHAR..R : freq[i] = freq[2 * (i - NCHAR)] + freq[2 * (i - NCHAR) + 1]
    <3> SUFFICES ASSUME NEW i \in NCHAR..R
                 PROVE  freq[i] = freq[2 * (i - NCHAR)] + freq[2 * (i - NCHAR) + 1]
      OBVIOUS
    <3>1. i \in 0..T /\ ~(i < NCHAR) /\ i # T
      BY <1>1
    <3> QED
      BY <1>9, <3>1, Zenon
  <2> QED
    BY <2>1, <2>2, <2>3 DEF StartFreq
<1>11. freq = [i \in 0..T |-> freq[i]]
  <2> HIDE DEF rule
  <2>1. [i \in 0..T |-> rule(freq, i)] = [i \in 0..T |-> freq[i]]
    BY <1>9
  <2> QED
    BY <1>7, <2>1, Zenon
<1> QED
  BY <1>8, <1>10, <1>11

LEMMA StartUp ==
  ASSUME NEW f, StartFreq(f)
  PROVE  /\ \A i \in 0..T : f[i] \in Nat
         /\ \A i \in 0..R : f[i] >= 1 /\ (i # R => f[i] <= f[i + 1])
<1> DEFINE good(i) == f[i] \in Nat /\ f[i] >= 1 /\ (i # 0 => f[i - 1] <= f[i])
           S == {m \in Nat : \A i \in 0..m : i <= R => good(i)}
<1>1. T \in Nat /\ NCHAR \in Nat /\ T = 2 * NCHAR - 1 /\ R = T - 1 /\ NCHAR > 1 /\ 2 * NCHAR <= MAX_FREQ /\ MAX_FREQ \in Nat
  BY Sizes
<1>2. /\ f[T] = 2 * MAX_FREQ - 1
      /\ \A i \in 0..NCHAR - 1 : f[i] = 1
      /\ \A i \in NCHAR..R : f[i] = f[2 * (i - NCHAR)] + f[2 * (i - NCHAR) + 1]
  BY DEF StartFreq
<1>3. 0 \in S
  BY <1>1, <1>2
<1>4. ASSUME NEW m \in Nat, m \in S PROVE m + 1 \in S
  <2>1. \A i \in 0..m : i <= R => good(i)
    BY <1>4
  <2>2. ASSUME m + 1 <= R PROVE good(m + 1)
    <3>1. f[m] \in Nat /\ f[m] >= 1 /\ (m + 1) - 1 = m
      BY <1>1, <2>1, <2>2
    <3>2. CASE m + 1 < NCHAR
      BY <1>1, <1>2, <3>1, <3>2
    <3>3. CASE m + 1 >= NCHAR
      <4> DEFINE b == 2 * (m + 1 - NCHAR)
      <4>1. b \in 0..m /\ b + 1 \in 0..m /\ b <= R /\ b + 1 <= R
        BY <1>1, <2>2, <3>3
      <4>2. f[m + 1] = f[b] + f[b + 1]
        BY <1>1, <1>2, <2>2, <3>3
      <4>3. f[b] \in Nat /\ f[b] >= 1 /\ f[b + 1] \in Nat /\ f[b + 1] >= 1
        BY <2>1, <4>1
      <4>4. CASE m + 1 = NCHAR
        <5>1. f[m] = 1
          BY <1>1, <1>2, <4>4
        <5> QED
          BY <3>1, <4>2, <4>3, <5>1
      <4>5. CASE m + 1 > NCHAR
        <5> DEFINE a == 2 * (m - NCHAR)
        <5>1. a \in 0..m /\ a + 1 \in 0..m /\ a <= R /\ a + 1 <= R /\ b = a + 2 /\ a \in Nat
          BY <1>1, <2>2, <4>5
        <5>2. f[m] = f[a] + f[a + 1]
          BY <1>1, <1>2, <2>2, <4>5
        <5> HIDE DEF a, b
        <5>3. f[a] \in Nat /\ f[a + 1] \in Nat
          BY <2>1, <5>1
        <5>4. f[a + 1] <= f[b]
          <6>1. b - 1 = a + 1 /\ b # 0
            BY <5>1
          <6> QED
            BY <2>1, <4>1, <6>1
        <5>5. f[a] <= f[a + 1]
          <6>1. (a + 1) - 1 = a /\ a + 1 # 0
            BY <5>1
          <6> QED
            BY <2>1, <5>1, <6>1
        <5>6. f[b] <= f[b + 1]
          <6>1. (b + 1) - 1 = b /\ b + 1 # 0
            BY <4>1
          <6> QED
            BY <2>1, <4>1, <6>1
        <5> QED
          BY <3>1, <4>2, <4>3, <5>2, <5>3, <5>4, <5>5, <5>6
      <4> QED
        BY <1>1, <3>3, <4>4, <4>5
    <3> QED
      BY <1>1, <3>2, <3>3
  <2> HIDE DEF good
  <2> QED
    BY <2>1, <2>2
<1> HIDE DEF good
<1>5. Nat \subseteq S
  <2> HIDE DEF S
  <2> QED
    BY <1>3, <1>4, NatInd
<1>6. \A i \in 0..R : good(i)
  BY <1>1, <1>5
<1> HIDE DEF S
<1>7. \A i \in 0..T : f[i] \in Nat
  BY <1>1, <1>2, <1>6 DEF good
<1>8. ASSUME NEW i \in 0..R, i # R PROVE f[i] <= f[i + 1]
  <2>1. i + 1 \in 0..R /\ i + 1 # 0 /\ (i + 1) - 1 = i
    BY <1>1, <1>8
  <2> QED
    BY <1>6, <2>1 DEF good
<1> QED
  BY <1>6, <1>7, <1>8 DEF good

\* The root is as frequent as there are symbols: of the nodes so far, those that have
\* no parent yet always are, together.
LEMMA StartRoot ==
  ASSUME NEW f, StartFreq(f)
  PROVE  f[R] = NCHAR
<1> DEFINE a == [m \in 1..T |-> f[m - 1]]
           P(m) == Total(SubSeq(a, 1, m))
<1>1. T \in Nat /\ NCHAR \in Nat /\ T = 2 * NCHAR - 1 /\ R = T - 1 /\ NCHAR > 1
  BY Sizes
<1>2. a \in Seq(Nat) /\ Len(a) = T /\ \A m \in 0..R : a[m + 1] = f[m]
  <2>1. \A m \in 1..T : m - 1 \in 0..T
    BY <1>1
  <2>2. \A m \in 1..T : f[m - 1] \in Nat
    BY <2>1, StartUp
  <2>3. \A m \in 0..R : m + 1 \in 1..T /\ (m + 1) - 1 = m
    BY <1>1
  <2> QED
    BY <1>1, <2>2, <2>3
<1> HIDE DEF a
<1>3. ASSUME NEW m \in 0..R PROVE P(m) \in Nat /\ P(m + 1) = P(m) + f[m] /\ f[m] \in Nat
  <2>1. m \in Nat /\ m < Len(a)
    BY <1>1, <1>2
  <2>2. P(m) \in Nat /\ P(m + 1) = P(m) + a[m + 1]
    BY <1>2, <2>1, TotalPrefix
  <2>3. f[m] \in Nat
    <3>1. m \in 0..T
      BY <1>1
    <3> QED
      BY <3>1, StartUp
  <2> QED
    BY <1>2, <2>2, <2>3
<1>4. P(0) = 0
  <2>1. SubSeq(a, 1, 0) = <<>>
    BY <1>2
  <2> QED
    BY <2>1, TotalEmpty
<1> HIDE DEF P
<1> DEFINE S == {m \in Nat : m <= NCHAR => P(m) = m}
           U == {j \in Nat : j < NCHAR => P(NCHAR + j) = P(2 * j) + NCHAR /\ P(2 * j) \in Nat}
<1>5. Nat \subseteq S
  <2>1. 0 \in S
    BY <1>4
  <2>2. ASSUME NEW m \in Nat, m \in S PROVE m + 1 \in S
    <3> SUFFICES ASSUME m + 1 <= NCHAR PROVE P(m + 1) = m + 1
      OBVIOUS
    <3>1. P(m) = m /\ m \in 0..R /\ m \in 0..NCHAR - 1
      BY <1>1, <2>2
    <3>2. f[m] = 1
      BY <3>1 DEF StartFreq
    <3> QED
      BY <1>3, <3>1, <3>2
  <2> HIDE DEF S
  <2> QED
    BY <2>1, <2>2, NatInd
<1>6. P(NCHAR) = NCHAR
  BY <1>1, <1>5
<1>7. Nat \subseteq U
  <2>1. 0 \in U
    BY <1>1, <1>4, <1>6
  <2>2. ASSUME NEW j \in Nat, j \in U PROVE j + 1 \in U
    <3> SUFFICES ASSUME j + 1 < NCHAR
                 PROVE  P(NCHAR + (j + 1)) = P(2 * (j + 1)) + NCHAR /\ P(2 * (j + 1)) \in Nat
      OBVIOUS
    <3> DEFINE k == NCHAR + j
               l == 2 * j
    <3>1. P(k) = P(l) + NCHAR /\ P(l) \in Nat
      BY <1>1, <2>2
    <3>2. /\ k \in 0..R /\ k \in NCHAR..R /\ 2 * (k - NCHAR) = l
          /\ l \in 0..R /\ l + 1 \in 0..R /\ l \in Nat
          /\ NCHAR + (j + 1) = k + 1 /\ 2 * (j + 1) = (l + 1) + 1
      BY <1>1
    <3> HIDE DEF k, l, U
    <3>3. f[k] = f[l] + f[l + 1]
      BY <3>2 DEF StartFreq
    <3>4. P(k + 1) = P(k) + f[k] /\ P(l + 1) = P(l) + f[l] /\ P((l + 1) + 1) = P(l + 1) + f[l + 1]
      BY <1>3, <3>2
    <3>5. f[l] \in Nat /\ f[l + 1] \in Nat
      BY <1>3, <3>2
    <3>6. P(k + 1) = P((l + 1) + 1) + NCHAR /\ P((l + 1) + 1) \in Nat
      BY <1>1, <3>1, <3>3, <3>4, <3>5
    <3> QED
      BY <3>2, <3>6
  <2> HIDE DEF U
  <2> QED
    BY <2>1, <2>2, NatInd
<1>8. P(R + 1) = P(R) + NCHAR
  <2>1. NCHAR - 1 \in U /\ NCHAR - 1 < NCHAR /\ NCHAR + (NCHAR - 1) = R + 1 /\ 2 * (NCHAR - 1) = R
    <3>1. NCHAR - 1 \in Nat
      BY <1>1
    <3>2. NCHAR - 1 \in U
      <4> HIDE DEF U
      <4> QED
        BY <1>7, <3>1
    <3> HIDE DEF U
    <3> QED
      BY <1>1, <3>2
  <2> QED
    BY <2>1
<1>9. P(R + 1) = P(R) + f[R] /\ P(R) \in Nat /\ f[R] \in Nat
  BY <1>1, <1>3
<1> QED
  BY <1>1, <1>8, <1>9

\* A sequence of n ones and then zeros.
LEMMA TotalOnes ==
  ASSUME NEW n \in Nat, NEW m \in Nat, n <= m, NEW b \in Seq(Nat), Len(b) = m,
         \A k \in 1..m : b[k] = IF k <= n THEN 1 ELSE 0
  PROVE  Total(b) = n
<1> DEFINE P(k) == Total(SubSeq(b, 1, k))
           S == {k \in Nat : k <= m => P(k) = IF k <= n THEN k ELSE n}
<1>1. 0 \in S
  <2>1. SubSeq(b, 1, 0) = <<>>
    OBVIOUS
  <2>2. P(0) = 0
    BY <2>1, TotalEmpty
  <2> HIDE DEF P
  <2> QED
    BY <2>2
<1>2. ASSUME NEW k \in Nat, k \in S PROVE k + 1 \in S
  <2> SUFFICES ASSUME k + 1 <= m PROVE P(k + 1) = IF k + 1 <= n THEN k + 1 ELSE n
    OBVIOUS
  <2>1. P(k) = IF k <= n THEN k ELSE n
    BY <1>2
  <2>2. P(k + 1) = P(k) + b[k + 1]
    BY TotalPrefix
  <2>3. b[k + 1] = IF k + 1 <= n THEN 1 ELSE 0
    OBVIOUS
  <2> HIDE DEF P, S
  <2>4. CASE k + 1 <= n
    BY <2>1, <2>2, <2>3, <2>4
  <2>5. CASE k >= n
    BY <2>1, <2>2, <2>3, <2>5
  <2> QED
    BY <2>4, <2>5
<1>3. P(m) = n
  <2> HIDE DEF S
  <2>1. m \in S
    BY <1>1, <1>2, NatInd
  <2> QED
    BY <2>1 DEF S
<1>4. SubSeq(b, 1, m) = b
  OBVIOUS
<1> QED
  BY <1>3, <1>4

LEMMA StartRests == Resting(StartHuff)
<1> DEFINE f == StartHuff.freq
           s == StartHuff.son
           p == StartHuff.prnt
<1>1. T \in Nat /\ NCHAR \in Nat /\ T = 2 * NCHAR - 1 /\ R = T - 1 /\ NCHAR > 1 /\ 2 * NCHAR <= MAX_FREQ /\ MAX_FREQ \in Nat
  BY Sizes
<1>2. StartHuff = [freq |-> f, son |-> s, prnt |-> p]
  BY DEF StartHuff
<1>3. s = [i \in 0..R |-> IF i < NCHAR THEN i + T ELSE 2 * (i - NCHAR)]
  BY DEF StartHuff
<1>4. p = [k \in Links |-> CASE k >= T -> k - T
                             [] k = R  -> 0
                             [] OTHER  -> NCHAR + k \div 2]
  BY DEF StartHuff, Links
<1>5. f = [i \in 0..T |-> f[i]] /\ StartFreq(f) /\ f[R] = NCHAR
  BY StartFreqDef, StartRoot
<1>6. \A i \in 0..T : f[i] \in Nat
  BY <1>5, StartUp
<1> HIDE DEF f, s, p
<1>7. Ordered(f)
  <2>1. \A i \in 0..R : f[i] >= 1 /\ (i # R => f[i] <= f[i + 1])
    BY <1>5, StartUp
  <2>2. f[T] = 2 * MAX_FREQ - 1
    BY <1>5 DEF StartFreq
  <2>3. f[R] <= f[R + 1]
    <3>1. R + 1 = T
      BY <1>1
    <3> QED
      BY <1>1, <1>5, <2>2, <3>1
  <2> QED
    BY <2>1, <2>2, <2>3 DEF Ordered
<1>8. Arrays(f, s, p)
  <2>1. f \in [0..T -> Nat]
    BY <1>5, <1>6
  <2>2. s \in [0..R -> Links]
    BY <1>1, <1>3 DEF Links
  <2>3. p \in [Links -> 0..R]
    BY <1>1, <1>4 DEF Links
  <2> QED
    BY <2>1, <2>2, <2>3 DEF Arrays
<1>9. Linked(s, p)
  <2>1. p[R] = 0
    BY <1>1, <1>4 DEF Links
  <2>2. ASSUME NEW k \in Links, NEW i \in 0..R, k # R PROVE p[k] = i <=> k \in Children(s[i])
    <3>1. k \in Nat /\ k <= T + NCHAR - 1 /\ i \in Nat /\ i <= R
      BY <1>1 DEF Links
    <3>2. s[i] = (IF i < NCHAR THEN i + T ELSE 2 * (i - NCHAR)) /\ p[k] = IF k >= T THEN k - T ELSE NCHAR + k \div 2
      BY <1>3, <1>4, <2>2
    <3>3. CASE i < NCHAR
      <4>1. Children(s[i]) = {i + T}
        BY <1>1, <3>1, <3>2, <3>3 DEF Children
      <4> QED
        BY <1>1, <3>1, <3>2, <3>3, <4>1
    <3>4. CASE i >= NCHAR
      <4>1. Children(s[i]) = {2 * (i - NCHAR), 2 * (i - NCHAR) + 1}
        BY <1>1, <3>1, <3>2, <3>4 DEF Children
      <4>2. CASE k >= T
        BY <1>1, <3>1, <3>2, <3>4, <4>1, <4>2
      <4>3. CASE k < T
        <5>1. p[k] = i <=> k \div 2 = i - NCHAR
          BY <1>1, <3>1, <3>2, <3>4, <4>3
        <5>2. k \div 2 = i - NCHAR <=> (k = 2 * (i - NCHAR) \/ k = 2 * (i - NCHAR) + 1)
          BY <1>1, <3>1
        <5> QED
          BY <4>1, <5>1, <5>2
      <4> QED
        BY <1>1, <3>1, <4>2, <4>3
    <3> QED
      BY <1>1, <3>1, <3>3, <3>4
  <2> QED
    BY <2>1, <2>2 DEF Linked
<1>10. Paired(s)
  <2> SUFFICES ASSUME NEW i \in 0..R, s[i] < T PROVE s[i] + 1 < i /\ s[i] % 2 = 0
    BY DEF Paired
  <2>1. ~(i < NCHAR) /\ s[i] = 2 * (i - NCHAR)
    BY <1>1, <1>3
  <2> QED
    BY <1>1, <2>1
<1>11. Summed(f, s, T)
  <2> SUFFICES ASSUME NEW i \in 0..R, s[i] < T PROVE f[i] + Short(i, T) = f[s[i]] + f[s[i] + 1]
    BY DEF Summed
  <2>1. i \in NCHAR..R /\ s[i] = 2 * (i - NCHAR)
    BY <1>1, <1>3
  <2>2. f[i] = f[s[i]] + f[s[i] + 1]
    BY <1>5, <2>1 DEF StartFreq
  <2>3. Short(i, T) = 0 /\ f[i] \in Nat
    BY <1>1, <1>6 DEF Short
  <2> QED
    BY <2>2, <2>3
<1>12. Weighed(f, s, T)
  <2> DEFINE b == LeafFreqs(f, s)
  <2>1. /\ b \in Seq(Nat) /\ Len(b) = T
        /\ \A m \in 1..T : b[m] = IF s[m - 1] >= T THEN f[m - 1] ELSE 0
    BY <1>8, LeafFreqsType
  <2> HIDE DEF b
  <2>2. ASSUME NEW m \in 1..T PROVE b[m] = IF m <= NCHAR THEN 1 ELSE 0
    <3>1. m - 1 \in 0..R /\ (m <= NCHAR <=> m - 1 < NCHAR)
      BY <1>1
    <3>2. s[m - 1] >= T <=> m <= NCHAR
      BY <1>1, <1>3, <3>1
    <3>3. m <= NCHAR => f[m - 1] = 1
      <4>1. m <= NCHAR => m - 1 \in 0..NCHAR - 1
        BY <1>1
      <4> QED
        BY <1>5, <4>1 DEF StartFreq
    <3> QED
      BY <2>1, <3>2, <3>3
  <2>3. Total(b) = NCHAR
    BY <1>1, <2>1, <2>2, TotalOnes
  <2>4. T \notin 0..R
    BY <1>1
  <2> QED
    BY <1>1, <1>5, <2>3, <2>4 DEF Weighed, b
<1>13. f[R] <= MAX_FREQ
  BY <1>1, <1>5
<1> QED
  BY <1>2, <1>7, <1>8, <1>9, <1>10, <1>11, <1>12, <1>13
     DEF Resting, HuffmanTree, Huffman, f, s, p

(***************************************************************************)
(* reconst().                                                              *)
(***************************************************************************)
NodeSet == [freq : Nat, son : Nat]

LEMMA InsertAtIs ==
  ASSUME NEW X, NEW s \in Seq(X), NEW e \in X, NEW k \in 0..Len(s)
  PROVE  /\ InsertAt(s, k + 1, e) \in Seq(X) /\ Len(InsertAt(s, k + 1, e)) = Len(s) + 1
         /\ InsertAt(s, k + 1, e)[k + 1] = e
         /\ OneMore(s, InsertAt(s, k + 1, e), Len(s), k)
<1> DEFINE a == SubSeq(s, 1, k)
           b == SubSeq(s, k + 1, Len(s))
           n == Len(s)
           all == (a \o <<e>>) \o b
<1>1. /\ a \in Seq(X) /\ b \in Seq(X) /\ Len(b) = n - k /\ n \in Nat /\ k \in Nat /\ k <= n
      /\ \A i \in 1..n - k : b[i] = s[k + i]
  BY Halves
<1>2. Len(a) = k /\ \A i \in 1..k : a[i] = s[i]
  BY <1>1
<1>3. InsertAt(s, k + 1, e) = all
  <2>1. (k + 1) - 1 = k
    OBVIOUS
  <2> QED
    BY <2>1, Zenon DEF InsertAt
<1> HIDE DEF a, b, n
<1>4. /\ a \o <<e>> \in Seq(X) /\ Len(a \o <<e>>) = k + 1
      /\ \A i \in 1..k : (a \o <<e>>)[i] = a[i]
      /\ (a \o <<e>>)[k + 1] = e
  <2>1. /\ <<e>> \in Seq(X) /\ Len(<<e>>) = 1 /\ <<e>>[1] = e
    OBVIOUS
  <2> DEFINE d == <<e>>
  <2> HIDE DEF d
  <2>2. d \in Seq(X) /\ Len(d) = 1 /\ d[1] = e
    BY <2>1 DEF d
  <2>3. /\ a \o d \in Seq(X) /\ Len(a \o d) = Len(a) + Len(d)
        /\ \A i \in 1..Len(a) + Len(d) : (a \o d)[i] = IF i <= Len(a) THEN a[i] ELSE d[i - Len(a)]
    BY <1>1, <2>2, ConcatProperties
  <2>4. /\ \A i \in 1..k : (a \o d)[i] = a[i]
        /\ (a \o d)[k + 1] = d[1] /\ Len(a \o d) = k + 1
    BY <1>1, <1>2, <2>2, <2>3
  <2> QED
    BY <2>2, <2>3, <2>4 DEF d
<1> DEFINE c == a \o <<e>>
<1> HIDE DEF c
<1>5. /\ c \in Seq(X) /\ Len(c) = k + 1 /\ all = c \o b /\ c[k + 1] = e
      /\ \A i \in 1..k : c[i] = a[i]
  BY <1>4 DEF c
<1> HIDE DEF all
<1>6. /\ all \in Seq(X) /\ Len(all) = n + 1
      /\ \A i \in 1..k + 1 : all[i] = c[i]
      /\ \A i \in 1..n - k : all[(k + 1) + i] = b[i]
  <2>1. /\ c \o b \in Seq(X) /\ Len(c \o b) = Len(c) + Len(b)
        /\ \A i \in 1..Len(c) + Len(b) : (c \o b)[i] = IF i <= Len(c) THEN c[i] ELSE b[i - Len(c)]
    BY <1>1, <1>5, ConcatProperties
  <2>2. Len(c) = k + 1 /\ Len(b) = n - k /\ Len(c) + Len(b) = n + 1
    BY <1>1, <1>5
  <2>3. \A i \in 1..n - k : (c \o b)[(k + 1) + i] = b[i]
    <3> SUFFICES ASSUME NEW i \in 1..n - k PROVE (c \o b)[(k + 1) + i] = b[i]
      OBVIOUS
    <3>1. (k + 1) + i \in 1..Len(c) + Len(b) /\ ~((k + 1) + i <= Len(c)) /\ ((k + 1) + i) - Len(c) = i
      BY <1>1, <2>2
    <3> QED
      BY <2>1, <3>1
  <2>4. \A i \in 1..k + 1 : (c \o b)[i] = c[i]
    BY <1>1, <2>1, <2>2
  <2> QED
    BY <1>5, <2>1, <2>2, <2>3, <2>4
<1>7. OneMore(s, all, n, k)
  <2>1. ASSUME NEW i \in 1..k PROVE all[i] = s[i]
    BY <1>1, <1>2, <1>5, <1>6
  <2>2. ASSUME NEW i \in k + 1..n PROVE all[i + 1] = s[i]
    <3>1. i - k \in 1..n - k /\ (k + 1) + (i - k) = i + 1 /\ k + (i - k) = i
      <4>1. i \in Nat /\ k \in Nat /\ n \in Nat /\ k + 1 <= i /\ i <= n
        BY <1>1
      <4> HIDE DEF n
      <4> QED
        BY <4>1
    <3>2. all[(k + 1) + (i - k)] = b[i - k] /\ b[i - k] = s[k + (i - k)]
      BY <1>1, <1>6, <3>1, Zenon
    <3> QED
      BY <3>1, <3>2
  <2> QED
    BY <2>1, <2>2 DEF OneMore
<1>8. all[k + 1] = e
  BY <1>1, <1>5, <1>6
<1> QED
  BY <1>3, <1>6, <1>7, <1>8 DEF n

Freqs(z) == [m \in 1..Len(z) |-> z[m].freq]
Leaves(z) == [m \in 1..Len(z) |-> IF z[m].son >= T THEN z[m].freq ELSE 0]

LEMMA FreqsType ==
  ASSUME NEW z \in Seq(NodeSet)
  PROVE  /\ Freqs(z) \in Seq(Nat) /\ Len(Freqs(z)) = Len(z) /\ Len(z) \in Nat
         /\ Leaves(z) \in Seq(Nat) /\ Len(Leaves(z)) = Len(z)
         /\ \A m \in 1..Len(z) : /\ z[m] = [freq |-> z[m].freq, son |-> z[m].son]
                                 /\ z[m].freq \in Nat /\ z[m].son \in Nat
                                 /\ Freqs(z)[m] = z[m].freq
                                 /\ Leaves(z)[m] = IF z[m].son >= T THEN z[m].freq ELSE 0
<1>1. Len(z) \in Nat /\ \A m \in 1..Len(z) : z[m] \in NodeSet
  OBVIOUS
<1>2. \A m \in 1..Len(z) : /\ z[m] = [freq |-> z[m].freq, son |-> z[m].son]
                           /\ z[m].freq \in Nat /\ z[m].son \in Nat
  BY <1>1 DEF NodeSet
<1>3. \A m \in 1..Len(z) : (IF z[m].son >= T THEN z[m].freq ELSE 0) \in Nat
  BY <1>2
<1>4. Freqs(z) \in Seq(Nat) /\ Len(Freqs(z)) = Len(z) /\ \A m \in 1..Len(z) : Freqs(z)[m] = z[m].freq
  <2>1. \A m \in 1..Len(z) : z[m].freq \in Nat
    BY <1>2
  <2> QED
    BY <1>1, <2>1 DEF Freqs
<1>5. /\ Leaves(z) \in Seq(Nat) /\ Len(Leaves(z)) = Len(z)
      /\ \A m \in 1..Len(z) : Leaves(z)[m] = IF z[m].son >= T THEN z[m].freq ELSE 0
  BY <1>1, <1>3 DEF Leaves
<1> QED
  BY <1>1, <1>2, <1>4, <1>5

\* The nodes after j inner ones have been put in.
Rising(z) ==
  \A m \in 1..Len(z) : z[m].freq >= 1 /\ (m # Len(z) => z[m].freq <= z[m + 1].freq)

Hanging(z, j) ==
  /\ \A m \in 1..Len(z) : \/ z[m].son \in T..T + NCHAR - 1
                          \/ z[m].son \in 0..2 * j - 1 /\ z[m].son % 2 = 0
  /\ \A k \in T..T + NCHAR - 1 : \E m \in 1..Len(z) : z[m].son = k
  /\ \A q \in 0..j - 1 : \E m \in 1..Len(z) : z[m].son = 2 * q
  /\ \A m, n \in 1..Len(z) : z[m].son = z[n].son => m = n

Adding(z) ==
  \A m \in 1..Len(z) : z[m].son < T =>
    /\ z[m].son + 2 < m
    /\ z[m].freq = z[z[m].son + 1].freq + z[z[m].son + 2].freq

Forest(z, j, sum) ==
  /\ z \in Seq(NodeSet) /\ Len(z) = NCHAR + j
  /\ Rising(z) /\ Hanging(z, j) /\ Adding(z)
  /\ Total(Freqs(z)) = sum + Total(SubSeq(Freqs(z), 1, 2 * j))
  /\ Total(Leaves(z)) = sum

\* Where a node comes to be when one is put in after the first k.
Shifted(m, k) == IF m <= k THEN m ELSE m + 1

LEMMA WithInnerIs ==
  ASSUME NEW j \in Nat, j < NCHAR - 1, NEW sum \in Nat, NEW z, Forest(z, j, sum)
  PROVE  \E k \in 2 * j + 2..Len(z), w \in NodeSet :
           /\ w = [freq |-> z[2 * j + 1].freq + z[2 * j + 2].freq, son |-> 2 * j]
           /\ z[k].freq <= w.freq /\ (k # Len(z) => w.freq < z[k + 1].freq)
           /\ WithInner(z, 2 * j) \in Seq(NodeSet) /\ Len(WithInner(z, 2 * j)) = Len(z) + 1
           /\ WithInner(z, 2 * j)[k + 1] = w
           /\ OneMore(z, WithInner(z, 2 * j), Len(z), k)
<1> DEFINE i == 2 * j
           f == z[i + 1].freq + z[i + 2].freq
           S == {m \in 1..Len(z) : z[m].freq <= f}
           k == Max(S)
           w == [freq |-> f, son |-> i]
<1>1. z \in Seq(NodeSet) /\ Len(z) = NCHAR + j /\ NCHAR \in Nat /\ NCHAR > 1
  BY Sizes DEF Forest
<1>2. \A m \in 1..Len(z) : z[m].freq \in Nat
  BY <1>1, FreqsType
<1>3. i \in Nat /\ i + 1 \in 1..Len(z) /\ i + 2 \in 1..Len(z) /\ Len(z) \in Nat
  BY <1>1
<1>4. z[i + 1].freq \in Nat /\ z[i + 2].freq \in Nat
  BY <1>2, <1>3
<1>5. f \in Nat /\ i + 2 \in S
  BY <1>3, <1>4
<1>6. S \in SUBSET (0..Len(z)) /\ S # {}
  BY <1>3, <1>5
<1> HIDE DEF f
<1>7. k \in S /\ \A m \in S : k >= m
  <2> HIDE DEF S
  <2> QED
    BY <1>3, <1>6, MaxMember
<1> HIDE DEF k
<1>8. k \in 1..Len(z) /\ z[k].freq <= f /\ k >= i + 2
  BY <1>5, <1>7
<1>9. k # Len(z) => f < z[k + 1].freq
  <2> SUFFICES ASSUME k # Len(z) PROVE f < z[k + 1].freq
    OBVIOUS
  <2>1. k + 1 \in 1..Len(z) /\ ~(k >= k + 1)
    BY <1>3, <1>8
  <2>2. k + 1 \notin S
    BY <1>7, <2>1
  <2>3. z[k + 1].freq \in Nat
    BY <1>2, <2>1
  <2> QED
    BY <1>5, <2>1, <2>2, <2>3
<1>10. w \in NodeSet
  BY <1>3, <1>5 DEF NodeSet
<1>11. WithInner(z, i) = InsertAt(z, k + 1, w)
  BY DEF WithInner, f, k
<1>12. k \in 0..Len(z) /\ k \in i + 2..Len(z)
  BY <1>3, <1>8
<1>13. w.freq = f
  OBVIOUS
<1> HIDE DEF S, w
<1>14. /\ InsertAt(z, k + 1, w) \in Seq(NodeSet) /\ Len(InsertAt(z, k + 1, w)) = Len(z) + 1
       /\ InsertAt(z, k + 1, w)[k + 1] = w
       /\ OneMore(z, InsertAt(z, k + 1, w), Len(z), k)
  BY <1>1, <1>10, <1>12, InsertAtIs
<1>15. w = [freq |-> z[i + 1].freq + z[i + 2].freq, son |-> i]
  BY DEF w, f
<1> HIDE DEF i
<1>16. /\ z[k].freq <= w.freq /\ (k # Len(z) => w.freq < z[k + 1].freq)
  BY <1>8, <1>9, <1>13
<1>17. \E kk \in i + 2..Len(z), ww \in NodeSet :
           /\ ww = [freq |-> z[i + 1].freq + z[i + 2].freq, son |-> i]
           /\ z[kk].freq <= ww.freq /\ (kk # Len(z) => ww.freq < z[kk + 1].freq)
           /\ WithInner(z, i) \in Seq(NodeSet) /\ Len(WithInner(z, i)) = Len(z) + 1
           /\ WithInner(z, i)[kk + 1] = ww
           /\ OneMore(z, WithInner(z, i), Len(z), kk)
  BY <1>10, <1>11, <1>12, <1>14, <1>15, <1>16, Zenon
<1> QED
  BY <1>17 DEF i

\* An inner node of a pair that has none yet makes the forest one node larger.
Grown(z, y, j, k, w) ==
  /\ k \in 2 * j + 2..Len(z) /\ w \in NodeSet
  /\ w = [freq |-> z[2 * j + 1].freq + z[2 * j + 2].freq, son |-> 2 * j]
  /\ z[k].freq <= w.freq /\ (k # Len(z) => w.freq < z[k + 1].freq)
  /\ y \in Seq(NodeSet) /\ Len(y) = Len(z) + 1
  /\ y[k + 1] = w
  /\ OneMore(z, y, Len(z), k)

LEMMA GrownAt ==
  ASSUME NEW j \in Nat, j < NCHAR - 1, NEW sum \in Nat, NEW z, Forest(z, j, sum),
         NEW y, NEW k, NEW w, Grown(z, y, j, k, w)
  PROVE  /\ \A m \in 1..Len(z) : Shifted(m, k) \in 1..Len(y) /\ y[Shifted(m, k)] = z[m]
         /\ \A m \in 1..Len(y) : m # k + 1 => \E o \in 1..Len(z) : m = Shifted(o, k)
         /\ \A m \in 1..k : y[m] = z[m]
         /\ k \in Nat /\ k <= Len(z) /\ 2 * j + 2 <= k /\ Len(z) \in Nat /\ Len(z) = NCHAR + j
<1>1. Len(z) \in Nat /\ Len(z) = NCHAR + j
  BY Sizes DEF Forest
<1>2. k \in Nat /\ k <= Len(z) /\ 2 * j + 2 <= k /\ Len(y) = Len(z) + 1
  BY <1>1 DEF Grown
<1>3. /\ \A m \in 1..k : y[m] = z[m]
      /\ \A m \in k + 1..Len(z) : y[m + 1] = z[m]
  BY DEF Grown, OneMore
<1>4. ASSUME NEW m \in 1..Len(z) PROVE Shifted(m, k) \in 1..Len(y) /\ y[Shifted(m, k)] = z[m]
  <2>1. CASE m <= k
    BY <1>1, <1>2, <1>3, <2>1 DEF Shifted
  <2>2. CASE ~(m <= k)
    BY <1>1, <1>2, <1>3, <2>2 DEF Shifted
  <2> QED
    BY <2>1, <2>2
<1>5. ASSUME NEW m \in 1..Len(y), m # k + 1 PROVE \E o \in 1..Len(z) : m = Shifted(o, k)
  <2>1. CASE m <= k
    <3>1. m \in 1..Len(z) /\ m = Shifted(m, k)
      BY <1>1, <1>2, <2>1 DEF Shifted
    <3> QED
      BY <3>1
  <2>2. CASE ~(m <= k)
    <3>1. m - 1 \in 1..Len(z) /\ m = Shifted(m - 1, k)
      BY <1>1, <1>2, <1>5, <2>2 DEF Shifted
    <3> QED
      BY <3>1
  <2> QED
    BY <2>1, <2>2
<1> QED
  BY <1>1, <1>2, <1>3, <1>4, <1>5

LEMMA GrownRising ==
  ASSUME NEW j \in Nat, j < NCHAR - 1, NEW sum \in Nat, NEW z, Forest(z, j, sum),
         NEW y, NEW k, NEW w, Grown(z, y, j, k, w)
  PROVE  Rising(y)
<1>1. /\ k \in Nat /\ k <= Len(z) /\ 2 * j + 2 <= k /\ Len(z) \in Nat /\ Len(y) = Len(z) + 1
      /\ \A m \in 1..k : y[m] = z[m]
  <2>1. /\ k \in Nat /\ k <= Len(z) /\ 2 * j + 2 <= k /\ Len(z) \in Nat
        /\ \A m \in 1..k : y[m] = z[m]
    BY GrownAt
  <2>2. Len(y) = Len(z) + 1
    BY DEF Grown
  <2> QED
    BY <2>1, <2>2
<1>2. \A m \in k + 1..Len(z) : y[m + 1] = z[m]
  BY DEF Grown, OneMore
<1>3. /\ y[k + 1] = w /\ w.freq = z[2 * j + 1].freq + z[2 * j + 2].freq
      /\ z[k].freq <= w.freq /\ (k # Len(z) => w.freq < z[k + 1].freq)
  BY DEF Grown
<1>4. \A m \in 1..Len(z) : z[m].freq \in Nat /\ z[m].freq >= 1
                           /\ (m # Len(z) => z[m].freq <= z[m + 1].freq)
  BY FreqsType DEF Forest, Rising
<1>5. w.freq \in Nat /\ w.freq >= 1
  <2>1. 2 * j + 1 \in 1..Len(z) /\ 2 * j + 2 \in 1..Len(z)
    BY <1>1
  <2>2. z[2 * j + 1].freq \in Nat /\ z[2 * j + 1].freq >= 1 /\ z[2 * j + 2].freq \in Nat
    BY <1>4, <2>1
  <2> QED
    BY <1>3, <2>2
<1>6. SUFFICES ASSUME NEW m \in 1..Len(y)
               PROVE  y[m].freq >= 1 /\ (m # Len(y) => y[m].freq <= y[m + 1].freq)
  BY DEF Rising
<1>7. CASE m < k
  <2>1. m \in 1..k /\ m + 1 \in 1..k /\ m \in 1..Len(z) /\ m # Len(z)
    BY <1>1, <1>7
  <2> QED
    BY <1>1, <1>4, <2>1
<1>8. CASE m = k
  <2>1. m \in 1..k /\ m \in 1..Len(z)
    BY <1>1, <1>8
  <2> QED
    BY <1>1, <1>3, <1>4, <1>8, <2>1
<1>9. CASE m = k + 1
  <2>1. y[m].freq >= 1
    BY <1>3, <1>5, <1>9
  <2>2. ASSUME m # Len(y) PROVE y[m].freq <= y[m + 1].freq
    <3>1. k + 1 \in k + 1..Len(z) /\ k # Len(z) /\ k + 1 \in 1..Len(z)
      BY <1>1, <1>9, <2>2
    <3>2. y[m + 1] = z[k + 1] /\ w.freq < z[k + 1].freq /\ z[k + 1].freq \in Nat
      BY <1>2, <1>3, <1>4, <1>9, <3>1
    <3> QED
      BY <1>3, <1>5, <1>9, <3>2
  <2> QED
    BY <2>1, <2>2
<1>10. CASE m > k + 1
  <2>1. m - 1 \in k + 1..Len(z) /\ (m - 1) + 1 = m /\ m - 1 \in 1..Len(z)
    BY <1>1, <1>10
  <2>2. y[m] = z[m - 1]
    BY <1>2, <2>1
  <2>3. z[m - 1].freq >= 1 /\ (m - 1 # Len(z) => z[m - 1].freq <= z[m].freq)
    BY <1>4, <2>1
  <2>4. ASSUME m # Len(y) PROVE y[m].freq <= y[m + 1].freq
    <3>1. m \in k + 1..Len(z) /\ m - 1 # Len(z)
      BY <1>1, <1>10, <2>4
    <3> QED
      BY <1>2, <2>2, <2>3, <3>1
  <2> QED
    BY <2>2, <2>3, <2>4
<1> QED
  BY <1>1, <1>7, <1>8, <1>9, <1>10

LEMMA GrownHanging ==
  ASSUME NEW j \in Nat, j < NCHAR - 1, NEW sum \in Nat, NEW z, Forest(z, j, sum),
         NEW y, NEW k, NEW w, Grown(z, y, j, k, w)
  PROVE  Hanging(y, j + 1)
<1>1. /\ \A m \in 1..Len(z) : Shifted(m, k) \in 1..Len(y) /\ y[Shifted(m, k)] = z[m]
      /\ \A m \in 1..Len(y) : m # k + 1 => \E o \in 1..Len(z) : m = Shifted(o, k)
  BY GrownAt
<1>2. k + 1 \in 1..Len(y) /\ y[k + 1].son = 2 * j /\ 2 * j < T
  <2>1. k \in Nat /\ k <= Len(z) /\ Len(z) \in Nat
    BY GrownAt
  <2> QED
    BY <2>1, Sizes DEF Grown
<1>3. /\ \A m \in 1..Len(z) : \/ z[m].son \in T..T + NCHAR - 1
                              \/ z[m].son \in 0..2 * j - 1 /\ z[m].son % 2 = 0
      /\ \A c \in T..T + NCHAR - 1 : \E m \in 1..Len(z) : z[m].son = c
      /\ \A q \in 0..j - 1 : \E m \in 1..Len(z) : z[m].son = 2 * q
      /\ \A m, n \in 1..Len(z) : z[m].son = z[n].son => m = n
  BY DEF Forest, Hanging
<1>4. ASSUME NEW m \in 1..Len(y)
      PROVE  \/ y[m].son \in T..T + NCHAR - 1
             \/ y[m].son \in 0..2 * (j + 1) - 1 /\ y[m].son % 2 = 0
  <2>1. CASE m = k + 1
    BY <1>2, <2>1
  <2>2. CASE m # k + 1
    <3>1. PICK o \in 1..Len(z) : m = Shifted(o, k)
      BY <1>1, <2>2
    <3>2. y[m] = z[o]
      BY <1>1, <3>1
    <3> QED
      BY <1>3, <3>2
  <2> QED
    BY <2>1, <2>2
<1>5. ASSUME NEW c \in T..T + NCHAR - 1 PROVE \E m \in 1..Len(y) : y[m].son = c
  <2>1. PICK o \in 1..Len(z) : z[o].son = c
    BY <1>3
  <2> QED
    BY <1>1, <2>1
<1>6. ASSUME NEW q \in 0..(j + 1) - 1 PROVE \E m \in 1..Len(y) : y[m].son = 2 * q
  <2>1. CASE q = j
    BY <1>2, <2>1
  <2>2. CASE q # j
    <3>1. q \in 0..j - 1
      BY <2>2
    <3>2. PICK o \in 1..Len(z) : z[o].son = 2 * q
      BY <1>3, <3>1
    <3> QED
      BY <1>1, <3>2
  <2> QED
    BY <2>1, <2>2
<1>7. \A o \in 1..Len(z) : z[o].son # 2 * j
  <2>1. T \in Nat
    BY Sizes
  <2> QED
    BY <1>2, <1>3, <2>1
<1>8. ASSUME NEW m \in 1..Len(y), NEW n \in 1..Len(y), y[m].son = y[n].son PROVE m = n
  <2>1. CASE m = k + 1 /\ n = k + 1
    BY <2>1
  <2>2. CASE m = k + 1 /\ n # k + 1
    <3>1. PICK o \in 1..Len(z) : n = Shifted(o, k)
      BY <1>1, <2>2
    <3> QED
      BY <1>1, <1>2, <1>7, <1>8, <2>2, <3>1
  <2>3. CASE m # k + 1 /\ n = k + 1
    <3>1. PICK o \in 1..Len(z) : m = Shifted(o, k)
      BY <1>1, <2>3
    <3> QED
      BY <1>1, <1>2, <1>7, <1>8, <2>3, <3>1
  <2>4. CASE m # k + 1 /\ n # k + 1
    <3>1. PICK o \in 1..Len(z) : m = Shifted(o, k)
      BY <1>1, <2>4
    <3>2. PICK a \in 1..Len(z) : n = Shifted(a, k)
      BY <1>1, <2>4
    <3>3. z[o].son = z[a].son
      BY <1>1, <1>8, <3>1, <3>2
    <3> QED
      BY <1>3, <3>1, <3>2, <3>3
  <2> QED
    BY <2>1, <2>2, <2>3, <2>4
<1> QED
  BY <1>4, <1>5, <1>6, <1>8 DEF Hanging

LEMMA GrownAdding ==
  ASSUME NEW j \in Nat, j < NCHAR - 1, NEW sum \in Nat, NEW z, Forest(z, j, sum),
         NEW y, NEW k, NEW w, Grown(z, y, j, k, w)
  PROVE  Adding(y)
<1>1. /\ \A m \in 1..Len(z) : Shifted(m, k) \in 1..Len(y) /\ y[Shifted(m, k)] = z[m]
      /\ \A m \in 1..Len(y) : m # k + 1 => \E o \in 1..Len(z) : m = Shifted(o, k)
      /\ \A m \in 1..k : y[m] = z[m]
      /\ k \in Nat /\ 2 * j + 2 <= k
  BY GrownAt
<1>2. y[k + 1] = w /\ w.son = 2 * j /\ w.freq = z[2 * j + 1].freq + z[2 * j + 2].freq
  BY DEF Grown
<1>3. SUFFICES ASSUME NEW m \in 1..Len(y), y[m].son < T
               PROVE  /\ y[m].son + 2 < m
                      /\ y[m].freq = y[y[m].son + 1].freq + y[y[m].son + 2].freq
  BY DEF Adding
<1>4. CASE m = k + 1
  <2>1. 2 * j + 1 \in 1..k /\ 2 * j + 2 \in 1..k
    BY <1>1
  <2>2. y[2 * j + 1] = z[2 * j + 1] /\ y[2 * j + 2] = z[2 * j + 2]
    BY <1>1, <2>1
  <2>3. y[m].son = 2 * j /\ 2 * j + 2 < m
    BY <1>1, <1>2, <1>4
  <2> QED
    BY <1>2, <1>4, <2>2, <2>3
<1>5. CASE m # k + 1
  <2>1. PICK o \in 1..Len(z) : m = Shifted(o, k)
    BY <1>1, <1>5
  <2>2. y[m] = z[o] /\ o <= m
    BY <1>1, <2>1 DEF Shifted
  <2> DEFINE s == z[o].son
  <2>3. s + 2 < o /\ z[o].freq = z[s + 1].freq + z[s + 2].freq
    BY <1>3, <2>2 DEF Forest, Adding
  <2>4. s \in 0..2 * j - 1
    <3>1. \/ s \in T..T + NCHAR - 1
          \/ s \in 0..2 * j - 1
      BY DEF Forest, Hanging
    <3>2. s < T
      BY <1>3, <2>2
    <3> HIDE DEF s
    <3> DEFINE e == T + NCHAR - 1
               f == 2 * j - 1
    <3>3. s \in T..e \/ s \in 0..f
      BY <3>1
    <3> HIDE DEF e, f
    <3>4. s \in 0..f
      BY <3>2, <3>3, Sizes
    <3> QED
      BY <3>4 DEF f
  <2>5. s + 1 \in 1..k /\ s + 2 \in 1..k
    BY <1>1, <2>4, SMTT(30)
  <2>6. y[s + 1] = z[s + 1] /\ y[s + 2] = z[s + 2] /\ y[m].son = s
    BY <1>1, <2>2, <2>5
  <2> HIDE DEF s
  <2>7. s + 2 < m
    BY <1>1, <2>2, <2>3, <2>4
  <2> QED
    BY <2>2, <2>3, <2>6, <2>7
<1> QED
  BY <1>4, <1>5

LEMMA GrownTotals ==
  ASSUME NEW j \in Nat, j < NCHAR - 1, NEW sum \in Nat, NEW z, Forest(z, j, sum),
         NEW y, NEW k, NEW w, Grown(z, y, j, k, w)
  PROVE  /\ Total(Freqs(y)) = sum + Total(SubSeq(Freqs(y), 1, 2 * (j + 1)))
         /\ Total(Leaves(y)) = sum
<1> DEFINE a == Freqs(z)
           b == Freqs(y)
           c == Leaves(z)
           d == Leaves(y)
           n == Len(z)
<1>1. /\ k \in Nat /\ k <= n /\ 2 * j + 2 <= k /\ n \in Nat /\ n = NCHAR + j /\ k \in 0..n
      /\ \A m \in 1..k : y[m] = z[m]
  BY GrownAt
<1>2. /\ z \in Seq(NodeSet) /\ Total(a) = sum + Total(SubSeq(a, 1, 2 * j)) /\ Total(c) = sum
  BY DEF Forest
<1>3. /\ y \in Seq(NodeSet) /\ Len(y) = n + 1 /\ y[k + 1] = w
      /\ w = [freq |-> z[2 * j + 1].freq + z[2 * j + 2].freq, son |-> 2 * j]
  BY DEF Grown
<1>4. \A m \in k + 1..n : y[m + 1] = z[m]
  BY DEF Grown, OneMore
<1>5. /\ a \in Seq(Nat) /\ Len(a) = n /\ c \in Seq(Nat) /\ Len(c) = n
      /\ \A m \in 1..n : a[m] = z[m].freq /\ c[m] = IF z[m].son >= T THEN z[m].freq ELSE 0
  BY <1>2, FreqsType
<1>6. /\ b \in Seq(Nat) /\ Len(b) = n + 1 /\ d \in Seq(Nat) /\ Len(d) = n + 1
      /\ \A m \in 1..n + 1 : b[m] = y[m].freq /\ d[m] = IF y[m].son >= T THEN y[m].freq ELSE 0
  BY <1>3, FreqsType
<1> HIDE DEF a, b, c, d, n
<1>7. OneMore(a, b, n, k) /\ OneMore(c, d, n, k)
  <2>1. ASSUME NEW m \in 1..k PROVE b[m] = a[m] /\ d[m] = c[m]
    <3>1. m \in 1..n /\ m \in 1..n + 1
      BY <1>1
    <3> QED
      BY <1>1, <1>5, <1>6, <3>1
  <2>2. ASSUME NEW m \in k + 1..n PROVE b[m + 1] = a[m] /\ d[m + 1] = c[m]
    <3>1. m \in 1..n /\ m + 1 \in 1..n + 1
      BY <1>1
    <3>2. y[m + 1] = z[m]
      BY <1>4
    <3> QED
      BY <1>5, <1>6, <3>1, <3>2
  <2> QED
    BY <2>1, <2>2 DEF OneMore
<1>8. k + 1 \in 1..n + 1 /\ b[k + 1] = w.freq /\ d[k + 1] = 0
  <2>1. k + 1 \in 1..n + 1
    BY <1>1
  <2>2. ~(w.son >= T)
    BY <1>3, Sizes
  <2> QED
    BY <1>3, <1>6, <2>1, <2>2
<1>9. Total(b) = Total(a) + b[k + 1] /\ Total(d) = Total(c) + d[k + 1]
  BY <1>1, <1>5, <1>6, <1>7, TotalInsert
<1>10. Total(d) = sum
  BY <1>2, <1>8, <1>9
<1>11. SubSeq(b, 1, 2 * j) = SubSeq(a, 1, 2 * j)
  <2>1. \A m \in 1..2 * j : b[m] = a[m]
    BY <1>1, <1>7 DEF OneMore
  <2>2. SubSeq(b, 1, 2 * j) = [m \in 1..2 * j |-> b[m]] /\ SubSeq(a, 1, 2 * j) = [m \in 1..2 * j |-> a[m]]
    BY <1>1, <1>5, <1>6
  <2> QED
    BY <2>1, <2>2
<1>12. /\ Total(SubSeq(b, 1, 2 * j + 1)) = Total(SubSeq(b, 1, 2 * j)) + b[2 * j + 1]
       /\ Total(SubSeq(b, 1, 2 * j)) \in Nat
  <2>1. 2 * j \in Nat /\ 2 * j < Len(b)
    BY <1>1, <1>6
  <2> QED
    BY <1>6, <2>1, TotalPrefix
<1>13. Total(SubSeq(b, 1, (2 * j + 1) + 1)) = Total(SubSeq(b, 1, 2 * j + 1)) + b[(2 * j + 1) + 1]
  <2>1. 2 * j + 1 \in Nat /\ 2 * j + 1 < Len(b)
    BY <1>1, <1>6
  <2> QED
    BY <1>6, <2>1, TotalPrefix
<1>14. /\ b[2 * j + 1] = z[2 * j + 1].freq /\ b[(2 * j + 1) + 1] = z[2 * j + 2].freq
       /\ b[2 * j + 1] \in Nat /\ b[(2 * j + 1) + 1] \in Nat
  <2>1. 2 * j + 1 \in 1..k /\ 2 * j + 2 \in 1..k /\ (2 * j + 1) + 1 = 2 * j + 2
    BY <1>1
  <2>2. 2 * j + 1 \in 1..n + 1 /\ 2 * j + 2 \in 1..n + 1
    BY <1>1
  <2>3. b[2 * j + 1] = z[2 * j + 1].freq /\ b[2 * j + 2] = z[2 * j + 2].freq
    BY <1>1, <1>6, <2>1, <2>2
  <2>4. b[2 * j + 1] \in Nat /\ b[2 * j + 2] \in Nat
    BY <1>6, <2>2
  <2> QED
    BY <2>1, <2>3, <2>4
<1>15. Total(b) = sum + Total(SubSeq(b, 1, 2 * (j + 1)))
  <2> DEFINE p == Total(SubSeq(b, 1, 2 * j))
             q == Total(SubSeq(b, 1, 2 * j + 1))
             r == Total(SubSeq(b, 1, (2 * j + 1) + 1))
             b1 == b[2 * j + 1]
             b2 == b[(2 * j + 1) + 1]
             tb == Total(b)
             bk == b[k + 1]
             ta == Total(a)
  <2>1. 2 * (j + 1) = (2 * j + 1) + 1
    OBVIOUS
  <2>2. bk = b1 + b2
    <3>1. w.freq = z[2 * j + 1].freq + z[2 * j + 2].freq
      BY <1>3
    <3> QED
      BY <1>8, <1>14, <3>1
  <2>3. ta = sum + p
    BY <1>2, <1>11
  <2>4. p \in Nat /\ b1 \in Nat /\ b2 \in Nat /\ q = p + b1 /\ r = q + b2 /\ tb = ta + bk
    BY <1>9, <1>12, <1>13, <1>14
  <2> HIDE DEF p, q, r, b1, b2, tb, bk, ta
  <2>5. tb = sum + r
    BY <2>2, <2>3, <2>4
  <2> QED
    BY <2>1, <2>5 DEF tb, r
<1> QED
  BY <1>10, <1>15 DEF b, d

\* One more inner node.
LEMMA ForestGrows ==
  ASSUME NEW j \in Nat, j < NCHAR - 1, NEW sum \in Nat, NEW z, Forest(z, j, sum)
  PROVE  Forest(WithInner(z, 2 * j), j + 1, sum)
<1> DEFINE y == WithInner(z, 2 * j)
<1>1. PICK k \in 2 * j + 2..Len(z), w \in NodeSet :
        /\ w = [freq |-> z[2 * j + 1].freq + z[2 * j + 2].freq, son |-> 2 * j]
        /\ z[k].freq <= w.freq /\ (k # Len(z) => w.freq < z[k + 1].freq)
        /\ y \in Seq(NodeSet) /\ Len(y) = Len(z) + 1
        /\ y[k + 1] = w
        /\ OneMore(z, y, Len(z), k)
  BY WithInnerIs
<1> HIDE DEF y
<1>2. Grown(z, y, j, k, w)
  BY <1>1 DEF Grown
<1>3. Rising(y) /\ Hanging(y, j + 1) /\ Adding(y)
  BY <1>2, GrownRising, GrownHanging, GrownAdding
<1>4. /\ Total(Freqs(y)) = sum + Total(SubSeq(Freqs(y), 1, 2 * (j + 1)))
      /\ Total(Leaves(y)) = sum
  BY <1>2, GrownTotals
<1>5. Len(y) = NCHAR + (j + 1)
  <2>1. Len(z) = NCHAR + j
    BY DEF Forest
  <2> QED
    BY <1>1, <2>1, Sizes
<1>6. Forest(y, j + 1, sum)
  BY <1>1, <1>3, <1>4, <1>5 DEF Forest
<1> QED
  BY <1>6 DEF y

LEMMA FreqsAppend ==
  ASSUME NEW z \in Seq(NodeSet), NEW e \in NodeSet
  PROVE  Freqs(Append(z, e)) = Append(Freqs(z), e.freq) /\ e.freq \in Nat
<1> DEFINE n == Len(z)
           y == Append(z, e)
<1>1. /\ y \in Seq(NodeSet) /\ Len(y) = n + 1 /\ n \in Nat /\ y[n + 1] = e
      /\ \A i \in 1..n : y[i] = z[i]
  BY AppendProperties
<1>2. e.freq \in Nat
  BY DEF NodeSet
<1> HIDE DEF y, n
<1> DEFINE b == Append(Freqs(z), e.freq)
<1>3. Freqs(z) \in Seq(Nat) /\ Len(Freqs(z)) = n /\ \A i \in 1..n : Freqs(z)[i] = z[i].freq
  BY FreqsType DEF n
<1>4. Freqs(y) \in Seq(Nat) /\ Len(Freqs(y)) = n + 1 /\ \A i \in 1..n + 1 : Freqs(y)[i] = y[i].freq
  BY <1>1, FreqsType
<1>5. b \in Seq(Nat) /\ Len(b) = n + 1 /\ b[n + 1] = e.freq /\ \A i \in 1..n : b[i] = Freqs(z)[i]
  BY <1>2, <1>3, AppendProperties
<1> HIDE DEF b
<1>6. \A i \in 1..n + 1 : Freqs(y)[i] = b[i]
  <2> SUFFICES ASSUME NEW i \in 1..n + 1 PROVE Freqs(y)[i] = b[i]
    OBVIOUS
  <2>1. CASE i = n + 1
    BY <1>1, <1>4, <1>5, <2>1
  <2>2. CASE i # n + 1
    <3>1. i \in 1..n
      BY <1>1, <2>2
    <3> QED
      BY <1>1, <1>3, <1>4, <1>5, <3>1
  <2> QED
    BY <2>1, <2>2
<1>7. Freqs(y) = b
  BY <1>4, <1>5, <1>6, SeqEqual
<1> QED
  BY <1>2, <1>7 DEF y, b

\* Numbers that are at least, rounded up, the halves.
HalvesOf(s, l, kept) == \A i \in 1..Len(s) : i \in kept => 2 * s[i].freq <= l[i] + 1

LEMMA HalvedTotal ==
  ASSUME NEW s \in Seq(NodeSet), NEW l \in Seq(Nat), Len(l) = Len(s), NEW kept,
         HalvesOf(s, l, kept)
  PROVE  2 * Total(Freqs(Pick(s, kept))) <= Total(l) + Len(Pick(s, kept))
<1> DEFINE Good(m) == 2 * Total(Freqs(Pick(SubSeq(s, 1, m), kept)))
                        <= Total(SubSeq(l, 1, m)) + Len(Pick(SubSeq(s, 1, m), kept))
           S == {m \in Nat : m <= Len(s) => Good(m)}
<1>1. Len(s) \in Nat
  OBVIOUS
<1>2. 0 \in S
  <2>1. SubSeq(s, 1, 0) = <<>> /\ SubSeq(l, 1, 0) = <<>>
    OBVIOUS
  <2>2. Pick(<<>>, kept) = <<>> /\ Total(<<>>) = 0
    BY PickEmpty, TotalEmpty
  <2>3. Freqs(<<>>) = <<>>
    <3>1. <<>> \in Seq(NodeSet) /\ Len(<<>>) = 0
      OBVIOUS
    <3>2. Freqs(<<>>) \in Seq(Nat) /\ Len(Freqs(<<>>)) = 0
      BY <3>1, FreqsType
    <3> QED
      BY <3>2
  <2>4. Good(0)
    <3>1. 2 * 0 <= 0 + Len(<<>>)
      OBVIOUS
    <3> QED
      BY <2>1, <2>2, <2>3, <3>1
  <2> QED
    BY <2>4
<1>3. ASSUME NEW m \in Nat, m \in S PROVE m + 1 \in S
  <2> SUFFICES ASSUME m + 1 <= Len(s) PROVE Good(m + 1)
    OBVIOUS
  <2> DEFINE a == SubSeq(s, 1, m)
             e == s[m + 1]
             z == Pick(a, kept)
             y == Pick(SubSeq(s, 1, m + 1), kept)
  <2>1. Good(m) /\ m + 1 \in 1..Len(s)
    BY <1>1, <1>3
  <2>2. a \in Seq(NodeSet) /\ Len(a) = m /\ e \in NodeSet /\ SubSeq(s, 1, m + 1) = Append(a, e)
    BY <1>1, <2>1
  <2>3. z \in Seq(NodeSet)
    <3> HIDE DEF a
    <3> QED
      BY <2>2, PickType
  <2>4. y = IF m + 1 \in kept THEN Append(z, e) ELSE z
    <3> HIDE DEF a, e
    <3>1. Pick(Append(a, e), kept) = IF Len(a) + 1 \in kept THEN Append(Pick(a, kept), e) ELSE Pick(a, kept)
      BY <2>2, PickAppend
    <3> QED
      BY <2>2, <3>1
  <2>5. /\ Total(SubSeq(l, 1, m)) \in Nat /\ l[m + 1] \in Nat
        /\ Total(SubSeq(l, 1, m + 1)) = Total(SubSeq(l, 1, m)) + l[m + 1]
    BY <1>1, <2>1, TotalPrefix
  <2> DEFINE p == Total(SubSeq(l, 1, m))
             q == Total(SubSeq(l, 1, m + 1))
             lm == l[m + 1]
             tz == Total(Freqs(z))
             ty == Total(Freqs(y))
             ef == e.freq
  <2>6. 2 * tz <= p + Len(z) /\ q = p + lm /\ lm \in Nat /\ p \in Nat
    BY <2>1, <2>5
  <2>7. tz \in Nat /\ Len(z) \in Nat
    <3> HIDE DEF z
    <3>1. Freqs(z) \in Seq(Nat)
      BY <2>3, FreqsType
    <3> QED
      BY <2>3, <3>1, TotalAppend, 0 \in Nat
  <2> HIDE DEF a, z, y
  <2>8. CASE m + 1 \in kept
    <3>1. y = Append(z, e) /\ Len(y) = Len(z) + 1
      BY <2>2, <2>3, <2>4, <2>8
    <3>2. Freqs(y) = Append(Freqs(z), ef) /\ ef \in Nat
      BY <2>2, <2>3, <3>1, FreqsAppend
    <3>3. ty = tz + ef
      <4>1. Freqs(z) \in Seq(Nat)
        BY <2>3, FreqsType
      <4> HIDE DEF ef
      <4>2. Total(Append(Freqs(z), ef)) = Total(Freqs(z)) + ef
        BY <3>2, <4>1, TotalAppend
      <4> QED
        BY <3>2, <4>2
    <3>4. 2 * ef <= lm + 1
      BY <2>1, <2>8 DEF HalvesOf
    <3> DEFINE ly == Len(y)
               lz == Len(z)
    <3> HIDE DEF p, q, lm, tz, ty, ef, ly, lz
    <3>5. 2 * ty <= q + ly
      <4>1. ly = lz + 1 /\ lz \in Nat /\ 2 * tz <= p + lz
        BY <2>6, <2>7, <3>1 DEF ly, lz
      <4> QED
        BY <2>6, <2>7, <3>2, <3>3, <3>4, <4>1
    <3> QED
      BY <3>5 DEF ty, q, ly, y
  <2>9. CASE m + 1 \notin kept
    <3>1. y = z
      BY <2>4, <2>9
    <3>2. 2 * ty <= q + Len(y)
      <4> DEFINE lz == Len(z)
      <4>1. ty = tz /\ Len(y) = lz
        BY <3>1
      <4>2. 2 * tz <= p + lz /\ lz \in Nat
        BY <2>6, <2>7
      <4> HIDE DEF p, q, lm, tz, ty, ef, lz
      <4> QED
        BY <2>6, <2>7, <4>1, <4>2
    <3> QED
      BY <3>2 DEF y
  <2> QED
    BY <2>8, <2>9
<1> HIDE DEF S
<1>4. Nat \subseteq S
  BY <1>2, <1>3, NatInd
<1>5. Good(Len(s))
  BY <1>1, <1>4 DEF S
<1>6. SubSeq(s, 1, Len(s)) = s /\ SubSeq(l, 1, Len(s)) = l
  OBVIOUS
<1> QED
  BY <1>5, <1>6

\* The first forest: the leaves, with half their frequencies.
HalvedNodes(t) ==
  [i \in 1..T |-> [freq |-> (t.freq[i - 1] + 1) \div 2, son |-> t.son[i - 1]]]
LeafPlaces(t) == {i \in 1..T : t.son[i - 1] >= T}
LeafNodes(t) == Pick(HalvedNodes(t), LeafPlaces(t))

LEMMA HalvedIs ==
  ASSUME NEW t, Resting(t)
  PROVE  /\ HalvedNodes(t) \in Seq(NodeSet) /\ Len(HalvedNodes(t)) = T
         /\ \A i \in 1..T : /\ HalvedNodes(t)[i].freq = (t.freq[i - 1] + 1) \div 2
                            /\ HalvedNodes(t)[i].son = t.son[i - 1]
                            /\ i - 1 \in 0..R /\ t.freq[i - 1] \in Nat /\ t.freq[i - 1] >= 1
                            /\ t.son[i - 1] \in Links
<1>1. Arrays(t.freq, t.son, t.prnt) /\ Ordered(t.freq)
  BY DEF Resting, HuffmanTree, Huffman
<1>2. ASSUME NEW i \in 1..T
      PROVE  /\ i - 1 \in 0..R /\ t.freq[i - 1] \in Nat /\ t.freq[i - 1] >= 1
             /\ t.son[i - 1] \in Links /\ t.son[i - 1] \in Nat
  <2>1. i - 1 \in 0..R
    BY Sizes
  <2> QED
    BY <1>1, <2>1, ArraysAt DEF Ordered
<1>3. \A i \in 1..T : [freq |-> (t.freq[i - 1] + 1) \div 2, son |-> t.son[i - 1]] \in NodeSet
  <2> SUFFICES ASSUME NEW i \in 1..T
               PROVE  [freq |-> (t.freq[i - 1] + 1) \div 2, son |-> t.son[i - 1]] \in NodeSet
    OBVIOUS
  <2> DEFINE x == t.freq[i - 1]
             y == t.son[i - 1]
  <2>1. x \in Nat /\ y \in Nat
    BY <1>2
  <2> HIDE DEF x, y
  <2>2. (x + 1) \div 2 \in Nat
    BY <2>1
  <2>3. [freq |-> (x + 1) \div 2, son |-> y] \in NodeSet
    BY <2>1, <2>2 DEF NodeSet
  <2> QED
    BY <2>3 DEF x, y
<1>4. HalvedNodes(t) \in Seq(NodeSet) /\ Len(HalvedNodes(t)) = T
  BY <1>3, Sizes DEF HalvedNodes
<1>5. \A i \in 1..T : /\ HalvedNodes(t)[i].freq = (t.freq[i - 1] + 1) \div 2
                      /\ HalvedNodes(t)[i].son = t.son[i - 1]
  BY DEF HalvedNodes
<1> QED
  BY <1>2, <1>4, <1>5

\* Where the leaves come from.
LEMMA LeavesFrom ==
  ASSUME NEW t, Resting(t)
  PROVE  \E a : /\ LeafNodes(t) \in Seq(NodeSet)
                /\ \A m \in 1..Len(LeafNodes(t)) :
                     /\ a[m] \in 1..T /\ LeafNodes(t)[m] = HalvedNodes(t)[a[m]]
                     /\ t.son[a[m] - 1] >= T
                /\ \A m, n \in 1..Len(LeafNodes(t)) : m < n => a[m] < a[n]
                /\ \A i \in 1..T : t.son[i - 1] >= T => \E m \in 1..Len(LeafNodes(t)) : a[m] = i
<1> DEFINE h == HalvedNodes(t)
           kept == LeafPlaces(t)
           z == LeafNodes(t)
           a == Ascending(Len(h), kept)
<1>1. h \in Seq(NodeSet) /\ Len(h) = T /\ T \in Nat
  BY HalvedIs, Sizes
<1>2. z = Pick(h, kept)
  BY DEF LeafNodes
<1> HIDE DEF h, z, kept
<1>3. /\ a \in Seq(1..T) /\ Len(a) = Len(z)
      /\ \A m \in 1..Len(z) : z[m] = h[a[m]]
  BY <1>1, <1>2, PickAscending
<1>4. z \in Seq(NodeSet)
  BY <1>1, <1>2, PickType
<1>5. Enumerates(a, T, kept)
  BY <1>1, AscendingEnumerates
<1> HIDE DEF a
<1>6. /\ \A m \in 1..Len(z) : a[m] \in 1..T /\ a[m] \in kept
      /\ \A m, n \in 1..Len(z) : m < n => a[m] < a[n]
      /\ \A i \in 1..T : i \in kept => \E m \in 1..Len(z) : a[m] = i
  <2>1. \A m \in 1..Len(z) : a[m] \in 1..T
    <3>1. a \in Seq(1..T) /\ Len(a) = Len(z)
      BY <1>3
    <3>2. \A m \in 1..Len(a) : a[m] \in 1..T
      BY <3>1, ElementOfSeq
    <3> QED
      BY <3>1, <3>2
  <2> QED
    BY <1>3, <1>5, <2>1 DEF Enumerates
<1>7. \A i \in 1..T : i \in kept <=> t.son[i - 1] >= T
  BY DEF kept, LeafPlaces
<1>8. /\ z \in Seq(NodeSet)
      /\ \A m \in 1..Len(z) : a[m] \in 1..T /\ z[m] = h[a[m]] /\ t.son[a[m] - 1] >= T
      /\ \A m, n \in 1..Len(z) : m < n => a[m] < a[n]
      /\ \A i \in 1..T : t.son[i - 1] >= T => \E m \in 1..Len(z) : a[m] = i
  BY <1>3, <1>4, <1>6, <1>7
<1> QED
  BY <1>8 DEF z, h

LEMMA FirstForest ==
  ASSUME NEW t, Resting(t)
  PROVE  Forest(LeafNodes(t), 0, Total(Freqs(LeafNodes(t)))) /\ Total(Freqs(LeafNodes(t))) \in Nat
<1> DEFINE z == LeafNodes(t)
           h == HalvedNodes(t)
           f == t.freq
           s == t.son
           p == t.prnt
<1>1. PICK a : /\ z \in Seq(NodeSet)
               /\ \A m \in 1..Len(z) : a[m] \in 1..T /\ z[m] = h[a[m]] /\ s[a[m] - 1] >= T
               /\ \A m, n \in 1..Len(z) : m < n => a[m] < a[n]
               /\ \A i \in 1..T : s[i - 1] >= T => \E m \in 1..Len(z) : a[m] = i
  BY LeavesFrom, SMTT(40)
<1>2. Arrays(f, s, p) /\ Linked(s, p) /\ Paired(s) /\ Ordered(f)
  BY DEF Resting, HuffmanTree, Huffman
<1>3. \A i \in 1..T : /\ h[i].freq = (f[i - 1] + 1) \div 2 /\ h[i].son = s[i - 1]
                      /\ i - 1 \in 0..R /\ f[i - 1] \in Nat /\ f[i - 1] >= 1 /\ s[i - 1] \in Links
  BY HalvedIs
<1> HIDE DEF z, h, f, s, p
<1>4. Len(z) \in Nat
  BY <1>1
<1>5. ASSUME NEW m \in 1..Len(z)
      PROVE  /\ a[m] \in 1..T /\ a[m] - 1 \in 0..R /\ z[m].son = s[a[m] - 1]
             /\ z[m].freq = (f[a[m] - 1] + 1) \div 2
             /\ z[m].son \in T..T + NCHAR - 1 /\ p[z[m].son] = a[m] - 1
             /\ f[a[m] - 1] \in Nat /\ f[a[m] - 1] >= 1
  <2>1. a[m] \in 1..T /\ z[m] = h[a[m]] /\ s[a[m] - 1] >= T
    BY <1>1
  <2> DEFINE i == a[m]
  <2> HIDE DEF i
  <2>2. /\ i \in 1..T /\ i - 1 \in 0..R /\ z[m].son = s[i - 1] /\ s[i - 1] \in Links
        /\ z[m].freq = (f[i - 1] + 1) \div 2 /\ s[i - 1] >= T
        /\ f[i - 1] \in Nat /\ f[i - 1] >= 1
    BY <1>3, <2>1 DEF i
  <2>3. s[i - 1] \in T..T + NCHAR - 1
    <3> DEFINE v == s[i - 1]
    <3>1. v \in 0..T + NCHAR - 1 /\ v >= T
      BY <2>2 DEF Links
    <3>2. T \in Nat /\ NCHAR \in Nat
      BY Sizes
    <3> HIDE DEF v
    <3>3. v \in T..T + NCHAR - 1
      BY <3>1, <3>2
    <3> QED
      BY <3>3 DEF v
  <2>4. s[i - 1] \in Children(s[i - 1])
    BY <2>3, Sizes DEF Children
  <2>5. p[s[i - 1]] = i - 1
    BY <1>2, <2>2, <2>4, ChildBelow
  <2> QED
    BY <2>2, <2>3, <2>5 DEF i
<1>6. Rising(z)
  <2> SUFFICES ASSUME NEW m \in 1..Len(z)
               PROVE  z[m].freq >= 1 /\ (m # Len(z) => z[m].freq <= z[m + 1].freq)
    BY DEF Rising
  <2> DEFINE x == f[a[m] - 1]
             y == f[a[m + 1] - 1]
  <2>1. z[m].freq = (x + 1) \div 2 /\ x \in Nat /\ x >= 1
    BY <1>5
  <2>2. ASSUME m # Len(z) PROVE z[m].freq <= z[m + 1].freq
    <3>1. m + 1 \in 1..Len(z) /\ m < m + 1
      BY <1>4, <2>2
    <3>2. z[m + 1].freq = (y + 1) \div 2 /\ y \in Nat
      BY <1>5, <3>1
    <3>3. a[m] < a[m + 1] /\ a[m] \in 1..T /\ a[m + 1] \in 1..T
      BY <1>1, <1>5, <3>1
    <3>4. a[m] - 1 \in 0..T /\ a[m + 1] - 1 \in a[m] - 1..T
      BY <3>3, Sizes
    <3>5. \A i \in 0..T : f[i] \in Nat
      BY <1>2 DEF Arrays
    <3>6. x <= y
      BY <1>2, <3>4, <3>5, OrderedUp
    <3> HIDE DEF x, y
    <3>7. (x + 1) \div 2 <= (y + 1) \div 2
      BY <2>1, <3>2, <3>6
    <3> QED
      BY <2>1, <3>2, <3>7
  <2>3. z[m].freq >= 1
    <3> HIDE DEF x, y
    <3>1. (x + 1) \div 2 >= 1
      BY <2>1
    <3> QED
      BY <2>1, <3>1
  <2> QED
    BY <2>2, <2>3
<1>7. ASSUME NEW k \in T..T + NCHAR - 1 PROVE \E m \in 1..Len(z) : z[m].son = k
  <2>1. k \in Links /\ k # R
    BY Sizes DEF Links
  <2> DEFINE i == p[k]
  <2>2. i \in 0..R
    BY <1>2, <2>1 DEF Arrays
  <2>3. k \in Children(s[i])
    BY <1>2, <2>1, <2>2 DEF Linked
  <2> HIDE DEF i
  <2>4. s[i] = k
    <3>1. k < T <=> s[i] < T
      BY <1>2, <2>2, <2>3, ChildBelow
    <3> QED
      BY <2>3, <3>1, Sizes DEF Children
  <2>5. i + 1 \in 1..T /\ (i + 1) - 1 = i /\ s[i] >= T
    BY <2>2, <2>4, Sizes
  <2>6. PICK m \in 1..Len(z) : a[m] = i + 1
    BY <1>1, <2>5
  <2> QED
    BY <1>5, <2>4, <2>5, <2>6
<1>8. ASSUME NEW m \in 1..Len(z), NEW n \in 1..Len(z), z[m].son = z[n].son PROVE m = n
  <2>1. a[m] - 1 = a[n] - 1 /\ a[m] \in 1..T /\ a[n] \in 1..T
    BY <1>5, <1>8
  <2>2. a[m] = a[n]
    BY <2>1, Sizes
  <2>3. ~(m < n) /\ ~(n < m)
    <3>1. ASSUME m < n PROVE FALSE
      <4>1. a[m] < a[n]
        BY <1>1, <3>1
      <4> QED
        BY <2>1, <2>2, <4>1
    <3>2. ASSUME n < m PROVE FALSE
      <4>1. a[n] < a[m]
        BY <1>1, <3>2
      <4> QED
        BY <2>1, <2>2, <4>1
    <3> QED
      BY <3>1, <3>2
  <2> QED
    BY <1>4, <2>3
<1>9. Hanging(z, 0)
  <2>1. \A m \in 1..Len(z) : z[m].son \in T..T + NCHAR - 1
    BY <1>5
  <2>2. 0..0 - 1 = {}
    OBVIOUS
  <2> QED
    BY <1>7, <1>8, <2>1, <2>2 DEF Hanging
<1>10. Adding(z)
  <2> SUFFICES ASSUME NEW m \in 1..Len(z), z[m].son < T PROVE FALSE
    BY DEF Adding
  <2> QED
    BY <1>5, Sizes
<1>11. Len(z) = NCHAR
  <2> DEFINE b == [m \in 1..Len(z) |-> z[m].son]
             B == T..T + NCHAR - 1
  <2>1. b \in Bijection(1..Len(z), B)
    <3>1. b \in [1..Len(z) -> B]
      BY <1>5
    <3>2. \A m, n \in 1..Len(z) : b[m] = b[n] => m = n
      BY <1>8
    <3>3. \A k \in B : \E m \in 1..Len(z) : b[m] = k
      BY <1>7
    <3> HIDE DEF b, B
    <3> QED
      BY <3>1, <3>2, <3>3 DEF Bijection, Injection, Surjection, IsInjective
  <2>2. IsFiniteSet(1..Len(z)) /\ Cardinality(1..Len(z)) = Len(z)
    <3>1. 1 \in Int /\ Len(z) \in Int
      BY <1>4
    <3>2. IsFiniteSet(1..Len(z)) /\ Cardinality(1..Len(z)) = IF 1 > Len(z) THEN 0 ELSE Len(z) - 1 + 1
      BY <3>1, FS_Interval
    <3> QED
      BY <1>4, <3>2
  <2>3. Cardinality(B) = NCHAR
    <3> DEFINE e == T + NCHAR - 1
    <3>1. T \in Int /\ e \in Int /\ ~(T > e) /\ e - T + 1 = NCHAR
      BY Sizes
    <3> HIDE DEF e
    <3>2. Cardinality(T..e) = IF T > e THEN 0 ELSE e - T + 1
      BY <3>1, FS_Interval
    <3> QED
      BY <3>1, <3>2 DEF e
  <2> HIDE DEF b, B
  <2>4. Cardinality(1..Len(z)) = Cardinality(B)
    BY <2>1, <2>2, FS_Bijection DEF ExistsBijection
  <2> QED
    BY <2>2, <2>3, <2>4
<1>12. Freqs(z) \in Seq(Nat) /\ Total(Freqs(z)) \in Nat
  <2>1. Freqs(z) \in Seq(Nat)
    BY <1>1, FreqsType
  <2> QED
    BY <2>1, TotalAppend, 0 \in Nat
<1>13. Total(Freqs(z)) = Total(Freqs(z)) + Total(SubSeq(Freqs(z), 1, 2 * 0))
  <2>1. 2 * 0 = 0 /\ SubSeq(Freqs(z), 1, 0) = <<>>
    BY <1>12
  <2>2. Total(SubSeq(Freqs(z), 1, 2 * 0)) = 0
    BY <2>1, TotalEmpty
  <2> DEFINE x == Total(Freqs(z))
  <2>3. x \in Nat
    BY <1>12
  <2> HIDE DEF x
  <2>4. x = x + 0
    BY <2>3
  <2> QED
    BY <2>2, <2>4 DEF x
<1>14. Leaves(z) = Freqs(z)
  <2>1. \A m \in 1..Len(z) : z[m].son >= T
    BY <1>5
  <2> QED
    BY <2>1 DEF Leaves, Freqs
<1>15. Forest(z, 0, Total(Freqs(z)))
  <2>1. Len(z) = NCHAR + 0
    BY <1>11, Sizes
  <2> QED
    BY <1>1, <1>6, <1>9, <1>10, <1>12, <1>13, <1>14, <2>1 DEF Forest
<1> QED
  BY <1>12, <1>15 DEF z

\* All leaves together weigh at most half as much, and each of them a half more.
LEMMA HalvedSum ==
  ASSUME NEW t, Resting(t)
  PROVE  Total(Freqs(LeafNodes(t))) < MAX_FREQ
<1> DEFINE f == t.freq
           s == t.son
           l == LeafFreqs(f, s)
           h == HalvedNodes(t)
           z == LeafNodes(t)
           H == Total(Freqs(z))
           W == Total(l)
<1>1. Arrays(f, s, t.prnt) /\ Weighed(f, s, T) /\ f[R] <= MAX_FREQ
  BY DEF Resting, HuffmanTree, Huffman
<1>2. W = f[R] /\ f[R] \in Nat
  <2>1. T \notin 0..R /\ R \in 0..R
    BY Sizes
  <2>2. f[R] \in Nat
    BY <1>1, <2>1, ArraysAt
  <2>3. W = f[R] + (IF T \in 0..R /\ s[T] < T THEN 1 ELSE 0)
    BY <1>1 DEF Weighed
  <2> QED
    BY <2>1, <2>2, <2>3
<1>3. h \in Seq(NodeSet) /\ Len(h) = T /\ \A i \in 1..T :
        h[i].freq = (f[i - 1] + 1) \div 2 /\ f[i - 1] \in Nat /\ i - 1 \in 0..R
  BY HalvedIs
<1>4. l \in Seq(Nat) /\ Len(l) = T
  BY <1>1, LeafFreqsType
<1>5. HalvesOf(h, l, LeafPlaces(t))
  <2> SUFFICES ASSUME NEW i \in 1..T, i \in LeafPlaces(t) PROVE 2 * h[i].freq <= l[i] + 1
    BY <1>3 DEF HalvesOf
  <2>1. l[i] = f[i - 1]
    BY DEF LeafFreqs, LeafPlaces
  <2> DEFINE x == f[i - 1]
  <2>2. x \in Nat /\ h[i].freq = (x + 1) \div 2
    BY <1>3
  <2> HIDE DEF x, h, l
  <2>3. 2 * ((x + 1) \div 2) <= x + 1
    BY <2>2
  <2> QED
    BY <2>1, <2>2, <2>3 DEF x
<1>6. 2 * Total(Freqs(Pick(h, LeafPlaces(t)))) <= Total(l) + Len(Pick(h, LeafPlaces(t)))
  <2> HIDE DEF h, l
  <2> QED
    BY <1>3, <1>4, <1>5, HalvedTotal
<1>7. z = Pick(h, LeafPlaces(t))
  BY DEF LeafNodes
<1>8. Len(z) = NCHAR /\ H \in Nat
  <2>1. Forest(z, 0, H) /\ H \in Nat
    BY FirstForest
  <2>2. Len(z) = NCHAR + 0
    BY <2>1 DEF Forest
  <2> QED
    BY <2>1, <2>2, Sizes
<1>9. 2 * H <= W + NCHAR
  BY <1>6, <1>7, <1>8
<1> DEFINE fr == f[R]
<1>10. W = fr /\ fr \in Nat /\ fr <= MAX_FREQ
  BY <1>1, <1>2
<1> HIDE DEF H, W, fr
<1>11. H < MAX_FREQ
  BY <1>8, <1>9, <1>10, Sizes
<1> QED
  BY <1>11 DEF H

\* What reconst()'s second loop builds.
BuiltBody(t, w) ==
  [j \in 0..NCHAR - 1 |-> IF j = 0 THEN LeafNodes(t) ELSE WithInner(w[j - 1], 2 * (j - 1))]
Built(t) == CHOOSE w : w = BuiltBody(t, w)

LEMMA BuiltDef ==
  ASSUME NEW t
  PROVE  /\ Built(t)[0] = LeafNodes(t)
         /\ \A j \in Nat : j < NCHAR - 1 => Built(t)[j + 1] = WithInner(Built(t)[j], 2 * j)
<1> DEFINE e == LeafNodes(t)
           Upto(m, w) == w = [j \in 0..m |-> IF j = 0 THEN e ELSE WithInner(w[j - 1], 2 * (j - 1))]
           S == {m \in Nat : \E w : Upto(m, w)}
<1> HIDE DEF e
<1>1. 0 \in S
  <2> DEFINE w == [j \in 0..0 |-> e]
  <2>1. Upto(0, w)
    <3>1. \A j \in 0..0 : j = 0
      OBVIOUS
    <3> QED
      BY <3>1
  <2> HIDE DEF Upto
  <2> QED
    BY <2>1
<1>2. ASSUME NEW m \in Nat, m \in S PROVE m + 1 \in S
  <2>1. PICK w : Upto(m, w)
    BY <1>2
  <2> DEFINE x == [j \in 0..m + 1 |-> IF j = m + 1 THEN WithInner(w[m], 2 * m) ELSE w[j]]
             y == [j \in 0..m + 1 |-> IF j = 0 THEN e ELSE WithInner(x[j - 1], 2 * (j - 1))]
  <2>2. ASSUME NEW j \in 0..m + 1 PROVE x[j] = IF j = 0 THEN e ELSE WithInner(x[j - 1], 2 * (j - 1))
    <3>1. CASE j = m + 1
      <4>1. j - 1 = m /\ m \in 0..m + 1 /\ m # m + 1 /\ j # 0
        BY <3>1
      <4>2. x[j] = WithInner(w[m], 2 * m) /\ x[m] = w[m]
        BY <3>1, <4>1
      <4> HIDE DEF x
      <4> QED
        BY <4>1, <4>2
    <3>2. CASE j # m + 1
      <4>1. j \in 0..m
        BY <3>2
      <4>2. x[j] = w[j] /\ w[j] = IF j = 0 THEN e ELSE WithInner(w[j - 1], 2 * (j - 1))
        <5>1. x[j] = w[j]
          BY <3>2
        <5>2. w[j] = [k \in 0..m |-> IF k = 0 THEN e ELSE WithInner(w[k - 1], 2 * (k - 1))][j]
          BY <2>1, Zenon
        <5> HIDE DEF x
        <5> QED
          BY <4>1, <5>1, <5>2
      <4>3. j # 0 => x[j - 1] = w[j - 1]
        <5> SUFFICES ASSUME j # 0 PROVE x[j - 1] = w[j - 1]
          OBVIOUS
        <5>1. j - 1 \in 0..m + 1 /\ j - 1 # m + 1
          BY <4>1
        <5> QED
          BY <5>1
      <4> HIDE DEF x
      <4> QED
        BY <4>2, <4>3
    <3> QED
      BY <3>1, <3>2
  <2>3. x = y
    <3>1. x = [j \in 0..m + 1 |-> x[j]]
      OBVIOUS
    <3> HIDE DEF x
    <3> QED
      BY <2>2, <3>1
  <2>4. Upto(m + 1, x)
    <3> HIDE DEF x
    <3> QED
      BY <2>3, Zenon
  <2> HIDE DEF Upto, x, y
  <2> QED
    BY <2>4
<1>3. PICK w : Upto(NCHAR - 1, w)
  <2> HIDE DEF Upto
  <2>1. Nat \subseteq S
    <3> HIDE DEF S
    <3> QED
      BY <1>1, <1>2, NatInd
  <2>2. NCHAR - 1 \in Nat
    BY Sizes
  <2> QED
    BY <2>1, <2>2
<1>4. w = BuiltBody(t, w)
  BY <1>3, Zenon DEF BuiltBody, e
<1> DEFINE b == Built(t)
<1>5. b = BuiltBody(t, b)
  BY <1>4, Zenon DEF Built
<1> HIDE DEF b
<1>6. \A j \in 0..NCHAR - 1 : b[j] = IF j = 0 THEN LeafNodes(t) ELSE WithInner(b[j - 1], 2 * (j - 1))
  <2>1. b = [j \in 0..NCHAR - 1 |-> IF j = 0 THEN LeafNodes(t) ELSE WithInner(b[j - 1], 2 * (j - 1))]
    BY <1>5, Zenon DEF BuiltBody
  <2> SUFFICES ASSUME NEW j \in 0..NCHAR - 1
               PROVE  b[j] = IF j = 0 THEN LeafNodes(t) ELSE WithInner(b[j - 1], 2 * (j - 1))
    OBVIOUS
  <2>2. b[j] = [k \in 0..NCHAR - 1 |-> IF k = 0 THEN LeafNodes(t) ELSE WithInner(b[k - 1], 2 * (k - 1))][j]
    BY <2>1, Zenon
  <2> QED
    BY <2>2, Zenon
<1>7. b[0] = LeafNodes(t)
  <2>1. 0 \in 0..NCHAR - 1
    BY Sizes
  <2> QED
    BY <1>6, <2>1
<1>8. ASSUME NEW j \in Nat, j < NCHAR - 1 PROVE b[j + 1] = WithInner(b[j], 2 * j)
  <2>1. j + 1 \in 0..NCHAR - 1 /\ (j + 1) - 1 = j /\ j + 1 # 0
    BY <1>8, Sizes
  <2>2. b[j + 1] = WithInner(b[(j + 1) - 1], 2 * ((j + 1) - 1))
    BY <1>6, <2>1, Zenon
  <2> QED
    BY <2>1, <2>2
<1> QED
  BY <1>7, <1>8 DEF b

LEMMA BuiltForest ==
  ASSUME NEW t, Resting(t), NEW sum \in Nat, sum = Total(Freqs(LeafNodes(t)))
  PROVE  Forest(Built(t)[NCHAR - 1], NCHAR - 1, sum)
<1> DEFINE S == {j \in Nat : j <= NCHAR - 1 => Forest(Built(t)[j], j, sum)}
<1>1. 0 \in S
  BY BuiltDef, FirstForest
<1>2. ASSUME NEW j \in Nat, j \in S PROVE j + 1 \in S
  <2> SUFFICES ASSUME j + 1 <= NCHAR - 1 PROVE Forest(Built(t)[j + 1], j + 1, sum)
    OBVIOUS
  <2>1. j < NCHAR - 1 /\ j <= NCHAR - 1
    BY Sizes
  <2>2. Forest(Built(t)[j], j, sum)
    BY <1>2, <2>1
  <2>3. Built(t)[j + 1] = WithInner(Built(t)[j], 2 * j)
    BY <2>1, BuiltDef
  <2> QED
    BY <2>1, <2>2, <2>3, ForestGrows
<1> HIDE DEF S
<1>3. Nat \subseteq S
  BY <1>1, <1>2, NatInd
<1>4. NCHAR - 1 \in S /\ NCHAR - 1 \in Nat
  BY <1>3, Sizes
<1> QED
  BY <1>4, Sizes DEF S

\* The tree that reconst() makes of the nodes.
NodeFreq(t, z) == [i \in 0..T |-> IF i = T THEN t.freq[T] ELSE z[i + 1].freq]
NodeSon(z) == [i \in 0..R |-> z[i + 1].son]
NodePrnt(t, z) ==
  [k \in DOMAIN t.prnt |->
     IF k = R THEN t.prnt[R] ELSE CHOOSE i \in 0..R : k \in Children(z[i + 1].son)]

LEMMA ReconstIs ==
  ASSUME NEW t
  PROVE  Reconst(t) = [freq |-> NodeFreq(t, Built(t)[NCHAR - 1]),
                       son  |-> NodeSon(Built(t)[NCHAR - 1]),
                       prnt |-> NodePrnt(t, Built(t)[NCHAR - 1])]
BY Zenon DEF Reconst, Built, BuiltBody, LeafNodes, LeafPlaces, HalvedNodes, NodeFreq, NodeSon, NodePrnt

\* The last forest: all its nodes but the root are below another.
Whole(z, sum) == Forest(z, NCHAR - 1, sum)

LEMMA WholeAt ==
  ASSUME NEW sum \in Nat, NEW z, Whole(z, sum)
  PROVE  /\ z \in Seq(NodeSet) /\ Len(z) = T
         /\ \A m \in 1..T : z[m].freq \in Nat /\ z[m].freq >= 1 /\ z[m].son \in Links
         /\ \A m \in 1..T - 1 : z[m].freq <= z[m + 1].freq
         /\ \A m \in 1..T : z[m].son < T =>
              /\ z[m].son % 2 = 0 /\ z[m].son + 2 < m /\ z[m].son \in 0..R - 2
              /\ z[m].freq = z[z[m].son + 1].freq + z[z[m].son + 2].freq
<1>1. z \in Seq(NodeSet) /\ Len(z) = T /\ Rising(z) /\ Hanging(z, NCHAR - 1) /\ Adding(z)
  BY Sizes DEF Whole, Forest
<1>2. \A m \in 1..T : z[m].freq \in Nat
  BY <1>1, FreqsType
<1>3. \A m \in 1..T : z[m].freq >= 1 /\ (m # T => z[m].freq <= z[m + 1].freq)
  BY <1>1 DEF Rising
<1>4. ASSUME NEW m \in 1..T
      PROVE  /\ z[m].son \in Links
             /\ z[m].son < T => z[m].son % 2 = 0 /\ z[m].son \in 0..R - 2
  <2> DEFINE s == z[m].son
  <2>1. s \in T..T + NCHAR - 1 \/ (s \in 0..2 * (NCHAR - 1) - 1 /\ s % 2 = 0)
    BY <1>1 DEF Hanging
  <2> HIDE DEF s
  <2>2. s \in Links
    BY <2>1, Sizes DEF Links
  <2>3. ASSUME s < T PROVE s % 2 = 0 /\ s \in 0..R - 2
    <3>1. s \in 0..R - 1 /\ s % 2 = 0
      BY <2>1, <2>3, Sizes
    <3>2. (R - 1) % 2 = 1
      BY Sizes
    <3> QED
      BY <3>1, <3>2, Sizes
  <2> QED
    BY <2>2, <2>3 DEF s
<1>5. \A m \in 1..T : z[m].son < T =>
        /\ z[m].son + 2 < m
        /\ z[m].freq = z[z[m].son + 1].freq + z[z[m].son + 2].freq
  BY <1>1 DEF Adding
<1>6. \A m \in 1..T - 1 : z[m].freq <= z[m + 1].freq
  <2> SUFFICES ASSUME NEW m \in 1..T - 1 PROVE z[m].freq <= z[m + 1].freq
    OBVIOUS
  <2>1. m \in 1..T /\ m # T
    BY Sizes
  <2> QED
    BY <1>3, <2>1
<1> QED
  BY <1>1, <1>2, <1>3, <1>4, <1>5, <1>6

\* One node has a link below it.
LEMMA WholeHangs ==
  ASSUME NEW sum \in Nat, NEW z, Whole(z, sum), NEW k \in Links, k # R
  PROVE  /\ \E i \in 0..R : k \in Children(z[i + 1].son)
         /\ \A i, j \in 0..R : k \in Children(z[i + 1].son) /\ k \in Children(z[j + 1].son) => i = j
<1>1. /\ Len(z) = T
      /\ \A c \in T..T + NCHAR - 1 : \E m \in 1..T : z[m].son = c
      /\ \A q \in 0..(NCHAR - 1) - 1 : \E m \in 1..T : z[m].son = 2 * q
      /\ \A m, n \in 1..T : z[m].son = z[n].son => m = n
  BY WholeAt DEF Whole, Forest, Hanging
<1>2. k \in Nat
  BY Sizes DEF Links
\* What hangs is known from the link.
<1> DEFINE son == IF k < T THEN 2 * (k \div 2) ELSE k
<1>3. ASSUME NEW m \in 1..T PROVE k \in Children(z[m].son) <=> z[m].son = son
  <2> DEFINE s == z[m].son
  <2>1. s \in Links /\ (s < T => s % 2 = 0 /\ s \in 0..R - 2)
    BY WholeAt
  <2> HIDE DEF s
  <2>2. s \in Nat
    BY <2>1, Sizes DEF Links
  <2>3. CASE s < T
    <3>1. k \in Children(s) <=> k = s \/ k = s + 1
      BY <2>3 DEF Children
    <3>2. s + 1 < T /\ s % 2 = 0
      BY <2>1, <2>3, Sizes
    <3>3. k = s \/ k = s + 1 <=> s = son
      BY <1>2, <2>2, <2>3, <3>2, Sizes
    <3> QED
      BY <3>1, <3>3 DEF s
  <2>4. CASE ~(s < T)
    <3>1. k \in Children(s) <=> k = s
      BY <2>4 DEF Children
    <3>2. k = s <=> s = son
      BY <1>2, <2>2, <2>4, Sizes
    <3> QED
      BY <3>1, <3>2 DEF s
  <2> QED
    BY <2>3, <2>4
<1>4. \E m \in 1..T : z[m].son = son
  <2>1. CASE k < T
    <3>1. k \div 2 \in 0..(NCHAR - 1) - 1 /\ son = 2 * (k \div 2)
      BY <1>2, <2>1, Sizes
    <3> HIDE DEF son
    <3> QED
      BY <1>1, <3>1
  <2>2. CASE ~(k < T)
    <3>1. k \in T..T + NCHAR - 1 /\ son = k
      BY <1>2, <2>2, Sizes DEF Links
    <3> HIDE DEF son
    <3> QED
      BY <1>1, <3>1
  <2> QED
    BY <2>1, <2>2
<1> HIDE DEF son
<1>5. \E i \in 0..R : k \in Children(z[i + 1].son)
  <2>1. PICK m \in 1..T : z[m].son = son
    BY <1>4
  <2>2. m - 1 \in 0..R /\ (m - 1) + 1 = m
    BY Sizes
  <2>3. k \in Children(z[(m - 1) + 1].son)
    BY <1>3, <2>1, <2>2
  <2> QED
    BY <2>2, <2>3
<1>6. ASSUME NEW i \in 0..R, NEW j \in 0..R, k \in Children(z[i + 1].son), k \in Children(z[j + 1].son)
      PROVE  i = j
  <2>1. i + 1 \in 1..T /\ j + 1 \in 1..T
    BY Sizes
  <2>2. z[i + 1].son = z[j + 1].son
    BY <1>3, <1>6, <2>1
  <2>3. i + 1 = j + 1
    BY <1>1, <2>1, <2>2
  <2> QED
    BY <2>3, Sizes
<1> QED
  BY <1>5, <1>6

LEMMA WholeRoot ==
  ASSUME NEW sum \in Nat, NEW z, Whole(z, sum)
  PROVE  z[T].freq = sum
<1> DEFINE a == Freqs(z)
<1>1. z \in Seq(NodeSet) /\ Len(z) = T /\ T \in 1..T /\ R \in Nat /\ R < T /\ R + 1 = T
  BY WholeAt, Sizes
<1>2. a \in Seq(Nat) /\ Len(a) = T /\ a[T] = z[T].freq
  BY <1>1, FreqsType
<1>3. Total(a) = sum + Total(SubSeq(a, 1, R))
  <2>1. Total(a) = sum + Total(SubSeq(a, 1, 2 * (NCHAR - 1)))
    BY DEF Whole, Forest
  <2>2. 2 * (NCHAR - 1) = R
    BY Sizes
  <2> QED
    BY <2>1, <2>2
<1> HIDE DEF a
<1>4. /\ Total(SubSeq(a, 1, R)) \in Nat
      /\ Total(SubSeq(a, 1, R + 1)) = Total(SubSeq(a, 1, R)) + a[R + 1]
  BY <1>1, <1>2, TotalPrefix
<1>5. SubSeq(a, 1, R + 1) = a
  <2>1. SubSeq(a, 1, Len(a)) = a
    BY <1>2
  <2> QED
    BY <1>1, <1>2, <2>1
<1> DEFINE p == Total(SubSeq(a, 1, R))
           q == Total(a)
           x == a[T]
<1>6. p \in Nat /\ q = p + x /\ q = sum + p
  BY <1>1, <1>3, <1>4, <1>5
<1>7. x \in Nat
  BY <1>1, <1>2
<1> HIDE DEF p, q, x
<1>8. x = sum
  BY <1>6, <1>7
<1> QED
  BY <1>2, <1>8 DEF x

LEMMA ReconstRests ==
  ASSUME NEW t, Resting(t)
  PROVE  HuffmanTree(Reconst(t), T) /\ Reconst(t).freq[R] < MAX_FREQ
<1> DEFINE z == Built(t)[NCHAR - 1]
           f == t.freq
           s == t.son
           p == t.prnt
           g == NodeFreq(t, z)
           u == NodeSon(z)
           q == NodePrnt(t, z)
           sum == Total(Freqs(LeafNodes(t)))
<1>1. sum \in Nat /\ sum < MAX_FREQ
  BY FirstForest, HalvedSum
<1>2. Whole(z, sum)
  <2> HIDE DEF sum
  <2>1. sum = Total(Freqs(LeafNodes(t)))
    BY DEF sum
  <2> QED
    BY <1>1, <2>1, BuiltForest DEF Whole
<1>3. Reconst(t) = [freq |-> g, son |-> u, prnt |-> q]
  BY ReconstIs
<1>4. Arrays(f, s, p) /\ Ordered(f) /\ Linked(s, p)
  BY DEF Resting, HuffmanTree, Huffman
<1>5. DOMAIN p = Links /\ p[R] = 0 /\ f[T] = 2 * MAX_FREQ - 1
  BY <1>4 DEF Arrays, Linked, Ordered
<1> HIDE DEF sum, z
<1>6. \A i \in 0..T : g[i] = IF i = T THEN f[T] ELSE z[i + 1].freq
  BY DEF NodeFreq
<1>7. \A i \in 0..R : u[i] = z[i + 1].son
  BY DEF NodeSon
<1>8. \A k \in Links : q[k] = IF k = R THEN 0 ELSE CHOOSE i \in 0..R : k \in Children(z[i + 1].son)
  BY <1>5 DEF NodePrnt
<1>9. ASSUME NEW k \in Links, k # R
      PROVE  /\ q[k] \in 0..R /\ k \in Children(z[q[k] + 1].son)
             /\ \A i \in 0..R : k \in Children(z[i + 1].son) => i = q[k]
  <2>1. \E i \in 0..R : k \in Children(z[i + 1].son)
    BY <1>1, <1>2, <1>9, WholeHangs
  <2>2. q[k] = CHOOSE i \in 0..R : k \in Children(z[i + 1].son)
    BY <1>8, <1>9
  <2> HIDE DEF q
  <2>3. q[k] \in 0..R /\ k \in Children(z[q[k] + 1].son)
    BY <2>1, <2>2, Zenon
  <2>4. \A i, j \in 0..R : k \in Children(z[i + 1].son) /\ k \in Children(z[j + 1].son) => i = j
    BY <1>1, <1>2, <1>9, WholeHangs
  <2> QED
    BY <2>3, <2>4
<1>10. ASSUME NEW i \in 0..R
       PROVE  /\ i + 1 \in 1..T /\ i \in 0..T /\ i # T /\ g[i] = z[i + 1].freq /\ u[i] = z[i + 1].son
              /\ g[i] \in Nat /\ g[i] >= 1 /\ u[i] \in Links
              /\ (i # R => i + 1 \in 0..R /\ z[i + 1].freq <= z[(i + 1) + 1].freq)
  <2>1. i + 1 \in 1..T /\ i \in 0..T /\ i # T /\ (i # R => i + 1 \in 1..T - 1 /\ i + 1 \in 0..R)
    BY Sizes
  <2>2. g[i] = z[i + 1].freq /\ u[i] = z[i + 1].son
    BY <1>6, <1>7, <2>1
  <2>3. z[i + 1].freq \in Nat /\ z[i + 1].freq >= 1 /\ z[i + 1].son \in Links
    BY <1>1, <1>2, <2>1, WholeAt
  <2>4. i # R => z[i + 1].freq <= z[(i + 1) + 1].freq
    BY <1>1, <1>2, <2>1, WholeAt
  <2> QED
    BY <2>1, <2>2, <2>3, <2>4
<1> HIDE DEF g, u, q
<1>11. g[R] = sum /\ g[T] = 2 * MAX_FREQ - 1
  <2>1. R \in 0..R /\ R + 1 = T /\ T \in 0..T
    BY Sizes
  <2>2. g[R] = z[T].freq
    BY <1>10, <2>1
  <2>3. z[T].freq = sum
    BY <1>1, <1>2, WholeRoot
  <2>4. g[T] = f[T]
    BY <1>6, <2>1
  <2> QED
    BY <1>5, <2>2, <2>3, <2>4
<1>12. Arrays(g, u, q)
  <2>1. g \in [0..T -> Nat]
    <3>1. g = [i \in 0..T |-> g[i]]
      BY DEF g, NodeFreq
    <3>2. ASSUME NEW i \in 0..T PROVE g[i] \in Nat
      <4>1. CASE i = T
        BY <1>11, <4>1, Sizes
      <4>2. CASE i # T
        <5>1. i \in 0..R
          BY <4>2, Sizes
        <5> QED
          BY <1>10, <5>1
      <4> QED
        BY <4>1, <4>2
    <3> QED
      BY <3>1, <3>2
  <2>2. u \in [0..R -> Links]
    <3>1. u = [i \in 0..R |-> u[i]]
      BY DEF u, NodeSon
    <3> QED
      BY <1>10, <3>1
  <2>3. q \in [Links -> 0..R]
    <3>1. q = [k \in Links |-> q[k]]
      BY <1>5 DEF q, NodePrnt
    <3>2. ASSUME NEW k \in Links PROVE q[k] \in 0..R
      <4>1. CASE k = R
        <5>1. 0 \in 0..R
          BY Sizes
        <5>2. q[k] = 0
          BY <1>8, <4>1
        <5> QED
          BY <5>1, <5>2
      <4>2. CASE k # R
        BY <1>9, <4>2
      <4> QED
        BY <4>1, <4>2
    <3> QED
      BY <3>1, <3>2
  <2> QED
    BY <2>1, <2>2, <2>3 DEF Arrays
<1>13. Ordered(g)
  <2>1. ASSUME NEW i \in 0..R PROVE g[i] >= 1 /\ g[i] <= g[i + 1]
    <3>1. CASE i = R
      <4>1. i + 1 = T /\ sum <= 2 * MAX_FREQ - 1
        BY <1>1, <3>1, Sizes
      <4> QED
        BY <1>10, <1>11, <3>1, <4>1
    <3>2. CASE i # R
      <4>1. i + 1 \in 0..R /\ g[i] = z[i + 1].freq /\ z[i + 1].freq <= z[(i + 1) + 1].freq /\ g[i] >= 1
        BY <1>10, <3>2
      <4>2. g[i + 1] = z[(i + 1) + 1].freq
        BY <1>10, <4>1
      <4> QED
        BY <4>1, <4>2
    <3> QED
      BY <3>1, <3>2
  <2> QED
    BY <1>11, <2>1 DEF Ordered
<1>14. Linked(u, q)
  <2>1. q[R] = 0
    <3>1. R \in Links
      BY Sizes DEF Links
    <3> QED
      BY <1>8, <3>1
  <2>2. ASSUME NEW k \in Links, NEW i \in 0..R, k # R PROVE q[k] = i <=> k \in Children(u[i])
    BY <1>9, <1>10, <2>2
  <2> QED
    BY <2>1, <2>2 DEF Linked
<1>15. ASSUME NEW i \in 0..R, u[i] < T
       PROVE  /\ u[i] + 1 < i /\ u[i] % 2 = 0
              /\ g[i] = g[u[i]] + g[u[i] + 1]
  <2>1. i + 1 \in 1..T /\ u[i] = z[i + 1].son /\ g[i] = z[i + 1].freq
    BY <1>10
  <2> DEFINE x == z[i + 1].son
  <2>2. x % 2 = 0 /\ x + 2 < i + 1 /\ x \in 0..R - 2 /\ z[i + 1].freq = z[x + 1].freq + z[x + 2].freq
    BY <1>1, <1>2, <1>15, <2>1, WholeAt
  <2>3. u[i] = x
    BY <2>1
  <2> HIDE DEF x
  <2>4. x \in 0..R /\ x + 1 \in 0..R /\ (x + 1) + 1 = x + 2 /\ x + 1 < i
    BY <2>2, Sizes
  <2>5. g[x] = z[x + 1].freq /\ g[x + 1] = z[x + 2].freq
    BY <1>10, <2>4
  <2> QED
    BY <2>1, <2>2, <2>3, <2>4, <2>5
<1>16. Paired(u)
  BY <1>15 DEF Paired
<1>17. Summed(g, u, T)
  <2> SUFFICES ASSUME NEW i \in 0..R, u[i] < T PROVE g[i] + Short(i, T) = g[u[i]] + g[u[i] + 1]
    BY DEF Summed
  <2>1. Short(i, T) = 0 /\ g[i] \in Nat /\ g[i] = g[u[i]] + g[u[i] + 1]
    BY <1>10, <1>15, Sizes DEF Short
  <2> QED
    BY <2>1
<1>18. Weighed(g, u, T)
  <2>1. LeafFreqs(g, u) = Leaves(z)
    <3>1. Len(z) = T
      BY <1>1, <1>2, WholeAt
    <3>2. ASSUME NEW m \in 1..T PROVE g[m - 1] = z[m].freq /\ u[m - 1] = z[m].son
      <4>1. m - 1 \in 0..R /\ (m - 1) + 1 = m
        BY Sizes
      <4>2. g[m - 1] = z[(m - 1) + 1].freq /\ u[m - 1] = z[(m - 1) + 1].son
        BY <1>10, <4>1
      <4> QED
        BY <4>1, <4>2
    <3> QED
      BY <3>1, <3>2 DEF LeafFreqs, Leaves
  <2>2. Total(Leaves(z)) = sum
    BY <1>2 DEF Whole, Forest
  <2>3. T \notin 0..R /\ sum = sum + 0
    BY <1>1, Sizes
  <2> QED
    BY <1>11, <2>1, <2>2, <2>3 DEF Weighed
<1>19. Huffman(g, u, q, T)
  BY <1>12, <1>13, <1>14, <1>16, <1>17, <1>18 DEF Huffman
<1> DEFINE v == Reconst(t)
<1>20. v.freq = g /\ v.son = u /\ v.prnt = q /\ v = [freq |-> v.freq, son |-> v.son, prnt |-> v.prnt]
  BY <1>3
<1> HIDE DEF v
<1>21. HuffmanTree(v, T) /\ v.freq[R] < MAX_FREQ
  BY <1>1, <1>11, <1>19, <1>20 DEF HuffmanTree
<1> QED
  BY <1>21 DEF v

(***************************************************************************)
(* update().                                                               *)
(***************************************************************************)
\* A leaf has no children to weigh less than.
LEMMA LeafClimbs ==
  ASSUME NEW t, HuffmanTree(t, T), t.freq[R] < MAX_FREQ, NEW c \in 0..NCHAR - 1
  PROVE  Climbing(t, t.prnt[c + T])
<1> DEFINE f == t.freq
           s == t.son
           p == t.prnt
           i == p[c + T]
<1>1. /\ Arrays(f, s, p) /\ Ordered(f) /\ Linked(s, p) /\ Paired(s) /\ Summed(f, s, T)
      /\ Weighed(f, s, T)
  BY DEF HuffmanTree, Huffman
<1>2. c + T \in Links /\ c + T # R /\ ~(c + T < T)
  BY Sizes DEF Links
<1>3. i \in 0..R
  BY <1>1, <1>2 DEF Arrays
<1>4. c + T \in Children(s[i])
  BY <1>1, <1>2, <1>3 DEF Linked
<1>5. ~(s[i] < T)
  BY <1>1, <1>2, <1>3, <1>4, ChildBelow
<1> HIDE DEF i
<1>6. Summed(f, s, i)
  <2> SUFFICES ASSUME NEW j \in 0..R, s[j] < T PROVE f[j] + Short(j, i) = f[s[j]] + f[s[j] + 1]
    BY DEF Summed
  <2>1. f[j] + Short(j, T) = f[s[j]] + f[s[j] + 1]
    BY <1>1 DEF Summed
  <2>2. Short(j, T) = 0 /\ Short(j, i) = 0
    BY <1>5, Sizes DEF Short
  <2> QED
    BY <2>1, <2>2
<1>7. Weighed(f, s, i)
  <2>1. T \notin 0..R
    BY Sizes
  <2> QED
    BY <1>1, <1>5, <2>1 DEF Weighed
<1>8. Huffman(f, s, p, i)
  BY <1>1, <1>6, <1>7 DEF Huffman
<1> QED
  BY <1>3, <1>8 DEF Climbing, HuffmanTree, i

LEMMA UpdateRests ==
  ASSUME NEW t, Resting(t), NEW c \in 0..NCHAR - 1
  PROVE  Resting(Update(t, c))
<1> DEFINE u == IF t.freq[R] = MAX_FREQ THEN Reconst(t) ELSE t
<1>1. HuffmanTree(u, T) /\ u.freq[R] < MAX_FREQ
  <2>1. CASE t.freq[R] = MAX_FREQ
    BY <2>1, ReconstRests
  <2>2. CASE t.freq[R] # MAX_FREQ
    <3>1. t.freq[R] \in Nat
      <4>1. R \in 0..R
        BY Sizes
      <4> QED
        BY <4>1, ArraysAt DEF Resting, HuffmanTree, Huffman
    <3> QED
      BY <2>2, <3>1, Sizes DEF Resting
  <2> QED
    BY <2>1, <2>2
<1>2. Update(t, c) = Climb(u, u.prnt[c + T])
  BY DEF Update
<1> HIDE DEF u
<1>3. Climbing(u, u.prnt[c + T])
  BY <1>1, LeafClimbs
<1> QED
  BY <1>2, <1>3, ClimbRests

(***************************************************************************)
(* The sliding window's types.                                             *)
(***************************************************************************)
Codes == 0..LITERALS - 1
Windows == [0..N + F - 1 -> Codes]
DictSet == [text : Windows, dad : [0..N -> 0..N + LITERALS], lson : [0..N -> 0..N],
            rson : [0..N + LITERALS -> 0..N], match_length : 0..F, match_position : Int]

LEMMA Widths ==
  /\ N \in Nat /\ N > 1 /\ F \in Nat /\ F > 0 /\ 2 * F <= N /\ F < N /\ THRESHOLD \in Nat /\ THRESHOLD < F
  /\ LITERALS \in Nat /\ LITERALS > 0 /\ Space \in Codes /\ N <= 4096
  /\ NCHAR = LITERALS - THRESHOLD + F
<1>1. PICK k \in 1..12 : N = 2^k
  BY LzhufAssumption
<1>2. 2^k \in {2, 4, 8, 16, 32, 64, 128, 256, 512, 1024, 2048, 4096}
  <2>1. CASE k = 1
    BY <2>1
  <2>2. CASE k = 2
    BY <2>2
  <2>3. CASE k = 3
    BY <2>3
  <2>4. CASE k = 4
    BY <2>4
  <2>5. CASE k = 5
    BY <2>5
  <2>6. CASE k = 6
    BY <2>6
  <2>7. CASE k = 7
    BY <2>7
  <2>8. CASE k = 8
    BY <2>8
  <2>9. CASE k = 9
    BY <2>9
  <2>10. CASE k = 10
    BY <2>10
  <2>11. CASE k = 11
    BY <2>11
  <2>12. CASE k = 12
    BY <2>12
  <2>13. k = 1 \/ k = 2 \/ k = 3 \/ k = 4 \/ k = 5 \/ k = 6 \/ k = 7 \/ k = 8 \/ k = 9 \/ k = 10
         \/ k = 11 \/ k = 12
    OBVIOUS
  <2> QED
    BY <2>1, <2>2, <2>3, <2>4, <2>5, <2>6, <2>7, <2>8, <2>9, <2>10, <2>11, <2>12, <2>13
<1>3. N \in Nat /\ N > 1 /\ N <= 4096
  BY <1>1, <1>2
<1>4. /\ F \in Nat /\ 2 * F <= N /\ THRESHOLD \in Nat /\ THRESHOLD < F /\ LITERALS \in Nat
      /\ Space \in Codes
  BY LzhufAssumption DEF Codes
<1>5. LITERALS > 0 /\ F > 0 /\ F < N
  BY <1>3, <1>4 DEF Codes
<1> QED
  BY <1>3, <1>4, <1>5 DEF NCHAR

LEMMA DictFields ==
  ASSUME NEW d \in DictSet
  PROVE  /\ d.text \in Windows /\ d.dad \in [0..N -> 0..N + LITERALS] /\ d.lson \in [0..N -> 0..N]
         /\ d.rson \in [0..N + LITERALS -> 0..N] /\ d.match_length \in 0..F /\ d.match_position \in Int
BY DEF DictSet

\* What an operation leaves of a dictionary.
IsHung(d, right, p, q, e) ==
  /\ e \in DictSet /\ e.text = d.text /\ e.dad = d.dad
  /\ e.match_length = d.match_length /\ e.match_position = d.match_position
  /\ right => e.rson = [d.rson EXCEPT ![p] = q] /\ e.lson = d.lson
  /\ ~right => e.lson = [d.lson EXCEPT ![p] = q] /\ e.rson = d.rson

LEMMA HungIs ==
  ASSUME NEW d \in DictSet, NEW right \in BOOLEAN, NEW p \in 0..N + LITERALS, NEW q \in 0..N
  PROVE  IsHung(d, right, p, q, Hung(d, right, p, q))
<1> DEFINE a == [d.rson EXCEPT ![p] = q]
           b == [d.lson EXCEPT ![p] = q]
<1>1. a \in [0..N + LITERALS -> 0..N] /\ b \in [0..N -> 0..N]
  BY DictFields
<1> HIDE DEF a, b
<1>2. Hung(d, right, p, q) = IF right THEN [d EXCEPT !.rson = a] ELSE [d EXCEPT !.lson = b]
  BY DEF Hung, a, b
<1>3. CASE right
  <2>1. /\ [d EXCEPT !.rson = a] \in DictSet
        /\ [d EXCEPT !.rson = a].text = d.text /\ [d EXCEPT !.rson = a].dad = d.dad
        /\ [d EXCEPT !.rson = a].match_length = d.match_length
        /\ [d EXCEPT !.rson = a].match_position = d.match_position
        /\ [d EXCEPT !.rson = a].rson = a /\ [d EXCEPT !.rson = a].lson = d.lson
    BY <1>1 DEF DictSet
  <2> QED
    BY <1>2, <1>3, <2>1 DEF a, IsHung
<1>4. CASE ~right
  <2>1. /\ [d EXCEPT !.lson = b] \in DictSet
        /\ [d EXCEPT !.lson = b].text = d.text /\ [d EXCEPT !.lson = b].dad = d.dad
        /\ [d EXCEPT !.lson = b].match_length = d.match_length
        /\ [d EXCEPT !.lson = b].match_position = d.match_position
        /\ [d EXCEPT !.lson = b].lson = b /\ [d EXCEPT !.lson = b].rson = d.rson
    BY <1>1 DEF DictSet
  <2> QED
    BY <1>2, <1>4, <2>1 DEF b, IsHung
<1> QED
  BY <1>3, <1>4

IsInPlace(d, p, q, e) ==
  /\ e \in DictSet /\ e.text = d.text
  /\ e.match_length = d.match_length /\ e.match_position = d.match_position
  /\ e.dad = [d.dad EXCEPT ![q] = d.dad[p], ![p] = NIL]
  /\ d.rson[d.dad[p]] = p => e.rson = [d.rson EXCEPT ![d.dad[p]] = q] /\ e.lson = d.lson
  /\ d.rson[d.dad[p]] # p => e.lson = [d.lson EXCEPT ![d.dad[p]] = q] /\ e.rson = d.rson

LEMMA InPlaceOfIs ==
  ASSUME NEW d \in DictSet, NEW p \in 0..N, NEW q \in 0..N
  PROVE  IsInPlace(d, p, q, InPlaceOf(d, p, q))
<1> DEFINE a == [d.dad EXCEPT ![q] = d.dad[p], ![p] = NIL]
           x == d.dad[p]
           right == d.rson[x] = p
           h == Hung(d, right, x, q)
           e == [h EXCEPT !.dad = a]
<1>1. x \in 0..N + LITERALS /\ right \in BOOLEAN
  BY DictFields
<1>2. a \in [0..N -> 0..N + LITERALS]
  <2>1. NIL \in 0..N + LITERALS
    BY Widths DEF NIL
  <2> QED
    BY <1>1, <2>1, DictFields
<1>3. InPlaceOf(d, p, q) = e
  BY DEF InPlaceOf
<1> HIDE DEF a, x
<1>4. IsHung(d, right, x, q, h)
  <2> HIDE DEF right
  <2> QED
    BY <1>1, HungIs
<1> HIDE DEF h, right
<1>5. h \in DictSet
  BY <1>4 DEF IsHung
<1>6. /\ e \in DictSet /\ e.dad = a /\ e.text = h.text /\ e.match_length = h.match_length
      /\ e.match_position = h.match_position /\ e.rson = h.rson /\ e.lson = h.lson
  BY <1>2, <1>5 DEF DictSet
<1> HIDE DEF e
<1>7. right => e.rson = [d.rson EXCEPT ![x] = q] /\ e.lson = d.lson
  BY <1>4, <1>6 DEF IsHung
<1>8. ~right => e.lson = [d.lson EXCEPT ![x] = q] /\ e.rson = d.rson
  BY <1>4, <1>6 DEF IsHung
<1>9. e.text = d.text /\ e.match_length = d.match_length /\ e.match_position = d.match_position
  BY <1>4, <1>6 DEF IsHung
<1>10. IsInPlace(d, p, q, e)
  BY <1>6, <1>7, <1>8, <1>9 DEF IsInPlace, a, right, x
<1> QED
  BY <1>3, <1>10

LEMMA CommonType ==
  ASSUME NEW d, NEW r, NEW p
  PROVE  /\ Common(d, r, p) \in 1..F
         /\ \A i \in 1..F - 1 : i < Common(d, r, p) => d.text[r + i] = d.text[p + i]
         /\ Common(d, r, p) < F => d.text[r + Common(d, r, p)] # d.text[p + Common(d, r, p)]
<1> DEFINE S == {F} \cup {i \in 1..F - 1 : d.text[r + i] # d.text[p + i]}
           m == Min(S)
<1>1. F \in Nat /\ F > 0 /\ S \in SUBSET Nat /\ F \in S
  BY Widths
<1>2. Common(d, r, p) = m
  BY DEF Common
<1>3. m \in S /\ \A i \in S : m <= i
  <2> HIDE DEF S
  <2> QED
    BY <1>1, MinMember
<1> HIDE DEF m
<1>4. m \in 1..F
  BY <1>1, <1>3
<1>5. ASSUME NEW i \in 1..F - 1, i < m PROVE d.text[r + i] = d.text[p + i]
  <2>1. i \notin S
    <3> HIDE DEF S
    <3> QED
      BY <1>1, <1>3, <1>4, <1>5
  <2> QED
    BY <2>1
<1>6. m < F => d.text[r + m] # d.text[p + m]
  BY <1>1, <1>3
<1> QED
  BY <1>2, <1>4, <1>5, <1>6

IsNoted(d, r, p, i, e) ==
  /\ e \in DictSet /\ e.text = d.text /\ e.dad = d.dad /\ e.lson = d.lson /\ e.rson = d.rson
  /\ \/ e.match_length = d.match_length /\ e.match_position = d.match_position
     \/ /\ i > THRESHOLD /\ i >= d.match_length
        /\ e.match_length = i /\ e.match_position = ((r - p) % N) - 1
  /\ i > THRESHOLD => e.match_length >= i

LEMMA NotedIs ==
  ASSUME NEW d \in DictSet, NEW r \in Nat, NEW p \in Nat, NEW i \in 0..F
  PROVE  IsNoted(d, r, p, i, Noted(d, r, p, i))
<1> DEFINE distance == ((r - p) % N) - 1
           better == i > THRESHOLD /\ (i > d.match_length
                             \/ (i = d.match_length /\ distance < d.match_position))
           b == [d EXCEPT !.match_length = i, !.match_position = distance]
<1>1. distance \in Int
  BY Widths
<1>2. i \in Nat /\ THRESHOLD \in Nat /\ d.match_length \in Nat /\ d.match_position \in Int
  BY Widths, DictFields
<1>3. Noted(d, r, p, i) = IF better THEN b ELSE d
  BY DEF Noted
<1> HIDE DEF distance
<1>4. /\ b \in DictSet /\ b.text = d.text /\ b.dad = d.dad /\ b.lson = d.lson /\ b.rson = d.rson
      /\ b.match_length = i /\ b.match_position = distance
  BY <1>1 DEF DictSet
<1> HIDE DEF b
<1>5. CASE better
  <2>1. i > THRESHOLD /\ i >= d.match_length
    BY <1>2, <1>5
  <2> HIDE DEF better
  <2>2. Noted(d, r, p, i) = b
    BY <1>3, <1>5
  <2>3. b.match_length >= i
    BY <1>2, <1>4
  <2>4. IsNoted(d, r, p, i, b)
    BY <1>4, <2>1, <2>3 DEF distance, IsNoted
  <2> QED
    BY <2>2, <2>4
<1>6. CASE ~better
  <2>1. i > THRESHOLD => d.match_length >= i
    BY <1>2, <1>6
  <2> HIDE DEF better
  <2>2. Noted(d, r, p, i) = d
    BY <1>3, <1>6
  <2>3. IsNoted(d, r, p, i, d)
    BY <2>1 DEF IsNoted
  <2> QED
    BY <2>2, <2>3
<1> QED
  BY <1>5, <1>6

Cells == 0..N - 1
Walks == [dict : DictSet, node : 0..N + LITERALS, right : BOOLEAN, ended : BOOLEAN]

\* The node that is given another's children.
Heir(d, e, q, r) ==
  [e EXCEPT !.lson[r] = d.lson[q], !.rson[r] = d.rson[q],
            !.dad = [d.dad EXCEPT ![d.lson[q]] = r, ![d.rson[q]] = r]]

IsHeir(d, e, q, r, g) ==
  /\ g \in DictSet /\ g.text = e.text
  /\ g.match_length = e.match_length /\ g.match_position = e.match_position
  /\ g.lson = [e.lson EXCEPT ![r] = d.lson[q]]
  /\ g.rson = [e.rson EXCEPT ![r] = d.rson[q]]
  /\ g.dad = [d.dad EXCEPT ![d.lson[q]] = r, ![d.rson[q]] = r]

LEMMA HeirIs ==
  ASSUME NEW d \in DictSet, NEW e \in DictSet, NEW q \in 0..N, NEW r \in Cells
  PROVE  IsHeir(d, e, q, r, Heir(d, e, q, r))
<1> DEFINE a == [e.lson EXCEPT ![r] = d.lson[q]]
           b == [e.rson EXCEPT ![r] = d.rson[q]]
           c == [d.dad EXCEPT ![d.lson[q]] = r, ![d.rson[q]] = r]
<1>1. r \in 0..N /\ r \in 0..N + LITERALS /\ q \in 0..N + LITERALS
  BY Widths DEF Cells
<1>2. a \in [0..N -> 0..N]
  BY <1>1, DictFields
<1>3. b \in [0..N + LITERALS -> 0..N]
  BY <1>1, DictFields
<1>4. c \in [0..N -> 0..N + LITERALS]
  BY <1>1, DictFields
<1>5. Heir(d, e, q, r) = [e EXCEPT !.lson = a, !.rson = b, !.dad = c]
  BY DEF Heir
<1> HIDE DEF a, b, c
<1> DEFINE g == [e EXCEPT !.lson = a, !.rson = b, !.dad = c]
<1>6. /\ g \in DictSet /\ g.text = e.text /\ g.match_length = e.match_length
      /\ g.match_position = e.match_position /\ g.lson = a /\ g.rson = b /\ g.dad = c
  BY <1>2, <1>3, <1>4 DEF DictSet
<1> HIDE DEF g
<1>7. IsHeir(d, e, q, r, g)
  BY <1>6 DEF a, b, c, IsHeir
<1> QED
  BY <1>5, <1>7 DEF g

\* The child at which the walk is.
NextNode(v) == IF v.right THEN v.dict.rson[v.node] ELSE v.dict.lson[v.node]

LEMMA WalkIs ==
  ASSUME NEW v \in Walks, NEW r \in Cells,
         v.node \in 0..N \/ v.right
  PROVE  LET d == v.dict
             q == NextNode(v)
             i == Common(d, r, q)
             e == Noted(d, r, q, i)
         IN  /\ q \in 0..N
             /\ v.ended => Walk(v, r) = v
             /\ ~v.ended /\ q = NIL =>
                  Walk(v, r) = [dict  |-> [Hung(d, v.right, v.node, r) EXCEPT !.dad[r] = v.node],
                                node  |-> v.node, right |-> v.right, ended |-> TRUE]
             /\ ~v.ended /\ q # NIL /\ i = F =>
                  Walk(v, r) = [dict |-> InPlaceOf(Heir(d, e, q, r), q, r),
                                node |-> v.node, right |-> v.right, ended |-> TRUE]
             /\ ~v.ended /\ q # NIL /\ i # F =>
                  Walk(v, r) = [dict |-> e, node |-> q,
                                right |-> d.text[r + i] >= d.text[q + i], ended |-> FALSE]
<1> DEFINE d == v.dict
           q == NextNode(v)
           i == Common(d, r, q)
           e == Noted(d, r, q, i)
           g == [e EXCEPT !.lson[r] = d.lson[q], !.rson[r] = d.rson[q],
                         !.dad = [d.dad EXCEPT ![d.lson[q]] = r, ![d.rson[q]] = r]]
           h == [Hung(d, v.right, v.node, r) EXCEPT !.dad[r] = v.node]
           k == InPlaceOf(g, q, r)
           m == [dict |-> e, node |-> q, right |-> d.text[r + i] >= d.text[q + i], ended |-> FALSE]
<1>1. q \in 0..N
  <2>1. /\ v.node \in 0..N + LITERALS /\ d.lson \in [0..N -> 0..N]
        /\ d.rson \in [0..N + LITERALS -> 0..N] /\ v.right \in BOOLEAN
    BY DictFields DEF Walks
  <2> QED
    BY <2>1 DEF NextNode
<1>2. v = [dict |-> d, node |-> v.node, right |-> v.right, ended |-> v.ended] /\ v.ended \in BOOLEAN
  BY DEF Walks
<1>3. Walk(v, r) =
        CASE v.ended -> v
          [] ~v.ended /\ q = NIL -> [v EXCEPT !.dict = h, !.ended = TRUE]
          [] ~v.ended /\ q # NIL /\ i = F -> [v EXCEPT !.dict = k, !.ended = TRUE]
          [] OTHER -> m
  BY Zenon DEF Walk, NextNode
<1>4. g = Heir(d, e, q, r)
  BY DEF Heir
<1> HIDE DEF d, q, i, h, k, m
<1>5. /\ [v EXCEPT !.dict = h, !.ended = TRUE]
            = [dict |-> h, node |-> v.node, right |-> v.right, ended |-> TRUE]
      /\ [v EXCEPT !.dict = k, !.ended = TRUE]
            = [dict |-> k, node |-> v.node, right |-> v.right, ended |-> TRUE]
  <2> DEFINE m1 == [v EXCEPT !.dict = h]
             m2 == [v EXCEPT !.dict = k]
  <2>1. /\ m1 = [dict |-> h, node |-> v.node, right |-> v.right, ended |-> v.ended]
        /\ m2 = [dict |-> k, node |-> v.node, right |-> v.right, ended |-> v.ended]
    BY <1>2
  <2> DEFINE yes == TRUE
  <2> HIDE DEF m1, m2, yes
  <2>2. /\ [m1 EXCEPT !.ended = yes] = [dict |-> h, node |-> v.node, right |-> v.right, ended |-> yes]
        /\ [m2 EXCEPT !.ended = yes] = [dict |-> k, node |-> v.node, right |-> v.right, ended |-> yes]
    BY <2>1
  <2> QED
    BY <2>2, Zenon DEF m1, m2, yes
<1>6. v.ended => Walk(v, r) = v
  BY <1>3
<1>7. ~v.ended /\ q = NIL => Walk(v, r) = [v EXCEPT !.dict = h, !.ended = TRUE]
  BY <1>3
<1>8. ~v.ended /\ q # NIL /\ i = F => Walk(v, r) = [v EXCEPT !.dict = k, !.ended = TRUE]
  BY <1>3
<1>9. ~v.ended /\ q # NIL /\ i # F => Walk(v, r) = m
  BY <1>3
<1>10. k = InPlaceOf(Heir(d, e, q, r), q, r)
  BY <1>4, Zenon DEF k
<1> QED
  BY <1>1, <1>5, <1>6, <1>7, <1>8, <1>9, <1>10 DEF d, q, i, h, m

\* A node's turn.
Walking(v, d) == v \in Walks /\ v.dict.text = d.text /\ (v.node \in 0..N \/ v.right)

LEMMA WalkTyped ==
  ASSUME NEW v, NEW w, Walking(v, w), NEW r \in Cells
  PROVE  Walking(Walk(v, r), w)
<1> DEFINE d == v.dict
           q == NextNode(v)
           i == Common(d, r, q)
           e == Noted(d, r, q, i)
<1>1. v \in Walks /\ d \in DictSet /\ d.text = w.text /\ v.node \in 0..N + LITERALS /\ v.right \in BOOLEAN
      /\ (v.node \in 0..N \/ v.right)
  BY DEF Walking, Walks
<1>0. d \in DictSet /\ d.text = w.text /\ v.node \in 0..N + LITERALS
  BY <1>1
<1>9. q \in 0..N
  BY <1>1, WalkIs
<1>2. /\ q \in 0..N
      /\ v.ended => Walk(v, r) = v
      /\ ~v.ended /\ q = NIL =>
           Walk(v, r) = [dict  |-> [Hung(d, v.right, v.node, r) EXCEPT !.dad[r] = v.node],
                         node  |-> v.node, right |-> v.right, ended |-> TRUE]
      /\ ~v.ended /\ q # NIL /\ i = F =>
           Walk(v, r) = [dict |-> InPlaceOf(Heir(d, e, q, r), q, r),
                         node |-> v.node, right |-> v.right, ended |-> TRUE]
      /\ ~v.ended /\ q # NIL /\ i # F =>
           Walk(v, r) = [dict |-> e, node |-> q,
                         right |-> d.text[r + i] >= d.text[q + i], ended |-> FALSE]
  BY <1>1, WalkIs
<1>3. r \in 0..N /\ r \in Nat /\ q \in Nat /\ i \in 0..F
  <2>1. i \in 1..F
    BY CommonType
  <2> QED
    BY <1>2, <2>1, Widths DEF Cells
<1>4. e \in DictSet /\ e.text = d.text
  <2> HIDE DEF i, q, d
  <2> QED
    BY <1>1, <1>3, NotedIs DEF IsNoted
<1> HIDE DEF e, i, q
<1>5. CASE v.ended
  BY <1>1, <1>2, <1>5 DEF Walking
<1>6. CASE ~v.ended /\ q = NIL
  <2> DEFINE h == Hung(d, v.right, v.node, r)
             g == [h EXCEPT !.dad[r] = v.node]
  <2>1. h \in DictSet /\ h.text = d.text
    <3> DEFINE right == v.right
    <3>1. right \in BOOLEAN
      BY <1>1
    <3> HIDE DEF d, right
    <3>2. IsHung(d, right, v.node, r, Hung(d, right, v.node, r))
      BY <1>0, <1>3, <3>1, HungIs
    <3> QED
      BY <3>2 DEF right, IsHung
  <2> HIDE DEF h
  <2>2. g \in DictSet /\ g.text = h.text
    <3>1. [h.dad EXCEPT ![r] = v.node] \in [0..N -> 0..N + LITERALS]
      BY <1>1, <2>1, DictFields
    <3> QED
      BY <2>1, <3>1 DEF DictSet
  <2>3. Walk(v, r) = [dict |-> g, node |-> v.node, right |-> v.right, ended |-> TRUE]
    BY <1>2, <1>6 DEF h
  <2> HIDE DEF g, d
  <2> QED
    BY <1>1, <2>1, <2>2, <2>3 DEF Walking, Walks
<1>7. CASE ~v.ended /\ q # NIL /\ i = F
  <2> DEFINE g == Heir(d, e, q, r)
             k == InPlaceOf(g, q, r)
  <2>1. g \in DictSet /\ g.text = e.text
    <3> HIDE DEF d
    <3>1. IsHeir(d, e, q, r, g)
      BY <1>0, <1>9, <1>4, HeirIs
    <3> QED
      BY <3>1 DEF IsHeir
  <2> HIDE DEF g
  <2>2. k \in DictSet /\ k.text = g.text
    <3>1. IsInPlace(g, q, r, k)
      BY <1>9, <1>3, <2>1, InPlaceOfIs
    <3> QED
      BY <3>1 DEF IsInPlace
  <2>3. Walk(v, r) = [dict |-> k, node |-> v.node, right |-> v.right, ended |-> TRUE]
    BY <1>2, <1>7 DEF g
  <2> HIDE DEF k, d
  <2> QED
    BY <1>1, <1>4, <2>1, <2>2, <2>3 DEF Walking, Walks
<1>8. CASE ~v.ended /\ q # NIL /\ i # F
  <2>1. Walk(v, r) = [dict |-> e, node |-> q,
                      right |-> d.text[r + i] >= d.text[q + i], ended |-> FALSE]
    BY <1>2, <1>8
  <2>2. q \in 0..N + LITERALS
    BY <1>2, Widths
  <2> HIDE DEF d
  <2> QED
    BY <1>1, <1>2, <1>4, <2>1, <2>2 DEF Walking, Walks
<1> QED
  BY <1>5, <1>6, <1>7, <1>8

InsertStart(d, r) ==
  [dict  |-> [d EXCEPT !.lson[r] = NIL, !.rson[r] = NIL, !.match_length = 0],
   node  |-> N + 1 + d.text[r],
   right |-> TRUE,
   ended |-> FALSE]

\* insert_node()'s loop.
InsertStep(d, r, x, k) == Walk(x, r)
InsertBody(d, r, w) ==
  [k \in 0..N |-> IF k = 0 THEN InsertStart(d, r) ELSE InsertStep(d, r, w[k - 1], k)]
InsertLoop(d, r) == CHOOSE w : w = InsertBody(d, r, w)

LEMMA InsertLoopDef ==
  ASSUME NEW d, NEW r, N \in Nat
  PROVE  /\ InsertLoop(d, r)[0] = InsertStart(d, r)
         /\ \A k \in Nat : k < N =>
              InsertLoop(d, r)[k + 1] = InsertStep(d, r, InsertLoop(d, r)[k], k + 1)
<1> DEFINE e == InsertStart(d, r)
           Upto(m, w) == w = [k \in 0..m |-> IF k = 0 THEN e ELSE InsertStep(d, r, w[k - 1], k)]
           S == {m \in Nat : \E w : Upto(m, w)}
           n == N
<1> HIDE DEF e
<1>1. 0 \in S
  <2> DEFINE w == [k \in 0..0 |-> e]
  <2>1. Upto(0, w)
    <3>1. \A k \in 0..0 : k = 0
      OBVIOUS
    <3> QED
      BY <3>1
  <2> HIDE DEF Upto
  <2> QED
    BY <2>1
<1>2. ASSUME NEW m \in Nat, m \in S PROVE m + 1 \in S
  <2>1. PICK w : Upto(m, w)
    BY <1>2
  <2> DEFINE x == [k \in 0..m + 1 |-> IF k = m + 1 THEN InsertStep(d, r, w[m], m + 1) ELSE w[k]]
             y == [k \in 0..m + 1 |-> IF k = 0 THEN e ELSE InsertStep(d, r, x[k - 1], k)]
  <2>2. ASSUME NEW k \in 0..m + 1
        PROVE  x[k] = IF k = 0 THEN e ELSE InsertStep(d, r, x[k - 1], k)
    <3>1. CASE k = m + 1
      <4>1. k - 1 = m /\ m \in 0..m + 1 /\ m # m + 1 /\ k # 0
        BY <3>1
      <4>2. x[k] = InsertStep(d, r, w[m], m + 1) /\ x[m] = w[m]
        BY <3>1, <4>1
      <4> HIDE DEF x
      <4> QED
        BY <3>1, <4>1, <4>2
    <3>2. CASE k # m + 1
      <4>1. k \in 0..m
        BY <3>2
      <4>2. x[k] = w[k] /\ w[k] = IF k = 0 THEN e ELSE InsertStep(d, r, w[k - 1], k)
        <5>1. x[k] = w[k]
          BY <3>2
        <5>2. w[k] = [j \in 0..m |-> IF j = 0 THEN e ELSE InsertStep(d, r, w[j - 1], j)][k]
          BY <2>1, Zenon
        <5> HIDE DEF x
        <5> QED
          BY <4>1, <5>1, <5>2
      <4>3. k # 0 => x[k - 1] = w[k - 1]
        <5> SUFFICES ASSUME k # 0 PROVE x[k - 1] = w[k - 1]
          OBVIOUS
        <5>1. k - 1 \in 0..m + 1 /\ k - 1 # m + 1
          BY <4>1
        <5> QED
          BY <5>1
      <4> HIDE DEF x
      <4> QED
        BY <4>2, <4>3
    <3> QED
      BY <3>1, <3>2
  <2>3. x = y
    <3>1. x = [k \in 0..m + 1 |-> x[k]]
      OBVIOUS
    <3> HIDE DEF x
    <3> QED
      BY <2>2, <3>1
  <2>4. Upto(m + 1, x)
    <3> HIDE DEF x
    <3> QED
      BY <2>3, Zenon
  <2> HIDE DEF Upto, x, y
  <2> QED
    BY <2>4
<1>3. PICK w : Upto(n, w)
  <2> HIDE DEF Upto
  <2>1. Nat \subseteq S
    <3> HIDE DEF S
    <3> QED
      BY <1>1, <1>2, NatInd
  <2> QED
    BY <2>1
<1>4. w = InsertBody(d, r, w)
  BY <1>3, Zenon DEF InsertBody, e
<1> DEFINE b == InsertLoop(d, r)
<1>5. b = InsertBody(d, r, b)
  BY <1>4, Zenon DEF InsertLoop
<1> HIDE DEF b
<1>6. b = [k \in 0..n |-> IF k = 0 THEN e ELSE InsertStep(d, r, b[k - 1], k)]
  BY <1>5, Zenon DEF InsertBody, e
<1> HIDE DEF n
<1>7. \A k \in 0..n : b[k] = IF k = 0 THEN e ELSE InsertStep(d, r, b[k - 1], k)
  <2> SUFFICES ASSUME NEW k \in 0..n
               PROVE  b[k] = IF k = 0 THEN e ELSE InsertStep(d, r, b[k - 1], k)
    OBVIOUS
  <2>1. b[k] = [j \in 0..n |-> IF j = 0 THEN e ELSE InsertStep(d, r, b[j - 1], j)][k]
    BY <1>6, Zenon
  <2> QED
    BY <2>1, Zenon
<1>8. n \in Nat
  BY DEF n
<1>9. b[0] = e
  BY <1>7, <1>8
<1>10. ASSUME NEW k \in Nat, k < n PROVE b[k + 1] = InsertStep(d, r, b[k], k + 1)
  <2>1. k + 1 \in 0..n /\ (k + 1) - 1 = k /\ k + 1 # 0
    BY <1>8, <1>10
  <2>2. b[k + 1] = InsertStep(d, r, b[(k + 1) - 1], k + 1)
    BY <1>7, <2>1, Zenon
  <2> QED
    BY <2>1, <2>2
<1> QED
  BY <1>9, <1>10 DEF b, e, n

LEMMA InsertNodeIs ==
  ASSUME NEW d, NEW r
  PROVE  InsertNode(d, r) = InsertLoop(d, r)[N].dict
BY Zenon DEF InsertNode, InsertLoop, InsertBody, InsertStep, InsertStart

\* A dictionary with the same text.
SameText(d, e) == e \in DictSet /\ e.text = d.text

LEMMA InsertStarts ==
  ASSUME NEW d \in DictSet, NEW r \in Cells
  PROVE  Walking(InsertStart(d, r), d)
<1> DEFINE a == [d.lson EXCEPT ![r] = NIL]
           b == [d.rson EXCEPT ![r] = NIL]
           e == [d EXCEPT !.lson = a, !.rson = b, !.match_length = 0]
           n == N + 1 + d.text[r]
<1>1. a \in [0..N -> 0..N] /\ b \in [0..N + LITERALS -> 0..N]
  BY DictFields, Widths, SMTT(40) DEF NIL, Cells
<1>2. 0 \in 0..F
  BY Widths
<1>3. n \in 0..N + LITERALS
  <2>1. d.text[r] \in Codes
    BY DictFields, Widths DEF Windows, Cells
  <2> QED
    BY <2>1, Widths DEF Codes
<1>4. InsertStart(d, r) = [dict |-> e, node |-> n, right |-> TRUE, ended |-> FALSE]
  BY DEF InsertStart
<1> HIDE DEF a, b, n
<1>5. e \in DictSet /\ e.text = d.text
  BY <1>1, <1>2 DEF DictSet
<1> HIDE DEF e
<1> QED
  BY <1>3, <1>4, <1>5 DEF Walking, Walks

LEMMA InsertNodeTyped ==
  ASSUME NEW d \in DictSet, NEW r \in Cells
  PROVE  SameText(d, InsertNode(d, r))
<1> DEFINE w == InsertLoop(d, r)
           S == {k \in Nat : k <= N => Walking(w[k], d)}
<1>1. w[0] = InsertStart(d, r) /\ \A k \in Nat : k < N => w[k + 1] = Walk(w[k], r)
  BY Widths, InsertLoopDef DEF InsertStep
<1> HIDE DEF w
<1>2. 0 \in S
  BY <1>1, InsertStarts
<1>3. ASSUME NEW k \in Nat, k \in S PROVE k + 1 \in S
  <2> SUFFICES ASSUME k + 1 <= N PROVE Walking(w[k + 1], d)
    OBVIOUS
  <2>1. k < N /\ k <= N
    BY Widths
  <2>2. Walking(w[k], d)
    BY <1>3, <2>1
  <2>3. Walking(Walk(w[k], r), d)
    BY <2>2, WalkTyped
  <2> QED
    BY <1>1, <2>1, <2>3
<1> HIDE DEF S
<1>4. N \in S
  BY <1>2, <1>3, NatInd, Widths
<1>5. Walking(w[N], d)
  BY <1>4, Widths DEF S
<1> QED
  BY <1>5, InsertNodeIs DEF SameText, Walking, Walks, w

\* The loop to the right, from node q.
RightStep(d, q, x, k) == IF d.rson[x] = NIL THEN x ELSE d.rson[x]
RightBody(d, q, w) ==
  [k \in 0..N |-> IF k = 0 THEN q ELSE RightStep(d, q, w[k - 1], k)]
RightLoop(d, q) == CHOOSE w : w = RightBody(d, q, w)

LEMMA RightLoopDef ==
  ASSUME NEW d, NEW q, N \in Nat
  PROVE  /\ RightLoop(d, q)[0] = q
         /\ \A k \in Nat : k < N =>
              RightLoop(d, q)[k + 1] = RightStep(d, q, RightLoop(d, q)[k], k + 1)
<1> DEFINE e == q
           Upto(m, w) == w = [k \in 0..m |-> IF k = 0 THEN e ELSE RightStep(d, q, w[k - 1], k)]
           S == {m \in Nat : \E w : Upto(m, w)}
           n == N
<1> HIDE DEF e
<1>1. 0 \in S
  <2> DEFINE w == [k \in 0..0 |-> e]
  <2>1. Upto(0, w)
    <3>1. \A k \in 0..0 : k = 0
      OBVIOUS
    <3> QED
      BY <3>1
  <2> HIDE DEF Upto
  <2> QED
    BY <2>1
<1>2. ASSUME NEW m \in Nat, m \in S PROVE m + 1 \in S
  <2>1. PICK w : Upto(m, w)
    BY <1>2
  <2> DEFINE x == [k \in 0..m + 1 |-> IF k = m + 1 THEN RightStep(d, q, w[m], m + 1) ELSE w[k]]
             y == [k \in 0..m + 1 |-> IF k = 0 THEN e ELSE RightStep(d, q, x[k - 1], k)]
  <2>2. ASSUME NEW k \in 0..m + 1
        PROVE  x[k] = IF k = 0 THEN e ELSE RightStep(d, q, x[k - 1], k)
    <3>1. CASE k = m + 1
      <4>1. k - 1 = m /\ m \in 0..m + 1 /\ m # m + 1 /\ k # 0
        BY <3>1
      <4>2. x[k] = RightStep(d, q, w[m], m + 1) /\ x[m] = w[m]
        BY <3>1, <4>1
      <4> HIDE DEF x
      <4> QED
        BY <3>1, <4>1, <4>2
    <3>2. CASE k # m + 1
      <4>1. k \in 0..m
        BY <3>2
      <4>2. x[k] = w[k] /\ w[k] = IF k = 0 THEN e ELSE RightStep(d, q, w[k - 1], k)
        <5>1. x[k] = w[k]
          BY <3>2
        <5>2. w[k] = [j \in 0..m |-> IF j = 0 THEN e ELSE RightStep(d, q, w[j - 1], j)][k]
          BY <2>1, Zenon
        <5> HIDE DEF x
        <5> QED
          BY <4>1, <5>1, <5>2
      <4>3. k # 0 => x[k - 1] = w[k - 1]
        <5> SUFFICES ASSUME k # 0 PROVE x[k - 1] = w[k - 1]
          OBVIOUS
        <5>1. k - 1 \in 0..m + 1 /\ k - 1 # m + 1
          BY <4>1
        <5> QED
          BY <5>1
      <4> HIDE DEF x
      <4> QED
        BY <4>2, <4>3
    <3> QED
      BY <3>1, <3>2
  <2>3. x = y
    <3>1. x = [k \in 0..m + 1 |-> x[k]]
      OBVIOUS
    <3> HIDE DEF x
    <3> QED
      BY <2>2, <3>1
  <2>4. Upto(m + 1, x)
    <3> HIDE DEF x
    <3> QED
      BY <2>3, Zenon
  <2> HIDE DEF Upto, x, y
  <2> QED
    BY <2>4
<1>3. PICK w : Upto(n, w)
  <2> HIDE DEF Upto
  <2>1. Nat \subseteq S
    <3> HIDE DEF S
    <3> QED
      BY <1>1, <1>2, NatInd
  <2> QED
    BY <2>1
<1>4. w = RightBody(d, q, w)
  BY <1>3, Zenon DEF RightBody, e
<1> DEFINE b == RightLoop(d, q)
<1>5. b = RightBody(d, q, b)
  BY <1>4, Zenon DEF RightLoop
<1> HIDE DEF b
<1>6. b = [k \in 0..n |-> IF k = 0 THEN e ELSE RightStep(d, q, b[k - 1], k)]
  BY <1>5, Zenon DEF RightBody, e
<1> HIDE DEF n
<1>7. \A k \in 0..n : b[k] = IF k = 0 THEN e ELSE RightStep(d, q, b[k - 1], k)
  <2> SUFFICES ASSUME NEW k \in 0..n
               PROVE  b[k] = IF k = 0 THEN e ELSE RightStep(d, q, b[k - 1], k)
    OBVIOUS
  <2>1. b[k] = [j \in 0..n |-> IF j = 0 THEN e ELSE RightStep(d, q, b[j - 1], j)][k]
    BY <1>6, Zenon
  <2> QED
    BY <2>1, Zenon
<1>8. n \in Nat
  BY DEF n
<1>9. b[0] = e
  BY <1>7, <1>8
<1>10. ASSUME NEW k \in Nat, k < n PROVE b[k + 1] = RightStep(d, q, b[k], k + 1)
  <2>1. k + 1 \in 0..n /\ (k + 1) - 1 = k /\ k + 1 # 0
    BY <1>8, <1>10
  <2>2. b[k + 1] = RightStep(d, q, b[(k + 1) - 1], k + 1)
    BY <1>7, <2>1, Zenon
  <2> QED
    BY <2>1, <2>2
<1> QED
  BY <1>9, <1>10 DEF b, e, n

LEMMA RightmostIs ==
  ASSUME NEW d, NEW q
  PROVE  Rightmost(d, q) = RightLoop(d, q)[N]
BY Zenon DEF Rightmost, RightLoop, RightBody, RightStep

LEMMA RightmostTyped ==
  ASSUME NEW d \in DictSet, NEW q \in 0..N
  PROVE  Rightmost(d, q) \in 0..N
<1> DEFINE w == RightLoop(d, q)
           S == {k \in Nat : k <= N => w[k] \in 0..N}
<1>1. w[0] = q /\ \A k \in Nat : k < N => w[k + 1] = IF d.rson[w[k]] = NIL THEN w[k] ELSE d.rson[w[k]]
  BY Widths, RightLoopDef DEF RightStep
<1> HIDE DEF w
<1>2. 0 \in S
  BY <1>1
<1>3. ASSUME NEW k \in Nat, k \in S PROVE k + 1 \in S
  <2> SUFFICES ASSUME k + 1 <= N PROVE w[k + 1] \in 0..N
    OBVIOUS
  <2>1. k < N /\ k <= N
    BY Widths
  <2>2. w[k] \in 0..N
    BY <1>3, <2>1
  <2> DEFINE m == w[k]
  <2> HIDE DEF m
  <2>3. m \in 0..N + LITERALS
    BY <2>2, Widths DEF m
  <2>4. d.rson[m] \in 0..N
    BY <2>3, DictFields
  <2> QED
    BY <1>1, <2>1, <2>2, <2>4 DEF m
<1> HIDE DEF S
<1>4. N \in S
  BY <1>2, <1>3, NatInd, Widths
<1> QED
  BY <1>4, RightmostIs, Widths DEF S, w

IsDetached(d, p, q, e) ==
  /\ e \in DictSet /\ e.text = d.text
  /\ e.match_length = d.match_length /\ e.match_position = d.match_position
  /\ q = d.lson[p] => e = d
  /\ q # d.lson[p] =>
       /\ e.rson = [d.rson EXCEPT ![d.dad[q]] = d.lson[q]]
       /\ e.dad = [d.dad EXCEPT ![d.lson[q]] = d.dad[q], ![d.lson[p]] = q]
       /\ e.lson = [d.lson EXCEPT ![q] = d.lson[p]]

LEMMA DetachedIs ==
  ASSUME NEW d \in DictSet, NEW p \in 0..N, NEW q \in 0..N
  PROVE  IsDetached(d, p, q, Detached(d, p, q))
<1> DEFINE a == [d.rson EXCEPT ![d.dad[q]] = d.lson[q]]
           b == [d.dad EXCEPT ![d.lson[q]] = d.dad[q], ![d.lson[p]] = q]
           c == [d.lson EXCEPT ![q] = d.lson[p]]
           e == [d EXCEPT !.rson = a, !.dad = b, !.lson = c]
<1>1. q \in 0..N + LITERALS
  BY Widths
<1>2. a \in [0..N + LITERALS -> 0..N] /\ c \in [0..N -> 0..N]
  BY DictFields
<1>3. b \in [0..N -> 0..N + LITERALS]
  BY <1>1, DictFields
<1>4. Detached(d, p, q) = IF q = d.lson[p] THEN d ELSE e
  BY DEF Detached
<1> HIDE DEF a, b, c
<1>5. /\ e \in DictSet /\ e.text = d.text /\ e.match_length = d.match_length
      /\ e.match_position = d.match_position /\ e.rson = a /\ e.dad = b /\ e.lson = c
  BY <1>2, <1>3 DEF DictSet
<1> HIDE DEF e
<1>6. CASE q = d.lson[p]
  BY <1>4, <1>6 DEF IsDetached
<1>7. CASE q # d.lson[p]
  BY <1>4, <1>5, <1>7 DEF IsDetached, a, b, c
<1> QED
  BY <1>6, <1>7

\* Node q, which has no right child, takes over p's.
TakesRight(e, d, p, q) == [e EXCEPT !.rson[q] = d.rson[p], !.dad[d.rson[p]] = q]

IsTakesRight(e, d, p, q, g) ==
  /\ g \in DictSet /\ g.text = e.text
  /\ g.match_length = e.match_length /\ g.match_position = e.match_position
  /\ g.lson = e.lson /\ g.rson = [e.rson EXCEPT ![q] = d.rson[p]]
  /\ g.dad = [e.dad EXCEPT ![d.rson[p]] = q]

LEMMA TakesRightIs ==
  ASSUME NEW d \in DictSet, NEW e \in DictSet, NEW p \in 0..N, NEW q \in 0..N
  PROVE  IsTakesRight(e, d, p, q, TakesRight(e, d, p, q))
<1> DEFINE a == [e.rson EXCEPT ![q] = d.rson[p]]
           b == [e.dad EXCEPT ![d.rson[p]] = q]
           g == [e EXCEPT !.rson = a, !.dad = b]
<1>1. q \in 0..N + LITERALS /\ p \in 0..N + LITERALS
  BY Widths
<1>2. a \in [0..N + LITERALS -> 0..N]
  BY <1>1, DictFields
<1>3. b \in [0..N -> 0..N + LITERALS]
  BY <1>1, DictFields
<1>4. TakesRight(e, d, p, q) = g
  BY DEF TakesRight
<1> HIDE DEF a, b
<1>5. /\ g \in DictSet /\ g.text = e.text /\ g.match_length = e.match_length
      /\ g.match_position = e.match_position /\ g.rson = a /\ g.dad = b /\ g.lson = e.lson
  BY <1>2, <1>3 DEF DictSet
<1> HIDE DEF g
<1> QED
  BY <1>4, <1>5 DEF IsTakesRight, a, b

LEMMA DeleteNodeTyped ==
  ASSUME NEW d \in DictSet, NEW p \in 0..N
  PROVE  SameText(d, DeleteNode(d, p))
<1> DEFINE q == Rightmost(d, d.lson[p])
           e == Detached(d, p, q)
           g == TakesRight(e, d, p, q)
<1>1. d.lson[p] \in 0..N /\ d.rson[p] \in 0..N
  <2>1. p \in 0..N + LITERALS
    BY Widths
  <2> QED
    BY <2>1, DictFields
<1>2. q \in 0..N
  BY <1>1, RightmostTyped
<1>3. DeleteNode(d, p) = IF d.dad[p] = NIL THEN d
                         ELSE IF d.rson[p] = NIL THEN InPlaceOf(d, p, d.lson[p])
                         ELSE IF d.lson[p] = NIL THEN InPlaceOf(d, p, d.rson[p])
                         ELSE InPlaceOf(g, p, q)
  BY Zenon DEF DeleteNode, TakesRight
<1> HIDE DEF q
<1>4. e \in DictSet /\ e.text = d.text
  BY <1>2, DetachedIs DEF IsDetached
<1> HIDE DEF e
<1>5. g \in DictSet /\ g.text = e.text
  <2>1. IsTakesRight(e, d, p, q, g)
    BY <1>2, <1>4, TakesRightIs
  <2> HIDE DEF g
  <2> QED
    BY <2>1 DEF IsTakesRight
<1> HIDE DEF g
<1>6. ASSUME NEW y \in 0..N, NEW x \in DictSet PROVE SameText(x, InPlaceOf(x, p, y))
  BY InPlaceOfIs DEF IsInPlace, SameText
<1>7. SameText(d, InPlaceOf(d, p, d.lson[p])) /\ SameText(d, InPlaceOf(d, p, d.rson[p]))
  BY <1>1, <1>6
<1>8. SameText(g, InPlaceOf(g, p, q))
  BY <1>2, <1>5, <1>6
<1> QED
  BY <1>3, <1>4, <1>5, <1>7, <1>8 DEF SameText

(***************************************************************************)
(* The code of a symbol: the path to its leaf.                             *)
(***************************************************************************)
PathOf(t) == CHOOSE w : w = [k \in 0..R |-> IF k = R THEN <<>> ELSE Append(w[t.prnt[k]], k % 2)]

LEMMA RestingParts ==
  ASSUME NEW t, Resting(t)
  PROVE  /\ Arrays(t.freq, t.son, t.prnt) /\ Linked(t.son, t.prnt) /\ Paired(t.son)
         /\ t \in TreeSet
<1>1. Arrays(t.freq, t.son, t.prnt) /\ Linked(t.son, t.prnt) /\ Paired(t.son)
  BY DEF Resting, HuffmanTree, Huffman
<1>2. t = [freq |-> t.freq, son |-> t.son, prnt |-> t.prnt]
  BY DEF Resting, HuffmanTree
<1>3. t \in TreeSet
  BY <1>1, <1>2 DEF Arrays, TreeSet
<1> QED
  BY <1>1, <1>3

LEMMA RestingAbove ==
  ASSUME NEW t, Resting(t), NEW n \in 0..R, n # R
  PROVE  t.prnt[n] \in n + 1..R /\ n \in Children(t.son[t.prnt[n]]) /\ t.son[t.prnt[n]] < T
BY RestingParts, ParentAbove

\* The path to a node goes on from the path to the node above it.
LEMMA PathDef ==
  ASSUME NEW t, Resting(t)
  PROVE  /\ PathOf(t)[R] = <<>>
         /\ \A k \in 0..R : k # R => PathOf(t)[k] = Append(PathOf(t)[t.prnt[k]], k % 2)
         /\ \A c : CodeOf(t, c) = PathOf(t)[t.prnt[c + T]]
<1> DEFINE p == t.prnt
           Path(w, k) == IF k = R THEN <<>> ELSE Append(w[p[k]], k % 2)
           Upto(m, w) == \A k \in R - m..R : w[k] = Path(w, k)
           S == {m \in Nat : m <= R => \E w : Upto(m, w)}
<1>1. R \in Nat
  BY Sizes
<1>2. ASSUME NEW k \in 0..R, k # R PROVE p[k] \in k + 1..R
  BY <1>2, RestingAbove
<1> HIDE DEF p
<1>3. 0 \in S
  <2> DEFINE w == [k \in R..R |-> <<>>]
  <2>1. ASSUME NEW k \in R - 0..R PROVE w[k] = Path(w, k)
    <3>1. k = R /\ k \in R..R
      BY <1>1
    <3> QED
      BY <3>1
  <2>2. Upto(0, w)
    <3> HIDE DEF w
    <3> QED
      BY <2>1
  <2> HIDE DEF Upto, w
  <2> QED
    BY <2>2
<1>4. ASSUME NEW m \in Nat, m \in S PROVE m + 1 \in S
  <2> SUFFICES ASSUME m + 1 <= R PROVE \E w : Upto(m + 1, w)
    OBVIOUS
  <2>1. m <= R
    BY <1>1
  <2>2. PICK w : Upto(m, w)
    BY <1>4, <2>1
  <2> DEFINE n == R - (m + 1)
             x == [k \in n..R |-> IF k = n THEN Append(w[p[n]], n % 2) ELSE w[k]]
  <2>3. n \in 0..R /\ n # R /\ R - m = n + 1
    BY <1>1
  <2>4. p[n] \in n + 1..R
    BY <1>2, <2>3
  <2> HIDE DEF n
  <2>5. \A k \in n + 1..R : x[k] = w[k]
    BY <2>3
  <2>6. x[n] = Append(w[p[n]], n % 2)
    BY <2>3
  <2> HIDE DEF x
  <2>7. ASSUME NEW k \in n..R PROVE x[k] = Path(x, k)
    <3>1. CASE k = n
      BY <2>3, <2>4, <2>5, <2>6, <3>1
    <3>2. CASE k # n
      <4>1. k \in n + 1..R /\ k \in 0..R
        BY <2>3, <3>2
      <4>2. w[k] = Path(w, k)
        BY <2>2, <2>3, <4>1
      <4>3. CASE k = R
        BY <2>5, <4>1, <4>2, <4>3
      <4>4. CASE k # R
        <5>1. p[k] \in k + 1..R
          BY <1>2, <4>1, <4>4
        <5>2. p[k] \in n + 1..R
          BY <1>1, <2>3, <4>1, <5>1
        <5>3. x[k] = w[k] /\ x[p[k]] = w[p[k]]
          BY <2>5, <4>1, <5>2
        <5> QED
          BY <4>2, <4>4, <5>3
      <4> QED
        BY <4>3, <4>4
    <3> QED
      BY <3>1, <3>2
  <2>8. Upto(m + 1, x)
    BY <2>7 DEF n
  <2> HIDE DEF Upto
  <2> QED
    BY <2>8
<1>5. PICK w : Upto(R, w)
  <2> HIDE DEF Upto
  <2>1. Nat \subseteq S
    <3> HIDE DEF S
    <3> QED
      BY <1>3, <1>4, NatInd
  <2> QED
    BY <1>1, <2>1
<1>6. \A k \in 0..R : w[k] = Path(w, k)
  BY <1>1, <1>5
<1> DEFINE v == [k \in 0..R |-> w[k]]
           b == PathOf(t)
           body == [k \in 0..R |-> Path(v, k)]
<1>7. ASSUME NEW k \in 0..R PROVE w[k] = Path(v, k)
  <2>1. CASE k = R
    BY <1>6, <2>1
  <2>2. CASE k # R
    <3>1. p[k] \in 0..R
      BY <1>1, <1>2, <2>2
    <3>2. v[p[k]] = w[p[k]]
      BY <3>1
    <3> HIDE DEF v
    <3> QED
      BY <1>6, <2>2, <3>2
  <2> QED
    BY <2>1, <2>2
<1>8. v = body
  BY <1>7, Zenon
<1> HIDE DEF v
<1>9. v = [k \in 0..R |-> IF k = R THEN <<>> ELSE Append(v[p[k]], k % 2)]
  BY <1>8, Zenon
<1>10. b = [k \in 0..R |-> IF k = R THEN <<>> ELSE Append(b[p[k]], k % 2)]
  BY <1>9, Zenon DEF PathOf, p
<1>11. ASSUME NEW c PROVE CodeOf(t, c) = b[t.prnt[c + T]]
  BY Zenon DEF CodeOf, PathOf
<1> HIDE DEF b
<1>12. ASSUME NEW k \in 0..R PROVE b[k] = Path(b, k)
  BY <1>10
<1>13. R \in 0..R
  BY <1>1
<1>14. b[R] = <<>>
  BY <1>12, <1>13
<1>15. ASSUME NEW k \in 0..R, k # R PROVE b[k] = Append(b[p[k]], k % 2)
  BY <1>12, <1>15
<1> QED
  BY <1>11, <1>14, <1>15 DEF b, p

\* An induction from the root down.
LEMMA PathType ==
  ASSUME NEW t, Resting(t)
  PROVE  \A k \in 0..R : PathOf(t)[k] \in Seq(Bits) /\ Len(PathOf(t)[k]) <= R - k
<1> DEFINE w == PathOf(t)
           Fits(k) == w[k] \in Seq(Bits) /\ Len(w[k]) <= R - k
           S == {m \in Nat : \A k \in R - m..R : k \in Nat => Fits(k)}
<1>1. /\ w[R] = <<>> /\ \A k \in 0..R : k # R => w[k] = Append(w[t.prnt[k]], k % 2)
  BY PathDef
<1>2. R \in Nat
  BY Sizes
<1> HIDE DEF w
<1>3. 0 \in S
  <2>1. Fits(R)
    BY <1>1, <1>2
  <2>2. \A k \in R - 0..R : k = R
    BY <1>2
  <2> HIDE DEF Fits
  <2> QED
    BY <2>1, <2>2
<1>4. ASSUME NEW m \in Nat, m \in S PROVE m + 1 \in S
  <2> SUFFICES ASSUME NEW k \in R - (m + 1)..R, k \in Nat PROVE Fits(k)
    OBVIOUS
  <2>1. CASE k \in R - m..R
    <3> HIDE DEF Fits
    <3> QED
      BY <1>4, <2>1
  <2>2. CASE k \notin R - m..R
    <3>1. k = R - (m + 1) /\ k \in 0..R /\ k # R
      BY <1>2, <2>2
    <3> DEFINE j == t.prnt[k]
    <3>2. j \in k + 1..R
      BY <3>1, RestingAbove
    <3> HIDE DEF j
    <3>3. j \in R - m..R /\ j \in Nat
      BY <1>2, <3>1, <3>2
    <3>4. Fits(j)
      <4> HIDE DEF Fits
      <4> QED
        BY <1>4, <3>3
    <3>5. w[k] = Append(w[j], k % 2)
      BY <1>1, <3>1 DEF j
    <3> DEFINE y == w[j]
               b == k % 2
    <3>6. b \in Bits
      BY <3>1 DEF Bits
    <3>7. y \in Seq(Bits) /\ Len(y) <= R - j
      BY <3>4
    <3> HIDE DEF y, b
    <3>8. Append(y, b) \in Seq(Bits) /\ Len(Append(y, b)) = Len(y) + 1 /\ Len(y) \in Nat
      BY <3>6, <3>7
    <3>9. Len(y) + 1 <= R - k
      BY <1>2, <3>1, <3>2, <3>7, <3>8
    <3> QED
      BY <3>5, <3>8, <3>9 DEF y, b
  <2> QED
    BY <2>1, <2>2
<1> HIDE DEF S
<1>5. R \in S
  BY <1>2, <1>3, <1>4, NatInd
<1>6. ASSUME NEW k \in 0..R PROVE Fits(k)
  <2>1. k \in R - R..R /\ k \in Nat
    BY <1>2
  <2> HIDE DEF Fits
  <2> QED
    BY <1>5, <2>1 DEF S
<1> QED
  BY <1>6 DEF w

\* The node below which a symbol's leaf is.
LEMMA LeafNode ==
  ASSUME NEW t, Resting(t), NEW c \in 0..NCHAR - 1
  PROVE  t.prnt[c + T] \in 0..R /\ t.son[t.prnt[c + T]] = c + T
<1> DEFINE s == t.son
           p == t.prnt
           i == p[c + T]
<1>1. Arrays(t.freq, s, p) /\ Linked(s, p) /\ Paired(s)
  BY RestingParts
<1>2. c + T \in Links /\ c + T # R /\ ~(c + T < T)
  BY Sizes DEF Links
<1>3. i \in 0..R
  BY <1>1, <1>2 DEF Arrays
<1>4. c + T \in Children(s[i])
  BY <1>1, <1>2, <1>3 DEF Linked
<1>5. ~(s[i] < T)
  BY <1>1, <1>2, <1>3, <1>4, ChildBelow
<1> HIDE DEF i, s
<1> QED
  BY <1>3, <1>4, <1>5 DEF Children, i, s

LEMMA CodeType ==
  ASSUME NEW t, Resting(t), NEW c \in 0..NCHAR - 1
  PROVE  /\ CodeOf(t, c) = PathOf(t)[t.prnt[c + T]]
         /\ CodeOf(t, c) \in Seq(Bits) /\ EncodeChar(t, c) \in Seq(Bits)
         /\ Len(EncodeChar(t, c)) = Len(CodeOf(t, c))
         /\ Len(CodeOf(t, c)) <= CODE_BITS => EncodeChar(t, c) = CodeOf(t, c)
<1> DEFINE y == CodeOf(t, c)
           e == EncodeChar(t, c)
<1>1. y = PathOf(t)[t.prnt[c + T]]
  BY PathDef
<1>2. y \in Seq(Bits)
  BY <1>1, LeafNode, PathType
<1>3. e = [i \in DOMAIN y |-> IF i <= CODE_BITS THEN y[i] ELSE 0]
  BY DEF EncodeChar
<1> HIDE DEF y, e
<1>4. 0 \in Bits /\ DOMAIN y = 1..Len(y) /\ Len(y) \in Nat
  BY <1>2 DEF Bits
<1>5. e \in Seq(Bits) /\ Len(e) = Len(y)
  <2>1. \A i \in 1..Len(y) : (IF i <= CODE_BITS THEN y[i] ELSE 0) \in Bits
    BY <1>2, <1>4, ElementOfSeq
  <2> QED
    BY <1>3, <1>4, <2>1
<1>6. ASSUME Len(y) <= CODE_BITS PROVE e = y
  <2>1. CODE_BITS \in Nat
    BY LzhufAssumption
  <2>2. \A i \in 1..Len(y) : e[i] = y[i]
    BY <1>3, <1>4, <1>6, <2>1
  <2> QED
    BY <1>2, <1>5, <2>2, SeqEqual
<1> QED
  BY <1>1, <1>2, <1>5, <1>6 DEF y, e

(***************************************************************************)
(* Down from the root.                                                     *)
(***************************************************************************)
DownStart(t, i) == [node |-> t.son[R], next |-> i]
Downward(t, bits, v) ==
  IF v.node >= T THEN v ELSE [node |-> t.son[v.node + Bit(bits, v.next)], next |-> v.next + 1]

\* _decode_char()'s loop.
DownStep(t, bits, i, x, k) == Downward(t, bits, x)
DownBody(t, bits, i, w) ==
  [k \in 0..T |-> IF k = 0 THEN DownStart(t, i) ELSE DownStep(t, bits, i, w[k - 1], k)]
DownLoop(t, bits, i) == CHOOSE w : w = DownBody(t, bits, i, w)

LEMMA DownLoopDef ==
  ASSUME NEW t, NEW bits, NEW i, T \in Nat
  PROVE  /\ DownLoop(t, bits, i)[0] = DownStart(t, i)
         /\ \A k \in Nat : k < T =>
              DownLoop(t, bits, i)[k + 1] = DownStep(t, bits, i, DownLoop(t, bits, i)[k], k + 1)
<1> DEFINE e == DownStart(t, i)
           Upto(m, w) == w = [k \in 0..m |-> IF k = 0 THEN e ELSE DownStep(t, bits, i, w[k - 1], k)]
           S == {m \in Nat : \E w : Upto(m, w)}
           n == T
<1> HIDE DEF e
<1>1. 0 \in S
  <2> DEFINE w == [k \in 0..0 |-> e]
  <2>1. Upto(0, w)
    <3>1. \A k \in 0..0 : k = 0
      OBVIOUS
    <3> QED
      BY <3>1
  <2> HIDE DEF Upto
  <2> QED
    BY <2>1
<1>2. ASSUME NEW m \in Nat, m \in S PROVE m + 1 \in S
  <2>1. PICK w : Upto(m, w)
    BY <1>2
  <2> DEFINE x == [k \in 0..m + 1 |-> IF k = m + 1 THEN DownStep(t, bits, i, w[m], m + 1) ELSE w[k]]
             y == [k \in 0..m + 1 |-> IF k = 0 THEN e ELSE DownStep(t, bits, i, x[k - 1], k)]
  <2>2. ASSUME NEW k \in 0..m + 1
        PROVE  x[k] = IF k = 0 THEN e ELSE DownStep(t, bits, i, x[k - 1], k)
    <3>1. CASE k = m + 1
      <4>1. k - 1 = m /\ m \in 0..m + 1 /\ m # m + 1 /\ k # 0
        BY <3>1
      <4>2. x[k] = DownStep(t, bits, i, w[m], m + 1) /\ x[m] = w[m]
        BY <3>1, <4>1
      <4> HIDE DEF x
      <4> QED
        BY <3>1, <4>1, <4>2
    <3>2. CASE k # m + 1
      <4>1. k \in 0..m
        BY <3>2
      <4>2. x[k] = w[k] /\ w[k] = IF k = 0 THEN e ELSE DownStep(t, bits, i, w[k - 1], k)
        <5>1. x[k] = w[k]
          BY <3>2
        <5>2. w[k] = [j \in 0..m |-> IF j = 0 THEN e ELSE DownStep(t, bits, i, w[j - 1], j)][k]
          BY <2>1, Zenon
        <5> HIDE DEF x
        <5> QED
          BY <4>1, <5>1, <5>2
      <4>3. k # 0 => x[k - 1] = w[k - 1]
        <5> SUFFICES ASSUME k # 0 PROVE x[k - 1] = w[k - 1]
          OBVIOUS
        <5>1. k - 1 \in 0..m + 1 /\ k - 1 # m + 1
          BY <4>1
        <5> QED
          BY <5>1
      <4> HIDE DEF x
      <4> QED
        BY <4>2, <4>3
    <3> QED
      BY <3>1, <3>2
  <2>3. x = y
    <3>1. x = [k \in 0..m + 1 |-> x[k]]
      OBVIOUS
    <3> HIDE DEF x
    <3> QED
      BY <2>2, <3>1
  <2>4. Upto(m + 1, x)
    <3> HIDE DEF x
    <3> QED
      BY <2>3, Zenon
  <2> HIDE DEF Upto, x, y
  <2> QED
    BY <2>4
<1>3. PICK w : Upto(n, w)
  <2> HIDE DEF Upto
  <2>1. Nat \subseteq S
    <3> HIDE DEF S
    <3> QED
      BY <1>1, <1>2, NatInd
  <2> QED
    BY <2>1
<1>4. w = DownBody(t, bits, i, w)
  BY <1>3, Zenon DEF DownBody, e
<1> DEFINE b == DownLoop(t, bits, i)
<1>5. b = DownBody(t, bits, i, b)
  BY <1>4, Zenon DEF DownLoop
<1> HIDE DEF b
<1>6. b = [k \in 0..n |-> IF k = 0 THEN e ELSE DownStep(t, bits, i, b[k - 1], k)]
  BY <1>5, Zenon DEF DownBody, e
<1> HIDE DEF n
<1>7. \A k \in 0..n : b[k] = IF k = 0 THEN e ELSE DownStep(t, bits, i, b[k - 1], k)
  <2> SUFFICES ASSUME NEW k \in 0..n
               PROVE  b[k] = IF k = 0 THEN e ELSE DownStep(t, bits, i, b[k - 1], k)
    OBVIOUS
  <2>1. b[k] = [j \in 0..n |-> IF j = 0 THEN e ELSE DownStep(t, bits, i, b[j - 1], j)][k]
    BY <1>6, Zenon
  <2> QED
    BY <2>1, Zenon
<1>8. n \in Nat
  BY DEF n
<1>9. b[0] = e
  BY <1>7, <1>8
<1>10. ASSUME NEW k \in Nat, k < n PROVE b[k + 1] = DownStep(t, bits, i, b[k], k + 1)
  <2>1. k + 1 \in 0..n /\ (k + 1) - 1 = k /\ k + 1 # 0
    BY <1>8, <1>10
  <2>2. b[k + 1] = DownStep(t, bits, i, b[(k + 1) - 1], k + 1)
    BY <1>7, <2>1, Zenon
  <2> QED
    BY <2>1, <2>2
<1> QED
  BY <1>9, <1>10 DEF b, e, n

LEMMA DecodeCharIs ==
  ASSUME NEW t, NEW bits, NEW i
  PROVE  DecodeChar(t, bits, i) = [symbol |-> DownLoop(t, bits, i)[T].node - T,
                                   next   |-> DownLoop(t, bits, i)[T].next]
BY Zenon DEF DecodeChar, DownLoop, DownBody, DownStep, DownStart, Downward

\* After k turns the walk is at a leaf, or below the last k nodes.
Descends(t, i, k, v) ==
  /\ v = [node |-> v.node, next |-> v.next]
  /\ v.node \in Links /\ v.next \in Nat /\ v.next >= i
  /\ v.node < T => v.node + 1 < R - k /\ v.node % 2 = 0

LEMMA SonDescends ==
  ASSUME NEW t, Resting(t), NEW k \in Nat, NEW m \in 0..R, m <= R - k
  PROVE  t.son[m] \in Links /\ (t.son[m] < T => t.son[m] + 1 < R - k /\ t.son[m] % 2 = 0)
<1> DEFINE s == t.son
           j == s[m]
<1>1. Arrays(t.freq, s, t.prnt) /\ Paired(s)
  BY RestingParts
<1>2. j \in Links /\ j \in Nat
  BY <1>1, ArraysAt
<1>3. j < T => j + 1 < m /\ j % 2 = 0
  BY <1>1 DEF Paired
<1> HIDE DEF j
<1> QED
  BY <1>2, <1>3, Sizes DEF j, s

LEMMA DownTyped ==
  ASSUME NEW t, Resting(t), NEW bits \in Seq(Bits), NEW i \in Nat, i > 0
  PROVE  \A k \in Nat : k <= T => Descends(t, i, k, DownLoop(t, bits, i)[k])
<1> DEFINE w == DownLoop(t, bits, i)
           S == {k \in Nat : k <= T => Descends(t, i, k, w[k])}
<1>1. w[0] = DownStart(t, i) /\ \A k \in Nat : k < T => w[k + 1] = Downward(t, bits, w[k])
  BY Sizes, DownLoopDef DEF DownStep
<1> HIDE DEF w
<1>2. 0 \in S
  <2>1. R \in 0..R /\ R <= R - 0
    BY Sizes
  <2>2. t.son[R] \in Links /\ (t.son[R] < T => t.son[R] + 1 < R - 0 /\ t.son[R] % 2 = 0)
    BY <2>1, SonDescends
  <2> QED
    BY <1>1, <2>2 DEF Descends, DownStart
<1>3. ASSUME NEW k \in Nat, k \in S PROVE k + 1 \in S
  <2> SUFFICES ASSUME k + 1 <= T PROVE Descends(t, i, k + 1, w[k + 1])
    OBVIOUS
  <2>1. k < T /\ k <= T
    BY Sizes
  <2> DEFINE v == w[k]
             m == v.node + Bit(bits, v.next)
  <2>2. Descends(t, i, k, v)
    BY <1>3, <2>1
  <2>3. w[k + 1] = Downward(t, bits, v)
    BY <1>1, <2>1
  <2> HIDE DEF v
  <2>4. v.node \in Nat /\ v.next \in Nat /\ v.next > 0 /\ v.next + 1 \in Nat /\ v.next + 1 >= i
    BY <2>2, Sizes, SMTT(30) DEF Descends, Links
  <2>5. Bit(bits, v.next) \in Bits
    BY <2>4, BitType
  <2>6. CASE v.node >= T
    <3>1. w[k + 1] = v
      BY <2>3, <2>6 DEF Downward
    <3>2. ~(v.node < T)
      BY <2>4, <2>6, Sizes
    <3> QED
      BY <2>2, <3>1, <3>2 DEF Descends
  <2>7. CASE ~(v.node >= T)
    <3>1. v.node < T
      BY <2>4, <2>7, Sizes
    <3>2. v.node + 1 < R - k
      BY <2>2, <3>1 DEF Descends
    <3> DEFINE b == Bit(bits, v.next)
    <3>0. b = 0 \/ b = 1
      BY <2>5 DEF Bits
    <3> HIDE DEF b
    <3>3. m \in 0..R /\ m <= R - (k + 1)
      BY <2>4, <3>0, <3>2, Sizes DEF b
    <3> HIDE DEF m
    <3>4. t.son[m] \in Links /\ (t.son[m] < T => t.son[m] + 1 < R - (k + 1) /\ t.son[m] % 2 = 0)
      BY <3>3, SonDescends
    <3>5. w[k + 1] = [node |-> t.son[m], next |-> v.next + 1]
      BY <2>3, <2>7 DEF Downward, m
    <3> QED
      BY <2>4, <3>4, <3>5 DEF Descends
  <2> QED
    BY <2>6, <2>7
<1> HIDE DEF S
<1>4. Nat \subseteq S
  BY <1>2, <1>3, NatInd
<1> QED
  BY <1>4 DEF S, w

LEMMA DecodeCharType ==
  ASSUME NEW t, Resting(t), NEW bits \in Seq(Bits), NEW i \in Nat, i > 0
  PROVE  /\ DecodeChar(t, bits, i).symbol \in 0..NCHAR - 1
         /\ DecodeChar(t, bits, i).next \in Nat /\ DecodeChar(t, bits, i).next >= i
<1> DEFINE v == DownLoop(t, bits, i)[T]
<1>1. Descends(t, i, T, v)
  BY DownTyped, Sizes
<1>2. DecodeChar(t, bits, i) = [symbol |-> v.node - T, next |-> v.next]
  BY DecodeCharIs
<1> HIDE DEF v
<1>3. v.node \in Links /\ v.next \in Nat /\ v.next >= i /\ (v.node < T => v.node + 1 < R - T)
  BY <1>1 DEF Descends
<1>4. v.node - T \in 0..NCHAR - 1
  BY <1>3, Sizes DEF Links
<1> QED
  BY <1>2, <1>3, <1>4

(***************************************************************************)
(* A symbol's code leads to it.                                            *)
(***************************************************************************)
Leads(t, bits, i, k) ==
  Holds(bits, i, PathOf(t)[k]) =>
    DownLoop(t, bits, i)[Len(PathOf(t)[k])]
      = [node |-> t.son[k], next |-> i + Len(PathOf(t)[k])]

LEMMA HoldsAppend ==
  ASSUME NEW bits, NEW i \in Nat, NEW X, NEW s \in Seq(X), NEW x \in X, Holds(bits, i, Append(s, x))
  PROVE  Holds(bits, i, s) /\ Bit(bits, i + Len(s)) = x
<1> DEFINE a == Append(s, x)
<1>1. Len(s) \in Nat /\ Len(a) = Len(s) + 1 /\ a[Len(s) + 1] = x /\ \A k \in 1..Len(s) : a[k] = s[k]
  BY AppendProperties
<1>2. \A k \in 1..Len(a) : Bit(bits, i + k - 1) = a[k]
  BY DEF Holds
<1> HIDE DEF a
<1>3. Len(s) + 1 \in 1..Len(a) /\ i + (Len(s) + 1) - 1 = i + Len(s)
  BY <1>1
<1>4. Bit(bits, i + (Len(s) + 1) - 1) = x
  BY <1>1, <1>2, <1>3
<1>5. ASSUME NEW k \in 1..Len(s) PROVE Bit(bits, i + k - 1) = s[k]
  <2>1. k \in 1..Len(a) /\ a[k] = s[k]
    BY <1>1
  <2> QED
    BY <1>2, <2>1
<1> QED
  BY <1>3, <1>4, <1>5 DEF Holds

LEMMA PathLeads ==
  ASSUME NEW t, Resting(t), NEW bits \in Seq(Bits), NEW i \in Nat, i > 0
  PROVE  \A k \in 0..R : Leads(t, bits, i, k)
<1> DEFINE S == {m \in Nat : \A k \in R - m..R : k \in Nat => Leads(t, bits, i, k)}
           w == PathOf(t)
           v == DownLoop(t, bits, i)
<1>1. /\ w[R] = <<>> /\ \A k \in 0..R : k # R => w[k] = Append(w[t.prnt[k]], k % 2)
  BY PathDef
<1>2. R \in Nat /\ T = R + 1
  BY Sizes
<1>3. v[0] = DownStart(t, i) /\ \A k \in Nat : k < T => v[k + 1] = Downward(t, bits, v[k])
  BY Sizes, DownLoopDef DEF DownStep
<1>4. \A k \in 0..R : w[k] \in Seq(Bits) /\ Len(w[k]) <= R - k
  BY PathType
<1>5. 0 \in S
  <2>1. Leads(t, bits, i, R)
    <3>1. Len(w[R]) = 0 /\ i + 0 = i
      BY <1>1
    <3> HIDE DEF v, w
    <3>2. v[Len(w[R])] = [node |-> t.son[R], next |-> i + Len(w[R])]
      BY <1>3, <3>1 DEF DownStart
    <3> QED
      BY <3>2 DEF Leads, v, w
  <2>2. \A k \in R - 0..R : k = R
    BY <1>2
  <2> QED
    BY <2>1, <2>2
<1> HIDE DEF v, w
<1>6. ASSUME NEW m \in Nat, m \in S PROVE m + 1 \in S
  <2> SUFFICES ASSUME NEW k \in R - (m + 1)..R, k \in Nat PROVE Leads(t, bits, i, k)
    OBVIOUS
  <2>1. CASE k \in R - m..R
    BY <1>6, <2>1
  <2>2. CASE k \notin R - m..R
    <3>1. k = R - (m + 1) /\ k \in 0..R /\ k # R
      BY <1>2, <2>2
    <3> DEFINE j == t.prnt[k]
               b == k % 2
               y == w[j]
               n == Len(y)
    <3>2. j \in k + 1..R /\ k \in Children(t.son[j]) /\ t.son[j] < T
      BY <3>1, RestingAbove
    <3>3. w[k] = Append(y, b)
      BY <1>1, <3>1
    <3> HIDE DEF j
    <3>4. j \in R - m..R /\ j \in Nat /\ j \in 0..R
      BY <1>2, <3>1, <3>2
    <3>5. Leads(t, bits, i, j)
      BY <1>6, <3>4
    <3>6. b \in Bits
      BY <3>1 DEF Bits
    <3>7. y \in Seq(Bits) /\ n \in Nat /\ n <= R - j
      BY <1>4, <3>4
    <3>8. t.son[j] \in Nat /\ t.son[j] % 2 = 0
      <4>1. Arrays(t.freq, t.son, t.prnt) /\ Paired(t.son)
        BY RestingParts
      <4>2. t.son[j] \in Nat
        BY <3>4, <4>1, ArraysAt
      <4> QED
        BY <3>2, <3>4, <4>1, <4>2 DEF Paired
    <3>9. k = t.son[j] + b
      <4> DEFINE x == t.son[j]
      <4>1. k = x \/ k = x + 1
        BY <3>2, <3>8 DEF Children
      <4>2. x \in Nat /\ x % 2 = 0
        BY <3>8
      <4> HIDE DEF x
      <4>3. k % 2 = IF k = x THEN 0 ELSE 1
        BY <4>1, <4>2
      <4>4. k = x + (k % 2)
        BY <4>1, <4>2, <4>3
      <4> QED
        BY <4>4 DEF x
    <3> HIDE DEF y, b
    <3>10. SUFFICES ASSUME Holds(bits, i, w[k])
                    PROVE  v[Len(w[k])] = [node |-> t.son[k], next |-> i + Len(w[k])]
      BY DEF Leads, v, w
    <3>11. Holds(bits, i, y) /\ Bit(bits, i + n) = b
      BY <3>3, <3>6, <3>7, <3>10, HoldsAppend
    <3>12. v[n] = [node |-> t.son[j], next |-> i + n]
      BY <3>5, <3>11 DEF Leads, v, w, y
    <3>13. Len(w[k]) = n + 1
      BY <3>3, <3>6, <3>7
    <3> HIDE DEF n
    <3>14. n < T /\ i + (n + 1) = (i + n) + 1
      BY <1>2, <3>4, <3>7
    <3>15. v[n + 1] = Downward(t, bits, v[n])
      BY <1>3, <3>7, <3>14
    <3>16. ~(t.son[j] >= T)
      BY <3>2, <3>8, Sizes, SMTT(30)
    <3>17. Downward(t, bits, v[n]) = [node |-> t.son[t.son[j] + b], next |-> (i + n) + 1]
      BY <3>11, <3>12, <3>16 DEF Downward
    <3> QED
      BY <3>9, <3>13, <3>14, <3>15, <3>17
  <2> QED
    BY <2>1, <2>2
<1> HIDE DEF S
<1>7. R \in S
  BY <1>2, <1>5, <1>6, NatInd
<1>8. ASSUME NEW k \in 0..R PROVE Leads(t, bits, i, k)
  <2>1. k \in R - R..R /\ k \in Nat
    BY <1>2
  <2> QED
    BY <1>7, <2>1 DEF S
<1> QED
  BY <1>8

\* What _encode_char() writes, _decode_char() reads with the same tree.
LEMMA CharDecodes ==
  ASSUME NEW t, Resting(t), NEW c \in 0..NCHAR - 1, NEW bits \in Seq(Bits), NEW i \in Nat, i > 0,
         Holds(bits, i, CodeOf(t, c))
  PROVE  DecodeChar(t, bits, i) = [symbol |-> c, next |-> i + Len(CodeOf(t, c))]
<1> DEFINE w == PathOf(t)
           k == t.prnt[c + T]
           v == DownLoop(t, bits, i)
           n == Len(w[k])
           S == {m \in Nat : n + m <= T => v[n + m] = [node |-> c + T, next |-> i + n]}
<1>1. k \in 0..R /\ t.son[k] = c + T
  BY LeafNode
<1>2. CodeOf(t, c) = w[k]
  BY PathDef
<1>3. v[0] = DownStart(t, i) /\ \A j \in Nat : j < T => v[j + 1] = Downward(t, bits, v[j])
  BY Sizes, DownLoopDef DEF DownStep
<1>4. w[k] \in Seq(Bits) /\ n \in Nat /\ n <= R - k
  <2>1. w[k] \in Seq(Bits) /\ n <= R - k
    BY <1>1, PathType
  <2> QED
    BY <2>1
<1>5. Leads(t, bits, i, k)
  BY <1>1, PathLeads
<1>6. v[n] = [node |-> c + T, next |-> i + n]
  BY <1>1, <1>2, <1>5 DEF Leads
<1>7. DecodeChar(t, bits, i) = [symbol |-> v[T].node - T, next |-> v[T].next]
  BY DecodeCharIs
<1> HIDE DEF w, k, v, n
<1>8. 0 \in S
  BY <1>4, <1>6
<1>9. ASSUME NEW m \in Nat, m \in S PROVE m + 1 \in S
  <2> SUFFICES ASSUME n + (m + 1) <= T PROVE v[n + (m + 1)] = [node |-> c + T, next |-> i + n]
    OBVIOUS
  <2>1. n + m \in Nat /\ n + m < T /\ n + m <= T /\ (n + m) + 1 = n + (m + 1)
    BY <1>4, Sizes
  <2>2. v[n + m] = [node |-> c + T, next |-> i + n]
    BY <1>9, <2>1
  <2>3. v[(n + m) + 1] = Downward(t, bits, v[n + m])
    BY <1>3, <2>1
  <2>4. c + T >= T
    BY Sizes
  <2> QED
    BY <2>1, <2>2, <2>3, <2>4 DEF Downward
<1> HIDE DEF S
<1>10. T - n \in Nat /\ n + (T - n) = T
  BY <1>1, <1>4, Sizes
<1>11. T - n \in S
  BY <1>8, <1>9, <1>10, NatInd
<1>12. v[T] = [node |-> c + T, next |-> i + n]
  <2>1. \A m \in S : n + m <= T => v[n + m] = [node |-> c + T, next |-> i + n]
    BY DEF S
  <2>2. n + (T - n) <= T
    BY <1>10, Sizes
  <2> QED
    BY <1>10, <1>11, <2>1, <2>2
<1>13. (c + T) - T = c
  BY Sizes
<1> QED
  BY <1>2, <1>7, <1>12, <1>13 DEF n

(***************************************************************************)
(* The encoder's types.                                                    *)
(***************************************************************************)
LEMMA BitsTypeInt ==
  ASSUME NEW x \in Int, NEW w \in Nat
  PROVE  BitsOf(x, w) \in Seq(Bits) /\ Len(BitsOf(x, w)) = w
<1>1. ASSUME NEW k \in 1..w PROVE (x \div 2^(w - k)) % 2 \in Bits
  <2>1. w - k \in Nat
    OBVIOUS
  <2>2. 2^(w - k) \in Nat /\ 2^(w - k) > 0
    BY <2>1, PowerPositive
  <2>3. x \div 2^(w - k) \in Int
    BY <2>2, Divides
  <2> QED
    BY <2>3 DEF Bits
<1> QED
  BY <1>1 DEF BitsOf

LEMMA PositionType ==
  ASSUME NEW c \in Int
  PROVE  EncodePosition(c) \in Seq(Bits)
<1> DEFINE q == c \div 64
           l == P_LEN(q)
           x == P_CODE(q) \div 2^(8 - l)
<1>1. q \in Int /\ c % 64 \in Int
  OBVIOUS
<1> HIDE DEF q
<1>2. l \in 3..8
  BY <1>1 DEF P_LEN
<1>3. P_CODE(q) \in Int
  BY <1>1 DEF P_CODE
<1>4. 8 - l \in Nat /\ l \in Nat
  BY <1>2
<1> HIDE DEF l
<1>5. 2^(8 - l) \in Nat /\ 2^(8 - l) > 0
  BY <1>4, PowerPositive
<1>6. x \in Int
  BY <1>3, <1>5, Divides
<1>7. EncodePosition(c) = BitsOf(x, l) \o BitsOf(c % 64, 6)
  BY DEF EncodePosition, x, l, q
<1> HIDE DEF x
<1>8. BitsOf(x, l) \in Seq(Bits) /\ BitsOf(c % 64, 6) \in Seq(Bits)
  BY <1>1, <1>4, <1>6, BitsTypeInt
<1> QED
  BY <1>7, <1>8, ConcatProperties

Texts == Seq(Codes)

\* The encoder's locals.
Encoder(z) ==
  /\ z = [dict |-> z.dict, huff |-> z.huff, s |-> z.s, r |-> z.r, read |-> z.read,
          length |-> z.length, out |-> z.out, widest |-> z.widest]
  /\ z.dict \in DictSet /\ Resting(z.huff) /\ z.s \in Cells /\ z.r \in Cells
  /\ z.read \in Nat /\ z.length \in 0..F /\ z.out \in Seq(Bits) /\ z.widest \in Nat

\* What is in the window at first.
StartDict(data) ==
  [EmptyDictionary EXCEPT !.text =
     [i \in 0..N + F - 1 |-> IF i - (N - F) \in 0..Min({F, Len(data)}) - 1 THEN data[i - (N - F) + 1]
                             ELSE EmptyDictionary.text[i]]]

\* The insertions before the first one that counts.
FilledStep(d, r, x, k) == InsertNode(x, r - k)
FilledBody(d, r, w) ==
  [k \in 0..F |-> IF k = 0 THEN d ELSE FilledStep(d, r, w[k - 1], k)]
FilledLoop(d, r) == CHOOSE w : w = FilledBody(d, r, w)

LEMMA FilledLoopDef ==
  ASSUME NEW d, NEW r, F \in Nat
  PROVE  /\ FilledLoop(d, r)[0] = d
         /\ \A k \in Nat : k < F =>
              FilledLoop(d, r)[k + 1] = FilledStep(d, r, FilledLoop(d, r)[k], k + 1)
<1> DEFINE e == d
           Upto(m, w) == w = [k \in 0..m |-> IF k = 0 THEN e ELSE FilledStep(d, r, w[k - 1], k)]
           S == {m \in Nat : \E w : Upto(m, w)}
           n == F
<1> HIDE DEF e
<1>1. 0 \in S
  <2> DEFINE w == [k \in 0..0 |-> e]
  <2>1. Upto(0, w)
    <3>1. \A k \in 0..0 : k = 0
      OBVIOUS
    <3> QED
      BY <3>1
  <2> HIDE DEF Upto
  <2> QED
    BY <2>1
<1>2. ASSUME NEW m \in Nat, m \in S PROVE m + 1 \in S
  <2>1. PICK w : Upto(m, w)
    BY <1>2
  <2> DEFINE x == [k \in 0..m + 1 |-> IF k = m + 1 THEN FilledStep(d, r, w[m], m + 1) ELSE w[k]]
             y == [k \in 0..m + 1 |-> IF k = 0 THEN e ELSE FilledStep(d, r, x[k - 1], k)]
  <2>2. ASSUME NEW k \in 0..m + 1
        PROVE  x[k] = IF k = 0 THEN e ELSE FilledStep(d, r, x[k - 1], k)
    <3>1. CASE k = m + 1
      <4>1. k - 1 = m /\ m \in 0..m + 1 /\ m # m + 1 /\ k # 0
        BY <3>1
      <4>2. x[k] = FilledStep(d, r, w[m], m + 1) /\ x[m] = w[m]
        BY <3>1, <4>1
      <4> HIDE DEF x
      <4> QED
        BY <3>1, <4>1, <4>2
    <3>2. CASE k # m + 1
      <4>1. k \in 0..m
        BY <3>2
      <4>2. x[k] = w[k] /\ w[k] = IF k = 0 THEN e ELSE FilledStep(d, r, w[k - 1], k)
        <5>1. x[k] = w[k]
          BY <3>2
        <5>2. w[k] = [j \in 0..m |-> IF j = 0 THEN e ELSE FilledStep(d, r, w[j - 1], j)][k]
          BY <2>1, Zenon
        <5> HIDE DEF x
        <5> QED
          BY <4>1, <5>1, <5>2
      <4>3. k # 0 => x[k - 1] = w[k - 1]
        <5> SUFFICES ASSUME k # 0 PROVE x[k - 1] = w[k - 1]
          OBVIOUS
        <5>1. k - 1 \in 0..m + 1 /\ k - 1 # m + 1
          BY <4>1
        <5> QED
          BY <5>1
      <4> HIDE DEF x
      <4> QED
        BY <4>2, <4>3
    <3> QED
      BY <3>1, <3>2
  <2>3. x = y
    <3>1. x = [k \in 0..m + 1 |-> x[k]]
      OBVIOUS
    <3> HIDE DEF x
    <3> QED
      BY <2>2, <3>1
  <2>4. Upto(m + 1, x)
    <3> HIDE DEF x
    <3> QED
      BY <2>3, Zenon
  <2> HIDE DEF Upto, x, y
  <2> QED
    BY <2>4
<1>3. PICK w : Upto(n, w)
  <2> HIDE DEF Upto
  <2>1. Nat \subseteq S
    <3> HIDE DEF S
    <3> QED
      BY <1>1, <1>2, NatInd
  <2> QED
    BY <2>1
<1>4. w = FilledBody(d, r, w)
  BY <1>3, Zenon DEF FilledBody, e
<1> DEFINE b == FilledLoop(d, r)
<1>5. b = FilledBody(d, r, b)
  BY <1>4, Zenon DEF FilledLoop
<1> HIDE DEF b
<1>6. b = [k \in 0..n |-> IF k = 0 THEN e ELSE FilledStep(d, r, b[k - 1], k)]
  BY <1>5, Zenon DEF FilledBody, e
<1> HIDE DEF n
<1>7. \A k \in 0..n : b[k] = IF k = 0 THEN e ELSE FilledStep(d, r, b[k - 1], k)
  <2> SUFFICES ASSUME NEW k \in 0..n
               PROVE  b[k] = IF k = 0 THEN e ELSE FilledStep(d, r, b[k - 1], k)
    OBVIOUS
  <2>1. b[k] = [j \in 0..n |-> IF j = 0 THEN e ELSE FilledStep(d, r, b[j - 1], j)][k]
    BY <1>6, Zenon
  <2> QED
    BY <2>1, Zenon
<1>8. n \in Nat
  BY DEF n
<1>9. b[0] = e
  BY <1>7, <1>8
<1>10. ASSUME NEW k \in Nat, k < n PROVE b[k + 1] = FilledStep(d, r, b[k], k + 1)
  <2>1. k + 1 \in 0..n /\ (k + 1) - 1 = k /\ k + 1 # 0
    BY <1>8, <1>10
  <2>2. b[k + 1] = FilledStep(d, r, b[(k + 1) - 1], k + 1)
    BY <1>7, <2>1, Zenon
  <2> QED
    BY <2>1, <2>2
<1> QED
  BY <1>9, <1>10 DEF b, e, n

LEMMA StartCompressIs ==
  ASSUME NEW data
  PROVE  StartCompress(data) =
           [dict   |-> InsertNode(FilledLoop(StartDict(data), N - F)[F], N - F),
            huff   |-> StartHuff,
            s      |-> 0,
            r      |-> N - F,
            read   |-> Min({F, Len(data)}),
            length |-> Min({F, Len(data)}),
            out    |-> <<>>,
            widest |-> 0]
BY Zenon DEF StartCompress, StartDict, FilledLoop, FilledBody, FilledStep

LEMMA Lesser ==
  ASSUME NEW a \in Nat, NEW b \in Nat
  PROVE  /\ Min({a, b}) \in Nat /\ Min({a, b}) = IF a <= b THEN a ELSE b
         /\ Max({a, b}) \in Nat /\ Max({a, b}) = IF a >= b THEN a ELSE b
<1> DEFINE S == {a, b}
<1>1. S \in SUBSET Nat /\ S # {} /\ a \in S /\ b \in S
  OBVIOUS
<1>2. \A y \in S : y = a \/ y = b
  OBVIOUS
<1>3. a + b \in Nat /\ S \in SUBSET (0..a + b)
  OBVIOUS
<1> HIDE DEF S
<1>4. Min(S) \in S /\ \A y \in S : Min(S) <= y
  BY <1>1, MinMember
<1> DEFINE x == Min(S)
           y == Max(S)
<1>6. Max(S) \in S /\ \A z \in S : Max(S) >= z
  BY <1>1, <1>3, MaxMember
<1>11. x \in Nat /\ y \in Nat
  BY <1>1, <1>4, <1>6
<1> HIDE DEF x, y
<1>7. (x = a \/ x = b) /\ x <= a /\ x <= b
  BY <1>1, <1>2, <1>4, <1>11 DEF x
<1>8. (y = a \/ y = b) /\ y >= a /\ y >= b
  BY <1>1, <1>2, <1>6, <1>11 DEF y
<1>9. x \in Nat /\ x = IF a <= b THEN a ELSE b
  BY <1>7, <1>11
<1>10. y \in Nat /\ y = IF a >= b THEN a ELSE b
  BY <1>8, <1>11
<1> QED
  BY <1>9, <1>10 DEF x, y, S

LEMMA StartDictTyped ==
  ASSUME NEW data \in Texts
  PROVE  StartDict(data) \in DictSet
<1> DEFINE m == Min({F, Len(data)})
           h == EmptyDictionary.text
           y == [i \in 0..N + F - 1 |-> IF i - (N - F) \in 0..m - 1 THEN data[i - (N - F) + 1] ELSE h[i]]
<1>1. m \in Nat /\ m <= Len(data) /\ m <= F
  BY Lesser, Widths DEF Texts
<1>2. h \in Windows
  BY Widths DEF EmptyDictionary, Windows, Codes
<1>3. y \in Windows
  <2> SUFFICES ASSUME NEW i \in 0..N + F - 1
               PROVE  (IF i - (N - F) \in 0..m - 1 THEN data[i - (N - F) + 1] ELSE h[i]) \in Codes
    BY DEF Windows
  <2>1. h[i] \in Codes
    BY <1>2 DEF Windows
  <2>2. ASSUME i - (N - F) \in 0..m - 1 PROVE data[i - (N - F) + 1] \in Codes
    <3>1. i - (N - F) + 1 \in 1..Len(data)
      BY <1>1, <2>2, Widths
    <3> QED
      BY <3>1, ElementOfSeq DEF Texts
  <2> QED
    BY <2>1, <2>2
<1>4. EmptyDictionary \in DictSet
  <2>1. NIL \in 0..N /\ NIL \in 0..N + LITERALS /\ 0 \in 0..F
    BY Widths DEF NIL
  <2>2. [i \in 0..N + F - 1 |-> IF i < N - F THEN Space ELSE 0] \in Windows
    BY Widths DEF Windows, Codes
  <2> QED
    BY <2>1, <2>2 DEF EmptyDictionary, DictSet
<1>5. StartDict(data) = [EmptyDictionary EXCEPT !.text = y]
  BY Zenon DEF StartDict
<1> HIDE DEF y
<1> QED
  BY <1>3, <1>4, <1>5 DEF DictSet

LEMMA FilledTyped ==
  ASSUME NEW d \in DictSet
  PROVE  \A k \in Nat : k <= F => SameText(d, FilledLoop(d, N - F)[k])
<1> DEFINE w == FilledLoop(d, N - F)
           S == {k \in Nat : k <= F => SameText(d, w[k])}
<1>1. w[0] = d /\ \A k \in Nat : k < F => w[k + 1] = InsertNode(w[k], (N - F) - (k + 1))
  BY Widths, FilledLoopDef DEF FilledStep
<1> HIDE DEF w
<1>2. 0 \in S
  BY <1>1 DEF SameText
<1>3. ASSUME NEW k \in Nat, k \in S PROVE k + 1 \in S
  <2> SUFFICES ASSUME k + 1 <= F PROVE SameText(d, w[k + 1])
    OBVIOUS
  <2>1. k < F /\ k <= F /\ (N - F) - (k + 1) \in Cells
    BY Widths DEF Cells
  <2>2. w[k] \in DictSet /\ w[k].text = d.text
    BY <1>3, <2>1 DEF SameText
  <2> DEFINE r == (N - F) - (k + 1)
  <2>3. w[k + 1] = InsertNode(w[k], r) /\ r \in Cells
    BY <1>1, <2>1
  <2> HIDE DEF r
  <2>4. SameText(w[k], InsertNode(w[k], r))
    BY <2>2, <2>3, InsertNodeTyped
  <2> QED
    BY <2>2, <2>3, <2>4 DEF SameText
<1> HIDE DEF S
<1>4. Nat \subseteq S
  BY <1>2, <1>3, NatInd
<1> QED
  BY <1>4 DEF S, w

LEMMA StartCompressTyped ==
  ASSUME NEW data \in Texts
  PROVE  Encoder(StartCompress(data))
<1> DEFINE m == Min({F, Len(data)})
           d == StartDict(data)
           f == FilledLoop(d, N - F)[F]
           e == InsertNode(f, N - F)
           z == StartCompress(data)
<1>1. m \in Nat /\ m <= F
  BY Lesser, Widths DEF Texts
<1>2. d \in DictSet
  BY StartDictTyped
<1>3. z = [dict |-> e, huff |-> StartHuff, s |-> 0, r |-> N - F, read |-> m, length |-> m,
           out |-> <<>>, widest |-> 0]
  BY StartCompressIs
<1> HIDE DEF d
<1>4. SameText(d, f)
  BY <1>2, FilledTyped, Widths
<1>5. f \in DictSet
  BY <1>4 DEF SameText
<1> HIDE DEF f
<1>6. 0 \in Cells /\ N - F \in Cells
  BY Widths DEF Cells
<1>7. SameText(f, e)
  BY <1>5, <1>6, InsertNodeTyped
<1>8. e \in DictSet
  BY <1>7 DEF SameText
<1>9. Resting(StartHuff)
  BY StartRests
<1> HIDE DEF e, m, z
<1>10. m \in 0..F
  BY <1>1, Widths
<1>11. /\ z.dict = e /\ z.huff = StartHuff /\ z.s = 0 /\ z.r = N - F /\ z.read = m /\ z.length = m
       /\ z.out = <<>> /\ z.widest = 0
  BY <1>3
<1>12. z = [dict |-> z.dict, huff |-> z.huff, s |-> z.s, r |-> z.r, read |-> z.read,
            length |-> z.length, out |-> z.out, widest |-> z.widest]
  BY <1>3, <1>11
<1>13. <<>> \in Seq(Bits) /\ 0 \in Nat
  OBVIOUS
<1>14. /\ z.dict \in DictSet /\ Resting(z.huff) /\ z.s \in Cells /\ z.r \in Cells
       /\ z.read \in Nat /\ z.length \in 0..F /\ z.out \in Seq(Bits) /\ z.widest \in Nat
  <2> HIDE DEF e, m
  <2> QED
    BY <1>1, <1>6, <1>8, <1>9, <1>10, <1>11, <1>13, Zenon
<1> QED
  BY <1>12, <1>14, Zenon DEF Encoder, z

(***************************************************************************)
(* One symbol leaves the window.                                           *)
(***************************************************************************)
More(z, data) == z.read < Len(data)

\* The text when the next symbol has come in, and the dictionary before the insertion.
NextText(z, data) ==
  [i \in 0..N + F - 1 |-> IF i = z.s \/ (i = z.s + N /\ Mirrored(z.s)) THEN data[z.read + 1]
                         ELSE DeleteNode(z.dict, z.s).text[i]]
MovedOn(z, data) ==
  IF ~More(z, data) THEN DeleteNode(z.dict, z.s)
  ELSE [DeleteNode(z.dict, z.s) EXCEPT !.text = NextText(z, data)]

IsSlid(z, data, w) ==
  /\ Encoder(w) /\ w.huff = z.huff /\ w.out = z.out /\ w.widest = z.widest
  /\ w.s = (z.s + 1) % N /\ w.r = (z.r + 1) % N
  /\ More(z, data) => w.read = z.read + 1 /\ w.length = z.length
  /\ ~More(z, data) => w.read = z.read /\ w.length = z.length - 1
  /\ More(z, data) \/ z.length > 1 => w.dict = InsertNode(MovedOn(z, data), w.r)
  /\ ~(More(z, data) \/ z.length > 1) => w.dict = MovedOn(z, data)

LEMMA ShiftedTyped ==
  ASSUME NEW data \in Texts, NEW z, Encoder(z)
  PROVE  /\ MovedOn(z, data) \in DictSet
         /\ ~More(z, data) => MovedOn(z, data).text = z.dict.text
         /\ More(z, data) =>
              /\ data[z.read + 1] \in Codes
              /\ \A i \in 0..N + F - 1 : MovedOn(z, data).text[i] =
                   IF i = z.s \/ (i = z.s + N /\ z.s < F - 1) THEN data[z.read + 1] ELSE z.dict.text[i]
<1> DEFINE d == DeleteNode(z.dict, z.s)
           c == data[z.read + 1]
           y == NextText(z, data)
           more == More(z, data)
<1>1. z.dict \in DictSet /\ z.s \in 0..N /\ z.read \in Nat
  BY Widths DEF Encoder, Cells
<1>2. d \in DictSet /\ d.text = z.dict.text
  BY <1>1, DeleteNodeTyped DEF SameText
<1>3. MovedOn(z, data) = IF ~more THEN d ELSE [d EXCEPT !.text = y]
  BY Zenon DEF MovedOn
<1>4. y = [i \in 0..N + F - 1 |-> IF i = z.s \/ (i = z.s + N /\ z.s < F - 1) THEN c ELSE d.text[i]]
  BY Zenon DEF NextText, Mirrored
<1> HIDE DEF d, c, y
<1>5. CASE more
  <2>1. z.read + 1 \in 1..Len(data)
    BY <1>1, <1>5 DEF More, Texts
  <2>2. c \in Codes
    BY <2>1, ElementOfSeq DEF Texts, c
  <2>3. \A i \in 0..N + F - 1 : d.text[i] \in Codes
    BY <1>2, DictFields DEF Windows
  <2>4. y \in Windows
    BY <1>4, <2>2, <2>3 DEF Windows
  <2>5. [d EXCEPT !.text = y] \in DictSet /\ [d EXCEPT !.text = y].text = y
    BY <1>2, <2>4 DEF DictSet
  <2>6. \A i \in 0..N + F - 1 : y[i] = IF i = z.s \/ (i = z.s + N /\ z.s < F - 1) THEN c ELSE z.dict.text[i]
    BY <1>2, <1>4
  <2> HIDE DEF more
  <2>7. MovedOn(z, data) = [d EXCEPT !.text = y]
    BY <1>3, <1>5
  <2> QED
    BY <1>5, <2>2, <2>5, <2>6, <2>7 DEF c, more
<1>6. CASE ~more
  <2> HIDE DEF more
  <2> QED
    BY <1>2, <1>3, <1>6 DEF more
<1> QED
  BY <1>5, <1>6

LEMMA SlideIs ==
  ASSUME NEW data \in Texts, NEW z, Encoder(z), z.length > 0
  PROVE  IsSlid(z, data, Slide(z, data))
<1> DEFINE e == MovedOn(z, data)
           more == More(z, data)
           next == (z.r + 1) % N
           s == (z.s + 1) % N
           read == IF more THEN z.read + 1 ELSE z.read
           length == IF more THEN z.length ELSE z.length - 1
           goes == more \/ z.length > 1
           dict == IF goes THEN InsertNode(e, next) ELSE e
           w == Slide(z, data)
<1>1. /\ z.s \in Nat /\ z.r \in Nat /\ z.read \in Nat /\ z.length \in 0..F /\ z.length \in Nat
      /\ Resting(z.huff) /\ z.out \in Seq(Bits) /\ z.widest \in Nat
  BY Widths DEF Encoder, Cells
<1>2. next \in Cells /\ s \in Cells
  BY <1>1, Widths, SMTT(30) DEF Cells
<1>3. read \in Nat /\ length \in 0..F
  BY <1>1, Widths
<1>4. e \in DictSet
  BY ShiftedTyped
<1>5. dict \in DictSet
  <2>1. SameText(e, InsertNode(e, next))
    BY <1>2, <1>4, InsertNodeTyped
  <2> QED
    BY <1>4, <2>1 DEF SameText
<1>6. w = [z EXCEPT !.s = s, !.r = next, !.read = read, !.length = length, !.dict = dict]
  BY Zenon DEF Slide, MovedOn, NextText, More
<1>7. z = [dict |-> z.dict, huff |-> z.huff, s |-> z.s, r |-> z.r, read |-> z.read,
          length |-> z.length, out |-> z.out, widest |-> z.widest]
  BY DEF Encoder
<1> DEFINE x == [dict |-> dict, huff |-> z.huff, s |-> s, r |-> next, read |-> read,
                 length |-> length, out |-> z.out, widest |-> z.widest]
<1>8. w = x
  <2> HIDE DEF dict, s, next, read, length, w
  <2> QED
    BY <1>6, <1>7
<1>9. /\ x.dict = dict /\ x.huff = z.huff /\ x.s = s /\ x.r = next /\ x.read = read /\ x.length = length
      /\ x.out = z.out /\ x.widest = z.widest
  OBVIOUS
<1>10. Encoder(x)
  <2>1. x = [dict |-> x.dict, huff |-> x.huff, s |-> x.s, r |-> x.r, read |-> x.read,
          length |-> x.length, out |-> x.out, widest |-> x.widest]
    OBVIOUS
  <2> HIDE DEF dict, s, next, read, length, w, x
  <2> QED
    BY <1>1, <1>2, <1>3, <1>5, <1>9, <2>1, Zenon DEF Encoder
<1> HIDE DEF x, w
<1>11. /\ more => x.read = z.read + 1 /\ x.length = z.length
       /\ ~more => x.read = z.read /\ x.length = z.length - 1
  <2> HIDE DEF more
  <2> QED
    BY <1>9
<1>12. /\ goes => x.dict = InsertNode(e, x.r)
       /\ ~goes => x.dict = e
  <2> HIDE DEF goes, e, next
  <2> QED
    BY <1>9
<1> QED
  BY <1>8, <1>9, <1>10, <1>11, <1>12, Zenon DEF IsSlid, w, e, more, next, s, goes

(***************************************************************************)
(* One turn of compress()'s loop.                                          *)
(***************************************************************************)
Found(z) == Min({z.dict.match_length, z.length})
SizeOf(z) == IF Found(z) > THRESHOLD THEN Found(z) ELSE 1
SymbolOf(z) == IF Found(z) > THRESHOLD THEN MatchSymbol(Found(z)) ELSE z.dict.text[z.r]
TailOf(z) == IF Found(z) > THRESHOLD THEN EncodePosition(z.dict.match_position) ELSE <<>>

\* What has been written before the window moves.
Written(z) ==
  [z EXCEPT !.huff = Update(@, SymbolOf(z)),
            !.out = @ \o EncodeChar(z.huff, SymbolOf(z)) \o TailOf(z),
            !.widest = Max({@, Len(EncodeChar(z.huff, SymbolOf(z)))})]

\* The window moves by as many symbols as have been written.
SlidStep(z, data, size, x, k) == Slide(x, data)
SlidBody(z, data, size, w) ==
  [k \in 0..size |-> IF k = 0 THEN Written(z) ELSE SlidStep(z, data, size, w[k - 1], k)]
SlidLoop(z, data, size) == CHOOSE w : w = SlidBody(z, data, size, w)

LEMMA SlidLoopDef ==
  ASSUME NEW z, NEW data, NEW size, size \in Nat
  PROVE  /\ SlidLoop(z, data, size)[0] = Written(z)
         /\ \A k \in Nat : k < size =>
              SlidLoop(z, data, size)[k + 1] = SlidStep(z, data, size, SlidLoop(z, data, size)[k], k + 1)
<1> DEFINE e == Written(z)
           Upto(m, w) == w = [k \in 0..m |-> IF k = 0 THEN e ELSE SlidStep(z, data, size, w[k - 1], k)]
           S == {m \in Nat : \E w : Upto(m, w)}
           n == size
<1> HIDE DEF e
<1>1. 0 \in S
  <2> DEFINE w == [k \in 0..0 |-> e]
  <2>1. Upto(0, w)
    <3>1. \A k \in 0..0 : k = 0
      OBVIOUS
    <3> QED
      BY <3>1
  <2> HIDE DEF Upto
  <2> QED
    BY <2>1
<1>2. ASSUME NEW m \in Nat, m \in S PROVE m + 1 \in S
  <2>1. PICK w : Upto(m, w)
    BY <1>2
  <2> DEFINE x == [k \in 0..m + 1 |-> IF k = m + 1 THEN SlidStep(z, data, size, w[m], m + 1) ELSE w[k]]
             y == [k \in 0..m + 1 |-> IF k = 0 THEN e ELSE SlidStep(z, data, size, x[k - 1], k)]
  <2>2. ASSUME NEW k \in 0..m + 1
        PROVE  x[k] = IF k = 0 THEN e ELSE SlidStep(z, data, size, x[k - 1], k)
    <3>1. CASE k = m + 1
      <4>1. k - 1 = m /\ m \in 0..m + 1 /\ m # m + 1 /\ k # 0
        BY <3>1
      <4>2. x[k] = SlidStep(z, data, size, w[m], m + 1) /\ x[m] = w[m]
        BY <3>1, <4>1
      <4> HIDE DEF x
      <4> QED
        BY <3>1, <4>1, <4>2
    <3>2. CASE k # m + 1
      <4>1. k \in 0..m
        BY <3>2
      <4>2. x[k] = w[k] /\ w[k] = IF k = 0 THEN e ELSE SlidStep(z, data, size, w[k - 1], k)
        <5>1. x[k] = w[k]
          BY <3>2
        <5>2. w[k] = [j \in 0..m |-> IF j = 0 THEN e ELSE SlidStep(z, data, size, w[j - 1], j)][k]
          BY <2>1, Zenon
        <5> HIDE DEF x
        <5> QED
          BY <4>1, <5>1, <5>2
      <4>3. k # 0 => x[k - 1] = w[k - 1]
        <5> SUFFICES ASSUME k # 0 PROVE x[k - 1] = w[k - 1]
          OBVIOUS
        <5>1. k - 1 \in 0..m + 1 /\ k - 1 # m + 1
          BY <4>1
        <5> QED
          BY <5>1
      <4> HIDE DEF x
      <4> QED
        BY <4>2, <4>3
    <3> QED
      BY <3>1, <3>2
  <2>3. x = y
    <3>1. x = [k \in 0..m + 1 |-> x[k]]
      OBVIOUS
    <3> HIDE DEF x
    <3> QED
      BY <2>2, <3>1
  <2>4. Upto(m + 1, x)
    <3> HIDE DEF x
    <3> QED
      BY <2>3, Zenon
  <2> HIDE DEF Upto, x, y
  <2> QED
    BY <2>4
<1>3. PICK w : Upto(n, w)
  <2> HIDE DEF Upto
  <2>1. Nat \subseteq S
    <3> HIDE DEF S
    <3> QED
      BY <1>1, <1>2, NatInd
  <2> QED
    BY <2>1
<1>4. w = SlidBody(z, data, size, w)
  BY <1>3, Zenon DEF SlidBody, e
<1> DEFINE b == SlidLoop(z, data, size)
<1>5. b = SlidBody(z, data, size, b)
  BY <1>4, Zenon DEF SlidLoop
<1> HIDE DEF b
<1>6. b = [k \in 0..n |-> IF k = 0 THEN e ELSE SlidStep(z, data, size, b[k - 1], k)]
  BY <1>5, Zenon DEF SlidBody, e
<1> HIDE DEF n
<1>7. \A k \in 0..n : b[k] = IF k = 0 THEN e ELSE SlidStep(z, data, size, b[k - 1], k)
  <2> SUFFICES ASSUME NEW k \in 0..n
               PROVE  b[k] = IF k = 0 THEN e ELSE SlidStep(z, data, size, b[k - 1], k)
    OBVIOUS
  <2>1. b[k] = [j \in 0..n |-> IF j = 0 THEN e ELSE SlidStep(z, data, size, b[j - 1], j)][k]
    BY <1>6, Zenon
  <2> QED
    BY <2>1, Zenon
<1>8. n \in Nat
  BY DEF n
<1>9. b[0] = e
  BY <1>7, <1>8
<1>10. ASSUME NEW k \in Nat, k < n PROVE b[k + 1] = SlidStep(z, data, size, b[k], k + 1)
  <2>1. k + 1 \in 0..n /\ (k + 1) - 1 = k /\ k + 1 # 0
    BY <1>8, <1>10
  <2>2. b[k + 1] = SlidStep(z, data, size, b[(k + 1) - 1], k + 1)
    BY <1>7, <2>1, Zenon
  <2> QED
    BY <2>1, <2>2
<1> QED
  BY <1>9, <1>10 DEF b, e, n

LEMMA CompressNextIs ==
  ASSUME NEW z, NEW data
  PROVE  CompressNext(z, data) = SlidLoop(z, data, SizeOf(z))[SizeOf(z)]
BY Zenon DEF CompressNext, SlidLoop, SlidBody, SlidStep, Written, SizeOf, SymbolOf, TailOf, Found

LEMMA EncoderNumbers ==
  ASSUME NEW z, Encoder(z)
  PROVE  /\ z.s \in Nat /\ z.s < N /\ z.r \in Nat /\ z.r < N /\ z.read \in Nat
         /\ z.length \in Nat /\ z.length <= F /\ z.widest \in Nat
<1>1. z.s \in Cells /\ z.r \in Cells /\ z.read \in Nat /\ z.length \in 0..F /\ z.widest \in Nat
  BY DEF Encoder
<1> QED
  BY <1>1, Widths DEF Cells

LEMMA SymbolType ==
  ASSUME NEW z, Encoder(z), z.length > 0
  PROVE  /\ Found(z) \in 0..F /\ Found(z) <= z.length /\ Found(z) <= z.dict.match_length
         /\ SizeOf(z) \in 1..z.length /\ SymbolOf(z) \in 0..NCHAR - 1
         /\ TailOf(z) \in Seq(Bits)
<1> DEFINE m == z.dict.match_length
           n == Found(z)
<1>1. m \in 0..F /\ z.length \in 0..F /\ m \in Nat /\ z.length \in Nat /\ z.r \in Cells
      /\ z.dict.match_position \in Int
  BY DictFields, Widths DEF Encoder
<1>2. n \in Nat /\ n <= m /\ n <= z.length
  <2> HIDE DEF m
  <2>1. n = Min({m, z.length})
    BY DEF Found, m
  <2> QED
    BY <1>1, <2>1, Lesser
<1>3. z.dict.text[z.r] \in Codes
  <2>1. z.r \in 0..N + F - 1
    BY <1>1, Widths DEF Cells
  <2> QED
    BY <2>1, DictFields DEF Encoder, Windows
<1> HIDE DEF m, n
<1>4. SizeOf(z) \in 1..z.length
  BY <1>1, <1>2, Widths DEF SizeOf, n
<1>5. SymbolOf(z) \in 0..NCHAR - 1
  <2>1. n > THRESHOLD => MatchSymbol(n) \in 0..NCHAR - 1
    BY <1>1, <1>2, Widths DEF MatchSymbol
  <2>2. z.dict.text[z.r] \in 0..NCHAR - 1
    BY <1>3, Widths DEF Codes
  <2> QED
    BY <2>1, <2>2 DEF SymbolOf, n
<1>6. TailOf(z) \in Seq(Bits)
  BY <1>1, PositionType DEF TailOf
<1> QED
  BY <1>1, <1>2, <1>4, <1>5, <1>6, Widths DEF n, m

IsWritten(z, y) ==
  /\ Encoder(y) /\ y.dict = z.dict /\ y.s = z.s /\ y.r = z.r /\ y.read = z.read /\ y.length = z.length
  /\ y.huff = Update(z.huff, SymbolOf(z))
  /\ y.out = z.out \o EncodeChar(z.huff, SymbolOf(z)) \o TailOf(z)
  /\ y.widest >= z.widest /\ y.widest >= Len(EncodeChar(z.huff, SymbolOf(z)))

LEMMA WrittenIs ==
  ASSUME NEW z, Encoder(z), z.length > 0
  PROVE  IsWritten(z, Written(z))
<1> DEFINE c == SymbolOf(z)
           e == EncodeChar(z.huff, c)
           huff == Update(z.huff, c)
           out == z.out \o e \o TailOf(z)
           widest == Max({z.widest, Len(e)})
           y == [dict |-> z.dict, huff |-> huff, s |-> z.s, r |-> z.r, read |-> z.read,
                 length |-> z.length, out |-> out, widest |-> widest]
<1>1. /\ z.dict \in DictSet /\ Resting(z.huff) /\ z.s \in Cells /\ z.r \in Cells
      /\ z.read \in Nat /\ z.length \in 0..F /\ z.out \in Seq(Bits) /\ z.widest \in Nat
      /\ z = [dict |-> z.dict, huff |-> z.huff, s |-> z.s, r |-> z.r, read |-> z.read,
              length |-> z.length, out |-> z.out, widest |-> z.widest]
  BY DEF Encoder
<1>2. c \in 0..NCHAR - 1 /\ TailOf(z) \in Seq(Bits)
  BY SymbolType
<1> HIDE DEF c
<1>3. e \in Seq(Bits)
  BY <1>1, <1>2, CodeType
<1> HIDE DEF e
<1>4. out \in Seq(Bits)
  BY <1>1, <1>2, <1>3, ConcatProperties
<1>5. widest \in Nat /\ widest >= z.widest /\ widest >= Len(e)
  <2> DEFINE a == z.widest
             b == Len(e)
  <2>1. a \in Nat /\ b \in Nat
    BY <1>1, <1>3
  <2> HIDE DEF a, b
  <2>2. /\ Max({a, b}) \in Nat /\ Max({a, b}) = IF a >= b THEN a ELSE b
    BY <2>1, Lesser
  <2>3. Max({a, b}) \in Nat /\ Max({a, b}) >= a /\ Max({a, b}) >= b
    BY <2>1, <2>2
  <2> QED
    BY <2>3 DEF a, b
<1>6. Resting(huff)
  BY <1>1, <1>2, UpdateRests
<1>7. Written(z) = [z EXCEPT !.huff = huff, !.out = out, !.widest = widest]
  BY DEF Written, c, e
<1> HIDE DEF huff, out, widest
<1>8. Written(z) = y
  BY <1>1, <1>7
<1>9. /\ y.dict = z.dict /\ y.huff = huff /\ y.s = z.s /\ y.r = z.r /\ y.read = z.read /\ y.length = z.length
      /\ y.out = out /\ y.widest = widest
  OBVIOUS
<1>10. y = [dict |-> y.dict, huff |-> y.huff, s |-> y.s, r |-> y.r, read |-> y.read,
          length |-> y.length, out |-> y.out, widest |-> y.widest]
  OBVIOUS
<1> HIDE DEF y
<1>11. Encoder(y)
  BY <1>1, <1>4, <1>5, <1>6, <1>9, <1>10, Zenon DEF Encoder
<1>12. IsWritten(z, y)
  BY <1>5, <1>9, <1>11, Zenon DEF IsWritten, huff, out, e, c
<1> QED
  BY <1>8, <1>12

\* The window after k moves of one turn.
Moving(z, k, v) ==
  /\ Encoder(v) /\ v.length >= z.length - k /\ v.huff = Written(z).huff /\ v.out = Written(z).out
  /\ v.widest = Written(z).widest

LEMMA SlidTyped ==
  ASSUME NEW data \in Texts, NEW z, Encoder(z), z.length > 0
  PROVE  \A k \in Nat : k <= SizeOf(z) => Moving(z, k, SlidLoop(z, data, SizeOf(z))[k])
<1> DEFINE n == SizeOf(z)
           w == SlidLoop(z, data, n)
           S == {k \in Nat : k <= n => Moving(z, k, w[k])}
<1>1. n \in Nat /\ n >= 1 /\ n <= z.length /\ z.length \in Nat
  <2>1. n \in 1..z.length
    BY SymbolType
  <2>2. z.length \in Nat
    BY EncoderNumbers
  <2> HIDE DEF n
  <2> QED
    BY <2>1, <2>2
<1>2. w[0] = Written(z) /\ \A k \in Nat : k < n => w[k + 1] = Slide(w[k], data)
  BY <1>1, SlidLoopDef DEF SlidStep
<1> HIDE DEF w, n
<1>3. 0 \in S
  <2> DEFINE y == Written(z)
  <2>1. IsWritten(z, y)
    BY WrittenIs
  <2> HIDE DEF y
  <2>2. Encoder(y) /\ y.length = z.length
    BY <2>1 DEF IsWritten
  <2>3. y.length >= z.length - 0
    BY <1>1, <2>2
  <2> QED
    BY <1>2, <2>2, <2>3 DEF Moving, y
<1>4. ASSUME NEW k \in Nat, k \in S PROVE k + 1 \in S
  <2> SUFFICES ASSUME k + 1 <= n PROVE Moving(z, k + 1, w[k + 1])
    OBVIOUS
  <2>1. k < n /\ k <= n
    BY <1>1
  <2> DEFINE v == w[k]
  <2>2. Moving(z, k, v) /\ w[k + 1] = Slide(v, data)
    BY <1>2, <1>4, <2>1
  <2> HIDE DEF v
  <2>3. Encoder(v) /\ v.length \in Nat /\ v.length >= z.length - k
    BY <2>2, Widths DEF Moving, Encoder
  <2>4. v.length > 0
    BY <1>1, <2>1, <2>3
  <2>5. IsSlid(v, data, w[k + 1])
    BY <2>2, <2>3, <2>4, SlideIs
  <2>6. w[k + 1].length >= z.length - (k + 1)
    <3>1. w[k + 1].length = v.length \/ w[k + 1].length = v.length - 1
      BY <2>5 DEF IsSlid
    <3> QED
      BY <1>1, <2>3, <3>1
  <2> QED
    BY <2>2, <2>5, <2>6 DEF Moving, IsSlid
<1> HIDE DEF S
<1>5. Nat \subseteq S
  BY <1>3, <1>4, NatInd
<1> QED
  BY <1>5 DEF S, w, n

LEMMA CompressNextTyped ==
  ASSUME NEW data \in Texts, NEW z, Encoder(z), z.length > 0
  PROVE  Moving(z, SizeOf(z), CompressNext(z, data))
<1> DEFINE n == SizeOf(z)
<1>1. n \in 1..z.length /\ z.length \in Nat
  BY SymbolType, EncoderNumbers
<1> HIDE DEF n
<1>2. n \in Nat /\ n <= n
  BY <1>1
<1>3. Moving(z, n, SlidLoop(z, data, n)[n])
  BY <1>2, SlidTyped DEF n
<1> QED
  BY <1>3, CompressNextIs DEF n

(***************************************************************************)
(* The decoder's types.                                                    *)
(***************************************************************************)
Decoder(z) ==
  /\ z = [huff |-> z.huff, text |-> z.text, r |-> z.r, size |-> z.size, at |-> z.at, out |-> z.out]
  /\ Resting(z.huff) /\ z.text \in [Cells -> Codes] /\ z.r \in Cells
  /\ z.size \in Nat /\ z.at \in Nat \ {0} /\ z.out \in Texts

LEMMA StartDecompressTyped ==
  ASSUME NEW size \in Nat
  PROVE  Decoder(StartDecompress(size))
<1> DEFINE y == [i \in 0..N - 1 |-> IF i < N - F THEN Space ELSE 0]
           z == StartDecompress(size)
<1>1. y \in [Cells -> Codes]
  BY Widths DEF Cells, Codes
<1>2. N - F \in Cells
  BY Widths DEF Cells
<1>3. Resting(StartHuff)
  BY StartRests
<1>4. z = [huff |-> StartHuff, text |-> y, r |-> N - F, size |-> size, at |-> 1, out |-> <<>>]
  BY DEF StartDecompress
<1> HIDE DEF y, z
<1>5. z.huff = StartHuff /\ z.text = y /\ z.r = N - F /\ z.size = size /\ z.at = 1 /\ z.out = <<>>
  BY <1>4
<1>6. z = [huff |-> z.huff, text |-> z.text, r |-> z.r, size |-> z.size, at |-> z.at, out |-> z.out]
  BY <1>4, <1>5
<1>7. 1 \in Nat \ {0} /\ <<>> \in Texts
  BY DEF Texts
<1> QED
  BY <1>1, <1>2, <1>3, <1>5, <1>6, <1>7, Zenon DEF Decoder, z

IsEmitted(z, c, y) ==
  /\ Decoder(y) /\ y.huff = z.huff /\ y.size = z.size /\ y.at = z.at
  /\ y.out = Append(z.out, c) /\ y.text = [z.text EXCEPT ![z.r] = c] /\ y.r = (z.r + 1) % N

LEMMA EmitIs ==
  ASSUME NEW z, Decoder(z), NEW c \in Codes
  PROVE  IsEmitted(z, c, Emit(z, c))
<1> DEFINE o == Append(z.out, c)
           x == [z.text EXCEPT ![z.r] = c]
           r == (z.r + 1) % N
           y == [huff |-> z.huff, text |-> x, r |-> r, size |-> z.size, at |-> z.at, out |-> o]
<1>1. /\ z = [huff |-> z.huff, text |-> z.text, r |-> z.r, size |-> z.size, at |-> z.at, out |-> z.out]
      /\ Resting(z.huff) /\ z.text \in [Cells -> Codes] /\ z.r \in Cells
      /\ z.size \in Nat /\ z.at \in Nat \ {0} /\ z.out \in Texts
  BY DEF Decoder
<1>2. o \in Texts
  BY <1>1 DEF Texts
<1>3. x \in [Cells -> Codes]
  BY <1>1
<1>4. r \in Cells
  <2>1. z.r \in Nat
    BY <1>1, Widths DEF Cells
  <2> QED
    BY <2>1, Widths DEF Cells
<1>5. Emit(z, c) = [z EXCEPT !.out = o, !.text = x, !.r = r]
  BY DEF Emit
<1> HIDE DEF o, x, r
<1>6. Emit(z, c) = y
  BY <1>1, <1>5
<1>7. y.huff = z.huff /\ y.text = x /\ y.r = r /\ y.size = z.size /\ y.at = z.at /\ y.out = o
  OBVIOUS
<1>8. y = [huff |-> y.huff, text |-> y.text, r |-> y.r, size |-> y.size, at |-> y.at, out |-> y.out]
  OBVIOUS
<1> HIDE DEF y
<1>9. Decoder(y)
  BY <1>1, <1>2, <1>3, <1>4, <1>7, <1>8, Zenon DEF Decoder
<1> QED
  BY <1>6, <1>7, <1>9, Zenon DEF IsEmitted, o, x, r

LEMMA DecodePositionType ==
  ASSUME NEW bits \in Seq(Bits), NEW i \in Nat, i > 0
  PROVE  DecodePosition(bits, i).value \in Int /\ DecodePosition(bits, i).width \in Nat
<1> DEFINE b == NumberOf(BitsAt(bits, i, 8))
           more == PositionTail(b)
           u == NumberOf(BitsAt(bits, i, 8 + more))
<1>1. b \in Nat
  <2>1. BitsAt(bits, i, 8) \in Seq(Bits)
    BY BitsAtType
  <2>2. BitsAt(bits, i, 8) \in Seq(Nat)
    BY <2>1, NumberBound
  <2> QED
    BY <2>2, NumberAppend
<1> HIDE DEF b
<1>2. more \in Nat /\ 8 + more \in Nat
  BY <1>1 DEF PositionTail, D_LEN
<1>3. D_CODE(b) \in Int
  <2> DEFINE d1 == (b - 16) \div 16
             d2 == (b - 48) \div 8
             d3 == (b - 96) \div 4
             d4 == (b - 144) \div 2
  <2>1. d1 \in Int /\ d2 \in Int /\ d3 \in Int /\ d4 \in Int /\ b - 192 \in Int
    BY <1>1
  <2>2. D_CODE(b) = CASE b < 32 -> 0 [] b \in 32..79 -> d1 [] b \in 80..143 -> d2
                      [] b \in 144..191 -> d3 [] b \in 192..239 -> d4 [] OTHER -> b - 192
    BY DEF D_CODE
  <2> HIDE DEF d1, d2, d3, d4
  <2> QED
    BY <2>1, <2>2
<1> HIDE DEF more
<1>4. u \in Nat
  <2>1. BitsAt(bits, i, 8 + more) \in Seq(Bits)
    BY <1>2, BitsAtType
  <2>2. BitsAt(bits, i, 8 + more) \in Seq(Nat)
    BY <2>1, NumberBound
  <2> QED
    BY <2>2, NumberAppend
<1> HIDE DEF u
<1>5. DecodePosition(bits, i) = [value |-> 64 * D_CODE(b) + (u % 64), width |-> 8 + more]
  BY DEF DecodePosition, b, more, u
<1> QED
  BY <1>2, <1>3, <1>4, <1>5

(***************************************************************************)
(* One turn of decompress()'s loop.                                        *)
(***************************************************************************)
\* The copy of a piece of the window.
CopiedStep(start, from, count, x, k) == Emit(x, x.text[(from + k - 1) % N])
CopiedBody(start, from, count, w) ==
  [k \in 0..count |-> IF k = 0 THEN start ELSE CopiedStep(start, from, count, w[k - 1], k)]
CopiedLoop(start, from, count) == CHOOSE w : w = CopiedBody(start, from, count, w)

LEMMA CopiedLoopDef ==
  ASSUME NEW start, NEW from, NEW count, count \in Nat
  PROVE  /\ CopiedLoop(start, from, count)[0] = start
         /\ \A k \in Nat : k < count =>
              CopiedLoop(start, from, count)[k + 1] = CopiedStep(start, from, count, CopiedLoop(start, from, count)[k], k + 1)
<1> DEFINE e == start
           Upto(m, w) == w = [k \in 0..m |-> IF k = 0 THEN e ELSE CopiedStep(start, from, count, w[k - 1], k)]
           S == {m \in Nat : \E w : Upto(m, w)}
           n == count
<1> HIDE DEF e
<1>1. 0 \in S
  <2> DEFINE w == [k \in 0..0 |-> e]
  <2>1. Upto(0, w)
    <3>1. \A k \in 0..0 : k = 0
      OBVIOUS
    <3> QED
      BY <3>1
  <2> HIDE DEF Upto
  <2> QED
    BY <2>1
<1>2. ASSUME NEW m \in Nat, m \in S PROVE m + 1 \in S
  <2>1. PICK w : Upto(m, w)
    BY <1>2
  <2> DEFINE x == [k \in 0..m + 1 |-> IF k = m + 1 THEN CopiedStep(start, from, count, w[m], m + 1) ELSE w[k]]
             y == [k \in 0..m + 1 |-> IF k = 0 THEN e ELSE CopiedStep(start, from, count, x[k - 1], k)]
  <2>2. ASSUME NEW k \in 0..m + 1
        PROVE  x[k] = IF k = 0 THEN e ELSE CopiedStep(start, from, count, x[k - 1], k)
    <3>1. CASE k = m + 1
      <4>1. k - 1 = m /\ m \in 0..m + 1 /\ m # m + 1 /\ k # 0
        BY <3>1
      <4>2. x[k] = CopiedStep(start, from, count, w[m], m + 1) /\ x[m] = w[m]
        BY <3>1, <4>1
      <4> HIDE DEF x
      <4> QED
        BY <3>1, <4>1, <4>2
    <3>2. CASE k # m + 1
      <4>1. k \in 0..m
        BY <3>2
      <4>2. x[k] = w[k] /\ w[k] = IF k = 0 THEN e ELSE CopiedStep(start, from, count, w[k - 1], k)
        <5>1. x[k] = w[k]
          BY <3>2
        <5>2. w[k] = [j \in 0..m |-> IF j = 0 THEN e ELSE CopiedStep(start, from, count, w[j - 1], j)][k]
          BY <2>1, Zenon
        <5> HIDE DEF x
        <5> QED
          BY <4>1, <5>1, <5>2
      <4>3. k # 0 => x[k - 1] = w[k - 1]
        <5> SUFFICES ASSUME k # 0 PROVE x[k - 1] = w[k - 1]
          OBVIOUS
        <5>1. k - 1 \in 0..m + 1 /\ k - 1 # m + 1
          BY <4>1
        <5> QED
          BY <5>1
      <4> HIDE DEF x
      <4> QED
        BY <4>2, <4>3
    <3> QED
      BY <3>1, <3>2
  <2>3. x = y
    <3>1. x = [k \in 0..m + 1 |-> x[k]]
      OBVIOUS
    <3> HIDE DEF x
    <3> QED
      BY <2>2, <3>1
  <2>4. Upto(m + 1, x)
    <3> HIDE DEF x
    <3> QED
      BY <2>3, Zenon
  <2> HIDE DEF Upto, x, y
  <2> QED
    BY <2>4
<1>3. PICK w : Upto(n, w)
  <2> HIDE DEF Upto
  <2>1. Nat \subseteq S
    <3> HIDE DEF S
    <3> QED
      BY <1>1, <1>2, NatInd
  <2> QED
    BY <2>1
<1>4. w = CopiedBody(start, from, count, w)
  BY <1>3, Zenon DEF CopiedBody, e
<1> DEFINE b == CopiedLoop(start, from, count)
<1>5. b = CopiedBody(start, from, count, b)
  BY <1>4, Zenon DEF CopiedLoop
<1> HIDE DEF b
<1>6. b = [k \in 0..n |-> IF k = 0 THEN e ELSE CopiedStep(start, from, count, b[k - 1], k)]
  BY <1>5, Zenon DEF CopiedBody, e
<1> HIDE DEF n
<1>7. \A k \in 0..n : b[k] = IF k = 0 THEN e ELSE CopiedStep(start, from, count, b[k - 1], k)
  <2> SUFFICES ASSUME NEW k \in 0..n
               PROVE  b[k] = IF k = 0 THEN e ELSE CopiedStep(start, from, count, b[k - 1], k)
    OBVIOUS
  <2>1. b[k] = [j \in 0..n |-> IF j = 0 THEN e ELSE CopiedStep(start, from, count, b[j - 1], j)][k]
    BY <1>6, Zenon
  <2> QED
    BY <2>1, Zenon
<1>8. n \in Nat
  BY DEF n
<1>9. b[0] = e
  BY <1>7, <1>8
<1>10. ASSUME NEW k \in Nat, k < n PROVE b[k + 1] = CopiedStep(start, from, count, b[k], k + 1)
  <2>1. k + 1 \in 0..n /\ (k + 1) - 1 = k /\ k + 1 # 0
    BY <1>8, <1>10
  <2>2. b[k + 1] = CopiedStep(start, from, count, b[(k + 1) - 1], k + 1)
    BY <1>7, <2>1, Zenon
  <2> QED
    BY <2>1, <2>2
<1> QED
  BY <1>9, <1>10 DEF b, e, n

Char(z, bits) == DecodeChar(z.huff, bits, z.at)
Updated(z, bits) == [z EXCEPT !.huff = Update(@, Char(z, bits).symbol)]
PosOf(z, bits) == DecodePosition(bits, Char(z, bits).next)
From(z, bits) == (z.r - PosOf(z, bits).value - 1) % N
CopySize(z, bits) == Min({Char(z, bits).symbol - (LITERALS - 1) + THRESHOLD, z.size - Len(z.out)})

LEMMA DecompressNextIs ==
  ASSUME NEW z, NEW bits
  PROVE  DecompressNext(z, bits) =
           IF Char(z, bits).symbol < LITERALS
           THEN [Emit(Updated(z, bits), Char(z, bits).symbol) EXCEPT !.at = Char(z, bits).next]
           ELSE [CopiedLoop(Updated(z, bits), From(z, bits), CopySize(z, bits))[CopySize(z, bits)]
                   EXCEPT !.at = Char(z, bits).next + PosOf(z, bits).width]
BY Zenon DEF DecompressNext, Char, Updated, PosOf, From, CopySize, CopiedLoop, CopiedBody, CopiedStep

IsUpdated(z, c, y) ==
  /\ Decoder(y) /\ y.huff = Update(z.huff, c) /\ y.text = z.text /\ y.r = z.r
  /\ y.size = z.size /\ y.at = z.at /\ y.out = z.out

LEMMA UpdatedIs ==
  ASSUME NEW z, Decoder(z), NEW bits \in Seq(Bits)
  PROVE  /\ Char(z, bits).symbol \in 0..NCHAR - 1
         /\ Char(z, bits).next \in Nat /\ Char(z, bits).next >= z.at
         /\ IsUpdated(z, Char(z, bits).symbol, Updated(z, bits))
<1> DEFINE c == Char(z, bits).symbol
           huff == Update(z.huff, c)
           y == [huff |-> huff, text |-> z.text, r |-> z.r, size |-> z.size, at |-> z.at, out |-> z.out]
<1>1. /\ z = [huff |-> z.huff, text |-> z.text, r |-> z.r, size |-> z.size, at |-> z.at, out |-> z.out]
      /\ Resting(z.huff) /\ z.text \in [Cells -> Codes] /\ z.r \in Cells
      /\ z.size \in Nat /\ z.at \in Nat \ {0} /\ z.out \in Texts
  BY DEF Decoder
<1>0. z.at \in Nat /\ z.at > 0
  BY <1>1
<1>2. c \in 0..NCHAR - 1 /\ Char(z, bits).next \in Nat /\ Char(z, bits).next >= z.at
  BY <1>0, <1>1, DecodeCharType DEF Char
<1>3. Resting(huff)
  <2> HIDE DEF c
  <2> QED
    BY <1>1, <1>2, UpdateRests
<1>4. Updated(z, bits) = [z EXCEPT !.huff = huff]
  BY DEF Updated
<1> HIDE DEF huff
<1>5. Updated(z, bits) = y
  BY <1>1, <1>4
<1>6. y.huff = huff /\ y.text = z.text /\ y.r = z.r /\ y.size = z.size /\ y.at = z.at /\ y.out = z.out
  OBVIOUS
<1>7. y = [huff |-> y.huff, text |-> y.text, r |-> y.r, size |-> y.size, at |-> y.at, out |-> y.out]
  OBVIOUS
<1> HIDE DEF y
<1>8. Decoder(y)
  BY <1>1, <1>3, <1>6, <1>7, Zenon DEF Decoder
<1>9. IsUpdated(z, c, y)
  BY <1>6, <1>8, Zenon DEF IsUpdated, huff
<1> QED
  BY <1>2, <1>5, <1>9, Zenon

\* What a copy leaves alone.
Copying(y, k, v) ==
  /\ Decoder(v) /\ v.huff = y.huff /\ v.size = y.size /\ v.at = y.at
  /\ Len(v.out) = Len(y.out) + k

LEMMA CopiedTyped ==
  ASSUME NEW y, Decoder(y), NEW i \in Int, NEW n \in Nat
  PROVE  \A k \in Nat : k <= n => Copying(y, k, CopiedLoop(y, i, n)[k])
<1> DEFINE w == CopiedLoop(y, i, n)
           S == {k \in Nat : k <= n => Copying(y, k, w[k])}
<1>1. w[0] = y /\ \A k \in Nat : k < n => w[k + 1] = Emit(w[k], w[k].text[(i + (k + 1) - 1) % N])
  BY CopiedLoopDef DEF CopiedStep
<1> HIDE DEF w
<1>2. 0 \in S
  <2>1. Len(y.out) + 0 = Len(y.out)
    BY DEF Decoder, Texts
  <2> QED
    BY <1>1, <2>1 DEF Copying
<1>3. ASSUME NEW k \in Nat, k \in S PROVE k + 1 \in S
  <2> SUFFICES ASSUME k + 1 <= n PROVE Copying(y, k + 1, w[k + 1])
    OBVIOUS
  <2>1. k < n /\ k <= n
    OBVIOUS
  <2> DEFINE v == w[k]
             j == (i + (k + 1) - 1) % N
             c == v.text[j]
  <2>2. Copying(y, k, v) /\ w[k + 1] = Emit(v, c)
    BY <1>1, <1>3, <2>1
  <2>3. j \in Cells
    BY Widths DEF Cells
  <2> HIDE DEF v, j
  <2>4. c \in Codes
    BY <2>2, <2>3 DEF Copying, Decoder
  <2> HIDE DEF c
  <2>5. IsEmitted(v, c, w[k + 1])
    BY <2>2, <2>4, EmitIs DEF Copying
  <2>6. Len(w[k + 1].out) = Len(y.out) + (k + 1)
    <3> DEFINE o == v.out
               m == Len(y.out)
    <3>1. o \in Texts /\ Len(o) = m + k
      BY <2>2 DEF Copying, Decoder
    <3>2. w[k + 1].out = Append(o, c)
      BY <2>5 DEF IsEmitted
    <3>3. m \in Nat
      BY DEF Decoder, Texts
    <3> HIDE DEF o, m
    <3>4. Len(Append(o, c)) = Len(o) + 1
      BY <3>1 DEF Texts
    <3>5. Len(Append(o, c)) = m + (k + 1)
      BY <3>1, <3>3, <3>4
    <3> QED
      BY <3>2, <3>5 DEF m
  <2> QED
    BY <2>2, <2>5, <2>6 DEF Copying, IsEmitted
<1> HIDE DEF S
<1>4. Nat \subseteq S
  BY <1>2, <1>3, NatInd
<1> QED
  BY <1>4 DEF S, w

\* A decoder that goes on elsewhere.
LEMMA GoesOn ==
  ASSUME NEW z, Decoder(z), NEW at \in Nat \ {0}
  PROVE  /\ Decoder([z EXCEPT !.at = at]) /\ [z EXCEPT !.at = at].at = at
         /\ [z EXCEPT !.at = at].huff = z.huff /\ [z EXCEPT !.at = at].text = z.text
         /\ [z EXCEPT !.at = at].r = z.r /\ [z EXCEPT !.at = at].size = z.size
         /\ [z EXCEPT !.at = at].out = z.out
<1> DEFINE y == [huff |-> z.huff, text |-> z.text, r |-> z.r, size |-> z.size, at |-> at, out |-> z.out]
<1>1. z = [huff |-> z.huff, text |-> z.text, r |-> z.r, size |-> z.size, at |-> z.at, out |-> z.out]
  BY DEF Decoder
<1>2. [z EXCEPT !.at = at] = y
  BY <1>1
<1>3. y.huff = z.huff /\ y.text = z.text /\ y.r = z.r /\ y.size = z.size /\ y.at = at /\ y.out = z.out
  OBVIOUS
<1>4. y = [huff |-> y.huff, text |-> y.text, r |-> y.r, size |-> y.size, at |-> y.at, out |-> y.out]
  OBVIOUS
<1> HIDE DEF y
<1>5. Decoder(y)
  BY <1>3, <1>4, Zenon DEF Decoder
<1> QED
  BY <1>2, <1>3, <1>5, Zenon

LEMMA DecompressNextTyped ==
  ASSUME NEW z, Decoder(z), NEW bits \in Seq(Bits), Len(z.out) < z.size
  PROVE  Decoder(DecompressNext(z, bits)) /\ DecompressNext(z, bits).size = z.size
<1> DEFINE c == Char(z, bits).symbol
           next == Char(z, bits).next
           y == Updated(z, bits)
           i == From(z, bits)
           n == CopySize(z, bits)
           p == PosOf(z, bits)
<1>1. c \in 0..NCHAR - 1 /\ next \in Nat /\ next >= z.at /\ IsUpdated(z, c, y)
  BY UpdatedIs
<1>2. DecompressNext(z, bits) =
           IF c < LITERALS THEN [Emit(y, c) EXCEPT !.at = next]
           ELSE [CopiedLoop(y, i, n)[n] EXCEPT !.at = next + p.width]
  BY DecompressNextIs
<1>3. z.at \in Nat /\ z.at > 0 /\ z.r \in Nat /\ z.size \in Nat /\ Len(z.out) \in Nat
  <2>1. z.at \in Nat \ {0} /\ z.r \in Cells /\ z.size \in Nat /\ z.out \in Texts
    BY DEF Decoder
  <2> QED
    BY <2>1, Widths DEF Cells, Texts
<1>4. p.value \in Int /\ p.width \in Nat
  <2> HIDE DEF next
  <2>1. next > 0
    BY <1>1, <1>3
  <2>2. p = DecodePosition(bits, next)
    BY DEF PosOf, next
  <2> HIDE DEF p
  <2> QED
    BY <1>1, <2>1, <2>2, DecodePositionType
<1>5. i \in Int
  <2> HIDE DEF p
  <2>1. i = (z.r - p.value - 1) % N
    BY DEF From, p
  <2> QED
    BY <1>3, <1>4, <2>1, Widths
<1>6. ~(c < LITERALS) => n \in Nat
  <2> SUFFICES ASSUME ~(c < LITERALS) PROVE n \in Nat
    OBVIOUS
  <2> DEFINE a == c - (LITERALS - 1) + THRESHOLD
             b == z.size - Len(z.out)
  <2>1. a \in Nat /\ b \in Nat
    <3> HIDE DEF c
    <3> QED
      BY <1>1, <1>3, Widths DEF a, b
  <2>2. n = Min({a, b})
    BY DEF CopySize
  <2> HIDE DEF a, b
  <2> QED
    BY <2>1, <2>2, Lesser
<1>7. next \in Nat \ {0} /\ next + p.width \in Nat \ {0}
  <2> HIDE DEF next, p
  <2> QED
    BY <1>1, <1>3, <1>4
<1> DEFINE at == next + p.width
<1> HIDE DEF c, y, i, n, next, p, at
<1>8. CASE c < LITERALS
  <2>1. c \in Codes
    BY <1>1, <1>8, Widths DEF Codes
  <2>2. IsEmitted(y, c, Emit(y, c))
    BY <1>1, <2>1, EmitIs DEF IsUpdated
  <2>3. Decoder(Emit(y, c)) /\ Emit(y, c).size = z.size
    BY <1>1, <2>2 DEF IsEmitted, IsUpdated
  <2>4. DecompressNext(z, bits) = [Emit(y, c) EXCEPT !.at = next]
    BY <1>2, <1>8
  <2> QED
    BY <1>7, <2>3, <2>4, GoesOn
<1>9. CASE ~(c < LITERALS)
  <2>1. n \in Nat /\ n <= n
    BY <1>6, <1>9
  <2>2. Decoder(y) /\ y.size = z.size
    BY <1>1 DEF IsUpdated
  <2> DEFINE v == CopiedLoop(y, i, n)[n]
  <2>3. Copying(y, n, v)
    BY <1>5, <2>1, <2>2, CopiedTyped
  <2>4. DecompressNext(z, bits) = [v EXCEPT !.at = at]
    BY <1>2, <1>9 DEF at
  <2> HIDE DEF v
  <2>5. at \in Nat \ {0}
    BY <1>7 DEF at
  <2> QED
    BY <2>2, <2>3, <2>4, <2>5, GoesOn DEF Copying
<1> QED
  BY <1>8, <1>9

(***************************************************************************)
(* The window's search trees.  A position is in one of them while it has a *)
(* parent; a node is its parent's left or right child and no other's, and  *)
(* deeper than its parent.                                                 *)
(***************************************************************************)
Roots == N + 1..N + LITERALS

Trees(a, l, r, k) ==
  /\ \A x \in Cells : /\ a[x] \in 0..N + LITERALS /\ l[x] \in 0..N /\ r[x] \in 0..N
                      /\ k[x] \in Int
  /\ \A x \in Roots : r[x] \in 0..N /\ (r[x] # N => a[r[x]] = x)
  /\ \A x \in Cells : a[x] # N =>
       /\ l[x] # N => a[l[x]] = x /\ k[x] < k[l[x]] /\ l[x] # r[x]
       /\ r[x] # N => a[r[x]] = x /\ k[x] < k[r[x]]
       /\ a[x] < N => a[a[x]] # N /\ (l[a[x]] = x \/ r[a[x]] = x)
       /\ a[x] > N => r[a[x]] = x

LEMMA Spaces ==
  /\ N \in Nat /\ LITERALS \in Nat /\ N > 1
  /\ \A x : x \in Cells <=> x \in 0..N /\ x # N
  /\ \A x : x \in Roots <=> x \in 0..N + LITERALS /\ x > N
  /\ \A x \in 0..N + LITERALS : x # N => (x < N /\ x \in Cells) \/ (x > N /\ x \in Roots)
  /\ \A x \in Cells : x \in 0..N + LITERALS /\ x \in Nat /\ x < N
BY Widths DEF Cells, Roots

\* Of node p's children one is missing, and the other, c, takes its place.
Removed(a, l, r, p, c, b, m, s) ==
  /\ \A x \in Cells : /\ b[x] = IF x = p THEN N ELSE IF x = c THEN a[p] ELSE a[x]
                      /\ m[x] = IF x = a[p] /\ l[x] = p THEN c ELSE l[x]
                      /\ s[x] = IF x = a[p] /\ r[x] = p THEN c ELSE r[x]
  /\ \A x \in Roots : s[x] = IF x = a[p] /\ r[x] = p THEN c ELSE r[x]

LEMMA RemovedTrees ==
  ASSUME NEW a, NEW l, NEW r, NEW k, Trees(a, l, r, k), NEW p \in Cells, a[p] # N,
         NEW c, (r[p] = N /\ c = l[p]) \/ (l[p] = N /\ c = r[p]),
         NEW b, NEW m, NEW s, Removed(a, l, r, p, c, b, m, s)
  PROVE  Trees(b, m, s, k)
<1>1. c \in 0..N /\ a[p] \in 0..N + LITERALS /\ (c # N => c \in Cells /\ a[c] = p /\ k[p] < k[c] /\ c # p)
  <2>1. c \in 0..N /\ a[p] \in 0..N + LITERALS /\ (c # N => c \in Cells /\ a[c] = p /\ k[p] < k[c])
    BY Spaces DEF Trees
  <2>2. k[p] \in Int
    BY DEF Trees
  <2>3. ~(k[p] < k[p])
    BY <2>2
  <2> QED
    BY <2>1, <2>3
<1>2. \A x \in Cells : /\ b[x] \in 0..N + LITERALS /\ m[x] \in 0..N /\ s[x] \in 0..N
                       /\ k[x] \in Int
  BY <1>1, Spaces DEF Trees, Removed
<1>3. ASSUME NEW x \in Roots PROVE s[x] \in 0..N /\ (s[x] # N => b[s[x]] = x)
  <2>1. r[x] \in 0..N /\ (r[x] # N => a[r[x]] = x) /\ x # N /\ x \notin Cells
    BY Spaces DEF Trees
  <2>2. s[x] = IF x = a[p] /\ r[x] = p THEN c ELSE r[x]
    BY DEF Removed
  <2>3. CASE x = a[p] /\ r[x] = p
    <3>1. s[x] = c /\ (c # N => b[c] = a[p])
      BY <1>1, <2>2, <2>3 DEF Removed
    <3> QED
      BY <1>1, <2>3, <3>1
  <2>4. CASE ~(x = a[p] /\ r[x] = p)
    <3>1. s[x] = r[x]
      BY <2>2, <2>4
    <3>2. r[x] # N => r[x] # p /\ r[x] # c /\ r[x] \in Cells
      BY <1>1, <2>1, <2>4, Spaces
    <3>3. r[x] # N => b[r[x]] = a[r[x]]
      BY <3>2 DEF Removed
    <3> QED
      BY <2>1, <3>1, <3>3
  <2> QED
    BY <2>3, <2>4
<1>4. ASSUME NEW x \in Cells, b[x] # N
      PROVE  /\ m[x] # N => b[m[x]] = x /\ k[x] < k[m[x]] /\ m[x] # s[x]
             /\ s[x] # N => b[s[x]] = x /\ k[x] < k[s[x]]
             /\ b[x] < N => b[b[x]] # N /\ (m[b[x]] = x \/ s[b[x]] = x)
             /\ b[x] > N => s[b[x]] = x
  <2>1. x # p /\ a[x] # N
    <3>1. b[x] = IF x = p THEN N ELSE IF x = c THEN a[p] ELSE a[x]
      BY DEF Removed
    <3>2. x = c => a[x] = p /\ p # N
      BY <1>1, Spaces
    <3> QED
      BY <1>4, <3>1, <3>2
  <2>2. /\ l[x] \in 0..N /\ r[x] \in 0..N
        /\ l[x] # N => a[l[x]] = x /\ k[x] < k[l[x]] /\ l[x] # r[x]
        /\ r[x] # N => a[r[x]] = x /\ k[x] < k[r[x]]
        /\ a[x] < N => a[a[x]] # N /\ (l[a[x]] = x \/ r[a[x]] = x)
        /\ a[x] > N => r[a[x]] = x
    BY <2>1 DEF Trees
  <2>3. /\ b[x] = IF x = c THEN a[p] ELSE a[x]
        /\ m[x] = IF x = a[p] /\ l[x] = p THEN c ELSE l[x]
        /\ s[x] = IF x = a[p] /\ r[x] = p THEN c ELSE r[x]
    BY <2>1 DEF Removed
  <2>4. \A y \in Cells : y # p /\ y # c => b[y] = a[y]
    BY DEF Removed
  <2>5. c # N => b[c] = a[p]
    <3>1. c # N => c # p
      BY <1>1 DEF Trees
    <3> QED
      BY <1>1, <3>1 DEF Removed
  <2>6. k[x] \in Int /\ k[p] \in Int /\ (c # N => k[c] \in Int)
    BY <1>1 DEF Trees
  <2>7. x = a[p] => k[x] < k[p] /\ (l[x] = p \/ r[x] = p)
    <3>1. a[p] < N => l[a[p]] = p \/ r[a[p]] = p
      BY DEF Trees
    <3>2. p # N
      BY Spaces
    <3> QED
      BY <2>2, <3>1, <3>2, Spaces
  <2>8. m[x] # N => b[m[x]] = x /\ k[x] < k[m[x]] /\ m[x] # s[x]
    <3> SUFFICES ASSUME m[x] # N PROVE b[m[x]] = x /\ k[x] < k[m[x]] /\ m[x] # s[x]
      OBVIOUS
    <3>1. CASE x = a[p] /\ l[x] = p
      <4>1. m[x] = c /\ r[x] # p
        BY <2>2, <2>3, <3>1, Spaces
      <4>2. s[x] = r[x] /\ c \in Cells /\ a[c] = p /\ k[p] < k[c]
        BY <1>1, <2>3, <4>1
      <4>3. c # r[x]
        BY <2>1, <2>2, <4>1, <4>2
      <4> QED
        BY <2>5, <2>6, <2>7, <3>1, <4>1, <4>2, <4>3
    <3>2. CASE ~(x = a[p] /\ l[x] = p)
      <4>1. m[x] = l[x] /\ l[x] # p /\ l[x] \in Cells
        BY <2>2, <2>3, <3>2, Spaces
      <4>2. l[x] # c
        BY <1>1, <2>1, <2>2, <4>1, Spaces
      <4>3. b[l[x]] = x
        BY <2>2, <2>4, <4>1, <4>2, Spaces
      <4> QED
        BY <2>2, <2>3, <4>1, <4>2, <4>3
    <3> QED
      BY <3>1, <3>2
  <2>9. s[x] # N => b[s[x]] = x /\ k[x] < k[s[x]]
    <3> SUFFICES ASSUME s[x] # N PROVE b[s[x]] = x /\ k[x] < k[s[x]]
      OBVIOUS
    <3>1. CASE x = a[p] /\ r[x] = p
      BY <1>1, <2>3, <2>5, <2>6, <2>7, <3>1
    <3>2. CASE ~(x = a[p] /\ r[x] = p)
      <4>1. s[x] = r[x] /\ r[x] # p /\ r[x] \in Cells
        BY <2>2, <2>3, <3>2, Spaces
      <4>2. r[x] # c
        BY <1>1, <2>1, <2>2, <4>1, Spaces
      <4> QED
        BY <2>2, <2>4, <4>1, <4>2, Spaces
    <3> QED
      BY <3>1, <3>2
  <2>10. b[x] < N => b[b[x]] # N /\ (m[b[x]] = x \/ s[b[x]] = x)
    <3> SUFFICES ASSUME b[x] < N PROVE b[b[x]] # N /\ (m[b[x]] = x \/ s[b[x]] = x)
      OBVIOUS
    <3>1. CASE x = c
      <4> DEFINE y == a[p]
      <4>1. b[x] = y /\ y \in Cells /\ a[y] # N /\ (l[y] = p \/ r[y] = p) /\ y # p
        <5>1. y < N => a[y] # N /\ (l[y] = p \/ r[y] = p)
          BY DEF Trees
        <5>2. a[y] # N /\ y \in Cells => (l[y] = p => k[y] < k[p]) /\ (r[y] = p => k[y] < k[p])
          BY Spaces DEF Trees
        <5>3. y # N /\ y < N
          BY <1>1, <2>3, <3>1, Spaces
        <5>4. b[x] = y /\ y \in Cells
          BY <1>1, <2>3, <3>1, <5>3, Spaces
        <5> QED
          BY <2>6, <5>1, <5>2, <5>3, <5>4
      <4>2. y # c
        <5>1. a[c] = p /\ k[p] < k[c] /\ k[p] \in Int
          BY <1>1, <2>6, <3>1, Spaces
        <5>2. y = c => k[y] < k[p]
          BY <4>1, Spaces DEF Trees
        <5> QED
          BY <2>6, <3>1, <5>1, <5>2, Spaces
      <4> HIDE DEF y
      <4>3. b[y] # N
        BY <2>4, <4>1, <4>2
      <4>4. m[y] = c \/ s[y] = c
        BY <4>1 DEF Removed, y
      <4> QED
        BY <3>1, <4>1, <4>3, <4>4
    <3>2. CASE x # c
      <4> DEFINE y == a[x]
      <4>1. b[x] = y /\ y < N /\ a[y] # N /\ (l[y] = x \/ r[y] = x) /\ y \in Cells
        <5>1. b[x] = y /\ y < N
          BY <2>3, <3>2
        <5>2. y \in Cells
          BY <5>1, Spaces DEF Trees
        <5> QED
          BY <2>2, <5>1, <5>2
      <4>2. y # p
        <5>1. y = p => x = c
          <6>1. y = p => l[p] = x \/ r[p] = x
            BY <4>1
          <6> QED
            BY <6>1, Spaces
        <5> QED
          BY <3>2, <5>1
      <4>3. b[y] # N
        BY <1>1, <2>4, <4>1, <4>2, <2>5 DEF Removed
      <4>4. m[y] = x \/ s[y] = x
        BY <2>1, <4>1 DEF Removed
      <4> QED
        BY <4>1, <4>3, <4>4
    <3> QED
      BY <3>1, <3>2
  <2>11. b[x] > N => s[b[x]] = x
    <3> SUFFICES ASSUME b[x] > N PROVE s[b[x]] = x
      OBVIOUS
    <3>1. CASE x = c
      <4>1. b[x] = a[p] /\ a[p] \in Roots /\ r[a[p]] = p
        <5>1. b[x] = a[p]
          BY <2>3, <3>1
        <5> QED
          BY <1>1, <5>1, Spaces DEF Trees
      <4> QED
        BY <3>1, <4>1 DEF Removed
    <3>2. CASE x # c
      <4>1. b[x] = a[x] /\ a[x] \in Roots /\ r[a[x]] = x
        <5>1. b[x] = a[x] /\ a[x] \in 0..N + LITERALS
          BY <2>3, <3>2 DEF Trees
        <5> QED
          BY <2>2, <5>1, Spaces
      <4> QED
        BY <2>1, <4>1 DEF Removed
    <3> QED
      BY <3>1, <3>2
  <2> QED
    BY <2>8, <2>9, <2>10, <2>11
<1> QED
  BY <1>2, <1>3, <1>4 DEF Trees

\* Node n, which was in no tree, takes the place of node q and its children.
Replaced(a, l, r, q, n, b, m, s) ==
  /\ \A x \in Cells : b[x] = IF x = q THEN N ELSE IF x = n THEN a[q]
                              ELSE IF x = l[q] \/ x = r[q] THEN n ELSE a[x]
  /\ \A x \in Cells : x # q =>
       /\ m[x] = IF x = n THEN l[q] ELSE IF x = a[q] /\ l[x] = q THEN n ELSE l[x]
       /\ s[x] = IF x = n THEN r[q] ELSE IF x = a[q] /\ r[x] = q THEN n ELSE r[x]
  /\ m[q] \in 0..N /\ s[q] \in 0..N
  /\ \A x \in Roots : s[x] = IF x = a[q] /\ r[x] = q THEN n ELSE r[x]

LEMMA ReplacedTrees ==
  ASSUME NEW a, NEW l, NEW r, NEW k, Trees(a, l, r, k), NEW q \in Cells, a[q] # N,
         NEW n \in Cells, a[n] = N, NEW b, NEW m, NEW s, Replaced(a, l, r, q, n, b, m, s)
  PROVE  \E h : Trees(b, m, s, h)
<1> DEFINE h == [x \in Cells |-> IF x = n THEN k[q] ELSE k[x]]
<1>1. /\ a[q] \in 0..N + LITERALS /\ l[q] \in 0..N /\ r[q] \in 0..N
      /\ l[q] # N => l[q] \in Cells /\ a[l[q]] = q /\ k[q] < k[l[q]] /\ l[q] # r[q]
      /\ r[q] # N => r[q] \in Cells /\ a[r[q]] = q /\ k[q] < k[r[q]]
      /\ q # n /\ q # N /\ n # N /\ n \in 0..N
  BY Spaces DEF Trees
<1>2. k[q] \in Int /\ \A x \in Cells : k[x] \in Int
  BY DEF Trees
<1>3. l[q] # q /\ r[q] # q /\ l[q] # n /\ r[q] # n
  <2>1. ~(k[q] < k[q])
    BY <1>2
  <2> QED
    BY <1>1, <2>1
<1>4. /\ b[q] = N /\ b[n] = a[q] /\ (l[q] # N => b[l[q]] = n) /\ (r[q] # N => b[r[q]] = n)
      /\ m[n] = l[q] /\ s[n] = r[q]
      /\ \A x \in Cells : x # q /\ x # n /\ x # l[q] /\ x # r[q] => b[x] = a[x]
  BY <1>1, <1>3 DEF Replaced
<1>5. h[n] = k[q] /\ \A x \in Cells : x # n => h[x] = k[x]
  OBVIOUS
<1>6. \A x \in Cells : h[x] \in Int
  BY <1>2, <1>5
<1> HIDE DEF h
<1>7. \A x \in Cells : b[x] \in 0..N + LITERALS /\ m[x] \in 0..N /\ s[x] \in 0..N
  BY <1>1, Spaces DEF Trees, Replaced
<1>8. ASSUME NEW x \in Roots PROVE s[x] \in 0..N /\ (s[x] # N => b[s[x]] = x)
  <2>1. r[x] \in 0..N /\ (r[x] # N => a[r[x]] = x) /\ x # N /\ x \notin Cells
    BY Spaces DEF Trees
  <2>2. s[x] = IF x = a[q] /\ r[x] = q THEN n ELSE r[x]
    BY DEF Replaced
  <2>3. CASE x = a[q] /\ r[x] = q
    BY <1>1, <1>4, <2>2, <2>3
  <2>4. CASE ~(x = a[q] /\ r[x] = q)
    <3>1. s[x] = r[x]
      BY <2>2, <2>4
    <3>2. r[x] # N => r[x] # q /\ r[x] # n /\ r[x] # l[q] /\ r[x] # r[q] /\ r[x] \in Cells
      BY <1>1, <2>1, <2>4, Spaces
    <3> QED
      BY <1>4, <2>1, <3>1, <3>2
  <2> QED
    BY <2>3, <2>4
<1>9. ASSUME NEW x \in Cells, b[x] # N
      PROVE  /\ m[x] # N => b[m[x]] = x /\ h[x] < h[m[x]] /\ m[x] # s[x]
             /\ s[x] # N => b[s[x]] = x /\ h[x] < h[s[x]]
             /\ b[x] < N => b[b[x]] # N /\ (m[b[x]] = x \/ s[b[x]] = x)
             /\ b[x] > N => s[b[x]] = x
  <2>1. x # q
    BY <1>4, <1>9
  <2>2. CASE x = n
    <3> DEFINE y == a[q]
    <3>1. b[x] = y /\ m[x] = l[q] /\ s[x] = r[q] /\ h[x] = k[q]
      BY <1>4, <1>5, <2>2
    <3>2. /\ m[x] # N => b[m[x]] = x /\ h[x] < h[m[x]] /\ m[x] # s[x]
          /\ s[x] # N => b[s[x]] = x /\ h[x] < h[s[x]]
      BY <1>1, <1>3, <1>4, <1>5, <2>2, <3>1
    <3>3. b[x] < N => b[b[x]] # N /\ (m[b[x]] = x \/ s[b[x]] = x)
      <4> SUFFICES ASSUME y < N PROVE b[y] # N /\ (m[y] = n \/ s[y] = n)
        BY <2>2, <3>1
      <4>1. y \in Cells /\ a[y] # N /\ (l[y] = q \/ r[y] = q)
        BY <1>1, Spaces DEF Trees
      <4>2. y # q /\ y # n
        <5>1. y = q => k[q] < k[q]
          BY <1>1, <4>1
        <5> QED
          BY <1>2, <4>1, <5>1
      <4> HIDE DEF y
      <4>3. b[y] # N
        BY <1>1, <1>4, <4>1, <4>2
      <4>4. m[y] = n \/ s[y] = n
        BY <4>1, <4>2 DEF Replaced, y
      <4> QED
        BY <4>3, <4>4
    <3>4. b[x] > N => s[b[x]] = x
      <4> SUFFICES ASSUME y > N PROVE s[y] = n
        BY <2>2, <3>1
      <4>1. y \in Roots /\ r[y] = q
        BY <1>1, Spaces DEF Trees
      <4> HIDE DEF y
      <4> QED
        BY <4>1 DEF Replaced, y
    <3> QED
      BY <3>2, <3>3, <3>4
  <2>3. CASE x # n
    <3>1. a[x] # N /\ k[x] \in Int /\ h[x] = k[x]
      <4>1. x # N
        BY Spaces
      <4>2. x = l[q] \/ x = r[q] => a[x] # N
        BY <1>1, <4>1
      <4> QED
        BY <1>2, <1>4, <1>5, <1>9, <2>1, <2>3, <4>2
    <3>2. /\ l[x] \in 0..N /\ r[x] \in 0..N
          /\ l[x] # N => a[l[x]] = x /\ k[x] < k[l[x]] /\ l[x] # r[x]
          /\ r[x] # N => a[r[x]] = x /\ k[x] < k[r[x]]
          /\ a[x] < N => a[a[x]] # N /\ (l[a[x]] = x \/ r[a[x]] = x)
          /\ a[x] > N => r[a[x]] = x
      BY <3>1 DEF Trees
    <3>3. /\ m[x] = IF x = a[q] /\ l[x] = q THEN n ELSE l[x]
          /\ s[x] = IF x = a[q] /\ r[x] = q THEN n ELSE r[x]
      BY <2>1, <2>3 DEF Replaced
    <3>4. m[x] # N => b[m[x]] = x /\ h[x] < h[m[x]] /\ m[x] # s[x]
      <4> SUFFICES ASSUME m[x] # N PROVE b[m[x]] = x /\ h[x] < h[m[x]] /\ m[x] # s[x]
        OBVIOUS
      <4>1. CASE x = a[q] /\ l[x] = q
        <5>1. m[x] = n /\ b[n] = x /\ h[n] = k[q] /\ k[x] < k[q]
          BY <1>1, <1>4, <1>5, <3>2, <3>3, <4>1
        <5>2. r[x] # q /\ r[x] # n
          BY <1>1, <2>3, <3>2, <4>1, Spaces
        <5> QED
          BY <3>1, <3>3, <5>1, <5>2
      <4>2. CASE ~(x = a[q] /\ l[x] = q)
        <5>1. m[x] = l[x] /\ l[x] # N /\ l[x] # q /\ l[x] \in Cells /\ a[l[x]] = x
          BY <1>1, <3>2, <3>3, <4>2, Spaces
        <5>2. l[x] # n /\ l[x] # l[q] /\ l[x] # r[q] /\ x # N
          BY <1>1, <2>1, <5>1, Spaces
        <5>3. b[l[x]] = x /\ h[l[x]] = k[l[x]]
          BY <1>4, <1>5, <5>1, <5>2
        <5> QED
          BY <3>1, <3>2, <3>3, <5>1, <5>2, <5>3
      <4> QED
        BY <4>1, <4>2
    <3>5. s[x] # N => b[s[x]] = x /\ h[x] < h[s[x]]
      <4> SUFFICES ASSUME s[x] # N PROVE b[s[x]] = x /\ h[x] < h[s[x]]
        OBVIOUS
      <4>1. CASE x = a[q] /\ r[x] = q
        BY <1>1, <1>4, <1>5, <3>1, <3>2, <3>3, <4>1
      <4>2. CASE ~(x = a[q] /\ r[x] = q)
        <5>1. s[x] = r[x] /\ r[x] # N /\ r[x] # q /\ r[x] \in Cells /\ a[r[x]] = x
          BY <1>1, <3>2, <3>3, <4>2, Spaces
        <5>2. r[x] # n /\ r[x] # l[q] /\ r[x] # r[q] /\ x # N
          BY <1>1, <2>1, <5>1, Spaces
        <5>3. b[r[x]] = x /\ h[r[x]] = k[r[x]]
          BY <1>4, <1>5, <5>1, <5>2
        <5> QED
          BY <3>1, <3>2, <5>1, <5>3
      <4> QED
        BY <4>1, <4>2
    <3> DEFINE y == a[x]
    <3>6. CASE x = l[q] \/ x = r[q]
      <4>1. b[x] = n /\ n < N
        BY <1>1, <1>4, <3>6, Spaces
      <4>2. b[n] # N /\ (m[n] = x \/ s[n] = x)
        BY <1>1, <1>4, <3>6
      <4>3. ~(b[x] > N)
        BY <4>1, Spaces
      <4> QED
        BY <3>4, <3>5, <4>1, <4>2, <4>3
    <3>7. CASE ~(x = l[q] \/ x = r[q])
      <4>1. b[x] = y /\ y # q /\ y \in 0..N + LITERALS
        <5>1. b[x] = y
          BY <1>4, <2>1, <2>3, <3>7
        <5>2. y = q => l[q] = x \/ r[q] = x
          BY <1>1, <3>2, Spaces
        <5> QED
          BY <3>7, <5>1, <5>2 DEF Trees
      <4>2. y < N => b[y] # N /\ (m[y] = x \/ s[y] = x)
        <5> SUFFICES ASSUME y < N PROVE b[y] # N /\ (m[y] = x \/ s[y] = x)
          OBVIOUS
        <5>1. y \in Cells /\ a[y] # N /\ (l[y] = x \/ r[y] = x) /\ y # n
          BY <3>2, <4>1, Spaces
        <5> HIDE DEF y
        <5>2. b[y] # N
          BY <1>1, <1>4, <4>1, <5>1
        <5>3. m[y] = x \/ s[y] = x
          BY <2>1, <4>1, <5>1 DEF Replaced
        <5> QED
          BY <5>2, <5>3
      <4>3. y > N => s[y] = x
        <5> SUFFICES ASSUME y > N PROVE s[y] = x
          OBVIOUS
        <5>1. y \in Roots /\ r[y] = x
          BY <3>2, <4>1, Spaces
        <5> HIDE DEF y
        <5> QED
          BY <2>1, <5>1 DEF Replaced
      <4> QED
        BY <3>4, <3>5, <4>1, <4>2, <4>3
    <3> QED
      BY <3>6, <3>7
  <2> QED
    BY <2>2, <2>3
<1>10. Trees(b, m, s, h)
  BY <1>6, <1>7, <1>8, <1>9 DEF Trees
<1> QED
  BY <1>10

\* Node n becomes a leaf below y, where no child is.
HungUnder(a, l, r, y, right, n, b, m, s) ==
  /\ \A x \in Cells : /\ b[x] = IF x = n THEN y ELSE a[x]
                      /\ m[x] = IF x = n THEN N ELSE IF x = y /\ ~right THEN n ELSE l[x]
                      /\ s[x] = IF x = n THEN N ELSE IF x = y /\ right THEN n ELSE r[x]
  /\ \A x \in Roots : s[x] = IF x = y /\ right THEN n ELSE r[x]

LEMMA HungTrees ==
  ASSUME NEW a, NEW l, NEW r, NEW k, Trees(a, l, r, k), NEW n \in Cells, a[n] = N,
         NEW y, NEW right, (y \in Roots /\ right) \/ (y \in Cells /\ a[y] # N),
         right => r[y] = N, ~right => l[y] = N,
         NEW b, NEW m, NEW s, HungUnder(a, l, r, y, right, n, b, m, s)
  PROVE  \E h : Trees(b, m, s, h)
<1> DEFINE h == [x \in Cells |-> IF x = n THEN (IF y \in Cells THEN k[y] + 1 ELSE 0) ELSE k[x]]
<1>1. y \in 0..N + LITERALS /\ y # n /\ y # N /\ n # N /\ n \in 0..N
  BY Spaces DEF Trees
<1>2. \A x \in Cells : k[x] \in Int
  BY DEF Trees
<1>3. (y \in Cells => h[n] = k[y] + 1) /\ \A x \in Cells : x # n => h[x] = k[x]
  OBVIOUS
<1>4. \A x \in Cells : h[x] \in Int
  BY <1>2
<1> HIDE DEF h
<1>5. \A x \in Cells : b[x] \in 0..N + LITERALS /\ m[x] \in 0..N /\ s[x] \in 0..N
  BY <1>1, Spaces DEF Trees, HungUnder
<1>6. b[n] = y /\ m[n] = N /\ s[n] = N /\ \A x \in Cells : x # n => b[x] = a[x]
  BY DEF HungUnder
<1>7. ASSUME NEW x \in Roots PROVE s[x] \in 0..N /\ (s[x] # N => b[s[x]] = x)
  <2>1. r[x] \in 0..N /\ (r[x] # N => a[r[x]] = x /\ r[x] \in Cells) /\ x # N
    BY Spaces DEF Trees
  <2>2. s[x] = IF x = y /\ right THEN n ELSE r[x]
    BY DEF HungUnder
  <2> QED
    BY <1>1, <1>6, <2>1, <2>2
<1>8. ASSUME NEW x \in Cells, b[x] # N
      PROVE  /\ m[x] # N => b[m[x]] = x /\ h[x] < h[m[x]] /\ m[x] # s[x]
             /\ s[x] # N => b[s[x]] = x /\ h[x] < h[s[x]]
             /\ b[x] < N => b[b[x]] # N /\ (m[b[x]] = x \/ s[b[x]] = x)
             /\ b[x] > N => s[b[x]] = x
  <2>1. CASE x = n
    <3>1. b[x] = y /\ m[x] = N /\ s[x] = N
      BY <1>6, <2>1
    <3>2. y < N => b[y] # N /\ (m[y] = n \/ s[y] = n)
      <4> SUFFICES ASSUME y < N PROVE b[y] # N /\ (m[y] = n \/ s[y] = n)
        OBVIOUS
      <4>1. y \in Cells /\ a[y] # N
        BY <1>1, Spaces
      <4> QED
        BY <1>1, <1>6, <4>1 DEF HungUnder
    <3>3. y > N => s[y] = n
      <4>1. y > N => y \in Roots /\ right
        BY <1>1, Spaces
      <4> QED
        BY <4>1 DEF HungUnder
    <3> QED
      BY <2>1, <3>1, <3>2, <3>3
  <2>2. CASE x # n
    <3>1. b[x] = a[x] /\ a[x] # N /\ h[x] = k[x] /\ k[x] \in Int
      BY <1>2, <1>3, <1>6, <1>8, <2>2
    <3>2. /\ l[x] \in 0..N /\ r[x] \in 0..N /\ a[x] \in 0..N + LITERALS
          /\ l[x] # N => a[l[x]] = x /\ k[x] < k[l[x]] /\ l[x] # r[x]
          /\ r[x] # N => a[r[x]] = x /\ k[x] < k[r[x]]
          /\ a[x] < N => a[a[x]] # N /\ (l[a[x]] = x \/ r[a[x]] = x)
          /\ a[x] > N => r[a[x]] = x
      BY <3>1 DEF Trees
    <3>3. /\ m[x] = IF x = y /\ ~right THEN n ELSE l[x]
          /\ s[x] = IF x = y /\ right THEN n ELSE r[x]
      BY <2>2 DEF HungUnder
    <3>4. /\ l[x] # N => l[x] \in Cells /\ l[x] # n /\ b[l[x]] = x /\ h[l[x]] = k[l[x]]
          /\ r[x] # N => r[x] \in Cells /\ r[x] # n /\ b[r[x]] = x /\ h[r[x]] = k[r[x]]
      BY <1>3, <1>6, <3>2, Spaces
    <3>5. x = y => b[n] = x /\ h[x] < h[n]
      BY <1>3, <1>6, <3>1
    <3>6. /\ m[x] # N => b[m[x]] = x /\ h[x] < h[m[x]] /\ m[x] # s[x]
          /\ s[x] # N => b[s[x]] = x /\ h[x] < h[s[x]]
      BY <1>1, <3>1, <3>2, <3>3, <3>4, <3>5
    <3> DEFINE w == a[x]
    <3>7. w < N => b[w] # N /\ (m[w] = x \/ s[w] = x)
      <4> SUFFICES ASSUME w < N PROVE b[w] # N /\ (m[w] = x \/ s[w] = x)
        OBVIOUS
      <4>1. w \in Cells /\ a[w] # N /\ w # n /\ (l[w] = x \/ r[w] = x)
        BY <3>2, Spaces
      <4>2. x # N
        BY Spaces
      <4> HIDE DEF w
      <4> QED
        BY <1>6, <4>1, <4>2 DEF HungUnder
    <3>8. w > N => s[w] = x
      <4> SUFFICES ASSUME w > N PROVE s[w] = x
        OBVIOUS
      <4>1. w \in Roots /\ r[w] = x /\ x # N
        BY <3>2, Spaces
      <4> HIDE DEF w
      <4> QED
        BY <4>1 DEF HungUnder
    <3> QED
      BY <3>1, <3>6, <3>7, <3>8
  <2> QED
    BY <2>1, <2>2
<1>9. Trees(b, m, s, h)
  BY <1>4, <1>5, <1>7, <1>8 DEF Trees
<1> QED
  BY <1>9

(***************************************************************************)
(* All strings in a tree begin with the same symbol, which the root is of. *)
(***************************************************************************)
Heads(a, t) ==
  \A x \in Cells : a[x] # N => /\ a[x] < N => t[x] = t[a[x]]
                               /\ a[x] > N => a[x] = N + 1 + t[x]

LEMMA RemovedHeads ==
  ASSUME NEW a, NEW l, NEW r, NEW k, Trees(a, l, r, k), NEW t, Heads(a, t),
         NEW p \in Cells, a[p] # N, NEW c, (r[p] = N /\ c = l[p]) \/ (l[p] = N /\ c = r[p]),
         NEW b, NEW m, NEW s, Removed(a, l, r, p, c, b, m, s)
  PROVE  Heads(b, t)
<1>1. c # N => c \in Cells /\ a[c] = p /\ t[c] = t[p] /\ p < N
  BY Spaces DEF Trees, Heads
<1>2. \A x \in Cells : b[x] = IF x = p THEN N ELSE IF x = c THEN a[p] ELSE a[x]
  BY DEF Removed
<1>3. /\ a[p] < N => t[p] = t[a[p]]
      /\ a[p] > N => a[p] = N + 1 + t[p]
  BY DEF Heads
<1> QED
  BY <1>1, <1>2, <1>3, Spaces DEF Heads

LEMMA ReplacedHeads ==
  ASSUME NEW a, NEW l, NEW r, NEW k, Trees(a, l, r, k), NEW t, Heads(a, t),
         NEW q \in Cells, a[q] # N, NEW n \in Cells, a[n] = N, t[n] = t[q],
         NEW b, NEW m, NEW s, Replaced(a, l, r, q, n, b, m, s)
  PROVE  Heads(b, t)
<1>1. \A x \in Cells : x = l[q] \/ x = r[q] => a[x] = q /\ t[x] = t[q] /\ q < N
  BY Spaces DEF Trees, Heads
<1>2. \A x \in Cells : b[x] = IF x = q THEN N ELSE IF x = n THEN a[q]
                              ELSE IF x = l[q] \/ x = r[q] THEN n ELSE a[x]
  BY DEF Replaced
<1>3. /\ a[q] < N => t[q] = t[a[q]]
      /\ a[q] > N => a[q] = N + 1 + t[q]
  BY DEF Heads
<1> QED
  BY <1>1, <1>2, <1>3, Spaces DEF Heads

LEMMA HungHeads ==
  ASSUME NEW a, NEW t, Heads(a, t), NEW n \in Cells, NEW y,
         (y \in Roots /\ y = N + 1 + t[n]) \/ (y \in Cells /\ t[n] = t[y]),
         NEW b, \A x \in Cells : b[x] = IF x = n THEN y ELSE a[x]
  PROVE  Heads(b, t)
BY Spaces DEF Heads

(***************************************************************************)
(* The order of the strings in the search trees.                           *)
(***************************************************************************)
\* The string at x comes before the one at y.
Before(t, x, y) ==
  \E i \in 0..F - 1 : t[x + i] < t[y + i] /\ \A j \in 0..F - 1 : j < i => t[x + j] = t[y + j]

Same(t, x, y) == \A j \in 0..F - 1 : t[x + j] = t[y + j]

StrictOrder(t) ==
  /\ \A x \in Cells : ~Before(t, x, x)
  /\ \A x, y, z \in Cells : Before(t, x, y) /\ Before(t, y, z) => Before(t, x, z)

LEMMA TextAt ==
  ASSUME NEW d \in DictSet
  PROVE  /\ \A x \in 0..N + F - 1 : d.text[x] \in Codes
         /\ \A x \in Cells : d.text[x] \in Codes
<1>1. d.text \in Windows
  BY DictFields
<1>2. \A x \in Cells : x \in 0..N + F - 1
  BY Widths DEF Cells
<1> QED
  BY <1>1, <1>2 DEF Windows

LEMMA SymbolsAre ==
  ASSUME NEW d \in DictSet, NEW x \in Cells, NEW i \in 0..F - 1
  PROVE  d.text[x + i] \in Int
<1>1. x + i \in 0..N + F - 1
  BY Widths DEF Cells
<1>2. d.text[x + i] \in Codes
  BY <1>1, TextAt
<1> QED
  BY <1>2, Widths DEF Codes

LEMMA StringsOrdered ==
  ASSUME NEW d \in DictSet
  PROVE  StrictOrder(d.text)
<1> DEFINE t == d.text
<1>1. \A x \in Cells, i \in 0..F - 1 : t[x + i] \in Int
  BY SymbolsAre
<1> HIDE DEF t
<1>2. ASSUME NEW x \in Cells PROVE ~Before(t, x, x)
  <2>1. \A i \in 0..F - 1 : ~(t[x + i] < t[x + i])
    BY <1>1
  <2> QED
    BY <2>1 DEF Before
<1>3. ASSUME NEW x \in Cells, NEW y \in Cells, NEW z \in Cells, Before(t, x, y), Before(t, y, z)
      PROVE  Before(t, x, z)
  <2>1. PICK i \in 0..F - 1 : t[x + i] < t[y + i] /\ \A j \in 0..F - 1 : j < i => t[x + j] = t[y + j]
    BY <1>3 DEF Before
  <2>2. PICK k \in 0..F - 1 : t[y + k] < t[z + k] /\ \A j \in 0..F - 1 : j < k => t[y + j] = t[z + j]
    BY <1>3 DEF Before
  <2>3. /\ t[x + i] \in Int /\ t[y + i] \in Int /\ t[z + i] \in Int
        /\ t[x + k] \in Int /\ t[y + k] \in Int /\ t[z + k] \in Int
    BY <1>1
  <2>4. CASE i <= k
    <3>1. t[x + i] < t[z + i]
      <4>1. CASE i = k
        BY <2>1, <2>2, <2>3, <4>1
      <4>2. CASE i < k
        BY <2>1, <2>2, <2>3, <4>2
      <4> QED
        BY <2>4, <4>1, <4>2
    <3>2. \A j \in 0..F - 1 : j < i => t[x + j] = t[z + j]
      BY <2>1, <2>2, <2>4
    <3> QED
      BY <3>1, <3>2 DEF Before
  <2>5. CASE k < i
    <3>1. t[x + k] < t[z + k]
      BY <2>1, <2>2, <2>3, <2>5
    <3>2. \A j \in 0..F - 1 : j < k => t[x + j] = t[z + j]
      BY <2>1, <2>2, <2>5
    <3> QED
      BY <3>1, <3>2 DEF Before
  <2> QED
    BY <2>4, <2>5
<1> QED
  BY <1>2, <1>3 DEF StrictOrder, t

LEMMA SameOrder ==
  ASSUME NEW t, NEW x, NEW y, Same(t, x, y), NEW z
  PROVE  /\ Before(t, z, x) <=> Before(t, z, y)
         /\ Before(t, x, z) <=> Before(t, y, z)
BY DEF Same, Before

\* Two strings whose first symbol is the same, and where they part.
LEMMA CommonLess ==
  ASSUME NEW d, NEW r, NEW x, NEW i \in 1..F - 1, d.text[r + i] # d.text[x + i]
  PROVE  Common(d, r, x) <= i
<1> DEFINE S == {F} \cup {j \in 1..F - 1 : d.text[r + j] # d.text[x + j]}
<1>1. S \in SUBSET Nat /\ F \in S /\ i \in S
  BY Widths
<1>2. Common(d, r, x) = Min(S)
  BY DEF Common
<1> HIDE DEF S
<1> QED
  BY <1>1, <1>2, MinMember

LEMMA CommonAll ==
  ASSUME NEW d \in DictSet, NEW r \in Cells, NEW x \in Cells, d.text[r] = d.text[x], Common(d, r, x) = F
  PROVE  Same(d.text, r, x)
<1>1. \A i \in 1..F - 1 : i < Common(d, r, x) => d.text[r + i] = d.text[x + i]
  BY CommonType
<1> SUFFICES ASSUME NEW i \in 0..F - 1 PROVE d.text[r + i] = d.text[x + i]
  BY DEF Same
<1>2. CASE i = 0
  <2>1. r + i = r /\ x + i = x
    BY <1>2, Spaces
  <2> QED
    BY <2>1
<1>3. CASE i # 0
  <2>1. i \in 1..F - 1 /\ i < F
    BY <1>3, Widths
  <2> QED
    BY <1>1, <2>1
<1> QED
  BY <1>2, <1>3

LEMMA CommonOrder ==
  ASSUME NEW d \in DictSet, NEW r \in Cells, NEW x \in Cells, d.text[r] = d.text[x],
         Common(d, r, x) # F
  PROVE  LET i == Common(d, r, x)
         IN  IF d.text[r + i] >= d.text[x + i] THEN Before(d.text, x, r) ELSE Before(d.text, r, x)
<1> DEFINE i == Common(d, r, x)
           t == d.text
<1>1. i \in 1..F /\ i # F /\ F \in Nat
  BY CommonType, Widths
<1>2. \A j \in 1..F - 1 : j < i => t[r + j] = t[x + j]
  BY CommonType
<1>3. t[r + i] # t[x + i]
  <2>1. i < F
    BY <1>1
  <2> QED
    BY <2>1, CommonType
<1>0. t[r] = t[x]
  OBVIOUS
<1>7. \A y \in Cells, j \in 0..F - 1 : t[y + j] \in Int
  BY SymbolsAre
<1> HIDE DEF i, t
<1>4. i \in 0..F - 1
  BY <1>1
<1>5. \A j \in 0..F - 1 : j < i => t[r + j] = t[x + j]
  <2> SUFFICES ASSUME NEW j \in 0..F - 1, j < i PROVE t[r + j] = t[x + j]
    OBVIOUS
  <2>1. r + 0 = r /\ x + 0 = x
    BY Spaces
  <2>2. j = 0 \/ j \in 1..F - 1
    BY <1>1
  <2> QED
    BY <1>0, <1>2, <2>1, <2>2
<1>6. t[r + i] \in Int /\ t[x + i] \in Int
  BY <1>4, <1>7
<1>8. CASE t[r + i] >= t[x + i]
  <2>1. t[x + i] < t[r + i]
    BY <1>3, <1>6, <1>8
  <2>2. Before(t, x, r)
    BY <1>4, <1>5, <2>1 DEF Before
  <2> QED
    BY <1>8, <2>2 DEF i, t
<1>9. CASE ~(t[r + i] >= t[x + i])
  <2>1. t[r + i] < t[x + i]
    BY <1>6, <1>9
  <2>2. Before(t, r, x)
    BY <1>4, <1>5, <2>1 DEF Before
  <2> QED
    BY <1>9, <2>2 DEF i, t
<1> QED
  BY <1>8, <1>9 DEF i, t

\* What lies beyond the string at q has no more in common with the one at r.
LEMMA CommonBeyond ==
  ASSUME NEW d \in DictSet, NEW r \in Cells, NEW q \in Cells, NEW x \in Cells,
         d.text[r] = d.text[q], d.text[r] = d.text[x],
         \/ Before(d.text, x, q) /\ Before(d.text, q, r)
         \/ Before(d.text, r, q) /\ Before(d.text, q, x)
  PROVE  Common(d, r, x) <= Common(d, r, q)
<1> DEFINE i == Common(d, r, q)
           c == Common(d, r, x)
           t == d.text
<1>1. i \in 1..F /\ c \in 1..F /\ F \in Nat
  BY CommonType, Widths
<1>2. \A j \in 1..F - 1 : j < i => t[r + j] = t[q + j]
  BY CommonType
<1>3. \A j \in 1..F - 1 : t[r + j] # t[x + j] => c <= j
  BY CommonLess
<1>4. \A y \in Cells, j \in 0..F - 1 : t[y + j] \in Int
  BY SymbolsAre
<1>5. t[r] = t[q] /\ t[r] = t[x]
  OBVIOUS
<1>6. (Before(t, x, q) /\ Before(t, q, r)) \/ (Before(t, r, q) /\ Before(t, q, x))
  OBVIOUS
<1>7. i < F => t[r + i] # t[q + i]
  BY CommonType
<1> HIDE DEF i, c, t
<1>8. SUFFICES ASSUME i < F PROVE c <= i
  BY <1>1 DEF i, c
<1>9. i \in 0..F - 1 /\ i \in 1..F - 1 /\ t[r + i] # t[q + i]
  BY <1>1, <1>7, <1>8
<1>10. r + 0 = r /\ x + 0 = x /\ q + 0 = q
  BY Spaces
<1>11. t[r + i] \in Int /\ t[x + i] \in Int /\ t[q + i] \in Int
  BY <1>4, <1>9
<1>12. \A j \in 0..F - 1 : j < i => t[r + j] = t[q + j]
  <2> SUFFICES ASSUME NEW j \in 0..F - 1, j < i PROVE t[r + j] = t[q + j]
    OBVIOUS
  <2>1. j = 0 \/ j \in 1..F - 1
    OBVIOUS
  <2> QED
    BY <1>2, <1>5, <1>10, <2>1
<1>13. ASSUME NEW k \in 0..F - 1, t[x + k] # t[q + k], \A j \in 0..F - 1 : j < k => t[x + j] = t[q + j],
              t[r + i] # t[x + i] \/ k < i
       PROVE  c <= i
  <2>1. CASE k < i
    <3>1. k # 0
      BY <1>5, <1>10, <1>13
    <3>2. k \in 1..F - 1 /\ t[r + k] = t[q + k]
      BY <1>12, <2>1, <3>1
    <3>3. c <= k
      BY <1>3, <1>13, <3>2
    <3> QED
      BY <1>1, <2>1, <3>3
  <2>2. CASE ~(k < i)
    BY <1>3, <1>9, <1>13, <2>2
  <2> QED
    BY <2>1, <2>2
<1>14. CASE Before(t, x, q) /\ Before(t, q, r)
  <2>1. PICK k \in 0..F - 1 : t[x + k] < t[q + k] /\ \A j \in 0..F - 1 : j < k => t[x + j] = t[q + j]
    BY <1>14 DEF Before
  <2>2. PICK m \in 0..F - 1 : t[q + m] < t[r + m] /\ \A j \in 0..F - 1 : j < m => t[q + j] = t[r + j]
    BY <1>14 DEF Before
  <2>3. t[x + k] \in Int /\ t[q + k] \in Int /\ t[q + m] \in Int /\ t[r + m] \in Int
    BY <1>4
  <2>4. ~(i < m) /\ ~(m < i)
    BY <1>9, <1>12, <2>2, <2>3
  <2>5. m = i
    BY <1>1, <2>4
  <2>6. k < i \/ t[r + i] # t[x + i]
    <3>1. CASE k = i
      BY <1>11, <2>1, <2>2, <2>5, <3>1
    <3>2. CASE i < k
      <4>1. t[x + i] = t[q + i]
        BY <1>9, <2>1, <3>2
      <4> QED
        BY <1>9, <4>1
    <3> QED
      BY <1>1, <3>1, <3>2
  <2>7. t[x + k] # t[q + k]
    BY <2>1, <2>3
  <2> QED
    BY <1>13, <2>1, <2>6, <2>7
<1>15. CASE Before(t, r, q) /\ Before(t, q, x)
  <2>1. PICK k \in 0..F - 1 : t[q + k] < t[x + k] /\ \A j \in 0..F - 1 : j < k => t[q + j] = t[x + j]
    BY <1>15 DEF Before
  <2>2. PICK m \in 0..F - 1 : t[r + m] < t[q + m] /\ \A j \in 0..F - 1 : j < m => t[r + j] = t[q + j]
    BY <1>15 DEF Before
  <2>3. t[x + k] \in Int /\ t[q + k] \in Int /\ t[q + m] \in Int /\ t[r + m] \in Int
    BY <1>4
  <2>4. ~(i < m) /\ ~(m < i)
    BY <1>9, <1>12, <2>2, <2>3
  <2>5. m = i
    BY <1>1, <2>4
  <2>6. k < i \/ t[r + i] # t[x + i]
    <3>1. CASE k = i
      BY <1>11, <2>1, <2>2, <2>5, <3>1
    <3>2. CASE i < k
      <4>1. t[x + i] = t[q + i]
        BY <1>9, <2>1, <3>2
      <4> QED
        BY <1>9, <4>1
    <3> QED
      BY <1>1, <3>1, <3>2
  <2>7. t[x + k] # t[q + k] /\ \A j \in 0..F - 1 : j < k => t[x + j] = t[q + j]
    BY <2>1, <2>3
  <2> QED
    BY <1>13, <2>6, <2>7
<1> QED
  BY <1>6, <1>14, <1>15

(***************************************************************************)
(* The subtree of each node: what is left of the node comes before it,     *)
(* what is right of it after it, and all that begins with a symbol is in   *)
(* the tree of that symbol.                                                *)
(***************************************************************************)
Sorted(a, l, r, t, S) ==
  /\ S[N] = {}
  /\ \A x \in Cells : a[x] # N =>
       /\ S[x] = {x} \cup S[l[x]] \cup S[r[x]]
       /\ \A y \in S[x] : /\ y \in Cells /\ a[y] # N /\ S[y] \subseteq S[x]
                          /\ y # x => a[y] \in S[x]
       /\ \A y \in S[l[x]] : Before(t, y, x)
       /\ \A y \in S[r[x]] : Before(t, x, y)
       /\ x \in S[r[N + 1 + t[x]]]

\* A node with its parent and children, as the two say it.
LEMMA ChildOf ==
  ASSUME NEW a, NEW l, NEW r, NEW k, Trees(a, l, r, k), NEW p \in Cells, a[p] # N
  PROVE  /\ a[p] \in 0..N + LITERALS /\ l[p] \in 0..N /\ r[p] \in 0..N /\ a[p] # p
         /\ l[p] # N => l[p] \in Cells /\ a[l[p]] = p /\ l[p] # r[p] /\ l[p] # p
         /\ r[p] # N => r[p] \in Cells /\ a[r[p]] = p /\ r[p] # p
         /\ \A x \in Cells : a[x] # N /\ (l[x] = p \/ r[x] = p) => a[p] = x
         /\ \A x \in Roots : r[x] = p => a[p] = x
         /\ a[p] \in Cells => a[a[p]] # N /\ (l[a[p]] = p \/ r[a[p]] = p)
         /\ a[p] \in Roots => r[a[p]] = p
         /\ a[p] \in Cells \/ a[p] \in Roots
<1>1. p # N /\ k[p] \in Int /\ a[p] \in 0..N + LITERALS /\ l[p] \in 0..N /\ r[p] \in 0..N
  BY Spaces DEF Trees
<1>2. a[p] \in Cells \/ a[p] \in Roots
  BY <1>1, Spaces
<1>3. /\ l[p] # N => a[l[p]] = p /\ k[p] < k[l[p]] /\ l[p] # r[p]
      /\ r[p] # N => a[r[p]] = p /\ k[p] < k[r[p]]
      /\ a[p] < N => a[a[p]] # N /\ (l[a[p]] = p \/ r[a[p]] = p)
      /\ a[p] > N => r[a[p]] = p
  BY DEF Trees
<1>4. \A x \in Cells : a[x] # N /\ (l[x] = p \/ r[x] = p) => a[p] = x /\ k[x] < k[p]
  BY <1>1 DEF Trees
<1>5. \A x \in Roots : r[x] = p => a[p] = x
  BY <1>1 DEF Trees
<1>6. a[p] \in Cells => a[a[p]] # N /\ (l[a[p]] = p \/ r[a[p]] = p)
  BY <1>3, Spaces
<1>7. a[p] \in Roots => r[a[p]] = p
  BY <1>3, Spaces
<1>8. a[p] # p
  BY <1>1, <1>4, <1>6
<1>9. /\ l[p] # N => l[p] \in Cells /\ a[l[p]] = p /\ l[p] # r[p] /\ l[p] # p
      /\ r[p] # N => r[p] \in Cells /\ a[r[p]] = p /\ r[p] # p
  BY <1>1, <1>3, Spaces
<1> QED
  BY <1>1, <1>2, <1>4, <1>5, <1>6, <1>7, <1>8, <1>9

LEMMA RootOf ==
  ASSUME NEW d \in DictSet, NEW x \in Cells
  PROVE  N + 1 + d.text[x] \in Roots
<1> DEFINE c == d.text[x]
<1>1. c \in Codes
  BY TextAt
<1> HIDE DEF c
<1>2. N + 1 + c \in Roots
  BY <1>1, Widths DEF Codes, Roots
<1> QED
  BY <1>2 DEF c

\* The roots that strings are below.
Rooted(t) == \A x \in Cells : N + 1 + t[x] \in Roots

\* Below a node are the same nodes as before, without p.
Without(p, a, l, r, S, m, s, U) ==
  \A x \in Cells : a[x] # N => U[m[x]] = S[l[x]] \ {p} /\ U[s[x]] = S[r[x]] \ {p}

LEMMA RemovedSorted ==
  ASSUME NEW a, NEW l, NEW r, NEW k, Trees(a, l, r, k), NEW t, Rooted(t),
         NEW S, Sorted(a, l, r, t, S), NEW p \in Cells, a[p] # N,
         NEW c, (r[p] = N /\ c = l[p]) \/ (l[p] = N /\ c = r[p]),
         NEW b, NEW m, NEW s, Removed(a, l, r, p, c, b, m, s)
  PROVE  \E U : Sorted(b, m, s, t, U) /\ Without(p, a, l, r, S, m, s, U)
<1> DEFINE U == [x \in 0..N |-> S[x] \ {p}]
<1>1. /\ a[p] \in 0..N + LITERALS /\ l[p] \in 0..N /\ r[p] \in 0..N /\ a[p] # p
      /\ l[p] # N => l[p] \in Cells /\ a[l[p]] = p /\ l[p] # r[p] /\ l[p] # p
      /\ r[p] # N => r[p] \in Cells /\ a[r[p]] = p /\ r[p] # p
      /\ \A x \in Cells : a[x] # N /\ (l[x] = p \/ r[x] = p) => a[p] = x
      /\ \A x \in Roots : r[x] = p => a[p] = x
  BY ChildOf
<1>2. \A x \in 0..N : U[x] = S[x] \ {p}
  OBVIOUS
<1> HIDE DEF U
<1>3. c \in 0..N /\ p \in 0..N /\ N \in 0..N /\ p # N /\ S[N] = {}
  BY <1>1, Spaces DEF Sorted
<1>4. S[p] = {p} \cup S[c]
  <2>1. S[p] = {p} \cup S[l[p]] \cup S[r[p]]
    BY DEF Sorted
  <2> QED
    BY <1>3, <2>1
<1>5. U[c] = S[p] \ {p}
  BY <1>2, <1>3, <1>4
<1>6. \A x \in Cells : b[x] = IF x = p THEN N ELSE IF x = c THEN a[p] ELSE a[x]
  BY DEF Removed
<1>7. ASSUME NEW x \in Cells, a[x] # N
      PROVE  U[m[x]] = S[l[x]] \ {p} /\ U[s[x]] = S[r[x]] \ {p}
  <2>1. /\ m[x] = IF x = a[p] /\ l[x] = p THEN c ELSE l[x]
        /\ s[x] = IF x = a[p] /\ r[x] = p THEN c ELSE r[x]
    BY DEF Removed
  <2>2. l[x] \in 0..N /\ r[x] \in 0..N
    BY <1>7, ChildOf
  <2>3. l[x] = p \/ r[x] = p => x = a[p]
    BY <1>1, <1>7
  <2>4. U[m[x]] = S[l[x]] \ {p}
    BY <1>2, <1>5, <2>1, <2>2, <2>3
  <2>5. U[s[x]] = S[r[x]] \ {p}
    BY <1>2, <1>5, <2>1, <2>2, <2>3
  <2> QED
    BY <2>4, <2>5
<1>8. ASSUME NEW x \in Roots PROVE U[s[x]] = S[r[x]] \ {p}
  <2>1. s[x] = IF x = a[p] /\ r[x] = p THEN c ELSE r[x]
    BY DEF Removed
  <2>2. r[x] \in 0..N
    BY DEF Trees
  <2>3. r[x] = p => x = a[p]
    BY <1>1
  <2> QED
    BY <1>2, <1>5, <2>1, <2>2, <2>3
<1>9. ASSUME NEW x \in Cells, b[x] # N
      PROVE  /\ U[x] = {x} \cup U[m[x]] \cup U[s[x]]
             /\ \A y \in U[x] : /\ y \in Cells /\ b[y] # N /\ U[y] \subseteq U[x]
                                /\ y # x => b[y] \in U[x]
             /\ \A y \in U[m[x]] : Before(t, y, x)
             /\ \A y \in U[s[x]] : Before(t, x, y)
             /\ x \in U[s[N + 1 + t[x]]]
  <2>1. x # p /\ a[x] # N /\ x \in 0..N
    BY <1>1, <1>3, <1>6, <1>9, Spaces
  <2>2. /\ S[x] = {x} \cup S[l[x]] \cup S[r[x]]
        /\ \A y \in S[x] : /\ y \in Cells /\ a[y] # N /\ S[y] \subseteq S[x]
                           /\ y # x => a[y] \in S[x]
        /\ \A y \in S[l[x]] : Before(t, y, x)
        /\ \A y \in S[r[x]] : Before(t, x, y)
        /\ x \in S[r[N + 1 + t[x]]]
    BY <2>1 DEF Sorted
  <2>3. U[m[x]] = S[l[x]] \ {p} /\ U[s[x]] = S[r[x]] \ {p} /\ U[x] = S[x] \ {p}
    BY <1>2, <1>7, <2>1
  <2>4. x \in U[s[N + 1 + t[x]]]
    <3>1. N + 1 + t[x] \in Roots
      BY DEF Rooted
    <3>2. U[s[N + 1 + t[x]]] = S[r[N + 1 + t[x]]] \ {p}
      BY <1>8, <3>1
    <3> QED
      BY <2>1, <2>2, <3>2
  <2>5. ASSUME NEW y \in U[x]
        PROVE  /\ y \in Cells /\ b[y] # N /\ U[y] \subseteq U[x]
               /\ y # x => b[y] \in U[x]
    <3>1. y \in S[x] /\ y # p /\ y \in Cells /\ a[y] # N /\ S[y] \subseteq S[x] /\ y \in 0..N
      BY <2>2, <2>3, <2>5, Spaces
    <3>2. b[y] = IF y = c THEN a[p] ELSE a[y]
      BY <1>6, <3>1
    <3>3. y # x => b[y] \in U[x]
      <4> SUFFICES ASSUME y # x PROVE b[y] \in U[x]
        OBVIOUS
      <4>1. a[y] \in S[x]
        BY <2>2, <3>1
      <4>2. CASE y = c
        <5>1. a[y] = p
          BY <1>1, <1>3, <3>1, <4>2, Spaces
        <5>2. a[p] \in S[x]
          BY <2>1, <2>2, <4>1, <5>1
        <5> QED
          BY <1>1, <2>3, <3>2, <4>2, <5>2
      <4>3. CASE y # c
        <5>1. a[y] # p
          <6>1. a[y] = p => l[p] = y \/ r[p] = y
            BY <3>1, ChildOf
          <6> QED
            BY <1>3, <3>1, <4>3, <6>1, Spaces
        <5> QED
          BY <2>3, <3>2, <4>1, <4>3, <5>1
      <4> QED
        BY <4>2, <4>3
    <3>4. U[y] \subseteq U[x]
      BY <1>2, <2>3, <3>1
    <3> QED
      BY <3>1, <3>2, <3>3, <3>4
  <2>6. U[x] = {x} \cup U[m[x]] \cup U[s[x]]
    BY <2>1, <2>2, <2>3
  <2>7. \A y \in U[m[x]] : Before(t, y, x)
    BY <2>2, <2>3
  <2>8. \A y \in U[s[x]] : Before(t, x, y)
    BY <2>2, <2>3
  <2> QED
    BY <2>4, <2>5, <2>6, <2>7, <2>8
<1>10. U[N] = {}
  BY <1>2, <1>3
<1>11. Sorted(b, m, s, t, U)
  BY <1>9, <1>10 DEF Sorted
<1> QED
  BY <1>7, <1>11 DEF Without

\* The subtrees when n stands where q did.
Standing(A, q, n) == IF q \in A THEN (A \ {q}) \cup {n} ELSE A

\* Where n may stand in place of q.
Fitting(a, l, r, t, S, q, n) ==
  /\ t[n] = t[q]
  /\ \A y \in S[l[q]] : Before(t, y, n)
  /\ \A y \in S[r[q]] : Before(t, n, y)
  /\ \A x \in Cells : a[x] # N =>
       /\ q \in S[l[x]] => Before(t, n, x)
       /\ q \in S[r[x]] => Before(t, x, n)

LEMMA ReplacedSorted ==
  ASSUME NEW a, NEW l, NEW r, NEW k, Trees(a, l, r, k), NEW t, Rooted(t), StrictOrder(t),
         NEW S, Sorted(a, l, r, t, S), NEW q \in Cells, a[q] # N, NEW n \in Cells, a[n] = N,
         Fitting(a, l, r, t, S, q, n),
         NEW b, NEW m, NEW s, Replaced(a, l, r, q, n, b, m, s)
  PROVE  \E U : Sorted(b, m, s, t, U)
<1> DEFINE U == [x \in 0..N |-> Standing(S[IF x = n THEN q ELSE x], q, n)]
           W(A) == Standing(A, q, n)
<1>1. /\ a[q] \in 0..N + LITERALS /\ l[q] \in 0..N /\ r[q] \in 0..N /\ a[q] # q
      /\ l[q] # N => l[q] \in Cells /\ a[l[q]] = q /\ l[q] # r[q] /\ l[q] # q
      /\ r[q] # N => r[q] \in Cells /\ a[r[q]] = q /\ r[q] # q
      /\ \A x \in Cells : a[x] # N /\ (l[x] = q \/ r[x] = q) => a[q] = x
      /\ \A x \in Roots : r[x] = q => a[q] = x
  BY ChildOf
<1>2. q \in 0..N /\ N \in 0..N /\ n \in 0..N /\ q # N /\ n # N /\ q # n
  BY Spaces
<1>3. U[n] = W(S[q]) /\ \A x \in 0..N : x # n => U[x] = W(S[x])
  BY <1>2
<1> HIDE DEF U
<1>4. /\ S[N] = {} /\ W({}) = {}
      /\ \A A, y : y \in W(A) <=> (y = n /\ q \in A) \/ (y \in A /\ y # q)
  BY <1>2 DEF Sorted, Standing
<1>5. \A A, B : A \subseteq B => W(A) \subseteq W(B)
  BY <1>4
<1>6. U[N] = {}
  BY <1>2, <1>3, <1>4
<1> HIDE DEF W
<1>7. \A x \in Cells : b[x] = IF x = q THEN N ELSE IF x = n THEN a[q]
                              ELSE IF x = l[q] \/ x = r[q] THEN n ELSE a[x]
  BY DEF Replaced
<1>8. ASSUME NEW x \in Cells, a[x] # N, x # q
      PROVE  U[m[x]] = W(S[l[x]]) /\ U[s[x]] = W(S[r[x]])
  <2>1. x # n
    BY <1>8
  <2>2. /\ m[x] = IF x = a[q] /\ l[x] = q THEN n ELSE l[x]
        /\ s[x] = IF x = a[q] /\ r[x] = q THEN n ELSE r[x]
    BY <1>8, <2>1 DEF Replaced
  <2>3. /\ l[x] \in 0..N /\ r[x] \in 0..N
        /\ l[x] # N => l[x] \in Cells /\ a[l[x]] = x
        /\ r[x] # N => r[x] \in Cells /\ a[r[x]] = x
    BY <1>8, ChildOf
  <2>4. l[x] # n /\ r[x] # n
    BY <1>2, <2>3, Spaces
  <2>5. l[x] = q \/ r[x] = q => x = a[q]
    BY <1>1, <1>8
  <2>6. U[m[x]] = W(S[l[x]])
    BY <1>3, <2>2, <2>3, <2>4, <2>5
  <2>7. U[s[x]] = W(S[r[x]])
    BY <1>3, <2>2, <2>3, <2>4, <2>5
  <2> QED
    BY <2>6, <2>7
<1>9. ASSUME NEW x \in Roots PROVE U[s[x]] = W(S[r[x]])
  <2>1. s[x] = IF x = a[q] /\ r[x] = q THEN n ELSE r[x]
    BY DEF Replaced
  <2>2. r[x] \in 0..N /\ (r[x] # N => a[r[x]] = x) /\ x # N
    BY Spaces DEF Trees
  <2>3. r[x] = q => x = a[q]
    BY <1>1
  <2>4. r[x] # n
    BY <1>2, <2>2
  <2> QED
    BY <1>3, <2>1, <2>2, <2>3, <2>4
<1>10. /\ S[q] = {q} \cup S[l[q]] \cup S[r[q]]
       /\ \A y \in S[q] : /\ y \in Cells /\ a[y] # N /\ S[y] \subseteq S[q]
                          /\ y # q => a[y] \in S[q]
       /\ \A y \in S[l[q]] : Before(t, y, q)
       /\ \A y \in S[r[q]] : Before(t, q, y)
       /\ q \in S[r[N + 1 + t[q]]]
  BY DEF Sorted
<1>11. q \notin S[l[q]] /\ q \notin S[r[q]] /\ q \in S[q]
  BY <1>10 DEF StrictOrder
<1>12. ASSUME NEW x \in Cells, NEW A, NEW y \in W(A), q \in A => n \in W(A),
              \A z \in A : z \in Cells /\ a[z] # N /\ S[z] \subseteq A
       PROVE  y \in Cells /\ b[y] # N /\ U[y] \subseteq W(A)
  <2>1. (y = n /\ q \in A) \/ (y \in A /\ y # q)
    BY <1>4
  <2>2. CASE y = n /\ q \in A
    <3>1. U[y] = W(S[q]) /\ S[q] \subseteq A
      BY <1>3, <1>12, <2>2
    <3>2. b[n] = a[q]
      BY <1>2, <1>7
    <3> QED
      BY <1>5, <2>2, <3>1, <3>2
  <2>3. CASE y \in A /\ y # q
    <3>1. y \in Cells /\ a[y] # N /\ S[y] \subseteq A /\ y \in 0..N /\ y # n
      BY <1>12, <2>3, Spaces
    <3>2. U[y] = W(S[y])
      BY <1>3, <3>1
    <3>3. b[y] # N
      BY <1>2, <1>7, <2>3, <3>1
    <3> QED
      BY <1>5, <3>1, <3>2, <3>3
  <2> QED
    BY <2>1, <2>2, <2>3
<1>13. ASSUME NEW x \in Cells, a[x] # N, x # q
       PROVE  /\ U[x] = {x} \cup U[m[x]] \cup U[s[x]]
              /\ \A y \in U[x] : /\ y \in Cells /\ b[y] # N /\ U[y] \subseteq U[x]
                                 /\ y # x => b[y] \in U[x]
              /\ \A y \in U[m[x]] : Before(t, y, x)
              /\ \A y \in U[s[x]] : Before(t, x, y)
              /\ x \in U[s[N + 1 + t[x]]]
  <2>1. x # n /\ x \in 0..N
    BY <1>13, Spaces
  <2>2. /\ S[x] = {x} \cup S[l[x]] \cup S[r[x]]
        /\ \A y \in S[x] : /\ y \in Cells /\ a[y] # N /\ S[y] \subseteq S[x]
                           /\ y # x => a[y] \in S[x]
        /\ \A y \in S[l[x]] : Before(t, y, x)
        /\ \A y \in S[r[x]] : Before(t, x, y)
        /\ x \in S[r[N + 1 + t[x]]]
    BY <1>13 DEF Sorted
  <2>3. U[m[x]] = W(S[l[x]]) /\ U[s[x]] = W(S[r[x]]) /\ U[x] = W(S[x])
    BY <1>3, <1>8, <1>13, <2>1
  <2>4. U[x] = {x} \cup U[m[x]] \cup U[s[x]]
    <3>1. \A y : y \in W(S[x]) <=> y = x \/ y \in W(S[l[x]]) \/ y \in W(S[r[x]])
      BY <1>4, <1>13, <2>1, <2>2
    <3> QED
      BY <2>3, <3>1
  <2>5. \A y \in U[m[x]] : Before(t, y, x)
    BY <1>4, <1>13, <2>2, <2>3 DEF Fitting
  <2>6. \A y \in U[s[x]] : Before(t, x, y)
    BY <1>4, <1>13, <2>2, <2>3 DEF Fitting
  <2>7. x \in U[s[N + 1 + t[x]]]
    <3>1. N + 1 + t[x] \in Roots
      BY DEF Rooted
    <3>2. U[s[N + 1 + t[x]]] = W(S[r[N + 1 + t[x]]])
      BY <1>9, <3>1
    <3> QED
      BY <1>4, <1>13, <2>2, <3>2
  <2>8. ASSUME NEW y \in U[x]
        PROVE  y \in Cells /\ b[y] # N /\ U[y] \subseteq U[x] /\ (y # x => b[y] \in U[x])
    <3>1. y \in Cells /\ b[y] # N /\ U[y] \subseteq W(S[x])
      BY <1>4, <1>12, <2>2, <2>3, <2>8
    <3>2. (y = n /\ q \in S[x]) \/ (y \in S[x] /\ y # q)
      BY <1>4, <2>3, <2>8
    <3>3. CASE y = n /\ q \in S[x]
      <4>1. b[y] = a[q] /\ a[q] \in S[x]
        BY <1>2, <1>7, <1>13, <2>2, <3>3
      <4> QED
        BY <1>1, <1>4, <2>3, <3>1, <4>1
    <3>4. CASE y \in S[x] /\ y # q /\ y # x
      <4>1. a[y] \in S[x] /\ a[y] # N /\ y # n
        BY <2>2, <3>4
      <4>2. CASE y = l[q] \/ y = r[q]
        <5>1. a[y] = q
          BY <1>1, <3>1, <4>2, Spaces
        <5>2. b[y] = n
          BY <1>7, <3>1, <3>4, <4>1, <4>2
        <5> QED
          BY <1>4, <2>3, <3>1, <4>1, <5>1, <5>2
      <4>3. CASE ~(y = l[q] \/ y = r[q])
        <5>1. b[y] = a[y]
          BY <1>7, <3>1, <3>4, <4>1, <4>3
        <5>2. a[y] # q
          <6>1. a[y] \in Cells => l[a[y]] = y \/ r[a[y]] = y
            BY <3>1, <4>1, ChildOf
          <6> QED
            BY <4>3, <6>1
        <5> QED
          BY <1>4, <2>3, <3>1, <4>1, <5>1, <5>2
      <4> QED
        BY <4>2, <4>3
    <3> QED
      BY <2>3, <3>1, <3>2, <3>3, <3>4
  <2> QED
    BY <2>4, <2>5, <2>6, <2>7, <2>8
<1>14. m[n] = l[q] /\ s[n] = r[q]
  BY <1>2 DEF Replaced
<1>15. U[l[q]] = S[l[q]] /\ U[r[q]] = S[r[q]]
  <2>1. l[q] # n /\ r[q] # n
    BY <1>1, <1>2
  <2>2. U[l[q]] = W(S[l[q]]) /\ U[r[q]] = W(S[r[q]])
    BY <1>1, <1>3, <2>1
  <2>3. W(S[l[q]]) = S[l[q]] /\ W(S[r[q]]) = S[r[q]]
    BY <1>11 DEF W, Standing
  <2> QED
    BY <2>2, <2>3
<1>16. /\ U[n] = {n} \cup U[m[n]] \cup U[s[n]]
       /\ \A y \in U[n] : /\ y \in Cells /\ b[y] # N /\ U[y] \subseteq U[n]
                          /\ y # n => b[y] \in U[n]
       /\ \A y \in U[m[n]] : Before(t, y, n)
       /\ \A y \in U[s[n]] : Before(t, n, y)
       /\ n \in U[s[N + 1 + t[n]]]
  <2>1. U[n] = {n} \cup U[m[n]] \cup U[s[n]]
    <3>1. \A y : y \in W(S[q]) <=> y = n \/ y \in S[l[q]] \/ y \in S[r[q]]
      BY <1>4, <1>10, <1>11
    <3> QED
      BY <1>3, <1>14, <1>15, <3>1
  <2>2. \A y \in U[m[n]] : Before(t, y, n)
    BY <1>14, <1>15 DEF Fitting
  <2>3. \A y \in U[s[n]] : Before(t, n, y)
    BY <1>14, <1>15 DEF Fitting
  <2>4. n \in U[s[N + 1 + t[n]]]
    <3>1. N + 1 + t[n] \in Roots /\ t[n] = t[q]
      BY DEF Rooted, Fitting
    <3>2. U[s[N + 1 + t[n]]] = W(S[r[N + 1 + t[n]]])
      BY <1>9, <3>1
    <3> QED
      BY <1>4, <1>10, <3>1, <3>2
  <2>5. ASSUME NEW y \in U[n]
        PROVE  y \in Cells /\ b[y] # N /\ U[y] \subseteq U[n] /\ (y # n => b[y] \in U[n])
    <3>1. y \in Cells /\ b[y] # N /\ U[y] \subseteq U[n]
      BY <1>3, <1>4, <1>10, <1>12, <2>5
    <3>2. (y = n /\ q \in S[q]) \/ (y \in S[q] /\ y # q)
      BY <1>3, <1>4, <2>5
    <3>3. CASE y \in S[q] /\ y # q
      <4>1. a[y] \in S[q] /\ a[y] # N /\ y # n
        BY <1>10, <3>3
      <4>2. CASE y = l[q] \/ y = r[q]
        <5>1. b[y] = n
          BY <1>7, <3>1, <3>3, <4>1, <4>2
        <5> QED
          BY <1>3, <1>4, <1>11, <3>1, <5>1
      <4>3. CASE ~(y = l[q] \/ y = r[q])
        <5>1. b[y] = a[y]
          BY <1>7, <3>1, <3>3, <4>1, <4>3
        <5>2. a[y] # q
          <6>1. a[y] \in Cells => l[a[y]] = y \/ r[a[y]] = y
            BY <3>1, <4>1, ChildOf
          <6> QED
            BY <4>3, <6>1
        <5> QED
          BY <1>3, <1>4, <3>1, <4>1, <5>1, <5>2
      <4> QED
        BY <4>2, <4>3
    <3> QED
      BY <3>1, <3>2, <3>3
  <2> QED
    BY <2>1, <2>2, <2>3, <2>4, <2>5
<1>17. \A x \in Cells : b[x] # N => x # q /\ (x = n \/ a[x] # N)
  BY <1>1, <1>7, Spaces
<1>18. Sorted(b, m, s, t, U)
  BY <1>6, <1>13, <1>16, <1>17 DEF Sorted
<1> QED
  BY <1>18

\* Where n may become a child of y.
Placed(a, l, r, t, S, y, right, n) ==
  /\ \/ y \in Roots /\ right /\ y = N + 1 + t[n]
     \/ /\ y \in Cells /\ a[y] # N /\ t[n] = t[y]
        /\ right => Before(t, y, n)
        /\ ~right => Before(t, n, y)
  /\ \A x \in Cells : a[x] # N =>
       /\ y \in S[l[x]] => Before(t, n, x)
       /\ y \in S[r[x]] => Before(t, x, n)

LEMMA HungSorted ==
  ASSUME NEW a, NEW l, NEW r, NEW k, Trees(a, l, r, k), NEW t, Rooted(t),
         NEW S, Sorted(a, l, r, t, S), NEW n \in Cells, a[n] = N,
         NEW y, NEW right, Placed(a, l, r, t, S, y, right, n),
         right => r[y] = N, ~right => l[y] = N,
         NEW b, NEW m, NEW s, HungUnder(a, l, r, y, right, n, b, m, s)
  PROVE  \E U : Sorted(b, m, s, t, U)
<1> DEFINE W(A) == IF y \in A THEN A \cup {n} ELSE A
           U == [x \in 0..N |-> IF x = n THEN {n} ELSE W(S[x])]
<1>1. n \in 0..N /\ N \in 0..N /\ n # N /\ y # n /\ y # N /\ (y \in Roots \/ y \in Cells)
      /\ (y \in Roots => right)
  BY Spaces DEF Placed
<1>2. U[n] = {n} /\ \A x \in 0..N : x # n => U[x] = W(S[x])
  BY <1>1
<1> HIDE DEF U
<1>3. S[N] = {} /\ W({}) = {} /\ \A A, x : x \in W(A) <=> x \in A \/ (x = n /\ y \in A)
  BY DEF Sorted
<1>4. U[N] = {}
  BY <1>1, <1>2, <1>3
<1> HIDE DEF W
<1>5. /\ \A x \in Cells : /\ b[x] = IF x = n THEN y ELSE a[x]
                          /\ m[x] = IF x = n THEN N ELSE IF x = y /\ ~right THEN n ELSE l[x]
                          /\ s[x] = IF x = n THEN N ELSE IF x = y /\ right THEN n ELSE r[x]
      /\ \A x \in Roots : s[x] = IF x = y /\ right THEN n ELSE r[x]
  BY DEF HungUnder
<1>6. ASSUME NEW x \in Cells, a[x] # N
      PROVE  /\ U[m[x]] = IF x = y /\ ~right THEN {n} ELSE W(S[l[x]])
             /\ U[s[x]] = IF x = y /\ right THEN {n} ELSE W(S[r[x]])
  <2>1. /\ l[x] \in 0..N /\ r[x] \in 0..N
        /\ l[x] # N => l[x] \in Cells /\ a[l[x]] = x
        /\ r[x] # N => r[x] \in Cells /\ a[r[x]] = x
    BY <1>6, ChildOf
  <2>2. l[x] # n /\ r[x] # n /\ x # n /\ x # N
    BY <1>1, <1>6, <2>1, Spaces
  <2>3. /\ m[x] = IF x = y /\ ~right THEN n ELSE l[x]
        /\ s[x] = IF x = y /\ right THEN n ELSE r[x]
    BY <1>5, <2>2
  <2>4. U[m[x]] = IF x = y /\ ~right THEN {n} ELSE W(S[l[x]])
    BY <1>2, <2>1, <2>2, <2>3
  <2>5. U[s[x]] = IF x = y /\ right THEN {n} ELSE W(S[r[x]])
    BY <1>2, <2>1, <2>2, <2>3
  <2> QED
    BY <2>4, <2>5
<1>7. ASSUME NEW x \in Roots
      PROVE  U[s[x]] = IF x = y THEN {n} ELSE W(S[r[x]])
  <2>1. r[x] \in 0..N /\ (r[x] # N => a[r[x]] = x) /\ x # N
    BY Spaces DEF Trees
  <2>2. r[x] # n
    BY <1>1, <2>1
  <2>3. s[x] = IF x = y THEN n ELSE r[x]
    BY <1>1, <1>5
  <2> QED
    BY <1>2, <2>1, <2>2, <2>3
<1>8. ASSUME NEW x \in Cells, a[x] # N
      PROVE  /\ U[x] = {x} \cup U[m[x]] \cup U[s[x]]
             /\ \A z \in U[x] : /\ z \in Cells /\ b[z] # N /\ U[z] \subseteq U[x]
                                /\ z # x => b[z] \in U[x]
             /\ \A z \in U[m[x]] : Before(t, z, x)
             /\ \A z \in U[s[x]] : Before(t, x, z)
             /\ x \in U[s[N + 1 + t[x]]]
  <2>1. x # n /\ x \in 0..N /\ U[x] = W(S[x])
    BY <1>2, <1>8, Spaces
  <2>2. /\ S[x] = {x} \cup S[l[x]] \cup S[r[x]]
        /\ \A z \in S[x] : /\ z \in Cells /\ a[z] # N /\ S[z] \subseteq S[x]
                           /\ z # x => a[z] \in S[x]
        /\ \A z \in S[l[x]] : Before(t, z, x)
        /\ \A z \in S[r[x]] : Before(t, x, z)
        /\ x \in S[r[N + 1 + t[x]]]
    BY <1>8 DEF Sorted
  <2>3. /\ U[m[x]] = IF x = y /\ ~right THEN {n} ELSE W(S[l[x]])
        /\ U[s[x]] = IF x = y /\ right THEN {n} ELSE W(S[r[x]])
    BY <1>6, <1>8
  <2>4. /\ x = y /\ right => S[r[x]] = {} /\ Before(t, x, n)
        /\ x = y /\ ~right => S[l[x]] = {} /\ Before(t, n, x)
        /\ y \in S[l[x]] => Before(t, n, x)
        /\ y \in S[r[x]] => Before(t, x, n)
    <3>1. x = y => y \notin Roots
      BY Spaces
    <3>2. x = y => (right => Before(t, x, n)) /\ (~right => Before(t, n, x))
      BY <3>1 DEF Placed
    <3>3. (y \in S[l[x]] => Before(t, n, x)) /\ (y \in S[r[x]] => Before(t, x, n))
      BY <1>8 DEF Placed
    <3> QED
      BY <1>3, <3>2, <3>3
  <2>5. U[x] = {x} \cup U[m[x]] \cup U[s[x]]
    <3>1. \A z : z \in W(S[x]) <=> z = x \/ z \in U[m[x]] \/ z \in U[s[x]]
      <4>1. CASE x = y /\ right
        BY <1>3, <2>2, <2>3, <2>4, <4>1
      <4>2. CASE x = y /\ ~right
        BY <1>3, <2>2, <2>3, <2>4, <4>2
      <4>3. CASE x # y
        BY <1>3, <2>2, <2>3, <4>3
      <4> QED
        BY <4>1, <4>2, <4>3
    <3> QED
      BY <2>1, <3>1
  <2>6. \A z \in U[m[x]] : Before(t, z, x)
    BY <1>3, <2>2, <2>3, <2>4
  <2>7. \A z \in U[s[x]] : Before(t, x, z)
    BY <1>3, <2>2, <2>3, <2>4
  <2>8. x \in U[s[N + 1 + t[x]]]
    <3>1. N + 1 + t[x] \in Roots
      BY DEF Rooted
    <3>2. U[s[N + 1 + t[x]]] = IF N + 1 + t[x] = y THEN {n} ELSE W(S[r[N + 1 + t[x]]])
      BY <1>7, <3>1
    <3>3. N + 1 + t[x] # y
      BY <1>1, <1>3, <2>2, <3>1
    <3> QED
      BY <1>3, <2>2, <3>2, <3>3
  <2>9. ASSUME NEW z \in U[x]
        PROVE  z \in Cells /\ b[z] # N /\ U[z] \subseteq U[x] /\ (z # x => b[z] \in U[x])
    <3>1. z \in S[x] \/ (z = n /\ y \in S[x])
      BY <1>3, <2>1
    <3>2. CASE z = n /\ y \in S[x]
      <4>1. b[z] = y
        BY <1>5, <3>2
      <4> QED
        BY <1>1, <1>2, <1>3, <2>1, <3>2, <4>1
    <3>3. CASE z \in S[x]
      <4>1. z \in Cells /\ a[z] # N /\ S[z] \subseteq S[x] /\ z # n /\ z \in 0..N
        BY <2>2, <3>3, Spaces
      <4>2. b[z] = a[z] /\ U[z] = W(S[z])
        BY <1>2, <1>5, <4>1
      <4>3. U[z] \subseteq U[x]
        BY <1>3, <2>1, <4>1, <4>2
      <4> QED
        BY <1>3, <2>1, <2>2, <3>3, <4>1, <4>2, <4>3
    <3> QED
      BY <3>1, <3>2, <3>3
  <2> QED
    BY <2>5, <2>6, <2>7, <2>8, <2>9
<1>9. /\ b[n] = y /\ m[n] = N /\ s[n] = N /\ U[m[n]] = {} /\ U[s[n]] = {}
      /\ n \in U[s[N + 1 + t[n]]]
  <2>1. b[n] = y /\ m[n] = N /\ s[n] = N
    BY <1>5
  <2>2. N + 1 + t[n] \in Roots
    BY DEF Rooted
  <2>3. U[s[N + 1 + t[n]]] = IF N + 1 + t[n] = y THEN {n} ELSE W(S[r[N + 1 + t[n]]])
    BY <1>7, <2>2
  <2>4. N + 1 + t[n] # y => y \in S[r[N + 1 + t[n]]]
    <3>1. N + 1 + t[n] # y => y \in Cells /\ a[y] # N /\ t[n] = t[y]
      BY DEF Placed
    <3> QED
      BY <3>1 DEF Sorted
  <2> QED
    BY <1>3, <1>4, <2>1, <2>3, <2>4
<1>10. \A x \in Cells : b[x] # N => x = n \/ a[x] # N
  BY <1>5
<1>11. Sorted(b, m, s, t, U)
  BY <1>1, <1>2, <1>4, <1>8, <1>9, <1>10 DEF Sorted
<1> QED
  BY <1>11

\* A dictionary whose positions are in such trees, and those positions.
Planted(d) ==
  /\ Heads(d.dad, d.text)
  /\ \E k : Trees(d.dad, d.lson, d.rson, k)
  /\ \E S : Sorted(d.dad, d.lson, d.rson, d.text, S)
Live(d) == {x \in Cells : d.dad[x] # N}

LEMMA DictAt ==
  ASSUME NEW d \in DictSet
  PROVE  /\ \A x \in Cells : d.dad[x] \in 0..N + LITERALS /\ d.lson[x] \in 0..N
         /\ \A x \in 0..N + LITERALS : d.rson[x] \in 0..N
         /\ DOMAIN d.dad = 0..N /\ DOMAIN d.lson = 0..N /\ DOMAIN d.rson = 0..N + LITERALS
<1>1. /\ d.dad \in [0..N -> 0..N + LITERALS] /\ d.lson \in [0..N -> 0..N]
      /\ d.rson \in [0..N + LITERALS -> 0..N]
  BY DictFields
<1>2. \A x \in Cells : x \in 0..N
  BY Spaces
<1> QED
  BY <1>1, <1>2

LEMMA TextRooted ==
  ASSUME NEW d \in DictSet
  PROVE  Rooted(d.text)
BY RootOf DEF Rooted

\* The node of one child is taken out.
LEMMA InPlaceTrees ==
  ASSUME NEW d \in DictSet, Planted(d), NEW p \in Live(d), NEW c,
         (d.rson[p] = N /\ c = d.lson[p]) \/ (d.lson[p] = N /\ c = d.rson[p]),
         NEW e, IsInPlace(d, p, c, e)
  PROVE  Planted(e) /\ Live(e) = Live(d) \ {p}
<1> DEFINE a == d.dad
           l == d.lson
           r == d.rson
           b == e.dad
           m == e.lson
           s == e.rson
           y == d.dad[p]
           t == d.text
<1>0. Heads(a, t) /\ e.text = t /\ Rooted(t)
  BY TextRooted DEF Planted, IsInPlace
<1>5. PICK S : Sorted(a, l, r, t, S)
  BY DEF Planted
<1>1. /\ \A x \in Cells : a[x] \in 0..N + LITERALS /\ l[x] \in 0..N
      /\ \A x \in 0..N + LITERALS : r[x] \in 0..N
      /\ DOMAIN a = 0..N /\ DOMAIN l = 0..N /\ DOMAIN r = 0..N + LITERALS
  BY DictAt
<1>2. p \in Cells /\ y # N /\ y \in 0..N + LITERALS
  BY DictAt DEF Live
<1>3. PICK k : Trees(a, l, r, k)
  BY DEF Planted
<1>4. /\ b = [a EXCEPT ![c] = y, ![p] = N]
      /\ r[y] = p => s = [r EXCEPT ![y] = c] /\ m = l
      /\ r[y] # p => m = [l EXCEPT ![y] = c] /\ s = r
  BY DEF IsInPlace, NIL
<1> HIDE DEF a, l, r, b, m, s, t
<1>6. a[p] = y
  BY DEF a
<1>7. (y < N => y \in Cells /\ (l[y] = p \/ r[y] = p)) /\ (y > N => r[y] = p /\ y \in Roots)
  BY <1>2, <1>3, <1>6, Spaces DEF Trees
<1> HIDE DEF y
<1>8. \A x \in Cells : b[x] = IF x = p THEN N ELSE IF x = c THEN a[p] ELSE a[x]
  BY <1>1, <1>2, <1>4, <1>6, Spaces
<1>9. y \in Cells => ~(l[y] = p /\ r[y] = p)
  BY <1>2, <1>3, <1>6, <1>7, Spaces DEF Trees
<1>10. \A x \in Cells : /\ m[x] = IF x = a[p] /\ l[x] = p THEN c ELSE l[x]
                        /\ s[x] = IF x = a[p] /\ r[x] = p THEN c ELSE r[x]
  <2>1. CASE r[y] = p
    BY <1>1, <1>4, <1>6, <1>9, <2>1, Spaces
  <2>2. CASE r[y] # p
    BY <1>1, <1>2, <1>4, <1>6, <1>7, <2>2, Spaces
  <2> QED
    BY <2>1, <2>2
<1>11. \A x \in Roots : s[x] = IF x = a[p] /\ r[x] = p THEN c ELSE r[x]
  BY <1>1, <1>4, <1>6, Spaces
<1>12. Removed(a, l, r, p, c, b, m, s)
  BY <1>8, <1>10, <1>11 DEF Removed
<1>13. (r[p] = N /\ c = l[p]) \/ (l[p] = N /\ c = r[p])
  BY DEF l, r
<1>14. Trees(b, m, s, k)
  BY <1>2, <1>3, <1>6, <1>12, <1>13, RemovedTrees
<1>17. Heads(b, t)
  BY <1>0, <1>2, <1>3, <1>6, <1>12, <1>13, RemovedHeads
<1>15. c # N => a[c] # N
  BY <1>2, <1>3, <1>6, <1>13, Spaces DEF Trees
<1>16. \A x \in Cells : b[x] # N <=> a[x] # N /\ x # p
  BY <1>2, <1>6, <1>8, <1>15, Spaces
<1>18. \E U : Sorted(b, m, s, t, U)
  BY <1>0, <1>2, <1>3, <1>5, <1>6, <1>12, <1>13, RemovedSorted
<1> QED
  BY <1>0, <1>14, <1>16, <1>17, <1>18 DEF Planted, Live, a, b, m, s

\* A node comes in another's place.
LEMMA ReplacedIs ==
  ASSUME NEW d \in DictSet, Planted(d), NEW q \in Live(d), NEW n \in Cells, n \notin Live(d),
         NEW S, Sorted(d.dad, d.lson, d.rson, d.text, S),
         Fitting(d.dad, d.lson, d.rson, d.text, S, q, n), NEW e \in DictSet, e.text = d.text,
         Replaced(d.dad, d.lson, d.rson, q, n, e.dad, e.lson, e.rson)
  PROVE  Planted(e) /\ Live(e) = (Live(d) \ {q}) \cup {n}
<1> DEFINE a == d.dad
           l == d.lson
           r == d.rson
           b == e.dad
           m == e.lson
           s == e.rson
           t == d.text
<1>0. Heads(a, t) /\ e.text = t /\ t[n] = t[q] /\ Rooted(t) /\ StrictOrder(t)
  BY TextRooted, StringsOrdered DEF Planted, Fitting
<1>1. q \in Cells /\ a[q] # N /\ a[n] = N
  BY DEF Live
<1>2. PICK k : Trees(a, l, r, k)
  BY DEF Planted
<1>3. Replaced(a, l, r, q, n, b, m, s) /\ Sorted(a, l, r, t, S) /\ Fitting(a, l, r, t, S, q, n)
  OBVIOUS
<1> HIDE DEF a, l, r, b, m, s, t
<1>4. \E h : Trees(b, m, s, h)
  BY <1>1, <1>2, <1>3, ReplacedTrees
<1>6. Heads(b, t)
  BY <1>0, <1>1, <1>2, <1>3, ReplacedHeads
<1>5. \A x \in Cells : b[x] # N <=> x # q /\ (a[x] # N \/ x = n)
  <2>1. \A x \in Cells : b[x] = IF x = q THEN N ELSE IF x = n THEN a[q]
                                ELSE IF x = l[q] \/ x = r[q] THEN n ELSE a[x]
    BY <1>3 DEF Replaced
  <2>2. \A x \in Cells : x = l[q] \/ x = r[q] => a[x] # N
    BY <1>1, <1>2, Spaces DEF Trees
  <2> QED
    BY <1>1, <2>1, <2>2, Spaces
<1>7. \E U : Sorted(b, m, s, t, U)
  BY <1>0, <1>1, <1>2, <1>3, ReplacedSorted
<1> QED
  BY <1>0, <1>1, <1>4, <1>5, <1>6, <1>7 DEF Planted, Live, a, b, m, s

\* A node becomes a leaf.
LEMMA HungUnderIs ==
  ASSUME NEW d \in DictSet, Planted(d), NEW n \in Cells, n \notin Live(d),
         NEW S, Sorted(d.dad, d.lson, d.rson, d.text, S),
         NEW y, NEW right, Placed(d.dad, d.lson, d.rson, d.text, S, y, right, n),
         right => d.rson[y] = N, ~right => d.lson[y] = N,
         NEW e \in DictSet, e.text = d.text,
         HungUnder(d.dad, d.lson, d.rson, y, right, n, e.dad, e.lson, e.rson)
  PROVE  Planted(e) /\ Live(e) = Live(d) \cup {n}
<1> DEFINE a == d.dad
           l == d.lson
           r == d.rson
           b == e.dad
           m == e.lson
           s == e.rson
           t == d.text
<1>0. /\ Heads(a, t) /\ e.text = t /\ Rooted(t)
      /\ (y \in Roots /\ y = N + 1 + t[n]) \/ (y \in Cells /\ t[n] = t[y])
  BY TextRooted DEF Planted, Placed
<1>1. /\ a[n] = N /\ ((y \in Roots /\ right) \/ (y \in Cells /\ a[y] # N))
      /\ (right => r[y] = N) /\ (~right => l[y] = N)
  BY DEF Live, Placed
<1>2. PICK k : Trees(a, l, r, k)
  BY DEF Planted
<1>3. /\ HungUnder(a, l, r, y, right, n, b, m, s) /\ Sorted(a, l, r, t, S)
      /\ Placed(a, l, r, t, S, y, right, n)
  OBVIOUS
<1> HIDE DEF a, l, r, b, m, s, t
<1>4. \E h : Trees(b, m, s, h)
  BY <1>1, <1>2, <1>3, HungTrees
<1>5. \A x \in Cells : b[x] # N <=> a[x] # N \/ x = n
  <2>1. \A x \in Cells : b[x] = IF x = n THEN y ELSE a[x]
    BY <1>3 DEF HungUnder
  <2>2. y # N
    BY <1>1, Spaces
  <2> QED
    BY <1>1, <2>1, <2>2
<1>6. Heads(b, t)
  <2>1. \A x \in Cells : b[x] = IF x = n THEN y ELSE a[x]
    BY <1>3 DEF HungUnder
  <2> QED
    BY <1>0, <2>1, HungHeads
<1>7. \E U : Sorted(b, m, s, t, U)
  BY <1>0, <1>1, <1>2, <1>3, HungSorted
<1> QED
  BY <1>0, <1>4, <1>5, <1>6, <1>7 DEF Planted, Live, a, b, m, s

\* Where the way to the right from node z may be: nowhere above z, and a right child
\* when it is not z.  What it has left behind of z's subtree is before it.
OnTheRight(a, l, r, t, k, S, z, x) ==
  /\ x \in Cells /\ a[x] # N /\ k[z] <= k[x] /\ t[x] = t[z]
  /\ x \in S[z] /\ \A y \in S[z] : y \in S[x] \/ Before(t, y, x)
  /\ x # z => a[x] \in Cells /\ a[a[x]] # N /\ r[a[x]] = x /\ k[z] <= k[a[x]]

LEMMA NoLongerWay ==
  ASSUME NEW w, \A j \in 0..N : w[j] \in Cells
  PROVE  \E i, j \in 0..N : i # j /\ w[i] = w[j]
<1> DEFINE S == 0..N
           f == [j \in S |-> w[j]]
           n == N
<1>1. n \in Nat /\ 0 \in Int /\ n - 1 \in Int /\ n \in Int
  BY Spaces
<1>2. IsFiniteSet(S) /\ Cardinality(S) = n + 1
  BY <1>1, FS_Interval
<1>3. IsFiniteSet(Cells) /\ Cardinality(Cells) = n
  <2>1. IsFiniteSet(0..n - 1) /\ Cardinality(0..n - 1) = IF 0 > n - 1 THEN 0 ELSE (n - 1) - 0 + 1
    BY <1>1, FS_Interval
  <2>2. n > 1
    BY Spaces
  <2> QED
    BY <1>1, <2>1, <2>2 DEF Cells
<1>4. f \in [S -> Cells]
  OBVIOUS
<1>5. \A j \in S : f[j] = w[j]
  OBVIOUS
<1>6. n < n + 1
  BY <1>1
<1> HIDE DEF S, f, n
<1>7. Cardinality(Cells) < Cardinality(S)
  BY <1>2, <1>3, <1>6
<1>8. \E x, y \in S : x # y /\ f[x] = f[y]
  BY <1>2, <1>3, <1>4, <1>7, FS_PigeonHole
<1> QED
  BY <1>5, <1>8 DEF S

\* There is no way down through N + 1 nodes.
LEMMA NoDescent ==
  ASSUME NEW w, NEW k, \A j \in 0..N : w[j] \in Cells /\ k[w[j]] \in Int,
         \A j \in Nat : j < N => k[w[j]] < k[w[j + 1]]
  PROVE  FALSE
<1> DEFINE V(i) == {m \in Nat : i + m < N => k[w[i]] < k[w[i + (m + 1)]]}
<1>1. ASSUME NEW i \in Nat PROVE Nat \subseteq V(i)
  <2>1. 0 \in V(i)
    OBVIOUS
  <2>2. ASSUME NEW m \in Nat, m \in V(i) PROVE m + 1 \in V(i)
    <3> SUFFICES ASSUME i + (m + 1) < N PROVE k[w[i]] < k[w[i + ((m + 1) + 1)]]
      OBVIOUS
    <3>1. /\ i + (m + 1) \in Nat /\ (i + (m + 1)) + 1 = i + ((m + 1) + 1) /\ i + m < N
          /\ i \in 0..N /\ i + (m + 1) \in 0..N /\ i + ((m + 1) + 1) \in 0..N
      BY Spaces
    <3>2. k[w[i]] < k[w[i + (m + 1)]]
      BY <2>2, <3>1
    <3>3. k[w[i + (m + 1)]] < k[w[i + ((m + 1) + 1)]]
      BY <3>1
    <3>4. k[w[i]] \in Int /\ k[w[i + (m + 1)]] \in Int /\ k[w[i + ((m + 1) + 1)]] \in Int
      BY <3>1
    <3> QED
      BY <3>2, <3>3, <3>4
  <2> HIDE DEF V
  <2> QED
    BY <2>1, <2>2, NatInd
<1>2. ASSUME NEW i \in 0..N, NEW j \in 0..N, i < j PROVE w[i] # w[j]
  <2>1. i \in Nat /\ (j - i) - 1 \in Nat /\ i + ((j - i) - 1) < N /\ i + (((j - i) - 1) + 1) = j
    BY <1>2, Spaces
  <2>2. (j - i) - 1 \in V(i)
    BY <1>1, <2>1
  <2>3. k[w[i]] < k[w[j]]
    BY <2>1, <2>2
  <2>4. k[w[i]] \in Int
    OBVIOUS
  <2> QED
    BY <2>3, <2>4
<1>3. PICK i \in 0..N, j \in 0..N : i # j /\ w[i] = w[j]
  BY NoLongerWay
<1>4. i < j \/ j < i
  BY <1>3, Spaces
<1> QED
  BY <1>2, <1>3, <1>4

LEMMA RightmostEnds ==
  ASSUME NEW d \in DictSet, NEW k, Trees(d.dad, d.lson, d.rson, k),
         Heads(d.dad, d.text), NEW S, Sorted(d.dad, d.lson, d.rson, d.text, S), NEW z \in Live(d)
  PROVE  /\ OnTheRight(d.dad, d.lson, d.rson, d.text, k, S, z, Rightmost(d, z))
         /\ d.rson[Rightmost(d, z)] = N
<1> DEFINE a == d.dad
           l == d.lson
           r == d.rson
           t == d.text
           w == RightLoop(d, z)
           Q == {j \in Nat : j <= N => OnTheRight(a, l, r, t, k, S, z, w[j])}
<1>1. w[0] = z /\ \A j \in Nat : j < N => w[j + 1] = IF r[w[j]] = N THEN w[j] ELSE r[w[j]]
  BY Spaces, RightLoopDef DEF RightStep, NIL
<1>2. Rightmost(d, z) = w[N]
  BY RightmostIs
<1>3. z \in Cells /\ a[z] # N
  BY DEF Live
<1>4. Trees(a, l, r, k) /\ Heads(a, t) /\ Sorted(a, l, r, t, S) /\ StrictOrder(t)
  BY StringsOrdered
<1> HIDE DEF a, l, r, t, w
<1>5. \A x \in Cells : k[x] \in Int
  BY <1>4 DEF Trees
<1>6. 0 \in Q
  BY <1>1, <1>3, <1>4, <1>5 DEF OnTheRight, Sorted
<1>7. ASSUME NEW x, OnTheRight(a, l, r, t, k, S, z, x), r[x] # N
      PROVE  OnTheRight(a, l, r, t, k, S, z, r[x]) /\ k[x] < k[r[x]]
  <2>1. x \in Cells /\ a[x] # N /\ k[z] <= k[x] /\ t[x] = t[z]
    BY <1>7 DEF OnTheRight
  <2>2. r[x] \in Cells /\ a[r[x]] = x /\ k[x] < k[r[x]]
    BY <1>4, <1>7, <2>1, Spaces DEF Trees
  <2>3. k[x] \in Int /\ k[z] \in Int /\ k[r[x]] \in Int /\ x # N
    BY <1>3, <1>5, <2>1, <2>2, Spaces
  <2>4. k[z] <= k[r[x]]
    BY <2>1, <2>2, <2>3
  <2>5. t[r[x]] = t[x]
    BY <1>4, <2>1, <2>2, <2>3, Spaces DEF Heads
  <2>6. /\ \A y \in S[r[x]] : Before(t, x, y)
        /\ \A y \in S[l[x]] : Before(t, y, x)
        /\ S[x] = {x} \cup S[l[x]] \cup S[r[x]] /\ S[x] \subseteq Cells
        /\ S[z] \subseteq Cells /\ \A y \in S[z] : S[y] \subseteq S[z]
    BY <1>3, <1>4, <2>1 DEF Sorted
  <2>7. r[x] \in S[r[x]]
    BY <1>4, <2>2, <2>3, Spaces DEF Sorted
  <2>8. x \in S[z] /\ \A y \in S[z] : y \in S[x] \/ Before(t, y, x)
    BY <1>7 DEF OnTheRight
  <2>9. Before(t, x, r[x]) /\ r[x] \in S[z]
    BY <2>6, <2>7, <2>8
  <2>10. ASSUME NEW y \in S[z] PROVE y \in S[r[x]] \/ Before(t, y, r[x])
    <3>1. y \in S[r[x]] \/ y = x \/ Before(t, y, x)
      BY <2>6, <2>8
    <3>2. Before(t, y, x) => Before(t, y, r[x])
      BY <1>4, <2>1, <2>2, <2>6, <2>9 DEF StrictOrder
    <3> QED
      BY <2>9, <3>1, <3>2
  <2> QED
    BY <2>1, <2>2, <2>3, <2>4, <2>5, <2>9, <2>10 DEF OnTheRight
<1>8. ASSUME NEW j \in Nat, j \in Q PROVE j + 1 \in Q
  <2> SUFFICES ASSUME j + 1 <= N PROVE OnTheRight(a, l, r, t, k, S, z, w[j + 1])
    OBVIOUS
  <2>1. j < N /\ j <= N
    BY Spaces
  <2>2. OnTheRight(a, l, r, t, k, S, z, w[j])
    BY <1>8, <2>1
  <2> QED
    BY <1>1, <1>7, <2>1, <2>2
<1>9. \A j \in 0..N : OnTheRight(a, l, r, t, k, S, z, w[j])
  <2>1. Nat \subseteq Q
    <3> HIDE DEF Q
    <3> QED
      BY <1>6, <1>8, NatInd
  <2> QED
    BY <2>1, Spaces
<1> HIDE DEF Q
<1>10. r[w[N]] = N
  <2> SUFFICES ASSUME r[w[N]] # N PROVE FALSE
    OBVIOUS
  <2> DEFINE U == {m \in Nat : m <= N => r[w[N - m]] # N}
  <2>1. 0 \in U
    BY Spaces
  <2>2. ASSUME NEW m \in Nat, m \in U PROVE m + 1 \in U
    <3> SUFFICES ASSUME m + 1 <= N, r[w[N - (m + 1)]] = N PROVE FALSE
      OBVIOUS
    <3>1. /\ N - (m + 1) \in Nat /\ N - (m + 1) < N /\ (N - (m + 1)) + 1 = N - m
          /\ m <= N
      BY Spaces
    <3>2. w[N - m] = w[N - (m + 1)]
      BY <1>1, <3>1
    <3>3. r[w[N - m]] # N
      BY <2>2, <3>1
    <3> QED
      BY <3>2, <3>3
  <2>3. \A j \in 0..N : r[w[j]] # N
    <3>1. Nat \subseteq U
      <4> HIDE DEF U
      <4> QED
        BY <2>1, <2>2, NatInd
    <3> SUFFICES ASSUME NEW j \in 0..N PROVE r[w[j]] # N
      OBVIOUS
    <3>2. N - j \in Nat /\ N - j <= N /\ N - (N - j) = j
      BY Spaces
    <3>3. N - j \in U
      BY <3>1, <3>2
    <3> QED
      BY <3>2, <3>3
  <2> HIDE DEF U
  <2>4. ASSUME NEW j \in Nat, j < N PROVE k[w[j]] < k[w[j + 1]]
    <3>1. j \in 0..N
      BY <2>4, Spaces
    <3>2. OnTheRight(a, l, r, t, k, S, z, w[j]) /\ r[w[j]] # N /\ w[j + 1] = r[w[j]]
      BY <1>1, <1>9, <2>3, <2>4, <3>1
    <3> QED
      BY <1>7, <3>2
  <2>5. \A j \in 0..N : w[j] \in Cells /\ k[w[j]] \in Int
    BY <1>5, <1>9 DEF OnTheRight
  <2> QED
    BY <2>4, <2>5, NoDescent
<1>11. N \in 0..N
  BY Spaces
<1> QED
  BY <1>2, <1>9, <1>10, <1>11 DEF a, l, r, t

\* Of a node with two children the last one to its left takes the place.
LEMMA SuccessorTrees ==
  ASSUME NEW d \in DictSet, Planted(d), NEW p \in Live(d), d.lson[p] # N, d.rson[p] # N,
         NEW e, IsDetached(d, p, Rightmost(d, d.lson[p]), e),
         NEW g, IsTakesRight(e, d, p, Rightmost(d, d.lson[p]), g),
         NEW f, IsInPlace(g, p, Rightmost(d, d.lson[p]), f)
  PROVE  Planted(f) /\ Live(f) = Live(d) \ {p}
<1> DEFINE a == d.dad
           l == d.lson
           r == d.rson
           t == d.text
           q == Rightmost(d, d.lson[p])
           b == [x \in Cells |-> IF x = q THEN N ELSE IF x = l[q] THEN a[q] ELSE a[x]]
           m == [x \in Cells |-> IF x = a[q] /\ l[x] = q THEN l[q] ELSE l[x]]
           s == [x \in 0..N + LITERALS |-> IF x = a[q] /\ r[x] = q THEN l[q] ELSE r[x]]
<1>0. Heads(a, t) /\ f.text = t /\ Rooted(t) /\ StrictOrder(t)
  BY TextRooted, StringsOrdered DEF Planted, IsDetached, IsTakesRight, IsInPlace
<1>9. PICK S : Sorted(a, l, r, t, S)
  BY DEF Planted
<1>1. PICK k : Trees(a, l, r, k)
  BY DEF Planted
<1>2. p \in Cells /\ a[p] # N /\ l[p] # N /\ r[p] # N
  BY DEF Live
<1>3. l[p] \in Cells /\ a[l[p]] = p /\ l[p] \in Live(d) /\ k[p] < k[l[p]] /\ r[p] \in Cells
      /\ a[r[p]] = p /\ k[p] < k[r[p]] /\ l[p] # r[p] /\ a[p] \in 0..N + LITERALS
  BY <1>1, <1>2, Spaces DEF Trees, Live
<1>4. /\ OnTheRight(a, l, r, t, k, S, l[p], q) /\ r[q] = N
  BY <1>0, <1>1, <1>3, <1>9, RightmostEnds
<1>5. /\ e \in DictSet
      /\ q = l[p] => e = d
      /\ q # l[p] => /\ e.rson = [r EXCEPT ![a[q]] = l[q]]
                     /\ e.dad = [a EXCEPT ![l[q]] = a[q], ![l[p]] = q]
                     /\ e.lson = [l EXCEPT ![q] = l[p]]
  BY DEF IsDetached
<1>6. /\ g \in DictSet /\ g.lson = e.lson /\ g.rson = [e.rson EXCEPT ![q] = r[p]]
      /\ g.dad = [e.dad EXCEPT ![r[p]] = q]
  BY DEF IsTakesRight
<1>7. /\ f \in DictSet /\ f.dad = [g.dad EXCEPT ![q] = g.dad[p], ![p] = N]
      /\ g.rson[g.dad[p]] = p => f.rson = [g.rson EXCEPT ![g.dad[p]] = q] /\ f.lson = g.lson
      /\ g.rson[g.dad[p]] # p => f.lson = [g.lson EXCEPT ![g.dad[p]] = q] /\ f.rson = g.rson
  BY DEF IsInPlace, NIL
<1>8. /\ \A x \in Cells : a[x] \in 0..N + LITERALS /\ l[x] \in 0..N
      /\ \A x \in 0..N + LITERALS : r[x] \in 0..N
      /\ DOMAIN a = 0..N /\ DOMAIN l = 0..N /\ DOMAIN r = 0..N + LITERALS
      /\ DOMAIN e.dad = 0..N /\ DOMAIN e.lson = 0..N /\ DOMAIN e.rson = 0..N + LITERALS
      /\ DOMAIN g.dad = 0..N /\ DOMAIN g.lson = 0..N /\ DOMAIN g.rson = 0..N + LITERALS
  BY <1>5, <1>6, DictAt
<1> DEFINE ea == e.dad
           el == e.lson
           er == e.rson
           ga == g.dad
           gl == g.lson
           gr == g.rson
           fa == f.dad
           fl == f.lson
           fr == f.rson
           z == l[p]
           y == r[p]
           u == l[q]
           v == a[q]
           o == a[p]
<1>10. /\ \A x \in Cells : b[x] = IF x = q THEN N ELSE IF x = u THEN v ELSE a[x]
       /\ \A x \in Cells : m[x] = IF x = v /\ l[x] = q THEN u ELSE l[x]
       /\ \A x \in 0..N + LITERALS : s[x] = IF x = v /\ r[x] = q THEN u ELSE r[x]
  OBVIOUS
<1>11. q \in Cells /\ v # N /\ k[z] <= k[q] /\ t[q] = t[z] /\ (q = z \/ (v \in Cells /\ a[v] # N /\ r[v] = q /\ k[z] <= k[v]))
  BY <1>4 DEF OnTheRight
<1>39. q \in S[z] /\ \A x \in S[z] : x \in S[q] \/ Before(t, x, q)
  BY <1>4 DEF OnTheRight
<1>12. r[q] = N
  BY <1>4
<1> HIDE DEF a, l, r, t, q, b, m, s, ea, el, er, ga, gl, gr, fa, fl, fr
<1>13. k[p] \in Int /\ k[q] \in Int /\ k[z] \in Int /\ (q # z => k[v] \in Int)
  BY <1>1, <1>2, <1>3, <1>11 DEF Trees
<1>14. q # p /\ (q # z => v # p) /\ q # y /\ z # p /\ y # p /\ p # N /\ q # N
  <2>1. k[p] < k[z] /\ k[p] < k[q]
    BY <1>3, <1>11, <1>13
  <2>2. q # p /\ z # p
    BY <1>13, <2>1
  <2>3. q # z => v # p
    BY <1>11, <1>13, <2>1
  <2>4. q # y
    BY <1>3, <2>3
  <2>5. y # p
    BY <1>3, <1>13
  <2> QED
    BY <1>2, <1>11, <2>2, <2>3, <2>4, <2>5, Spaces
<1>15. u \in 0..N /\ (u # N => u \in Cells /\ a[u] = q /\ u # q /\ u # p)
  <2>1. u \in 0..N /\ (u # N => u \in Cells /\ a[u] = q /\ k[q] < k[u])
    BY <1>1, <1>11, <1>12, Spaces DEF Trees
  <2>2. k[p] < k[q]
    BY <1>3, <1>11, <1>13
  <2> QED
    BY <1>13, <2>1, <2>2
<1>16. Removed(a, l, r, q, u, b, m, s)
  BY <1>10, Spaces DEF Removed
<1>17. Trees(b, m, s, k)
  BY <1>1, <1>11, <1>12, <1>16, RemovedTrees
<1>18. b[q] = N /\ b[p] = o /\ o # N
  BY <1>2, <1>10, <1>11, <1>14, <1>15
<1>19. m[p] = (IF q = z THEN u ELSE z) /\ s[p] = y
  <2>1. q = z => v = p
    BY <1>3
  <2>2. p \in 0..N + LITERALS
    BY <1>2, Spaces
  <2> QED
    BY <1>2, <1>10, <1>14, <2>1, <2>2
<1>20. /\ o \in 0..N + LITERALS /\ o # q /\ (q # z => o # v) /\ o # p
       /\ (o \in Cells => l[o] = p \/ r[o] = p) /\ (o \notin Cells => r[o] = p)
       /\ (o \in Cells => ~(l[o] = p /\ r[o] = p))
  <2>1. o \in Cells => a[o] # N /\ (l[o] = p \/ r[o] = p)
    BY <1>1, <1>2, Spaces DEF Trees
  <2>2. o \in Cells => k[o] < k[p] /\ k[o] \in Int
    BY <1>1, <1>2, <1>14, <2>1 DEF Trees
  <2>3. o \notin Cells => r[o] = p
    BY <1>1, <1>2, <1>3, Spaces DEF Trees
  <2>4. o # q /\ (q # z => o # v) /\ o # p
    BY <1>2, <1>3, <1>11, <1>13, <2>2
  <2>5. o \in Cells => ~(l[o] = p /\ r[o] = p)
    BY <1>1, <1>14, <2>1 DEF Trees
  <2> QED
    BY <1>3, <2>1, <2>3, <2>4, <2>5
<1>21. \A x \in Cells : ea[x] = IF q = z THEN a[x] ELSE IF x = z THEN q ELSE IF x = u THEN v ELSE a[x]
  BY <1>3, <1>5, <1>8, <1>15, Spaces DEF ea, a
<1>22. \A x \in Cells : ga[x] = IF x = y THEN q ELSE ea[x]
  BY <1>3, <1>6, <1>8, Spaces DEF ga, ea
<1>23. ga[p] = o
  BY <1>2, <1>14, <1>15, <1>21, <1>22
<1>24. \A x \in Cells : fa[x] = IF x = p THEN N ELSE IF x = q THEN o ELSE ga[x]
  BY <1>7, <1>8, <1>23, Spaces DEF fa, ga
<1>25. \A x \in Cells : fa[x] = IF x = p THEN N ELSE IF x = q THEN b[p]
                                ELSE IF x = m[p] \/ x = s[p] THEN q ELSE b[x]
  <2>1. CASE q = z
    BY <1>10, <1>15, <1>18, <1>19, <1>21, <1>22, <1>24, <2>1, Spaces
  <2>2. CASE q # z
    <3>1. u # N => u # z /\ u # y
      BY <1>3, <1>14, <1>15
    <3> QED
      BY <1>10, <1>15, <1>18, <1>19, <1>21, <1>22, <1>24, <2>2, <3>1, Spaces
  <2> QED
    BY <2>1, <2>2
<1>26. /\ \A x \in Cells : el[x] = IF q # z /\ x = q THEN z ELSE l[x]
       /\ \A x \in 0..N + LITERALS : er[x] = IF q # z /\ x = v THEN u ELSE r[x]
  <2>1. q \in 0..N /\ (q # z => v \in 0..N + LITERALS)
    BY <1>11, Spaces
  <2>2. CASE q = z
    BY <1>5, <2>2 DEF el, er, l, r
  <2>3. CASE q # z
    BY <1>5, <1>8, <2>1, <2>3, Spaces DEF el, er
  <2> QED
    BY <2>2, <2>3
<1>27. /\ \A x \in Cells : gl[x] = el[x]
       /\ \A x \in 0..N + LITERALS : gr[x] = IF x = q THEN y ELSE er[x]
  BY <1>6, <1>8, <1>11, Spaces DEF gl, gr, el, er
<1>28. gr[o] = r[o] /\ (o \in Cells => gl[o] = l[o])
  BY <1>20, <1>26, <1>27
<1>29. /\ \A x \in Cells : fl[x] = IF x = o /\ gr[o] # p THEN q ELSE gl[x]
       /\ \A x \in 0..N + LITERALS : fr[x] = IF x = o /\ gr[o] = p THEN q ELSE gr[x]
  <2>1. gr[o] # p => o \in Cells
    BY <1>20, <1>28
  <2>2. /\ gr[o] = p => fr = [gr EXCEPT ![o] = q] /\ fl = gl
        /\ gr[o] # p => fl = [gl EXCEPT ![o] = q] /\ fr = gr
    <3>1. g.dad[p] = o
      BY <1>23 DEF ga
    <3> QED
      BY <1>7, <3>1, Zenon DEF fl, fr, gl, gr
  <2>3. DOMAIN gl = 0..N /\ DOMAIN gr = 0..N + LITERALS
    BY <1>8 DEF gl, gr
  <2>4. CASE gr[o] = p
    BY <1>20, <2>2, <2>3, <2>4, Spaces
  <2>5. CASE gr[o] # p
    BY <1>20, <2>1, <2>2, <2>3, <2>5, Spaces
  <2> QED
    BY <2>4, <2>5
<1>30. ASSUME NEW x \in Cells, x # p
       PROVE  /\ fl[x] = IF x = q THEN m[p] ELSE IF x = b[p] /\ m[x] = p THEN q ELSE m[x]
              /\ fr[x] = IF x = q THEN s[p] ELSE IF x = b[p] /\ s[x] = p THEN q ELSE s[x]
  <2>1. x \in 0..N + LITERALS
    BY Spaces
  <2>2. q = z => v = p
    BY <1>3
  <2>3. q # z => r[v] = q /\ l[v] # q
    <3>1. q # z => v \in Cells /\ a[v] # N /\ r[v] = q
      BY <1>11
    <3> QED
      BY <1>1, <1>14, <3>1 DEF Trees
  <2>4. /\ m[x] = l[x]
        /\ s[x] = IF q # z /\ x = v THEN u ELSE r[x]
    BY <1>10, <1>30, <2>1, <2>2, <2>3
  <2>5. /\ fl[x] = IF x = o /\ gr[o] # p THEN q ELSE IF q # z /\ x = q THEN z ELSE l[x]
        /\ fr[x] = IF x = o /\ gr[o] = p THEN q ELSE IF x = q THEN y
                   ELSE IF q # z /\ x = v THEN u ELSE r[x]
    BY <1>26, <1>27, <1>29, <2>1
  <2>6. x = q => l[x] = u
    OBVIOUS
  <2>7. x = o => (gr[o] = p <=> r[x] = p) /\ (gr[o] # p <=> l[x] = p)
    BY <1>20, <1>28
  <2>8. fl[x] = IF x = q THEN m[p] ELSE IF x = b[p] /\ m[x] = p THEN q ELSE m[x]
    BY <1>18, <1>19, <1>20, <2>4, <2>5, <2>6, <2>7
  <2>9. fr[x] = IF x = q THEN s[p] ELSE IF x = b[p] /\ s[x] = p THEN q ELSE s[x]
    BY <1>15, <1>18, <1>19, <1>20, <2>4, <2>5, <2>7
  <2> QED
    BY <2>8, <2>9
<1>31. ASSUME NEW x \in Roots PROVE fr[x] = IF x = b[p] /\ s[x] = p THEN q ELSE s[x]
  <2>1. x \in 0..N + LITERALS /\ x \notin Cells
    BY Spaces
  <2>2. s[x] = r[x]
    <3>1. ~(x = v /\ r[x] = q)
      <4>1. q = z => v = p
        BY <1>3
      <4> QED
        BY <1>2, <1>11, <2>1, <4>1
    <3> QED
      BY <1>10, <2>1, <3>1
  <2>3. fr[x] = IF x = o /\ gr[o] = p THEN q ELSE r[x]
    BY <1>2, <1>11, <1>26, <1>27, <1>29, <2>1
  <2> QED
    BY <1>18, <1>28, <2>2, <2>3
<1>32. fl[p] \in 0..N /\ fr[p] \in 0..N
  <2>1. p \in 0..N + LITERALS
    BY <1>2, Spaces
  <2> QED
    BY <1>2, <1>7, <2>1, DictAt DEF fl, fr
<1>33. Replaced(b, m, s, p, q, fa, fl, fr)
  BY <1>25, <1>30, <1>31, <1>32 DEF Replaced
<1>34. \E h : Trees(fa, fl, fr, h)
  BY <1>2, <1>11, <1>17, <1>18, <1>33, ReplacedTrees
<1>35. \A x \in Cells : fa[x] # N <=> a[x] # N /\ x # p
  <2>1. \A x \in Cells : b[x] # N <=> a[x] # N /\ x # q
    BY <1>10, <1>11, <1>15, Spaces
  <2>2. \A x \in Cells : x = m[p] \/ x = s[p] => a[x] # N
    BY <1>3, <1>14, <1>15, <1>19, Spaces
  <2> QED
    BY <1>11, <1>14, <1>18, <1>25, <2>1, <2>2
<1>36. Heads(b, t)
  BY <1>0, <1>1, <1>11, <1>12, <1>16, RemovedHeads
<1>37. t[q] = t[p]
  <2>1. p < N /\ p # N
    BY <1>2, Spaces
  <2>2. z \in Cells /\ a[z] = p
    BY <1>3
  <2>3. t[z] = t[a[z]]
    <3> HIDE DEF z
    <3> QED
      BY <1>0, <2>1, <2>2 DEF Heads
  <2> QED
    BY <1>11, <2>2, <2>3
<1>38. Heads(fa, t)
  BY <1>2, <1>11, <1>17, <1>18, <1>33, <1>36, <1>37, ReplacedHeads
<1>40. PICK V : Sorted(b, m, s, t, V) /\ Without(q, a, l, r, S, m, s, V)
  <2>1. /\ q \in Cells /\ a[q] # N /\ ((r[q] = N /\ u = l[q]) \/ (l[q] = N /\ u = r[q]))
        /\ Trees(a, l, r, k) /\ Rooted(t) /\ Sorted(a, l, r, t, S)
        /\ Removed(a, l, r, q, u, b, m, s)
    BY <1>0, <1>1, <1>9, <1>11, <1>12, <1>16
  <2> HIDE DEF u
  <2> QED
    BY <2>1, RemovedSorted
<1>41. Fitting(b, m, s, t, V, p, q)
  <2>1. V[m[p]] = S[z] \ {q} /\ V[s[p]] = S[y] \ {q}
    BY <1>2, <1>40 DEF Without
  <2>2. /\ S[p] = {p} \cup S[z] \cup S[y] /\ S[p] \subseteq Cells
        /\ \A x \in S[z] : Before(t, x, p)
        /\ \A x \in S[y] : Before(t, p, x)
    BY <1>2, <1>9 DEF Sorted
  <2>3. \A x \in S[z] \ {q} : Before(t, x, q)
    <3>1. S[q] = {q} \cup S[u] \cup S[r[q]] /\ \A x \in S[u] : Before(t, x, q)
      BY <1>9, <1>11 DEF Sorted
    <3>2. S[r[q]] = {}
      BY <1>9, <1>12 DEF Sorted
    <3> QED
      BY <1>39, <3>1, <3>2
  <2>4. \A x \in S[y] \ {q} : Before(t, q, x)
    BY <1>0, <1>2, <1>11, <1>39, <2>2 DEF StrictOrder
  <2>5. ASSUME NEW x \in Cells, b[x] # N
        PROVE  /\ p \in V[m[x]] => Before(t, q, x)
               /\ p \in V[s[x]] => Before(t, x, q)
    <3>1. a[x] # N
      BY <1>10, <1>11, <1>15, <2>5, Spaces
    <3>2. V[m[x]] = S[l[x]] \ {q} /\ V[s[x]] = S[r[x]] \ {q}
      BY <1>40, <3>1 DEF Without
    <3>3. /\ l[x] = N \/ (l[x] \in Cells /\ a[l[x]] # N)
          /\ r[x] = N \/ (r[x] \in Cells /\ a[r[x]] # N)
      BY <1>1, <3>1, Spaces, ChildOf
    <3>4. q \in S[p]
      BY <1>39, <2>2
    <3>5. p \in S[l[x]] => q \in S[l[x]]
      BY <1>9, <3>3, <3>4 DEF Sorted
    <3>6. p \in S[r[x]] => q \in S[r[x]]
      BY <1>9, <3>3, <3>4 DEF Sorted
    <3> QED
      BY <1>9, <3>1, <3>2, <3>5, <3>6 DEF Sorted
  <2> QED
    BY <1>37, <2>1, <2>3, <2>4, <2>5 DEF Fitting
<1>42. \E U : Sorted(fa, fl, fr, t, U)
  BY <1>0, <1>2, <1>11, <1>17, <1>18, <1>33, <1>40, <1>41, ReplacedSorted
<1> QED
  BY <1>0, <1>34, <1>35, <1>38, <1>42 DEF Planted, Live, fa, fl, fr, a

LEMMA DeleteTrees ==
  ASSUME NEW d \in DictSet, Planted(d), NEW p \in Cells
  PROVE  /\ SameText(d, DeleteNode(d, p)) /\ Planted(DeleteNode(d, p))
         /\ Live(DeleteNode(d, p)) = Live(d) \ {p}
<1> DEFINE q == Rightmost(d, d.lson[p])
           e == Detached(d, p, q)
           g == TakesRight(e, d, p, q)
           f == InPlaceOf(g, p, q)
<1>1. p \in 0..N /\ d.lson[p] \in 0..N /\ d.rson[p] \in 0..N
  <2>1. p \in 0..N /\ p \in 0..N + LITERALS
    BY Spaces
  <2> QED
    BY <2>1, DictAt
<1>2. DeleteNode(d, p) = IF d.dad[p] = NIL THEN d
                         ELSE IF d.rson[p] = NIL THEN InPlaceOf(d, p, d.lson[p])
                         ELSE IF d.lson[p] = NIL THEN InPlaceOf(d, p, d.rson[p])
                         ELSE f
  BY DEF DeleteNode, TakesRight
<1>3. SameText(d, DeleteNode(d, p))
  BY <1>1, DeleteNodeTyped
<1>4. CASE d.dad[p] = NIL
  BY <1>2, <1>3, <1>4 DEF Live, NIL
<1>5. d.dad[p] # NIL => p \in Live(d)
  BY DEF Live, NIL
<1>6. CASE d.dad[p] # NIL /\ d.rson[p] = NIL
  <2>1. IsInPlace(d, p, d.lson[p], InPlaceOf(d, p, d.lson[p]))
    BY <1>1, InPlaceOfIs
  <2> DEFINE y == InPlaceOf(d, p, d.lson[p])
  <2>2. DeleteNode(d, p) = y
    BY <1>2, <1>6
  <2> HIDE DEF y
  <2>3. IsInPlace(d, p, d.lson[p], y) /\ d.rson[p] = N
    BY <1>6, <2>1 DEF y, NIL
  <2>4. Planted(y) /\ Live(y) = Live(d) \ {p}
    BY <1>5, <1>6, <2>3, InPlaceTrees
  <2> QED
    BY <1>3, <2>2, <2>4
<1>7. CASE d.dad[p] # NIL /\ d.rson[p] # NIL /\ d.lson[p] = NIL
  <2>1. IsInPlace(d, p, d.rson[p], InPlaceOf(d, p, d.rson[p]))
    BY <1>1, InPlaceOfIs
  <2> DEFINE y == InPlaceOf(d, p, d.rson[p])
  <2>2. DeleteNode(d, p) = y
    BY <1>2, <1>7
  <2> HIDE DEF y
  <2>3. IsInPlace(d, p, d.rson[p], y) /\ d.lson[p] = N
    BY <1>7, <2>1 DEF y, NIL
  <2>4. Planted(y) /\ Live(y) = Live(d) \ {p}
    BY <1>5, <1>7, <2>3, InPlaceTrees
  <2> QED
    BY <1>3, <2>2, <2>4
<1>8. CASE d.dad[p] # NIL /\ d.rson[p] # NIL /\ d.lson[p] # NIL
  <2>1. q \in 0..N
    BY <1>1, RightmostTyped
  <2> DEFINE z == Rightmost(d, d.lson[p])
  <2> HIDE DEF z
  <2>2. z \in 0..N /\ z = Rightmost(d, d.lson[p])
    BY <2>1 DEF z
  <2>3. IsDetached(d, p, z, Detached(d, p, z))
    BY <1>1, <2>2, DetachedIs
  <2> DEFINE e1 == Detached(d, p, z)
             g1 == TakesRight(e1, d, p, z)
             f1 == InPlaceOf(g1, p, z)
  <2>4. e1 \in DictSet /\ IsDetached(d, p, z, e1)
    BY <2>3 DEF IsDetached
  <2> HIDE DEF e1
  <2>5. IsTakesRight(e1, d, p, z, g1)
    BY <1>1, <2>2, <2>4, TakesRightIs
  <2>6. g1 \in DictSet
    BY <2>5 DEF IsTakesRight
  <2> HIDE DEF g1
  <2>7. IsInPlace(g1, p, z, f1)
    BY <1>1, <2>2, <2>6, InPlaceOfIs
  <2>8. DeleteNode(d, p) = f1
    BY <1>2, <1>8, <2>2 DEF e1, g1
  <2> HIDE DEF f1
  <2>9. d.lson[p] # N /\ d.rson[p] # N /\ p \in Live(d)
    BY <1>5, <1>8 DEF NIL
  <2>10. Planted(f1) /\ Live(f1) = Live(d) \ {p}
    BY <2>2, <2>4, <2>5, <2>7, <2>9, SuccessorTrees
  <2> QED
    BY <1>3, <2>8, <2>10
<1> QED
  BY <1>4, <1>6, <1>7, <1>8

(***************************************************************************)
(* What insert_node() remembers is a string in the window.                 *)
(***************************************************************************)
MatchReal(d, r, e) ==
  e.match_length > THRESHOLD =>
    \E q \in Live(d) : /\ e.match_position = ((r - q) % N) - 1
                       /\ \A i \in 0..e.match_length - 1 : d.text[r + i] = d.text[q + i]

\* The dictionary while the place for a string is looked for.
Blank(d, r, e) ==
  /\ e \in DictSet /\ e.text = d.text /\ e.dad = d.dad
  /\ e.lson = [d.lson EXCEPT ![r] = N] /\ e.rson = [d.rson EXCEPT ![r] = N]

LEMMA BlankAt ==
  ASSUME NEW d \in DictSet, NEW r \in Cells, NEW e, Blank(d, r, e)
  PROVE  /\ \A x \in Cells : x # r => e.lson[x] = d.lson[x] /\ e.rson[x] = d.rson[x]
         /\ \A x \in Roots : e.rson[x] = d.rson[x]
         /\ e.lson[r] = N /\ e.rson[r] = N
<1> DEFINE l == d.lson
           s == d.rson
           m == e.lson
           t == e.rson
<1>1. /\ DOMAIN l = 0..N /\ DOMAIN s = 0..N + LITERALS
      /\ m = [l EXCEPT ![r] = N] /\ t = [s EXCEPT ![r] = N]
  BY DictAt DEF Blank
<1> HIDE DEF l, s, m, t
<1>2. /\ \A x \in Cells : x # r => m[x] = l[x] /\ t[x] = s[x]
      /\ \A x \in Roots : t[x] = s[x]
      /\ m[r] = N /\ t[r] = N
  BY <1>1, Spaces
<1> QED
  BY <1>2 DEF l, s, m, t

\* The string at r is the one at q: r takes its place.
LEMMA SameFits ==
  ASSUME NEW a, NEW l, NEW r, NEW t, NEW S, Sorted(a, l, r, t, S),
         NEW q \in Cells, a[q] # N, NEW n \in Cells, Same(t, n, q)
  PROVE  Fitting(a, l, r, t, S, q, n)
<1>1. t[n] = t[q]
  <2>1. 0 \in 0..F - 1 /\ n + 0 = n /\ q + 0 = q
    BY Spaces, Widths
  <2>2. t[n + 0] = t[q + 0]
    BY <2>1 DEF Same
  <2> QED
    BY <2>1, <2>2
<1>2. ASSUME NEW z
      PROVE  (Before(t, z, q) => Before(t, z, n)) /\ (Before(t, q, z) => Before(t, n, z))
  BY SameOrder
<1>3. /\ \A y \in S[l[q]] : Before(t, y, q)
      /\ \A y \in S[r[q]] : Before(t, q, y)
      /\ \A x \in Cells : a[x] # N => (\A y \in S[l[x]] : Before(t, y, x))
                                    /\ (\A y \in S[r[x]] : Before(t, x, y))
  BY DEF Sorted
<1>4. \A y \in S[l[q]] : Before(t, y, n)
  BY <1>2, <1>3, Zenon
<1>5. \A y \in S[r[q]] : Before(t, n, y)
  BY <1>2, <1>3, Zenon
<1>6. ASSUME NEW x \in Cells, a[x] # N
      PROVE  (q \in S[l[x]] => Before(t, n, x)) /\ (q \in S[r[x]] => Before(t, x, n))
  <2>1. (\A y \in S[l[x]] : Before(t, y, x)) /\ (\A y \in S[r[x]] : Before(t, x, y))
    BY <1>6 DEF Sorted
  <2> QED
    BY <1>2, <2>1, Zenon
<1> QED
  BY <1>1, <1>4, <1>5, <1>6 DEF Fitting

LEMMA TakesOver ==
  ASSUME NEW d \in DictSet, Planted(d), NEW q \in Live(d), NEW r \in Cells, r \notin Live(d),
         Same(d.text, r, q), NEW c, Blank(d, r, c), NEW e, Blank(d, r, e),
         NEW g, IsHeir(c, e, q, r, g), NEW f, IsInPlace(g, q, r, f)
  PROVE  /\ SameText(d, f) /\ Planted(f) /\ Live(f) = (Live(d) \ {q}) \cup {r}
         /\ f.match_length = e.match_length /\ f.match_position = e.match_position
<1> DEFINE a == d.dad
           l == d.lson
           s == d.rson
           el == e.lson
           es == e.rson
           ga == g.dad
           gl == g.lson
           gs == g.rson
           fa == f.dad
           fl == f.lson
           fs == f.rson
           o == a[q]
<1>0. PICK k : Trees(a, l, s, k)
  BY DEF Planted
<1>1. q \in Cells /\ a[q] # N /\ a[r] = N /\ q # r
  BY DEF Live
<1>2. /\ c.dad = a /\ f.text = d.text /\ f \in DictSet /\ g \in DictSet
      /\ f.match_length = e.match_length /\ f.match_position = e.match_position
  BY DEF Blank, IsHeir, IsInPlace
<1>3. /\ \A x \in Cells : x # r => el[x] = l[x] /\ es[x] = s[x]
      /\ \A x \in Roots : es[x] = s[x]
      /\ c.lson[q] = l[q] /\ c.rson[q] = s[q]
  BY <1>1, BlankAt
<1>4. gl = [el EXCEPT ![r] = l[q]] /\ gs = [es EXCEPT ![r] = s[q]]
      /\ ga = [a EXCEPT ![l[q]] = r, ![s[q]] = r]
  BY <1>2, <1>3 DEF IsHeir
<1>5. /\ fa = [ga EXCEPT ![r] = ga[q], ![q] = N]
      /\ gs[ga[q]] = q => fs = [gs EXCEPT ![ga[q]] = r] /\ fl = gl
      /\ gs[ga[q]] # q => fl = [gl EXCEPT ![ga[q]] = r] /\ fs = gs
  BY DEF IsInPlace, NIL
<1>6. /\ DOMAIN el = 0..N /\ DOMAIN es = 0..N + LITERALS /\ DOMAIN a = 0..N
      /\ DOMAIN gl = 0..N /\ DOMAIN gs = 0..N + LITERALS /\ DOMAIN ga = 0..N
  BY <1>2, DictAt DEF Blank
<1>7. fl[q] \in 0..N /\ fs[q] \in 0..N
  <2>1. q \in 0..N + LITERALS
    BY <1>1, Spaces
  <2> QED
    BY <1>1, <1>2, <2>1, DictAt
<1> HIDE DEF a, l, s, el, es, ga, gl, gs, fa, fl, fs
<1>8. /\ o \in 0..N + LITERALS /\ o # N /\ o # q /\ o # r
      /\ (o \in Cells => l[o] = q \/ s[o] = q) /\ (o \notin Cells => s[o] = q)
      /\ (o \in Cells => ~(l[o] = q /\ s[o] = q))
  <2>1. o \in 0..N + LITERALS
    BY <1>0, <1>1 DEF Trees
  <2>2. o \in Cells => a[o] # N /\ (l[o] = q \/ s[o] = q)
    BY <1>0, <1>1, Spaces DEF Trees
  <2>3. o \in Cells => k[o] < k[q] /\ k[o] \in Int
    BY <1>0, <1>1, <2>2, Spaces DEF Trees
  <2>4. o \notin Cells => s[o] = q
    BY <1>0, <1>1, <2>1, Spaces DEF Trees
  <2>5. o \in Cells => ~(l[o] = q /\ s[o] = q)
    BY <1>0, <1>1, <2>2, Spaces DEF Trees
  <2> QED
    BY <1>1, <2>1, <2>2, <2>3, <2>4, <2>5
<1>9. l[q] # q /\ s[q] # q /\ l[q] # r /\ s[q] # r
  <2>1. /\ l[q] # N => a[l[q]] = q /\ k[q] < k[l[q]]
        /\ s[q] # N => a[s[q]] = q /\ k[q] < k[s[q]]
        /\ k[q] \in Int
    BY <1>0, <1>1 DEF Trees
  <2>2. q # N /\ r # N
    BY <1>1, Spaces
  <2> QED
    BY <1>1, <2>1, <2>2
<1> HIDE DEF o
<1>10. \A x \in Cells : ga[x] = IF x = l[q] \/ x = s[q] THEN r ELSE a[x]
  BY <1>4, <1>6, Spaces
<1>11. ga[q] = o
  BY <1>1, <1>9, <1>10 DEF o
<1>12. \A x \in Cells : fa[x] = IF x = q THEN N ELSE IF x = r THEN a[q]
                                ELSE IF x = l[q] \/ x = s[q] THEN r ELSE a[x]
  <2>1. \A x \in Cells : fa[x] = IF x = q THEN N ELSE IF x = r THEN o ELSE ga[x]
    BY <1>1, <1>5, <1>6, <1>11, Spaces
  <2> QED
    BY <1>10, <2>1 DEF o
<1>13. /\ \A x \in Cells : gl[x] = (IF x = r THEN l[q] ELSE l[x]) /\ gs[x] = (IF x = r THEN s[q] ELSE s[x])
       /\ \A x \in Roots : gs[x] = s[x]
  BY <1>3, <1>4, <1>6, Spaces
<1>14. gs[o] = s[o] /\ (o \in Cells => gl[o] = l[o])
  BY <1>8, <1>13, Spaces
<1>15. /\ s[o] = q => fs = [gs EXCEPT ![o] = r] /\ fl = gl
       /\ s[o] # q => fl = [gl EXCEPT ![o] = r] /\ fs = gs
  BY <1>5, <1>11, <1>14, Zenon
<1>16. /\ \A x \in Cells : fl[x] = IF x = o /\ s[o] # q THEN r ELSE gl[x]
       /\ \A x \in 0..N + LITERALS : fs[x] = IF x = o /\ s[o] = q THEN r ELSE gs[x]
  <2>1. CASE s[o] = q
    BY <1>6, <1>8, <1>15, <2>1, Spaces
  <2>2. CASE s[o] # q
    BY <1>6, <1>8, <1>15, <2>2, Spaces
  <2> QED
    BY <2>1, <2>2
<1>17. \A x \in Cells :
         /\ fl[x] = IF x = r THEN l[q] ELSE IF x = a[q] /\ l[x] = q THEN r ELSE l[x]
         /\ fs[x] = IF x = r THEN s[q] ELSE IF x = a[q] /\ s[x] = q THEN r ELSE s[x]
  <2>1. a[q] = o
    BY DEF o
  <2> QED
    BY <1>8, <1>13, <1>16, <2>1, Spaces
<1>18. \A x \in Roots : fs[x] = IF x = a[q] /\ s[x] = q THEN r ELSE s[x]
  <2>1. a[q] = o
    BY DEF o
  <2> QED
    BY <1>13, <1>16, <2>1, Spaces
<1>19. Replaced(a, l, s, q, r, fa, fl, fs)
  BY <1>7, <1>12, <1>17, <1>18 DEF Replaced
<1>20. Replaced(d.dad, d.lson, d.rson, q, r, f.dad, f.lson, f.rson)
  BY <1>19 DEF a, l, s, fa, fl, fs
<1>21. Planted(f) /\ Live(f) = (Live(d) \ {q}) \cup {r}
  <2>1. PICK S : Sorted(d.dad, d.lson, d.rson, d.text, S)
    BY DEF Planted
  <2>2. q \in Cells /\ d.dad[q] # N
    BY DEF Live
  <2>3. Fitting(d.dad, d.lson, d.rson, d.text, S, q, r)
    BY <2>1, <2>2, SameFits
  <2> QED
    BY <1>2, <1>20, <2>1, <2>3, ReplacedIs
<1> QED
  BY <1>2, <1>21 DEF SameText

\* The string at r gets a leaf of its own.
Below(h, r, y, f) == f = [h EXCEPT !.dad[r] = y]

LEMMA GetsLeaf ==
  ASSUME NEW d \in DictSet, Planted(d), NEW r \in Cells, r \notin Live(d), NEW y, NEW right \in BOOLEAN,
         NEW S, Sorted(d.dad, d.lson, d.rson, d.text, S),
         Placed(d.dad, d.lson, d.rson, d.text, S, y, right, r),
         right => d.rson[y] = N, ~right => d.lson[y] = N,
         NEW c, Blank(d, r, c), NEW h, IsHung(c, right, y, r, h),
         NEW f, Below(h, r, y, f)
  PROVE  /\ SameText(d, f) /\ Planted(f) /\ Live(f) = Live(d) \cup {r}
         /\ f.match_length = c.match_length /\ f.match_position = c.match_position
<1> DEFINE a == d.dad
           l == d.lson
           s == d.rson
           cl == c.lson
           cs == c.rson
           b == [a EXCEPT ![r] = y]
           fl == h.lson
           fs == h.rson
           g == [h EXCEPT !.dad = b]
<1>1. y \in 0..N + LITERALS /\ y # r /\ (y \in Roots \/ y \in Cells)
  BY Spaces DEF Live, Placed
<1>2. /\ DOMAIN cl = 0..N /\ DOMAIN cs = 0..N + LITERALS /\ DOMAIN a = 0..N
      /\ d.dad \in [0..N -> 0..N + LITERALS] /\ r \in 0..N
  BY DictAt, DictFields, Spaces DEF Blank
<1>3. /\ \A x \in Cells : x # r => cl[x] = l[x] /\ cs[x] = s[x]
      /\ \A x \in Roots : cs[x] = s[x]
      /\ cl[r] = N /\ cs[r] = N
  BY BlankAt
<1>4. /\ h \in DictSet /\ h.text = d.text /\ h.dad = a
      /\ h.match_length = c.match_length /\ h.match_position = c.match_position
      /\ right => fs = [cs EXCEPT ![y] = r] /\ fl = cl
      /\ ~right => fl = [cl EXCEPT ![y] = r] /\ fs = cs
  BY DEF IsHung, Blank
<1>5. b \in [0..N -> 0..N + LITERALS]
  BY <1>1, <1>2
<1>6. \A x \in Cells : b[x] = IF x = r THEN y ELSE a[x]
  BY <1>2, Spaces
<1>7. f = g
  BY <1>4 DEF Below
<1> HIDE DEF b
<1>8. /\ f \in DictSet /\ f.text = d.text /\ f.dad = b /\ f.lson = fl /\ f.rson = fs
      /\ f.match_length = c.match_length /\ f.match_position = c.match_position
  BY <1>4, <1>5, <1>7 DEF DictSet
<1> HIDE DEF a, l, s, cl, cs, fl, fs
<1>9. /\ \A x \in Cells : /\ fl[x] = IF x = r THEN N ELSE IF x = y /\ ~right THEN r ELSE l[x]
                          /\ fs[x] = IF x = r THEN N ELSE IF x = y /\ right THEN r ELSE s[x]
      /\ \A x \in Roots : fs[x] = IF x = y /\ right THEN r ELSE s[x]
  <2>1. CASE right
    BY <1>1, <1>2, <1>3, <1>4, <2>1, Spaces
  <2>2. CASE ~right
    BY <1>1, <1>2, <1>3, <1>4, <2>2, Spaces
  <2> QED
    BY <2>1, <2>2
<1>10. HungUnder(a, l, s, y, right, r, b, fl, fs)
  BY <1>6, <1>9 DEF HungUnder
<1>11. HungUnder(d.dad, d.lson, d.rson, y, right, r, f.dad, f.lson, f.rson)
  BY <1>8, <1>10 DEF a, l, s
<1>12. Planted(f) /\ Live(f) = Live(d) \cup {r}
  BY <1>8, <1>11, HungUnderIs
<1> QED
  BY <1>8, <1>12 DEF SameText

\* Outside of A no string has more in common with the one at r than e says.
Seen(d, r, A, e) ==
  \A x \in Live(d) : x \notin A /\ d.text[r] = d.text[x] =>
    Common(d, r, x) <= THRESHOLD \/ Common(d, r, x) <= e.match_length

\* The walk is at a node of the tree, and goes on to that side of it where the place is.
AtNode(d, S, r, v) ==
  /\ v \in Walks /\ ~v.ended /\ Blank(d, r, v.dict) /\ MatchReal(d, r, v.dict)
  /\ Placed(d.dad, d.lson, d.rson, d.text, S, v.node, v.right, r)
  /\ Seen(d, r, S[IF v.right THEN d.rson[v.node] ELSE d.lson[v.node]], v.dict)

\* What insert_node() has done: the string at r is in a tree, and at most one that is
\* the same is no longer.
Kept(d, r, e) ==
  /\ SameText(d, e) /\ Planted(e) /\ MatchReal(d, r, e) /\ Seen(d, r, {}, e)
  /\ r \in Live(e) /\ Live(e) \subseteq Live(d) \cup {r}
  /\ \A x \in Live(d) : x \in Live(e) \/ Same(d.text, r, x)

LEMMA MatchStays ==
  ASSUME NEW d, NEW r, NEW e, MatchReal(d, r, e), NEW f,
         f.match_length = e.match_length, f.match_position = e.match_position
  PROVE  MatchReal(d, r, f)
BY DEF MatchReal

LEMMA NotedReal ==
  ASSUME NEW d \in DictSet, NEW r \in Cells, NEW c, Blank(d, r, c), MatchReal(d, r, c),
         NEW q \in Live(d), d.text[r] = d.text[q]
  PROVE  LET e == Noted(c, r, q, Common(c, r, q))
         IN  /\ Blank(d, r, e) /\ MatchReal(d, r, e) /\ e.match_length >= c.match_length
             /\ Common(d, r, q) > THRESHOLD => e.match_length >= Common(d, r, q)
<1> DEFINE i == Common(c, r, q)
           e == Noted(c, r, q, i)
<1>1. c \in DictSet /\ r \in Nat /\ q \in Nat /\ c.text = d.text /\ q \in Cells
  BY Spaces DEF Blank, Live
<1>2. i \in 1..F /\ \A j \in 1..F - 1 : j < i => d.text[r + j] = d.text[q + j]
  <2>1. /\ Common(c, r, q) \in 1..F
        /\ \A j \in 1..F - 1 : j < Common(c, r, q) => c.text[r + j] = c.text[q + j]
    BY CommonType
  <2> QED
    BY <1>1, <2>1
<1>12. i = Common(d, r, q)
  BY <1>1 DEF Common
<1> HIDE DEF i
<1>3. i \in 0..F /\ F \in Nat
  BY <1>2, Widths
<1>4. IsNoted(c, r, q, i, e)
  BY <1>1, <1>3, NotedIs
<1> HIDE DEF e
<1>10. c.match_length \in Nat
  BY <1>1, Widths DEF DictSet
<1>11. e.match_length >= c.match_length /\ (i > THRESHOLD => e.match_length >= i)
  BY <1>3, <1>4, <1>10 DEF IsNoted
<1>5. Blank(d, r, e)
  BY <1>4 DEF Blank, IsNoted
<1>6. \A j \in 0..i - 1 : d.text[r + j] = d.text[q + j]
  <2> SUFFICES ASSUME NEW j \in 0..i - 1 PROVE d.text[r + j] = d.text[q + j]
    OBVIOUS
  <2>1. CASE j = 0
    <3>1. r + j = r /\ q + j = q
      BY <1>1, <2>1
    <3> QED
      BY <3>1
  <2>2. CASE j # 0
    <3>1. j \in 1..F - 1 /\ j < i
      BY <1>3, <1>2, <2>2
    <3> QED
      BY <1>2, <3>1
  <2> QED
    BY <2>1, <2>2
<1>7. \/ e.match_length = c.match_length /\ e.match_position = c.match_position
      \/ e.match_length = i /\ e.match_position = ((r - q) % N) - 1
  BY <1>4 DEF IsNoted
<1>8. CASE e.match_length = c.match_length /\ e.match_position = c.match_position
  <2>1. MatchReal(d, r, e)
    BY <1>8, MatchStays
  <2> QED
    BY <1>5, <1>11, <1>12, <2>1 DEF e, i
<1>9. CASE e.match_length = i /\ e.match_position = ((r - q) % N) - 1
  <2>1. MatchReal(d, r, e)
    BY <1>6, <1>9 DEF MatchReal
  <2> QED
    BY <1>5, <1>11, <1>12, <2>1 DEF e, i
<1> QED
  BY <1>7, <1>8, <1>9

\* One step down keeps the place.
LEMMA PlacedDown ==
  ASSUME NEW a, NEW l, NEW r, NEW k, Trees(a, l, r, k), NEW t, NEW S, Sorted(a, l, r, t, S),
         NEW n \in Cells, NEW y, NEW right, Placed(a, l, r, t, S, y, right, n),
         NEW q \in Cells, q = (IF right THEN r[y] ELSE l[y]), a[q] = y, a[q] # N, t[n] = t[q],
         NEW to, to => Before(t, q, n), ~to => Before(t, n, q)
  PROVE  Placed(a, l, r, t, S, q, to, n)
<1>1. y \in Cells => (right => Before(t, y, n)) /\ (~right => Before(t, n, y))
  BY Spaces DEF Placed
<1>2. ASSUME NEW x \in Cells, a[x] # N
      PROVE  (q \in S[l[x]] => Before(t, n, x)) /\ (q \in S[r[x]] => Before(t, x, n))
  <2>1. (y \in S[l[x]] => Before(t, n, x)) /\ (y \in S[r[x]] => Before(t, x, n))
    BY <1>2 DEF Placed
  <2>2. /\ l[x] # N => l[x] \in Cells /\ a[l[x]] = x /\ l[x] # r[x]
        /\ r[x] # N => r[x] \in Cells /\ a[r[x]] = x
    BY <1>2, ChildOf
  <2>3. S[N] = {}
    BY DEF Sorted
  <2>4. ASSUME q \in S[l[x]] PROVE Before(t, n, x)
    <3>1. l[x] \in Cells /\ a[l[x]] = x /\ a[l[x]] # N /\ l[x] # r[x]
      <4>1. l[x] # N
        BY <2>3, <2>4
      <4> QED
        BY <2>2, <4>1, <1>2, Spaces
    <3>2. q # l[x] => a[q] \in S[l[x]]
      BY <2>4, <3>1 DEF Sorted
    <3>3. CASE q = l[x]
      <4>1. y = x
        BY <3>1, <3>3
      <4>2. ~right
        BY <3>1, <3>3, <4>1
      <4> QED
        BY <1>1, <4>1, <4>2
    <3> QED
      BY <2>1, <3>2, <3>3
  <2>5. ASSUME q \in S[r[x]] PROVE Before(t, x, n)
    <3>1. r[x] \in Cells /\ a[r[x]] = x /\ a[r[x]] # N
      <4>1. r[x] # N
        BY <2>3, <2>5
      <4> QED
        BY <2>2, <4>1, <1>2, Spaces
    <3>2. q # r[x] => a[q] \in S[r[x]]
      BY <2>5, <3>1 DEF Sorted
    <3>3. CASE q = r[x]
      <4>1. y = x
        BY <3>1, <3>3
      <4>2. right
        <5>1. l[x] # r[x]
          BY <2>2, <3>1, <3>3, Spaces
        <5> QED
          BY <3>3, <4>1, <5>1
      <4> QED
        BY <1>1, <4>1, <4>2
    <3> QED
      BY <2>1, <3>2, <3>3
  <2> QED
    BY <2>4, <2>5
<1> QED
  BY <1>2 DEF Placed

\* The strings on the other side of q have no more in common with the one at r than
\* the one at q has.
LEMMA SeenDown ==
  ASSUME NEW d \in DictSet, NEW S, Sorted(d.dad, d.lson, d.rson, d.text, S), NEW r \in Cells,
         NEW q \in Live(d), d.text[r] = d.text[q], NEW c, Seen(d, r, S[q], c),
         NEW e \in DictSet, c \in DictSet, e.match_length >= c.match_length,
         Common(d, r, q) > THRESHOLD => e.match_length >= Common(d, r, q),
         NEW to, to => Before(d.text, q, r), ~to => Before(d.text, r, q)
  PROVE  Seen(d, r, S[IF to THEN d.rson[q] ELSE d.lson[q]], e)
<1>1. q \in Cells /\ d.dad[q] # N
  BY DEF Live
<1>2. /\ S[q] = {q} \cup S[d.lson[q]] \cup S[d.rson[q]]
      /\ \A y \in S[d.lson[q]] : Before(d.text, y, q)
      /\ \A y \in S[d.rson[q]] : Before(d.text, q, y)
  BY <1>1 DEF Sorted
<1>3. THRESHOLD \in Nat /\ c.match_length \in Nat /\ e.match_length \in Nat /\ Common(d, r, q) \in Nat
  <2>1. Common(d, r, q) \in 1..F
    BY CommonType
  <2> QED
    BY <2>1, Widths DEF DictSet
<1> SUFFICES ASSUME NEW x \in Live(d), x \notin S[IF to THEN d.rson[q] ELSE d.lson[q]],
                    d.text[r] = d.text[x]
             PROVE  Common(d, r, x) <= THRESHOLD \/ Common(d, r, x) <= e.match_length
  BY DEF Seen
<1>4. Common(d, r, x) \in Nat /\ x \in Cells
  <2>1. Common(d, r, x) \in 1..F
    BY CommonType
  <2> QED
    BY <2>1 DEF Live
<1>5. CASE x \notin S[q]
  <2>1. Common(d, r, x) <= THRESHOLD \/ Common(d, r, x) <= c.match_length
    BY <1>5 DEF Seen
  <2> QED
    BY <1>3, <1>4, <2>1
<1>6. CASE x = q
  BY <1>3, <1>6
<1>7. CASE x \in S[q] /\ x # q
  <2>1. \/ Before(d.text, x, q) /\ Before(d.text, q, r)
        \/ Before(d.text, r, q) /\ Before(d.text, q, x)
    BY <1>2, <1>7
  <2>2. Common(d, r, x) <= Common(d, r, q)
    BY <1>1, <1>4, <2>1, CommonBeyond
  <2> QED
    BY <1>3, <1>4, <2>2
<1> QED
  BY <1>5, <1>6, <1>7

LEMMA WalkKeeps ==
  ASSUME NEW d \in DictSet, Planted(d), NEW r \in Cells, r \notin Live(d),
         NEW S, Sorted(d.dad, d.lson, d.rson, d.text, S),
         NEW k, Trees(d.dad, d.lson, d.rson, k), NEW v, AtNode(d, S, r, v)
  PROVE  \/ /\ AtNode(d, S, r, Walk(v, r)) /\ Walk(v, r).node \in Cells
            /\ v.node \in Cells => k[v.node] < k[Walk(v, r).node]
         \/ Walk(v, r).ended /\ Walk(v, r) \in Walks /\ Kept(d, r, Walk(v, r).dict)
<1> DEFINE c == v.dict
           y == v.node
           right == v.right
           q == NextNode(v)
           i == Common(c, r, q)
           e == Noted(c, r, q, i)
<1>1. /\ v \in Walks /\ ~v.ended /\ Blank(d, r, c) /\ MatchReal(d, r, c) /\ right \in BOOLEAN
      /\ c \in DictSet
  BY DEF AtNode, Walks
<1>12. /\ Placed(d.dad, d.lson, d.rson, d.text, S, y, right, r)
       /\ (y \in Roots /\ right /\ y = N + 1 + d.text[r]) \/ (y \in Live(d) /\ d.text[r] = d.text[y])
  BY DEF AtNode, Placed, Live
<1>13. Seen(d, r, S[IF right THEN d.rson[y] ELSE d.lson[y]], c)
  BY DEF AtNode
<1>2. y \in 0..N \/ right
  BY <1>12, Spaces DEF Live
<1>3. /\ q \in 0..N
      /\ q = NIL =>
           Walk(v, r) = [dict  |-> [Hung(c, right, y, r) EXCEPT !.dad[r] = y],
                         node  |-> y, right |-> right, ended |-> TRUE]
      /\ q # NIL /\ i = F =>
           Walk(v, r) = [dict |-> InPlaceOf(Heir(c, e, q, r), q, r),
                         node |-> y, right |-> right, ended |-> TRUE]
      /\ q # NIL /\ i # F =>
           Walk(v, r) = [dict |-> e, node |-> q,
                         right |-> c.text[r + i] >= c.text[q + i], ended |-> FALSE]
  BY <1>1, <1>2, WalkIs
<1>4. q = IF right THEN c.rson[y] ELSE c.lson[y]
  BY DEF NextNode
<1> HIDE DEF c, y, right, q, i, e
<1>5. y \in 0..N + LITERALS /\ y # r /\ r \in 0..N /\ (y \in Roots \/ y \in Cells)
  BY <1>12, Spaces DEF Live
<1>6. q = IF right THEN d.rson[y] ELSE d.lson[y]
  <2>1. \A x \in Cells : x # r => c.lson[x] = d.lson[x] /\ c.rson[x] = d.rson[x]
    BY <1>1, BlankAt
  <2>2. \A x \in Roots : c.rson[x] = d.rson[x]
    BY <1>1, BlankAt
  <2> QED
    BY <1>4, <1>5, <1>12, <2>1, <2>2, Spaces DEF Live
<1>14. Seen(d, r, S[q], c)
  BY <1>6, <1>13
<1>15. Seen(d, r, S[q], c) /\ q = NIL => Seen(d, r, {}, c)
  <2>1. S[N] = {}
    BY DEF Sorted
  <2> QED
    BY <2>1 DEF NIL
<1>7. CASE q = NIL
  <2> DEFINE h == Hung(c, right, y, r)
             f == [h EXCEPT !.dad[r] = y]
  <2>1. IsHung(c, right, y, r, h)
    BY <1>1, <1>5, HungIs
  <2>2. (right => d.rson[y] = N) /\ (~right => d.lson[y] = N)
    BY <1>6, <1>7 DEF NIL
  <2>3. Walk(v, r) = [dict |-> f, node |-> y, right |-> right, ended |-> TRUE]
    BY <1>3, <1>7
  <2>6. Below(h, r, y, f)
    BY DEF Below
  <2> HIDE DEF h, f
  <2>4. /\ SameText(d, f) /\ Planted(f) /\ Live(f) = Live(d) \cup {r}
        /\ f.match_length = c.match_length /\ f.match_position = c.match_position
    <3>1. Placed(d.dad, d.lson, d.rson, d.text, S, y, right, r)
      BY <1>12
    <3>2. Blank(d, r, c) /\ right \in BOOLEAN
      BY <1>1
    <3> QED
      BY <2>1, <2>2, <2>6, <3>1, <3>2, GetsLeaf
  <2>5. MatchReal(d, r, f)
    BY <1>1, <2>4, MatchStays
  <2>7. Seen(d, r, {}, f)
    BY <1>7, <1>14, <1>15, <2>4 DEF Seen
  <2>8. Kept(d, r, f)
    BY <2>4, <2>5, <2>7 DEF Kept
  <2> QED
    BY <1>1, <1>5, <2>3, <2>4, <2>8 DEF Walks, SameText
<1>8. q # NIL => /\ q \in Live(d) /\ d.text[r] = d.text[q] /\ q \in Cells
                 /\ d.dad[q] = y /\ (y \in Cells => k[y] < k[q])
  <2> DEFINE a == d.dad
             l == d.lson
             s == d.rson
             t == d.text
  <2>1. Trees(a, l, s, k)
    OBVIOUS
  <2>2. Heads(a, t)
    BY DEF Planted
  <2>3. (y \in Roots /\ right /\ y = N + 1 + t[r]) \/ (y \in Cells /\ a[y] # N /\ t[r] = t[y])
    BY <1>12 DEF Live
  <2>4. q = IF right THEN s[y] ELSE l[y]
    BY <1>6
  <2>5. t[q] \in Codes \/ q \notin Cells
    BY TextAt
  <2>6. t[r] \in Codes
    BY TextAt
  <2> HIDE DEF a, l, s, t
  <2>7. q # N => q \in Cells /\ a[q] = y /\ y # N /\ (y \in Cells => k[y] < k[q])
    BY <1>3, <1>5, <2>1, <2>3, <2>4, Spaces DEF Trees
  <2>8. q # N => t[r] = t[q]
    <3> SUFFICES ASSUME q # N PROVE t[r] = t[q]
      OBVIOUS
    <3>1. CASE y \in Roots /\ y = N + 1 + t[r]
      <4>1. a[q] > N /\ a[q] # N
        BY <2>7, <3>1, Spaces
      <4>2. N + 1 + t[r] = N + 1 + t[q]
        BY <2>2, <2>7, <3>1, <4>1 DEF Heads
      <4>3. t[r] \in Nat /\ t[q] \in Nat
        BY <2>5, <2>6, <2>7, Widths DEF Codes
      <4> DEFINE b1 == t[r]
                 b2 == t[q]
      <4> HIDE DEF b1, b2
      <4>4. N + 1 + b1 = N + 1 + b2 /\ b1 \in Nat /\ b2 \in Nat
        BY <4>2, <4>3 DEF b1, b2
      <4>5. b1 = b2
        BY <4>4, Spaces
      <4> QED
        BY <4>5 DEF b1, b2
    <3>2. CASE y \in Cells /\ a[y] # N /\ t[r] = t[y]
      <4>1. a[q] = y /\ y < N /\ y # N
        BY <2>7, <3>2, Spaces
      <4>2. t[q] = t[y]
        BY <2>2, <2>7, <4>1 DEF Heads
      <4> QED
        BY <3>2, <4>2
    <3> QED
      BY <2>3, <3>1, <3>2
  <2> QED
    BY <2>7, <2>8 DEF Live, NIL, a, t
<1>16. i = Common(d, r, q)
  BY <1>1 DEF i, Blank, Common
<1>9. q # NIL => /\ Blank(d, r, e) /\ MatchReal(d, r, e) /\ e.match_length >= c.match_length
                 /\ i > THRESHOLD => e.match_length >= i
  <2>1. e = Noted(c, r, q, Common(c, r, q))
    BY DEF e, i
  <2> QED
    BY <1>1, <1>8, <1>16, <2>1, NotedReal
<1>10. CASE q # NIL /\ i = F
  <2> DEFINE g == Heir(c, e, q, r)
             f == InPlaceOf(g, q, r)
  <2>1. e \in DictSet
    BY <1>9, <1>10 DEF Blank
  <2>2. IsHeir(c, e, q, r, g)
    BY <1>1, <1>3, <2>1, HeirIs
  <2>3. g \in DictSet
    BY <2>2 DEF IsHeir
  <2> HIDE DEF g
  <2>4. IsInPlace(g, q, r, f)
    BY <1>3, <1>5, <2>3, InPlaceOfIs
  <2>5. Walk(v, r) = [dict |-> f, node |-> y, right |-> right, ended |-> TRUE]
    BY <1>3, <1>10 DEF g
  <2> HIDE DEF f
  <2>8. Same(d.text, r, q)
    BY <1>8, <1>10, <1>16, CommonAll
  <2>6. /\ SameText(d, f) /\ Planted(f) /\ Live(f) = (Live(d) \ {q}) \cup {r}
        /\ f.match_length = e.match_length /\ f.match_position = e.match_position
    BY <1>1, <1>8, <1>9, <1>10, <2>2, <2>4, <2>8, TakesOver
  <2>7. MatchReal(d, r, f)
    BY <1>9, <1>10, <2>6, MatchStays
  <2>9. Seen(d, r, {}, f)
    <3>1. F \in Nat /\ F > THRESHOLD /\ THRESHOLD \in Nat
      BY Widths
    <3>2. f.match_length >= F
      BY <1>9, <1>10, <2>6, <3>1
    <3>3. f.match_length \in Nat
      BY <2>1, <2>6, Widths DEF DictSet
    <3> SUFFICES ASSUME NEW x PROVE Common(d, r, x) <= f.match_length
      BY DEF Seen
    <3>4. Common(d, r, x) \in 1..F
      BY CommonType
    <3> QED
      BY <3>1, <3>2, <3>3, <3>4
  <2>10. Kept(d, r, f)
    BY <2>6, <2>7, <2>8, <2>9 DEF Kept
  <2> QED
    BY <1>1, <1>5, <2>5, <2>6, <2>10 DEF Walks, SameText
<1>11. CASE q # NIL /\ i # F
  <2> DEFINE to == c.text[r + i] >= c.text[q + i]
             w == [dict |-> e, node |-> q, right |-> to, ended |-> FALSE]
  <2>1. to \in BOOLEAN
    OBVIOUS
  <2>2. Walk(v, r) = w
    BY <1>3, <1>11
  <2> HIDE DEF to
  <2>3. w.dict = e /\ w.node = q /\ w.ended = FALSE /\ w.right = to
    OBVIOUS
  <2>4. w \in Walks
    <3>1. e \in DictSet /\ q \in 0..N + LITERALS
      BY <1>3, <1>9, <1>11, Spaces DEF Blank
    <3> QED
      BY <2>1, <3>1 DEF Walks
  <2> HIDE DEF w
  <2>6. IF to THEN Before(d.text, q, r) ELSE Before(d.text, r, q)
    <3>1. c.text = d.text
      BY <1>1 DEF Blank
    <3> QED
      BY <1>8, <1>11, <1>16, <3>1, CommonOrder DEF to
  <2>7. Placed(d.dad, d.lson, d.rson, d.text, S, q, to, r)
    <3>1. d.dad[q] # N
      BY <1>8, <1>11 DEF Live
    <3> QED
      BY <1>6, <1>8, <1>11, <1>12, <2>6, <3>1, PlacedDown
  <2>8. Seen(d, r, S[IF to THEN d.rson[q] ELSE d.lson[q]], e)
    <3>1. e \in DictSet
      BY <1>9, <1>11 DEF Blank
    <3> QED
      BY <1>1, <1>8, <1>9, <1>11, <1>14, <1>16, <2>6, <3>1, SeenDown
  <2>5. AtNode(d, S, r, w)
    BY <1>9, <1>11, <2>3, <2>4, <2>7, <2>8 DEF AtNode
  <2> QED
    BY <1>8, <1>11, <2>2, <2>3, <2>5 DEF y
<1> QED
  BY <1>7, <1>10, <1>11

LEMMA StartAtNode ==
  ASSUME NEW d \in DictSet, NEW r \in Cells, NEW k, Trees(d.dad, d.lson, d.rson, k),
         NEW S, Sorted(d.dad, d.lson, d.rson, d.text, S)
  PROVE  AtNode(d, S, r, InsertStart(d, r))
<1> DEFINE a == [d.lson EXCEPT ![r] = N]
           b == [d.rson EXCEPT ![r] = N]
           e == [d EXCEPT !.lson = a, !.rson = b, !.match_length = 0]
           n == N + 1 + d.text[r]
<1>1. r \in 0..N /\ r \in 0..N + LITERALS /\ N \in 0..N /\ 0 \in 0..F
  BY Spaces, Widths
<1>2. a \in [0..N -> 0..N] /\ b \in [0..N + LITERALS -> 0..N]
  BY <1>1, DictFields
<1>3. n \in Roots /\ n \in 0..N + LITERALS
  <2>1. d.text[r] \in Codes
    BY TextAt
  <2> DEFINE c == d.text[r]
  <2> HIDE DEF c
  <2>2. N + 1 + c \in Roots
    BY <2>1, Widths DEF Codes, Roots, c
  <2> QED
    BY <2>2, Spaces DEF c
<1>4. InsertStart(d, r) = [dict |-> e, node |-> n, right |-> TRUE, ended |-> FALSE]
  BY DEF InsertStart, NIL
<1>5. n = N + 1 + d.text[r]
  OBVIOUS
<1>6. a = [d.lson EXCEPT ![r] = N] /\ b = [d.rson EXCEPT ![r] = N]
  OBVIOUS
<1> HIDE DEF a, b, n
<1>7. /\ e \in DictSet /\ e.text = d.text /\ e.dad = d.dad /\ e.lson = a /\ e.rson = b
      /\ e.match_length = 0
  BY <1>1, <1>2 DEF DictSet
<1> HIDE DEF e
<1>8. Blank(d, r, e)
  BY <1>6, <1>7 DEF Blank
<1>9. MatchReal(d, r, e)
  BY <1>7, Widths DEF MatchReal
<1> DEFINE v == [dict |-> e, node |-> n, right |-> TRUE, ended |-> FALSE]
<1>10. v \in Walks
  BY <1>3, <1>7 DEF Walks
<1>11. v.dict = e /\ v.node = n /\ v.right /\ ~v.ended
  OBVIOUS
<1> HIDE DEF v
<1>12. Placed(d.dad, d.lson, d.rson, d.text, S, n, TRUE, r)
  <2> DEFINE g == d.dad
             l == d.lson
             s == d.rson
             t == d.text
  <2>1. Trees(g, l, s, k) /\ Sorted(g, l, s, t, S)
    OBVIOUS
  <2>2. n = N + 1 + t[r]
    BY <1>5
  <2> HIDE DEF g, l, s, t
  <2>3. ASSUME NEW x \in Cells, g[x] # N
        PROVE  n \notin S[l[x]] /\ n \notin S[s[x]]
    <3>1. /\ l[x] # N => l[x] \in Cells /\ g[l[x]] # N
          /\ s[x] # N => s[x] \in Cells /\ g[s[x]] # N
      BY <2>1, <2>3, ChildOf, Spaces
    <3>2. S[N] = {} /\ \A z \in Cells : g[z] # N => S[z] \subseteq Cells
      BY <2>1 DEF Sorted
    <3>3. S[l[x]] \subseteq Cells /\ S[s[x]] \subseteq Cells
      BY <3>1, <3>2
    <3> QED
      BY <1>3, <3>3, Spaces
  <2>4. Placed(g, l, s, t, S, n, TRUE, r)
    BY <1>3, <2>2, <2>3 DEF Placed
  <2> QED
    BY <2>4 DEF g, l, s, t
<1>13. Seen(d, r, S[d.rson[n]], e)
  <2> SUFFICES ASSUME NEW x \in Live(d), d.text[r] = d.text[x] PROVE x \in S[d.rson[n]]
    BY DEF Seen
  <2>1. x \in Cells /\ d.dad[x] # N
    BY DEF Live
  <2>2. x \in S[d.rson[N + 1 + d.text[x]]]
    BY <2>1 DEF Sorted
  <2> QED
    BY <1>5, <2>2
<1>14. AtNode(d, S, r, v)
  BY <1>8, <1>9, <1>10, <1>11, <1>12, <1>13 DEF AtNode
<1> QED
  BY <1>4, <1>14 DEF v

\* insert_node() keeps the trees, puts node r in them, and what it remembers is a
\* string in the window, with which no other has more in common.  The way down the
\* tree has no more steps than there are nodes.
LEMMA InsertTrees ==
  ASSUME NEW d \in DictSet, Planted(d), NEW r \in Cells, r \notin Live(d)
  PROVE  Kept(d, r, InsertNode(d, r))
<1> DEFINE w == InsertLoop(d, r)
<1>1. w[0] = InsertStart(d, r) /\ \A j \in Nat : j < N => w[j + 1] = Walk(w[j], r)
  BY Spaces, InsertLoopDef DEF InsertStep
<1>2. InsertNode(d, r) = w[N].dict
  BY InsertNodeIs
<1> HIDE DEF w
<1>3. PICK S : Sorted(d.dad, d.lson, d.rson, d.text, S)
  BY DEF Planted
<1>4. PICK k : Trees(d.dad, d.lson, d.rson, k)
  BY DEF Planted
<1> DEFINE Down(i) == /\ w[i + 1].node \in Live(d)
                      /\ w[i].node \in Cells => k[w[i].node] < k[w[i + 1].node]
           Done(v) == v.ended /\ v \in Walks /\ Kept(d, r, v.dict)
           Good(j) == Done(w[j]) \/ (AtNode(d, S, r, w[j]) /\ \A i \in 0..j - 1 : Down(i))
           G == {j \in Nat : j <= N => Good(j)}
<1>5. 0 \in G
  <2>1. AtNode(d, S, r, w[0])
    BY <1>1, <1>3, <1>4, StartAtNode
  <2> HIDE DEF Down
  <2> QED
    BY <2>1
<1>6. ASSUME NEW j \in Nat, j \in G PROVE j + 1 \in G
  <2> SUFFICES ASSUME j + 1 <= N PROVE Good(j + 1)
    OBVIOUS
  <2>1. w[j + 1] = Walk(w[j], r) /\ Good(j)
    <3> HIDE DEF Good
    <3> QED
      BY <1>1, <1>6, Spaces
  <2>2. CASE Done(w[j])
    <3>1. Walk(w[j], r) = w[j]
      BY <2>2, Zenon DEF Walk
    <3> HIDE DEF Done, Down
    <3> QED
      BY <2>1, <2>2, <3>1
  <2>3. CASE AtNode(d, S, r, w[j]) /\ \A i \in 0..j - 1 : Down(i)
    <3> DEFINE v == w[j]
               u == Walk(v, r)
    <3>1. \/ AtNode(d, S, r, u) /\ u.node \in Cells /\ (v.node \in Cells => k[v.node] < k[u.node])
          \/ Done(u)
      <4>1. AtNode(d, S, r, v)
        BY <2>3
      <4> HIDE DEF v
      <4> QED
        BY <1>3, <1>4, <4>1, WalkKeeps
    <3> HIDE DEF Done
    <3>2. CASE Done(u)
      BY <2>1, <3>2
    <3>3. CASE AtNode(d, S, r, u) /\ u.node \in Cells /\ (v.node \in Cells => k[v.node] < k[u.node])
      <4>1. u.node \in Live(d)
        <5>1. Placed(d.dad, d.lson, d.rson, d.text, S, u.node, u.right, r)
          BY <3>3 DEF AtNode
        <5> HIDE DEF u
        <5> QED
          BY <3>3, <5>1, Spaces DEF Placed, Live
      <4>2. Down(j)
        BY <2>1, <3>3, <4>1
      <4>3. \A i \in 0..(j + 1) - 1 : Down(i)
        <5> HIDE DEF Down
        <5>1. \A i \in 0..(j + 1) - 1 : i = j \/ i \in 0..j - 1
          OBVIOUS
        <5> QED
          BY <2>3, <4>2, <5>1
      <4> HIDE DEF Down
      <4> QED
        BY <2>1, <3>3, <4>3
    <3> QED
      BY <3>1, <3>2, <3>3
  <2> HIDE DEF Done, Down
  <2> QED
    BY <2>1, <2>2, <2>3
<1>7. Good(N)
  <2>1. Nat \subseteq G
    <3> HIDE DEF G
    <3> QED
      BY <1>5, <1>6, NatInd
  <2>2. N \in Nat
    BY Spaces
  <2> HIDE DEF Good
  <2> QED
    BY <2>1, <2>2
<1>8. ASSUME \A i \in 0..N - 1 : Down(i) PROVE FALSE
  <2> DEFINE first == w[1].node
             u == [j \in 0..N |-> IF j = 0 THEN r ELSE w[j].node]
             h == [x \in Cells |-> IF x = r THEN k[first] - 1 ELSE k[x]]
  <2>1. ASSUME NEW j \in 0..N, j # 0 PROVE w[j].node \in Live(d)
    <3>1. j - 1 \in 0..N - 1 /\ (j - 1) + 1 = j
      BY <2>1, Spaces
    <3>2. Down(j - 1)
      BY <1>8, <3>1
    <3> QED
      BY <3>1, <3>2
  <2>2. \A x \in Live(d) : x \in Cells /\ x # r
    BY DEF Live
  <2>3. \A x \in Cells : k[x] \in Int
    BY <1>4 DEF Trees
  <2>4. first \in Live(d)
    BY <2>1, Spaces
  <2>5. u[0] = r /\ \A j \in 0..N : j # 0 => u[j] = w[j].node
    BY Spaces
  <2>6. h[r] = k[first] - 1 /\ \A x \in Live(d) : h[x] = k[x]
    BY <2>2
  <2>7. \A j \in 0..N : u[j] \in Cells /\ h[u[j]] \in Int
    <3> SUFFICES ASSUME NEW j \in 0..N PROVE u[j] \in Cells /\ h[u[j]] \in Int
      OBVIOUS
    <3> HIDE DEF u, h, first
    <3> QED
      BY <2>1, <2>2, <2>3, <2>4, <2>5, <2>6
  <2>8. \A j \in Nat : j < N => h[u[j]] < h[u[j + 1]]
    <3> SUFFICES ASSUME NEW j \in Nat, j < N PROVE h[u[j]] < h[u[j + 1]]
      OBVIOUS
    <3>1. j \in 0..N /\ j + 1 \in 0..N /\ j + 1 # 0 /\ j \in 0..N - 1
      BY Spaces
    <3>2. u[j + 1] = w[j + 1].node /\ w[j + 1].node \in Live(d)
      BY <2>1, <2>5, <3>1
    <3>3. CASE j = 0
      <4>1. u[j + 1] = first /\ u[j] = r
        BY <2>5, <3>2, <3>3
      <4> HIDE DEF u, h, first
      <4> QED
        BY <2>2, <2>3, <2>4, <2>6, <4>1
    <3>4. CASE j # 0
      <4>1. u[j] = w[j].node /\ w[j].node \in Live(d)
        BY <2>1, <2>5, <3>1, <3>4
      <4>2. w[j].node \in Cells => k[w[j].node] < k[w[j + 1].node]
        BY <1>8, <3>1
      <4> HIDE DEF u, h, first
      <4> QED
        BY <2>2, <2>6, <3>2, <4>1, <4>2
    <3> QED
      BY <3>3, <3>4
  <2> HIDE DEF u, h
  <2> QED
    BY <2>7, <2>8, NoDescent
<1> HIDE DEF Down
<1>9. Done(w[N])
  BY <1>7, <1>8
<1> QED
  BY <1>2, <1>9
=============================================================================
