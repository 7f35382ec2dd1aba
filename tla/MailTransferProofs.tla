-------------------------- MODULE MailTransferProofs --------------------------
(***************************************************************************)
(* Theorems about MailTransfer, for any mails, chunks and width of a byte. *)
(***************************************************************************)
EXTENDS MailTransfer, LzhufProofs

\* Every position that the tables can express is decoded to itself, whatever bits
\* follow it (lzhuf.py, _encode_position() and _decode_position()).
THEOREM PositionsAlwaysDecode == Spec => []PositionsDecode
<1>1. ASSUME NEW p \in Positions, NEW b \in Bits
      PROVE  DecodePosition(EncodePosition(p) \o [k \in 1..8 |-> b], 1)
               = [value |-> p, width |-> Len(EncodePosition(p))]
  <2> DEFINE after == [k \in 1..8 |-> b]
             head == EncodePosition(p)
             bits == head \o after
  <2>1. after \in Seq(Bits)
    OBVIOUS
  <2>2. head \in Seq(Bits)
    BY PositionBits
  <2> HIDE DEF after, head
  <2>3. bits \in Seq(Bits) /\ \A k \in 1..Len(head) : bits[k] = head[k]
    BY <2>1, <2>2, ConcatProperties
  <2>4. Holds(bits, 1, head)
    BY <2>1, <2>2, <2>3, ConcatProperties DEF Holds, Bit
  <2> HIDE DEF bits
  <2>5. DecodePosition(bits, 1) = [value |-> p, width |-> Len(head)]
    BY <2>3, <2>4, PositionDecodes DEF head
  <2> QED
    BY <2>5 DEF bits, head, after
<1>2. PositionsDecode
  BY <1>1, Zenon DEF PositionsDecode, Bits
<1> QED
  BY <1>2, PTL DEF Spec

\* What is left when update() is through.
LEMMA RestingIsHuffman ==
  ASSUME NEW t, Resting(t)
  PROVE  IsHuffman(t)
<1> DEFINE f == t.freq
           s == t.son
           p == t.prnt
<1>1. Arrays(f, s, p) /\ Ordered(f) /\ Linked(s, p) /\ Paired(s) /\ Summed(f, s, T) /\ f[R] <= MAX_FREQ
  BY DEF Resting, HuffmanTree, Huffman
<1>2. ASSUME NEW i \in 0..R
      PROVE  /\ f[i] <= f[i + 1]
             /\ \A k \in Children(s[i]) : p[k] = i
             /\ s[i] < T => f[i] = f[s[i]] + f[s[i] + 1]
  <2>1. f[i] <= f[i + 1]
    BY <1>1 DEF Ordered
  <2>2. \A k \in Children(s[i]) : p[k] = i
    BY <1>1, ChildBelow
  <2>3. ASSUME s[i] < T PROVE f[i] = f[s[i]] + f[s[i] + 1]
    <3>1. f[i] + Short(i, T) = f[s[i]] + f[s[i] + 1]
      BY <1>1, <2>3 DEF Summed
    <3>2. Short(i, T) = 0 /\ f[i] \in Nat
      BY <1>1, ArraysAt, Sizes DEF Short
    <3> QED
      BY <3>1, <3>2
  <2> QED
    BY <2>1, <2>2, <2>3
<1> QED
  BY <1>1, <1>2 DEF IsHuffman

(***************************************************************************)
(* Positions of the text in the ring of the window.                        *)
(***************************************************************************)
Ring(j) == j % N

LEMMA RingIs ==
  ASSUME NEW j \in Int
  PROVE  \E m \in Int : j = m * N + Ring(j) /\ Ring(j) \in Cells /\ Ring(j) \in Nat /\ Ring(j) < N
<1> DEFINE m == j \div N
           x == j % N
<1>1. N \in Nat /\ N > 0
  BY Spaces
<1>2. j = N * m + x /\ x \in 0..N - 1 /\ m \in Int
  BY <1>1, Divides
<1> HIDE DEF m, x
<1>3. j = m * N + x
  BY <1>1, <1>2
<1>4. x \in Cells
  BY <1>1, <1>2 DEF Cells
<1>5. x \in Nat /\ x < N
  BY <1>1, <1>2
<1> QED
  BY <1>2, <1>3, <1>4, <1>5 DEF Ring, x

LEMMA RingUnique ==
  ASSUME NEW j \in Int, NEW m \in Int, NEW x \in Int, 0 <= x, x < N, j = m * N + x
  PROVE  Ring(j) = x
<1>1. N \in Int
  BY Spaces
<1>2. (m * N + x) % N = x
  BY <1>1, Quotient
<1> QED
  BY <1>2 DEF Ring

LEMMA RingPlus ==
  ASSUME NEW j \in Nat, NEW i \in Nat, i <= N
  PROVE  /\ Ring(j) + i < N => Ring(j + i) = Ring(j) + i
         /\ ~(Ring(j) + i < N) => Ring(j + i) = (Ring(j) + i) - N
         /\ j >= Ring(j)
<1> DEFINE x == Ring(j)
<1>1. PICK m \in Int : j = m * N + x /\ x \in Nat /\ x < N
  BY RingIs
<1> HIDE DEF x
<1>2. N \in Nat /\ N > 1
  BY Spaces
<1>3. ASSUME x + i < N PROVE Ring(j + i) = x + i
  <2>1. j + i = m * N + (x + i) /\ j + i \in Int /\ x + i \in Int /\ 0 <= x + i
    <3> DEFINE p == m * N
    <3>1. p \in Int /\ j = p + x
      BY <1>1, <1>2
    <3> HIDE DEF p
    <3> QED
      BY <1>1, <3>1 DEF p
  <2>2. Ring(j + i) = x + i
    BY <1>3, <2>1, RingUnique, <1>1
  <2> QED
    BY <2>2
<1>4. ASSUME ~(x + i < N) PROVE Ring(j + i) = (x + i) - N
  <2> DEFINE q == (x + i) - N
  <2>1. q \in Int /\ 0 <= q /\ q < N
    BY <1>1, <1>2, <1>4
  <2>2. j + i = (m + 1) * N + q /\ j + i \in Int /\ m + 1 \in Int
    <3> DEFINE p == m * N
    <3>1. p \in Int /\ j = p + x /\ (m + 1) * N = p + N
      BY <1>1, <1>2
    <3> HIDE DEF p
    <3> QED
      BY <1>1, <1>2, <3>1
  <2> HIDE DEF q
  <2>3. Ring(j + i) = q
    BY <2>1, <2>2, RingUnique
  <2> QED
    BY <2>3 DEF q
<1>5. j >= x
  <2>1. CASE m >= 0
    <3> DEFINE p == m * N
    <3>1. p \in Int /\ p >= 0 /\ j = p + x
      BY <1>1, <1>2, <2>1
    <3> HIDE DEF p
    <3> QED
      BY <1>1, <3>1
  <2>2. CASE m < 0
    <3> DEFINE p == (-m - 1) * N
    <3>1. p \in Int /\ p >= 0 /\ j = x - p - N
      BY <1>1, <1>2, <2>2
    <3> HIDE DEF p
    <3> QED
      BY <1>1, <1>2, <3>1
  <2>3. m >= 0 \/ m < 0
    BY <1>1
  <2> QED
    BY <2>1, <2>2, <2>3
<1> QED
  BY <1>3, <1>4, <1>5 DEF x

LEMMA RingSmall ==
  ASSUME NEW j \in Nat, j < N
  PROVE  Ring(j) = j
<1>1. 0 \in Int /\ j = 0 * N + j /\ 0 <= j
  BY Spaces
<1> QED
  BY <1>1, RingUnique

LEMMA RingNext ==
  ASSUME NEW j \in Nat
  PROVE  (Ring(j) + 1) % N = Ring(j + 1)
<1> DEFINE x == Ring(j)
<1>1. x \in Nat /\ x < N /\ N \in Nat /\ N > 1 /\ 1 <= N
  BY RingIs, Spaces
<1>2. /\ x + 1 < N => Ring(j + 1) = x + 1
      /\ ~(x + 1 < N) => Ring(j + 1) = (x + 1) - N
  BY <1>1, RingPlus
<1> HIDE DEF x
<1>3. CASE x + 1 < N
  <2>1. Ring(x + 1) = x + 1
    BY <1>1, <1>3, RingSmall
  <2> QED
    BY <1>2, <1>3, <2>1 DEF x, Ring
<1>4. CASE ~(x + 1 < N)
  <2> DEFINE m == 1
             q == 0
             w == x + 1
  <2>1. w = m * N + q /\ w \in Int /\ m \in Int /\ q \in Int /\ 0 <= q /\ q < N
    BY <1>1, <1>4
  <2> HIDE DEF m, q, w
  <2>4. Ring(w) = q
    BY <2>1, RingUnique
  <2>2. Ring(x + 1) = 0
    BY <2>4 DEF w, q
  <2>3. (x + 1) - N = 0
    BY <1>1, <1>4
  <2> QED
    BY <1>2, <1>4, <2>2, <2>3 DEF x, Ring
<1> QED
  BY <1>3, <1>4

LEMMA RingApart ==
  ASSUME NEW j \in Nat, NEW h \in Nat, j < h, h < j + N
  PROVE  Ring(j) # Ring(h)
<1> DEFINE x == Ring(j)
           i == h - j
<1>1. x \in Nat /\ x < N /\ N \in Nat
  BY RingIs, Spaces
<1>2. i \in Nat /\ i > 0 /\ i < N /\ i <= N /\ h = j + i
  BY <1>1
<1> HIDE DEF i
<1>3. /\ x + i < N => Ring(j + i) = x + i
      /\ ~(x + i < N) => Ring(j + i) = (x + i) - N
  BY <1>2, RingPlus
<1> HIDE DEF x
<1>4. Ring(j + i) # x
  BY <1>1, <1>2, <1>3
<1> QED
  BY <1>2, <1>4 DEF x

LEMMA RingBack ==
  ASSUME NEW j \in Nat, NEW h \in Nat, j <= h, h < j + N
  PROVE  (Ring(h) - Ring(j)) % N = h - j
<1> DEFINE x == Ring(j)
           y == Ring(h)
           i == h - j
<1>1. x \in Nat /\ x < N /\ N \in Nat
  BY RingIs, Spaces
<1>2. i \in Nat /\ i < N /\ i <= N /\ h = j + i
  BY <1>1
<1> HIDE DEF i
<1>3. /\ x + i < N => y = x + i
      /\ ~(x + i < N) => y = (x + i) - N
  BY <1>2, RingPlus
<1> HIDE DEF x, y
<1>4. CASE x + i < N
  <2>1. y - x = 0 * N + i /\ y - x \in Int
    BY <1>1, <1>2, <1>3, <1>4
  <2>2. Ring(y - x) = i
    BY <1>2, <2>1, RingUnique
  <2> QED
    BY <2>2 DEF Ring, x, y, i
<1>5. CASE ~(x + i < N)
  <2>1. y - x = (-1) * N + i /\ y - x \in Int /\ -1 \in Int
    BY <1>1, <1>2, <1>3, <1>5
  <2>2. Ring(y - x) = i
    BY <1>2, <2>1, RingUnique
  <2> QED
    BY <2>2 DEF Ring, x, y, i
<1> QED
  BY <1>4, <1>5

(***************************************************************************)
(* What the window holds.  Position j of the stream is N - F spaces and    *)
(* then the data; the window is the part of it from lo to before hi.       *)
(***************************************************************************)
Stream(data, j) == IF j < N - F THEN Space ELSE data[(j - (N - F)) + 1]

Rolled(t, data, lo, hi) ==
  \A j \in Nat : lo <= j /\ j < hi =>
    /\ t[Ring(j)] = Stream(data, j)
    /\ j >= N /\ Ring(j) < F - 1 => t[Ring(j) + N] = Stream(data, j)

\* Every string that is all in the window is read in one piece.
Legible(t, data, lo, hi) ==
  \A j \in Nat, i \in Nat :
    lo <= j /\ i < F /\ j + i < hi => t[Ring(j) + i] = Stream(data, j + i)

LEMMA RolledRead ==
  ASSUME NEW t, NEW data, NEW lo \in Nat, NEW hi \in Nat, Rolled(t, data, lo, hi)
  PROVE  Legible(t, data, lo, hi)
<1> SUFFICES ASSUME NEW j \in Nat, NEW i \in Nat, lo <= j, i < F, j + i < hi
             PROVE  t[Ring(j) + i] = Stream(data, j + i)
  BY DEF Legible
<1> DEFINE x == Ring(j)
           h == j + i
<1>7. x \in Nat /\ x < N
  BY RingIs
<1>0. x \in Nat /\ x < N /\ N \in Nat /\ F \in Nat /\ F < N
  BY <1>7, Widths
<1>1. x \in Nat /\ x < N /\ N \in Nat /\ F \in Nat /\ F < N /\ i <= N
  BY <1>0
<1>2. h \in Nat /\ lo <= h /\ h < hi
  OBVIOUS
<1>3. /\ t[Ring(h)] = Stream(data, h)
      /\ h >= N /\ Ring(h) < F - 1 => t[Ring(h) + N] = Stream(data, h)
  <2> HIDE DEF h
  <2> QED
    BY <1>2 DEF Rolled
<1>4. /\ x + i < N => Ring(h) = x + i
      /\ ~(x + i < N) => Ring(h) = (x + i) - N
      /\ j >= x
  BY <1>1, RingPlus
<1> DEFINE y == Ring(h)
<1> HIDE DEF x, y
<1>5. CASE x + i < N
  <2>1. t[y] = Stream(data, h) /\ y = x + i
    BY <1>3, <1>4, <1>5 DEF y
  <2> QED
    BY <2>1 DEF x, h
<1>6. CASE ~(x + i < N)
  <2>1. y = (x + i) - N
    BY <1>4, <1>6 DEF y
  <2>2. h >= N /\ y < F - 1 /\ y + N = x + i
    BY <1>1, <1>4, <1>6, <2>1
  <2>3. t[y + N] = Stream(data, h)
    BY <1>3, <2>2 DEF y
  <2>4. t[x + i] = Stream(data, h)
    <3> HIDE DEF h
    <3> QED
      BY <2>2, <2>3, Zenon
  <2> QED
    BY <2>4 DEF x, h
<1> QED
  BY <1>5, <1>6

\* One symbol more, over the one that is gone.
LEMMA RolledOn ==
  ASSUME NEW t, NEW u, NEW data, NEW lo \in Nat, Rolled(t, data, lo, lo + N),
         \A i \in 0..N + F - 1 : u[i] = IF i = Ring(lo) \/ (i = Ring(lo) + N /\ Ring(lo) < F - 1)
                                        THEN Stream(data, lo + N) ELSE t[i]
  PROVE  Rolled(u, data, lo + 1, lo + 1 + N)
<1> DEFINE s == Ring(lo)
           c == Stream(data, lo + N)
<1>1. s \in Nat /\ s < N /\ N \in Nat /\ F \in Nat /\ F < N /\ F > 0 /\ N > 1
  BY RingIs, Widths
<1>2. Ring(lo + N) = s
  <2>1. ~(s + N < N) => Ring(lo + N) = (s + N) - N
    BY <1>1, RingPlus
  <2> HIDE DEF s
  <2> QED
    BY <1>1, <2>1
<1>3. SUFFICES ASSUME NEW j \in Nat, lo + 1 <= j, j < lo + 1 + N
      PROVE  /\ u[Ring(j)] = Stream(data, j)
             /\ j >= N /\ Ring(j) < F - 1 => u[Ring(j) + N] = Stream(data, j)
  BY DEF Rolled
<1> DEFINE x == Ring(j)
           v == Stream(data, j)
<1>4. x \in Nat /\ x < N
  BY RingIs
<1>5. CASE j = lo + N
  <2>1. x = s /\ v = c
    BY <1>2, <1>5
  <2>2. s \in 0..N + F - 1 /\ (s < F - 1 => s + N \in 0..N + F - 1)
    BY <1>1
  <2>3. u[s] = c
    BY <2>2
  <2>4. s < F - 1 => u[s + N] = c
    BY <2>2
  <2> HIDE DEF x, s, v, c
  <2>5. /\ u[x] = v
        /\ j >= N /\ x < F - 1 => u[x + N] = v
    BY <2>1, <2>3, <2>4
  <2> QED
    BY <2>5 DEF x, v
<1>6. CASE j # lo + N
  <2>1. lo < j /\ j < lo + N /\ lo <= j
    BY <1>1, <1>3, <1>6
  <2>2. x # s
    BY <2>1, RingApart
  <2>3. /\ t[x] = v
        /\ j >= N /\ x < F - 1 => t[x + N] = v
    <3> HIDE DEF v
    <3> QED
      BY <2>1 DEF Rolled, v
  <2>4. x \in 0..N + F - 1 /\ x # s + N /\ (x < F - 1 => x + N \in 0..N + F - 1 /\ x + N # s /\ x + N # s + N)
    <3> HIDE DEF x, s
    <3> QED
      BY <1>1, <1>4, <2>2
  <2>5. u[x] = t[x]
    BY <2>2, <2>4
  <2>6. x < F - 1 => u[x + N] = t[x + N]
    BY <2>4
  <2> HIDE DEF x, s, v
  <2>7. /\ u[x] = v
        /\ j >= N /\ x < F - 1 => u[x + N] = v
    BY <2>3, <2>5, <2>6
  <2> QED
    BY <2>7 DEF x, v
<1> QED
  BY <1>5, <1>6

LEMMA RolledLess ==
  ASSUME NEW t, NEW data, NEW lo \in Int, NEW hi \in Int, Rolled(t, data, lo, hi),
         NEW a \in Int, NEW b \in Int, lo <= a, b <= hi
  PROVE  Rolled(t, data, a, b)
<1> SUFFICES ASSUME NEW j \in Nat, a <= j, j < b
             PROVE  /\ t[Ring(j)] = Stream(data, j)
                    /\ j >= N /\ Ring(j) < F - 1 => t[Ring(j) + N] = Stream(data, j)
  BY DEF Rolled
<1>1. lo <= j /\ j < hi
  OBVIOUS
<1> QED
  BY <1>1 DEF Rolled

(***************************************************************************)
(* The positions in the search trees, and what the match remembered says.  *)
(***************************************************************************)
LiveIn(d, lo, hi) == \A q \in Live(d) : \E j \in Nat : lo <= j /\ j <= hi /\ q = Ring(j)

RealMatch(e, data, h, n) ==
  e.match_length > THRESHOLD =>
    \E k \in Nat : /\ 1 <= k /\ k <= N - F /\ k <= h /\ e.match_position = k - 1
                   /\ \A i \in Nat : i < e.match_length /\ i < n =>
                        Stream(data, h + i) = Stream(data, (h + i) - k)

LEMMA MatchIsReal ==
  ASSUME NEW d, NEW data, NEW lo \in Nat, NEW h \in Nat, h = lo + (N - F), NEW n \in Nat,
         Rolled(d.text, data, lo, h + n), LiveIn(d, lo, h - 1),
         NEW e \in DictSet, MatchReal(d, Ring(h), e)
  PROVE  RealMatch(e, data, h, n)
<1> DEFINE m == e.match_length
           p == e.match_position
           r == Ring(h)
           t == d.text
<1>1. m \in 0..F /\ F \in Nat /\ F < N /\ N \in Nat /\ r \in Nat /\ F > 0
  BY DictFields, RingIs, Widths
<1>2. SUFFICES ASSUME m > THRESHOLD
      PROVE  \E k \in Nat : /\ 1 <= k /\ k <= N - F /\ k <= h /\ p = k - 1
                            /\ \A i \in Nat : i < m /\ i < n =>
                                 Stream(data, h + i) = Stream(data, (h + i) - k)
  BY DEF RealMatch
<1>3. PICK q \in Live(d) : p = ((r - q) % N) - 1 /\ \A i \in 0..m - 1 : t[r + i] = t[q + i]
  BY <1>2 DEF MatchReal
<1>4. PICK j \in Nat : lo <= j /\ j <= h - 1 /\ q = Ring(j)
  BY DEF LiveIn
<1> DEFINE k == h - j
<1>5. k \in Nat /\ 1 <= k /\ k <= N - F /\ k <= h
  BY <1>1, <1>4
<1>6. (r - q) % N = k
  <2>1. j <= h /\ h < j + N
    BY <1>1, <1>4
  <2> QED
    BY <1>4, <2>1, RingBack
<1>8. Legible(t, data, lo, h + n)
  <2> DEFINE b == h + n
  <2>1. b \in Nat /\ Rolled(t, data, lo, b)
    OBVIOUS
  <2> HIDE DEF b, t
  <2>2. Legible(t, data, lo, b)
    BY <2>1, RolledRead
  <2> QED
    BY <2>2 DEF b
<1>7. ASSUME NEW i \in Nat, i < m, i < n
      PROVE  Stream(data, h + i) = Stream(data, (h + i) - k)
  <2>1. i < F /\ h + i < h + n /\ j + i < h + n /\ lo <= h /\ i \in 0..m - 1 /\ (h + i) - k = j + i /\ h + n \in Nat
    BY <1>1, <1>4, <1>7
  <2> HIDE DEF t
  <2>2. t[Ring(h) + i] = Stream(data, h + i)
    BY <1>8, <2>1 DEF Legible
  <2>3. t[Ring(j) + i] = Stream(data, j + i)
    BY <1>4, <1>8, <2>1 DEF Legible
  <2>4. t[r + i] = t[q + i]
    BY <1>3, <2>1
  <2> QED
    BY <1>4, <2>1, <2>2, <2>3, <2>4
<1>9. p = k - 1
  BY <1>3, <1>6
<1> HIDE DEF k, p, m
<1> QED
  BY <1>5, <1>7, <1>9

(***************************************************************************)
(* The encoder's window: what of the data has left it, and where the       *)
(* string to be coded next begins.                                         *)
(***************************************************************************)
Gone(z) == z.read - z.length
Ahead(z) == Gone(z) + (N - F)

\* The strings of spaces before the text.
Spacy(t, j) == j < N - F /\ \A i \in 0..F - 1 : t[j + i] = Space

\* Every other string of the window is in the trees, or one that is the same and nearer.
Findable(d, lo, h) ==
  \A j \in Nat : lo <= j /\ N - 2 * F <= j /\ j <= h /\ ~Spacy(d.text, j) =>
    \E i \in Nat : j <= i /\ i <= h /\ Ring(i) \in Live(d) /\ Same(d.text, Ring(j), Ring(i))

\* None has more in common with what comes next than the match remembered.
Longest(e, data, lo, h, n) ==
  \A j \in Nat, c \in Nat :
    /\ lo <= j /\ N - 2 * F <= j /\ j < h /\ ~Spacy(e.text, j) /\ c > THRESHOLD /\ c <= n
    /\ \A i \in Nat : i < c => Stream(data, h + i) = Stream(data, j + i)
    => c <= e.match_length

Windowed(z, data) ==
  /\ Encoder(z) /\ Planted(z.dict)
  /\ z.length <= z.read /\ z.read <= Len(data) /\ (z.length < F => z.read = Len(data))
  /\ z.s = Ring(Gone(z)) /\ z.r = Ring(Ahead(z))
  /\ Rolled(z.dict.text, data, Gone(z), Ahead(z) + z.length)
  /\ LiveIn(z.dict, Gone(z), Ahead(z))
  /\ z.length > 0 => /\ RealMatch(z.dict, data, Ahead(z), z.length)
                     /\ Findable(z.dict, Gone(z), Ahead(z))
                     /\ Longest(z.dict, data, Gone(z), Ahead(z), z.length)

LEMMA SameSymbols ==
  ASSUME NEW d \in DictSet, NEW r \in Cells, NEW x \in Cells, NEW c \in Nat, c <= F, c > 0,
         \A i \in Nat : i < c => d.text[r + i] = d.text[x + i]
  PROVE  d.text[r] = d.text[x] /\ c <= Common(d, r, x)
<1> DEFINE m == Common(d, r, x)
           t == d.text
<1>1. m \in 1..F /\ F \in Nat /\ (m < F => t[r + m] # t[x + m])
  BY CommonType, Widths
<1>2. \A i \in Nat : i < c => t[r + i] = t[x + i]
  OBVIOUS
<1> HIDE DEF m, t
<1>3. c <= m
  <2> SUFFICES ASSUME ~(c <= m) PROVE FALSE
    OBVIOUS
  <2>1. m \in Nat /\ m < c /\ m < F
    BY <1>1
  <2> QED
    BY <1>1, <1>2, <2>1
<1>4. t[r] = t[x]
  <2>1. r + 0 = r /\ x + 0 = x
    BY Spaces
  <2>2. t[r + 0] = t[x + 0]
    BY <1>2
  <2> QED
    BY <2>1, <2>2
<1> QED
  BY <1>3, <1>4 DEF m, t

\* What insert_node() remembers is as long as any.
LEMMA MatchIsLong ==
  ASSUME NEW d \in DictSet, NEW data, NEW lo \in Nat, NEW h \in Nat, h = lo + (N - F),
         NEW n \in Nat, n <= F, Rolled(d.text, data, lo, h + n), Findable(d, lo, h - 1),
         NEW e \in DictSet, e.text = d.text, Seen(d, Ring(h), {}, e)
  PROVE  Longest(e, data, lo, h, n)
<1> DEFINE r == Ring(h)
           t == d.text
<1>1. F \in Nat /\ F < N /\ N \in Nat /\ F > 0 /\ THRESHOLD \in Nat /\ e.match_length \in Nat
  BY Widths DEF DictSet
<1> SUFFICES ASSUME NEW j \in Nat, NEW c \in Nat, lo <= j, N - 2 * F <= j, j < h, ~Spacy(e.text, j),
                    c > THRESHOLD, c <= n,
                    \A i \in Nat : i < c => Stream(data, h + i) = Stream(data, j + i)
             PROVE  c <= e.match_length
  BY DEF Longest
<1>2. PICK i \in Nat : j <= i /\ i <= h - 1 /\ Ring(i) \in Live(d) /\ Same(t, Ring(j), Ring(i))
  <2>1. j <= h - 1
    OBVIOUS
  <2> QED
    BY <2>1 DEF Findable
<1>3. Legible(t, data, lo, h + n)
  <2> DEFINE b == h + n
  <2>1. b \in Nat /\ Rolled(t, data, lo, b)
    OBVIOUS
  <2> HIDE DEF b, t
  <2>2. Legible(t, data, lo, b)
    BY <2>1, RolledRead
  <2> QED
    BY <2>2 DEF b
<1>4. Ring(i) \in Cells /\ r \in Cells /\ Ring(i) \in Live(d)
  BY <1>2, RingIs
<1>5. ASSUME NEW k \in Nat, k < c PROVE t[r + k] = t[Ring(i) + k]
  <2>1. k < F /\ h + k < h + n /\ j + k < h + n /\ lo <= h /\ h + n \in Nat /\ k \in 0..F - 1
    BY <1>1, <1>5
  <2> HIDE DEF t
  <2>2. t[Ring(h) + k] = Stream(data, h + k)
    BY <1>3, <2>1 DEF Legible
  <2>3. t[Ring(j) + k] = Stream(data, j + k)
    BY <1>3, <2>1 DEF Legible
  <2>4. t[Ring(j) + k] = t[Ring(i) + k]
    BY <1>2, <2>1 DEF Same
  <2>5. Stream(data, h + k) = Stream(data, j + k)
    BY <1>5
  <2> QED
    BY <2>2, <2>3, <2>4, <2>5
<1>6. c > 0 /\ c <= F
  BY <1>1
<1> DEFINE x == Ring(i)
<1>7. t[r] = t[x] /\ c <= Common(d, r, x)
  <2>1. r \in Cells /\ x \in Cells
    BY <1>4
  <2>2. \A k \in Nat : k < c => d.text[r + k] = d.text[x + k]
    BY <1>5
  <2> HIDE DEF r, x, t
  <2>3. d.text[r] = d.text[x] /\ c <= Common(d, r, x)
    BY <1>6, <2>1, <2>2, SameSymbols
  <2> QED
    BY <2>3 DEF t
<1>8. Common(d, r, x) <= THRESHOLD \/ Common(d, r, x) <= e.match_length
  BY <1>4, <1>7 DEF Seen
<1>9. Common(d, r, x) \in 1..F
  BY CommonType
<1> HIDE DEF r, x
<1> QED
  BY <1>1, <1>7, <1>8, <1>9

LEMMA FindableOn ==
  ASSUME NEW d, NEW lo \in Nat, NEW h \in Nat, Findable(d, lo, h - 1), NEW e, Kept(d, Ring(h), e)
  PROVE  Findable(e, lo, h)
<1>1. /\ e.text = d.text /\ Ring(h) \in Live(e)
      /\ \A x \in Live(d) : x \in Live(e) \/ Same(d.text, Ring(h), x)
  BY DEF Kept, SameText
<1> DEFINE t == d.text
<1> SUFFICES ASSUME NEW j \in Nat, lo <= j, N - 2 * F <= j, j <= h, ~Spacy(t, j)
             PROVE  \E i \in Nat : j <= i /\ i <= h /\ Ring(i) \in Live(e) /\ Same(t, Ring(j), Ring(i))
  BY <1>1 DEF Findable
<1>2. CASE j = h
  <2>1. Same(t, Ring(h), Ring(h))
    BY DEF Same
  <2> QED
    BY <1>1, <1>2, <2>1
<1>3. CASE j # h
  <2>1. j <= h - 1
    BY <1>3
  <2>2. PICK i \in Nat : j <= i /\ i <= h - 1 /\ Ring(i) \in Live(d) /\ Same(t, Ring(j), Ring(i))
    BY <2>1 DEF Findable
  <2>3. i <= h
    BY <2>2
  <2>4. CASE Ring(i) \in Live(e)
    BY <2>2, <2>3, <2>4
  <2>5. CASE Same(t, Ring(h), Ring(i))
    <3>1. Same(t, Ring(j), Ring(h))
      BY <2>2, <2>5 DEF Same
    <3> QED
      BY <1>1, <3>1
  <2> QED
    BY <1>1, <2>2, <2>4, <2>5
<1> QED
  BY <1>2, <1>3

LEMMA StartPlanted ==
  ASSUME NEW data \in Texts
  PROVE  /\ StartDict(data) \in DictSet /\ Planted(StartDict(data)) /\ Live(StartDict(data)) = {}
         /\ \A x \in 0..N + F - 1 : x < (N - F) + Min({F, Len(data)}) =>
              StartDict(data).text[x] = Stream(data, x)
<1> DEFINE d == StartDict(data)
           m == Min({F, Len(data)})
           h == EmptyDictionary.text
           y == [i \in 0..N + F - 1 |-> IF i - (N - F) \in 0..m - 1 THEN data[i - (N - F) + 1] ELSE h[i]]
<1>1. d \in DictSet
  BY StartDictTyped
<1>2. d = [EmptyDictionary EXCEPT !.text = y]
  BY Zenon DEF StartDict
<1>3. h = [i \in 0..N + F - 1 |-> IF i < N - F THEN Space ELSE 0]
  BY DEF EmptyDictionary
<1>4. m \in Nat
  BY Lesser, Widths DEF Texts
<1> HIDE DEF y, d, m, h
<1>5. /\ d.text = y /\ d.dad = [i \in 0..N |-> N] /\ d.lson = [i \in 0..N |-> N]
      /\ d.rson = [i \in 0..N + LITERALS |-> N]
  BY <1>2 DEF EmptyDictionary, NIL
<1>6. /\ \A x \in Cells : d.dad[x] = N /\ d.lson[x] = N /\ d.rson[x] = N
      /\ \A x \in Roots : d.rson[x] = N
  BY <1>5, Spaces
<1>7. Live(d) = {}
  BY <1>6 DEF Live
<1>8. Heads(d.dad, d.text)
  BY <1>6 DEF Heads
<1>9. Trees(d.dad, d.lson, d.rson, [x \in Cells |-> 0])
  <2> DEFINE a == d.dad
             l == d.lson
             r == d.rson
             k == [x \in Cells |-> 0]
  <2>1. /\ \A x \in Cells : a[x] = N /\ l[x] = N /\ r[x] = N /\ k[x] = 0
        /\ \A x \in Roots : r[x] = N
    BY <1>6
  <2> HIDE DEF a, l, r, k
  <2>2. Trees(a, l, r, k)
    BY <2>1, Spaces DEF Trees
  <2> QED
    BY <2>2 DEF a, l, r, k
<1>12. Sorted(d.dad, d.lson, d.rson, d.text, [x \in 0..N |-> {}])
  BY <1>6, Spaces DEF Sorted
<1>10. Planted(d)
  BY <1>8, <1>9, <1>12 DEF Planted
<1>11. ASSUME NEW x \in 0..N + F - 1, x < (N - F) + m
       PROVE  d.text[x] = Stream(data, x)
  <2>1. y[x] = IF x - (N - F) \in 0..m - 1 THEN data[x - (N - F) + 1] ELSE h[x]
    BY DEF y
  <2>2. h[x] = IF x < N - F THEN Space ELSE 0
    BY <1>3
  <2>3. x \in Nat /\ N \in Nat /\ F \in Nat
    BY Widths
  <2>4. CASE x < N - F
    <3>1. ~(x - (N - F) \in 0..m - 1)
      BY <2>3, <2>4
    <3> QED
      BY <1>5, <2>1, <2>2, <2>4, <3>1 DEF Stream
  <2>5. CASE ~(x < N - F)
    <3>1. x - (N - F) \in 0..m - 1
      BY <1>4, <1>11, <2>3, <2>5
    <3> QED
      BY <1>5, <2>1, <2>5, <3>1 DEF Stream
  <2> QED
    BY <2>4, <2>5
<1> QED
  BY <1>1, <1>7, <1>10, <1>11 DEF d, m

\* Two of the strings that begin before the text are the same: the later one is all
\* spaces, for it is what the other is so many symbols before.
LEMMA SameSpaces ==
  ASSUME NEW t, \A x \in 0..(N - F) - 1 : t[x] = Space,
         NEW r \in Nat, NEW q \in Nat, r < q, q < N - F, Same(t, r, q)
  PROVE  Spacy(t, q)
<1> DEFINE S == {m \in Nat : \A x \in 0..m - 1 : x < F => t[q + x] = Space}
<1>0. N \in Nat /\ F \in Nat /\ F > 0 /\ F < N
  BY Widths
<1>1. 0 \in S
  OBVIOUS
<1>2. ASSUME NEW m \in Nat, m \in S PROVE m + 1 \in S
  <2>1. m < F => t[q + m] = Space
    <3> SUFFICES ASSUME m < F PROVE t[q + m] = Space
      OBVIOUS
    <3>1. t[r + m] = t[q + m]
      <4>1. m \in 0..F - 1
        BY <1>0
      <4> QED
        BY <4>1 DEF Same
    <3>2. CASE r + m < N - F
      <4>1. r + m \in 0..(N - F) - 1
        BY <1>0, <3>2
      <4> QED
        BY <3>1, <4>1
    <3>3. CASE ~(r + m < N - F)
      <4> DEFINE x == (r + m) - q
      <4>1. x \in 0..m - 1 /\ x < F /\ q + x = r + m
        BY <1>0, <3>3
      <4> HIDE DEF x
      <4>2. t[q + x] = Space
        BY <1>2, <4>1
      <4> QED
        BY <3>1, <4>1, <4>2
    <3> QED
      BY <3>2, <3>3
  <2> SUFFICES ASSUME NEW x \in 0..(m + 1) - 1, x < F PROVE t[q + x] = Space
    OBVIOUS
  <2>2. x = m \/ x \in 0..m - 1
    OBVIOUS
  <2> QED
    BY <1>2, <2>1, <2>2
<1>3. F \in S
  <2> HIDE DEF S
  <2>1. Nat \subseteq S
    BY <1>1, <1>2, NatInd
  <2> QED
    BY <1>0, <2>1
<1>4. \A x \in 0..F - 1 : t[q + x] = Space
  BY <1>0, <1>3
<1> QED
  BY <1>4 DEF Spacy

\* The strings of spaces that are in the trees at first.
Filling(d, k, e) ==
  /\ SameText(d, e) /\ Planted(e) /\ \A q \in Live(e) : q >= (N - F) - k /\ q < N - F
  /\ \A q \in Nat : (N - F) - k <= q /\ q < N - F => q \in Live(e) \/ Spacy(d.text, q)

LEMMA FilledKept ==
  ASSUME NEW d \in DictSet, Planted(d), Live(d) = {}, \A x \in 0..(N - F) - 1 : d.text[x] = Space
  PROVE  \A k \in Nat : k <= F => Filling(d, k, FilledLoop(d, N - F)[k])
<1> DEFINE w == FilledLoop(d, N - F)
           S == {k \in Nat : k <= F => Filling(d, k, w[k])}
<1>1. w[0] = d /\ \A k \in Nat : k < F => w[k + 1] = InsertNode(w[k], (N - F) - (k + 1))
  BY Widths, FilledLoopDef DEF FilledStep
<1> HIDE DEF w
<1>2. 0 \in S
  <2>1. Filling(d, 0, d)
    <3>1. \A q \in Nat : ~((N - F) - 0 <= q /\ q < N - F)
      BY Widths
    <3> QED
      BY <3>1 DEF SameText, Filling
  <2> QED
    BY <1>1, <2>1
<1>3. ASSUME NEW k \in Nat, k \in S PROVE k + 1 \in S
  <2> SUFFICES ASSUME k + 1 <= F PROVE Filling(d, k + 1, w[k + 1])
    OBVIOUS
  <2>0. N \in Nat /\ F \in Nat /\ 2 * F <= N /\ F > 0
    BY Widths
  <2>1. k < F /\ k <= F /\ (N - F) - (k + 1) \in Cells
    BY Widths DEF Cells
  <2> DEFINE r == (N - F) - (k + 1)
             c == w[k]
             e == w[k + 1]
  <2>2. Filling(d, k, c) /\ r \in Cells /\ e = InsertNode(c, r) /\ r \in Int
    BY <1>1, <1>3, <2>0, <2>1
  <2>3. c \in DictSet /\ c.text = d.text /\ Planted(c)
    BY <2>2 DEF Filling, SameText
  <2>4. \A q \in Live(c) : q >= (N - F) - k /\ q < N - F
    BY <2>2 DEF Filling
  <2>5. r < (N - F) - k /\ r >= (N - F) - (k + 1) /\ r < N - F /\ r \in Nat
    BY <2>0
  <2>10. \A q \in Nat : (N - F) - (k + 1) <= q => q = r \/ ((N - F) - k <= q /\ r < q)
    BY <2>0
  <2> HIDE DEF r, c, e
  <2>6. r \notin Live(c)
    BY <2>0, <2>2, <2>4, <2>5
  <2>7. Kept(c, r, e)
    BY <2>2, <2>3, <2>6, InsertTrees
  <2>8. ASSUME NEW q \in Live(e) PROVE q >= (N - F) - (k + 1) /\ q < N - F
    <3>1. q \in Live(c) \/ q = r
      BY <2>7 DEF Kept
    <3>2. q \in Nat
      BY Spaces DEF Live
    <3> QED
      BY <2>0, <2>4, <2>5, <3>1, <3>2
  <2>9. ASSUME NEW q \in Nat, (N - F) - (k + 1) <= q, q < N - F
        PROVE  q \in Live(e) \/ Spacy(d.text, q)
    <3>1. CASE q = r
      BY <2>7, <3>1 DEF Kept
    <3>2. CASE (N - F) - k <= q /\ r < q
      <4>1. q \in Live(c) \/ Spacy(d.text, q)
        BY <2>2, <2>9, <3>2 DEF Filling
      <4>2. q \in Live(c) => q \in Live(e) \/ Same(d.text, r, q)
        BY <2>3, <2>7 DEF Kept
      <4>3. Same(d.text, r, q) => Spacy(d.text, q)
        BY <2>5, <2>9, <3>2, SameSpaces
      <4> QED
        BY <4>1, <4>2, <4>3
    <3> QED
      BY <2>9, <2>10, <3>1, <3>2
  <2>11. Planted(e) /\ SameText(d, e)
    BY <2>3, <2>7 DEF Kept, SameText
  <2> QED
    BY <2>8, <2>9, <2>11 DEF Filling, e
<1> HIDE DEF S
<1>4. Nat \subseteq S
  BY <1>2, <1>3, NatInd
<1> QED
  BY <1>4 DEF S, w

LEMMA StartWindowed ==
  ASSUME NEW data \in Texts
  PROVE  Windowed(StartCompress(data), data) /\ Gone(StartCompress(data)) = 0
<1> DEFINE m == Min({F, Len(data)})
           d == StartDict(data)
           f == FilledLoop(d, N - F)[F]
           r == N - F
           e == InsertNode(f, r)
           z == StartCompress(data)
<1>1. m \in Nat /\ m = IF F <= Len(data) THEN F ELSE Len(data)
  BY Lesser, Widths DEF Texts
<1>2. N \in Nat /\ F \in Nat /\ 2 * F <= N /\ F > 0 /\ F < N /\ Len(data) \in Nat
  BY Widths DEF Texts
<1>3. z = [dict |-> e, huff |-> StartHuff, s |-> 0, r |-> r, read |-> m, length |-> m,
           out |-> <<>>, widest |-> 0]
  BY StartCompressIs
<1>4. Encoder(z)
  BY StartCompressTyped
<1>5. d \in DictSet /\ Planted(d) /\ Live(d) = {}
      /\ \A x \in 0..N + F - 1 : x < r + m => d.text[x] = Stream(data, x)
  BY StartPlanted
<1> HIDE DEF d, m
<1>6. Filling(d, F, f)
  <2>3. \A x \in 0..(N - F) - 1 : d.text[x] = Space
    <3> SUFFICES ASSUME NEW x \in 0..(N - F) - 1 PROVE d.text[x] = Space
      OBVIOUS
    <3>1. x \in 0..N + F - 1 /\ x < N - F /\ x < (N - F) + m
      BY <1>1, <1>2
    <3>2. Stream(data, x) = Space
      BY <3>1 DEF Stream
    <3> QED
      BY <1>5, <3>1, <3>2
  <2>1. \A k \in Nat : k <= F => Filling(d, k, FilledLoop(d, N - F)[k])
    BY <1>5, <2>3, FilledKept
  <2>2. F \in Nat /\ F <= F
    BY <1>2
  <2> QED
    BY <2>1, <2>2
<1>7. f \in DictSet /\ f.text = d.text /\ Planted(f) /\ \A q \in Live(f) : q >= r - F /\ q < r
  BY <1>6 DEF Filling, SameText
<1> HIDE DEF f
<1>8. r \in Nat /\ r < N /\ r >= F /\ r \in Cells /\ r \notin Live(f)
  <2>1. r \in Nat /\ r < N /\ r >= F
    BY <1>2
  <2>2. r \notin Live(f)
    <3> HIDE DEF r
    <3> QED
      BY <2>1, <1>7
  <2> QED
    BY <1>2, <2>1, <2>2 DEF Cells
<1> HIDE DEF z
<1>9. z.dict = e /\ z.s = 0 /\ z.r = r /\ z.read = m /\ z.length = m
  BY <1>3
<1> HIDE DEF e
<1>10. Kept(f, r, e)
  BY <1>7, <1>8, InsertTrees DEF e
<1>11. Gone(z) = 0 /\ Ahead(z) = r /\ Ring(0) = 0 /\ Ring(r) = r
  BY <1>1, <1>2, <1>8, <1>9, RingSmall DEF Gone, Ahead
<1> HIDE DEF r
<1>12. e \in DictSet /\ e.text = d.text /\ f.text = d.text
  BY <1>7, <1>10 DEF Kept, SameText
<1>13. Rolled(d.text, data, 0, r + m)
  <2> SUFFICES ASSUME NEW j \in Nat, 0 <= j, j < r + m
               PROVE  /\ d.text[Ring(j)] = Stream(data, j)
                      /\ j >= N /\ Ring(j) < F - 1 => d.text[Ring(j) + N] = Stream(data, j)
    BY DEF Rolled
  <2>1. r + m <= N
    BY <1>1, <1>2 DEF r
  <2>2. j < N /\ j \in 0..N + F - 1 /\ ~(j >= N)
    BY <1>1, <1>2, <1>8, <2>1
  <2>3. Ring(j) = j
    BY <2>2, RingSmall
  <2> QED
    BY <1>5, <2>2, <2>3
<1>14. ASSUME NEW q, q \in Live(f) PROVE q \in Nat /\ 0 <= q /\ q <= r - 1 /\ q = Ring(q)
  <2>1. q \in Cells
    BY <1>14 DEF Live
  <2>2. q \in Nat /\ q < N /\ q < r
    BY <1>7, <1>14, <2>1, Spaces
  <2> QED
    BY <1>8, <2>2, RingSmall
<1>15. LiveIn(f, 0, r - 1)
  BY <1>14 DEF LiveIn
<1>16. LiveIn(e, 0, r)
  <2> SUFFICES ASSUME NEW q \in Live(e)
               PROVE  \E j \in Nat : 0 <= j /\ j <= r /\ q = Ring(j)
    BY DEF LiveIn
  <2>1. q \in Live(f) \/ q = r
    BY <1>10 DEF Kept
  <2>2. q \in Nat /\ 0 <= q /\ q <= r /\ q = Ring(q)
    BY <1>8, <1>11, <1>14, <2>1
  <2> QED
    BY <2>2
<1>17. RealMatch(e, data, r, m)
  <2>1. MatchReal(f, Ring(r), e)
    BY <1>10, <1>11 DEF Kept
  <2>2. r = 0 + (N - F) /\ 0 \in Nat
    BY <1>2 DEF r
  <2>3. Rolled(f.text, data, 0, r + m)
    BY <1>12, <1>13
  <2> QED
    BY <1>1, <1>8, <1>12, <1>15, <2>1, <2>2, <2>3, MatchIsReal
<1>20. \A q \in Nat : r - F <= q /\ q < r => q \in Live(f) \/ Spacy(d.text, q)
  <2>1. \A q \in Nat : (N - F) - F <= q /\ q < N - F => q \in Live(f) \/ Spacy(d.text, q)
    BY <1>6 DEF Filling
  <2> QED
    BY <2>1 DEF r
<1>21. Findable(f, 0, r - 1)
  <2> SUFFICES ASSUME NEW j \in Nat, N - 2 * F <= j, j <= r - 1, ~Spacy(f.text, j)
               PROVE  Ring(j) \in Live(f) /\ Same(f.text, Ring(j), Ring(j))
    BY DEF Findable
  <2>1. r - F <= j /\ j < r /\ j < N /\ r = N - F
    BY <1>2, <1>8 DEF r
  <2>2. j \in Live(f) /\ Ring(j) = j
    BY <1>12, <1>20, <2>1, RingSmall
  <2> QED
    BY <2>2 DEF Same
<1>22. Findable(e, 0, r)
  <2>1. Kept(f, Ring(r), e) /\ r \in Nat /\ 0 \in Nat
    BY <1>8, <1>10, <1>11
  <2> QED
    BY <1>21, <2>1, FindableOn
<1>23. Longest(e, data, 0, r, m)
  <2>1. Seen(f, Ring(r), {}, e)
    BY <1>10, <1>11 DEF Kept
  <2>2. r = 0 + (N - F) /\ 0 \in Nat
    BY <1>2 DEF r
  <2>3. Rolled(f.text, data, 0, r + m)
    BY <1>12, <1>13
  <2>4. m <= F
    BY <1>1, <1>2
  <2> QED
    BY <1>1, <1>7, <1>8, <1>12, <1>21, <2>1, <2>2, <2>3, <2>4, MatchIsLong
<1>18. z.length <= z.read /\ z.read <= Len(data) /\ (z.length < F => z.read = Len(data))
  BY <1>1, <1>2, <1>9
<1>19. Windowed(z, data)
  <2>1. Planted(z.dict)
    BY <1>9, <1>10 DEF Kept
  <2>2. z.s = Ring(Gone(z)) /\ z.r = Ring(Ahead(z))
    BY <1>9, <1>11
  <2>3. Rolled(z.dict.text, data, Gone(z), Ahead(z) + z.length)
    BY <1>9, <1>11, <1>12, <1>13
  <2>4. /\ LiveIn(z.dict, Gone(z), Ahead(z)) /\ RealMatch(z.dict, data, Ahead(z), z.length)
        /\ Findable(z.dict, Gone(z), Ahead(z)) /\ Longest(z.dict, data, Gone(z), Ahead(z), z.length)
    BY <1>9, <1>11, <1>16, <1>17, <1>22, <1>23
  <2> QED
    BY <1>4, <1>18, <2>1, <2>2, <2>3, <2>4 DEF Windowed
<1> QED
  BY <1>11, <1>19 DEF z

(***************************************************************************)
(* The window goes on by one symbol.                                       *)
(***************************************************************************)
LEMMA WindowNumbers ==
  ASSUME NEW data \in Texts, NEW z, Windowed(z, data)
  PROVE  /\ Len(data) \in Nat /\ z.read \in Nat /\ z.length \in Nat /\ z.length <= F
         /\ Gone(z) \in Nat /\ Gone(z) = z.read - z.length /\ Gone(z) <= Len(data)
         /\ Ahead(z) \in Nat /\ Ahead(z) = Gone(z) + (N - F) /\ Gone(z) + z.length = z.read
         /\ (z.length < F => z.read = Len(data)) /\ z.read <= Len(data)
         /\ (z.length = 0 <=> Gone(z) = Len(data))
<1>1. z.read \in Nat /\ z.length \in 0..F
  BY DEF Windowed, Encoder
<1>2. Len(data) \in Nat /\ N \in Nat /\ F \in Nat /\ F < N /\ F > 0
  BY Widths DEF Texts
<1>3. z.length <= z.read /\ z.read <= Len(data) /\ (z.length < F => z.read = Len(data))
  BY DEF Windowed
<1> QED
  BY <1>1, <1>2, <1>3 DEF Gone, Ahead

\* The string at x is the same in both.
Alike(u, t, x) == \A i \in 0..F - 1 : u[x + i] = t[x + i]

\* The trees when no string of theirs has changed.
LEMMA TextChanged ==
  ASSUME NEW d, Planted(d), NEW e, e.dad = d.dad, e.lson = d.lson, e.rson = d.rson,
         \A x \in Live(d) : Alike(e.text, d.text, x)
  PROVE  Planted(e) /\ Live(e) = Live(d)
<1> DEFINE a == d.dad
           l == d.lson
           r == d.rson
           t == d.text
           u == e.text
<1>1. PICK k : Trees(a, l, r, k)
  BY DEF Planted
<1>2. Heads(a, t)
  BY DEF Planted
<1>7. PICK S : Sorted(a, l, r, t, S)
  BY DEF Planted
<1>3. \A x \in Cells : a[x] # N => Alike(u, t, x)
  BY DEF Live
<1>4. Live(e) = Live(d)
  BY DEF Live
<1> HIDE DEF a, l, r, t, u
<1>8. \A x \in Cells : a[x] # N => u[x] = t[x]
  <2> SUFFICES ASSUME NEW x \in Cells, a[x] # N PROVE u[x] = t[x]
    OBVIOUS
  <2>1. 0 \in 0..F - 1 /\ x + 0 = x
    BY Spaces, Widths
  <2>2. u[x + 0] = t[x + 0]
    BY <1>3, <2>1 DEF Alike
  <2> QED
    BY <2>1, <2>2
<1>5. \A x \in Cells : a[x] # N => a[x] \in 0..N + LITERALS /\ (a[x] < N => a[a[x]] # N /\ a[x] \in Cells)
  BY <1>1, Spaces DEF Trees
<1>6. Heads(a, u)
  BY <1>2, <1>5, <1>8 DEF Heads
<1>9. ASSUME NEW x \in Cells, a[x] # N, NEW y \in Cells, a[y] # N, Before(t, x, y)
      PROVE  Before(u, x, y)
  BY <1>3, <1>9 DEF Before, Alike
<1>10. Sorted(a, l, r, u, S)
  <2>1. S[N] = {}
    BY <1>7 DEF Sorted
  <2>2. ASSUME NEW x \in Cells, a[x] # N
        PROVE  /\ S[x] = {x} \cup S[l[x]] \cup S[r[x]]
               /\ \A y \in S[x] : /\ y \in Cells /\ a[y] # N /\ S[y] \subseteq S[x]
                                  /\ y # x => a[y] \in S[x]
               /\ \A y \in S[l[x]] : Before(u, y, x)
               /\ \A y \in S[r[x]] : Before(u, x, y)
               /\ x \in S[r[N + 1 + u[x]]]
    <3>1. /\ S[x] = {x} \cup S[l[x]] \cup S[r[x]]
          /\ \A y \in S[x] : /\ y \in Cells /\ a[y] # N /\ S[y] \subseteq S[x]
                             /\ y # x => a[y] \in S[x]
          /\ \A y \in S[l[x]] : Before(t, y, x)
          /\ \A y \in S[r[x]] : Before(t, x, y)
          /\ x \in S[r[N + 1 + t[x]]]
      BY <1>7, <2>2 DEF Sorted
    <3>2. \A y \in S[l[x]] : Before(u, y, x)
      BY <1>9, <2>2, <3>1
    <3>3. \A y \in S[r[x]] : Before(u, x, y)
      BY <1>9, <2>2, <3>1
    <3> QED
      BY <1>8, <2>2, <3>1, <3>2, <3>3
  <2> QED
    BY <2>1, <2>2 DEF Sorted
<1> QED
  BY <1>1, <1>4, <1>6, <1>10 DEF Planted, a, l, r, u

\* The strings that stay in the window do not reach the place of the symbol that goes.
LEMMA Untouched ==
  ASSUME NEW lo \in Nat, NEW h \in Nat, h = lo + (N - F), NEW j \in Nat, lo + 1 <= j, j <= h,
         NEW i \in 0..F - 1
  PROVE  /\ Ring(j) + i # Ring(lo) /\ Ring(j) + i # Ring(lo) + N
         /\ Ring(j) + i \in 0..N + F - 1
<1> DEFINE x == Ring(j)
           s == Ring(lo)
           g == j + i
<1>1. F \in Nat /\ F > 0 /\ F < N /\ N \in Nat /\ i \in Nat /\ i <= N
  BY Widths
<1>2. /\ x + i < N => Ring(g) = x + i
      /\ ~(x + i < N) => Ring(g) = (x + i) - N
  BY <1>1, RingPlus
<1>3. x \in Nat /\ x < N /\ s \in Nat /\ s < N
  BY RingIs
<1>4. g \in Nat /\ lo < g /\ g < lo + N
  BY <1>1
<1> HIDE DEF g
<1>5. s # Ring(g)
  BY <1>4, RingApart
<1> DEFINE y == Ring(g)
<1> HIDE DEF x, s, y
<1>6. x + i # s /\ x + i # s + N /\ x + i \in 0..N + F - 1
  BY <1>1, <1>2, <1>3, <1>5 DEF y
<1> QED
  BY <1>6 DEF x, s

LEMMA StaysFindable ==
  ASSUME NEW d, NEW e, NEW lo \in Nat, NEW h \in Nat, h = lo + (N - F), Findable(d, lo, h),
         Live(e) = Live(d) \ {Ring(lo)},
         \A j \in Nat : lo + 1 <= j /\ j <= h => Alike(e.text, d.text, Ring(j))
  PROVE  Findable(e, lo + 1, h)
<1> DEFINE t == d.text
           u == e.text
<1>1. N \in Nat /\ F \in Nat /\ F > 0 /\ F < N
  BY Widths
<1> SUFFICES ASSUME NEW j \in Nat, lo + 1 <= j, N - 2 * F <= j, j <= h, ~Spacy(u, j)
             PROVE  \E i \in Nat : j <= i /\ i <= h /\ Ring(i) \in Live(e) /\ Same(u, Ring(j), Ring(i))
  BY DEF Findable
<1>2. Alike(u, t, Ring(j))
  OBVIOUS
<1>3. ~Spacy(t, j)
  <2> SUFFICES ASSUME Spacy(t, j) PROVE Spacy(u, j)
    OBVIOUS
  <2>1. j < N - F /\ \A i \in 0..F - 1 : t[j + i] = Space
    BY DEF Spacy
  <2>2. Ring(j) = j
    BY <1>1, <2>1, RingSmall
  <2>3. Alike(u, t, j)
    BY <1>2, <2>2
  <2> HIDE DEF u, t
  <2> QED
    BY <2>1, <2>3 DEF Spacy, Alike
<1>4. PICK i \in Nat : j <= i /\ i <= h /\ Ring(i) \in Live(d) /\ Same(t, Ring(j), Ring(i))
  <2>1. lo <= j
    OBVIOUS
  <2> QED
    BY <1>3, <2>1 DEF Findable
<1>5. lo + 1 <= i /\ lo < i /\ i < lo + N
  BY <1>1, <1>4
<1>6. Alike(u, t, Ring(i)) /\ Ring(i) # Ring(lo)
  BY <1>4, <1>5, RingApart
<1>7. Same(u, Ring(j), Ring(i))
  <2>1. Alike(u, t, Ring(j)) /\ Alike(u, t, Ring(i)) /\ Same(t, Ring(j), Ring(i))
    BY <1>2, <1>4, <1>6
  <2> HIDE DEF u, t
  <2> QED
    BY <2>1 DEF Same, Alike
<1>8. Ring(i) \in Live(e)
  BY <1>4, <1>6
<1> QED
  BY <1>4, <1>7, <1>8

LEMMA MovedOnIs ==
  ASSUME NEW data \in Texts, NEW z, Windowed(z, data), z.length > 0
  PROVE  LET e == MovedOn(z, data)
         IN  /\ e \in DictSet /\ Planted(e) /\ Live(e) = Live(z.dict) \ {z.s}
             /\ Findable(e, Gone(z) + 1, Ahead(z))
             /\ More(z, data) => Rolled(e.text, data, Gone(z) + 1, Ahead(z) + 1 + z.length)
             /\ ~More(z, data) => Rolled(e.text, data, Gone(z) + 1, Ahead(z) + z.length)
<1> DEFINE e == MovedOn(z, data)
           p == Gone(z)
           h == Ahead(z)
           n == z.length
           s == z.s
           d == DeleteNode(z.dict, s)
           t == z.dict.text
           more == More(z, data)
<1>1. Encoder(z) /\ z.dict \in DictSet /\ Planted(z.dict) /\ s \in Cells /\ s = Ring(p)
      /\ Rolled(t, data, p, h + n) /\ LiveIn(z.dict, p, h) /\ Findable(z.dict, p, h)
  BY DEF Windowed, Encoder
<1>2. /\ Len(data) \in Nat /\ z.read \in Nat /\ n \in Nat /\ n <= F /\ p \in Nat /\ h \in Nat
      /\ h = p + (N - F) /\ p + n = z.read /\ (n < F => z.read = Len(data)) /\ z.read <= Len(data)
  BY WindowNumbers
<1>3. /\ e \in DictSet
      /\ ~more => e.text = t
      /\ more => \A i \in 0..N + F - 1 : e.text[i] =
                   IF i = s \/ (i = s + N /\ s < F - 1) THEN data[z.read + 1] ELSE t[i]
  BY <1>1, ShiftedTyped
<1>4. d \in DictSet /\ d.text = t /\ Planted(d) /\ Live(d) = Live(z.dict) \ {s}
  BY <1>1, DeleteTrees DEF SameText
<1>5. e.dad = d.dad /\ e.lson = d.lson /\ e.rson = d.rson
  <2> DEFINE y == NextText(z, data)
  <2>1. e = IF ~more THEN d ELSE [d EXCEPT !.text = y]
    BY Zenon DEF MovedOn
  <2> HIDE DEF e, d, y, more
  <2>2. d = [text |-> d.text, dad |-> d.dad, lson |-> d.lson, rson |-> d.rson,
             match_length |-> d.match_length, match_position |-> d.match_position]
    BY <1>4 DEF DictSet
  <2>3. [d EXCEPT !.text = y].dad = d.dad /\ [d EXCEPT !.text = y].lson = d.lson
        /\ [d EXCEPT !.text = y].rson = d.rson
    BY <2>2
  <2> QED
    BY <2>1, <2>3
<1>6. N \in Nat /\ F \in Nat /\ F > 0 /\ F < N
  BY Widths
<1> HIDE DEF e, d, t, p, h, n, s
<1>7. more => n = F /\ h + n = p + N /\ data[z.read + 1] = Stream(data, p + N)
  <2> SUFFICES ASSUME more PROVE n = F /\ h + n = p + N /\ data[z.read + 1] = Stream(data, p + N)
    OBVIOUS
  <2>1. z.read < Len(data)
    BY DEF More
  <2>2. n = F
    BY <1>2, <1>6, <2>1
  <2>3. ~(p + N < N - F) /\ (p + N) - (N - F) = z.read /\ h + n = p + N
    BY <1>2, <1>6, <2>2
  <2> QED
    BY <2>2, <2>3 DEF Stream
<1>8. ASSUME NEW j \in Nat, p + 1 <= j, j <= h PROVE Alike(e.text, t, Ring(j))
  <2> SUFFICES ASSUME NEW i \in 0..F - 1 PROVE e.text[Ring(j) + i] = t[Ring(j) + i]
    BY DEF Alike
  <2>1. /\ Ring(j) + i # s /\ Ring(j) + i # s + N /\ Ring(j) + i \in 0..N + F - 1
    BY <1>1, <1>2, <1>8, Untouched
  <2> DEFINE x == Ring(j) + i
  <2> HIDE DEF more, x
  <2>2. e.text[x] = t[x]
    BY <1>3, <2>1 DEF x
  <2> QED
    BY <2>2 DEF x
<1>9. Planted(e) /\ Live(e) = Live(d)
  <2>1. ASSUME NEW x \in Live(d) PROVE Alike(e.text, d.text, x)
    <3>1. x \in Live(z.dict) /\ x # s
      BY <1>4
    <3>2. PICK j \in Nat : p <= j /\ j <= h /\ x = Ring(j)
      BY <1>1, <3>1 DEF LiveIn
    <3>3. j # p
      BY <1>1, <3>1, <3>2
    <3>4. p + 1 <= j
      BY <1>2, <3>2, <3>3
    <3> QED
      BY <1>4, <1>8, <3>2, <3>4
  <2> QED
    BY <1>4, <1>5, <2>1, TextChanged
<1>13. Findable(e, p + 1, h)
  <2>1. Live(e) = Live(z.dict) \ {Ring(p)}
    BY <1>1, <1>4, <1>9
  <2> DEFINE zd == z.dict
  <2>2. \A j \in Nat : p + 1 <= j /\ j <= h => Alike(e.text, zd.text, Ring(j))
    BY <1>8 DEF t
  <2>3. Findable(zd, p, h) /\ Live(e) = Live(zd) \ {Ring(p)}
    BY <1>1, <2>1
  <2> HIDE DEF zd
  <2> QED
    BY <1>2, <2>2, <2>3, StaysFindable
<1>10. more => Rolled(e.text, data, p + 1, h + 1 + n)
  <2> SUFFICES ASSUME more PROVE Rolled(e.text, data, p + 1, h + 1 + n)
    OBVIOUS
  <2> DEFINE u == e.text
  <2>1. \A i \in 0..N + F - 1 : u[i] = IF i = Ring(p) \/ (i = Ring(p) + N /\ Ring(p) < F - 1)
                                       THEN Stream(data, p + N) ELSE t[i]
    BY <1>1, <1>3, <1>7
  <2>2. Rolled(t, data, p, p + N)
    BY <1>1, <1>7
  <2> HIDE DEF u
  <2>3. Rolled(u, data, p + 1, p + 1 + N)
    BY <1>2, <2>1, <2>2, RolledOn
  <2>4. p + 1 + N = h + 1 + n
    BY <1>2, <1>6, <1>7
  <2> QED
    BY <2>3, <2>4 DEF u
<1>11. ~more => Rolled(e.text, data, p + 1, h + n)
  <2>1. ~more => Rolled(e.text, data, p, h + n)
    BY <1>1, <1>3
  <2>2. p \in Int /\ h + n \in Int /\ p + 1 \in Int /\ p <= p + 1 /\ h + n <= h + n
    BY <1>2
  <2> DEFINE u == e.text
             b == h + n
             a == p + 1
  <2>3. (~more => Rolled(u, data, p, b)) /\ p \in Int /\ b \in Int /\ a \in Int /\ p <= a /\ b <= b
    BY <2>1, <2>2
  <2> HIDE DEF u, b, a, more
  <2>4. ~more => Rolled(u, data, a, b)
    BY <2>3, RolledLess
  <2> QED
    BY <2>4 DEF u, a, b
<1> HIDE DEF more
<1>12. Live(e) = Live(z.dict) \ {s}
  BY <1>4, <1>9
<1> QED
  BY <1>3, <1>9, <1>10, <1>11, <1>12, <1>13 DEF e, p, h, n, s, more

LEMMA LiveAfter ==
  ASSUME NEW d, NEW e, NEW lo \in Nat, NEW h \in Nat, h = lo + (N - F), LiveIn(d, lo, h),
         Live(e) = Live(d) \ {Ring(lo)}
  PROVE  LiveIn(e, lo + 1, h) /\ Ring(h + 1) \notin Live(e)
<1>1. ASSUME NEW q \in Live(e)
      PROVE  \E j \in Nat : lo + 1 <= j /\ j <= h /\ q = Ring(j)
  <2>1. q \in Live(d) /\ q # Ring(lo)
    OBVIOUS
  <2>2. PICK j \in Nat : lo <= j /\ j <= h /\ q = Ring(j)
    BY <2>1 DEF LiveIn
  <2>3. j # lo
    BY <2>1, <2>2
  <2>4. lo + 1 <= j
    BY <2>2, <2>3
  <2> QED
    BY <2>2, <2>4
<1>2. LiveIn(e, lo + 1, h)
  BY <1>1 DEF LiveIn
<1>3. ASSUME Ring(h + 1) \in Live(e) PROVE FALSE
  <2>1. PICK j \in Nat : lo + 1 <= j /\ j <= h /\ Ring(h + 1) = Ring(j)
    BY <1>1, <1>3
  <2>2. h + 1 \in Nat /\ j < h + 1 /\ h + 1 < j + N
    BY <2>1, Widths
  <2> QED
    BY <2>1, <2>2, RingApart
<1> QED
  BY <1>2, <1>3

LEMMA LiveWider ==
  ASSUME NEW d, NEW lo \in Nat, NEW h \in Nat, NEW k \in Nat, h <= k, LiveIn(d, lo, h),
         NEW e, Live(e) \subseteq Live(d) \cup {Ring(k)}, lo <= k
  PROVE  LiveIn(e, lo, k)
<1> SUFFICES ASSUME NEW q \in Live(e) PROVE \E j \in Nat : lo <= j /\ j <= k /\ q = Ring(j)
  BY DEF LiveIn
<1>1. CASE q = Ring(k)
  BY <1>1
<1>2. CASE q \in Live(d)
  <2>1. PICK j \in Nat : lo <= j /\ j <= h /\ q = Ring(j)
    BY <1>2 DEF LiveIn
  <2>2. j <= k
    BY <2>1
  <2> QED
    BY <2>1, <2>2
<1> QED
  BY <1>1, <1>2

LEMMA SlideWindowed ==
  ASSUME NEW data \in Texts, NEW z, Windowed(z, data), z.length > 0
  PROVE  LET w == Slide(z, data)
         IN  Windowed(w, data) /\ Gone(w) = Gone(z) + 1 /\ IsSlid(z, data, w)
<1> DEFINE w == Slide(z, data)
           e == MovedOn(z, data)
           d == w.dict
           p == Gone(z)
           h == Ahead(z)
           n == z.length
           m == w.length
           more == More(z, data)
<1>1. Encoder(z) /\ z.s = Ring(p) /\ z.r = Ring(h) /\ LiveIn(z.dict, p, h)
  BY DEF Windowed
<1>2. IsSlid(z, data, w)
  BY <1>1, SlideIs
<1> HIDE DEF w
<1>3. /\ Len(data) \in Nat /\ z.read \in Nat /\ n \in Nat /\ n <= F /\ p \in Nat /\ h \in Nat
      /\ h = p + (N - F) /\ p + n = z.read /\ (n < F => z.read = Len(data)) /\ z.read <= Len(data)
  BY WindowNumbers
<1>4. /\ e \in DictSet /\ Planted(e) /\ Live(e) = Live(z.dict) \ {z.s}
      /\ Findable(e, p + 1, h)
      /\ more => Rolled(e.text, data, p + 1, h + 1 + n)
      /\ ~more => Rolled(e.text, data, p + 1, h + n)
  BY MovedOnIs
<1>5. /\ Encoder(w) /\ w.s = (z.s + 1) % N /\ w.r = (z.r + 1) % N
      /\ more => w.read = z.read + 1 /\ m = n
      /\ ~more => w.read = z.read /\ m = n - 1
      /\ more \/ n > 1 => d = InsertNode(e, w.r)
      /\ ~(more \/ n > 1) => d = e
  BY <1>2 DEF IsSlid
<1>6. N \in Nat /\ F \in Nat /\ F > 0 /\ F < N
  BY Widths
<1>0. (more <=> z.read < Len(data)) /\ n > 0
  BY DEF More
<1>7. /\ Gone(w) = p + 1 /\ Ahead(w) = h + 1 /\ m \in Nat /\ m <= w.read /\ w.read <= Len(data)
      /\ (m < F => w.read = Len(data))
      /\ m > 0 => more \/ n > 1
      /\ m <= F
  <2> HIDE DEF more, p, h, n, m
  <2>1. w.read - m = p + 1
    BY <1>0, <1>3, <1>5, <1>6
  <2>2. Gone(w) = p + 1 /\ Ahead(w) = h + 1
    BY <1>3, <1>6, <2>1 DEF Gone, Ahead, m
  <2> DEFINE rd == w.read
             zr == z.read
             ld == Len(data)
  <2>3. /\ ld \in Nat /\ zr \in Nat /\ n \in Nat /\ n <= F /\ p \in Nat /\ p + n = zr
        /\ (n < F => zr = ld) /\ zr <= ld /\ (more <=> zr < ld)
        /\ (more => rd = zr + 1 /\ m = n) /\ (~more => rd = zr /\ m = n - 1) /\ n > 0
    BY <1>0, <1>3, <1>5
  <2> HIDE DEF rd, zr, ld
  <2>4. m \in Nat /\ m <= rd /\ rd <= ld /\ (m < F => rd = ld) /\ (m > 0 => more \/ n > 1)
        /\ m <= F
    <3>1. CASE more
      BY <1>6, <2>3, <3>1
    <3>2. CASE ~more
      BY <1>6, <2>3, <3>2
    <3> QED
      BY <3>1, <3>2
  <2> QED
    BY <2>2, <2>4 DEF rd, ld
<1>8. w.s = Ring(p + 1) /\ w.r = Ring(h + 1)
  BY <1>1, <1>3, <1>5, RingNext
<1> HIDE DEF e, d, p, h, n, m, more
<1>9. LiveIn(e, p + 1, h) /\ Ring(h + 1) \notin Live(e)
  BY <1>1, <1>3, <1>4, LiveAfter
<1>10. Rolled(e.text, data, p + 1, h + 1 + m)
  <2>1. CASE more
    BY <1>4, <1>5, <2>1
  <2>2. CASE ~more
    <3>1. h + 1 + m = h + n
      BY <1>3, <1>5, <2>2
    <3> QED
      BY <1>4, <2>2, <3>1
  <2> QED
    BY <2>1, <2>2
<1> DEFINE a == p + 1
           b == h + 1
<1>11. a \in Nat /\ b \in Nat /\ b = a + (N - F) /\ h = b - 1 /\ h <= b /\ a <= b
  BY <1>3, <1>6
<1>12. /\ LiveIn(e, a, h) /\ Ring(b) \notin Live(e) /\ Rolled(e.text, data, a, b + m) /\ w.r = Ring(b)
       /\ w.s = Ring(a) /\ Gone(w) = a /\ Ahead(w) = b /\ Findable(e, a, h)
  BY <1>4, <1>7, <1>8, <1>9, <1>10
<1>13. Ring(b) \in Cells
  BY <1>11, RingIs
<1> HIDE DEF a, b
<1>14. /\ Planted(d) /\ d.text = e.text /\ LiveIn(d, a, b)
       /\ m > 0 => RealMatch(d, data, b, m) /\ Findable(d, a, b) /\ Longest(d, data, a, b, m)
  <2>1. CASE more \/ n > 1
    <3>1. d = InsertNode(e, Ring(b))
      BY <1>5, <1>12, <2>1
    <3>2. Kept(e, Ring(b), d)
      BY <1>4, <1>12, <1>13, <3>1, InsertTrees
    <3>3. d \in DictSet /\ d.text = e.text /\ Planted(d) /\ Live(d) \subseteq Live(e) \cup {Ring(b)}
          /\ MatchReal(e, Ring(b), d)
      BY <3>2 DEF Kept, SameText
    <3>4. LiveIn(d, a, b)
      BY <1>3, <1>11, <1>12, <3>3, LiveWider
    <3>5. RealMatch(d, data, b, m)
      <4>1. LiveIn(e, a, b - 1)
        BY <1>11, <1>12
      <4> QED
        BY <1>7, <1>11, <1>12, <3>3, <4>1, MatchIsReal
    <3>6. Findable(e, a, b - 1)
      BY <1>11, <1>12
    <3>7. Findable(d, a, b)
      BY <1>11, <3>2, <3>6, FindableOn
    <3>8. Longest(d, data, a, b, m)
      <4>1. Seen(e, Ring(b), {}, d)
        BY <3>2 DEF Kept
      <4>2. e \in DictSet /\ Rolled(e.text, data, a, b + m)
        BY <1>4, <1>12
      <4> QED
        BY <1>7, <1>11, <3>3, <3>6, <4>1, <4>2, MatchIsLong
    <3> QED
      BY <3>3, <3>4, <3>5, <3>7, <3>8
  <2>2. CASE ~(more \/ n > 1)
    <3>1. d = e /\ ~(m > 0)
      BY <1>5, <1>7, <2>2
    <3>2. Live(d) \subseteq Live(e) \cup {Ring(b)}
      BY <3>1
    <3>3. LiveIn(d, a, b)
      BY <1>3, <1>11, <1>12, <3>2, LiveWider
    <3> QED
      BY <1>4, <3>1, <3>3
  <2> QED
    BY <2>1, <2>2
<1>15. Windowed(w, data)
  <2>1. Rolled(d.text, data, a, b + m)
    BY <1>12, <1>14
  <2>2. /\ Rolled(w.dict.text, data, Gone(w), Ahead(w) + w.length) /\ Planted(w.dict)
        /\ LiveIn(w.dict, Gone(w), Ahead(w))
        /\ w.length > 0 => /\ RealMatch(w.dict, data, Ahead(w), w.length)
                           /\ Findable(w.dict, Gone(w), Ahead(w))
                           /\ Longest(w.dict, data, Gone(w), Ahead(w), w.length)
        /\ w.s = Ring(Gone(w)) /\ w.r = Ring(Ahead(w))
    BY <1>12, <1>14, <2>1 DEF d, m
  <2>3. w.length <= w.read /\ w.read <= Len(data) /\ (w.length < F => w.read = Len(data))
    BY <1>7 DEF m
  <2> QED
    BY <1>5, <2>2, <2>3, Zenon DEF Windowed
<1> QED
  BY <1>2, <1>7, <1>15 DEF w, p

(***************************************************************************)
(* One turn of compress()'s loop.                                          *)
(***************************************************************************)
LEMMA WrittenWindowed ==
  ASSUME NEW data \in Texts, NEW z, Windowed(z, data), z.length > 0
  PROVE  Windowed(Written(z), data) /\ Gone(Written(z)) = Gone(z)
<1> DEFINE y == Written(z)
<1>1. Encoder(z)
  BY DEF Windowed
<1>2. IsWritten(z, y)
  BY <1>1, WrittenIs
<1> HIDE DEF y
<1>3. Encoder(y) /\ y.dict = z.dict /\ y.s = z.s /\ y.r = z.r /\ y.read = z.read /\ y.length = z.length
  BY <1>2 DEF IsWritten
<1>4. Gone(y) = Gone(z) /\ Ahead(y) = Ahead(z)
  BY <1>3 DEF Gone, Ahead
<1>5. Windowed(y, data)
  <2>1. /\ Planted(z.dict) /\ z.length <= z.read /\ z.read <= Len(data) /\ (z.length < F => z.read = Len(data))
        /\ z.s = Ring(Gone(z)) /\ z.r = Ring(Ahead(z))
        /\ Rolled(z.dict.text, data, Gone(z), Ahead(z) + z.length)
        /\ LiveIn(z.dict, Gone(z), Ahead(z))
        /\ z.length > 0 => /\ RealMatch(z.dict, data, Ahead(z), z.length)
                           /\ Findable(z.dict, Gone(z), Ahead(z))
                           /\ Longest(z.dict, data, Gone(z), Ahead(z), z.length)
    BY DEF Windowed
  <2>2. /\ Planted(y.dict) /\ y.length <= y.read /\ y.read <= Len(data) /\ (y.length < F => y.read = Len(data))
        /\ y.s = Ring(Gone(y)) /\ y.r = Ring(Ahead(y))
        /\ Rolled(y.dict.text, data, Gone(y), Ahead(y) + y.length)
        /\ LiveIn(y.dict, Gone(y), Ahead(y))
        /\ y.length > 0 => /\ RealMatch(y.dict, data, Ahead(y), y.length)
                           /\ Findable(y.dict, Gone(y), Ahead(y))
                           /\ Longest(y.dict, data, Gone(y), Ahead(y), y.length)
    BY <1>3, <1>4, <2>1
  <2> QED
    BY <1>3, <2>2, Zenon DEF Windowed
<1> QED
  BY <1>4, <1>5 DEF y

\* What a turn writes, and how far it goes on.
Turned(z, data, k, w) ==
  /\ Windowed(w, data) /\ Gone(w) = Gone(z) + k
  /\ w.huff = Written(z).huff /\ w.out = Written(z).out /\ w.widest = Written(z).widest

LEMMA SlidWindowed ==
  ASSUME NEW data \in Texts, NEW z, Windowed(z, data), z.length > 0
  PROVE  \A k \in Nat : k <= SizeOf(z) => Turned(z, data, k, SlidLoop(z, data, SizeOf(z))[k])
<1> DEFINE n == SizeOf(z)
           w == SlidLoop(z, data, n)
           p == Gone(z)
           S == {k \in Nat : k <= n => Turned(z, data, k, w[k])}
<1>0. Encoder(z)
  BY DEF Windowed
<1>1. n \in Nat /\ n >= 1 /\ n <= z.length /\ z.length \in Nat
  <2>1. n \in 1..z.length
    BY <1>0, SymbolType
  <2>2. z.length \in Nat
    BY <1>0, EncoderNumbers
  <2> HIDE DEF n
  <2> QED
    BY <2>1, <2>2
<1>2. w[0] = Written(z) /\ \A k \in Nat : k < n => w[k + 1] = Slide(w[k], data)
  BY <1>1, SlidLoopDef DEF SlidStep
<1>3. p \in Nat /\ p + z.length <= Len(data) /\ Len(data) \in Nat
  <2>1. /\ Len(data) \in Nat /\ Gone(z) \in Nat /\ Gone(z) + z.length = z.read /\ z.read <= Len(data)
    BY WindowNumbers
  <2> QED
    BY <2>1
<1> HIDE DEF w, n, p
<1>4. 0 \in S
  <2>1. Windowed(Written(z), data) /\ Gone(Written(z)) = p
    BY WrittenWindowed DEF p
  <2>2. p + 0 = p
    BY <1>3
  <2> QED
    BY <1>2, <2>1, <2>2 DEF Turned, p
<1>5. ASSUME NEW k \in Nat, k \in S PROVE k + 1 \in S
  <2> SUFFICES ASSUME k + 1 <= n PROVE Turned(z, data, k + 1, w[k + 1])
    OBVIOUS
  <2>1. k < n /\ k <= n
    BY <1>1
  <2> DEFINE v == w[k]
             u == Slide(v, data)
  <2>2. Turned(z, data, k, v) /\ w[k + 1] = u
    BY <1>2, <1>5, <2>1
  <2> HIDE DEF v, u
  <2>3. Windowed(v, data) /\ Gone(v) = p + k
    BY <2>2 DEF Turned, p
  <2>4. v.length > 0
    <3>1. v.length \in Nat /\ (v.length = 0 <=> Gone(v) = Len(data))
      BY <2>3, WindowNumbers
    <3> QED
      BY <1>1, <1>3, <2>1, <2>3, <3>1
  <2>5. Windowed(u, data) /\ Gone(u) = Gone(v) + 1 /\ IsSlid(v, data, u)
    BY <2>3, <2>4, SlideWindowed DEF u
  <2>6. u.huff = v.huff /\ u.out = v.out /\ u.widest = v.widest
    BY <2>5 DEF IsSlid
  <2>7. Gone(u) = p + (k + 1)
    BY <1>3, <2>3, <2>5
  <2> QED
    BY <2>2, <2>5, <2>6, <2>7 DEF Turned, p
<1> HIDE DEF S
<1>6. Nat \subseteq S
  BY <1>4, <1>5, NatInd
<1> QED
  BY <1>6 DEF S, w, n

LEMMA CompressNextWindowed ==
  ASSUME NEW data \in Texts, NEW z, Windowed(z, data), z.length > 0
  PROVE  Turned(z, data, SizeOf(z), CompressNext(z, data))
<1> DEFINE n == SizeOf(z)
<1>0. Encoder(z)
  BY DEF Windowed
<1>1. n \in 1..z.length /\ z.length \in Nat
  BY <1>0, SymbolType, EncoderNumbers
<1> HIDE DEF n
<1>2. n \in Nat /\ n <= n
  BY <1>1
<1>3. Turned(z, data, n, SlidLoop(z, data, n)[n])
  BY <1>2, SlidWindowed DEF n
<1> QED
  BY <1>3, CompressNextIs DEF n

(***************************************************************************)
(* The decoder's window, and what it has put out.                          *)
(***************************************************************************)
LEMMA RingSum ==
  ASSUME NEW j \in Int, NEW i \in Int
  PROVE  (Ring(j) + i) % N = Ring(j + i)
<1> DEFINE x == Ring(j)
           y == Ring(x + i)
<1>1. PICK m \in Int : j = m * N + x /\ x \in Nat
  BY RingIs
<1> HIDE DEF x
<1>2. x + i \in Int
  BY <1>1
<1>3. PICK l \in Int : x + i = l * N + y /\ y \in Nat /\ y < N
  BY <1>2, RingIs
<1> HIDE DEF y
<1>4. N \in Nat
  BY Spaces
<1>5. j + i = (m + l) * N + y /\ m + l \in Int /\ j + i \in Int /\ y \in Int /\ 0 <= y
  <2> DEFINE p == m * N
             q == l * N
  <2>1. p \in Int /\ q \in Int /\ (m + l) * N = p + q /\ j = p + x /\ x + i = q + y
    BY <1>1, <1>3, <1>4
  <2> HIDE DEF p, q
  <2> QED
    BY <1>1, <1>3, <2>1
<1>6. Ring(j + i) = y
  BY <1>3, <1>5, RingUnique
<1> QED
  BY <1>6 DEF y, x, Ring

FirstIs(o, data, p) == o \in Texts /\ Len(o) = p /\ \A i \in 1..p : o[i] = data[i]

Filled(t, data, lo, hi) == \A j \in Nat : lo <= j /\ j < hi => t[Ring(j)] = Stream(data, j)

Decoded(v, data, p) ==
  /\ Decoder(v) /\ v.r = Ring(p + (N - F)) /\ FirstIs(v.out, data, p)
  /\ Filled(v.text, data, p, p + (N - F))

LEMMA FirstIsNext ==
  ASSUME NEW data \in Texts, NEW p \in Nat, p < Len(data), NEW o, FirstIs(o, data, p)
  PROVE  FirstIs(Append(o, data[p + 1]), data, p + 1) /\ data[p + 1] \in Codes
<1> DEFINE c == data[p + 1]
           a == Append(o, c)
<1>1. c \in Codes
  <2>1. p + 1 \in 1..Len(data)
    BY DEF Texts
  <2> QED
    BY <2>1, ElementOfSeq DEF Texts
<1>2. o \in Texts /\ Len(o) = p /\ \A i \in 1..p : o[i] = data[i]
  BY DEF FirstIs
<1> HIDE DEF c
<1>3. a \in Texts /\ Len(a) = p + 1 /\ a[p + 1] = c /\ \A i \in 1..p : a[i] = o[i]
  BY <1>1, <1>2, AppendProperties DEF Texts
<1> HIDE DEF a
<1>4. ASSUME NEW i \in 1..p + 1 PROVE a[i] = data[i]
  <2>1. i = p + 1 \/ i \in 1..p
    OBVIOUS
  <2> QED
    BY <1>2, <1>3, <2>1 DEF c
<1> QED
  BY <1>1, <1>3, <1>4 DEF FirstIs, a, c

LEMMA EmitDecoded ==
  ASSUME NEW data \in Texts, NEW p \in Nat, p < Len(data), NEW v, Decoded(v, data, p),
         NEW c, c = data[p + 1]
  PROVE  /\ Decoded(Emit(v, c), data, p + 1)
         /\ Emit(v, c).huff = v.huff /\ Emit(v, c).size = v.size /\ Emit(v, c).at = v.at
<1> DEFINE y == Emit(v, c)
           h == p + (N - F)
           t == v.text
           u == y.text
<1>1. N \in Nat /\ F \in Nat /\ F > 0 /\ F < N
  BY Widths
<1>2. h \in Nat /\ h + 1 = (p + 1) + (N - F) /\ ~(h < N - F) /\ (h - (N - F)) + 1 = p + 1 /\ h < p + N
  BY <1>1
<1>3. Decoder(v) /\ v.r = Ring(h) /\ FirstIs(v.out, data, p) /\ Filled(t, data, p, h)
  BY DEF Decoded
<1>4. FirstIs(Append(v.out, c), data, p + 1) /\ c \in Codes
  BY <1>3, FirstIsNext
<1>5. IsEmitted(v, c, y)
  BY <1>3, <1>4, EmitIs
<1>6. Stream(data, h) = c
  BY <1>2 DEF Stream
<1>7. Ring(h) \in Cells /\ t \in [Cells -> Codes]
  <2>1. t \in [Cells -> Codes]
    BY <1>3 DEF Decoder
  <2>2. h \in Int
    BY <1>2
  <2> HIDE DEF h
  <2>3. Ring(h) \in Cells
    BY <2>2, RingIs
  <2> QED
    BY <2>1, <2>3
<1> HIDE DEF y, t
<1>8. u = [t EXCEPT ![Ring(h)] = c] /\ y.r = (Ring(h) + 1) % N /\ y.out = Append(v.out, c) /\ Decoder(y)
      /\ y.huff = v.huff /\ y.size = v.size /\ y.at = v.at
  BY <1>3, <1>5 DEF IsEmitted, t
<1> HIDE DEF u, h
<1>9. \A x \in Cells : u[x] = IF x = Ring(h) THEN c ELSE t[x]
  BY <1>7, <1>8
<1>10. y.r = Ring(h + 1)
  BY <1>2, <1>8, RingNext
<1>11. ASSUME NEW j \in Nat, p + 1 <= j, j < h + 1 PROVE u[Ring(j)] = Stream(data, j)
  <2>1. Ring(j) \in Cells
    BY RingIs
  <2>2. CASE j = h
    BY <1>6, <1>9, <2>1, <2>2
  <2>3. CASE j # h
    <3>1. p <= j /\ j < h /\ h < j + N
      BY <1>1, <1>2, <1>11, <2>3
    <3>2. Ring(j) # Ring(h)
      BY <1>2, <3>1, RingApart
    <3>3. t[Ring(j)] = Stream(data, j)
      BY <1>3, <3>1 DEF Filled
    <3> QED
      BY <1>9, <2>1, <3>2, <3>3
  <2> QED
    BY <2>2, <2>3
<1>12. Filled(u, data, p + 1, h + 1)
  BY <1>11 DEF Filled
<1>13. Decoded(y, data, p + 1)
  BY <1>2, <1>4, <1>8, <1>10, <1>12 DEF Decoded, u
<1> QED
  BY <1>8, <1>13 DEF y

\* A literal as it stood k positions back, and the copy of a piece.
CopiedFrom(y, data, p, k, v) ==
  /\ Decoded(v, data, p + k) /\ v.huff = y.huff /\ v.size = y.size /\ v.at = y.at

LEMMA CopyDecodes ==
  ASSUME NEW data \in Texts, NEW p \in Nat, NEW n \in Nat, p + n <= Len(data),
         NEW y, Decoded(y, data, p),
         NEW k \in Nat, 1 <= k, k <= N - F, k <= p + (N - F),
         \A i \in Nat : i < n =>
           Stream(data, (p + (N - F)) + i) = Stream(data, ((p + (N - F)) + i) - k)
  PROVE  CopiedFrom(y, data, p, n, CopiedLoop(y, Ring((p + (N - F)) - k), n)[n])
<1> DEFINE h == p + (N - F)
           a == Ring(h - k)
           w == CopiedLoop(y, a, n)
           S == {i \in Nat : i <= n => CopiedFrom(y, data, p, i, w[i])}
<1>0. N \in Nat /\ F \in Nat /\ F > 0 /\ F < N /\ Len(data) \in Nat /\ h \in Nat /\ h - k \in Nat
  BY Widths DEF Texts
<1>1. w[0] = y /\ \A i \in Nat : i < n => w[i + 1] = Emit(w[i], w[i].text[(a + (i + 1) - 1) % N])
  BY CopiedLoopDef DEF CopiedStep
<1>2. \A i \in Nat : i < n => Stream(data, h + i) = Stream(data, (h + i) - k)
  OBVIOUS
<1> HIDE DEF w
<1>3. 0 \in S
  <2>1. p + 0 = p
    OBVIOUS
  <2> QED
    BY <1>1, <2>1 DEF CopiedFrom
<1>4. ASSUME NEW i \in Nat, i \in S PROVE i + 1 \in S
  <2> SUFFICES ASSUME i + 1 <= n PROVE CopiedFrom(y, data, p, i + 1, w[i + 1])
    OBVIOUS
  <2>1. i < n /\ i <= n
    OBVIOUS
  <2> DEFINE v == w[i]
             x == (a + (i + 1) - 1) % N
             c == v.text[x]
             j == (h + i) - k
             q == p + i
  <2>2. CopiedFrom(y, data, p, i, v) /\ w[i + 1] = Emit(v, c)
    BY <1>1, <1>4, <2>1
  <2> HIDE DEF v
  <2>3. x = Ring(j)
    <3> DEFINE b == h - k
    <3>1. b \in Int /\ b + i = j /\ a = Ring(b)
      BY <1>0
    <3> HIDE DEF b, j, h
    <3>2. a \in Int
      BY <3>1, RingIs
    <3>3. (a + (i + 1)) - 1 = a + i
      BY <3>2
    <3>4. (Ring(b) + i) % N = Ring(b + i)
      BY <3>1, RingSum
    <3> HIDE DEF a
    <3> QED
      BY <3>1, <3>3, <3>4
  <2>4. j \in Nat /\ q <= j /\ j < q + (N - F) /\ q \in Nat /\ q < Len(data)
        /\ h + i = q + (N - F) /\ ~(h + i < N - F) /\ ((h + i) - (N - F)) + 1 = q + 1
        /\ q + 1 = p + (i + 1)
    BY <1>0, <2>1
  <2>5. Decoded(v, data, q)
    BY <2>2 DEF CopiedFrom
  <2>6. v.text[Ring(j)] = Stream(data, j)
    <3> HIDE DEF j, q
    <3> QED
      BY <2>4, <2>5 DEF Decoded, Filled
  <2>7. Stream(data, h + i) = data[q + 1]
    BY <2>4 DEF Stream
  <2>8. c = data[q + 1]
    <3>1. Stream(data, h + i) = Stream(data, j)
      BY <1>2, <2>1
    <3> HIDE DEF x, j, h, q
    <3> QED
      BY <2>3, <2>6, <2>7, <3>1
  <2> HIDE DEF c, q
  <2>9. /\ Decoded(Emit(v, c), data, q + 1)
        /\ Emit(v, c).huff = v.huff /\ Emit(v, c).size = v.size /\ Emit(v, c).at = v.at
    BY <2>4, <2>5, <2>8, EmitDecoded
  <2> QED
    BY <2>2, <2>4, <2>9 DEF CopiedFrom
<1> HIDE DEF S
<1>5. Nat \subseteq S
  BY <1>3, <1>4, NatInd
<1>6. CopiedFrom(y, data, p, n, w[n])
  <2>1. n <= n
    OBVIOUS
  <2> QED
    BY <1>5, <2>1 DEF S
<1> QED
  BY <1>6 DEF w, a, h

(***************************************************************************)
(* Both ends after the same number of turns.                               *)
(***************************************************************************)
BitsBegin(s, x) == Len(s) <= Len(x) /\ \A i \in 1..Len(s) : x[i] = s[i]

LEMMA ThreeHeld ==
  ASSUME NEW a \in Seq(Bits), NEW b \in Seq(Bits), NEW c \in Seq(Bits),
         NEW x \in Seq(Bits), BitsBegin(a \o b \o c, x)
  PROVE  /\ Len(a \o b \o c) = Len(a) + Len(b) + Len(c)
         /\ Holds(x, Len(a) + 1, b) /\ Holds(x, Len(a) + 1 + Len(b), c)
<1> DEFINE d == a \o b
           e == d \o c
           la == Len(a)
           lb == Len(b)
           lc == Len(c)
<1>1. la \in Nat /\ lb \in Nat /\ lc \in Nat
  OBVIOUS
<1>2. d \in Seq(Bits) /\ Len(d) = la + lb /\ \A i \in 1..la + lb : d[i] = IF i <= la THEN a[i] ELSE b[i - la]
  BY ConcatProperties
<1> HIDE DEF d
<1>8. d \in Seq(Bits)
  BY <1>2
<1>3. Len(e) = Len(d) + lc /\ \A i \in 1..Len(d) + lc : e[i] = IF i <= Len(d) THEN d[i] ELSE c[i - Len(d)]
  BY <1>8, ConcatProperties
<1>4. BitsBegin(e, x)
  BY DEF d
<1> HIDE DEF e, la, lb, lc
<1>5. Len(e) = la + lb + lc /\ Len(e) <= Len(x) /\ Len(x) \in Nat /\ \A i \in 1..Len(e) : x[i] = e[i]
  BY <1>1, <1>2, <1>3, <1>4 DEF BitsBegin
<1>6. ASSUME NEW k \in 1..lb PROVE Bit(x, la + 1 + k - 1) = b[k]
  <2>1. la + 1 + k - 1 = la + k /\ la + k \in 1..la + lb /\ ~(la + k <= la) /\ (la + k) - la = k
        /\ la + k \in 1..Len(e) /\ la + k <= Len(d) /\ la + k \in 1..Len(d) + lc
    BY <1>1, <1>2, <1>5
  <2>2. d[la + k] = b[k]
    BY <1>2, <2>1
  <2>3. e[la + k] = d[la + k]
    BY <1>3, <2>1
  <2>4. x[la + k] = b[k] /\ la + k <= Len(x)
    BY <1>5, <2>1, <2>2, <2>3
  <2> QED
    BY <2>1, <2>4 DEF Bit
<1>7. ASSUME NEW k \in 1..lc PROVE Bit(x, (la + 1 + lb) + k - 1) = c[k]
  <2> DEFINE m == la + lb
             j == m + k
  <2>1. (la + 1 + lb) + k - 1 = j /\ j \in 1..Len(e) /\ ~(j <= Len(d)) /\ j - Len(d) = k
        /\ j \in 1..Len(d) + lc
    <3> DEFINE ld == Len(d)
               le == Len(e)
    <3>1. ld = la + lb /\ le = (la + lb) + lc
      BY <1>1, <1>2, <1>5
    <3> HIDE DEF ld, le
    <3>2. (la + 1 + lb) + k - 1 = j /\ j \in 1..le /\ ~(j <= ld) /\ j - ld = k /\ j \in 1..ld + lc
      BY <1>1, <3>1
    <3> QED
      BY <3>2 DEF ld, le
  <2> HIDE DEF j
  <2>2. e[j] = c[k]
    BY <1>3, <2>1
  <2>3. x[j] = c[k] /\ j <= Len(x)
    BY <1>5, <2>1, <2>2
  <2> QED
    BY <2>1, <2>3 DEF Bit
<1> QED
  BY <1>5, <1>6, <1>7 DEF Holds, e, d, la, lb, lc

Coupled(z, v, data) ==
  /\ Windowed(z, data) /\ Decoded(v, data, Gone(z))
  /\ v.huff = z.huff /\ v.size = Len(data) /\ v.at = Len(z.out) + 1

LEMMA StartCoupled ==
  ASSUME NEW data \in Texts
  PROVE  Coupled(StartCompress(data), StartDecompress(Len(data)), data)
<1> DEFINE z == StartCompress(data)
           n == Len(data)
           v == StartDecompress(n)
           y == [i \in 0..N - 1 |-> IF i < N - F THEN Space ELSE 0]
<1>1. Windowed(z, data) /\ Gone(z) = 0
  BY StartWindowed
<1>2. z.huff = StartHuff /\ z.out = <<>>
  BY StartCompressIs
<1>3. n \in Nat /\ N \in Nat /\ F \in Nat /\ F > 0 /\ F < N
  BY Widths DEF Texts
<1> HIDE DEF n
<1>4. Decoder(v)
  BY <1>3, StartDecompressTyped
<1>5. v = [huff |-> StartHuff, text |-> y, r |-> N - F, size |-> n, at |-> 1, out |-> <<>>]
  BY DEF StartDecompress
<1> HIDE DEF y, v, z
<1>6. v.huff = StartHuff /\ v.text = y /\ v.r = N - F /\ v.size = n /\ v.at = 1 /\ v.out = <<>>
  BY <1>5
<1>7. 0 + (N - F) = N - F /\ N - F \in Nat /\ N - F < N
  BY <1>3
<1>8. v.r = Ring(0 + (N - F))
  BY <1>6, <1>7, RingSmall
<1>9. FirstIs(v.out, data, 0)
  BY <1>6 DEF FirstIs, Texts
<1>10. Filled(v.text, data, 0, 0 + (N - F))
  <2> SUFFICES ASSUME NEW j \in Nat, j < N - F PROVE y[Ring(j)] = Stream(data, j)
    BY <1>6, <1>7 DEF Filled
  <2>1. j < N /\ j \in 0..N - 1
    BY <1>3
  <2>2. Ring(j) = j
    BY <2>1, RingSmall
  <2> QED
    BY <2>1, <2>2 DEF Stream, y
<1>11. Len(z.out) + 1 = 1
  BY <1>2
<1>12. Decoded(v, data, 0)
  BY <1>4, <1>8, <1>9, <1>10 DEF Decoded
<1>13. Coupled(z, v, data)
  BY <1>1, <1>2, <1>6, <1>11, <1>12 DEF Coupled, n
<1> QED
  BY <1>13 DEF z, v, n

\* What a turn writes is read again.
IsRead(z, v, x, data) ==
  LET c == SymbolOf(z)
  IN  /\ Char(v, x).symbol = c
      /\ Char(v, x).next = v.at + Len(CodeOf(z.huff, c))
      /\ Len(Written(z).out) + 1 = v.at + Len(CodeOf(z.huff, c)) + Len(TailOf(z))
      /\ Found(z) > THRESHOLD =>
           PosOf(v, x) = [value |-> z.dict.match_position, width |-> Len(TailOf(z))]

LEMMA TurnIsRead ==
  ASSUME NEW data \in Texts, NEW z, NEW v, Coupled(z, v, data), z.length > 0,
         Written(z).widest <= CODE_BITS, NEW x \in Seq(Bits), BitsBegin(Written(z).out, x)
  PROVE  IsRead(z, v, x, data)
<1> DEFINE y == Written(z)
           c == SymbolOf(z)
           t == z.huff
           code == CodeOf(t, c)
           e == EncodeChar(t, c)
           tail == TailOf(z)
           at == v.at
           m == z.dict.match_position
           long == Found(z) > THRESHOLD
<1>1. Windowed(z, data) /\ Encoder(z) /\ v.huff = t /\ at = Len(z.out) + 1 /\ Decoder(v)
  BY DEF Coupled, Windowed, Decoded
<1>2. Resting(t) /\ z.out \in Seq(Bits) /\ c \in 0..NCHAR - 1 /\ tail \in Seq(Bits)
  <2>1. Resting(z.huff) /\ z.out \in Seq(Bits)
    BY <1>1 DEF Encoder
  <2>2. SymbolOf(z) \in 0..NCHAR - 1 /\ TailOf(z) \in Seq(Bits)
    BY <1>1, SymbolType
  <2> QED
    BY <2>1, <2>2
<1>3. IsWritten(z, y)
  BY <1>1, WrittenIs
<1>4. y.out = z.out \o e \o tail /\ y.widest >= Len(e) /\ y.widest \in Nat
  <2>1. y.widest \in Nat
    BY <1>3 DEF IsWritten, Encoder
  <2> QED
    BY <1>3, <2>1 DEF IsWritten
<1>5. y.widest <= CODE_BITS /\ BitsBegin(y.out, x) /\ CODE_BITS \in Nat
  BY LzhufAssumption
<1> HIDE DEF y, c
<1>6. /\ code \in Seq(Bits) /\ e \in Seq(Bits) /\ Len(e) = Len(code)
      /\ Len(code) <= CODE_BITS => e = code
  <2> HIDE DEF t
  <2> QED
    BY <1>2, CodeType
<1>7. e = code
  <2> DEFINE l == Len(e)
             b == y.widest
  <2>1. l \in Nat /\ b \in Nat /\ b >= l /\ b <= CODE_BITS /\ CODE_BITS \in Nat
    BY <1>4, <1>5, <1>6
  <2> HIDE DEF l, b
  <2>2. l <= CODE_BITS
    BY <2>1
  <2> QED
    BY <1>6, <2>2 DEF l
<1> HIDE DEF t, code, e, tail, at, m, long
<1>8. y.out = z.out \o code \o tail
  BY <1>4, <1>7
<1>9. /\ Len(y.out) = Len(z.out) + Len(code) + Len(tail)
      /\ Holds(x, at, code) /\ Holds(x, at + Len(code), tail)
  <2> DEFINE o == z.out
             u == o \o code \o tail
  <2>1. o \in Seq(Bits) /\ BitsBegin(u, x) /\ code \in Seq(Bits) /\ tail \in Seq(Bits)
    BY <1>2, <1>5, <1>6, <1>8
  <2> HIDE DEF o
  <2>2. /\ Len(u) = Len(o) + Len(code) + Len(tail)
        /\ Holds(x, Len(o) + 1, code) /\ Holds(x, Len(o) + 1 + Len(code), tail)
    BY <2>1, ThreeHeld
  <2> HIDE DEF u
  <2> QED
    BY <1>1, <1>8, <2>2 DEF o, u
<1>10. at \in Nat /\ at > 0 /\ Len(z.out) \in Nat /\ Len(code) \in Nat /\ Len(tail) \in Nat
  <2>1. Len(z.out) \in Nat
    BY <1>2
  <2> QED
    BY <1>1, <1>2, <1>6, <2>1
<1>11. DecodeChar(t, x, at) = [symbol |-> c, next |-> at + Len(code)]
  <2>1. Holds(x, at, CodeOf(t, c))
    BY <1>9 DEF code
  <2>2. DecodeChar(t, x, at) = [symbol |-> c, next |-> at + Len(CodeOf(t, c))]
    BY <1>2, <1>10, <2>1, CharDecodes
  <2> QED
    BY <2>2 DEF code
<1>12. Char(v, x) = [symbol |-> c, next |-> at + Len(code)]
  BY <1>1, <1>11 DEF Char, at
<1>13. ASSUME long PROVE PosOf(v, x) = [value |-> m, width |-> Len(tail)]
  <2>1. Found(z) > THRESHOLD
    BY <1>13 DEF long
  <2>2. tail = EncodePosition(m)
    BY <2>1 DEF tail, TailOf, m
  <2>3. m \in Positions
    <3>0. Found(z) \in 0..F /\ Found(z) <= z.dict.match_length /\ z.dict.match_length \in 0..F
      BY <1>1, SymbolType, DictFields DEF Encoder
    <3>1. z.dict.match_length > THRESHOLD
      BY <2>1, <3>0, Widths
    <3>2. RealMatch(z.dict, data, Ahead(z), z.length)
      BY <1>1 DEF Windowed
    <3>3. \E k \in Nat : 1 <= k /\ k <= N - F /\ m = k - 1
      BY <3>1, <3>2 DEF RealMatch, m
    <3>4. N \in Nat /\ F \in Nat /\ F > 0 /\ N <= 4096
      BY Widths
    <3> QED
      BY <3>3, <3>4 DEF Positions
  <2> DEFINE i == at + Len(code)
  <2>4. i \in Nat /\ i > 0 /\ Holds(x, i, EncodePosition(m))
    BY <1>9, <1>10, <2>2
  <2>5. Char(v, x).next = i
    BY <1>12
  <2> HIDE DEF i
  <2>6. DecodePosition(x, i) = [value |-> m, width |-> Len(EncodePosition(m))]
    BY <2>3, <2>4, PositionDecodes
  <2> QED
    BY <2>2, <2>5, <2>6 DEF PosOf
<1>14. Len(y.out) + 1 = at + Len(code) + Len(tail)
  BY <1>1, <1>9, <1>10
<1>15. Char(v, x).symbol = c /\ Char(v, x).next = at + Len(code)
  BY <1>12
<1> QED
  BY <1>13, <1>14, <1>15 DEF IsRead, y, c, t, code, tail, at, m, long

LEMMA TurnFollowed ==
  ASSUME NEW data \in Texts, NEW z, NEW v, Coupled(z, v, data), z.length > 0,
         CompressNext(z, data).widest <= CODE_BITS,
         NEW x \in Seq(Bits), BitsBegin(CompressNext(z, data).out, x)
  PROVE  Coupled(CompressNext(z, data), DecompressNext(v, x), data)
<1> DEFINE w == CompressNext(z, data)
           c == SymbolOf(z)
           n == SizeOf(z)
           p == Gone(z)
           h == Ahead(z)
           next == Char(v, x).next
           y == Updated(v, x)
           u == DecompressNext(v, x)
           q == PosOf(v, x)
<1>1. Windowed(z, data) /\ Decoded(v, data, p) /\ v.huff = z.huff /\ v.size = Len(data) /\ v.at = Len(z.out) + 1
  BY DEF Coupled
<1>2. Encoder(z) /\ Decoder(v)
  BY <1>1 DEF Windowed, Decoded
<1>3. Turned(z, data, n, w)
  BY <1>1, CompressNextWindowed
<1>4. IsWritten(z, Written(z))
  BY <1>2, WrittenIs
<1>5. /\ Windowed(w, data) /\ Gone(w) = p + n /\ w.huff = Update(z.huff, c)
      /\ w.out = Written(z).out /\ w.widest = Written(z).widest
  BY <1>3, <1>4 DEF Turned, IsWritten
<1>6. IsRead(z, v, x, data)
  BY <1>5, TurnIsRead
<1>7. /\ Char(v, x).symbol \in 0..NCHAR - 1 /\ next \in Nat /\ next >= v.at
      /\ IsUpdated(v, Char(v, x).symbol, y)
  BY <1>2, UpdatedIs
<1>8. u = IF Char(v, x).symbol < LITERALS
          THEN [Emit(y, Char(v, x).symbol) EXCEPT !.at = next]
          ELSE [CopiedLoop(y, From(v, x), CopySize(v, x))[CopySize(v, x)] EXCEPT !.at = next + q.width]
  BY DecompressNextIs
<1>9. Char(v, x).symbol = c
  BY <1>6 DEF IsRead
<1>10. /\ Found(z) \in 0..F /\ Found(z) <= z.length /\ Found(z) <= z.dict.match_length
       /\ n \in 1..z.length /\ TailOf(z) \in Seq(Bits)
  BY <1>2, SymbolType
<1>11. /\ Len(data) \in Nat /\ z.length \in Nat /\ p \in Nat /\ h \in Nat /\ h = p + (N - F)
       /\ p + z.length <= Len(data)
  <2>1. /\ Len(data) \in Nat /\ z.read \in Nat /\ z.length \in Nat
        /\ Gone(z) \in Nat /\ Ahead(z) \in Nat /\ Ahead(z) = Gone(z) + (N - F)
        /\ Gone(z) + z.length = z.read /\ z.read <= Len(data)
    BY <1>1, WindowNumbers
  <2> QED
    BY <2>1
<1>12. N \in Nat /\ F \in Nat /\ F > 0 /\ F < N /\ THRESHOLD \in Nat /\ LITERALS \in Nat /\ THRESHOLD < F
  BY Widths
<1>13. Decoded(y, data, p) /\ y.huff = Update(z.huff, c) /\ y.size = Len(data)
  BY <1>1, <1>7, <1>9 DEF IsUpdated, Decoded
<1>14. z.r = Ring(h) /\ v.r = Ring(h)
  BY <1>1, <1>11 DEF Windowed, Decoded
<1> DEFINE Goal(g, at) ==
             /\ Decoded(g, data, p + n) /\ g.huff = Update(z.huff, c) /\ g.size = Len(data)
             /\ at \in Nat \ {0} /\ at = Len(Written(z).out) + 1 /\ u = [g EXCEPT !.at = at]
<1>15. ASSUME NEW g, NEW at, Goal(g, at)
       PROVE  Coupled(w, u, data)
  <2> DEFINE f == [g EXCEPT !.at = at]
  <2>1. Decoder(g) /\ at \in Nat \ {0} /\ u = f
    BY <1>15 DEF Decoded
  <2>2. /\ Decoder(f) /\ f.at = at /\ f.huff = g.huff /\ f.text = g.text
        /\ f.r = g.r /\ f.size = g.size /\ f.out = g.out
    BY <2>1, GoesOn
  <2> HIDE DEF f, u, w
  <2>3. Decoded(f, data, p + n)
    BY <1>15, <2>2 DEF Decoded
  <2> QED
    BY <1>5, <1>15, <2>1, <2>2, <2>3 DEF Coupled
<1> HIDE DEF u, y, w, h, p, n, c
<1>16. CASE Found(z) > THRESHOLD
  <2> DEFINE m == Found(z)
             g == CopiedLoop(y, From(v, x), CopySize(v, x))[CopySize(v, x)]
             at == next + q.width
  <2>1. m \in Nat /\ m > THRESHOLD /\ n = m /\ m <= z.length
    BY <1>10, <1>12, <1>16 DEF SizeOf, n
  <2>2. c = LITERALS - 1 - THRESHOLD + m /\ ~(c < LITERALS)
    <3>1. c = LITERALS - 1 - THRESHOLD + m
      BY <1>16 DEF SymbolOf, MatchSymbol, c
    <3> HIDE DEF m
    <3> QED
      BY <1>12, <2>1, <3>1
  <2>3. q = [value |-> z.dict.match_position, width |-> Len(TailOf(z))]
    BY <1>6, <1>16 DEF IsRead
  <2>4. q.value = z.dict.match_position /\ q.width = Len(TailOf(z))
    BY <2>3
  <2>5. PICK k \in Nat : /\ 1 <= k /\ k <= N - F /\ k <= h /\ z.dict.match_position = k - 1
                         /\ \A i \in Nat : i < z.dict.match_length /\ i < z.length =>
                              Stream(data, h + i) = Stream(data, (h + i) - k)
    <3>1. z.dict.match_length > THRESHOLD
      <4>1. z.dict.match_length \in 0..F
        BY <1>2, DictFields DEF Encoder
      <4> QED
        BY <1>10, <1>12, <1>16, <4>1
    <3>2. RealMatch(z.dict, data, h, z.length)
      BY <1>1 DEF Windowed, h
    <3> QED
      BY <3>1, <3>2 DEF RealMatch
  <2>6. CopySize(v, x) = m
    <3> DEFINE b == Len(data) - p
    <3>1. v.size - Len(v.out) = b
      BY <1>1 DEF Decoded, FirstIs
    <3>2. c - (LITERALS - 1) + THRESHOLD = m
      <4>1. m \in Nat /\ c = LITERALS - 1 - THRESHOLD + m
        BY <2>1, <2>2
      <4> HIDE DEF m
      <4> QED
        BY <1>12, <4>1
    <3>3. b \in Nat /\ m <= b
      BY <1>10, <1>11, <2>1
    <3>4. CopySize(v, x) = Min({m, b})
      BY <1>9, <3>1, <3>2 DEF CopySize
    <3> HIDE DEF m, b
    <3> QED
      BY <2>1, <3>3, <3>4, Lesser
  <2>7. From(v, x) = Ring(h - k)
    <3>1. From(v, x) = (Ring(h) - (k - 1) - 1) % N
      BY <1>14, <2>4, <2>5 DEF From
    <3>2. Ring(h) \in Nat
      BY <1>11, RingIs
    <3>3. Ring(h) - (k - 1) - 1 = Ring(h) + (-k) /\ -k \in Int /\ h + (-k) = h - k
      BY <1>11, <3>2
    <3>4. (Ring(h) + (-k)) % N = Ring(h + (-k))
      BY <1>11, <3>3, RingSum
    <3> QED
      BY <3>1, <3>3, <3>4
  <2>8. CopiedFrom(y, data, p, m, CopiedLoop(y, Ring((p + (N - F)) - k), m)[m])
    <3>1. \A i \in Nat : i < m =>
            Stream(data, (p + (N - F)) + i) = Stream(data, ((p + (N - F)) + i) - k)
      <4> SUFFICES ASSUME NEW i \in Nat, i < m
                   PROVE  Stream(data, (p + (N - F)) + i) = Stream(data, ((p + (N - F)) + i) - k)
        OBVIOUS
      <4>1. z.dict.match_length \in 0..F
        BY <1>2, DictFields DEF Encoder
      <4>2. i < z.dict.match_length /\ i < z.length
        BY <1>10, <1>11, <1>12, <4>1, SMTT(40)
      <4>3. Stream(data, h + i) = Stream(data, (h + i) - k)
        BY <2>5, <4>2
      <4> QED
        BY <1>11, <4>3
    <3>2. p + m <= Len(data) /\ k <= p + (N - F)
      BY <1>11, <2>1, <2>5
    <3> HIDE DEF m
    <3> QED
      BY <1>11, <1>13, <2>1, <2>5, <3>1, <3>2, CopyDecodes
  <2>9. CopiedFrom(y, data, p, m, g)
    <3>1. g = CopiedLoop(y, Ring((p + (N - F)) - k), m)[m]
      BY <1>11, <2>6, <2>7
    <3> QED
      BY <2>8, <3>1
  <2>10. u = [g EXCEPT !.at = at]
    BY <1>8, <1>9, <2>2
  <2>11. at = Len(Written(z).out) + 1 /\ at \in Nat \ {0}
    <3>1. next = v.at + Len(CodeOf(z.huff, c)) /\ Len(Written(z).out) + 1 = v.at + Len(CodeOf(z.huff, c)) + Len(TailOf(z))
      BY <1>6 DEF IsRead, c
    <3>2. Len(TailOf(z)) \in Nat /\ v.at \in Nat \ {0}
      BY <1>2, <1>10 DEF Decoder
    <3> QED
      BY <1>7, <2>4, <3>1, <3>2
  <2> HIDE DEF g, at, m
  <2>12. Goal(g, at)
    BY <1>13, <2>1, <2>9, <2>10, <2>11 DEF CopiedFrom
  <2> QED
    BY <1>15, <2>12 DEF w, u
<1>17. CASE ~(Found(z) > THRESHOLD)
  <2> DEFINE g == Emit(y, c)
  <2>1. n = 1 /\ c = z.dict.text[z.r] /\ TailOf(z) = <<>>
    BY <1>17 DEF SizeOf, SymbolOf, TailOf, n, c
  <2>2. c = data[p + 1] /\ p < Len(data)
    <3>1. p < Len(data)
      BY <1>10, <1>11, <2>1
    <3>2. Rolled(z.dict.text, data, p, h + z.length)
      BY <1>1 DEF Windowed, p, h
    <3>3. p <= h /\ h < h + z.length
      BY <1>10, <1>11, <1>12, <2>1
    <3>4. z.dict.text[Ring(h)] = Stream(data, h)
      BY <1>11, <3>2, <3>3 DEF Rolled
    <3>5. ~(h < N - F) /\ (h - (N - F)) + 1 = p + 1
      BY <1>11, <1>12
    <3>6. Stream(data, h) = data[p + 1]
      BY <3>5 DEF Stream
    <3> QED
      BY <1>14, <2>1, <3>1, <3>4, <3>6
  <2>3. c < LITERALS
    <3>1. c \in Codes
      BY <1>11, <1>13, <2>2, FirstIsNext DEF Decoded
    <3> QED
      BY <1>12, <3>1 DEF Codes
  <2>4. /\ Decoded(g, data, p + 1) /\ g.huff = y.huff /\ g.size = y.size
    BY <1>11, <1>13, <2>2, EmitDecoded
  <2>5. u = [g EXCEPT !.at = next]
    BY <1>8, <1>9, <2>3
  <2>6. next = Len(Written(z).out) + 1 /\ next \in Nat \ {0}
    <3>1. next = v.at + Len(CodeOf(z.huff, c)) /\ Len(Written(z).out) + 1 = v.at + Len(CodeOf(z.huff, c)) + Len(TailOf(z))
      BY <1>6 DEF IsRead, c
    <3>2. Len(TailOf(z)) = 0 /\ v.at \in Nat \ {0}
      BY <1>2, <2>1 DEF Decoder
    <3> QED
      BY <1>7, <3>1, <3>2
  <2> HIDE DEF g, next
  <2>7. Goal(g, next)
    BY <1>13, <2>1, <2>4, <2>5, <2>6
  <2> QED
    BY <1>15, <2>7 DEF w, u
<1> QED
  BY <1>16, <1>17 DEF w, u

(***************************************************************************)
(* decompress() to its end.                                                *)
(***************************************************************************)
Run(d, m, x, data) ==
  \A j \in Nat : j < m => Len(d[j].out) < Len(data) /\ d[j + 1] = DecompressNext(d[j], x)

Finishes(v, x, data) ==
  \E m \in Nat : \E d : d[0] = v /\ Run(d, m, x, data) /\ d[m].out = data

\* From what the encoder has written the decoder gets as far as the encoder.
Followed(z, data) ==
  /\ Windowed(z, data)
  /\ z.widest <= CODE_BITS =>
       \A x \in Seq(Bits) : BitsBegin(z.out, x) =>
         \E m \in Nat : \E d : /\ d[0] = StartDecompress(Len(data))
                               /\ Run(d, m, x, data) /\ Coupled(z, d[m], data)

LEMMA FollowedStart ==
  ASSUME NEW data \in Texts
  PROVE  Followed(StartCompress(data), data)
<1> DEFINE z == StartCompress(data)
           v == StartDecompress(Len(data))
<1>1. Coupled(z, v, data)
  BY StartCoupled
<1>2. Windowed(z, data)
  BY <1>1 DEF Coupled
<1> HIDE DEF z
<1>3. ASSUME NEW x \in Seq(Bits)
      PROVE  \E m \in Nat : \E d : d[0] = v /\ Run(d, m, x, data) /\ Coupled(z, d[m], data)
  <2> HIDE DEF v
  <2> DEFINE d == [j \in {0} |-> v]
  <2>1. d[0] = v
    OBVIOUS
  <2> HIDE DEF d
  <2>2. Run(d, 0, x, data)
    BY DEF Run
  <2>3. 0 \in Nat /\ Coupled(z, d[0], data)
    BY <1>1, <2>1
  <2> QED
    BY <2>1, <2>2, <2>3
<1> QED
  BY <1>2, <1>3 DEF Followed, z

LEMMA BeginsEarlier ==
  ASSUME NEW a \in Seq(Bits), NEW b \in Seq(Bits), NEW c \in Seq(Bits),
         NEW x \in Seq(Bits), BitsBegin(a \o b \o c, x)
  PROVE  BitsBegin(a, x)
<1> DEFINE d == a \o b
           e == d \o c
           la == Len(a)
           lb == Len(b)
           lc == Len(c)
<1>1. la \in Nat /\ lb \in Nat /\ lc \in Nat
  OBVIOUS
<1>2. d \in Seq(Bits) /\ Len(d) = la + lb /\ \A i \in 1..la + lb : d[i] = IF i <= la THEN a[i] ELSE b[i - la]
  BY ConcatProperties
<1> HIDE DEF d
<1>8. d \in Seq(Bits)
  BY <1>2
<1>3. Len(e) = Len(d) + lc /\ \A i \in 1..Len(d) + lc : e[i] = IF i <= Len(d) THEN d[i] ELSE c[i - Len(d)]
  BY <1>8, ConcatProperties
<1>4. BitsBegin(e, x)
  BY DEF d
<1> HIDE DEF e, la, lb, lc
<1>5. Len(e) = la + lb + lc /\ Len(e) <= Len(x) /\ Len(x) \in Nat /\ \A i \in 1..Len(e) : x[i] = e[i]
  BY <1>1, <1>2, <1>3, <1>4 DEF BitsBegin
<1>6. ASSUME NEW k \in 1..la PROVE x[k] = a[k]
  <2>1. k <= la /\ k \in 1..la + lb /\ k \in 1..Len(e) /\ k <= Len(d) /\ k \in 1..Len(d) + lc
    BY <1>1, <1>2, <1>5
  <2> QED
    BY <1>2, <1>3, <1>5, <2>1
<1>7. la <= Len(x)
  BY <1>1, <1>5
<1> QED
  BY <1>6, <1>7 DEF BitsBegin, la

LEMMA FollowedNext ==
  ASSUME NEW data \in Texts, NEW z, Followed(z, data), z.length > 0
  PROVE  Followed(CompressNext(z, data), data)
<1> DEFINE w == CompressNext(z, data)
           s == StartDecompress(Len(data))
           c == EncodeChar(z.huff, SymbolOf(z))
<1>1. Windowed(z, data) /\ Encoder(z)
  BY DEF Followed, Windowed
<1>2. Turned(z, data, SizeOf(z), w)
  BY <1>1, CompressNextWindowed
<1>3. IsWritten(z, Written(z))
  BY <1>1, WrittenIs
<1>4. w.out = z.out \o c \o TailOf(z) /\ w.widest >= z.widest /\ Windowed(w, data)
  BY <1>2, <1>3 DEF Turned, IsWritten
<1>5. z.out \in Seq(Bits) /\ c \in Seq(Bits) /\ TailOf(z) \in Seq(Bits) /\ z.widest \in Nat
  <2>1. Resting(z.huff) /\ SymbolOf(z) \in 0..NCHAR - 1 /\ TailOf(z) \in Seq(Bits)
        /\ z.out \in Seq(Bits) /\ z.widest \in Nat
    BY <1>1, SymbolType DEF Encoder
  <2> QED
    BY <2>1, CodeType
<1>6. w.widest \in Nat /\ CODE_BITS \in Nat
  BY <1>4, LzhufAssumption DEF Windowed, Encoder
<1> HIDE DEF w, c, s
<1>7. ASSUME w.widest <= CODE_BITS, NEW x \in Seq(Bits), BitsBegin(w.out, x)
      PROVE  \E m \in Nat : \E d : d[0] = s /\ Run(d, m, x, data) /\ Coupled(w, d[m], data)
  <2>1. z.widest <= CODE_BITS
    BY <1>4, <1>5, <1>6, <1>7
  <2>2. BitsBegin(z.out, x)
    <3> DEFINE a == z.out
               b == TailOf(z)
    <3>1. BitsBegin(a \o c \o b, x) /\ a \in Seq(Bits) /\ b \in Seq(Bits)
      BY <1>4, <1>5, <1>7
    <3> HIDE DEF a, b
    <3>2. BitsBegin(a, x)
      BY <1>5, <1>7, <3>1, BeginsEarlier
    <3> QED
      BY <3>2 DEF a
  <2>3. PICK m \in Nat : \E d : d[0] = s /\ Run(d, m, x, data) /\ Coupled(z, d[m], data)
    BY <2>1, <2>2, <1>7 DEF Followed, s
  <2>9. PICK d : d[0] = s /\ Run(d, m, x, data) /\ Coupled(z, d[m], data)
    BY <2>3
  <2> DEFINE v == d[m]
             u == DecompressNext(v, x)
             e == [j \in 0..m + 1 |-> IF j = m + 1 THEN u ELSE d[j]]
  <2>4. Coupled(w, u, data)
    BY <1>7, <2>9, TurnFollowed DEF w
  <2>5. Len(v.out) < Len(data)
    <3>1. FirstIs(v.out, data, Gone(z))
      BY <2>9 DEF Coupled, Decoded
    <3>2. z.length \in Nat /\ Gone(z) <= Len(data) /\ Gone(z) \in Nat /\ Len(data) \in Nat
          /\ (z.length = 0 <=> Gone(z) = Len(data))
      BY <1>1, WindowNumbers
    <3>3. Gone(z) < Len(data)
      BY <3>2
    <3> QED
      BY <3>1, <3>3 DEF FirstIs
  <2> HIDE DEF u
  <2>6. e[0] = s /\ e[m + 1] = u /\ e[m] = v /\ m + 1 \in Nat
        /\ \A j \in Nat : j < m => e[j] = d[j] /\ e[j + 1] = d[j + 1]
    <3>1. 0 \in 0..m + 1 /\ 0 # m + 1 /\ m + 1 \in 0..m + 1 /\ m \in 0..m + 1 /\ m # m + 1
      OBVIOUS
    <3>2. \A j \in Nat : j < m => j \in 0..m + 1 /\ j # m + 1 /\ j + 1 \in 0..m + 1 /\ j + 1 # m + 1
      OBVIOUS
    <3> QED
      BY <2>9, <3>1, <3>2
  <2> HIDE DEF e, v
  <2>7. Run(e, m + 1, x, data)
    <3> SUFFICES ASSUME NEW j \in Nat, j < m + 1
                 PROVE  Len(e[j].out) < Len(data) /\ e[j + 1] = DecompressNext(e[j], x)
      BY DEF Run
    <3>1. CASE j = m
      BY <2>5, <2>6, <3>1 DEF u
    <3>2. CASE j # m
      <4>1. j < m
        BY <3>2
      <4> QED
        BY <2>9, <2>6, <4>1 DEF Run
    <3> QED
      BY <3>1, <3>2
  <2>8. Coupled(w, e[m + 1], data)
    BY <2>4, <2>6
  <2> QED
    BY <2>6, <2>7, <2>8
<1> QED
  BY <1>4, <1>7 DEF Followed, s, w

\* Bits from which, whatever follows them, the text is got back.
Decodable(bits, data) ==
  \A x \in Seq(Bits) : BitsBegin(bits, x) => Finishes(StartDecompress(Len(data)), x, data)

LEMMA FollowedEnd ==
  ASSUME NEW data \in Texts, NEW z, Followed(z, data), z.length = 0, z.widest <= CODE_BITS
  PROVE  Decodable(z.out, data)
<1> SUFFICES ASSUME NEW x \in Seq(Bits), BitsBegin(z.out, x)
             PROVE  Finishes(StartDecompress(Len(data)), x, data)
  BY DEF Decodable
<1>7. PICK m \in Nat : \E d : d[0] = StartDecompress(Len(data)) /\ Run(d, m, x, data) /\ Coupled(z, d[m], data)
  BY DEF Followed
<1>1. PICK d : d[0] = StartDecompress(Len(data)) /\ Run(d, m, x, data) /\ Coupled(z, d[m], data)
  BY <1>7
<1> DEFINE o == d[m].out
<1>2. Windowed(z, data) /\ FirstIs(o, data, Gone(z))
  BY <1>1 DEF Coupled, Decoded
<1>3. Gone(z) = Len(data)
  BY <1>2, WindowNumbers
<1> HIDE DEF o
<1>4. o \in Texts /\ Len(o) = Len(data) /\ \A i \in 1..Len(data) : o[i] = data[i]
  BY <1>2, <1>3 DEF FirstIs
<1>5. o = data
  BY <1>4, SeqEqual DEF Texts
<1> QED
  BY <1>1, <1>5 DEF Finishes, o

LEMMA FinishesNext ==
  ASSUME NEW v, NEW x, NEW data, Finishes(v, x, data)
  PROVE  /\ Len(v.out) < Len(data) => Finishes(DecompressNext(v, x), x, data)
         /\ ~(Len(v.out) < Len(data)) => v.out = data
<1>7. PICK m \in Nat : \E d : d[0] = v /\ Run(d, m, x, data) /\ d[m].out = data
  BY DEF Finishes
<1>1. PICK d : d[0] = v /\ Run(d, m, x, data) /\ d[m].out = data
  BY <1>7
<1>2. CASE m = 0
  <2>1. v.out = data
    BY <1>1, <1>2
  <2> DEFINE l == Len(data)
  <2>2. Len(v.out) = l
    BY <2>1
  <2>3. ASSUME Len(v.out) < Len(data) PROVE Finishes(DecompressNext(v, x), x, data)
    <3> DEFINE u == DecompressNext(v, x)
    <3> QED
      BY <2>1, <2>3
  <2> QED
    BY <2>1, <2>3
<1>3. CASE m # 0
  <2> DEFINE n == m - 1
             e == [j \in Nat |-> d[j + 1]]
  <2>1. n \in Nat /\ n + 1 = m /\ 0 < m /\ 0 \in Nat /\ 0 + 1 = 1
    BY <1>3
  <2> HIDE DEF n
  <2>2. Len(v.out) < Len(data) /\ d[1] = DecompressNext(v, x)
    BY <1>1, <2>1 DEF Run
  <2>3. \A j \in Nat : e[j] = d[j + 1]
    OBVIOUS
  <2> HIDE DEF e
  <2>4. ASSUME NEW j \in Nat, j < n
        PROVE  Len(e[j].out) < Len(data) /\ e[j + 1] = DecompressNext(e[j], x)
    <3>1. j + 1 \in Nat /\ j + 1 < m
      BY <2>1, <2>4
    <3>2. Len(d[j + 1].out) < Len(data) /\ d[(j + 1) + 1] = DecompressNext(d[j + 1], x)
      BY <1>1, <3>1 DEF Run
    <3> QED
      BY <2>3, <3>1, <3>2
  <2>5. Run(e, n, x, data)
    BY <2>4 DEF Run
  <2>6. e[0] = DecompressNext(v, x) /\ e[n].out = data
    BY <1>1, <2>1, <2>2, <2>3
  <2> QED
    BY <2>1, <2>2, <2>5, <2>6 DEF Finishes
<1> QED
  BY <1>2, <1>3

(***************************************************************************)
(* The library's FlattenSeq.                                               *)
(***************************************************************************)
Flats(S) == CHOOSE w : w = [i \in 1..Len(S) |-> IF i = 1 THEN S[i] ELSE w[i - 1] \o S[i]]

LEMMA FlatsDef ==
  ASSUME NEW X, NEW S \in Seq(Seq(X)), S # <<>>
  PROVE  /\ FlattenSeq(S) = Flats(S)[Len(S)]
         /\ Flats(S)[1] = S[1]
         /\ \A k \in Nat : k > 0 /\ k < Len(S) => Flats(S)[k + 1] = Flats(S)[k] \o S[k + 1]
<1> DEFINE n == Len(S)
           Glue(w, k) == IF k = 1 THEN S[k] ELSE w[k - 1] \o S[k]
           Upto(m, w) == \A k \in 1..m + 1 : w[k] = Glue(w, k)
           Z == {m \in Nat : \E w : Upto(m, w)}
<1>1. n \in Nat /\ n > 0 /\ n # 0
  BY EmptySeq
<1>2. 0 \in Z
  <2> DEFINE w == [k \in 1..1 |-> S[1]]
  <2>1. ASSUME NEW k \in 1..0 + 1 PROVE w[k] = Glue(w, k)
    <3>1. k = 1
      OBVIOUS
    <3> QED
      BY <3>1
  <2> HIDE DEF Glue, w
  <2> QED
    BY <2>1
<1>3. ASSUME NEW m \in Nat, m \in Z PROVE m + 1 \in Z
  <2>1. PICK w : Upto(m, w)
    BY <1>3
  <2> DEFINE q == m + 2
             x == [k \in 1..q |-> IF k = q THEN w[m + 1] \o S[q] ELSE w[k]]
  <2>0. q \in 1..q /\ \A k \in 1..m + 1 : k \in 1..q /\ k # q
    OBVIOUS
  <2>2. x[q] = w[m + 1] \o S[q] /\ \A k \in 1..m + 1 : x[k] = w[k]
    <3> HIDE DEF q
    <3> QED
      BY <2>0
  <2>3. q # 1 /\ q - 1 = m + 1 /\ m + 1 \in 1..m + 1
    OBVIOUS
  <2> HIDE DEF x
  <2>4. ASSUME NEW k \in 1..(m + 1) + 1 PROVE x[k] = Glue(x, k)
    <3>1. CASE k = q
      <4>1. x[q - 1] = w[m + 1]
        BY <2>2, <2>3
      <4> HIDE DEF q
      <4> QED
        BY <2>2, <2>3, <3>1, <4>1
    <3>2. CASE k # q
      <4>1. k \in 1..m + 1
        BY <3>2
      <4>2. x[k] = w[k] /\ w[k] = Glue(w, k)
        BY <2>1, <2>2, <4>1
      <4>3. ASSUME k # 1 PROVE x[k - 1] = w[k - 1]
        <5>1. k - 1 \in 1..m + 1
          BY <4>1, <4>3
        <5> QED
          BY <2>2, <5>1
      <4> QED
        BY <4>2, <4>3
    <3> QED
      BY <3>1, <3>2
  <2>5. Upto(m + 1, x)
    <3> HIDE DEF Glue
    <3> QED
      BY <2>4
  <2> HIDE DEF Upto
  <2> QED
    BY <2>5
<1>4. PICK w : Upto(n - 1, w)
  <2> HIDE DEF Upto
  <2>1. Nat \subseteq Z
    <3> HIDE DEF Z
    <3> QED
      BY <1>2, <1>3, NatInd
  <2>2. n - 1 \in Nat
    BY <1>1
  <2> QED
    BY <2>1, <2>2
<1>5. \A k \in 1..n : w[k] = Glue(w, k)
  BY <1>1, <1>4
<1> DEFINE v == [k \in 1..n |-> w[k]]
<1>6. v = [k \in 1..n |-> IF k = 1 THEN S[k] ELSE v[k - 1] \o S[k]]
  <2>1. ASSUME NEW k \in 1..n PROVE w[k] = Glue(v, k)
    <3>1. CASE k = 1
      BY <1>5, <3>1
    <3>2. CASE k # 1
      <4>1. k - 1 \in 1..n
        BY <3>2
      <4>2. v[k - 1] = w[k - 1]
        BY <4>1
      <4> HIDE DEF v
      <4> QED
        BY <1>5, <3>2, <4>2
    <3> QED
      BY <3>1, <3>2
  <2>2. v = [k \in 1..n |-> Glue(v, k)]
    BY <2>1, Zenon
  <2> HIDE DEF v
  <2> QED
    BY <2>2, Zenon
<1> DEFINE b == Flats(S)
<1> HIDE DEF v
<1>7. b = [k \in 1..n |-> IF k = 1 THEN S[k] ELSE b[k - 1] \o S[k]]
  BY <1>6, Zenon DEF Flats
<1>8. FlattenSeq(S) = b[n]
  BY <1>1, Zenon DEF FlattenSeq, Flats
<1> HIDE DEF b
<1>9. ASSUME NEW k \in 1..n PROVE b[k] = Glue(b, k)
  BY <1>7
<1>10. b[1] = S[1]
  <2>1. 1 \in 1..n
    BY <1>1
  <2> QED
    BY <1>9, <2>1
<1>11. ASSUME NEW k \in Nat, k > 0, k < n PROVE b[k + 1] = b[k] \o S[k + 1]
  <2>1. k + 1 \in 1..n /\ k + 1 # 1 /\ (k + 1) - 1 = k
    BY <1>1, <1>11
  <2>2. b[k + 1] = b[(k + 1) - 1] \o S[k + 1]
    BY <1>9, <2>1
  <2> QED
    BY <2>1, <2>2
<1> QED
  BY <1>8, <1>10, <1>11 DEF b

LEMMA FlattenEmpty == FlattenSeq(<<>>) = <<>>
BY DEF FlattenSeq

LEMMA FlattenAppend ==
  ASSUME NEW X, NEW S \in Seq(Seq(X)), NEW s \in Seq(X)
  PROVE  FlattenSeq(Append(S, s)) = FlattenSeq(S) \o s
<1> DEFINE A == Append(S, s)
           n == Len(S)
<1>1. n \in Nat /\ A \in Seq(Seq(X)) /\ A # <<>> /\ Len(A) = n + 1 /\ A[n + 1] = s
      /\ \A k \in 1..n : A[k] = S[k]
  BY AppendProperties
<1> HIDE DEF A
<1>2. FlattenSeq(A) = Flats(A)[n + 1] /\ Flats(A)[1] = A[1]
      /\ \A k \in Nat : k > 0 /\ k < n + 1 => Flats(A)[k + 1] = Flats(A)[k] \o A[k + 1]
  BY <1>1, FlatsDef
<1>3. CASE S = <<>>
  <2>1. n = 0 /\ FlattenSeq(S) = <<>> /\ n + 1 = 1 /\ <<>> \o s = s
    BY <1>3, FlattenEmpty
  <2> QED
    BY <1>1, <1>2, <2>1 DEF A
<1>4. CASE S # <<>>
  <2>1. n > 0
    BY <1>1, <1>4, EmptySeq
  <2>2. FlattenSeq(S) = Flats(S)[n] /\ Flats(S)[1] = S[1]
        /\ \A k \in Nat : k > 0 /\ k < n => Flats(S)[k + 1] = Flats(S)[k] \o S[k + 1]
    BY <1>4, FlatsDef
  <2> DEFINE Z == {k \in Nat : k + 1 <= n => Flats(A)[k + 1] = Flats(S)[k + 1]}
  <2> HIDE DEF n
  <2>3. 0 \in Z
    BY <1>1, <1>2, <2>1, <2>2
  <2>4. ASSUME NEW k \in Nat, k \in Z PROVE k + 1 \in Z
    <3> SUFFICES ASSUME (k + 1) + 1 <= n PROVE Flats(A)[(k + 1) + 1] = Flats(S)[(k + 1) + 1]
      OBVIOUS
    <3> DEFINE m == k + 1
    <3>1. m \in Nat /\ m > 0 /\ m < n /\ m <= n /\ m < n + 1 /\ m + 1 \in 1..n
      BY <1>1
    <3>2. Flats(A)[m] = Flats(S)[m]
      BY <2>4, <3>1
    <3> HIDE DEF m
    <3>3. A[m + 1] = S[m + 1]
      BY <1>1, <3>1
    <3>4. Flats(A)[m + 1] = Flats(S)[m + 1]
      BY <1>2, <2>2, <3>1, <3>2, <3>3
    <3> QED
      BY <3>4 DEF m
  <2> HIDE DEF Z
  <2>5. n - 1 \in Nat /\ (n - 1) + 1 = n
    BY <1>1, <2>1
  <2>6. n - 1 \in Z
    BY <2>3, <2>4, <2>5, NatInd
  <2>7. Flats(A)[n] = Flats(S)[n]
    BY <1>1, <2>5, <2>6 DEF Z
  <2>8. n < n + 1
    BY <1>1
  <2>9. Flats(A)[n + 1] = Flats(A)[n] \o A[n + 1]
    BY <1>1, <1>2, <2>1, <2>8
  <2> QED
    BY <1>1, <1>2, <2>2, <2>7, <2>9 DEF A
<1> QED
  BY <1>3, <1>4

LEMMA FlattenType ==
  ASSUME NEW X, NEW S \in Seq(Seq(X))
  PROVE  FlattenSeq(S) \in Seq(X)
<1> DEFINE P == {s \in Seq(Seq(X)) : FlattenSeq(s) \in Seq(X)}
<1>1. <<>> \in P
  <2>1. <<>> \in Seq(Seq(X)) /\ <<>> \in Seq(X)
    OBVIOUS
  <2>2. FlattenSeq(<<>>) \in Seq(X)
    BY <2>1, FlattenEmpty, Zenon
  <2> QED
    BY <2>1, <2>2, Zenon
<1>2. ASSUME NEW s \in Seq(Seq(X)), NEW x \in Seq(X), s \in P PROVE Append(s, x) \in P
  <2>1. FlattenSeq(Append(s, x)) = FlattenSeq(s) \o x
    BY FlattenAppend
  <2>2. FlattenSeq(s) \o x \in Seq(X)
    BY <1>2, ConcatProperties
  <2>3. Append(s, x) \in Seq(Seq(X))
    BY AppendProperties
  <2> QED
    BY <2>1, <2>2, <2>3
<1> HIDE DEF P
<1>3. S \in P
  BY <1>1, <1>2, SeqInd
<1> QED
  BY <1>3 DEF P

\* Of pieces of one length.
Even(S, w) ==
  /\ Len(FlattenSeq(S)) = w * Len(S)
  /\ \A k \in 1..Len(S), j \in 1..w : FlattenSeq(S)[w * (k - 1) + j] = S[k][j]

LEMMA Cell ==
  ASSUME NEW w \in Nat, NEW n \in Nat, NEW k \in 1..n, NEW j \in 1..w
  PROVE  w * (k - 1) + j \in 1..w * n
<1>1. PICK a \in Nat : k = a + 1
  <2>1. k - 1 \in Nat /\ k = (k - 1) + 1
    OBVIOUS
  <2> QED
    BY <2>1
<1>2. PICK b \in Nat : n = (a + 1) + b
  <2>1. n - (a + 1) \in Nat /\ n = (a + 1) + (n - (a + 1))
    BY <1>1
  <2> QED
    BY <2>1
<1> DEFINE x == w * a
           y == w * b
<1>3. x \in Nat /\ y \in Nat
  OBVIOUS
<1>4. w * (k - 1) = x /\ w * n = x + w + y
  BY <1>1, <1>2
<1> HIDE DEF x, y
<1>5. x + j \in Nat /\ x + j >= 1 /\ x + j <= x + w + y
  BY <1>3
<1> QED
  BY <1>3, <1>4, <1>5

LEMMA FlattenEven ==
  ASSUME NEW X, NEW w \in Nat, NEW S \in Seq(Seq(X)), \A k \in 1..Len(S) : Len(S[k]) = w
  PROVE  Even(S, w)
<1> DEFINE All(s) == \A k \in 1..Len(s) : Len(s[k]) = w
           P == {s \in Seq(Seq(X)) : All(s) => Even(s, w)}
<1>1. <<>> \in P
  <2>1. Len(<<>>) = 0 /\ w * 0 = 0 /\ 1..0 = {}
    OBVIOUS
  <2>2. Even(<<>>, w)
    BY <2>1, FlattenEmpty DEF Even
  <2> QED
    BY <2>2
<1>2. ASSUME NEW s \in Seq(Seq(X)), NEW x \in Seq(X), s \in P PROVE Append(s, x) \in P
  <2> DEFINE t == Append(s, x)
             n == Len(s)
             f == FlattenSeq(s)
             g == FlattenSeq(t)
  <2>1. t \in Seq(Seq(X)) /\ Len(t) = n + 1 /\ t[n + 1] = x /\ n \in Nat /\ \A k \in 1..n : t[k] = s[k]
    BY AppendProperties
  <2>2. g = f \o x
    BY FlattenAppend
  <2>3. f \in Seq(X)
    BY FlattenType
  <2> HIDE DEF t, f, g, n
  <2>4. ASSUME All(t) PROVE Even(t, w)
    <3>1. ASSUME NEW k \in 1..n PROVE Len(s[k]) = w
      <4>1. k \in 1..Len(t)
        BY <2>1
      <4> QED
        BY <2>1, <2>4, <4>1
    <3>2. All(s)
      BY <3>1 DEF n
    <3>3. Even(s, w)
      BY <1>2, <3>2
    <3>4. Len(f) = w * n /\ \A k \in 1..n, j \in 1..w : f[w * (k - 1) + j] = s[k][j]
      BY <3>3 DEF Even, f, n
    <3>5. Len(x) = w
      <4>1. n + 1 \in 1..Len(t)
        BY <2>1
      <4> QED
        BY <2>1, <2>4, <4>1
    <3>6. /\ Len(g) = Len(f) + Len(x)
          /\ \A m \in 1..Len(f) : g[m] = f[m]
          /\ \A m \in 1..Len(x) : g[Len(f) + m] = x[m]
      <4>1. g \in Seq(X) /\ Len(g) = Len(f) + Len(x)
            /\ \A m \in 1..Len(f) + Len(x) : g[m] = IF m <= Len(f) THEN f[m] ELSE x[m - Len(f)]
        BY <2>2, <2>3, ConcatProperties
      <4> DEFINE a == Len(f)
                 b == Len(x)
      <4>2. a \in Nat /\ b \in Nat
        BY <2>3
      <4>3. \A m \in 1..a + b : g[m] = IF m <= a THEN f[m] ELSE x[m - a]
        BY <4>1
      <4> HIDE DEF a, b
      <4>4. ASSUME NEW m \in 1..a PROVE g[m] = f[m]
        <5>1. m \in 1..a + b /\ m <= a
          BY <4>2
        <5> QED
          BY <4>3, <5>1
      <4>5. ASSUME NEW m \in 1..b PROVE g[a + m] = x[m]
        <5>1. a + m \in 1..a + b /\ ~(a + m <= a) /\ (a + m) - a = m
          BY <4>2
        <5> QED
          BY <4>3, <5>1
      <4> QED
        BY <4>1, <4>4, <4>5 DEF a, b
    <3>7. Len(g) = w * (n + 1)
      <4>1. w * (n + 1) = w * n + w
        BY <2>1
      <4> QED
        BY <3>4, <3>5, <3>6, <4>1
    <3>8. ASSUME NEW k \in 1..n + 1, NEW j \in 1..w PROVE g[w * (k - 1) + j] = t[k][j]
      <4>1. CASE k \in 1..n
        <5>1. w * (k - 1) + j \in 1..w * n
          BY <2>1, <4>1, Cell
        <5> QED
          BY <2>1, <3>4, <3>6, <4>1, <5>1
      <4>2. CASE k \notin 1..n
        <5>1. k = n + 1 /\ k - 1 = n
          <6>1. n \in Nat
            BY <2>1
          <6> QED
            BY <4>2, <6>1
        <5>2. g[w * n + j] = x[j]
          BY <3>4, <3>5, <3>6
        <5> QED
          BY <2>1, <5>1, <5>2
      <4> QED
        BY <4>1, <4>2
    <3> QED
      BY <2>1, <3>7, <3>8 DEF Even, g
  <2> HIDE DEF All
  <2> QED
    BY <2>1, <2>4 DEF t
<1> HIDE DEF P, All
<1>3. S \in P
  BY <1>1, <1>2, SeqInd
<1> QED
  BY <1>3 DEF P, All

(***************************************************************************)
(* Bytes.                                                                  *)
(***************************************************************************)
Bytes == Seq(0..2^BYTE - 1)

LEMMA ByteWidth ==
  /\ BYTE \in Nat /\ BYTE > 2 /\ LENGTH_BYTES \in Nat /\ LENGTH_BYTES > 0
  /\ 2^BYTE \in Nat /\ 2^BYTE > 4 /\ 0..2^BYTE - 1 \subseteq Nat
<1>1. BYTE \in Nat /\ BYTE > 2 /\ LENGTH_BYTES \in Nat /\ LENGTH_BYTES > 0
  BY FramingAssumption
<1> DEFINE b == BYTE - 3
<1>2. b \in Nat /\ BYTE = 3 + b
  BY <1>1
<1> HIDE DEF b
<1>3. 2^(3 + b) = 2^3 * 2^b /\ 2^b \in Nat /\ 2^b > 0
  BY <1>2, PowerSum, PowerPositive
<1>4. 2^3 = 8
  OBVIOUS
<1> DEFINE x == 2^b
<1>5. 2^BYTE = 8 * x /\ x \in Nat /\ x > 0
  BY <1>2, <1>3, <1>4
<1> HIDE DEF x
<1> DEFINE y == 2^BYTE
<1>6. y \in Nat /\ y > 4
  BY <1>5
<1> HIDE DEF y
<1>7. 0..y - 1 \subseteq Nat
  BY <1>6
<1> QED
  BY <1>1, <1>6, <1>7 DEF y

LEMMA BytesNat == ASSUME NEW bytes \in Bytes PROVE bytes \in Seq(Nat)
BY ByteWidth DEF Bytes

LEMMA UnpackedIs ==
  ASSUME NEW bytes \in Seq(Nat)
  PROVE  /\ Unpacked(bytes) \in Seq(Bits) /\ Len(Unpacked(bytes)) = BYTE * Len(bytes)
         /\ \A k \in 1..Len(bytes), j \in 1..BYTE :
              Unpacked(bytes)[BYTE * (k - 1) + j] = BitsOf(bytes[k], BYTE)[j]
<1> DEFINE n == Len(bytes)
           S == [k \in 1..n |-> BitsOf(bytes[k], BYTE)]
<1>1. n \in Nat /\ DOMAIN bytes = 1..n
  OBVIOUS
<1>2. ASSUME NEW k \in 1..n PROVE BitsOf(bytes[k], BYTE) \in Seq(Bits) /\ Len(BitsOf(bytes[k], BYTE)) = BYTE
  <2>1. bytes[k] \in Nat
    BY ElementOfSeq
  <2> QED
    BY <2>1, ByteWidth, BitsType
<1>3. Unpacked(bytes) = FlattenSeq(S)
  BY <1>1 DEF Unpacked
<1> HIDE DEF n
<1>4. S \in Seq(Seq(Bits)) /\ Len(S) = n /\ \A k \in 1..n : S[k] = BitsOf(bytes[k], BYTE)
  BY <1>1, <1>2
<1> HIDE DEF S
<1>5. \A k \in 1..Len(S) : Len(S[k]) = BYTE
  BY <1>2, <1>4
<1>6. Even(S, BYTE)
  BY <1>4, <1>5, ByteWidth, FlattenEven
<1>7. FlattenSeq(S) \in Seq(Bits)
  BY <1>4, FlattenType
<1> QED
  BY <1>3, <1>4, <1>6, <1>7 DEF Even, n

LEMMA LittleEndianType ==
  ASSUME NEW x \in Nat, NEW n \in Nat
  PROVE  LittleEndian(x, n) \in Bytes /\ Len(LittleEndian(x, n)) = n
<1>1. ASSUME NEW k \in 1..n PROVE (x \div 2^(BYTE * (k - 1))) % 2^BYTE \in 0..2^BYTE - 1
  <2> DEFINE e == BYTE * (k - 1)
             d == 2^e
             b == 2^BYTE
  <2>1. e \in Nat
    BY ByteWidth
  <2> HIDE DEF e
  <2>2. d \in Nat /\ d > 0
    BY <2>1, PowerPositive
  <2>3. b \in Nat /\ b > 4
    BY ByteWidth
  <2> HIDE DEF d, b
  <2>4. x \div d \in Int
    BY <2>2, Divides
  <2> DEFINE q == x \div d
  <2> HIDE DEF q
  <2>5. q % b \in 0..b - 1
    BY <2>3, <2>4 DEF q
  <2> QED
    BY <2>5 DEF q, d, e, b
<1> QED
  BY <1>1 DEF LittleEndian, Bytes

\* A byte of the bits, which are filled up with zeros.
ByteBits(bits, k) ==
  [j \in 1..BYTE |-> IF BYTE * (k - 1) + j <= Len(bits) THEN bits[BYTE * (k - 1) + j] ELSE 0]

LEMMA PackedIs ==
  ASSUME NEW bits \in Seq(Bits)
  PROVE  /\ Packed(bits) \in Bytes /\ Len(Packed(bits)) = (Len(bits) + BYTE - 1) \div BYTE
         /\ \A k \in 1..Len(Packed(bits)) :
              /\ Packed(bits)[k] = NumberOf(ByteBits(bits, k))
              /\ ByteBits(bits, k) \in Seq(Bits) /\ Len(ByteBits(bits, k)) = BYTE
<1> DEFINE n == (Len(bits) + BYTE - 1) \div BYTE
           m == Len(bits)
<1>1. n \in Nat
  <2>1. m \in Nat
    OBVIOUS
  <2> HIDE DEF m
  <2>2. m + BYTE - 1 \in Nat
    BY <2>1, ByteWidth
  <2>3. (m + BYTE - 1) \div BYTE \in Nat
    BY <2>2, ByteWidth, Divides
  <2> QED
    BY <2>3 DEF m
<1> HIDE DEF n
<1>2. ASSUME NEW k \in 1..n
      PROVE  ByteBits(bits, k) \in Seq(Bits) /\ Len(ByteBits(bits, k)) = BYTE
  <2>1. ASSUME NEW j \in 1..BYTE
        PROVE  (IF BYTE * (k - 1) + j <= Len(bits) THEN bits[BYTE * (k - 1) + j] ELSE 0) \in Bits
    <3> DEFINE e == BYTE * (k - 1)
    <3>1. e \in Nat
      BY <1>1, ByteWidth
    <3> HIDE DEF e
    <3>2. e + j \in Nat /\ e + j >= 1
      BY <3>1, ByteWidth
    <3>3. (IF e + j <= Len(bits) THEN bits[e + j] ELSE 0) \in Bits
      BY <3>2, ElementOfSeq DEF Bits
    <3> QED
      BY <3>3 DEF e
  <2> QED
    BY <2>1, ByteWidth DEF ByteBits
<1>3. ASSUME NEW k \in 1..n PROVE NumberOf(ByteBits(bits, k)) \in 0..2^BYTE - 1
  BY <1>2, NumberBound
<1>4. Packed(bits) = [k \in 1..n |-> NumberOf(ByteBits(bits, k))]
  BY Zenon DEF Packed, ByteBits, n
<1>5. Packed(bits) \in Bytes /\ Len(Packed(bits)) = n
  BY <1>1, <1>3, <1>4 DEF Bytes
<1>6. \A k \in 1..n : Packed(bits)[k] = NumberOf(ByteBits(bits, k))
  BY <1>4
<1> QED
  BY <1>2, <1>5, <1>6 DEF n

LEMMA CRCType ==
  ASSUME NEW bytes
  PROVE  CRC(bytes) \in Nat /\ CRC(bytes) < 2^(BYTE * 2)
<1> DEFINE Shift(reg, b) ==
             LET ones == {k + 1 : k \in reg} \cup (IF b = 1 THEN {0} ELSE {})
             IN  IF 2 * BYTE \in ones THEN SymDiff(ones, POLY) ELSE ones
           rest == FoldLeft(Shift, {}, Unpacked(bytes \o <<NUL, NUL>>))
           s == [k \in 1..2 * BYTE |-> IF 2 * BYTE - k \in rest THEN 1 ELSE 0]
<1>1. CRC(bytes) = NumberOf(s)
  BY Zenon DEF CRC
<1> HIDE DEF rest
<1>2. 2 * BYTE \in Nat /\ BYTE * 2 = 2 * BYTE
  BY ByteWidth
<1>3. s \in Seq(Bits) /\ Len(s) = 2 * BYTE
  BY <1>2 DEF Bits
<1> HIDE DEF s
<1>4. NumberOf(s) \in 0..2^(2 * BYTE) - 1
  BY <1>3, NumberBound
<1>5. 2^(2 * BYTE) \in Nat
  BY <1>2, PowerNat
<1> DEFINE p == 2^(2 * BYTE)
<1> HIDE DEF p
<1>6. NumberOf(s) \in Nat /\ NumberOf(s) < p
  <2>1. p \in Nat /\ NumberOf(s) \in 0..p - 1
    BY <1>4, <1>5 DEF p
  <2> QED
    BY <2>1
<1> QED
  BY <1>1, <1>2, <1>6 DEF p

LEMMA CompressedType ==
  ASSUME NEW size \in Nat, NEW bits \in Seq(Bits)
  PROVE  CompressedB2(size, bits) \in Bytes
<1> DEFINE body == LittleEndian(size, LENGTH_BYTES) \o Packed(bits)
<1>1. body \in Bytes
  BY LittleEndianType, PackedIs, ByteWidth, ConcatProperties DEF Bytes
<1> HIDE DEF body
<1>2. LittleEndian(CRC(body), 2) \in Bytes
  BY CRCType, LittleEndianType
<1>3. CompressedB2(size, bits) = LittleEndian(CRC(body), 2) \o body
  BY DEF CompressedB2, body
<1> QED
  BY <1>1, <1>2, <1>3, ConcatProperties DEF Bytes

\* From an element on, and up to one.
LEMMA FromOn ==
  ASSUME NEW X, NEW s \in Seq(X), NEW a \in Nat, a > 0
  PROVE  /\ SubSeq(s, a, Len(s)) \in Seq(X)
         /\ Len(SubSeq(s, a, Len(s))) = IF a <= Len(s) THEN Len(s) - a + 1 ELSE 0
         /\ \A i \in 1..Len(s) - a + 1 : SubSeq(s, a, Len(s))[i] = s[a + i - 1]
<1> DEFINE n == Len(s)
<1>1. n \in Nat
  OBVIOUS
<1>2. \A i \in a..n : s[i] \in X
  <2> SUFFICES ASSUME NEW i \in a..n PROVE s[i] \in X
    OBVIOUS
  <2>1. i \in 1..n
    BY <1>1
  <2> QED
    BY <2>1, ElementOfSeq
<1> HIDE DEF n
<1>3. /\ SubSeq(s, a, n) \in Seq(X) /\ Len(SubSeq(s, a, n)) = IF a <= n THEN n - a + 1 ELSE 0
      /\ \A i \in 1..n - a + 1 : SubSeq(s, a, n)[i] = s[a + i - 1]
  BY <1>1, <1>2, SubSeqProperties
<1> QED
  BY <1>3 DEF n

LEMMA UpTo ==
  ASSUME NEW X, NEW s \in Seq(X), NEW a \in Nat, a > 0, NEW b \in Nat, b <= Len(s), a <= b + 1
  PROVE  /\ SubSeq(s, a, b) \in Seq(X) /\ Len(SubSeq(s, a, b)) = b - a + 1
         /\ \A i \in 1..b - a + 1 : SubSeq(s, a, b)[i] = s[a + i - 1]
<1> DEFINE n == Len(s)
<1>1. n \in Nat
  OBVIOUS
<1>2. \A i \in a..b : s[i] \in X
  <2> SUFFICES ASSUME NEW i \in a..b PROVE s[i] \in X
    OBVIOUS
  <2>1. i \in 1..n
    BY <1>1
  <2> QED
    BY <2>1, ElementOfSeq
<1>3. /\ SubSeq(s, a, b) \in Seq(X) /\ Len(SubSeq(s, a, b)) = IF a <= b THEN b - a + 1 ELSE 0
      /\ \A i \in 1..b - a + 1 : SubSeq(s, a, b)[i] = s[a + i - 1]
  BY <1>2, SubSeqProperties
<1>4. (IF a <= b THEN b - a + 1 ELSE 0) = b - a + 1
  OBVIOUS
<1> QED
  BY <1>3, <1>4

\* FromLittleEndian()'s value.
LittleStep(bytes, x, k) == x + bytes[k] * 2^(BYTE * (k - 1))
LittleBody(bytes, w) ==
  [k \in 0..Len(bytes) |-> IF k = 0 THEN 0 ELSE LittleStep(bytes, w[k - 1], k)]
LittleLoop(bytes) == CHOOSE w : w = LittleBody(bytes, w)

LEMMA LittleLoopDef ==
  ASSUME NEW bytes, Len(bytes) \in Nat
  PROVE  /\ LittleLoop(bytes)[0] = 0
         /\ \A k \in Nat : k < Len(bytes) =>
              LittleLoop(bytes)[k + 1] = LittleStep(bytes, LittleLoop(bytes)[k], k + 1)
<1> DEFINE e == 0
           Upto(m, w) == w = [k \in 0..m |-> IF k = 0 THEN e ELSE LittleStep(bytes, w[k - 1], k)]
           S == {m \in Nat : \E w : Upto(m, w)}
           n == Len(bytes)
<1> HIDE DEF e
<1>1. 0 \in S
  <2> DEFINE w == [k \in 0..0 |-> e]
  <2>1. Upto(0, w)
    <3>1. \A k \in 0..0 : k = 0
      OBVIOUS
    <3> QED
      BY <3>1
  <2> HIDE DEF Upto
  <2> QED
    BY <2>1
<1>2. ASSUME NEW m \in Nat, m \in S PROVE m + 1 \in S
  <2>1. PICK w : Upto(m, w)
    BY <1>2
  <2> DEFINE x == [k \in 0..m + 1 |-> IF k = m + 1 THEN LittleStep(bytes, w[m], m + 1) ELSE w[k]]
             y == [k \in 0..m + 1 |-> IF k = 0 THEN e ELSE LittleStep(bytes, x[k - 1], k)]
  <2>2. ASSUME NEW k \in 0..m + 1
        PROVE  x[k] = IF k = 0 THEN e ELSE LittleStep(bytes, x[k - 1], k)
    <3>1. CASE k = m + 1
      <4>1. k - 1 = m /\ m \in 0..m + 1 /\ m # m + 1 /\ k # 0
        BY <3>1
      <4>2. x[k] = LittleStep(bytes, w[m], m + 1) /\ x[m] = w[m]
        BY <3>1, <4>1
      <4> HIDE DEF x
      <4> QED
        BY <3>1, <4>1, <4>2
    <3>2. CASE k # m + 1
      <4>1. k \in 0..m
        BY <3>2
      <4>2. x[k] = w[k] /\ w[k] = IF k = 0 THEN e ELSE LittleStep(bytes, w[k - 1], k)
        <5>1. x[k] = w[k]
          BY <3>2
        <5>2. w[k] = [j \in 0..m |-> IF j = 0 THEN e ELSE LittleStep(bytes, w[j - 1], j)][k]
          BY <2>1, Zenon
        <5> HIDE DEF x
        <5> QED
          BY <4>1, <5>1, <5>2
      <4>3. k # 0 => x[k - 1] = w[k - 1]
        <5> SUFFICES ASSUME k # 0 PROVE x[k - 1] = w[k - 1]
          OBVIOUS
        <5>1. k - 1 \in 0..m + 1 /\ k - 1 # m + 1
          BY <4>1
        <5> QED
          BY <5>1
      <4> HIDE DEF x
      <4> QED
        BY <4>2, <4>3
    <3> QED
      BY <3>1, <3>2
  <2>3. x = y
    <3>1. x = [k \in 0..m + 1 |-> x[k]]
      OBVIOUS
    <3> HIDE DEF x
    <3> QED
      BY <2>2, <3>1
  <2>4. Upto(m + 1, x)
    <3> HIDE DEF x
    <3> QED
      BY <2>3, Zenon
  <2> HIDE DEF Upto, x, y
  <2> QED
    BY <2>4
<1>3. PICK w : Upto(n, w)
  <2> HIDE DEF Upto
  <2>1. Nat \subseteq S
    <3> HIDE DEF S
    <3> QED
      BY <1>1, <1>2, NatInd
  <2> QED
    BY <2>1
<1>4. w = LittleBody(bytes, w)
  BY <1>3, Zenon DEF LittleBody, e
<1> DEFINE b == LittleLoop(bytes)
<1>5. b = LittleBody(bytes, b)
  BY <1>4, Zenon DEF LittleLoop
<1> HIDE DEF b
<1>6. b = [k \in 0..n |-> IF k = 0 THEN e ELSE LittleStep(bytes, b[k - 1], k)]
  BY <1>5, Zenon DEF LittleBody, e
<1> HIDE DEF n
<1>7. \A k \in 0..n : b[k] = IF k = 0 THEN e ELSE LittleStep(bytes, b[k - 1], k)
  <2> SUFFICES ASSUME NEW k \in 0..n
               PROVE  b[k] = IF k = 0 THEN e ELSE LittleStep(bytes, b[k - 1], k)
    OBVIOUS
  <2>1. b[k] = [j \in 0..n |-> IF j = 0 THEN e ELSE LittleStep(bytes, b[j - 1], j)][k]
    BY <1>6, Zenon
  <2> QED
    BY <2>1, Zenon
<1>8. n \in Nat
  BY DEF n
<1>9. b[0] = e
  BY <1>7, <1>8
<1>10. ASSUME NEW k \in Nat, k < n PROVE b[k + 1] = LittleStep(bytes, b[k], k + 1)
  <2>1. k + 1 \in 0..n /\ (k + 1) - 1 = k /\ k + 1 # 0
    BY <1>8, <1>10
  <2>2. b[k + 1] = LittleStep(bytes, b[(k + 1) - 1], k + 1)
    BY <1>7, <2>1, Zenon
  <2> QED
    BY <2>1, <2>2
<1> QED
  BY <1>9, <1>10 DEF b, e, n
\* Checksum()'s sum.
SumStep(bytes, x, k) == x + bytes[k]
SumBody(bytes, w) ==
  [k \in 0..Len(bytes) |-> IF k = 0 THEN 0 ELSE SumStep(bytes, w[k - 1], k)]
SumLoop(bytes) == CHOOSE w : w = SumBody(bytes, w)

LEMMA SumLoopDef ==
  ASSUME NEW bytes, Len(bytes) \in Nat
  PROVE  /\ SumLoop(bytes)[0] = 0
         /\ \A k \in Nat : k < Len(bytes) =>
              SumLoop(bytes)[k + 1] = SumStep(bytes, SumLoop(bytes)[k], k + 1)
<1> DEFINE e == 0
           Upto(m, w) == w = [k \in 0..m |-> IF k = 0 THEN e ELSE SumStep(bytes, w[k - 1], k)]
           S == {m \in Nat : \E w : Upto(m, w)}
           n == Len(bytes)
<1> HIDE DEF e
<1>1. 0 \in S
  <2> DEFINE w == [k \in 0..0 |-> e]
  <2>1. Upto(0, w)
    <3>1. \A k \in 0..0 : k = 0
      OBVIOUS
    <3> QED
      BY <3>1
  <2> HIDE DEF Upto
  <2> QED
    BY <2>1
<1>2. ASSUME NEW m \in Nat, m \in S PROVE m + 1 \in S
  <2>1. PICK w : Upto(m, w)
    BY <1>2
  <2> DEFINE x == [k \in 0..m + 1 |-> IF k = m + 1 THEN SumStep(bytes, w[m], m + 1) ELSE w[k]]
             y == [k \in 0..m + 1 |-> IF k = 0 THEN e ELSE SumStep(bytes, x[k - 1], k)]
  <2>2. ASSUME NEW k \in 0..m + 1
        PROVE  x[k] = IF k = 0 THEN e ELSE SumStep(bytes, x[k - 1], k)
    <3>1. CASE k = m + 1
      <4>1. k - 1 = m /\ m \in 0..m + 1 /\ m # m + 1 /\ k # 0
        BY <3>1
      <4>2. x[k] = SumStep(bytes, w[m], m + 1) /\ x[m] = w[m]
        BY <3>1, <4>1
      <4> HIDE DEF x
      <4> QED
        BY <3>1, <4>1, <4>2
    <3>2. CASE k # m + 1
      <4>1. k \in 0..m
        BY <3>2
      <4>2. x[k] = w[k] /\ w[k] = IF k = 0 THEN e ELSE SumStep(bytes, w[k - 1], k)
        <5>1. x[k] = w[k]
          BY <3>2
        <5>2. w[k] = [j \in 0..m |-> IF j = 0 THEN e ELSE SumStep(bytes, w[j - 1], j)][k]
          BY <2>1, Zenon
        <5> HIDE DEF x
        <5> QED
          BY <4>1, <5>1, <5>2
      <4>3. k # 0 => x[k - 1] = w[k - 1]
        <5> SUFFICES ASSUME k # 0 PROVE x[k - 1] = w[k - 1]
          OBVIOUS
        <5>1. k - 1 \in 0..m + 1 /\ k - 1 # m + 1
          BY <4>1
        <5> QED
          BY <5>1
      <4> HIDE DEF x
      <4> QED
        BY <4>2, <4>3
    <3> QED
      BY <3>1, <3>2
  <2>3. x = y
    <3>1. x = [k \in 0..m + 1 |-> x[k]]
      OBVIOUS
    <3> HIDE DEF x
    <3> QED
      BY <2>2, <3>1
  <2>4. Upto(m + 1, x)
    <3> HIDE DEF x
    <3> QED
      BY <2>3, Zenon
  <2> HIDE DEF Upto, x, y
  <2> QED
    BY <2>4
<1>3. PICK w : Upto(n, w)
  <2> HIDE DEF Upto
  <2>1. Nat \subseteq S
    <3> HIDE DEF S
    <3> QED
      BY <1>1, <1>2, NatInd
  <2> QED
    BY <2>1
<1>4. w = SumBody(bytes, w)
  BY <1>3, Zenon DEF SumBody, e
<1> DEFINE b == SumLoop(bytes)
<1>5. b = SumBody(bytes, b)
  BY <1>4, Zenon DEF SumLoop
<1> HIDE DEF b
<1>6. b = [k \in 0..n |-> IF k = 0 THEN e ELSE SumStep(bytes, b[k - 1], k)]
  BY <1>5, Zenon DEF SumBody, e
<1> HIDE DEF n
<1>7. \A k \in 0..n : b[k] = IF k = 0 THEN e ELSE SumStep(bytes, b[k - 1], k)
  <2> SUFFICES ASSUME NEW k \in 0..n
               PROVE  b[k] = IF k = 0 THEN e ELSE SumStep(bytes, b[k - 1], k)
    OBVIOUS
  <2>1. b[k] = [j \in 0..n |-> IF j = 0 THEN e ELSE SumStep(bytes, b[j - 1], j)][k]
    BY <1>6, Zenon
  <2> QED
    BY <2>1, Zenon
<1>8. n \in Nat
  BY DEF n
<1>9. b[0] = e
  BY <1>7, <1>8
<1>10. ASSUME NEW k \in Nat, k < n PROVE b[k + 1] = SumStep(bytes, b[k], k + 1)
  <2>1. k + 1 \in 0..n /\ (k + 1) - 1 = k /\ k + 1 # 0
    BY <1>8, <1>10
  <2>2. b[k + 1] = SumStep(bytes, b[(k + 1) - 1], k + 1)
    BY <1>7, <2>1, Zenon
  <2> QED
    BY <2>1, <2>2
<1> QED
  BY <1>9, <1>10 DEF b, e, n

LEMMA FromLittleEndianIs ==
  ASSUME NEW bytes \in Seq(Nat)
  PROVE  /\ FromLittleEndian(bytes) = LittleLoop(bytes)[Len(bytes)]
         /\ FromLittleEndian(bytes) \in Nat
         /\ LittleLoop(bytes)[0] = 0
         /\ \A k \in Nat : k < Len(bytes) =>
              /\ LittleLoop(bytes)[k] \in Nat
              /\ LittleLoop(bytes)[k + 1] = LittleLoop(bytes)[k] + bytes[k + 1] * 2^(BYTE * k)
<1> DEFINE n == Len(bytes)
           w == LittleLoop(bytes)
           S == {k \in Nat : k <= n => w[k] \in Nat}
<1>1. n \in Nat
  OBVIOUS
<1>2. w[0] = 0 /\ \A k \in Nat : k < n => w[k + 1] = w[k] + bytes[k + 1] * 2^(BYTE * ((k + 1) - 1))
  BY <1>1, LittleLoopDef DEF LittleStep
<1>3. FromLittleEndian(bytes) = w[n]
  BY Zenon DEF FromLittleEndian, LittleLoop, LittleBody, LittleStep
<1> HIDE DEF w, n
<1>4. ASSUME NEW k \in Nat, k < n
      PROVE  bytes[k + 1] * 2^(BYTE * k) \in Nat /\ w[k + 1] = w[k] + bytes[k + 1] * 2^(BYTE * k)
  <2>1. (k + 1) - 1 = k /\ BYTE * k \in Nat
    BY ByteWidth
  <2>2. 2^(BYTE * k) \in Nat
    BY <2>1, PowerNat
  <2>3. k + 1 \in 1..n
    BY <1>1, <1>4
  <2>4. bytes[k + 1] \in Nat
    BY <2>3, ElementOfSeq DEF n
  <2> DEFINE a == bytes[k + 1]
             b == 2^(BYTE * k)
  <2>5. a \in Nat /\ b \in Nat
    BY <2>2, <2>4
  <2>6. w[k + 1] = w[k] + a * b
    BY <1>2, <1>4, <2>1
  <2> HIDE DEF a, b
  <2>7. a * b \in Nat
    BY <2>5
  <2> QED
    BY <2>6, <2>7 DEF a, b
<1>5. 0 \in S
  BY <1>2
<1>6. ASSUME NEW k \in Nat, k \in S PROVE k + 1 \in S
  <2> SUFFICES ASSUME k + 1 <= n PROVE w[k + 1] \in Nat
    OBVIOUS
  <2>1. k < n /\ k <= n
    BY <1>1
  <2>2. w[k] \in Nat
    BY <1>6, <2>1
  <2> DEFINE a == bytes[k + 1] * 2^(BYTE * k)
  <2>3. a \in Nat /\ w[k + 1] = w[k] + a
    BY <1>4, <2>1
  <2> HIDE DEF a
  <2> QED
    BY <2>2, <2>3
<1> HIDE DEF S
<1>7. Nat \subseteq S
  BY <1>5, <1>6, NatInd
<1>8. \A k \in Nat : k <= n => w[k] \in Nat
  BY <1>7 DEF S
<1>9. w[n] \in Nat /\ \A k \in Nat : k < n => w[k] \in Nat
  BY <1>1, <1>8
<1> QED
  BY <1>2, <1>3, <1>4, <1>9 DEF w, n

LEMMA ChecksumType ==
  ASSUME NEW bytes \in Seq(Nat)
  PROVE  Checksum(bytes) \in 0..2^BYTE - 1
<1> DEFINE n == Len(bytes)
           w == SumLoop(bytes)
           S == {k \in Nat : k <= n => w[k] \in Nat}
<1>1. n \in Nat
  OBVIOUS
<1>2. w[0] = 0 /\ \A k \in Nat : k < n => w[k + 1] = w[k] + bytes[k + 1]
  BY <1>1, SumLoopDef DEF SumStep
<1>3. Checksum(bytes) = (2^BYTE - (w[n] % 2^BYTE)) % 2^BYTE
  BY Zenon DEF Checksum, SumLoop, SumBody, SumStep
<1> HIDE DEF w
<1>4. 0 \in S
  BY <1>2
<1>5. ASSUME NEW k \in Nat, k \in S PROVE k + 1 \in S
  <2> SUFFICES ASSUME k + 1 <= n PROVE w[k + 1] \in Nat
    OBVIOUS
  <2>1. k < n /\ k <= n /\ k + 1 \in 1..n
    BY <1>1
  <2>2. w[k] \in Nat /\ bytes[k + 1] \in Nat
    BY <1>5, <2>1, ElementOfSeq
  <2>3. w[k + 1] = w[k] + bytes[k + 1]
    BY <1>2, <2>1
  <2> QED
    BY <2>2, <2>3
<1> HIDE DEF S
<1>6. n \in S
  BY <1>1, <1>4, <1>5, NatInd
<1> DEFINE x == w[n]
           b == 2^BYTE
<1>7. x \in Nat /\ b \in Nat /\ b > 4
  BY <1>1, <1>6, ByteWidth DEF S
<1> HIDE DEF x, b
<1>8. x % b \in 0..b - 1
  BY <1>7
<1> DEFINE y == x % b
<1> HIDE DEF y
<1>9. (b - y) % b \in 0..b - 1
  BY <1>7, <1>8 DEF y
<1> QED
  BY <1>3, <1>9 DEF y, x, b

(***************************************************************************)
(* The chunks of a block.                                                  *)
(***************************************************************************)
\* How much of the data is in the first k chunks.
Covered(data, size, k) == Min({size * k, Len(data)})
Piece(data, size, k) == SubSeq(data, size * (k - 1) + 1, Covered(data, size, k))
Chunk(data, size, k) == <<STX, LengthByte(Piece(data, size, k))>> \o Piece(data, size, k)
ChunkCount(data, size) == (Len(data) + size - 1) \div size
Chunks(data, size, m) == FlattenSeq([k \in 1..m |-> Chunk(data, size, k)])
Header == TitleBytes \o <<NUL, Digit, NUL>>

LEMMA BuildBlockIs ==
  ASSUME NEW data, NEW size
  PROVE  BuildBlock(TitleBytes, Digit, data, size) =
           <<SOH, Len(Header)>> \o Header \o Chunks(data, size, ChunkCount(data, size))
             \o <<EOT, Checksum(data)>>
BY Zenon DEF BuildBlock, Header, Chunks, Chunk, Piece, Covered, ChunkCount

Sizable == 1..2^BYTE

LEMMA Cuts ==
  ASSUME NEW L \in Nat, NEW size \in Nat, size > 0
  PROVE  LET q == (L + size - 1) \div size
         IN  /\ q \in Nat /\ L <= size * q
             /\ \A k \in Nat : k < q => size * k < L
<1> DEFINE q == (L + size - 1) \div size
           m == (L + size - 1) % size
<1>1. q \in Nat /\ m \in 0..size - 1 /\ L + size - 1 = size * q + m
  <2> DEFINE x == L + size - 1
  <2>1. x \in Nat
    OBVIOUS
  <2> HIDE DEF x
  <2>2. x \div size \in Nat /\ x % size \in 0..size - 1 /\ x = size * (x \div size) + (x % size)
    BY <2>1, Divides
  <2> QED
    BY <2>2 DEF x
<1> HIDE DEF q, m
<1> DEFINE y == size * q
<1>2. y \in Nat
  BY <1>1
<1>3. L <= y
  <2> HIDE DEF y
  <2>1. L + size - 1 = y + m
    BY <1>1 DEF y
  <2> QED
    BY <1>1, <1>2, <2>1
<1>4. ASSUME NEW k \in Nat, k < q PROVE size * k < L
  <2>1. PICK b \in Nat : q = k + 1 + b
    <3>1. q - (k + 1) \in Nat /\ q = k + 1 + (q - (k + 1))
      BY <1>1, <1>4
    <3> QED
      BY <3>1
  <2> DEFINE u == size * k
             v == size * b
  <2>2. u \in Nat /\ v \in Nat /\ y = u + size + v
    BY <2>1
  <2>3. L + size - 1 = y + m
    BY <1>1
  <2> HIDE DEF u, v, y
  <2>4. u < L
    BY <1>1, <2>2, <2>3
  <2> QED
    BY <2>4 DEF u
<1> QED
  BY <1>1, <1>3, <1>4 DEF q, y

\* A chunk begins where the one before it ends, and the last one ends with the data.
IsCut(data, size, k) ==
  /\ Covered(data, size, k) = size * k /\ Covered(data, size, k) \in Nat
  /\ Covered(data, size, k + 1) \in Nat /\ Covered(data, size, k + 1) <= Len(data)
  /\ Covered(data, size, k) < Covered(data, size, k + 1)
  /\ Covered(data, size, k + 1) - Covered(data, size, k) <= size

LEMMA CutsAre ==
  ASSUME NEW data \in Bytes, NEW size \in Nat, size > 0
  PROVE  /\ ChunkCount(data, size) \in Nat
         /\ Covered(data, size, 0) = 0
         /\ Covered(data, size, ChunkCount(data, size)) = Len(data)
         /\ \A k \in Nat : k < ChunkCount(data, size) => IsCut(data, size, k)
<1> DEFINE L == Len(data)
           q == ChunkCount(data, size)
<1>1. L \in Nat
  BY DEF Bytes
<1>2. q \in Nat /\ L <= size * q /\ \A k \in Nat : k < q => size * k < L
  <2> HIDE DEF L
  <2>1. q = (L + size - 1) \div size
    BY DEF ChunkCount, L
  <2> HIDE DEF q
  <2> QED
    BY <1>1, <2>1, Cuts
<1> HIDE DEF q, L
<1>3. ASSUME NEW k \in Nat
      PROVE  /\ size * k \in Nat /\ Covered(data, size, k) \in Nat
             /\ Covered(data, size, k) = IF size * k <= L THEN size * k ELSE L
  <2> DEFINE a == size * k
  <2>1. a \in Nat
    OBVIOUS
  <2>2. Covered(data, size, k) = Min({a, L})
    BY DEF Covered, L
  <2> HIDE DEF a
  <2>3. Min({a, L}) \in Nat /\ Min({a, L}) = IF a <= L THEN a ELSE L
    BY <1>1, <2>1, Lesser
  <2> QED
    BY <2>1, <2>2, <2>3 DEF a
<1>4. Covered(data, size, 0) = 0
  <2>1. size * 0 = 0 /\ 0 <= L
    BY <1>1
  <2> QED
    BY <1>3, <2>1
<1>5. Covered(data, size, q) = L
  <2> DEFINE x == size * q
  <2>1. x \in Nat /\ L <= x /\ Covered(data, size, q) = IF x <= L THEN x ELSE L
    BY <1>2, <1>3
  <2> HIDE DEF x
  <2> QED
    BY <1>1, <2>1
<1>6. ASSUME NEW k \in Nat, k < q PROVE IsCut(data, size, k)
  <2> DEFINE x == size * k
             y == size * (k + 1)
             a == Covered(data, size, k)
             b == Covered(data, size, k + 1)
  <2>1. x \in Nat /\ x < L /\ a = IF x <= L THEN x ELSE L
    BY <1>2, <1>3, <1>6
  <2>2. y = x + size
    OBVIOUS
  <2>3. y \in Nat /\ b \in Nat /\ b = IF y <= L THEN y ELSE L
    BY <1>3
  <2> HIDE DEF x, y, a, b
  <2>4. a = x /\ a \in Nat /\ b \in Nat /\ b <= L /\ a < b /\ b - a <= size
    BY <1>1, <2>1, <2>2, <2>3
  <2> QED
    BY <2>4 DEF IsCut, x, a, b, L
<1> QED
  BY <1>2, <1>4, <1>5, <1>6 DEF q, L

IsChunk(data, size, k) ==
  LET a == Covered(data, size, k)
      b == Covered(data, size, k + 1)
      c == Chunk(data, size, k + 1)
  IN  /\ c \in Bytes /\ Len(c) = (b - a) + 2 /\ c[1] = STX /\ ChunkLength(c[2]) = b - a
      /\ \A j \in 1..b - a : c[j + 2] = data[a + j]

LEMMA ChunkIs ==
  ASSUME NEW data \in Bytes, NEW size \in Sizable, NEW k \in Nat, IsCut(data, size, k)
  PROVE  IsChunk(data, size, k)
<1> DEFINE a == Covered(data, size, k)
           b == Covered(data, size, k + 1)
           p == Piece(data, size, k + 1)
           n == b - a
           l == LengthByte(p)
           c == Chunk(data, size, k + 1)
           u == 2^BYTE
<1>1. a = size * k /\ a \in Nat /\ b \in Nat /\ b <= Len(data) /\ a < b /\ n <= size
  BY DEF IsCut
<1>2. u \in Nat /\ u > 4 /\ size <= u
  BY ByteWidth DEF Sizable
<1> HIDE DEF a, b
<1>3. p = SubSeq(data, a + 1, b)
  <2>1. (k + 1) - 1 = k
    OBVIOUS
  <2> QED
    BY <1>1, <2>1 DEF Piece, b
<1>4. n \in Nat /\ n > 0 /\ b - (a + 1) + 1 = n /\ a + 1 \in Nat /\ a + 1 > 0 /\ a + 1 <= b + 1
  BY <1>1
<1>5. p \in Bytes /\ Len(p) = n /\ \A i \in 1..n : p[i] = data[a + 1 + i - 1]
  <2> DEFINE f == a + 1
  <2>1. f \in Nat /\ f > 0 /\ f <= b + 1 /\ b - f + 1 = n /\ b \in Nat /\ b <= Len(data)
    BY <1>1, <1>4
  <2>2. p = SubSeq(data, f, b)
    BY <1>3
  <2> HIDE DEF p, n, f
  <2>3. data \in Seq(0..2^BYTE - 1)
    BY DEF Bytes
  <2>4. /\ SubSeq(data, f, b) \in Seq(0..2^BYTE - 1) /\ Len(SubSeq(data, f, b)) = b - f + 1
        /\ \A i \in 1..b - f + 1 : SubSeq(data, f, b)[i] = data[f + i - 1]
    BY <2>1, <2>3, UpTo
  <2>5. p \in Bytes /\ Len(p) = n /\ \A i \in 1..n : p[i] = data[f + i - 1]
    BY <2>1, <2>2, <2>4 DEF Bytes
  <2> QED
    BY <2>5 DEF f
<1> HIDE DEF p, n, u
<1>6. l = IF n < u THEN n ELSE 0
  BY <1>5 DEF LengthByte, u
<1>7. l \in 0..u - 1 /\ ChunkLength(l) = n
  <2>1. n <= u
    <3>1. n \in Nat /\ size \in Nat /\ n <= size
      BY <1>1, <1>4 DEF Sizable, n
    <3> QED
      BY <1>2, <3>1
  <2>2. ChunkLength(l) = IF l = 0 THEN u ELSE l
    BY DEF ChunkLength, u
  <2> HIDE DEF l
  <2> QED
    BY <1>2, <1>4, <1>6, <2>1, <2>2
<1> HIDE DEF l
<1>8. c = <<STX, l>> \o p
  BY DEF Chunk, l, p
<1>9. STX \in 0..u - 1
  BY <1>2 DEF STX
<1>10. <<STX, l>> \in Bytes
  BY <1>7, <1>9 DEF Bytes, u
<1>11. c \in Bytes /\ Len(c) = 2 + n /\ c[1] = STX /\ c[2] = l /\ \A j \in 1..n : c[j + 2] = p[j]
  <2> DEFINE h == <<STX, l>>
  <2>1. h \in Bytes /\ Len(h) = 2 /\ h[1] = STX /\ h[2] = l
    BY <1>10
  <2> HIDE DEF h
  <2>2. /\ c \in Bytes /\ Len(c) = Len(h) + Len(p)
        /\ \A j \in 1..Len(h) + Len(p) : c[j] = IF j <= Len(h) THEN h[j] ELSE p[j - Len(h)]
    <3>1. c = h \o p
      BY <1>8 DEF h
    <3> HIDE DEF c
    <3> QED
      BY <1>5, <2>1, <3>1, ConcatProperties DEF Bytes
  <2> HIDE DEF c
  <2>3. \A j \in 1..2 + n : c[j] = IF j <= 2 THEN h[j] ELSE p[j - 2]
    BY <1>5, <2>1, <2>2
  <2>4. 1 \in 1..2 + n /\ 2 \in 1..2 + n
    BY <1>4
  <2>5. c[1] = STX /\ c[2] = l
    BY <2>1, <2>3, <2>4
  <2>6. ASSUME NEW j \in 1..n PROVE c[j + 2] = p[j]
    <3>1. j + 2 \in 1..2 + n /\ ~(j + 2 <= 2) /\ (j + 2) - 2 = j
      BY <1>4
    <3> QED
      BY <2>3, <3>1
  <2> QED
    BY <1>5, <2>1, <2>2, <2>5, <2>6
<1> HIDE DEF c
<1>12. ASSUME NEW j \in 1..n PROVE c[j + 2] = data[a + j]
  <2>1. a + 1 + j - 1 = a + j
    BY <1>1
  <2>2. p[j] = data[a + 1 + j - 1]
    BY <1>5
  <2> QED
    BY <1>11, <2>1, <2>2
<1>13. 2 + n = n + 2
  BY <1>4
<1> QED
  BY <1>7, <1>11, <1>12, <1>13 DEF IsChunk, a, b, c, n

\* The first m chunks: where each of them is.
IsChunks(data, size, m) ==
  LET f == Chunks(data, size, m)
  IN  /\ f \in Bytes /\ Len(f) = Covered(data, size, m) + 2 * m
      /\ \A k \in Nat : k < m =>
           \A j \in 1..Len(Chunk(data, size, k + 1)) :
             f[Covered(data, size, k) + 2 * k + j] = Chunk(data, size, k + 1)[j]

LEMMA ConcatAt ==
  ASSUME NEW X, NEW a \in Seq(X), NEW b \in Seq(X)
  PROVE  /\ a \o b \in Seq(X) /\ Len(a \o b) = Len(a) + Len(b)
         /\ Len(a) \in Nat /\ Len(b) \in Nat
         /\ \A i \in 1..Len(a) : (a \o b)[i] = a[i]
         /\ \A i \in 1..Len(b) : (a \o b)[Len(a) + i] = b[i]
<1> DEFINE m == Len(a)
           n == Len(b)
           c == a \o b
<1>1. /\ c \in Seq(X) /\ Len(c) = m + n
      /\ \A i \in 1..m + n : c[i] = IF i <= m THEN a[i] ELSE b[i - m]
  BY ConcatProperties
<1>2. m \in Nat /\ n \in Nat
  OBVIOUS
<1> HIDE DEF c, m, n
<1>3. ASSUME NEW i \in 1..m PROVE c[i] = a[i]
  <2>1. i \in 1..m + n /\ i <= m
    BY <1>2
  <2> QED
    BY <1>1, <2>1
<1>4. ASSUME NEW i \in 1..n PROVE c[m + i] = b[i]
  <2>1. m + i \in 1..m + n /\ ~(m + i <= m) /\ (m + i) - m = i
    BY <1>2
  <2> QED
    BY <1>1, <2>1
<1> QED
  BY <1>1, <1>2, <1>3, <1>4 DEF c, m, n

LEMMA BytesAt ==
  ASSUME NEW a \in Bytes, NEW b \in Bytes
  PROVE  /\ a \o b \in Bytes /\ Len(a \o b) = Len(a) + Len(b)
         /\ Len(a) \in Nat /\ Len(b) \in Nat
         /\ \A i \in 1..Len(a) : (a \o b)[i] = a[i]
         /\ \A i \in 1..Len(b) : (a \o b)[Len(a) + i] = b[i]
<1> DEFINE X == 0..2^BYTE - 1
<1>1. a \in Seq(X) /\ b \in Seq(X) /\ Bytes = Seq(X)
  BY DEF Bytes
<1> HIDE DEF X
<1> QED
  BY <1>1, ConcatAt

LEMMA ChunksStart ==
  ASSUME NEW data \in Bytes, NEW size \in Sizable
  PROVE  IsChunks(data, size, 0)
<1>1. size \in Nat /\ size > 0
  BY ByteWidth DEF Sizable
<1>2. Covered(data, size, 0) = 0
  BY <1>1, CutsAre
<1>3. Chunks(data, size, 0) = FlattenSeq(<<>>)
  <2>1. [k \in 1..0 |-> Chunk(data, size, k)] = <<>>
    OBVIOUS
  <2> QED
    BY <2>1, Zenon DEF Chunks
<1>4. Chunks(data, size, 0) = <<>>
  BY <1>3, FlattenEmpty
<1>5. <<>> \in Bytes /\ Len(<<>>) = 0 + 2 * 0
  BY DEF Bytes
<1> QED
  BY <1>2, <1>4, <1>5 DEF IsChunks

LEMMA ChunksNext ==
  ASSUME NEW data \in Bytes, NEW size \in Sizable, NEW m \in Nat, m < ChunkCount(data, size)
  PROVE  Chunks(data, size, m + 1) = Chunks(data, size, m) \o Chunk(data, size, m + 1)
<1> DEFINE S == [k \in 1..m |-> Chunk(data, size, k)]
           U == [k \in 1..m + 1 |-> Chunk(data, size, k)]
           c == Chunk(data, size, m + 1)
           q == ChunkCount(data, size)
<1>1. size \in Nat /\ size > 0
  BY ByteWidth DEF Sizable
<1>2. \A k \in Nat : k < q => IsCut(data, size, k)
  BY <1>1, CutsAre
<1>3. q \in Nat
  BY <1>1, CutsAre
<1> HIDE DEF q
<1>4. ASSUME NEW k \in 1..m + 1 PROVE Chunk(data, size, k) \in Bytes
  <2> DEFINE j == k - 1
  <2>1. j \in Nat /\ j < q /\ j + 1 = k
    BY <1>3 DEF q
  <2> HIDE DEF j
  <2>2. IsChunk(data, size, j)
    BY <1>2, <2>1, ChunkIs
  <2>3. Chunk(data, size, j + 1) \in Bytes
    BY <2>2 DEF IsChunk
  <2> QED
    BY <2>1, <2>3
<1>5. S \in Seq(Bytes) /\ Len(S) = m
  <2>1. \A k \in 1..m : Chunk(data, size, k) \in Bytes
    <3>1. \A k \in 1..m : k \in 1..m + 1
      OBVIOUS
    <3> QED
      BY <1>4, <3>1
  <2> QED
    BY <2>1
<1>6. c \in Bytes
  <2>1. m + 1 \in 1..m + 1
    OBVIOUS
  <2> QED
    BY <1>4, <2>1
<1>7. U = Append(S, c)
  <2>1. U \in Seq(Bytes) /\ Len(U) = m + 1
    BY <1>4
  <2>2. Append(S, c) \in Seq(Bytes) /\ Len(Append(S, c)) = m + 1 /\ Append(S, c)[m + 1] = c
        /\ \A k \in 1..m : Append(S, c)[k] = S[k]
    <3> HIDE DEF S, c
    <3> QED
      BY <1>5, <1>6, AppendProperties
  <2>3. ASSUME NEW k \in 1..m + 1 PROVE U[k] = Append(S, c)[k]
    <3>1. U[k] = Chunk(data, size, k)
      OBVIOUS
    <3>2. k \in 1..m => S[k] = Chunk(data, size, k)
      OBVIOUS
    <3>3. k \in 1..m \/ k = m + 1
      OBVIOUS
    <3> HIDE DEF S, U
    <3> QED
      BY <2>2, <3>1, <3>2, <3>3
  <2> HIDE DEF S, U, c
  <2> QED
    BY <2>1, <2>2, <2>3, SeqEqual
<1> HIDE DEF S, U, c
<1>8. FlattenSeq(U) = FlattenSeq(S) \o c
  BY <1>5, <1>6, <1>7, FlattenAppend DEF Bytes
<1> QED
  BY <1>8, Zenon DEF Chunks, S, U, c

LEMMA ChunksAre ==
  ASSUME NEW data \in Bytes, NEW size \in Sizable
  PROVE  \A m \in Nat : m <= ChunkCount(data, size) => IsChunks(data, size, m)
<1> DEFINE q == ChunkCount(data, size)
           Z == {m \in Nat : m <= q => IsChunks(data, size, m)}
           C(k) == Covered(data, size, k)
           c(k) == Chunk(data, size, k)
<1>1. size \in Nat /\ size > 0
  BY ByteWidth DEF Sizable
<1>2. q \in Nat /\ \A k \in Nat : k < q => IsCut(data, size, k)
  BY <1>1, CutsAre
<1> HIDE DEF q
<1>3. 0 \in Z
  BY ChunksStart
<1>4. ASSUME NEW m \in Nat, m \in Z PROVE m + 1 \in Z
  <2> SUFFICES ASSUME m + 1 <= q PROVE IsChunks(data, size, m + 1)
    OBVIOUS
  <2>1. m < q /\ m <= q
    BY <1>2
  <2>2. IsChunks(data, size, m) /\ IsCut(data, size, m) /\ IsChunk(data, size, m)
    BY <1>2, <1>4, <2>1, ChunkIs
  <2> DEFINE f == Chunks(data, size, m)
             g == Chunks(data, size, m + 1)
             h == c(m + 1)
  <2>3. g = f \o h
    BY <2>1, ChunksNext DEF q
  <2>4. f \in Bytes /\ Len(f) = C(m) + 2 * m /\ h \in Bytes /\ Len(h) = (C(m + 1) - C(m)) + 2
        /\ \A k \in Nat : k < m => \A j \in 1..Len(c(k + 1)) : f[C(k) + 2 * k + j] = c(k + 1)[j]
    BY <2>2 DEF IsChunks, IsChunk
  <2>5. C(m) \in Nat /\ C(m + 1) \in Nat
    BY <2>2 DEF IsCut
  <2> HIDE DEF f, g, h
  <2>6. /\ g \in Bytes /\ Len(g) = Len(f) + Len(h)
        /\ \A i \in 1..Len(f) : g[i] = f[i]
        /\ \A i \in 1..Len(h) : g[Len(f) + i] = h[i]
    BY <2>3, <2>4, BytesAt
  <2>7. Len(g) = C(m + 1) + 2 * (m + 1)
    BY <2>4, <2>5, <2>6
  <2>8. ASSUME NEW k \in Nat, k < m + 1, NEW j \in 1..Len(c(k + 1))
        PROVE  g[C(k) + 2 * k + j] = c(k + 1)[j]
    <3>1. CASE k = m
      <4>1. g[Len(f) + j] = h[j]
        BY <2>6, <3>1 DEF h
      <4> QED
        BY <2>4, <3>1, <4>1 DEF h
    <3>2. CASE k # m
      <4>1. k < m /\ k < q
        BY <1>2, <2>1, <2>8, <3>2
      <4>2. IsChunk(data, size, k) /\ IsCut(data, size, k) /\ IsCut(data, size, m)
        BY <1>2, <2>1, <4>1, ChunkIs
      <4>3. Len(c(k + 1)) = (C(k + 1) - C(k)) + 2 /\ C(k) \in Nat /\ C(k + 1) \in Nat
        BY <4>2 DEF IsChunk, IsCut
      <4>4. C(k + 1) <= C(m)
        <5>1. C(m) = size * m
          BY <4>2 DEF IsCut
        <5>2. CASE k + 1 = m
          BY <4>3, <5>2
        <5>3. CASE k + 1 # m
          <6>1. k + 1 < q /\ k + 1 < m
            BY <1>2, <2>1, <4>1, <5>3
          <6>2. IsCut(data, size, k + 1)
            BY <1>2, <6>1
          <6>3. C(k + 1) = size * (k + 1)
            BY <6>2 DEF IsCut
          <6>4. PICK b \in Nat : m = (k + 1) + b
            <7>1. m - (k + 1) \in Nat /\ m = (k + 1) + (m - (k + 1))
              BY <6>1
            <7> QED
              BY <7>1
          <6> DEFINE x == size * (k + 1)
                     y == size * b
          <6>5. x \in Nat /\ y \in Nat /\ size * m = x + y
            BY <1>1, <6>4
          <6> HIDE DEF x, y
          <6>6. x <= x + y
            BY <6>5
          <6> QED
            BY <5>1, <6>3, <6>5, <6>6 DEF x
        <5> QED
          BY <5>2, <5>3
      <4> DEFINE a == C(k)
                 b == C(k + 1)
                 e == C(m)
                 i == a + 2 * k + j
      <4>5. a \in Nat /\ b \in Nat /\ e \in Nat /\ b <= e /\ j \in 1..(b - a) + 2 /\ Len(f) = e + 2 * m
        BY <2>4, <2>5, <4>3, <4>4
      <4> HIDE DEF a, b, e
      <4>6. i \in 1..Len(f)
        BY <4>1, <4>5
      <4> HIDE DEF i
      <4>7. g[i] = f[i]
        BY <2>6, <4>6
      <4> QED
        BY <2>4, <4>1, <4>7 DEF i, a
    <3> QED
      BY <3>1, <3>2
  <2> HIDE DEF C, c
  <2>9. g \in Bytes /\ Len(g) = C(m + 1) + 2 * (m + 1)
        /\ \A k \in Nat : k < m + 1 => \A j \in 1..Len(c(k + 1)) : g[C(k) + 2 * k + j] = c(k + 1)[j]
    BY <2>6, <2>7, <2>8
  <2> QED
    BY <2>9 DEF IsChunks, g, C, c
<1> HIDE DEF Z
<1>5. Nat \subseteq Z
  BY <1>3, <1>4, NatInd
<1> QED
  BY <1>5 DEF Z, q

(***************************************************************************)
(* A block.                                                                *)
(***************************************************************************)
LEMMA HeaderIs ==
  /\ Header \in Bytes /\ Len(Header) = Len(TitleBytes) + 3 /\ Len(Header) \in 3..2^BYTE - 1
  /\ Len(TitleBytes) \in Nat /\ \A k \in 1..Len(TitleBytes) : Header[k] # NUL
  /\ Header[Len(TitleBytes) + 1] = NUL /\ Header[Len(TitleBytes) + 2] = Digit
  /\ Header[Len(TitleBytes) + 3] = NUL /\ Digit \in Digits /\ Digit # NUL
<1> DEFINE t == TitleBytes
           e == <<NUL, Digit, NUL>>
           u == 2^BYTE
           n == Len(t)
           X == 1..u - 1
           Y == 0..u - 1
           d == Digit
<1>1. u \in Nat /\ u > 4
  BY ByteWidth
<1>2. t \in Seq(X) /\ n + 3 < u /\ d \in Digits /\ Digits \subseteq X
  BY MailAssumption, FramingAssumption
<1>3. n \in Nat
  BY <1>2
<1> HIDE DEF u, t, n, d
<1>4. X \subseteq Y /\ 0 \in Y /\ d \in Y /\ d # 0 /\ \A x \in X : x # 0
  BY <1>1, <1>2
<1>5. Bytes = Seq(Y)
  BY DEF Bytes, u
<1> HIDE DEF X, Y
<1>6. ASSUME NEW k \in 1..n PROVE t[k] # 0 /\ t[k] \in Y
  BY <1>2, <1>4, <1>6, ElementOfSeq DEF n
<1>7. t \in Bytes
  <2>1. t = [k \in 1..n |-> t[k]]
    BY <1>2 DEF n
  <2>2. [k \in 1..n |-> t[k]] \in Seq(Y)
    BY <1>3, <1>6
  <2> QED
    BY <1>5, <2>1, <2>2
<1>8. e \in Bytes /\ Len(e) = 3 /\ e[1] = 0 /\ e[2] = d /\ e[3] = 0
  <2>1. e = <<0, d, 0>>
    BY DEF NUL, d
  <2> HIDE DEF e
  <2> QED
    BY <1>4, <1>5, <2>1
<1> HIDE DEF e
<1> DEFINE h == t \o e
<1>9. /\ h \in Bytes /\ Len(h) = n + Len(e)
      /\ \A i \in 1..n : h[i] = t[i]
      /\ \A i \in 1..Len(e) : h[n + i] = e[i]
  BY <1>7, <1>8, BytesAt DEF n
<1>10. Header = h
  BY DEF Header, t, e
<1> HIDE DEF h
<1>11. Len(h) = n + 3 /\ h[n + 1] = 0 /\ h[n + 2] = d /\ h[n + 3] = 0
  BY <1>8, <1>9
<1>12. ASSUME NEW k \in 1..n PROVE h[k] # 0
  BY <1>6, <1>9
<1>13. n + 3 \in 3..u - 1
  BY <1>1, <1>2, <1>3
<1> QED
  BY <1>2, <1>3, <1>4, <1>9, <1>10, <1>11, <1>12, <1>13 DEF n, t, u, NUL, d

IsBlock(data, size, block) ==
  LET h == Len(Header)
      f == Chunks(data, size, ChunkCount(data, size))
  IN  /\ block \in Bytes /\ Len(block) = h + Len(f) + 4
      /\ block[1] = SOH /\ block[2] = h
      /\ \A j \in 1..h : block[2 + j] = Header[j]
      /\ \A j \in 1..Len(f) : block[(2 + h) + j] = f[j]
      /\ block[(2 + h) + Len(f) + 1] = EOT /\ block[(2 + h) + Len(f) + 2] = Checksum(data)

LEMMA BlockIs ==
  ASSUME NEW data \in Bytes, NEW size \in Sizable
  PROVE  IsBlock(data, size, BuildBlock(TitleBytes, Digit, data, size))
<1> DEFINE h == Len(Header)
           q == ChunkCount(data, size)
           f == Chunks(data, size, q)
           a == <<SOH, h>>
           z == <<EOT, Checksum(data)>>
           u == 2^BYTE
           b1 == a \o Header
           b2 == b1 \o f
           b3 == b2 \o z
           n == Len(f)
<1>1. u \in Nat /\ u > 4
  BY ByteWidth
<1>2. h \in 3..u - 1 /\ Header \in Bytes
  BY HeaderIs
<1>3. f \in Bytes
  <2>1. size \in Nat /\ size > 0
    BY ByteWidth DEF Sizable
  <2>2. q \in Nat
    BY <2>1, CutsAre
  <2>3. q <= q
    BY <2>2
  <2>4. IsChunks(data, size, q)
    BY <2>2, <2>3, ChunksAre
  <2> QED
    BY <2>4 DEF IsChunks
<1>4. Checksum(data) \in 0..u - 1
  BY BytesNat, ChecksumType
<1> HIDE DEF f, q
<1>5. a \in Bytes /\ Len(a) = 2 /\ a[1] = SOH /\ a[2] = h
  <2> HIDE DEF h
  <2>1. SOH \in 0..u - 1 /\ h \in 0..u - 1
    BY <1>1, <1>2 DEF SOH
  <2> QED
    BY <2>1 DEF Bytes, u
<1>6. z \in Bytes /\ Len(z) = 2 /\ z[1] = EOT /\ z[2] = Checksum(data)
  <2>1. EOT \in 0..u - 1
    <3> HIDE DEF u
    <3> QED
      BY <1>1 DEF EOT
  <2> QED
    BY <1>4, <2>1 DEF Bytes, u
<1> HIDE DEF a, z, u
<1>7. /\ b1 \in Bytes /\ Len(b1) = 2 + h
      /\ \A i \in 1..2 : b1[i] = a[i]
      /\ \A i \in 1..h : b1[2 + i] = Header[i]
  <2>1. /\ b1 \in Bytes /\ Len(b1) = Len(a) + Len(Header)
        /\ Len(a) \in Nat /\ Len(Header) \in Nat
        /\ \A i \in 1..Len(a) : b1[i] = a[i]
        /\ \A i \in 1..Len(Header) : b1[Len(a) + i] = Header[i]
    BY <1>2, <1>5, BytesAt
  <2> HIDE DEF b1, h
  <2> QED
    BY <1>2, <1>5, <2>1 DEF h
<1> HIDE DEF b1
<1>8. /\ b2 \in Bytes /\ Len(b2) = (2 + h) + n /\ n \in Nat
      /\ \A i \in 1..2 + h : b2[i] = b1[i]
      /\ \A i \in 1..n : b2[(2 + h) + i] = f[i]
  <2>1. /\ b2 \in Bytes /\ Len(b2) = Len(b1) + Len(f)
        /\ Len(b1) \in Nat /\ Len(f) \in Nat
        /\ \A i \in 1..Len(b1) : b2[i] = b1[i]
        /\ \A i \in 1..Len(f) : b2[Len(b1) + i] = f[i]
    BY <1>3, <1>7, BytesAt
  <2> HIDE DEF b2, n, h
  <2> QED
    BY <1>3, <1>7, <2>1 DEF n
<1> HIDE DEF b2
<1>9. /\ b3 \in Bytes /\ Len(b3) = (2 + h) + n + 2
      /\ \A i \in 1..(2 + h) + n : b3[i] = b2[i]
      /\ \A i \in 1..2 : b3[(2 + h) + n + i] = z[i]
  <2>1. /\ b3 \in Bytes /\ Len(b3) = Len(b2) + Len(z)
        /\ Len(b2) \in Nat /\ Len(z) \in Nat
        /\ \A i \in 1..Len(b2) : b3[i] = b2[i]
        /\ \A i \in 1..Len(z) : b3[Len(b2) + i] = z[i]
    BY <1>6, <1>8, BytesAt
  <2> HIDE DEF b3, n, h
  <2> QED
    BY <1>6, <1>8, <2>1
<1>10. BuildBlock(TitleBytes, Digit, data, size) = b3
  BY BuildBlockIs DEF b1, b2, a, z, f, q
<1> HIDE DEF b3, n, h
<1>11. h \in Nat
  BY <1>1, <1>2
<1>12. b3[1] = SOH /\ b3[2] = h
  <2>1. 1 \in 1..(2 + h) + n /\ 2 \in 1..(2 + h) + n /\ 1 \in 1..2 + h /\ 2 \in 1..2 + h /\ 1 \in 1..2
        /\ 2 \in 1..2
    BY <1>8, <1>11
  <2> QED
    BY <1>5, <1>7, <1>8, <1>9, <2>1
<1>13. ASSUME NEW j \in 1..h PROVE b3[2 + j] = Header[j]
  <2>1. 2 + j \in 1..2 + h /\ 2 + j \in 1..(2 + h) + n
    BY <1>8, <1>11
  <2> QED
    BY <1>7, <1>8, <1>9, <2>1
<1>14. ASSUME NEW j \in 1..n PROVE b3[(2 + h) + j] = f[j]
  <2>1. (2 + h) + j \in 1..(2 + h) + n
    BY <1>8, <1>11
  <2> QED
    BY <1>8, <1>9, <2>1
<1>15. b3[(2 + h) + n + 1] = EOT /\ b3[(2 + h) + n + 2] = Checksum(data)
  BY <1>6, <1>9
<1>16. Len(b3) = h + n + 4
  BY <1>8, <1>9, <1>11
<1>17. IsBlock(data, size, b3)
  BY <1>9, <1>12, <1>13, <1>14, <1>15, <1>16 DEF IsBlock, n, h, f, q
<1> QED
  BY <1>10, <1>17

(***************************************************************************)
(* The parser: what its loops go through.                                  *)
(***************************************************************************)
\* ParseChunks()'s loop.
ChunkStep(data, i, x, k) == ParseChunk(data, x)
ChunkBody(data, i, w) ==
  [k \in 0..Len(data) |-> IF k = 0 THEN [state |-> "chunks", next |-> i, payload |-> <<>>] ELSE ChunkStep(data, i, w[k - 1], k)]
ChunkLoop(data, i) == CHOOSE w : w = ChunkBody(data, i, w)

LEMMA ChunkLoopDef ==
  ASSUME NEW data, NEW i, Len(data) \in Nat
  PROVE  /\ ChunkLoop(data, i)[0] = [state |-> "chunks", next |-> i, payload |-> <<>>]
         /\ \A k \in Nat : k < Len(data) =>
              ChunkLoop(data, i)[k + 1] = ChunkStep(data, i, ChunkLoop(data, i)[k], k + 1)
<1> DEFINE e == [state |-> "chunks", next |-> i, payload |-> <<>>]
           Upto(m, w) == w = [k \in 0..m |-> IF k = 0 THEN e ELSE ChunkStep(data, i, w[k - 1], k)]
           S == {m \in Nat : \E w : Upto(m, w)}
           n == Len(data)
<1> HIDE DEF e
<1>1. 0 \in S
  <2> DEFINE w == [k \in 0..0 |-> e]
  <2>1. Upto(0, w)
    <3>1. \A k \in 0..0 : k = 0
      OBVIOUS
    <3> QED
      BY <3>1
  <2> HIDE DEF Upto
  <2> QED
    BY <2>1
<1>2. ASSUME NEW m \in Nat, m \in S PROVE m + 1 \in S
  <2>1. PICK w : Upto(m, w)
    BY <1>2
  <2> DEFINE x == [k \in 0..m + 1 |-> IF k = m + 1 THEN ChunkStep(data, i, w[m], m + 1) ELSE w[k]]
             y == [k \in 0..m + 1 |-> IF k = 0 THEN e ELSE ChunkStep(data, i, x[k - 1], k)]
  <2>2. ASSUME NEW k \in 0..m + 1
        PROVE  x[k] = IF k = 0 THEN e ELSE ChunkStep(data, i, x[k - 1], k)
    <3>1. CASE k = m + 1
      <4>1. k - 1 = m /\ m \in 0..m + 1 /\ m # m + 1 /\ k # 0
        BY <3>1
      <4>2. x[k] = ChunkStep(data, i, w[m], m + 1) /\ x[m] = w[m]
        BY <3>1, <4>1
      <4> HIDE DEF x
      <4> QED
        BY <3>1, <4>1, <4>2
    <3>2. CASE k # m + 1
      <4>1. k \in 0..m
        BY <3>2
      <4>2. x[k] = w[k] /\ w[k] = IF k = 0 THEN e ELSE ChunkStep(data, i, w[k - 1], k)
        <5>1. x[k] = w[k]
          BY <3>2
        <5>2. w[k] = [j \in 0..m |-> IF j = 0 THEN e ELSE ChunkStep(data, i, w[j - 1], j)][k]
          BY <2>1, Zenon
        <5> HIDE DEF x
        <5> QED
          BY <4>1, <5>1, <5>2
      <4>3. k # 0 => x[k - 1] = w[k - 1]
        <5> SUFFICES ASSUME k # 0 PROVE x[k - 1] = w[k - 1]
          OBVIOUS
        <5>1. k - 1 \in 0..m + 1 /\ k - 1 # m + 1
          BY <4>1
        <5> QED
          BY <5>1
      <4> HIDE DEF x
      <4> QED
        BY <4>2, <4>3
    <3> QED
      BY <3>1, <3>2
  <2>3. x = y
    <3>1. x = [k \in 0..m + 1 |-> x[k]]
      OBVIOUS
    <3> HIDE DEF x
    <3> QED
      BY <2>2, <3>1
  <2>4. Upto(m + 1, x)
    <3> HIDE DEF x
    <3> QED
      BY <2>3, Zenon
  <2> HIDE DEF Upto, x, y
  <2> QED
    BY <2>4
<1>3. PICK w : Upto(n, w)
  <2> HIDE DEF Upto
  <2>1. Nat \subseteq S
    <3> HIDE DEF S
    <3> QED
      BY <1>1, <1>2, NatInd
  <2> QED
    BY <2>1
<1>4. w = ChunkBody(data, i, w)
  BY <1>3, Zenon DEF ChunkBody, e
<1> DEFINE b == ChunkLoop(data, i)
<1>5. b = ChunkBody(data, i, b)
  BY <1>4, Zenon DEF ChunkLoop
<1> HIDE DEF b
<1>6. b = [k \in 0..n |-> IF k = 0 THEN e ELSE ChunkStep(data, i, b[k - 1], k)]
  BY <1>5, Zenon DEF ChunkBody, e
<1> HIDE DEF n
<1>7. \A k \in 0..n : b[k] = IF k = 0 THEN e ELSE ChunkStep(data, i, b[k - 1], k)
  <2> SUFFICES ASSUME NEW k \in 0..n
               PROVE  b[k] = IF k = 0 THEN e ELSE ChunkStep(data, i, b[k - 1], k)
    OBVIOUS
  <2>1. b[k] = [j \in 0..n |-> IF j = 0 THEN e ELSE ChunkStep(data, i, b[j - 1], j)][k]
    BY <1>6, Zenon
  <2> QED
    BY <2>1, Zenon
<1>8. n \in Nat
  BY DEF n
<1>9. b[0] = e
  BY <1>7, <1>8
<1>10. ASSUME NEW k \in Nat, k < n PROVE b[k + 1] = ChunkStep(data, i, b[k], k + 1)
  <2>1. k + 1 \in 0..n /\ (k + 1) - 1 = k /\ k + 1 # 0
    BY <1>8, <1>10
  <2>2. b[k + 1] = ChunkStep(data, i, b[(k + 1) - 1], k + 1)
    BY <1>7, <2>1, Zenon
  <2> QED
    BY <2>1, <2>2
<1> QED
  BY <1>9, <1>10 DEF b, e, n
\* ParseBlocks()'s loop.
BlockStep(data, count, x, k) == ParseNext(data, x)
BlockBody(data, count, w) ==
  [k \in 0..count |-> IF k = 0 THEN [state |-> "whole", next |-> 1, blocks |-> <<>>] ELSE BlockStep(data, count, w[k - 1], k)]
BlockLoop(data, count) == CHOOSE w : w = BlockBody(data, count, w)

LEMMA BlockLoopDef ==
  ASSUME NEW data, NEW count, count \in Nat
  PROVE  /\ BlockLoop(data, count)[0] = [state |-> "whole", next |-> 1, blocks |-> <<>>]
         /\ \A k \in Nat : k < count =>
              BlockLoop(data, count)[k + 1] = BlockStep(data, count, BlockLoop(data, count)[k], k + 1)
<1> DEFINE e == [state |-> "whole", next |-> 1, blocks |-> <<>>]
           Upto(m, w) == w = [k \in 0..m |-> IF k = 0 THEN e ELSE BlockStep(data, count, w[k - 1], k)]
           S == {m \in Nat : \E w : Upto(m, w)}
           n == count
<1> HIDE DEF e
<1>1. 0 \in S
  <2> DEFINE w == [k \in 0..0 |-> e]
  <2>1. Upto(0, w)
    <3>1. \A k \in 0..0 : k = 0
      OBVIOUS
    <3> QED
      BY <3>1
  <2> HIDE DEF Upto
  <2> QED
    BY <2>1
<1>2. ASSUME NEW m \in Nat, m \in S PROVE m + 1 \in S
  <2>1. PICK w : Upto(m, w)
    BY <1>2
  <2> DEFINE x == [k \in 0..m + 1 |-> IF k = m + 1 THEN BlockStep(data, count, w[m], m + 1) ELSE w[k]]
             y == [k \in 0..m + 1 |-> IF k = 0 THEN e ELSE BlockStep(data, count, x[k - 1], k)]
  <2>2. ASSUME NEW k \in 0..m + 1
        PROVE  x[k] = IF k = 0 THEN e ELSE BlockStep(data, count, x[k - 1], k)
    <3>1. CASE k = m + 1
      <4>1. k - 1 = m /\ m \in 0..m + 1 /\ m # m + 1 /\ k # 0
        BY <3>1
      <4>2. x[k] = BlockStep(data, count, w[m], m + 1) /\ x[m] = w[m]
        BY <3>1, <4>1
      <4> HIDE DEF x
      <4> QED
        BY <3>1, <4>1, <4>2
    <3>2. CASE k # m + 1
      <4>1. k \in 0..m
        BY <3>2
      <4>2. x[k] = w[k] /\ w[k] = IF k = 0 THEN e ELSE BlockStep(data, count, w[k - 1], k)
        <5>1. x[k] = w[k]
          BY <3>2
        <5>2. w[k] = [j \in 0..m |-> IF j = 0 THEN e ELSE BlockStep(data, count, w[j - 1], j)][k]
          BY <2>1, Zenon
        <5> HIDE DEF x
        <5> QED
          BY <4>1, <5>1, <5>2
      <4>3. k # 0 => x[k - 1] = w[k - 1]
        <5> SUFFICES ASSUME k # 0 PROVE x[k - 1] = w[k - 1]
          OBVIOUS
        <5>1. k - 1 \in 0..m + 1 /\ k - 1 # m + 1
          BY <4>1
        <5> QED
          BY <5>1
      <4> HIDE DEF x
      <4> QED
        BY <4>2, <4>3
    <3> QED
      BY <3>1, <3>2
  <2>3. x = y
    <3>1. x = [k \in 0..m + 1 |-> x[k]]
      OBVIOUS
    <3> HIDE DEF x
    <3> QED
      BY <2>2, <3>1
  <2>4. Upto(m + 1, x)
    <3> HIDE DEF x
    <3> QED
      BY <2>3, Zenon
  <2> HIDE DEF Upto, x, y
  <2> QED
    BY <2>4
<1>3. PICK w : Upto(n, w)
  <2> HIDE DEF Upto
  <2>1. Nat \subseteq S
    <3> HIDE DEF S
    <3> QED
      BY <1>1, <1>2, NatInd
  <2> QED
    BY <2>1
<1>4. w = BlockBody(data, count, w)
  BY <1>3, Zenon DEF BlockBody, e
<1> DEFINE b == BlockLoop(data, count)
<1>5. b = BlockBody(data, count, b)
  BY <1>4, Zenon DEF BlockLoop
<1> HIDE DEF b
<1>6. b = [k \in 0..n |-> IF k = 0 THEN e ELSE BlockStep(data, count, b[k - 1], k)]
  BY <1>5, Zenon DEF BlockBody, e
<1> HIDE DEF n
<1>7. \A k \in 0..n : b[k] = IF k = 0 THEN e ELSE BlockStep(data, count, b[k - 1], k)
  <2> SUFFICES ASSUME NEW k \in 0..n
               PROVE  b[k] = IF k = 0 THEN e ELSE BlockStep(data, count, b[k - 1], k)
    OBVIOUS
  <2>1. b[k] = [j \in 0..n |-> IF j = 0 THEN e ELSE BlockStep(data, count, b[j - 1], j)][k]
    BY <1>6, Zenon
  <2> QED
    BY <2>1, Zenon
<1>8. n \in Nat
  BY DEF n
<1>9. b[0] = e
  BY <1>7, <1>8
<1>10. ASSUME NEW k \in Nat, k < n PROVE b[k + 1] = BlockStep(data, count, b[k], k + 1)
  <2>1. k + 1 \in 0..n /\ (k + 1) - 1 = k /\ k + 1 # 0
    BY <1>8, <1>10
  <2>2. b[k + 1] = BlockStep(data, count, b[(k + 1) - 1], k + 1)
    BY <1>7, <2>1, Zenon
  <2> QED
    BY <2>1, <2>2
<1> QED
  BY <1>9, <1>10 DEF b, e, n

\* A place in a block, and a place between blocks.
IsView(v) ==
  /\ v = [state |-> v.state, next |-> v.next, payload |-> v.payload]
  /\ v.next \in Nat /\ v.payload \in Bytes

IsHearing(v) ==
  /\ v = [state |-> v.state, next |-> v.next, blocks |-> v.blocks]
  /\ v.next \in Nat /\ v.blocks \in Seq(Bytes)

LEMMA BytesAppend ==
  ASSUME NEW s \in Seq(Bytes), NEW b \in Bytes
  PROVE  Append(s, b) \in Seq(Bytes)
OBVIOUS

LEMMA BytesPart ==
  ASSUME NEW s \in Bytes, NEW a \in Nat, a > 0, NEW b \in Nat, b <= Len(s), a <= b + 1
  PROVE  /\ SubSeq(s, a, b) \in Bytes /\ Len(SubSeq(s, a, b)) = b - a + 1
         /\ \A i \in 1..b - a + 1 : SubSeq(s, a, b)[i] = s[a + i - 1]
<1> DEFINE X == 0..2^BYTE - 1
<1>1. s \in Seq(X) /\ Bytes = Seq(X)
  BY DEF Bytes
<1> HIDE DEF X
<1> QED
  BY <1>1, UpTo

LEMMA ByteAt ==
  ASSUME NEW s \in Bytes
  PROVE  Len(s) \in Nat /\ \A i \in 1..Len(s) : s[i] \in Nat /\ s[i] < 2^BYTE
<1> DEFINE X == 0..2^BYTE - 1
           u == 2^BYTE
<1>1. s \in Seq(X)
  BY DEF Bytes
<1>2. u \in Nat
  BY ByteWidth
<1> HIDE DEF u
<1>3. \A x \in X : x \in Nat /\ x < 2^BYTE
  BY <1>2 DEF u
<1> HIDE DEF X
<1>4. Len(s) \in Nat /\ \A i \in 1..Len(s) : s[i] \in X
  BY <1>1, ElementOfSeq
<1> QED
  BY <1>3, <1>4

LEMMA ChunkLengthType ==
  ASSUME NEW b \in Nat
  PROVE  ChunkLength(b) \in Nat /\ ChunkLength(b) > 0
<1> DEFINE u == 2^BYTE
<1>1. u \in Nat /\ u > 4
  BY ByteWidth
<1>2. ChunkLength(b) = IF b = 0 THEN u ELSE b
  BY DEF ChunkLength
<1> HIDE DEF u
<1> QED
  BY <1>1, <1>2

\* The conditions of ParseChunk(), one after the other.
LEMMA ParseChunkTyped ==
  ASSUME NEW data \in Bytes, NEW v, IsView(v)
  PROVE  IsView(ParseChunk(data, v))
<1> DEFINE i == v.next
           c == ChunkLength(data[i + 1])
           e == i + 1 + c
           p == v.payload
           q == p \o SubSeq(data, i + 2, e)
           y == [state |-> "whole", next |-> i + 2, payload |-> p]
           z == [v EXCEPT !.next = e + 1, !.payload = q]
           w == ParseChunk(data, v)
           n == Len(data)
<1>1. i \in Nat /\ p \in Bytes /\ n \in Nat
  BY ByteAt DEF IsView
<1>2. w \in {v, Waiting, Broken, y} \/ (w = z /\ e <= n /\ ~(i + 1 > n))
  BY DEF ParseChunk
<1>3. IsView(Waiting) /\ IsView(Broken)
  <2>1. <<>> \in Bytes
    BY DEF Bytes
  <2> QED
    BY <2>1 DEF IsView, Waiting, Broken
<1>4. IsView(y)
  <2> HIDE DEF i, p
  <2>1. i + 2 \in Nat
    BY <1>1
  <2> DEFINE j == i + 2
  <2> HIDE DEF j
  <2>2. y = [state |-> "whole", next |-> j, payload |-> p]
    BY DEF j
  <2>3. y.state = "whole" /\ y.next = j /\ y.payload = p
    BY <2>2
  <2> HIDE DEF y
  <2> QED
    BY <1>1, <2>1, <2>2, <2>3 DEF IsView, j
<1>5. ASSUME e <= n, ~(i + 1 > n) PROVE IsView(z)
  <2>1. i + 1 \in 1..n
    BY <1>1, <1>5
  <2>2. data[i + 1] \in Nat
    BY <2>1, ByteAt
  <2>3. c \in Nat /\ c > 0
    BY <2>2, ChunkLengthType
  <2> HIDE DEF i, p, c, n
  <2>4. e \in Nat /\ e + 1 \in Nat /\ i + 2 \in Nat /\ i + 2 > 0 /\ i + 2 <= e + 1
    BY <1>1, <2>3
  <2> DEFINE a == i + 2
             f == e + 1
  <2>5. a \in Nat /\ a > 0 /\ f \in Nat /\ a <= f
    BY <2>4
  <2>6. e \in Nat /\ e <= n
    BY <1>5, <2>4
  <2> HIDE DEF a, e, f
  <2>7. SubSeq(data, a, e) \in Bytes
    BY <2>5, <2>6, BytesPart DEF f, n
  <2>8. q = p \o SubSeq(data, a, e)
    BY DEF a
  <2>9. q \in Bytes
    BY <1>1, <2>7, <2>8, BytesAt
  <2> HIDE DEF q
  <2>10. v = [state |-> v.state, next |-> v.next, payload |-> v.payload]
    BY DEF IsView
  <2>11. z = [v EXCEPT !.next = f, !.payload = q]
    BY DEF f
  <2>12. z = [state |-> v.state, next |-> f, payload |-> q]
    <3> DEFINE x == v
               s == v.state
               j == v.next
               g == v.payload
    <3>1. x = [state |-> s, next |-> j, payload |-> g]
      BY <2>10
    <3> HIDE DEF s, j, g, x
    <3> DEFINE m == [x EXCEPT !.next = f]
    <3>2. m = [state |-> s, next |-> f, payload |-> g]
      BY <3>1
    <3>3. [m EXCEPT !.payload = q] = [state |-> s, next |-> f, payload |-> q]
      <4> HIDE DEF m
      <4> QED
        BY <3>2
    <3>4. [x EXCEPT !.next = f, !.payload = q] = [m EXCEPT !.payload = q]
      BY Zenon
    <3> QED
      BY <2>11, <3>3, <3>4, Zenon DEF s, x
  <2>13. z.state = v.state /\ z.next = f /\ z.payload = q
    BY <2>12
  <2> HIDE DEF z
  <2> QED
    BY <2>5, <2>9, <2>12, <2>13 DEF IsView
<1> HIDE DEF w, y, z, e, n, i
<1>6. CASE w \in {v, Waiting, Broken, y}
  BY <1>3, <1>4, <1>6 DEF w
<1>7. CASE w = z /\ e <= n /\ ~(i + 1 > n)
  BY <1>5, <1>7 DEF w
<1> QED
  BY <1>2, <1>6, <1>7 DEF w

LEMMA ParseChunksTyped ==
  ASSUME NEW data \in Bytes, NEW i \in Nat
  PROVE  /\ IsView(ParseChunks(data, i))
         /\ ParseChunks(data, i) = ChunkLoop(data, i)[Len(data)]
         /\ ChunkLoop(data, i)[0] = [state |-> "chunks", next |-> i, payload |-> <<>>]
         /\ \A k \in Nat : k < Len(data) =>
              ChunkLoop(data, i)[k + 1] = ParseChunk(data, ChunkLoop(data, i)[k])
<1> DEFINE n == Len(data)
           w == ChunkLoop(data, i)
           S == {k \in Nat : k <= n => IsView(w[k])}
           s == [state |-> "chunks", next |-> i, payload |-> <<>>]
<1>1. n \in Nat
  BY ByteAt
<1>2. w[0] = s /\ \A k \in Nat : k < n => w[k + 1] = ParseChunk(data, w[k])
  BY <1>1, ChunkLoopDef DEF ChunkStep
<1>3. ParseChunks(data, i) = w[n]
  BY Zenon DEF ParseChunks, ChunkLoop, ChunkBody, ChunkStep
<1> HIDE DEF w, n
<1>4. 0 \in S
  <2>1. <<>> \in Bytes
    BY DEF Bytes
  <2>2. IsView(s)
    BY <2>1 DEF IsView
  <2> QED
    BY <1>2, <2>2, Zenon
<1>5. ASSUME NEW k \in Nat, k \in S PROVE k + 1 \in S
  <2> SUFFICES ASSUME k + 1 <= n PROVE IsView(w[k + 1])
    OBVIOUS
  <2>1. k < n /\ k <= n
    BY <1>1
  <2>2. IsView(w[k])
    BY <1>5, <2>1
  <2>3. w[k + 1] = ParseChunk(data, w[k])
    BY <1>2, <2>1
  <2> QED
    BY <2>2, <2>3, ParseChunkTyped
<1> HIDE DEF S
<1>6. n \in S
  BY <1>1, <1>4, <1>5, NatInd
<1>7. IsView(w[n])
  BY <1>1, <1>6 DEF S
<1> QED
  BY <1>2, <1>3, <1>7 DEF w, n

LEMMA ParseBlockTyped ==
  ASSUME NEW data \in Bytes, NEW i \in Nat
  PROVE  IsView(ParseBlock(data, i))
<1> DEFINE b == data[i + 1]
           e == i + 1 + b
           j == e + 1
           n == Len(data)
<1>1. n \in Nat
  BY ByteAt
<1>2. ParseBlock(data, i) \in {Waiting} \/ (ParseBlock(data, i) = ParseChunks(data, j) /\ ~(i + 1 > n))
  BY DEF ParseBlock
<1>3. IsView(Waiting)
  <2>1. <<>> \in Bytes
    BY DEF Bytes
  <2> QED
    BY <2>1 DEF IsView, Waiting
<1>4. ASSUME ~(i + 1 > n) PROVE IsView(ParseChunks(data, j))
  <2>1. i + 1 \in 1..n
    BY <1>1, <1>4
  <2>2. b \in Nat
    BY <2>1, ByteAt
  <2> HIDE DEF b
  <2>3. j \in Nat
    BY <2>2
  <2> HIDE DEF j
  <2> QED
    BY <2>3, ParseChunksTyped
<1> HIDE DEF j, n
<1> QED
  BY <1>2, <1>3, <1>4

LEMMA ParseNextTyped ==
  ASSUME NEW data \in Bytes, NEW v, IsHearing(v)
  PROVE  IsHearing(ParseNext(data, v))
<1> DEFINE b == ParseBlock(data, v.next)
           s == IF b.state = "whole" THEN Append(v.blocks, b.payload) ELSE v.blocks
           y == [state |-> b.state, next |-> b.next, blocks |-> s]
<1>1. v.next \in Nat /\ v.blocks \in Seq(Bytes)
  BY DEF IsHearing
<1>2. IsView(b)
  BY <1>1, ParseBlockTyped
<1>3. ParseNext(data, v) = IF v.state # "whole" THEN v ELSE y
  BY DEF ParseNext
<1> HIDE DEF b
<1>4. b.next \in Nat /\ b.payload \in Bytes
  BY <1>2 DEF IsView
<1>5. s \in Seq(Bytes)
  <2> DEFINE f == v.blocks
             g == b.payload
  <2>1. s = Append(f, g) \/ s = f
    OBVIOUS
  <2>2. f \in Seq(Bytes) /\ g \in Bytes
    BY <1>1, <1>4
  <2> HIDE DEF f, g, s
  <2> QED
    BY <2>1, <2>2, BytesAppend
<1> HIDE DEF s
<1>6. y.state = b.state /\ y.next = b.next /\ y.blocks = s
  OBVIOUS
<1>7. y = [state |-> b.state, next |-> b.next, blocks |-> s]
  OBVIOUS
<1> HIDE DEF y
<1>8. IsHearing(y)
  BY <1>4, <1>5, <1>6, <1>7 DEF IsHearing
<1> QED
  BY <1>3, <1>8

LEMMA ParseBlocksTyped ==
  ASSUME NEW data \in Bytes, NEW count \in Nat
  PROVE  LET w == BlockLoop(data, count)
         IN  /\ ParseBlocks(data, count) = [raised |-> w[count].state = "broken",
                                            blocks |-> w[count].blocks]
             /\ w[0] = [state |-> "whole", next |-> 1, blocks |-> <<>>]
             /\ \A k \in Nat : k < count => w[k + 1] = ParseNext(data, w[k])
             /\ \A k \in Nat : k <= count => IsHearing(w[k])
<1> DEFINE w == BlockLoop(data, count)
           S == {k \in Nat : k <= count => IsHearing(w[k])}
           s == [state |-> "whole", next |-> 1, blocks |-> <<>>]
<1>1. w[0] = s /\ \A k \in Nat : k < count => w[k + 1] = ParseNext(data, w[k])
  BY BlockLoopDef DEF BlockStep
<1>2. ParseBlocks(data, count) = [raised |-> w[count].state = "broken", blocks |-> w[count].blocks]
  BY Zenon DEF ParseBlocks, BlockLoop, BlockBody, BlockStep
<1> HIDE DEF w
<1>3. 0 \in S
  <2>1. <<>> \in Seq(Bytes)
    OBVIOUS
  <2>2. IsHearing(s)
    BY <2>1 DEF IsHearing
  <2> QED
    BY <1>1, <2>2, Zenon
<1>4. ASSUME NEW k \in Nat, k \in S PROVE k + 1 \in S
  <2> SUFFICES ASSUME k + 1 <= count PROVE IsHearing(w[k + 1])
    OBVIOUS
  <2>1. k < count /\ k <= count
    OBVIOUS
  <2>2. IsHearing(w[k])
    BY <1>4, <2>1
  <2>3. w[k + 1] = ParseNext(data, w[k])
    BY <1>1, <2>1
  <2> QED
    BY <2>2, <2>3, ParseNextTyped
<1> HIDE DEF S
<1>5. Nat \subseteq S
  BY <1>3, <1>4, NatInd
<1>6. \A k \in Nat : k <= count => IsHearing(w[k])
  BY <1>5 DEF S
<1> QED
  BY <1>1, <1>2, <1>6 DEF w

(***************************************************************************)
(* Mail on its way.                                                        *)
(***************************************************************************)
ByteSet == 0..2^BYTE - 1
Letters == [data : Bytes, widest : Nat]
Marks == [byte : ByteSet, payload : BOOLEAN]
BlockOf(data, size) == BuildBlock(TitleBytes, Digit, data, size)

LEMMA MailIs ==
  ASSUME NEW m \in Mails
  PROVE  /\ m \in Seq(Texts) /\ Len(m) \in Nat /\ Len(m) > 0
         /\ \A k \in 1..Len(m) : m[k] \in Texts /\ Len(m[k]) \in Nat /\ Len(m[k]) < 2^(BYTE * LENGTH_BYTES)
<1>1. Seq(0..LITERALS - 1) = Texts
  BY Zenon DEF Texts, Codes
<1>2. m \in Seq(Texts) /\ m # <<>>
  BY <1>1, MailAssumption
<1>3. \A k \in DOMAIN m : Len(m[k]) < 2^(BYTE * LENGTH_BYTES)
  BY MailAssumption
<1>4. Len(m) \in Nat /\ Len(m) > 0 /\ DOMAIN m = 1..Len(m)
  BY <1>2, EmptySeq
<1>5. ASSUME NEW k \in 1..Len(m) PROVE m[k] \in Texts
  BY <1>2, ElementOfSeq
<1>6. ASSUME NEW k \in 1..Len(m) PROVE Len(m[k]) \in Nat
  BY <1>5 DEF Texts
<1> QED
  BY <1>2, <1>3, <1>4, <1>5, <1>6

LEMMA MarkedIs ==
  ASSUME NEW data \in Bytes, NEW size \in Sizable
  PROVE  /\ Marked(data, size) \in Seq(Marks)
         /\ Len(Marked(data, size)) = Len(BlockOf(data, size))
         /\ \A i \in 1..Len(BlockOf(data, size)) : Marked(data, size)[i].byte = BlockOf(data, size)[i]
<1> DEFINE block == BlockOf(data, size)
           first == Len(TitleBytes) + 5
           at == {first + j + 2 * ((j - 1) \div size + 1) : j \in DOMAIN data}
           m == Marked(data, size)
           n == Len(block)
<1>1. block \in Bytes
  BY BlockIs DEF IsBlock, BlockOf
<1>2. m = [i \in DOMAIN block |-> [byte |-> block[i], payload |-> i \in at]]
  BY Zenon DEF Marked, BlockOf
<1> HIDE DEF at, m, block
<1>3. n \in Nat /\ DOMAIN block = 1..n /\ \A i \in 1..n : block[i] \in ByteSet
  <2>1. block \in Seq(ByteSet)
    BY <1>1, Zenon DEF Bytes, ByteSet
  <2> QED
    BY <2>1, ElementOfSeq
<1> HIDE DEF n
<1>4. ASSUME NEW i \in 1..n
      PROVE  m[i] \in Marks /\ m[i].byte = block[i]
  <2> DEFINE b == i \in at
             y == [byte |-> block[i], payload |-> b]
  <2>1. b \in BOOLEAN
    OBVIOUS
  <2>2. m[i] = y
    BY <1>2, <1>3
  <2> HIDE DEF b
  <2>3. y \in Marks /\ y.byte = block[i]
    BY <1>3, <2>1 DEF Marks
  <2> HIDE DEF y
  <2> QED
    BY <2>2, <2>3
<1>5. m = [i \in 1..n |-> m[i]]
  <2> DEFINE g(i) == [byte |-> block[i], payload |-> i \in at]
  <2>1. m = [i \in 1..n |-> g(i)]
    BY <1>2, <1>3
  <2> HIDE DEF g
  <2> QED
    BY <2>1
<1>6. m \in Seq(Marks) /\ Len(m) = n
  BY <1>3, <1>4, <1>5
<1> QED
  BY <1>4, <1>6 DEF m, n, block

\* The bytes of a sequence of marks.
BytesOf(marks) == [i \in DOMAIN marks |-> marks[i].byte]

LEMMA BytesOfIs ==
  ASSUME NEW marks \in Seq(Marks)
  PROVE  /\ BytesOf(marks) \in Bytes /\ Len(BytesOf(marks)) = Len(marks)
         /\ \A i \in 1..Len(marks) : BytesOf(marks)[i] = marks[i].byte
<1> DEFINE n == Len(marks)
<1>1. n \in Nat /\ DOMAIN marks = 1..n /\ \A i \in 1..n : marks[i] \in Marks
  BY ElementOfSeq
<1> HIDE DEF n
<1>2. \A i \in 1..n : marks[i].byte \in ByteSet
  BY <1>1 DEF Marks
<1> DEFINE g(i) == marks[i].byte
<1>3. BytesOf(marks) = [i \in 1..n |-> g(i)] /\ \A i \in 1..n : g(i) \in ByteSet
  BY <1>1, <1>2 DEF BytesOf
<1>4. ASSUME NEW i \in 1..n PROVE g(i) = marks[i].byte
  OBVIOUS
<1> HIDE DEF g
<1>5. /\ BytesOf(marks) \in Seq(ByteSet) /\ Len(BytesOf(marks)) = n
      /\ \A i \in 1..n : BytesOf(marks)[i] = g(i)
  BY <1>1, <1>3
<1> QED
  BY <1>4, <1>5 DEF n, Bytes, ByteSet

\* What Send() makes of the letters.
Envelope(letters, size) == FlattenSeq([k \in DOMAIN letters |-> Marked(letters[k].data, size)])

LEMMA EnvelopeType ==
  ASSUME NEW letters \in Seq(Letters), NEW size \in Sizable
  PROVE  /\ [k \in DOMAIN letters |-> Marked(letters[k].data, size)] \in Seq(Seq(Marks))
         /\ Envelope(letters, size) \in Seq(Marks)
<1> DEFINE n == Len(letters)
           g(k) == Marked(letters[k].data, size)
           S == [k \in DOMAIN letters |-> g(k)]
<1>1. n \in Nat /\ DOMAIN letters = 1..n /\ \A k \in 1..n : letters[k] \in Letters
  BY ElementOfSeq
<1> HIDE DEF n
<1>2. \A k \in 1..n : letters[k].data \in Bytes
  BY <1>1 DEF Letters
<1>3. \A k \in 1..n : g(k) \in Seq(Marks)
  BY <1>2, MarkedIs
<1> HIDE DEF g
<1>4. S \in Seq(Seq(Marks))
  BY <1>1, <1>3
<1>5. Envelope(letters, size) = FlattenSeq(S)
  BY Zenon DEF Envelope, g
<1> HIDE DEF S
<1>6. FlattenSeq(S) \in Seq(Marks)
  BY <1>4, FlattenType
<1> QED
  BY <1>4, <1>5, <1>6 DEF S, g

\* The types of the states.
Phases == {"compress", "arrive", "unpack", "done", "error"}

Typed ==
  /\ phase \in Phases
  /\ mail \in Mails /\ prepared \in Seq(Letters) /\ Len(prepared) <= Len(mail)
  /\ Encoder(enc)
  /\ wire \in Bytes /\ place \in Seq(1..Len(wire)) /\ heard \in Nat /\ heard <= Len(wire)
  /\ blocks \in Seq(Bytes) /\ Decoder(dec) /\ messages \in Seq(Texts)
  /\ phase \in {"compress", "arrive"} => dec.size = 0
  /\ phase = "compress" => heard = 0
  /\ dec.size > 0 => Len(messages) < Len(blocks)

LEMMA TypedStart == Init => Typed
<1> SUFFICES ASSUME Init PROVE Typed
  OBVIOUS
<1>1. mail \in Mails /\ enc = StartCompress(mail[1]) /\ dec = StartDecompress(0)
      /\ prepared = <<>> /\ wire = <<>> /\ place = <<>> /\ blocks = <<>> /\ messages = <<>>
      /\ heard = 0 /\ phase = "compress"
  BY DEF Init
<1>2. Len(mail) \in Nat /\ 1 \in 1..Len(mail) /\ mail[1] \in Texts
  BY <1>1, MailIs
<1>3. Encoder(enc)
  BY <1>1, <1>2, StartCompressTyped
<1>4. Decoder(dec)
  BY <1>1, StartDecompressTyped
<1>5. dec.size = 0
  BY <1>1 DEF StartDecompress
<1>6. /\ prepared \in Seq(Letters) /\ Len(prepared) = 0 /\ wire \in Bytes /\ Len(wire) = 0
      /\ place \in Seq(1..Len(wire)) /\ blocks \in Seq(Bytes) /\ messages \in Seq(Texts)
  BY <1>1 DEF Bytes
<1> QED
  BY <1>1, <1>2, <1>3, <1>4, <1>5, <1>6 DEF Typed, Phases

LEMMA TypedCompress ==
  ASSUME Typed, Compress
  PROVE  Typed'
<1>1. phase = "compress" /\ Len(prepared) < Len(mail) /\ enc.length > 0
      /\ enc' = CompressNext(enc, Current)
  BY DEF Compress
<1>2. UNCHANGED <<phase, mail, prepared, wire, place, damaged, heard, blocks, dec, messages>>
  BY DEF Compress, link, receiving
<1>3. Current \in Texts
  <2>1. Len(prepared) \in Nat /\ Len(mail) \in Nat
    BY MailIs DEF Typed
  <2>2. Len(prepared) + 1 \in 1..Len(mail)
    BY <1>1, <2>1
  <2> QED
    BY <2>2, MailIs DEF Typed, Current
<1>4. Encoder(enc')
  BY <1>1, <1>3, CompressNextTyped DEF Typed, Moving
<1> QED
  BY <1>2, <1>4 DEF Typed

LEMMA TypedPrepare ==
  ASSUME Typed, Prepare
  PROVE  Typed'
<1> DEFINE e == [data |-> CompressedB2(Len(Current), enc.out), widest |-> enc.widest]
           n == Len(prepared)
<1>1. /\ phase = "compress" /\ n < Len(mail) /\ prepared' = Append(prepared, e)
      /\ enc' = IF Len(prepared') < Len(mail) THEN StartCompress(mail[Len(prepared') + 1]) ELSE enc
  BY DEF Prepare
<1>2. UNCHANGED <<phase, mail, wire, place, damaged, heard, blocks, dec, messages>>
  BY DEF Prepare, link, receiving
<1>3. n \in Nat /\ Len(mail) \in Nat
  BY MailIs DEF Typed
<1>4. Current \in Texts /\ Len(Current) \in Nat
  <2>1. n + 1 \in 1..Len(mail)
    BY <1>1, <1>3
  <2> QED
    BY <2>1, MailIs DEF Typed, Current
<1>5. e \in Letters
  <2>1. enc.out \in Seq(Bits) /\ enc.widest \in Nat
    BY DEF Typed, Encoder
  <2> DEFINE c == CompressedB2(Len(Current), enc.out)
             w == enc.widest
  <2>2. c \in Bytes /\ w \in Nat
    BY <1>4, <2>1, CompressedType
  <2>3. e = [data |-> c, widest |-> w]
    OBVIOUS
  <2> HIDE DEF c, w, e
  <2> QED
    BY <2>2, <2>3 DEF Letters
<1> HIDE DEF e
<1>6. prepared' \in Seq(Letters) /\ Len(prepared') = n + 1
  BY <1>1, <1>5, AppendProperties DEF Typed
<1>7. Len(prepared') <= Len(mail)
  BY <1>1, <1>3, <1>6
<1>8. Encoder(enc')
  <2>1. CASE Len(prepared') < Len(mail)
    <3>1. Len(prepared') + 1 \in 1..Len(mail)
      BY <1>3, <1>6, <2>1
    <3>2. mail[Len(prepared') + 1] \in Texts
      BY <3>1, MailIs DEF Typed
    <3> QED
      BY <1>1, <2>1, <3>2, StartCompressTyped
  <2>2. CASE ~(Len(prepared') < Len(mail))
    BY <1>1, <2>2 DEF Typed
  <2> QED
    BY <2>1, <2>2
<1> QED
  BY <1>2, <1>6, <1>7, <1>8 DEF Typed

LEMMA TypedSend ==
  ASSUME Typed, Send
  PROVE  Typed'
<1>1. /\ phase = "compress" /\ phase' = "arrive"
      /\ UNCHANGED <<mail, prepared, enc, damaged, heard, blocks, dec, messages>>
  BY DEF Send, sending, receiving
<1>2. PICK size \in ChunkSizes :
        LET all == FlattenSeq([k \in DOMAIN prepared |-> Marked(prepared[k].data, size)])
        IN  /\ wire' = [i \in DOMAIN all |-> all[i].byte]
            /\ place' = Ascending(Len(all), {i \in DOMAIN all : all[i].payload})
  BY DEF Send
<1> DEFINE all == Envelope(prepared, size)
           kept == {i \in DOMAIN all : all[i].payload}
<1>3. wire' = BytesOf(all) /\ place' = Ascending(Len(all), kept)
  BY <1>2, Zenon DEF Envelope, BytesOf
<1>4. size \in Sizable
  BY MailAssumption DEF Sizable
<1>5. all \in Seq(Marks)
  BY <1>4, EnvelopeType DEF Typed
<1> HIDE DEF all, kept
<1>6. wire' \in Bytes /\ Len(wire') = Len(all)
  BY <1>3, <1>5, BytesOfIs
<1>7. place' \in Seq(1..Len(wire'))
  <2>1. Ascending(Len(all), kept) \in Seq(1..Len(all))
    BY <1>5, PickAscending
  <2> QED
    BY <1>3, <1>6, <2>1
<1>8. heard' \in Nat /\ heard' <= Len(wire')
  BY <1>1, <1>6, ByteAt DEF Typed
<1> QED
  BY <1>1, <1>6, <1>7, <1>8 DEF Typed, Phases

LEMMA TypedDamage ==
  ASSUME Typed, Damage
  PROVE  Typed'
<1> DEFINE n == Len(wire)
<1>1. /\ phase = "arrive"
      /\ UNCHANGED <<phase, mail, prepared, enc, place, heard, blocks, dec, messages>>
      /\ \/ \E j \in DOMAIN place, b \in 0..2^BYTE - 1 : wire' = [wire EXCEPT ![place[j]] = b]
         \/ \E j \in 1..Len(place) - 1 :
              wire' = [wire EXCEPT ![place[j]] = wire[place[j + 1]],
                                   ![place[j + 1]] = wire[place[j]]]
  BY DEF Damage, sending, receiving
<1>2. wire \in Seq(ByteSet) /\ place \in Seq(1..n)
  BY Zenon DEF Typed, Bytes, ByteSet
<1>3. n \in Nat /\ Len(place) \in Nat /\ DOMAIN place = 1..Len(place) /\ wire \in [1..n -> ByteSet]
  BY <1>2
<1>4. ASSUME NEW j \in 1..Len(place) PROVE place[j] \in 1..n /\ wire[place[j]] \in ByteSet
  <2>1. place[j] \in 1..n
    BY <1>2, ElementOfSeq
  <2> QED
    BY <1>3, <2>1
<1> HIDE DEF n
<1>5. wire' \in [1..n -> ByteSet]
  <2>1. CASE \E j \in DOMAIN place, b \in 0..2^BYTE - 1 : wire' = [wire EXCEPT ![place[j]] = b]
    <3>1. PICK j \in 1..Len(place), b \in ByteSet : wire' = [wire EXCEPT ![place[j]] = b]
      BY <1>3, <2>1, Zenon DEF ByteSet
    <3> DEFINE p == place[j]
    <3> HIDE DEF p
    <3> QED
      BY <1>3, <3>1 DEF p
  <2>2. CASE \E j \in 1..Len(place) - 1 :
              wire' = [wire EXCEPT ![place[j]] = wire[place[j + 1]],
                                   ![place[j + 1]] = wire[place[j]]]
    <3>1. PICK j \in 1..Len(place) - 1 :
              wire' = [wire EXCEPT ![place[j]] = wire[place[j + 1]],
                                   ![place[j + 1]] = wire[place[j]]]
      BY <2>2, Zenon
    <3>2. j \in 1..Len(place) /\ j + 1 \in 1..Len(place)
      BY <1>3
    <3> DEFINE p == place[j]
               q == place[j + 1]
               a == wire[q]
               b == wire[p]
    <3>3. a \in ByteSet /\ b \in ByteSet
      BY <1>4, <3>2
    <3>4. wire' = [wire EXCEPT ![p] = a, ![q] = b]
      BY <3>1
    <3> HIDE DEF p, q, a, b
    <3> QED
      BY <1>3, <3>3, <3>4
  <2> QED
    BY <1>1, <2>1, <2>2, Zenon
<1>6. wire' \in Seq(ByteSet) /\ Len(wire') = n
  BY <1>3, <1>5
<1>7. wire' \in Bytes
  BY <1>6, Zenon DEF Bytes, ByteSet
<1> QED
  BY <1>1, <1>6, <1>7 DEF Typed, n

LEMMA TypedArrive ==
  ASSUME Typed, Arrive
  PROVE  Typed'
<1> DEFINE s == SubSeq(wire, 1, heard')
           count == Len(mail)
           parsed == ParseBlocks(s, count)
<1>1. /\ phase = "arrive" /\ heard < Len(wire) /\ heard' = heard + 1
      /\ UNCHANGED <<mail, prepared, enc, wire, place, damaged, dec, messages>>
  BY DEF Arrive, sending, link
<1>2. /\ blocks' = parsed.blocks
      /\ phase' = IF parsed.raised THEN "error"
                  ELSE IF Len(parsed.blocks) >= Len(mail) THEN "unpack" ELSE "arrive"
  BY Zenon DEF Arrive
<1>3. heard \in Nat /\ Len(wire) \in Nat /\ wire \in Bytes /\ count \in Nat /\ dec.size = 0
  BY <1>1, ByteAt, MailIs DEF Typed
<1>4. heard' \in Nat /\ heard' <= Len(wire) /\ heard' + 1 > 0
  BY <1>1, <1>3
<1>5. s \in Bytes
  <2> DEFINE h == heard'
             a == 1
             w == wire
  <2>1. h \in Nat /\ h <= Len(w) /\ a <= h + 1 /\ a \in Nat /\ a > 0 /\ w \in Bytes
    <3>1. h \in Nat /\ h <= Len(wire)
      BY <1>4
    <3> HIDE DEF h
    <3> QED
      BY <1>3, <3>1
  <2> HIDE DEF h, a, w
  <2>2. SubSeq(w, a, h) \in Bytes
    BY <2>1, BytesPart
  <2> QED
    BY <2>2 DEF h, a, w
<1> HIDE DEF s, count
<1>6. parsed.blocks \in Seq(Bytes)
  <2> DEFINE w == BlockLoop(s, count)
  <2>1. parsed = [raised |-> w[count].state = "broken", blocks |-> w[count].blocks]
        /\ \A k \in Nat : k <= count => IsHearing(w[k])
    BY <1>3, <1>5, ParseBlocksTyped
  <2> HIDE DEF w, parsed
  <2>2. IsHearing(w[count])
    BY <1>3, <2>1
  <2>3. w[count].blocks \in Seq(Bytes)
    BY <2>2 DEF IsHearing
  <2>4. parsed.blocks = w[count].blocks
    <3> DEFINE b == w[count].state = "broken"
               f == w[count].blocks
    <3>1. parsed = [raised |-> b, blocks |-> f]
      BY <2>1
    <3> HIDE DEF b, f
    <3>2. parsed.blocks = f
      BY <3>1
    <3> QED
      BY <3>2 DEF f
  <2> QED
    BY <2>3, <2>4
<1> HIDE DEF parsed
<1>7. phase' \in {"error", "unpack", "arrive"}
  BY <1>2
<1> QED
  BY <1>1, <1>2, <1>3, <1>4, <1>6, <1>7 DEF Typed, Phases

LEMMA BytesFrom ==
  ASSUME NEW s \in Bytes, NEW a \in Nat, a > 0
  PROVE  /\ SubSeq(s, a, Len(s)) \in Bytes
         /\ Len(SubSeq(s, a, Len(s))) = IF a <= Len(s) THEN Len(s) - a + 1 ELSE 0
         /\ \A i \in 1..Len(s) - a + 1 : SubSeq(s, a, Len(s))[i] = s[a + i - 1]
<1> DEFINE X == 0..2^BYTE - 1
<1>1. s \in Seq(X) /\ Bytes = Seq(X)
  BY DEF Bytes
<1> HIDE DEF X
<1> QED
  BY <1>1, FromOn

LEMMA BodyType ==
  ASSUME NEW data \in Bytes
  PROVE  /\ Body(data) \in Bytes
         /\ Len(data) >= 2 + LENGTH_BYTES => Len(Body(data)) = Len(data) - 2 /\ Size(Body(data)) \in Nat
         /\ CodeBits(Body(data)) \in Seq(Bits)
<1> DEFINE b == Body(data)
           l == LENGTH_BYTES
           n == Len(data)
<1>1. l \in Nat /\ l > 0 /\ n \in Nat
  BY ByteWidth, ByteAt, FramingAssumption
<1>2. /\ SubSeq(data, 3, n) \in Bytes
      /\ Len(SubSeq(data, 3, n)) = IF 3 <= n THEN n - 3 + 1 ELSE 0
  <2> DEFINE a == 3
  <2>1. a \in Nat /\ a > 0
    OBVIOUS
  <2> HIDE DEF a
  <2>2. /\ SubSeq(data, a, n) \in Bytes
        /\ Len(SubSeq(data, a, n)) = IF a <= n THEN n - a + 1 ELSE 0
    BY <2>1, BytesFrom
  <2> QED
    BY <2>2 DEF a
<1>3. b = SubSeq(data, 3, n)
  BY DEF Body
<1>4. b \in Bytes /\ Len(b) \in Nat
  BY <1>2, <1>3, ByteAt
<1> HIDE DEF l, n, b
<1>5. ASSUME n >= 2 + l PROVE Len(b) = n - 2
  BY <1>1, <1>2, <1>3, <1>5
<1>6. ASSUME n >= 2 + l PROVE Size(b) \in Nat
  <2> DEFINE a == 1
             s == SubSeq(b, a, l)
  <2>1. a \in Nat /\ a > 0 /\ l <= Len(b) /\ a <= l + 1
    BY <1>1, <1>5, <1>6
  <2> HIDE DEF a
  <2>2. s \in Bytes
    BY <1>1, <1>4, <2>1, BytesPart
  <2>3. Size(b) = FromLittleEndian(s)
    BY DEF Size, a, l
  <2> HIDE DEF s
  <2> QED
    BY <2>2, <2>3, BytesNat, FromLittleEndianIs
<1>7. CodeBits(b) \in Seq(Bits)
  <2> DEFINE a == l + 1
             s == SubSeq(b, a, Len(b))
  <2>1. a \in Nat /\ a > 0
    BY <1>1
  <2> HIDE DEF a
  <2>2. s \in Bytes
    BY <1>4, <2>1, BytesFrom
  <2>3. CodeBits(b) = Unpacked(s)
    BY DEF CodeBits, a, l
  <2> HIDE DEF s
  <2> QED
    BY <2>2, <2>3, BytesNat, UnpackedIs
<1> QED
  BY <1>4, <1>5, <1>6, <1>7 DEF b, l, n

LEMMA TypedOpen ==
  ASSUME Typed, Open
  PROVE  Typed'
<1> DEFINE data == blocks[Len(messages) + 1]
           size == Size(Body(data))
<1>1. /\ phase = "unpack" /\ dec.size = 0 /\ Len(messages) < Len(blocks)
      /\ UNCHANGED <<mail, prepared, enc, wire, place, damaged, heard, blocks>>
  BY DEF Open, sending, link
<1>2. \/ phase' = "error" /\ UNCHANGED <<dec, messages>>
      \/ /\ Accepts(data) /\ dec' = StartDecompress(size) /\ UNCHANGED phase
         /\ messages' = IF size = 0 THEN Append(messages, <<>>) ELSE messages
  BY DEF Open
<1>3. Len(messages) \in Nat /\ Len(blocks) \in Nat /\ messages \in Seq(Texts)
  BY DEF Typed
<1>4. data \in Bytes
  <2>1. Len(messages) + 1 \in 1..Len(blocks)
    BY <1>1, <1>3
  <2> QED
    BY <2>1, ElementOfSeq DEF Typed
<1> HIDE DEF data
<1>5. CASE phase' = "error" /\ UNCHANGED <<dec, messages>>
  BY <1>1, <1>5 DEF Typed, Phases
<1>6. CASE /\ Accepts(data) /\ dec' = StartDecompress(size) /\ UNCHANGED phase
           /\ messages' = IF size = 0 THEN Append(messages, <<>>) ELSE messages
  <2>1. size \in Nat
    BY <1>4, <1>6, BodyType DEF Accepts
  <2> HIDE DEF size
  <2>2. Decoder(dec') /\ dec'.size = size
    BY <1>6, <2>1, StartDecompressTyped DEF StartDecompress
  <2>3. messages' \in Seq(Texts) /\ (size > 0 => messages' = messages)
    <3>1. <<>> \in Texts
      BY DEF Texts
    <3>2. Append(messages, <<>>) \in Seq(Texts)
      BY <1>3, <3>1, AppendProperties
    <3> QED
      BY <1>3, <1>6, <2>1, <3>2
  <2>4. phase' = "unpack"
    BY <1>1, <1>6
  <2> QED
    BY <1>1, <2>2, <2>3, <2>4 DEF Typed, Phases
<1> QED
  BY <1>2, <1>5, <1>6

LEMMA TypedDecompress ==
  ASSUME Typed, Decompress
  PROVE  Typed'
<1> DEFINE bits == CodeBits(Body(blocks[Len(messages) + 1]))
           next == DecompressNext(dec, bits)
           over == Len(next.out) >= next.size
<1>1. /\ phase = "unpack" /\ Len(dec.out) < dec.size
      /\ UNCHANGED <<phase, mail, prepared, enc, wire, place, damaged, heard, blocks>>
  BY DEF Decompress, sending, link
<1>2. /\ dec' = IF over THEN [next EXCEPT !.size = 0] ELSE next
      /\ messages' = IF over THEN Append(messages, next.out) ELSE messages
  BY DEF Decompress
<1>3. Len(messages) \in Nat /\ Len(blocks) \in Nat /\ messages \in Seq(Texts)
      /\ dec.size \in Nat /\ Len(dec.out) \in Nat
  BY DEF Typed, Decoder, Texts
<1>4. dec.size > 0 /\ Len(messages) < Len(blocks)
  <2>1. dec.size > 0
    BY <1>1, <1>3
  <2> QED
    BY <2>1 DEF Typed
<1>5. bits \in Seq(Bits)
  <2>1. Len(messages) + 1 \in 1..Len(blocks)
    BY <1>3, <1>4
  <2>2. blocks[Len(messages) + 1] \in Bytes
    BY <2>1, ElementOfSeq DEF Typed
  <2> QED
    BY <2>2, BodyType
<1> HIDE DEF bits
<1>6. Decoder(next) /\ next.size = dec.size
  BY <1>1, <1>5, DecompressNextTyped DEF Typed
<1> HIDE DEF next
<1>7. next.out \in Texts /\ next.size \in Nat
  BY <1>6 DEF Decoder
<1>8. CASE over
  <2>1. dec' = [next EXCEPT !.size = 0] /\ messages' = Append(messages, next.out)
    BY <1>2, <1>8
  <2> DEFINE y == [huff |-> next.huff, text |-> next.text, r |-> next.r, size |-> 0,
                   at |-> next.at, out |-> next.out]
             z == [next EXCEPT !.size = 0]
  <2>2. z = y
    BY <1>6 DEF Decoder
  <2>3. y.huff = next.huff /\ y.text = next.text /\ y.r = next.r /\ y.size = 0 /\ y.at = next.at
        /\ y.out = next.out
    OBVIOUS
  <2>4. y = [huff |-> y.huff, text |-> y.text, r |-> y.r, size |-> y.size, at |-> y.at, out |-> y.out]
    BY <2>3
  <2> HIDE DEF y
  <2>5. Decoder(y)
    BY <1>6, <2>3, <2>4 DEF Decoder
  <2>6. messages' \in Seq(Texts)
    BY <1>3, <1>7, <2>1, AppendProperties
  <2>7. dec' = y
    BY <2>1, <2>2
  <2> QED
    BY <1>1, <2>3, <2>5, <2>6, <2>7 DEF Typed
<1>9. CASE ~over
  <2>1. dec' = next /\ messages' = messages
    BY <1>2, <1>9
  <2> QED
    BY <1>1, <1>4, <1>6, <2>1 DEF Typed
<1> QED
  BY <1>8, <1>9

LEMMA TypedStep ==
  ASSUME Typed, [Next]_vars
  PROVE  Typed'
<1>1. CASE Compress
  BY <1>1, TypedCompress
<1>2. CASE Prepare
  BY <1>2, TypedPrepare
<1>3. CASE Send
  BY <1>3, TypedSend
<1>4. CASE Damage
  BY <1>4, TypedDamage
<1>5. CASE Arrive
  BY <1>5, TypedArrive
<1>6. CASE TimeOut
  BY <1>6 DEF TimeOut, Typed, Phases, sending, link, receiving
<1>7. CASE Open
  BY <1>7, TypedOpen
<1>8. CASE Decompress
  BY <1>8, TypedDecompress
<1>9. CASE Return
  BY <1>9 DEF Return, Typed, Phases, sending, link, receiving
<1>10. CASE UNCHANGED vars
  BY <1>10 DEF vars, sending, link, receiving, Typed
<1> QED
  BY <1>1, <1>2, <1>3, <1>4, <1>5, <1>6, <1>7, <1>8, <1>9, <1>10 DEF Next

\* The types of the states stay what they are.
THEOREM MailTyped == Spec => []Typed
BY TypedStart, TypedStep, PTL DEF Spec

\* The Huffman trees of both ends stay trees, in order of frequency.
THEOREM HuffmanTreesStay == Spec => []TreesAreHuffman
<1>1. Typed => TreesAreHuffman
  BY RestingIsHuffman DEF Typed, Encoder, Decoder, TreesAreHuffman
<1> QED
  BY <1>1, MailTyped, PTL

(***************************************************************************)
(* What compress_b2() wrote passes the checks of decompress_b2().          *)
(***************************************************************************)
LEMMA DivideTwice ==
  ASSUME NEW x \in Nat, NEW p \in Nat, p > 0, NEW u \in Nat, u > 0
  PROVE  /\ x \div p \in Nat /\ x \div (p * u) \in Nat
         /\ x \div p = (x \div (p * u)) * u + ((x \div p) % u)
<1> DEFINE q == x \div p
           r == x % p
           b == q \div u
           s == q % u
           d == p * u
<1>1. x = p * q + r /\ r \in 0..p - 1 /\ q \in Nat
  BY Divides
<1> HIDE DEF q, r
<1>2. q = u * b + s /\ s \in 0..u - 1 /\ b \in Nat
  BY <1>1, Divides
<1> HIDE DEF b, s
<1>3. d \in Nat
  OBVIOUS
<1> DEFINE m == p * s + r
<1>4. m \in Nat /\ m < d
  <2>1. PICK a \in Nat : u = s + 1 + a
    <3>1. u - (s + 1) \in Nat /\ u = s + 1 + (u - (s + 1))
      BY <1>2
    <3> QED
      BY <3>1
  <2> DEFINE g == p * s
             h == p * a
  <2>2. g \in Nat /\ h \in Nat /\ d = g + p + h
    BY <1>2, <2>1
  <2> HIDE DEF g, h, d
  <2> QED
    BY <1>1, <2>2 DEF g
<1>5. x = b * d + m
  <2> DEFINE v == b * (p * u)
             g == p * s
  <2>1. p * q = v + g
    BY <1>1, <1>2
  <2>2. v \in Nat /\ g \in Nat
    BY <1>2
  <2> HIDE DEF v, g, m
  <2>3. x = v + (g + r)
    BY <1>1, <2>1, <2>2
  <2> QED
    BY <2>3 DEF v, g, m, d
<1> HIDE DEF d, m
<1>6. (b * d + m) \div d = b
  BY <1>2, <1>3, <1>4, Quotient
<1>7. x \div d = b
  BY <1>5, <1>6
<1>8. q = b * u + s
  BY <1>2
<1> QED
  BY <1>1, <1>2, <1>7, <1>8 DEF q, s, d

LEMMA LittleEndianBack ==
  ASSUME NEW n \in Nat, NEW x \in Nat, x < 2^(BYTE * n)
  PROVE  FromLittleEndian(LittleEndian(x, n)) = x
<1> DEFINE s == LittleEndian(x, n)
           w == LittleLoop(s)
           P(k) == 2^(BYTE * k)
           u == 2^BYTE
           Z == {k \in Nat : k <= n => x = w[k] + (x \div P(k)) * P(k)}
<1>1. s \in Seq(Nat) /\ Len(s) = n
  BY LittleEndianType, BytesNat
<1>2. ASSUME NEW k \in Nat, k < n PROVE s[k + 1] = (x \div P(k)) % u
  <2>1. k + 1 \in 1..n /\ (k + 1) - 1 = k
    BY <1>2
  <2>2. s[k + 1] = (x \div 2^(BYTE * ((k + 1) - 1))) % u
    BY <2>1, Zenon DEF LittleEndian
  <2> QED
    BY <2>1, <2>2
<1> HIDE DEF s
<1>3. /\ FromLittleEndian(s) = w[n] /\ w[0] = 0
      /\ \A k \in Nat : k < n => w[k] \in Nat /\ w[k + 1] = w[k] + s[k + 1] * P(k)
  BY <1>1, FromLittleEndianIs
<1> HIDE DEF w
<1>4. u \in Nat /\ u > 0
  BY ByteWidth
<1>5. ASSUME NEW k \in Nat PROVE P(k) \in Nat /\ P(k) > 0 /\ P(k + 1) = P(k) * u
  <2>1. BYTE * k \in Nat /\ BYTE * (k + 1) = BYTE * k + BYTE /\ BYTE \in Nat
    BY ByteWidth
  <2> DEFINE a == BYTE * k
  <2> HIDE DEF a
  <2>2. 2^(a + BYTE) = 2^a * 2^BYTE /\ 2^a \in Nat /\ 2^a > 0
    BY <2>1, PowerSum, PowerPositive DEF a
  <2> QED
    BY <2>1, <2>2 DEF a
<1> HIDE DEF P, u
<1>6. 0 \in Z
  <2>1. P(0) = 1
    <3>1. BYTE * 0 = 0
      BY ByteWidth
    <3> QED
      BY <3>1, PowerZero DEF P
  <2>2. x = 0 + (x \div 1) * 1
    OBVIOUS
  <2> QED
    BY <1>3, <2>1, <2>2
<1>7. ASSUME NEW k \in Nat, k \in Z PROVE k + 1 \in Z
  <2> SUFFICES ASSUME k + 1 <= n PROVE x = w[k + 1] + (x \div P(k + 1)) * P(k + 1)
    OBVIOUS
  <2> DEFINE p == P(k)
             q == x \div p
             b == x \div (p * u)
             r == q % u
             v == w[k]
  <2>1. k < n /\ k <= n
    OBVIOUS
  <2>2. x = v + q * p /\ v \in Nat
    BY <1>3, <1>7, <2>1
  <2>3. w[k + 1] = v + r * p
    BY <1>2, <1>3, <2>1
  <2>4. p \in Nat /\ p > 0 /\ P(k + 1) = p * u
    BY <1>5
  <2> HIDE DEF p
  <2>5. q \in Nat /\ b \in Nat /\ q = b * u + r
    BY <1>4, <2>4, DivideTwice
  <2>6. r \in Nat
    <3> HIDE DEF q
    <3> QED
      BY <1>4, <2>5, Divides
  <2> HIDE DEF q, b, r, v
  <2>7. q * p = b * (p * u) + r * p
    BY <1>4, <2>4, <2>5, <2>6
  <2> DEFINE g == b * (p * u)
             h == r * p
  <2>8. g \in Nat /\ h \in Nat
    BY <1>4, <2>4, <2>5, <2>6
  <2> HIDE DEF g, h
  <2>9. x = (v + h) + g
    BY <2>2, <2>7, <2>8 DEF g, h
  <2> QED
    BY <2>3, <2>4, <2>9 DEF g, h, b
<1> HIDE DEF Z
<1>8. Nat \subseteq Z
  BY <1>6, <1>7, NatInd
<1>9. x = w[n] + (x \div P(n)) * P(n)
  <2>1. n \in Z /\ n <= n
    BY <1>8
  <2> QED
    BY <2>1 DEF Z
<1>10. x \div P(n) = 0
  <2> DEFINE p == P(n)
  <2>1. p \in Nat /\ p > 0 /\ x < p
    BY <1>5 DEF P
  <2> HIDE DEF p
  <2> DEFINE o == 0
             z == o * p + x
  <2>2. o \in Int /\ o = 0 /\ z = x
    BY <2>1
  <2> HIDE DEF o
  <2>3. z \div p = o
    BY <2>1, <2>2, Quotient
  <2> HIDE DEF z
  <2>4. x \div p = 0
    BY <2>2, <2>3
  <2> QED
    BY <2>4 DEF p
<1>11. 0 * P(n) = 0 /\ w[n] \in Nat
  <2>1. FromLittleEndian(s) \in Nat
    BY <1>1, FromLittleEndianIs
  <2> QED
    BY <1>3, <1>5, <2>1
<1>12. x = w[n]
  <2> DEFINE a == w[n]
             b == (x \div P(n)) * P(n)
  <2>1. b = 0 /\ a \in Nat /\ x = a + b
    BY <1>9, <1>10, <1>11
  <2> HIDE DEF a, b
  <2>2. x = a
    BY <2>1
  <2> QED
    BY <2>2 DEF a
<1> QED
  BY <1>3, <1>12 DEF s

\* The parts of a message, as CompressedB2() puts them together.
LEMMA ConcatParts ==
  ASSUME NEW a \in Bytes, NEW b \in Bytes
  PROVE  /\ SubSeq(a \o b, 1, Len(a)) = a
         /\ SubSeq(a \o b, Len(a) + 1, Len(a \o b)) = b
<1> DEFINE c == a \o b
           m == Len(a)
           n == Len(b)
           o == 1
           f == m + 1
<1>1. /\ c \in Bytes /\ Len(c) = m + n /\ m \in Nat /\ n \in Nat
      /\ \A i \in 1..m : c[i] = a[i]
      /\ \A i \in 1..n : c[m + i] = b[i]
  BY BytesAt
<1>2. o \in Nat /\ o > 0 /\ o <= m + 1 /\ m - o + 1 = m /\ f \in Nat /\ f > 0 /\ m <= Len(c)
  BY <1>1
<1>3. o = 1 /\ \A i \in 1..m : o + i - 1 = i
  BY <1>1
<1> HIDE DEF c, m, n, o
<1>4. SubSeq(c, o, m) \in Bytes /\ Len(SubSeq(c, o, m)) = m - o + 1
      /\ \A i \in 1..m - o + 1 : SubSeq(c, o, m)[i] = c[o + i - 1]
  BY <1>1, <1>2, BytesPart
<1>5. SubSeq(c, o, m) = a
  <2> DEFINE s == SubSeq(c, o, m)
  <2>1. s \in Bytes /\ Len(s) = m /\ \A i \in 1..m : s[i] = a[i]
    BY <1>1, <1>2, <1>3, <1>4
  <2> HIDE DEF s
  <2>2. s = a
    BY <2>1, SeqEqual DEF m, Bytes
  <2> QED
    BY <2>2 DEF s
<1> HIDE DEF f
<1>6. /\ SubSeq(c, f, Len(c)) \in Bytes
      /\ Len(SubSeq(c, f, Len(c))) = IF f <= Len(c) THEN Len(c) - f + 1 ELSE 0
      /\ \A i \in 1..Len(c) - f + 1 : SubSeq(c, f, Len(c))[i] = c[f + i - 1]
  BY <1>1, <1>2, BytesFrom
<1>7. SubSeq(c, f, Len(c)) = b
  <2> DEFINE s == SubSeq(c, f, Len(c))
  <2>1. f = m + 1
    BY DEF f
  <2>2. Len(c) - f + 1 = n /\ \A i \in 1..n : f + i - 1 = m + i
    BY <1>1, <2>1
  <2>3. s \in Bytes /\ Len(s) = n
    BY <1>1, <1>6, <2>1, <2>2
  <2>4. \A i \in 1..n : s[i] = b[i]
    BY <1>1, <1>6, <2>2
  <2> HIDE DEF s
  <2>5. s = b
    BY <2>3, <2>4, SeqEqual DEF n, Bytes
  <2> QED
    BY <2>5 DEF s
<1> QED
  BY <1>3, <1>5, <1>7 DEF c, m, f

LEMMA CompressedIs ==
  ASSUME NEW size \in Nat, size < 2^(BYTE * LENGTH_BYTES), NEW bits \in Seq(Bits)
  PROVE  /\ CompressedB2(size, bits) \in Bytes /\ Accepts(CompressedB2(size, bits))
         /\ Size(Body(CompressedB2(size, bits))) = size
         /\ CodeBits(Body(CompressedB2(size, bits))) = Unpacked(Packed(bits))
<1> DEFINE l == LENGTH_BYTES
           s == LittleEndian(size, l)
           p == Packed(bits)
           body == s \o p
           crc == CRC(body)
           h == LittleEndian(crc, 2)
           data == h \o body
<1>1. CompressedB2(size, bits) = data /\ l \in Nat /\ l > 0
  BY ByteWidth DEF CompressedB2
<1>2. s \in Bytes /\ Len(s) = l /\ p \in Bytes
  BY <1>1, LittleEndianType, PackedIs
<1>3. FromLittleEndian(s) = size
  BY <1>1, LittleEndianBack
<1> HIDE DEF s, p
<1>4. body \in Bytes /\ Len(body) = Len(s) + Len(p) /\ Len(p) \in Nat
  BY <1>2, BytesAt
<1>5. SubSeq(body, 1, l) = s /\ SubSeq(body, l + 1, Len(body)) = p
  <2>1. SubSeq(body, 1, Len(s)) = s /\ SubSeq(body, Len(s) + 1, Len(body)) = p
    BY <1>2, ConcatParts
  <2> QED
    BY <1>2, <2>1
<1> HIDE DEF body
<1>6. crc \in Nat /\ crc < 2^(BYTE * 2)
  BY CRCType
<1> HIDE DEF crc
<1>7. h \in Bytes /\ Len(h) = 2 /\ FromLittleEndian(h) = crc
  <2> DEFINE two == 2
             g == LittleEndian(crc, two)
  <2>1. two \in Nat /\ crc < 2^(BYTE * two)
    BY <1>6
  <2> HIDE DEF two
  <2>2. g \in Bytes /\ Len(g) = two /\ FromLittleEndian(g) = crc
    BY <1>6, <2>1, LittleEndianType, LittleEndianBack
  <2> QED
    BY <2>2 DEF two
<1> HIDE DEF h
<1>8. data \in Bytes /\ Len(data) = 2 + Len(body)
  <2>1. data \in Bytes /\ Len(data) = Len(h) + Len(body)
    BY <1>4, <1>7, BytesAt
  <2> HIDE DEF data
  <2> QED
    BY <1>7, <2>1
<1>9. SubSeq(data, 1, 2) = h /\ SubSeq(data, 3, Len(data)) = body
  <2>1. SubSeq(data, 1, Len(h)) = h /\ SubSeq(data, Len(h) + 1, Len(data)) = body
    BY <1>4, <1>7, ConcatParts
  <2>2. Len(h) + 1 = 3
    BY <1>7
  <2> QED
    BY <1>7, <2>1, <2>2
<1> HIDE DEF data
<1>10. Body(data) = body
  BY <1>9 DEF Body
<1>11. Len(data) >= 2 + l
  BY <1>1, <1>2, <1>4, <1>8
<1>12. Accepts(data)
  BY <1>7, <1>9, <1>10, <1>11 DEF Accepts, l, crc
<1>13. Size(body) = size /\ CodeBits(body) = Unpacked(p)
  BY <1>3, <1>5 DEF Size, CodeBits, l
<1> QED
  BY <1>1, <1>8, <1>10, <1>12, <1>13 DEF p

(***************************************************************************)
(* A block in what has been heard.                                         *)
(***************************************************************************)
LEMMA HeaderAccepted == IsHeader(Header)
<1> DEFINE h == Header
           n == Len(TitleBytes)
           zeros == {k \in DOMAIN h : h[k] = NUL}
           from == Min(zeros) + 1
           later == {Len(h) + 1} \cup {k \in zeros : k >= from}
           to == Min(later) - 1
<1>1. /\ h \in Bytes /\ Len(h) = n + 3 /\ n \in Nat /\ \A k \in 1..n : h[k] # NUL
      /\ h[n + 1] = NUL /\ h[n + 2] \in Digits /\ h[n + 2] # NUL /\ h[n + 3] = NUL
  BY HeaderIs
<1>2. IsHeader(h) <=> zeros # {} /\ from <= to /\ \A k \in from..to : h[k] \in Digits
  BY DEF IsHeader
<1>3. DOMAIN h = 1..n + 3
  BY <1>1 DEF Bytes
<1> HIDE DEF h, n
<1>4. zeros = {n + 1, n + 3}
  <2>1. ASSUME NEW k \in 1..n + 3 PROVE h[k] = NUL <=> k = n + 1 \/ k = n + 3
    <3>1. k \in 1..n \/ k = n + 1 \/ k = n + 2 \/ k = n + 3
      BY <1>1
    <3>2. n + 2 # n + 1 /\ n + 2 # n + 3 /\ n + 1 \notin 1..n /\ n + 3 \notin 1..n
      BY <1>1
    <3> QED
      BY <1>1, <3>1, <3>2
  <2>2. n + 1 \in 1..n + 3 /\ n + 3 \in 1..n + 3
    BY <1>1
  <2> QED
    BY <1>3, <2>1, <2>2
<1> HIDE DEF zeros
<1>5. from = n + 2
  <2> DEFINE a == n + 1
             b == n + 3
  <2>1. a \in Nat /\ b \in Nat /\ a <= b /\ zeros = {a, b} /\ a + 1 = n + 2
    BY <1>1, <1>4
  <2> HIDE DEF a, b
  <2>2. Min({a, b}) = IF a <= b THEN a ELSE b
    BY <2>1, Lesser
  <2> QED
    BY <2>1, <2>2
<1> HIDE DEF from
<1>6. later = {n + 3, n + 4}
  <2>1. {k \in zeros : k >= from} = {n + 3}
    BY <1>1, <1>4, <1>5
  <2> QED
    BY <1>1, <2>1
<1> HIDE DEF later
<1>7. to = n + 2
  <2> DEFINE a == n + 3
             b == n + 4
  <2>1. a \in Nat /\ b \in Nat /\ a <= b /\ later = {a, b} /\ a - 1 = n + 2
    BY <1>1, <1>6
  <2> HIDE DEF a, b
  <2>2. Min({a, b}) = IF a <= b THEN a ELSE b
    BY <2>1, Lesser
  <2> QED
    BY <2>1, <2>2
<1> HIDE DEF to
<1>8. from <= to /\ \A k \in from..to : k = n + 2
  BY <1>1, <1>5, <1>7
<1>9. zeros # {}
  BY <1>4
<1> QED
  BY <1>1, <1>2, <1>8, <1>9 DEF h

\* The data's bytes up to a, and as many more as have been heard.
LEMMA JoinParts ==
  ASSUME NEW data \in Bytes, NEW a \in Nat, NEW b \in Nat, a <= b, b <= Len(data),
         NEW s \in Bytes, Len(s) = b - a, \A j \in 1..b - a : s[j] = data[a + j]
  PROVE  SubSeq(data, 1, a) \o s = SubSeq(data, 1, b)
<1> DEFINE o == 1
           x == SubSeq(data, o, a)
           y == SubSeq(data, o, b)
           c == x \o s
<1>1. o \in Nat /\ o > 0 /\ o <= a + 1 /\ o <= b + 1 /\ a <= Len(data) /\ a - o + 1 = a /\ b - o + 1 = b
      /\ Len(data) \in Nat /\ \A i \in 1..b : o + i - 1 = i
  <2>1. Len(data) \in Nat
    BY ByteAt
  <2> QED
    BY <2>1
<1> HIDE DEF o
<1>2. x \in Bytes /\ Len(x) = a - o + 1 /\ \A i \in 1..a - o + 1 : x[i] = data[o + i - 1]
  BY <1>1, BytesPart
<1>3. y \in Bytes /\ Len(y) = b - o + 1 /\ \A i \in 1..b - o + 1 : y[i] = data[o + i - 1]
  BY <1>1, BytesPart
<1> HIDE DEF x, y
<1>4. x \in Bytes /\ Len(x) = a /\ \A i \in 1..a : x[i] = data[i]
  <2>1. \A i \in 1..a : i \in 1..b
    OBVIOUS
  <2> QED
    BY <1>1, <1>2, <2>1
<1>5. y \in Bytes /\ Len(y) = b /\ \A i \in 1..b : y[i] = data[i]
  BY <1>1, <1>3
<1>6. /\ c \in Bytes /\ Len(c) = Len(x) + Len(s)
      /\ \A i \in 1..Len(x) : c[i] = x[i]
      /\ \A i \in 1..Len(s) : c[Len(x) + i] = s[i]
  BY <1>4, BytesAt
<1> HIDE DEF c
<1>7. Len(c) = b
  BY <1>4, <1>6
<1>8. ASSUME NEW i \in 1..b PROVE c[i] = y[i]
  <2>1. CASE i <= a
    <3>1. i \in 1..a
      BY <2>1
    <3> QED
      BY <1>4, <1>5, <1>6, <3>1
  <2>2. CASE ~(i <= a)
    <3>1. i - a \in 1..b - a /\ a + (i - a) = i
      BY <2>2
    <3>2. c[a + (i - a)] = s[i - a] /\ s[i - a] = data[a + (i - a)]
      BY <1>4, <1>6, <3>1
    <3> QED
      BY <1>5, <3>1, <3>2
  <2> QED
    BY <2>1, <2>2
<1>9. c = y
  BY <1>5, <1>6, <1>7, <1>8, SeqEqual DEF Bytes
<1> QED
  BY <1>9 DEF c, x, y, o

\* The parser at byte x + 1 of what has been heard, with the first a bytes of the data.
Place(s, x, data, a) ==
  IF x <= Len(s) THEN [state |-> "chunks", next |-> x + 1, payload |-> SubSeq(data, 1, a)] ELSE Waiting

\* A chunk with the data's bytes a + 1 to b, as far as it has been heard.
ChunkAt(s, x, data, a, b) ==
  /\ x + 1 <= Len(s) => s[x + 1] = STX
  /\ x + 2 <= Len(s) => ChunkLength(s[x + 2]) = b - a
  /\ \A j \in 1..b - a : x + 2 + j <= Len(s) => s[x + 2 + j] = data[a + j]

LEMMA ChunkRead ==
  ASSUME NEW s \in Bytes, NEW data \in Bytes, NEW x \in Nat, NEW a \in Nat, NEW b \in Nat,
         a < b, b <= Len(data), ChunkAt(s, x, data, a, b)
  PROVE  ParseChunk(s, Place(s, x, data, a)) = Place(s, x + 2 + (b - a), data, b)
<1> DEFINE v == Place(s, x, data, a)
           n == Len(s)
           z == x + 2 + (b - a)
           p == SubSeq(data, 1, a)
           q == SubSeq(data, 1, b)
           i == x + 1
           w == ParseChunk(s, v)
<1>0. /\ x + 1 <= n => s[x + 1] = STX
      /\ x + 2 <= n => ChunkLength(s[x + 2]) = b - a
      /\ \A j \in 1..b - a : x + 2 + j <= n => s[x + 2 + j] = data[a + j]
  BY DEF ChunkAt
<1>1. n \in Nat /\ z \in Nat /\ z > x
  BY ByteAt
<1>2. CASE ~(x <= n)
  <2>1. v = Waiting /\ Place(s, z, data, b) = Waiting
    BY <1>1, <1>2 DEF Place
  <2>2. ParseChunk(s, Waiting) = Waiting
    <3>1. Waiting.state # "chunks"
      BY DEF Waiting
    <3> QED
      BY <3>1 DEF ParseChunk
  <2> QED
    BY <2>1, <2>2
<1>3. CASE x <= n
  <2> DEFINE r == [state |-> "chunks", next |-> i, payload |-> p]
             l == ChunkLength(s[i + 1])
             e == i + 1 + l
             f == [r EXCEPT !.next = e + 1, !.payload = p \o SubSeq(s, i + 2, e)]
  <2>1. v = r
    BY <1>3 DEF Place
  <2>2. r.state = "chunks" /\ r.next = i /\ r.payload = p
    OBVIOUS
  <2> HIDE DEF r, p
  <2>3. ParseChunk(s, r) = IF i > n THEN Waiting
                           ELSE IF s[i] \notin {STX, EOT} THEN Broken
                           ELSE IF i + 1 > n THEN Waiting
                           ELSE IF s[i] = EOT
                           THEN IF s[i + 1] = Checksum(p)
                                THEN [state |-> "whole", next |-> i + 2, payload |-> p]
                                ELSE Broken
                           ELSE IF e <= n THEN f ELSE Waiting
    BY <2>2 DEF ParseChunk
  <2> HIDE DEF f
  <2>4. CASE i + 1 > n
    <3>1. Place(s, z, data, b) = Waiting
      BY <1>1, <2>4 DEF Place
    <3>2. i > n \/ (~(i > n) /\ s[i] = STX)
      BY <1>0, <1>1
    <3>3. ParseChunk(s, r) = Waiting
      BY <2>3, <2>4, <3>2
    <3> QED
      BY <2>1, <3>1, <3>3
  <2>5. CASE ~(i + 1 > n)
    <3>1. i + 1 = x + 2 /\ i <= n /\ x + 2 <= n /\ ~(i > n)
      BY <1>1, <2>5
    <3>2. s[i] = STX /\ l = b - a
      BY <1>0, <3>1
    <3>3. e = z
      BY <3>1, <3>2
    <3>4. STX # EOT
      BY DEF STX, EOT
    <3>5. ParseChunk(s, r) = IF z <= n THEN f ELSE Waiting
      BY <2>3, <2>5, <3>1, <3>2, <3>3, <3>4
    <3>6. ASSUME z <= n PROVE f = [state |-> "chunks", next |-> z + 1, payload |-> q]
      <4> DEFINE g == i + 2
                 t == SubSeq(s, g, z)
                 m == b - a
      <4>1. g = x + 3 /\ g \in Nat /\ g > 0 /\ z = x + 2 + m /\ g <= z + 1 /\ z - g + 1 = m /\ m \in Nat
        OBVIOUS
      <4> HIDE DEF g, z
      <4>2. t \in Bytes /\ Len(t) = z - g + 1 /\ \A j \in 1..z - g + 1 : t[j] = s[g + j - 1]
        BY <1>1, <3>6, <4>1, BytesPart DEF n
      <4>3. ASSUME NEW j \in 1..m PROVE t[j] = data[a + j]
        <5>1. g + j - 1 = x + 2 + j /\ x + 2 + j <= n /\ m = b - a
          BY <1>1, <3>6, <4>1
        <5> QED
          BY <1>0, <4>1, <4>2, <5>1
      <4>4. t \in Bytes /\ Len(t) = m
        BY <4>1, <4>2
      <4> HIDE DEF t
      <4>5. p \o t = q
        BY <4>3, <4>4, JoinParts DEF p
      <4>6. f = [r EXCEPT !.next = z + 1, !.payload = p \o t]
        BY <3>3 DEF f, t, g
      <4> DEFINE u == z + 1
      <4> HIDE DEF u, q
      <4>7. f = [[r EXCEPT !.next = u] EXCEPT !.payload = q]
        BY <4>5, <4>6, Zenon DEF u
      <4>8. r = [state |-> "chunks", next |-> i, payload |-> p]
        BY DEF r
      <4> HIDE DEF i
      <4>9. [r EXCEPT !.next = u] = [state |-> "chunks", next |-> u, payload |-> p]
        BY <4>8
      <4>10. f = [state |-> "chunks", next |-> u, payload |-> q]
        BY <4>7, <4>9
      <4> QED
        BY <4>10 DEF u
    <3>7. Place(s, z, data, b) = IF z <= n THEN [state |-> "chunks", next |-> z + 1, payload |-> q] ELSE Waiting
      BY DEF Place
    <3> QED
      BY <2>1, <3>5, <3>6, <3>7
  <2> QED
    BY <2>4, <2>5
<1> QED
  BY <1>2, <1>3

LEMMA ChecksumRead ==
  ASSUME NEW s \in Bytes, NEW data \in Bytes, NEW x \in Nat,
         x + 1 <= Len(s) => s[x + 1] = EOT,
         x + 2 <= Len(s) => s[x + 2] = Checksum(data)
  PROVE  ParseChunk(s, Place(s, x, data, Len(data))) =
           IF x + 2 <= Len(s) THEN [state |-> "whole", next |-> x + 3, payload |-> data] ELSE Waiting
<1> DEFINE v == Place(s, x, data, Len(data))
           n == Len(s)
           i == x + 1
<1>1. n \in Nat
  BY ByteAt
<1>2. CASE ~(x <= n)
  <2>1. v = Waiting /\ ~(x + 2 <= n)
    BY <1>1, <1>2 DEF Place
  <2>2. ParseChunk(s, Waiting) = Waiting
    <3>1. Waiting.state # "chunks"
      BY DEF Waiting
    <3> QED
      BY <3>1 DEF ParseChunk
  <2> QED
    BY <2>1, <2>2
<1>3. CASE x <= n
  <2> DEFINE r == [state |-> "chunks", next |-> i, payload |-> data]
             e == i + 1 + ChunkLength(s[i + 1])
             f == [r EXCEPT !.next = e + 1, !.payload = data \o SubSeq(s, i + 2, e)]
  <2>0. SubSeq(data, 1, Len(data)) = data
    <3> DEFINE X == 0..2^BYTE - 1
    <3>1. data \in Seq(X)
      BY DEF Bytes
    <3> HIDE DEF X
    <3> QED
      BY <3>1
  <2>1. v = r
    BY <1>3, <2>0 DEF Place
  <2>2. r.state = "chunks" /\ r.next = i /\ r.payload = data
    OBVIOUS
  <2> HIDE DEF r
  <2>3. ParseChunk(s, r) = IF i > n THEN Waiting
                           ELSE IF s[i] \notin {STX, EOT} THEN Broken
                           ELSE IF i + 1 > n THEN Waiting
                           ELSE IF s[i] = EOT
                           THEN IF s[i + 1] = Checksum(data)
                                THEN [state |-> "whole", next |-> i + 2, payload |-> data]
                                ELSE Broken
                           ELSE IF e <= n THEN f ELSE Waiting
    BY <2>2 DEF ParseChunk
  <2> HIDE DEF f, e
  <2>4. CASE i + 1 > n
    <3>1. i > n \/ (~(i > n) /\ s[i] = EOT)
      BY <1>1
    <3>2. ~(x + 2 <= n)
      BY <1>1, <2>4
    <3> QED
      BY <2>1, <2>3, <2>4, <3>1, <3>2
  <2>5. CASE ~(i + 1 > n)
    <3>1. i + 1 = x + 2 /\ i <= n /\ x + 2 <= n /\ ~(i > n) /\ i + 2 = x + 3
      BY <1>1, <2>5
    <3>2. s[i] = EOT /\ s[i + 1] = Checksum(data)
      BY <3>1
    <3>3. ParseChunk(s, r) = [state |-> "whole", next |-> i + 2, payload |-> data]
      BY <2>3, <2>5, <3>1, <3>2
    <3> QED
      BY <2>1, <3>1, <3>3
  <2> QED
    BY <2>4, <2>5
<1> QED
  BY <1>2, <1>3

\* What has been heard is, from byte o on, the bytes of b, as far as it goes.
Agrees(s, o, b) == \A j \in 1..Len(b) : o + j <= Len(s) => s[o + j] = b[j]

\* Where the chunks' bytes are, o bytes after the first.
ChunksAgree(s, o, data, size) ==
  LET f == Chunks(data, size, ChunkCount(data, size))
  IN  /\ Agrees(s, o, f)
      /\ o + Len(f) + 1 <= Len(s) => s[o + Len(f) + 1] = EOT
      /\ o + Len(f) + 2 <= Len(s) => s[o + Len(f) + 2] = Checksum(data)

LEMMA ChunkAgrees ==
  ASSUME NEW s \in Bytes, NEW data \in Bytes, NEW size \in Sizable, NEW o \in Nat,
         ChunksAgree(s, o, data, size), NEW k \in Nat, k < ChunkCount(data, size),
         NEW x, x = o + (Covered(data, size, k) + 2 * k)
  PROVE  /\ ParseChunk(s, Place(s, x, data, Covered(data, size, k)))
              = Place(s, o + (Covered(data, size, k + 1) + 2 * (k + 1)), data, Covered(data, size, k + 1))
<1> DEFINE q == ChunkCount(data, size)
           f == Chunks(data, size, q)
           a == Covered(data, size, k)
           b == Covered(data, size, k + 1)
           c == Chunk(data, size, k + 1)
           m == b - a
           n == Len(s)
           y == a + 2 * k
<1>1. n \in Nat /\ size \in Nat /\ size > 0
  BY ByteAt, ByteWidth DEF Sizable
<1>2. q \in Nat /\ IsCut(data, size, k)
  BY <1>1, CutsAre
<1>3. a \in Nat /\ b \in Nat /\ b <= Len(data) /\ a < b
  BY <1>2 DEF IsCut
<1>4. IsChunk(data, size, k)
  BY <1>2, ChunkIs
<1>5. Len(c) = m + 2 /\ c[1] = STX /\ ChunkLength(c[2]) = m /\ \A j \in 1..m : c[j + 2] = data[a + j]
  BY <1>4 DEF IsChunk
<1>6. IsChunks(data, size, q)
  <2>1. q <= q
    BY <1>2
  <2> QED
    BY <1>2, <2>1, ChunksAre
<1> HIDE DEF q
<1>7. Len(f) \in Nat /\ \A j \in 1..Len(c) : f[a + 2 * k + j] = c[j]
  <2>1. f \in Bytes /\ \A j \in 1..Len(c) : f[a + 2 * k + j] = c[j]
    BY <1>6 DEF IsChunks, q
  <2> HIDE DEF f
  <2> QED
    BY <2>1, ByteAt
<1>8. y + (m + 2) <= Len(f)
  <2> DEFINE t == k + 1
  <2>1. t \in Nat /\ t <= q
    BY <1>2 DEF q
  <2>2. Covered(data, size, q) = Len(data) /\ Len(f) = Covered(data, size, q) + 2 * q
    BY <1>1, <1>6, CutsAre DEF IsChunks, q
  <2>3. y + (m + 2) = b + 2 * t
    BY <1>3
  <2>4. 2 * t <= 2 * q
    BY <1>2, <2>1
  <2> HIDE DEF f, y, m, t, a, b
  <2> DEFINE g == 2 * t
             h == 2 * q
             l == Len(data)
  <2>5. g \in Nat /\ h \in Nat /\ g <= h /\ Len(f) = l + h /\ l \in Nat /\ b <= l /\ y + (m + 2) = b + g
    BY <1>2, <1>3, <2>1, <2>2, <2>3, <2>4, ByteAt
  <2> HIDE DEF g, h, l
  <2> QED
    BY <1>3, <2>5
<1>9. Agrees(s, o, f)
  BY DEF ChunksAgree, q
<1> HIDE DEF f, c, a, b
<1>10. y \in Nat /\ m \in Nat /\ m > 0 /\ x = o + y
  BY <1>3 DEF a
<1>11. ASSUME NEW j \in 1..m + 2, x + j <= n PROVE s[x + j] = c[j]
  <2> DEFINE p == y + j
  <2>1. p = a + 2 * k + j /\ j \in 1..Len(c)
    BY <1>3, <1>5
  <2>2. p \in 1..Len(f) /\ o + p = x + j
    <3> HIDE DEF y, m
    <3> QED
      BY <1>7, <1>8, <1>10
  <2>3. f[p] = c[j]
    BY <1>7, <2>1
  <2> HIDE DEF p
  <2>4. s[o + p] = f[p]
    BY <1>9, <1>11, <2>2 DEF Agrees
  <2> QED
    BY <2>2, <2>3, <2>4
<1> HIDE DEF y
<1>12. ASSUME x + 1 <= n PROVE s[x + 1] = STX
  <2>1. 1 \in 1..m + 2
    BY <1>10
  <2> QED
    BY <1>5, <1>11, <1>12, <2>1
<1>13. ASSUME x + 2 <= n PROVE ChunkLength(s[x + 2]) = m
  <2>1. 2 \in 1..m + 2
    BY <1>10
  <2> QED
    BY <1>5, <1>11, <1>13, <2>1
<1>14. ASSUME NEW j \in 1..m, x + 2 + j <= n PROVE s[x + 2 + j] = data[a + j]
  <2>1. j + 2 \in 1..m + 2 /\ x + (j + 2) = x + 2 + j
    BY <1>10
  <2>2. s[x + (j + 2)] = c[j + 2]
    BY <1>11, <1>14, <2>1
  <2> QED
    BY <1>5, <2>1, <2>2
<1>15. x \in Nat
  BY <1>10
<1>16. ParseChunk(s, Place(s, x, data, a)) = Place(s, x + 2 + m, data, b)
  <2>1. ChunkAt(s, x, data, a, b)
    BY <1>12, <1>13, <1>14 DEF ChunkAt
  <2>2. a \in Nat /\ b \in Nat /\ a < b /\ b <= Len(data)
    BY <1>3 DEF a, b
  <2> QED
    BY <1>15, <2>1, <2>2, ChunkRead
<1>17. x + 2 + m = o + (b + 2 * (k + 1))
  BY <1>3, <1>10 DEF y
<1> QED
  BY <1>16, <1>17 DEF a, b

\* The parser's turns within one block.
LEMMA ChunksRead ==
  ASSUME NEW s \in Bytes, NEW data \in Bytes, NEW size \in Sizable, NEW o \in Nat,
         o > 0, o <= Len(s), ChunksAgree(s, o, data, size)
  PROVE  LET z == o + Len(Chunks(data, size, ChunkCount(data, size))) + 2
         IN  ParseChunks(s, o + 1) =
               IF z <= Len(s) THEN [state |-> "whole", next |-> z + 1, payload |-> data] ELSE Waiting
<1> DEFINE q == ChunkCount(data, size)
           f == Chunks(data, size, q)
           C(k) == Covered(data, size, k)
           E(k) == o + (C(k) + 2 * k)
           n == Len(s)
           w == ChunkLoop(s, o + 1)
           z == o + Len(f) + 2
           last == IF z <= n THEN [state |-> "whole", next |-> z + 1, payload |-> data] ELSE Waiting
<1>1. n \in Nat /\ size \in Nat /\ size > 0 /\ o + 1 \in Nat
  BY ByteAt, ByteWidth DEF Sizable
<1>2. q \in Nat /\ C(0) = 0 /\ C(q) = Len(data) /\ \A k \in Nat : k < q => IsCut(data, size, k)
  BY <1>1, CutsAre
<1>3. /\ ParseChunks(s, o + 1) = w[n]
      /\ w[0] = [state |-> "chunks", next |-> o + 1, payload |-> <<>>]
      /\ \A k \in Nat : k < n => w[k + 1] = ParseChunk(s, w[k])
  BY <1>1, ParseChunksTyped
<1>4. Len(f) = C(q) + 2 * q
  <2>1. q <= q
    BY <1>2
  <2>2. IsChunks(data, size, q)
    BY <1>2, <2>1, ChunksAre
  <2> QED
    BY <2>2 DEF IsChunks
<1> HIDE DEF w, q, f
<1>5. \A k \in Nat : k <= q => C(k) \in Nat
  <2>1. ASSUME NEW k \in Nat, k < q PROVE C(k) \in Nat
    BY <1>2, <2>1 DEF IsCut
  <2>2. C(q) \in Nat
    BY <1>2, ByteAt
  <2>3. ASSUME NEW k \in Nat, k <= q PROVE k < q \/ k = q
    BY <1>2, <2>3
  <2> QED
    BY <2>1, <2>2, <2>3
<1> HIDE DEF C
<1>6. \A k \in Nat : k <= n /\ k <= q => w[k] = Place(s, E(k), data, C(k))
  <2> DEFINE S == {k \in Nat : k <= n /\ k <= q => w[k] = Place(s, E(k), data, C(k))}
  <2>1. 0 \in S
    <3>1. E(0) = o
      BY <1>2
    <3>2. SubSeq(data, 1, 0) = <<>>
      OBVIOUS
    <3>3. Place(s, o, data, 0) = [state |-> "chunks", next |-> o + 1, payload |-> <<>>]
      BY <3>2 DEF Place
    <3> QED
      BY <1>2, <1>3, <3>1, <3>3
  <2>2. ASSUME NEW k \in Nat, k \in S PROVE k + 1 \in S
    <3> SUFFICES ASSUME k + 1 <= n, k + 1 <= q PROVE w[k + 1] = Place(s, E(k + 1), data, C(k + 1))
      OBVIOUS
    <3>1. k <= n /\ k <= q /\ k < n /\ k < q
      BY <1>1, <1>2
    <3>2. w[k] = Place(s, E(k), data, C(k))
      BY <2>2, <3>1
    <3>3. w[k + 1] = ParseChunk(s, w[k])
      BY <1>3, <3>1
    <3> DEFINE x == E(k)
    <3>4. x = o + (Covered(data, size, k) + 2 * k) /\ k < ChunkCount(data, size)
      BY <3>1 DEF C, q
    <3> HIDE DEF x
    <3>5. ParseChunk(s, Place(s, x, data, Covered(data, size, k)))
            = Place(s, o + (Covered(data, size, k + 1) + 2 * (k + 1)), data, Covered(data, size, k + 1))
      BY <3>4, ChunkAgrees
    <3> QED
      BY <3>2, <3>3, <3>5 DEF C, x
  <2> HIDE DEF S
  <2>3. Nat \subseteq S
    BY <2>1, <2>2, NatInd
  <2> QED
    BY <2>3 DEF S
<1>7. ChunksAgree(s, o, data, size) /\ E(q) + 2 = z /\ E(q) \in Nat
  <2> DEFINE a == C(q)
             b == 2 * q
  <2>1. a \in Nat /\ b \in Nat /\ Len(f) = a + b
    BY <1>2, <1>4, <1>5
  <2> HIDE DEF a, b
  <2>2. o + (a + b) + 2 = z /\ o + (a + b) \in Nat
    BY <2>1
  <2> QED
    BY <2>2 DEF a, b
<1>8. ParseChunk(s, Place(s, E(q), data, C(q))) = last
  <2> DEFINE x == E(q)
  <2>1. x \in Nat /\ x + 2 = z /\ x + 3 = z + 1 /\ x + 1 = o + Len(f) + 1
    <3> HIDE DEF x
    <3>1. x \in Nat /\ x + 2 = o + Len(f) + 2
      BY <1>7 DEF x
    <3>2. Len(f) \in Nat
      BY <1>4, <1>5, <1>2
    <3> QED
      BY <3>1, <3>2
  <2>2. x + 1 <= n => s[x + 1] = EOT
    BY <2>1 DEF ChunksAgree, f, q
  <2>3. x + 2 <= n => s[x + 2] = Checksum(data)
    BY <2>1 DEF ChunksAgree, f, q
  <2> HIDE DEF x
  <2>4. ParseChunk(s, Place(s, x, data, Len(data))) =
          IF x + 2 <= Len(s) THEN [state |-> "whole", next |-> x + 3, payload |-> data] ELSE Waiting
    BY <2>1, <2>2, <2>3, ChecksumRead
  <2> QED
    BY <1>2, <2>1, <2>4 DEF x
<1>9. ParseChunk(s, Waiting) = Waiting
  <2>1. Waiting.state # "chunks"
    BY DEF Waiting
  <2> QED
    BY <2>1 DEF ParseChunk
<1>10. ParseChunk(s, last) = last
  <2> DEFINE r == [state |-> "whole", next |-> z + 1, payload |-> data]
  <2>1. r.state # "chunks"
    OBVIOUS
  <2> HIDE DEF r
  <2>2. ParseChunk(s, r) = r
    BY <2>1 DEF ParseChunk
  <2>3. last = r \/ last = Waiting
    BY DEF r
  <2> QED
    BY <1>9, <2>2, <2>3
<1> HIDE DEF last
<1>11. CASE q < n
  <2> DEFINE S == {k \in Nat : q + 1 + k <= n => w[q + 1 + k] = last}
  <2>1. 0 \in S
    <3>0. q <= q /\ q <= n
      BY <1>1, <1>2, <1>11
    <3>1. w[q] = Place(s, E(q), data, C(q))
      BY <1>2, <1>6, <3>0
    <3>2. w[q + 1] = last
      BY <1>2, <1>3, <1>8, <1>11, <3>1
    <3>3. q + 1 + 0 = q + 1
      BY <1>2
    <3> QED
      BY <3>2, <3>3
  <2>2. ASSUME NEW k \in Nat, k \in S PROVE k + 1 \in S
    <3> DEFINE m == q + 1 + k
    <3>1. m \in Nat /\ q + 1 + (k + 1) = m + 1
      BY <1>2
    <3>2. ASSUME m + 1 <= n PROVE w[m + 1] = last
      <4>1. m < n /\ m <= n
        BY <1>1, <3>1, <3>2
      <4>2. w[m] = last
        BY <2>2, <4>1
      <4> HIDE DEF m
      <4> QED
        BY <1>3, <1>10, <3>1, <4>1, <4>2
    <3> HIDE DEF m
    <3> QED
      BY <3>1, <3>2
  <2>3. n - (q + 1) \in Nat /\ q + 1 + (n - (q + 1)) = n
    BY <1>1, <1>2, <1>11
  <2> HIDE DEF S
  <2>4. n - (q + 1) \in S
    BY <2>1, <2>2, <2>3, NatInd
  <2>5. w[n] = last
    BY <1>1, <2>3, <2>4 DEF S
  <2> QED
    BY <1>3, <2>5 DEF last, z, f, q
<1>12. ~(z <= n) /\ w[n] = Waiting => ParseChunks(s, o + 1) = last
  BY <1>3 DEF last
<1> HIDE DEF z
<1>13. CASE ~(q < n)
  <2>1. n <= q /\ n <= n
    BY <1>1, <1>2, <1>13
  <2>2. w[n] = Place(s, E(n), data, C(n))
    BY <1>1, <1>6, <1>13, <2>1
  <2>3. C(n) \in Nat
    BY <1>1, <1>5, <2>1
  <2>4. ~(z <= n)
    <3>0. z = o + Len(f) + 2
      BY DEF z
    <3>1. Len(f) \in Nat /\ Len(f) >= 2 * q /\ 2 * q >= q
      BY <1>2, <1>4, <1>5
    <3>2. Len(f) >= q
      BY <1>2, <3>1
    <3> QED
      BY <1>1, <1>2, <2>1, <3>0, <3>1, <3>2
  <2>5. w[n] = Waiting
    <3> DEFINE a == C(n)
    <3>1. a \in Nat
      BY <2>3
    <3> HIDE DEF a
    <3>2. ~(o + (a + 2 * n) <= n)
      BY <1>1, <3>1
    <3>3. Place(s, o + (a + 2 * n), data, a) = Waiting
      BY <3>2 DEF Place
    <3> QED
      BY <2>2, <3>3 DEF a
  <2> QED
    BY <1>12, <2>4, <2>5 DEF last, z, q, f
<1> QED
  BY <1>11, <1>13

LEMMA BlockRead ==
  ASSUME NEW s \in Bytes, NEW data \in Bytes, NEW size \in Sizable, NEW o \in Nat,
         Agrees(s, o, BlockOf(data, size))
  PROVE  LET z == o + Len(BlockOf(data, size))
         IN  ParseBlock(s, o + 1) =
               IF z <= Len(s) THEN [state |-> "whole", next |-> z + 1, payload |-> data] ELSE Waiting
<1> DEFINE b == BlockOf(data, size)
           f == Chunks(data, size, ChunkCount(data, size))
           h == Len(Header)
           n == Len(s)
           i == o + 1
           last == o + 2 + h
           g == SubSeq(s, i + 2, i + 1 + s[i + 1])
           z == o + Len(b)
<1>1. /\ b \in Bytes /\ Len(b) = h + Len(f) + 4
      /\ b[1] = SOH /\ b[2] = h
      /\ \A j \in 1..h : b[2 + j] = Header[j]
      /\ \A j \in 1..Len(f) : b[(2 + h) + j] = f[j]
      /\ b[(2 + h) + Len(f) + 1] = EOT /\ b[(2 + h) + Len(f) + 2] = Checksum(data)
  BY BlockIs DEF IsBlock, BlockOf
<1>2. n \in Nat /\ h \in Nat /\ h > 0
  <2>1. h \in 3..2^BYTE - 1 /\ 2^BYTE \in Nat
    BY HeaderIs, ByteWidth
  <2> DEFINE u == 2^BYTE
  <2> HIDE DEF h, u
  <2> QED
    BY <2>1, ByteAt DEF u
<1>3. Len(f) \in Nat
  <2>1. size \in Nat /\ size > 0
    BY ByteWidth DEF Sizable
  <2> DEFINE q == ChunkCount(data, size)
  <2>2. q \in Nat /\ q <= q
    BY <2>1, CutsAre
  <2>3. IsChunks(data, size, q)
    BY <2>2, ChunksAre
  <2>4. f \in Bytes
    BY <2>3 DEF IsChunks
  <2> HIDE DEF f
  <2> QED
    BY <2>4, ByteAt
<1>4. ASSUME NEW j \in 1..h + Len(f) + 4, o + j <= n PROVE s[o + j] = b[j]
  BY <1>1, <1>4 DEF Agrees
<1> HIDE DEF b, f, h
<1>5. ParseBlock(s, i) = IF i + 1 > n \/ s[i] # SOH THEN Waiting
                         ELSE IF i + 1 + s[i + 1] > n \/ ~IsHeader(g) THEN Waiting
                         ELSE ParseChunks(s, i + 1 + s[i + 1] + 1)
  BY DEF ParseBlock
<1>6. z = last + Len(f) + 2
  BY <1>1, <1>2, <1>3
<1>7. ASSUME i + 1 > n \/ last > n PROVE ~(z <= n)
  BY <1>2, <1>3, <1>6, <1>7
<1>8. ASSUME ~(i + 1 > n) PROVE s[i] = SOH /\ s[i + 1] = h /\ i + 1 + s[i + 1] = last
  <2>1. 1 \in 1..h + Len(f) + 4 /\ 2 \in 1..h + Len(f) + 4 /\ o + 1 <= n /\ o + 2 <= n /\ i + 1 = o + 2
    BY <1>2, <1>3, <1>8
  <2>2. s[o + 1] = b[1] /\ s[o + 2] = b[2]
    BY <1>4, <2>1
  <2> QED
    BY <1>1, <2>1, <2>2
<1>9. ASSUME ~(i + 1 > n), ~(last > n) PROVE g = Header
  <2> DEFINE a == i + 2
  <2>1. a = o + 3 /\ a \in Nat /\ a > 0 /\ a <= last + 1 /\ last - a + 1 = h /\ last \in Nat /\ last <= n
    BY <1>2, <1>9
  <2>2. g = SubSeq(s, a, last)
    BY <1>8, <1>9
  <2> HIDE DEF a, last, g
  <2>3. /\ SubSeq(s, a, last) \in Bytes /\ Len(SubSeq(s, a, last)) = last - a + 1
        /\ \A j \in 1..last - a + 1 : SubSeq(s, a, last)[j] = s[a + j - 1]
    BY <2>1, BytesPart
  <2>4. g \in Bytes /\ Len(g) = h /\ \A j \in 1..h : g[j] = s[a + j - 1]
    BY <2>1, <2>2, <2>3
  <2>5. ASSUME NEW j \in 1..h PROVE g[j] = Header[j]
    <3>1. a + j - 1 = o + (2 + j) /\ 2 + j \in 1..h + Len(f) + 4 /\ o + (2 + j) <= n
      BY <1>2, <1>3, <1>9, <2>1 DEF last
    <3>2. s[o + (2 + j)] = b[2 + j]
      BY <1>4, <3>1
    <3> QED
      BY <1>1, <2>4, <3>1, <3>2
  <2> QED
    BY <2>4, <2>5, HeaderIs, SeqEqual DEF h, Bytes
<1>10. ASSUME ~(i + 1 > n), ~(last > n) PROVE ChunksAgree(s, last, data, size)
  <2>1. ASSUME NEW j \in 1..Len(f) + 2, last + j <= n PROVE s[last + j] = b[(2 + h) + j]
    <3>1. last + j = o + ((2 + h) + j) /\ (2 + h) + j \in 1..h + Len(f) + 4
      BY <1>2, <1>3
    <3> QED
      BY <1>4, <2>1, <3>1
  <2> HIDE DEF last
  <2>2. Agrees(s, last, f)
    <3>1. ASSUME NEW j \in 1..Len(f), last + j <= n PROVE s[last + j] = f[j]
      <4>1. j \in 1..Len(f) + 2
        BY <1>3
      <4> QED
        BY <1>1, <2>1, <3>1, <4>1
    <3> QED
      BY <3>1 DEF Agrees
  <2>3. Len(f) + 1 \in 1..Len(f) + 2 /\ Len(f) + 2 \in 1..Len(f) + 2
    BY <1>3
  <2>4. last \in Nat
    BY <1>2 DEF last
  <2>5. /\ last + Len(f) + 1 = last + (Len(f) + 1) /\ last + Len(f) + 2 = last + (Len(f) + 2)
        /\ (2 + h) + (Len(f) + 1) = (2 + h) + Len(f) + 1
        /\ (2 + h) + (Len(f) + 2) = (2 + h) + Len(f) + 2
    BY <1>2, <1>3, <2>4
  <2>6. last + Len(f) + 1 <= n => s[last + Len(f) + 1] = EOT
    <3>1. last + (Len(f) + 1) <= n => s[last + (Len(f) + 1)] = b[(2 + h) + (Len(f) + 1)]
      BY <2>1, <2>3
    <3> QED
      BY <1>1, <2>5, <3>1
  <2>7. last + Len(f) + 2 <= n => s[last + Len(f) + 2] = Checksum(data)
    <3>1. last + (Len(f) + 2) <= n => s[last + (Len(f) + 2)] = b[(2 + h) + (Len(f) + 2)]
      BY <2>1, <2>3
    <3> QED
      BY <1>1, <2>5, <3>1
  <2> QED
    BY <2>2, <2>6, <2>7 DEF ChunksAgree, f
<1>11. CASE i + 1 > n \/ last > n
  <2>1. ParseBlock(s, i) = Waiting
    <3>1. CASE i + 1 > n
      BY <1>5, <3>1
    <3>2. CASE ~(i + 1 > n)
      BY <1>5, <1>8, <1>11, <3>2
    <3> QED
      BY <3>1, <3>2
  <2> QED
    BY <1>7, <1>11, <2>1 DEF b
<1>12. CASE ~(i + 1 > n \/ last > n)
  <2>1. ~(i + 1 > n) /\ ~(last > n) /\ last \in Nat /\ last > 0 /\ last <= n
    BY <1>2, <1>12
  <2>2. ParseBlock(s, i) = ParseChunks(s, last + 1)
    BY <1>5, <1>8, <1>9, <2>1, HeaderAccepted
  <2>3. ChunksAgree(s, last, data, size)
    BY <1>10, <2>1
  <2> DEFINE y == last + Len(f) + 2
  <2>4. ParseChunks(s, last + 1) = IF y <= n THEN [state |-> "whole", next |-> y + 1, payload |-> data] ELSE Waiting
    <3> HIDE DEF last
    <3> QED
      BY <2>1, <2>3, ChunksRead DEF f
  <2>5. y = z
    BY <1>6
  <2> HIDE DEF y
  <2> QED
    BY <2>2, <2>4, <2>5 DEF b
<1> QED
  BY <1>11, <1>12

(***************************************************************************)
(* What is sent.                                                           *)
(***************************************************************************)
\* The first m blocks.
Sent(letters, size, m) == BytesOf(FlattenSeq([k \in 1..m |-> Marked(letters[k].data, size)]))

LEMMA SentNext ==
  ASSUME NEW letters \in Seq(Letters), NEW size \in Sizable
  PROVE  /\ Sent(letters, size, 0) = <<>>
         /\ BytesOf(Envelope(letters, size)) = Sent(letters, size, Len(letters))
         /\ \A m \in Nat : m < Len(letters) =>
              /\ letters[m + 1].data \in Bytes
              /\ Sent(letters, size, m + 1) = Sent(letters, size, m) \o BlockOf(letters[m + 1].data, size)
         /\ \A m \in Nat : m <= Len(letters) => Sent(letters, size, m) \in Bytes
<1> DEFINE n == Len(letters)
           g(k) == Marked(letters[k].data, size)
           S(m) == [k \in 1..m |-> g(k)]
           W(m) == Sent(letters, size, m)
<1>1. n \in Nat /\ DOMAIN letters = 1..n /\ \A k \in 1..n : letters[k] \in Letters
  BY ElementOfSeq
<1>2. \A k \in 1..n : letters[k].data \in Bytes
  BY <1>1 DEF Letters
<1>3. \A k \in 1..n : g(k) \in Seq(Marks)
  BY <1>2, MarkedIs
<1>4. BytesOf(Envelope(letters, size)) = W(n)
  BY <1>1 DEF Envelope, Sent
<1>5. W(0) = <<>>
  <2>1. S(0) = <<>>
    OBVIOUS
  <2>2. FlattenSeq(S(0)) = <<>>
    BY <2>1, FlattenEmpty
  <2>3. BytesOf(<<>>) = <<>>
    BY DEF BytesOf
  <2> QED
    BY <2>2, <2>3 DEF Sent
<1>6. \A m : W(m) = BytesOf(FlattenSeq(S(m)))
  BY DEF Sent
<1> HIDE DEF n, g, W
<1>7. ASSUME NEW m \in Nat, m <= n PROVE S(m) \in Seq(Seq(Marks)) /\ FlattenSeq(S(m)) \in Seq(Marks)
  <2>1. \A k \in 1..m : k \in 1..n
    BY <1>1, <1>7
  <2>2. \A k \in 1..m : g(k) \in Seq(Marks)
    BY <1>3, <2>1
  <2>3. S(m) \in Seq(Seq(Marks))
    BY <2>2
  <2> HIDE DEF S
  <2> QED
    BY <2>3, FlattenType
<1>8. ASSUME NEW m \in Nat, m <= n PROVE W(m) \in Bytes
  BY <1>6, <1>7, <1>8, BytesOfIs
<1>9. ASSUME NEW m \in Nat, m < n
      PROVE  letters[m + 1].data \in Bytes /\ W(m + 1) = W(m) \o BlockOf(letters[m + 1].data, size)
  <2> DEFINE p == m + 1
             d == letters[p].data
             a == FlattenSeq(S(m))
             c == a \o g(p)
             x == W(m)
             y == W(p)
             b == BlockOf(d, size)
  <2>1. p \in 1..n /\ p \in Nat /\ p <= n /\ m <= n
    BY <1>1, <1>9
  <2>2. d \in Bytes /\ g(p) \in Seq(Marks)
    BY <1>2, <1>3, <2>1
  <2>3. S(p) = Append(S(m), g(p))
    <3>1. \A k \in 1..p : k = p \/ k \in 1..m
      OBVIOUS
    <3>2. S(m) \in Seq(Seq(Marks)) /\ S(p) \in Seq(Seq(Marks))
      BY <1>7, <2>1
    <3>3. Len(S(p)) = p /\ Len(S(m)) = m
      OBVIOUS
    <3> DEFINE t == Append(S(m), g(p))
               v == S(p)
    <3>4. \A k \in 1..p : v[k] = g(k)
      OBVIOUS
    <3>5. \A k \in 1..m : S(m)[k] = g(k)
      OBVIOUS
    <3>6. t \in Seq(Seq(Marks)) /\ Len(t) = m + 1 /\ t[m + 1] = g(p) /\ \A k \in 1..m : t[k] = S(m)[k]
      <4> DEFINE r == S(m)
                 e == g(p)
      <4>1. r \in Seq(Seq(Marks)) /\ e \in Seq(Marks) /\ Len(r) = m
        BY <2>2, <3>2, <3>3
      <4> HIDE DEF r, e
      <4>2. /\ Append(r, e) \in Seq(Seq(Marks)) /\ Len(Append(r, e)) = Len(r) + 1
            /\ Append(r, e)[Len(r) + 1] = e /\ \A k \in 1..Len(r) : Append(r, e)[k] = r[k]
        BY <4>1, AppendProperties
      <4> QED
        BY <4>1, <4>2 DEF r, e
    <3>7. v \in Seq(Seq(Marks)) /\ Len(v) = m + 1
      BY <3>2, <3>3
    <3> HIDE DEF t, v
    <3>8. ASSUME NEW k \in 1..m + 1 PROVE t[k] = v[k]
      BY <3>1, <3>4, <3>5, <3>6
    <3>9. t = v
      BY <3>6, <3>7, <3>8, SeqEqual
    <3> QED
      BY <3>9 DEF t, v
  <2>4. FlattenSeq(S(p)) = c
    <3>1. S(m) \in Seq(Seq(Marks))
      BY <1>7, <2>1
    <3> HIDE DEF S
    <3> QED
      BY <2>2, <2>3, <3>1, FlattenAppend
  <2>5. a \in Seq(Marks)
    BY <1>7, <2>1
  <2>6. x = BytesOf(a) /\ y = BytesOf(c)
    BY <1>6, <2>4
  <2> DEFINE e == g(p)
  <2>7. e \in Seq(Marks) /\ Len(e) = Len(b) /\ \A i \in 1..Len(b) : e[i].byte = b[i]
    BY <2>2, MarkedIs DEF g
  <2>8. b \in Bytes
    BY <2>2, BlockIs DEF IsBlock, BlockOf
  <2> HIDE DEF a, e, S, x, y, b
  <2>9. c = a \o e
    BY DEF e
  <2> HIDE DEF c
  <2>10. /\ c \in Seq(Marks) /\ Len(c) = Len(a) + Len(e) /\ Len(a) \in Nat /\ Len(e) \in Nat
         /\ \A i \in 1..Len(a) : c[i] = a[i]
         /\ \A i \in 1..Len(e) : c[Len(a) + i] = e[i]
    <3>1. /\ a \o e \in Seq(Marks) /\ Len(a \o e) = Len(a) + Len(e)
          /\ Len(a) \in Nat /\ Len(e) \in Nat
          /\ \A i \in 1..Len(a) : (a \o e)[i] = a[i]
          /\ \A i \in 1..Len(e) : (a \o e)[Len(a) + i] = e[i]
      <4>1. a \in Seq(Marks) /\ e \in Seq(Marks)
        BY <2>5, <2>7
      <4> QED
        BY <4>1, ConcatAt
    <3> QED
      BY <2>9, <3>1, Zenon
  <2>11. x \in Bytes /\ Len(x) = Len(a) /\ \A i \in 1..Len(a) : x[i] = a[i].byte
    BY <2>5, <2>6, BytesOfIs
  <2>12. y \in Bytes /\ Len(y) = Len(c) /\ \A i \in 1..Len(c) : y[i] = c[i].byte
    BY <2>6, <2>10, BytesOfIs
  <2> DEFINE v == x \o b
  <2>13. /\ v \in Bytes /\ Len(v) = Len(x) + Len(b)
         /\ \A i \in 1..Len(x) : v[i] = x[i]
         /\ \A i \in 1..Len(b) : v[Len(x) + i] = b[i]
    BY <2>8, <2>11, BytesAt
  <2> HIDE DEF v
  <2> DEFINE j == Len(a)
             l == Len(e)
  <2>14. ASSUME NEW i \in 1..j + l PROVE y[i] = v[i]
    <3>1. y[i] = c[i].byte
      BY <2>10, <2>12
    <3>2. CASE i <= j
      <4>1. i \in 1..j
        BY <2>10, <3>2
      <4> QED
        BY <2>10, <2>11, <2>13, <3>1, <4>1
    <3>3. CASE ~(i <= j)
      <4> DEFINE k == i - j
      <4>1. k \in 1..l /\ j + k = i
        BY <2>10, <3>3
      <4> HIDE DEF k
      <4>2. c[j + k] = e[k] /\ e[k].byte = b[k] /\ v[j + k] = b[k]
        BY <2>7, <2>10, <2>11, <2>13, <4>1
      <4> QED
        BY <3>1, <4>1, <4>2
    <3> QED
      BY <3>2, <3>3
  <2>15. Len(y) = j + l /\ Len(v) = j + l
    BY <2>7, <2>10, <2>11, <2>12, <2>13
  <2>16. y = v
    <3> HIDE DEF j, l
    <3> QED
      BY <2>12, <2>13, <2>14, <2>15, SeqEqual DEF Bytes
  <2> QED
    BY <2>2, <2>16 DEF y, v, x, b
<1> QED
  BY <1>4, <1>5, <1>8, <1>9 DEF W, n

\* Where each block is among the first m.
IsSent(letters, size, m) ==
  \A k \in Nat : k < m =>
    /\ Len(Sent(letters, size, k)) \in Nat
    /\ Len(Sent(letters, size, k)) + Len(BlockOf(letters[k + 1].data, size)) <= Len(Sent(letters, size, m))
    /\ \A j \in 1..Len(BlockOf(letters[k + 1].data, size)) :
         Sent(letters, size, m)[Len(Sent(letters, size, k)) + j] = BlockOf(letters[k + 1].data, size)[j]

LEMMA SentAre ==
  ASSUME NEW letters \in Seq(Letters), NEW size \in Sizable
  PROVE  \A m \in Nat : m <= Len(letters) => IsSent(letters, size, m)
<1> DEFINE n == Len(letters)
           W(m) == Sent(letters, size, m)
           B(k) == BlockOf(letters[k + 1].data, size)
           Z == {m \in Nat : m <= n => IsSent(letters, size, m)}
<1>0. /\ \A m \in Nat : m < n => letters[m + 1].data \in Bytes /\ W(m + 1) = W(m) \o B(m)
      /\ \A m \in Nat : m <= n => W(m) \in Bytes
  BY SentNext
<1>1. /\ n \in Nat
      /\ \A m \in Nat : m < n => W(m + 1) = W(m) \o B(m)
      /\ \A m \in Nat : m < n => letters[m + 1].data \in Bytes
      /\ \A m \in Nat : m <= n => W(m) \in Bytes
  <2>1. n \in Nat
    OBVIOUS
  <2> HIDE DEF n, W, B
  <2> QED
    BY <1>0, <2>1
<1>2. ASSUME NEW m \in Nat, m < n PROVE B(m) \in Bytes /\ Len(B(m)) \in Nat
  <2>1. letters[m + 1].data \in Bytes
    BY <1>1, <1>2
  <2>2. B(m) \in Bytes
    BY <2>1, BlockIs DEF IsBlock, BlockOf
  <2> HIDE DEF B
  <2> QED
    BY <2>2, ByteAt
<1>3. \A m : IsSent(letters, size, m) <=>
        \A k \in Nat : k < m =>
          /\ Len(W(k)) \in Nat /\ Len(W(k)) + Len(B(k)) <= Len(W(m))
          /\ \A j \in 1..Len(B(k)) : W(m)[Len(W(k)) + j] = B(k)[j]
  BY DEF IsSent
<1> HIDE DEF n, W, B
<1>4. 0 \in Z
  BY <1>3
<1>5. ASSUME NEW m \in Nat, m \in Z PROVE m + 1 \in Z
  <2> SUFFICES ASSUME m + 1 <= n PROVE IsSent(letters, size, m + 1)
    OBVIOUS
  <2>1. m < n /\ m <= n
    BY <1>1
  <2> DEFINE x == W(m)
             y == W(m + 1)
             b == B(m)
  <2>2. x \in Bytes /\ b \in Bytes /\ y = x \o b
    BY <1>1, <1>2, <2>1
  <2> HIDE DEF x, y, b
  <2>3. /\ y \in Bytes /\ Len(y) = Len(x) + Len(b) /\ Len(x) \in Nat /\ Len(b) \in Nat
        /\ \A i \in 1..Len(x) : y[i] = x[i]
        /\ \A i \in 1..Len(b) : y[Len(x) + i] = b[i]
    <3>1. /\ x \o b \in Bytes /\ Len(x \o b) = Len(x) + Len(b) /\ Len(x) \in Nat /\ Len(b) \in Nat
          /\ \A i \in 1..Len(x) : (x \o b)[i] = x[i]
          /\ \A i \in 1..Len(b) : (x \o b)[Len(x) + i] = b[i]
      BY <2>2, BytesAt
    <3> QED
      BY <2>2, <3>1, Zenon
  <2>4. IsSent(letters, size, m)
    BY <1>5, <2>1
  <2>5. ASSUME NEW k \in Nat, k < m + 1
        PROVE  /\ Len(W(k)) \in Nat /\ Len(W(k)) + Len(B(k)) <= Len(y)
               /\ \A j \in 1..Len(B(k)) : y[Len(W(k)) + j] = B(k)[j]
    <3>1. CASE k = m
      <4>1. W(k) = x /\ B(k) = b
        BY <3>1 DEF x, b
      <4> QED
        BY <2>3, <4>1
    <3>2. CASE k # m
      <4>1. k < m /\ k < n
        <5>1. n \in Nat /\ m < n
          BY <1>1, <2>1
        <5> QED
          BY <2>5, <3>2, <5>1
      <4> DEFINE s == Len(W(k))
                 c == B(k)
                 l == Len(c)
      <4>2. s \in Nat /\ s + l <= Len(x) /\ \A j \in 1..l : x[s + j] = c[j]
        BY <1>3, <2>4, <4>1 DEF x
      <4>3. l \in Nat
        BY <1>2, <4>1
      <4> HIDE DEF s, c, l
      <4>4. ASSUME NEW j \in 1..l PROVE y[s + j] = c[j]
        <5>1. s + j \in 1..Len(x)
          BY <2>3, <4>2, <4>3
        <5> QED
          BY <2>3, <4>2, <5>1
      <4>5. s + l <= Len(y)
        BY <2>3, <4>2, <4>3
      <4> QED
        BY <4>2, <4>4, <4>5 DEF s, c, l
    <3> QED
      BY <3>1, <3>2
  <2> QED
    BY <1>3, <2>5 DEF y
<1> HIDE DEF Z
<1>6. Nat \subseteq Z
  BY <1>4, <1>5, NatInd
<1> QED
  BY <1>6 DEF Z, n

\* The texts' bytes, as they were prepared.
FirstOf(letters, m) == [k \in 1..m |-> letters[k].data]

\* What has been found when the first bytes of what was sent are there.
Recovered(letters, size, s, m, v) ==
  \E j \in 0..m :
    /\ Len(Sent(letters, size, j)) <= Len(s)
    /\ v.blocks = FirstOf(letters, j)
    /\ \/ j = m /\ v.state = "whole" /\ v.next = Len(Sent(letters, size, j)) + 1
       \/ j < m /\ v.state = "waiting" /\ Len(s) < Len(Sent(letters, size, j + 1))

Begins(s, w) == s \in Bytes /\ Len(s) \in Nat /\ Len(s) <= Len(w) /\ \A i \in 1..Len(s) : s[i] = w[i]

LEMMA BytesBegin ==
  ASSUME NEW w \in Bytes, NEW h \in Nat, h <= Len(w)
  PROVE  Begins(SubSeq(w, 1, h), w) /\ Len(SubSeq(w, 1, h)) = h
<1> DEFINE o == 1
           s == SubSeq(w, o, h)
<1>1. o \in Nat /\ o > 0 /\ o <= h + 1 /\ h - o + 1 = h /\ \A i \in 1..h : o + i - 1 = i
  OBVIOUS
<1> HIDE DEF o
<1>2. s \in Bytes /\ Len(s) = h - o + 1 /\ \A i \in 1..h - o + 1 : s[i] = w[o + i - 1]
  BY <1>1, BytesPart
<1> HIDE DEF s
<1>3. Begins(s, w) /\ Len(s) = h
  BY <1>1, <1>2 DEF Begins
<1> QED
  BY <1>3 DEF s, o

LEMMA RecoveredNext ==
  ASSUME NEW letters \in Seq(Letters), NEW size \in Sizable,
         NEW s, Begins(s, Sent(letters, size, Len(letters))), NEW m \in Nat, m < Len(letters),
         NEW v, IsHearing(v), Recovered(letters, size, s, m, v)
  PROVE  Recovered(letters, size, s, m + 1, ParseNext(s, v))
<1> DEFINE W(k) == Sent(letters, size, k)
           u == ParseNext(s, v)
           n == Len(letters)
           w == W(n)
           h == Len(s)
<1>1. n \in Nat /\ m < n
  OBVIOUS
<1>2. s \in Bytes /\ h \in Nat /\ h <= Len(w) /\ \A i \in 1..h : s[i] = w[i]
  BY DEF Begins
<1>3. PICK j \in 0..m :
        /\ Len(W(j)) <= Len(s)
        /\ v.blocks = FirstOf(letters, j)
        /\ \/ j = m /\ v.state = "whole" /\ v.next = Len(W(j)) + 1
           \/ j < m /\ v.state = "waiting" /\ Len(s) < Len(W(j + 1))
  BY DEF Recovered
<1>4. CASE j < m /\ v.state = "waiting" /\ Len(s) < Len(W(j + 1))
  <2>1. u = v
    BY <1>4 DEF ParseNext
  <2>2. j \in 0..m + 1 /\ j < m + 1
    BY <1>4
  <2> QED
    BY <1>3, <1>4, <2>1, <2>2 DEF Recovered
<1>5. CASE j = m /\ v.state = "whole" /\ v.next = Len(W(j)) + 1
  <2> DEFINE o == Len(W(m))
             d == letters[m + 1].data
             b == BlockOf(d, size)
             z == o + Len(b)
             e == ParseBlock(s, o + 1)
  <2>1. IsSent(letters, size, n)
    <3>1. n <= n
      BY <1>1
    <3> QED
      BY <1>1, <3>1, SentAre
  <2>2. o \in Nat /\ z <= Len(w) /\ \A i \in 1..Len(b) : w[o + i] = b[i]
    BY <2>1 DEF IsSent
  <2>3. d \in Bytes /\ W(m + 1) = W(m) \o b /\ W(m) \in Bytes
    BY <1>1, SentNext
  <2>4. b \in Bytes /\ Len(b) \in Nat
    <3>1. b \in Bytes
      BY <2>3, BlockIs DEF IsBlock, BlockOf
    <3> HIDE DEF b
    <3> QED
      BY <3>1, ByteAt
  <2>5. Len(W(m + 1)) = z
    <3> DEFINE x == W(m)
    <3> HIDE DEF b, x
    <3>1. Len(x \o b) = Len(x) + Len(b)
      BY <2>3, <2>4, BytesAt DEF x
    <3> QED
      BY <2>3, <3>1 DEF x
  <2> HIDE DEF b, d, o, W
  <2>6. Agrees(s, o, b)
    <3>1. ASSUME NEW i \in 1..Len(b), o + i <= Len(s) PROVE s[o + i] = b[i]
      <4>1. o + i \in 1..h
        BY <1>2, <2>2, <2>4, <3>1
      <4> QED
        BY <1>2, <2>2, <4>1
    <3> QED
      BY <3>1 DEF Agrees
  <2>7. e = IF z <= Len(s) THEN [state |-> "whole", next |-> z + 1, payload |-> d] ELSE Waiting
    <3>1. s \in Bytes /\ d \in Bytes /\ o \in Nat /\ Agrees(s, o, BlockOf(d, size))
      BY <1>2, <2>2, <2>3, <2>6 DEF b
    <3> QED
      BY <3>1, BlockRead DEF b
  <2>8. v.next = o + 1 /\ v.state = "whole"
    BY <1>5 DEF o
  <2> DEFINE c == IF e.state = "whole" THEN Append(v.blocks, e.payload) ELSE v.blocks
  <2>9. u = [state |-> e.state, next |-> e.next, blocks |-> c]
    BY <2>8 DEF ParseNext
  <2> HIDE DEF e, c
  <2>10. u.state = e.state /\ u.next = e.next /\ u.blocks = c
    <3> HIDE DEF u
    <3> QED
      BY <2>9
  <2> HIDE DEF u
  <2>11. CASE z <= Len(s)
    <3> DEFINE r == [state |-> "whole", next |-> z + 1, payload |-> d]
    <3>1. e = r
      BY <2>7, <2>11
    <3>2. r.state = "whole" /\ r.next = z + 1 /\ r.payload = d
      OBVIOUS
    <3> HIDE DEF r, z
    <3>3. c = Append(FirstOf(letters, m), d)
      BY <1>3, <1>5, <3>1, <3>2 DEF c
    <3>4. Append(FirstOf(letters, m), d) = FirstOf(letters, m + 1)
      <4> DEFINE g(k) == letters[k].data
                 x == [k \in 1..m |-> g(k)]
                 y == [k \in 1..m + 1 |-> g(k)]
      <4>1. d = g(m + 1)
        BY DEF d
      <4> HIDE DEF g
      <4>2. Append(x, g(m + 1)) = y
        OBVIOUS
      <4> QED
        BY <4>1, <4>2, Zenon DEF FirstOf, g
    <3>5. m + 1 \in 0..m + 1
      OBVIOUS
    <3>6. Len(W(m + 1)) <= Len(s) /\ u.next = Len(W(m + 1)) + 1 /\ u.state = "whole"
      BY <2>5, <2>10, <2>11, <3>1, <3>2 DEF z
    <3>7. u.blocks = FirstOf(letters, m + 1)
      BY <2>10, <3>3, <3>4
    <3> QED
      BY <3>5, <3>6, <3>7 DEF Recovered, W, u
  <2>12. CASE ~(z <= Len(s))
    <3>1. e = Waiting
      BY <2>7, <2>12
    <3>2. u.state = "waiting" /\ u.blocks = FirstOf(letters, m)
      BY <1>3, <1>5, <2>10, <3>1 DEF Waiting, c
    <3>3. Len(s) < Len(W(m + 1)) /\ Len(W(m)) <= Len(s) /\ m \in 0..m + 1 /\ m < m + 1
      BY <1>2, <1>3, <1>5, <2>2, <2>4, <2>5, <2>12
    <3> QED
      BY <3>2, <3>3 DEF Recovered, W, u
  <2> QED
    BY <2>11, <2>12
<1> QED
  BY <1>3, <1>4, <1>5

\* However the bytes that were sent are cut: the blocks that are there, and no error.
LEMMA BlocksRead ==
  ASSUME NEW letters \in Seq(Letters), NEW size \in Sizable, NEW h \in Nat,
         h <= Len(BytesOf(Envelope(letters, size)))
  PROVE  LET w == BytesOf(Envelope(letters, size))
             p == ParseBlocks(SubSeq(w, 1, h), Len(letters))
         IN  /\ p.raised = FALSE
             /\ \E j \in 0..Len(letters) :
                  /\ p.blocks = FirstOf(letters, j)
                  /\ h = Len(w) => j = Len(letters)
<1> DEFINE n == Len(letters)
           W(k) == Sent(letters, size, k)
           w == W(n)
           s == SubSeq(w, 1, h)
           p == ParseBlocks(s, n)
           x == BlockLoop(s, n)
           Z == {k \in Nat : k <= n => Recovered(letters, size, s, k, x[k])}
<1>1. n \in Nat /\ BytesOf(Envelope(letters, size)) = w /\ W(0) = <<>> /\ w \in Bytes /\ Len(w) \in Nat
  <2>1. n \in Nat
    OBVIOUS
  <2>2. n <= n
    BY <2>1
  <2>3. BytesOf(Envelope(letters, size)) = w /\ W(0) = <<>> /\ w \in Bytes
    BY <2>1, <2>2, SentNext
  <2> QED
    BY <2>1, <2>3, ByteAt
<1>2. h <= Len(w)
  BY <1>1
<1> HIDE DEF W, w
<1>3. s \in Bytes /\ Len(s) = h /\ Begins(s, w)
  <2>1. Begins(s, w) /\ Len(s) = h
    BY <1>1, <1>2, BytesBegin
  <2> HIDE DEF s
  <2> QED
    BY <2>1 DEF Begins
<1> HIDE DEF s, n
<1>4. /\ p = [raised |-> x[n].state = "broken", blocks |-> x[n].blocks]
      /\ x[0] = [state |-> "whole", next |-> 1, blocks |-> <<>>]
      /\ \A k \in Nat : k < n => x[k + 1] = ParseNext(s, x[k])
      /\ \A k \in Nat : k <= n => IsHearing(x[k])
  BY <1>1, <1>3, ParseBlocksTyped
<1> HIDE DEF p, x
<1>5. 0 \in Z
  <2>1. x[0].state = "whole" /\ x[0].next = 1 /\ x[0].blocks = <<>>
    BY <1>4
  <2>2. FirstOf(letters, 0) = <<>>
    BY DEF FirstOf
  <2>3. Len(W(0)) = 0 /\ 0 <= Len(s) /\ 0 + 1 = 1 /\ 0 \in 0..0
    BY <1>1, <1>3
  <2> QED
    BY <2>1, <2>2, <2>3 DEF Recovered, W
<1>6. ASSUME NEW k \in Nat, k \in Z PROVE k + 1 \in Z
  <2> SUFFICES ASSUME k + 1 <= n PROVE Recovered(letters, size, s, k + 1, x[k + 1])
    OBVIOUS
  <2>1. k < n /\ k <= n
    BY <1>1
  <2> DEFINE v == x[k]
  <2>2. Recovered(letters, size, s, k, v) /\ IsHearing(v) /\ x[k + 1] = ParseNext(s, v)
    BY <1>4, <1>6, <2>1
  <2> HIDE DEF v
  <2>3. k < Len(letters) /\ Begins(s, Sent(letters, size, Len(letters)))
    BY <1>3, <2>1 DEF n, w, W
  <2>4. Recovered(letters, size, s, k + 1, ParseNext(s, v))
    BY <2>2, <2>3, RecoveredNext
  <2> QED
    BY <2>2, <2>4
<1> HIDE DEF Z
<1>7. Nat \subseteq Z
  BY <1>5, <1>6, NatInd
<1>8. Recovered(letters, size, s, n, x[n])
  <2>1. n \in Z /\ n <= n
    BY <1>1, <1>7
  <2> QED
    BY <2>1 DEF Z
<1>9. PICK j \in 0..n :
        /\ Len(W(j)) <= Len(s)
        /\ x[n].blocks = FirstOf(letters, j)
        /\ \/ j = n /\ x[n].state = "whole"
           \/ j < n /\ x[n].state = "waiting" /\ Len(s) < Len(W(j + 1))
  BY <1>8 DEF Recovered, W
<1>10. x[n].state # "broken"
  BY <1>9
<1>11. p.raised = FALSE /\ p.blocks = FirstOf(letters, j)
  <2> DEFINE c == x[n].state = "broken"
             f == x[n].blocks
  <2>1. p = [raised |-> c, blocks |-> f] /\ c = FALSE
    BY <1>4, <1>10
  <2> HIDE DEF c, f
  <2> QED
    BY <1>9, <2>1 DEF f
<1>12. ASSUME h = Len(w), j # n PROVE FALSE
  <2>1. j \in Nat /\ j < n /\ j + 1 <= n /\ j + 1 \in Nat /\ h < Len(W(j + 1))
    BY <1>1, <1>3, <1>9, <1>12
  <2>2. IsSent(letters, size, n)
    <3>1. n <= n
      BY <1>1
    <3> QED
      BY <1>1, <3>1, SentAre DEF n
  <2>3. Len(W(j + 1)) <= Len(w)
    <3>1. CASE j + 1 = n
      <4>1. W(j + 1) = w
        BY <3>1 DEF w
      <4> QED
        BY <1>1, <4>1
    <3>2. CASE j + 1 # n
      <4>1. j + 1 < n
        BY <1>1, <2>1, <3>2
      <4> DEFINE t == j + 1
                 b == BlockOf(letters[t + 1].data, size)
      <4>2. t \in Nat /\ t < n
        BY <2>1, <4>1
      <4> HIDE DEF t
      <4>3. Len(W(t)) \in Nat /\ Len(W(t)) + Len(b) <= Len(w)
        BY <2>2, <4>2 DEF IsSent, W, w
      <4>4. b \in Bytes
        <5>1. letters[t + 1].data \in Bytes
          BY <4>2, SentNext DEF n
        <5> QED
          BY <5>1, BlockIs DEF IsBlock, BlockOf
      <4> HIDE DEF b
      <4>5. Len(b) \in Nat
        BY <4>4, ByteAt
      <4>6. Len(W(t)) <= Len(w)
        BY <1>1, <4>3, <4>5
      <4> QED
        BY <4>6 DEF t
    <3> QED
      BY <3>1, <3>2
  <2>4. Len(W(j + 1)) \in Nat
    <3>1. W(j + 1) \in Bytes
      BY <2>1, SentNext DEF W, n
    <3> QED
      BY <3>1, ByteAt
  <2> QED
    BY <1>1, <1>12, <2>1, <2>3, <2>4
<1>13. p.raised = FALSE /\ \E k \in 0..n : p.blocks = FirstOf(letters, k) /\ (h = Len(w) => k = n)
  BY <1>11, <1>12
<1> QED
  BY <1>1, <1>13, Zenon DEF p, s, n

(***************************************************************************)
(* An error means damage.                                                  *)
(***************************************************************************)
\* Every text's bytes are what compress_b2() makes of some bits.
AllPrepared ==
  \A k \in 1..Len(prepared) :
    \E bits \in Seq(Bits) : prepared[k].data = CompressedB2(Len(mail[k]), bits)

\* The bytes on the wire are the blocks, as long as nothing was damaged.
WireIsSent == \E size \in ChunkSizes : wire = BytesOf(Envelope(prepared, size))

\* The blocks that were found are the first of those that were sent, and all when
\* all has been heard.
BlocksAreSent ==
  \E j \in 0..Len(prepared) :
    /\ blocks = FirstOf(prepared, j)
    /\ phase # "compress" /\ heard = Len(wire) => j = Len(prepared)

Intact ==
  /\ Typed /\ AllPrepared
  /\ phase = "compress" => ~damaged /\ blocks = <<>>
  /\ phase # "compress" => Len(prepared) = Len(mail)
  /\ phase # "compress" /\ ~damaged => WireIsSent
  /\ ~damaged => BlocksAreSent
  /\ phase = "error" => damaged

LEMMA EnvelopeLong ==
  ASSUME NEW letters \in Seq(Letters), NEW size \in Sizable, Len(letters) > 0
  PROVE  Len(BytesOf(Envelope(letters, size))) > 0
<1> DEFINE n == Len(letters)
           w == Sent(letters, size, n)
           b == BlockOf(letters[0 + 1].data, size)
<1>1. n \in Nat /\ n > 0
  OBVIOUS
<1>2. BytesOf(Envelope(letters, size)) = w /\ Sent(letters, size, 0) = <<>>
  BY SentNext
<1>3. letters[0 + 1].data \in Bytes
  <2>1. \A m \in Nat : m < n => letters[m + 1].data \in Bytes
    BY SentNext
  <2> HIDE DEF n
  <2> QED
    BY <1>1, <2>1
<1>4. IsSent(letters, size, n)
  <2>1. n <= n
    BY <1>1
  <2> QED
    BY <1>1, <2>1, SentAre
<1>5. 0 + Len(b) <= Len(w)
  <2>1. Len(Sent(letters, size, 0)) + Len(b) <= Len(w)
    BY <1>1, <1>4 DEF IsSent
  <2> HIDE DEF b, w
  <2> QED
    BY <1>2, <2>1
<1>6. b \in Bytes /\ b[1] = SOH /\ Len(b) = Len(Header) + Len(Chunks(letters[0 + 1].data, size, ChunkCount(letters[0 + 1].data, size))) + 4
  BY <1>3, BlockIs DEF IsBlock, BlockOf
<1>7. Len(b) > 0
  <2> DEFINE d == letters[0 + 1].data
             f == Chunks(d, size, ChunkCount(d, size))
             h == Len(Header)
  <2>1. h \in Nat
    BY HeaderIs
  <2>2. Len(f) \in Nat
    <3>1. size \in Nat /\ size > 0
      BY ByteWidth DEF Sizable
    <3> DEFINE q == ChunkCount(d, size)
    <3>2. d \in Bytes
      BY <1>3
    <3> HIDE DEF d
    <3>3. q \in Nat /\ q <= q
      BY <3>1, <3>2, CutsAre
    <3>4. IsChunks(d, size, q)
      BY <3>2, <3>3, ChunksAre
    <3>5. f \in Bytes
      BY <3>4 DEF IsChunks
    <3> HIDE DEF f
    <3> QED
      BY <3>5, ByteAt
  <2>3. Len(b) = h + Len(f) + 4
    BY <1>6
  <2> HIDE DEF b, f, h
  <2> QED
    BY <2>1, <2>2, <2>3
<1>8. Len(w) > 0
  <2>1. b \in Bytes /\ w \in Bytes
    <3>1. n <= n
      BY <1>1
    <3>2. w \in Bytes
      BY <1>1, <3>1, SentNext
    <3> QED
      BY <1>6, <3>2
  <2> HIDE DEF b, w
  <2>2. Len(b) \in Nat /\ Len(w) \in Nat
    BY <2>1, ByteAt
  <2> QED
    BY <1>5, <1>7, <2>2
<1> QED
  BY <1>2, <1>8

LEMMA FirstNone ==
  ASSUME NEW letters
  PROVE  FirstOf(letters, 0) = <<>>
BY DEF FirstOf

LEMMA IntactStart == Init => Intact
<1> SUFFICES ASSUME Init PROVE Intact
  OBVIOUS
<1>1. phase = "compress" /\ ~damaged /\ blocks = <<>> /\ prepared = <<>>
  BY DEF Init
<1>2. Typed
  BY TypedStart
<1>3. Len(prepared) = 0
  BY <1>1
<1>4. AllPrepared
  BY <1>3 DEF AllPrepared
<1>5. 0 \in 0..Len(prepared)
  BY <1>3
<1>6. BlocksAreSent
  BY <1>1, <1>5, FirstNone DEF BlocksAreSent
<1> QED
  BY <1>1, <1>2, <1>4, <1>6 DEF Intact

LEMMA IntactPrepare ==
  ASSUME Intact, Prepare, Typed'
  PROVE  Intact'
<1> DEFINE e == [data |-> CompressedB2(Len(Current), enc.out), widest |-> enc.widest]
           n == Len(prepared)
           p == prepared'
<1>1. phase = "compress" /\ p = Append(prepared, e)
  BY DEF Prepare
<1>2. UNCHANGED <<phase, mail, wire, damaged, heard, blocks>>
  BY DEF Prepare, link, receiving
<1>3. ~damaged /\ blocks = <<>> /\ AllPrepared
  BY <1>1 DEF Intact
<1>4. n \in Nat /\ Len(p) = n + 1 /\ p[n + 1] = e /\ \A k \in 1..n : p[k] = prepared[k]
  <2>1. prepared \in Seq(Letters)
    BY DEF Intact, Typed
  <2> HIDE DEF e
  <2> QED
    BY <1>1, <2>1
<1>5. e.data = CompressedB2(Len(mail[n + 1]), enc.out) /\ enc.out \in Seq(Bits)
  BY DEF Current, Intact, Typed, Encoder
<1> HIDE DEF e, n
<1>6. AllPrepared'
  <2>1. ASSUME NEW k \in 1..n + 1
        PROVE  \E bits \in Seq(Bits) : p[k].data = CompressedB2(Len(mail[k]), bits)
    <3>1. CASE k = n + 1
      BY <1>4, <1>5, <3>1
    <3>2. CASE k # n + 1
      <4>1. k \in 1..n
        BY <1>4, <3>2
      <4>2. p[k] = prepared[k]
        BY <1>4, <4>1
      <4>3. \E bits \in Seq(Bits) : prepared[k].data = CompressedB2(Len(mail[k]), bits)
        BY <1>3, <4>1 DEF AllPrepared, n
      <4> QED
        BY <4>2, <4>3
    <3> QED
      BY <3>1, <3>2
  <2> QED
    BY <1>2, <1>4, <2>1 DEF AllPrepared
<1>7. BlocksAreSent'
  <2>1. 0 \in 0..Len(p)
    BY <1>4
  <2>2. blocks' = FirstOf(p, 0)
    BY <1>2, <1>3, FirstNone
  <2> QED
    BY <1>1, <1>2, <2>1, <2>2 DEF BlocksAreSent
<1> QED
  BY <1>1, <1>2, <1>3, <1>6, <1>7 DEF Intact

LEMMA IntactSend ==
  ASSUME Intact, Send, Typed'
  PROVE  Intact'
<1>1. /\ phase = "compress" /\ phase' = "arrive" /\ Len(prepared) = Len(mail)
      /\ UNCHANGED <<mail, prepared, damaged, heard, blocks>>
  BY DEF Send, sending, receiving
<1>2. PICK size \in ChunkSizes :
        wire' = LET all == FlattenSeq([k \in DOMAIN prepared |-> Marked(prepared[k].data, size)])
                IN  [i \in DOMAIN all |-> all[i].byte]
  BY Zenon DEF Send
<1>3. wire' = BytesOf(Envelope(prepared, size))
  BY <1>2, Zenon DEF Envelope, BytesOf
<1>4. ~damaged /\ blocks = <<>> /\ AllPrepared /\ heard = 0
  BY <1>1 DEF Intact, Typed
<1>5. WireIsSent'
  BY <1>1, <1>3 DEF WireIsSent
<1>6. Len(wire') > 0
  <2>1. size \in Sizable
    BY MailAssumption DEF Sizable
  <2>2. prepared \in Seq(Letters) /\ Len(prepared) > 0
    BY <1>1, MailIs DEF Intact, Typed
  <2> QED
    BY <1>3, <2>1, <2>2, EnvelopeLong
<1>7. BlocksAreSent'
  <2>1. 0 \in 0..Len(prepared)
    BY DEF Intact, Typed
  <2>2. blocks' = FirstOf(prepared, 0)
    BY <1>1, <1>4, FirstNone
  <2>3. heard' # Len(wire')
    BY <1>1, <1>4, <1>6
  <2> QED
    BY <1>1, <2>1, <2>2, <2>3 DEF BlocksAreSent
<1>8. AllPrepared'
  BY <1>1, <1>4 DEF AllPrepared
<1> QED
  BY <1>1, <1>4, <1>5, <1>7, <1>8 DEF Intact

LEMMA IntactArrive ==
  ASSUME Intact, Arrive, Typed'
  PROVE  Intact'
<1> DEFINE h == heard'
           s == SubSeq(wire, 1, h)
           p == ParseBlocks(s, Len(mail))
<1>1. /\ phase = "arrive" /\ heard < Len(wire) /\ h = heard + 1
      /\ UNCHANGED <<mail, prepared, wire, damaged>>
  BY DEF Arrive, sending, link
<1>2. /\ blocks' = p.blocks
      /\ phase' = IF p.raised THEN "error" ELSE IF Len(p.blocks) >= Len(mail) THEN "unpack" ELSE "arrive"
  BY Zenon DEF Arrive
<1>3. h \in Nat /\ h <= Len(wire)
  <2>1. heard \in Nat /\ Len(wire) \in Nat
    BY ByteAt DEF Intact, Typed
  <2> QED
    BY <1>1, <2>1
<1>4. Len(prepared) = Len(mail) /\ AllPrepared /\ prepared \in Seq(Letters)
  BY <1>1 DEF Intact, Typed
<1>5. AllPrepared' /\ (WireIsSent => WireIsSent')
  BY <1>1, <1>4 DEF AllPrepared, WireIsSent
<1>6. phase' \in {"error", "unpack", "arrive"}
  <2> HIDE DEF p
  <2> QED
    BY <1>2
<1>7. ASSUME ~damaged PROVE p.raised = FALSE /\ WireIsSent /\ BlocksAreSent'
  <2>1. WireIsSent
    BY <1>1, <1>7 DEF Intact
  <2>2. PICK size \in ChunkSizes : wire = BytesOf(Envelope(prepared, size))
    BY <2>1 DEF WireIsSent
  <2>3. size \in Sizable
    BY MailAssumption DEF Sizable
  <2>4. h <= Len(BytesOf(Envelope(prepared, size)))
    BY <1>3, <2>2
  <2> DEFINE q == ParseBlocks(SubSeq(BytesOf(Envelope(prepared, size)), 1, h), Len(prepared))
  <2>5. /\ q.raised = FALSE
        /\ \E j \in 0..Len(prepared) :
             /\ q.blocks = FirstOf(prepared, j)
             /\ h = Len(BytesOf(Envelope(prepared, size))) => j = Len(prepared)
    <3> DEFINE t == h
    <3>1. t \in Nat /\ t <= Len(BytesOf(Envelope(prepared, size)))
      BY <1>3, <2>4
    <3> HIDE DEF t
    <3>2. LET w == BytesOf(Envelope(prepared, size))
              r == ParseBlocks(SubSeq(w, 1, t), Len(prepared))
          IN  /\ r.raised = FALSE
              /\ \E j \in 0..Len(prepared) :
                   /\ r.blocks = FirstOf(prepared, j)
                   /\ t = Len(w) => j = Len(prepared)
      BY <1>4, <2>3, <3>1, BlocksRead
    <3> QED
      BY <3>2, Zenon DEF t
  <2>6. p = q
    BY <1>4, <2>2
  <2> HIDE DEF p, q
  <2>7. PICK j \in 0..Len(prepared) : p.blocks = FirstOf(prepared, j) /\ (h = Len(wire) => j = Len(prepared))
    BY <2>2, <2>5, <2>6
  <2>8. BlocksAreSent'
    BY <1>1, <1>2, <2>7 DEF BlocksAreSent
  <2> QED
    BY <2>1, <2>5, <2>6, <2>8
<1> HIDE DEF p
<1>8. phase' = "error" => damaged
  BY <1>2, <1>7
<1> QED
  BY <1>1, <1>4, <1>5, <1>6, <1>7, <1>8 DEF Intact

LEMMA BlockAccepted ==
  ASSUME Intact, phase # "compress", ~damaged, NEW k \in 1..Len(blocks)
  PROVE  /\ k \in 1..Len(prepared) /\ k \in 1..Len(mail) /\ blocks[k] = prepared[k].data /\ Accepts(blocks[k])
         /\ Size(Body(blocks[k])) = Len(mail[k])
<1>1. PICK j \in 0..Len(prepared) : blocks = FirstOf(prepared, j)
  BY DEF Intact, BlocksAreSent
<1>2. Len(prepared) \in Nat /\ Len(prepared) = Len(mail) /\ AllPrepared /\ mail \in Mails
  BY DEF Intact, Typed
<1>3. j \in Nat /\ j <= Len(prepared)
  BY <1>2
<1>4. Len(blocks) = j
  BY <1>1, <1>3 DEF FirstOf
<1>5. k \in 1..j /\ k \in 1..Len(prepared) /\ k \in 1..Len(mail)
  BY <1>2, <1>3, <1>4
<1>6. blocks[k] = prepared[k].data
  BY <1>1, <1>5 DEF FirstOf
<1>7. PICK bits \in Seq(Bits) : prepared[k].data = CompressedB2(Len(mail[k]), bits)
  BY <1>2, <1>5 DEF AllPrepared
<1>8. Len(mail[k]) \in Nat /\ Len(mail[k]) < 2^(BYTE * LENGTH_BYTES)
  BY <1>2, <1>5, MailIs
<1> DEFINE l == Len(mail[k])
           d == CompressedB2(l, bits)
<1>9. Accepts(d) /\ Size(Body(d)) = l
  <2> HIDE DEF l
  <2>1. l \in Nat /\ l < 2^(BYTE * LENGTH_BYTES)
    BY <1>8 DEF l
  <2> QED
    BY <2>1, CompressedIs
<1> QED
  BY <1>5, <1>6, <1>7, <1>9

LEMMA IntactOpen ==
  ASSUME Intact, Open, Typed'
  PROVE  Intact'
<1> DEFINE k == Len(messages) + 1
<1>1. /\ phase = "unpack" /\ Len(messages) < Len(blocks)
      /\ UNCHANGED <<mail, prepared, enc, wire, place, damaged, heard, blocks>>
  BY DEF Open, sending, link
<1>2. phase' \in {"unpack", "error"} /\ (phase' = "error" => ~Accepts(blocks[k]))
  BY <1>1, Zenon DEF Open
<1>3. Len(messages) \in Nat /\ Len(blocks) \in Nat
  BY DEF Intact, Typed
<1>4. k \in 1..Len(blocks)
  BY <1>1, <1>3
<1> HIDE DEF k
<1>5. phase' = "error" => damaged
  BY <1>1, <1>2, <1>4, BlockAccepted
<1>6. AllPrepared' /\ (WireIsSent => WireIsSent') /\ (BlocksAreSent => BlocksAreSent')
  BY <1>1, <1>2 DEF Intact, AllPrepared, WireIsSent, BlocksAreSent
<1> QED
  BY <1>1, <1>2, <1>5, <1>6 DEF Intact

LEMMA IntactStep ==
  ASSUME Intact, [Next]_vars
  PROVE  Intact'
<1>1. Typed'
  BY TypedStep DEF Intact
<1>2. CASE Compress
  <2>1. UNCHANGED <<phase, mail, prepared, wire, damaged, heard, blocks>>
    BY <1>2 DEF Compress, link, receiving
  <2> QED
    BY <1>1, <2>1 DEF Intact, AllPrepared, WireIsSent, BlocksAreSent
<1>3. CASE Prepare
  BY <1>1, <1>3, IntactPrepare
<1>4. CASE Send
  BY <1>1, <1>4, IntactSend
<1>5. CASE Damage
  <2>1. damaged' = TRUE /\ phase = "arrive" /\ UNCHANGED <<phase, mail, prepared>>
    BY <1>5 DEF Damage, sending, receiving
  <2> QED
    BY <1>1, <2>1 DEF Intact, AllPrepared
<1>6. CASE Arrive
  BY <1>1, <1>6, IntactArrive
<1>7. CASE TimeOut
  <2>1. phase = "arrive" /\ phase' = "unpack" /\ UNCHANGED <<mail, prepared, wire, damaged, heard, blocks>>
    BY <1>7 DEF TimeOut, sending, link, receiving
  <2> QED
    BY <1>1, <2>1 DEF Intact, AllPrepared, WireIsSent, BlocksAreSent
<1>8. CASE Open
  BY <1>1, <1>8, IntactOpen
<1>9. CASE Decompress
  <2>1. UNCHANGED <<phase, mail, prepared, wire, damaged, heard, blocks>>
    BY <1>9 DEF Decompress, sending, link
  <2> QED
    BY <1>1, <2>1 DEF Intact, AllPrepared, WireIsSent, BlocksAreSent
<1>10. CASE Return
  <2>1. phase = "unpack" /\ phase' = "done" /\ UNCHANGED <<mail, prepared, wire, damaged, heard, blocks>>
    BY <1>10 DEF Return, sending, link, receiving
  <2> QED
    BY <1>1, <2>1 DEF Intact, AllPrepared, WireIsSent, BlocksAreSent
<1>11. CASE UNCHANGED vars
  <2>1. UNCHANGED <<phase, mail, prepared, wire, damaged, heard, blocks>>
    BY <1>11 DEF vars, sending, link, receiving
  <2> QED
    BY <1>1, <2>1 DEF Intact, AllPrepared, WireIsSent, BlocksAreSent
<1> QED
  BY <1>2, <1>3, <1>4, <1>5, <1>6, <1>7, <1>8, <1>9, <1>10, <1>11 DEF Next

\* A transfer fails only when the link has changed something: no place at which the
\* bytes may be cut looks like a broken block, and what was framed is accepted, for
\* every title, size of chunks, number of texts and width of a byte.
THEOREM ErrorsMeanDamage == Spec => []ErrorMeansDamage
<1>1. Spec => []Intact
  BY IntactStart, IntactStep, PTL DEF Spec
<1>2. Intact => ErrorMeansDamage
  BY DEF Intact, ErrorMeansDamage
<1> QED
  BY <1>1, <1>2, PTL

(***************************************************************************)
(* The bits come back from the bytes.                                      *)
(***************************************************************************)
LEMMA BitsBack ==
  ASSUME NEW bits \in Seq(Bits)
  PROVE  BitsOf(NumberOf(bits), Len(bits)) = bits
<1> DEFINE P == {s \in Seq(Bits) : BitsOf(NumberOf(s), Len(s)) = s}
<1>1. <<>> \in P
  <2>1. <<>> \in Seq(Bits) /\ Len(<<>>) = 0 /\ 0 \in Nat
    OBVIOUS
  <2>2. BitsOf(0, 0) = <<>>
    <3>1. BitsOf(0, 0) \in Seq(Bits) /\ Len(BitsOf(0, 0)) = 0
      BY BitsType
    <3> QED
      BY <3>1, EmptySeq
  <2> QED
    BY <2>1, <2>2, NumberEmpty
<1>2. ASSUME NEW s \in Seq(Bits), NEW x \in Bits, s \in P PROVE Append(s, x) \in P
  <2> DEFINE t == Append(s, x)
             n == NumberOf(s)
             l == Len(s)
             a == 2 * n + x
  <2>1. t \in Seq(Bits) /\ Len(t) = l + 1 /\ l \in Nat
    OBVIOUS
  <2>2. s \in Seq(Nat) /\ x \in Nat /\ (x = 0 \/ x = 1)
    BY NumberBound DEF Bits
  <2>3. n \in Nat /\ NumberOf(t) = a
    BY <2>2, NumberAppend
  <2>4. BitsOf(n, l) = s
    BY <1>2
  <2> HIDE DEF t, n, l
  <2>5. a \in Nat /\ a \div 2 = n /\ a % 2 = x
    BY <2>2, <2>3
  <2> HIDE DEF a
  <2>6. BitsOf(a, l + 1) = Append(BitsOf(a \div 2, l), a % 2)
    BY <2>1, <2>5, BitsNext
  <2>7. BitsOf(a, l + 1) = t
    BY <2>4, <2>5, <2>6 DEF t
  <2>8. BitsOf(NumberOf(t), Len(t)) = t
    BY <2>1, <2>3, <2>7, Zenon
  <2>9. t \in P
    BY <2>1, <2>8
  <2> QED
    BY <2>9 DEF t
<1> HIDE DEF P
<1>3. bits \in P
  BY <1>1, <1>2, SeqInd
<1> QED
  BY <1>3 DEF P

\* The place of one of n things among pieces of w.
LEMMA PieceOf ==
  ASSUME NEW w \in Nat, w > 0, NEW i \in Nat, NEW n \in Nat, i < w * n
  PROVE  \E k \in 1..n, j \in 1..w : i + 1 = w * (k - 1) + j
<1> DEFINE q == i \div w
           r == i % w
<1>1. q \in Nat /\ r \in 0..w - 1 /\ i = q * w + r
  BY Divides
<1> HIDE DEF q, r
<1>2. q < n
  <2> SUFFICES ASSUME ~(q < n) PROVE FALSE
    OBVIOUS
  <2>1. PICK d \in Nat : q = n + d
    <3>1. q - n \in Nat /\ q = n + (q - n)
      BY <1>1
    <3> QED
      BY <3>1
  <2> DEFINE x == w * n
             y == d * w
  <2>2. q * w = x + y /\ x \in Nat /\ y \in Nat
    BY <2>1
  <2> DEFINE z == q * w
  <2> HIDE DEF x, y, z
  <2>3. i = z + r /\ z = x + y /\ i < x
    BY <1>1, <2>2 DEF x, z
  <2> QED
    BY <1>1, <2>2, <2>3
<1>3. q + 1 \in 1..n /\ r + 1 \in 1..w /\ (q + 1) - 1 = q
  BY <1>1, <1>2
<1>4. i + 1 = w * ((q + 1) - 1) + (r + 1)
  <2> DEFINE z == q * w
  <2>1. w * q = z /\ z \in Nat
    BY <1>1
  <2>2. i = z + r
    BY <1>1
  <2> HIDE DEF z
  <2> QED
    BY <1>1, <1>3, <2>1, <2>2
<1> QED
  BY <1>3, <1>4

LEMMA PackedBack ==
  ASSUME NEW bits \in Seq(Bits)
  PROVE  Unpacked(Packed(bits)) \in Seq(Bits) /\ BitsBegin(bits, Unpacked(Packed(bits)))
<1> DEFINE p == Packed(bits)
           u == Unpacked(p)
           n == Len(p)
           m == Len(bits)
           w == BYTE
<1>1. /\ p \in Bytes /\ n = (m + w - 1) \div w /\ m \in Nat
      /\ \A k \in 1..n : /\ p[k] = NumberOf(ByteBits(bits, k))
                         /\ ByteBits(bits, k) \in Seq(Bits) /\ Len(ByteBits(bits, k)) = w
  BY PackedIs
<1>2. p \in Seq(Nat) /\ n \in Nat
  BY <1>1, BytesNat
<1> HIDE DEF p
<1>3. u \in Seq(Bits) /\ Len(u) = w * n
      /\ \A k \in 1..n, j \in 1..w : u[w * (k - 1) + j] = BitsOf(p[k], w)[j]
  BY <1>2, UnpackedIs
<1>4. w \in Nat /\ w > 0
  BY ByteWidth
<1> HIDE DEF u, n, m, w
<1>5. m <= w * n
  <2> DEFINE e == m + w - 1
             q == e \div w
             r == e % w
  <2>1. e \in Nat /\ n = q
    BY <1>1, <1>4
  <2> HIDE DEF e
  <2>2. q \in Nat /\ r \in 0..w - 1 /\ e = q * w + r
    BY <1>4, <2>1, Divides
  <2> HIDE DEF q, r
  <2> DEFINE z == q * w
  <2>3. w * n = z /\ e = z + r /\ z \in Nat
    BY <1>4, <2>1, <2>2
  <2> HIDE DEF z
  <2>4. m <= z
    BY <1>1, <1>4, <2>2, <2>3 DEF e
  <2> QED
    BY <2>3, <2>4
<1>6. ASSUME NEW h \in 1..m PROVE u[h] = bits[h]
  <2> DEFINE x == w * n
             i == h - 1
  <2>1. i \in Nat /\ i + 1 = h /\ h <= m /\ x \in Nat
    BY <1>1, <1>2, <1>4
  <2>2. i < w * n
    <3>1. m <= x
      BY <1>5
    <3> HIDE DEF x
    <3>2. i < x
      BY <1>1, <2>1, <3>1
    <3> QED
      BY <3>2 DEF x
  <2> HIDE DEF i, x
  <2>3. PICK k \in 1..n, j \in 1..w : i + 1 = w * (k - 1) + j
    BY <1>2, <1>4, <2>1, <2>2, PieceOf
  <2> DEFINE b == ByteBits(bits, k)
             y == w * (k - 1) + j
  <2>4. u[y] = BitsOf(p[k], w)[j]
    BY <1>3
  <2>5. p[k] = NumberOf(b) /\ b \in Seq(Bits) /\ Len(b) = w
    BY <1>1
  <2>6. BitsOf(p[k], w) = b
    BY <2>5, BitsBack
  <2>7. b[j] = IF y <= Len(bits) THEN bits[y] ELSE 0
    BY DEF ByteBits, w
  <2> HIDE DEF b, y
  <2>8. y = h /\ h <= Len(bits)
    BY <2>1, <2>3 DEF y, m
  <2> QED
    BY <2>4, <2>6, <2>7, <2>8
<1>7. m <= Len(u)
  BY <1>3, <1>5
<1> QED
  BY <1>3, <1>6, <1>7 DEF BitsBegin, u, p, m

\* What decompress_b2() reads begins with what compress() wrote.
LEMMA SentBitsRead ==
  ASSUME NEW size \in Nat, size < 2^(BYTE * LENGTH_BYTES), NEW bits \in Seq(Bits)
  PROVE  /\ CodeBits(Body(CompressedB2(size, bits))) \in Seq(Bits)
         /\ BitsBegin(bits, CodeBits(Body(CompressedB2(size, bits))))
BY CompressedIs, PackedBack

(***************************************************************************)
(* What was not damaged is delivered.                                      *)
(***************************************************************************)
\* What compress_b2() made of a text: as long as no code was too long, the text is
\* got back from it.
Codable(k) ==
  \E bits \in Seq(Bits) :
    /\ prepared[k].data = CompressedB2(Len(mail[k]), bits)
    /\ prepared[k].widest <= CODE_BITS => Decodable(bits, mail[k])

\* The texts so far are the first of those sent, and the one being decompressed will
\* be the next.
FirstDelivered == \A k \in 1..Len(messages) : k \in 1..Len(mail) /\ messages[k] = mail[k]

NextFinishes ==
  LET k == Len(messages) + 1
  IN  dec.size > 0 => /\ dec.size = Len(mail[k])
                      /\ Finishes(dec, CodeBits(Body(blocks[k])), mail[k])

Faithful ==
  /\ Intact
  /\ phase = "compress" /\ Len(prepared) < Len(mail) => Followed(enc, Current)
  /\ \A k \in 1..Len(prepared) : Codable(k)
  /\ phase \in {"compress", "arrive"} => messages = <<>>
  /\ Len(messages) <= Len(blocks)
  /\ phase = "done" => Len(messages) = Len(blocks)
  /\ ~damaged /\ Exact => FirstDelivered /\ NextFinishes

LEMMA CurrentIs ==
  ASSUME Intact, Len(prepared) < Len(mail)
  PROVE  Current \in Texts /\ Len(prepared) \in Nat /\ Len(mail) \in Nat /\ Len(prepared) + 1 \in 1..Len(mail)
<1>1. Len(prepared) \in Nat /\ Len(mail) \in Nat
  BY MailIs DEF Intact, Typed
<1>2. Len(prepared) + 1 \in 1..Len(mail)
  BY <1>1
<1>3. mail[Len(prepared) + 1] \in Texts
  BY <1>2, MailIs DEF Intact, Typed
<1> QED
  BY <1>1, <1>2, <1>3 DEF Current

\* While nothing is decompressed nothing is claimed.
LEMMA NothingYet ==
  ASSUME messages = <<>>, dec.size = 0
  PROVE  FirstDelivered /\ NextFinishes
BY DEF FirstDelivered, NextFinishes

LEMMA FaithfulStart == Init => Faithful
<1> SUFFICES ASSUME Init PROVE Faithful
  OBVIOUS
<1>1. Intact
  BY IntactStart
<1>2. phase = "compress" /\ prepared = <<>> /\ messages = <<>> /\ blocks = <<>>
      /\ enc = StartCompress(mail[1]) /\ dec.size = 0
  BY DEF Init, StartDecompress
<1>3. Len(prepared) = 0 /\ 0 + 1 = 1 /\ Len(messages) = 0 /\ Len(blocks) = 0
  BY <1>2
<1>4. ASSUME Len(prepared) < Len(mail) PROVE Followed(enc, Current)
  <2>1. Current = mail[1]
    BY <1>3 DEF Current
  <2>2. Current \in Texts
    BY <1>1, <1>4, CurrentIs
  <2> QED
    BY <1>2, <2>1, <2>2, FollowedStart
<1> QED
  BY <1>1, <1>2, <1>3, <1>4, NothingYet DEF Faithful

LEMMA FaithfulCompress ==
  ASSUME Faithful, Compress, Intact'
  PROVE  Faithful'
<1>1. /\ phase = "compress" /\ Len(prepared) < Len(mail) /\ enc.length > 0
      /\ enc' = CompressNext(enc, Current)
      /\ UNCHANGED <<phase, mail, prepared, damaged, blocks, dec, messages>>
  BY DEF Compress, link, receiving
<1>2. Followed(enc, Current) /\ Current \in Texts
  BY <1>1, CurrentIs DEF Faithful
<1>3. Followed(enc', Current)
  BY <1>1, <1>2, FollowedNext
<1>4. Current' = Current
  BY <1>1 DEF Current
<1>5. ASSUME NEW k \in 1..Len(prepared) PROVE Codable(k)'
  BY <1>1 DEF Faithful, Codable
<1>6. FirstDelivered' /\ NextFinishes'
  <2>1. messages' = <<>> /\ dec'.size = 0
    BY <1>1 DEF Faithful, Intact, Typed
  <2> QED
    BY <2>1 DEF FirstDelivered, NextFinishes
<1> QED
  BY <1>1, <1>3, <1>4, <1>5, <1>6 DEF Faithful

LEMMA FaithfulPrepare ==
  ASSUME Faithful, Prepare, Intact'
  PROVE  Faithful'
<1> DEFINE e == [data |-> CompressedB2(Len(Current), enc.out), widest |-> enc.widest]
           n == Len(prepared)
           p == prepared'
<1>1. /\ phase = "compress" /\ n < Len(mail) /\ enc.length = 0 /\ p = Append(prepared, e)
      /\ enc' = IF Len(p) < Len(mail) THEN StartCompress(mail[Len(p) + 1]) ELSE enc
      /\ UNCHANGED <<phase, mail, damaged, blocks, dec, messages>>
  BY DEF Prepare, link, receiving
<1>2. n \in Nat /\ Len(p) = n + 1 /\ p[n + 1] = e /\ \A k \in 1..n : p[k] = prepared[k]
  <2>1. prepared \in Seq(Letters)
    BY DEF Faithful, Intact, Typed
  <2> HIDE DEF e
  <2> QED
    BY <1>1, <2>1
<1>3. Followed(enc, Current) /\ Current \in Texts /\ Current = mail[n + 1]
  BY <1>1, CurrentIs DEF Faithful, Current
<1>4. e.data = CompressedB2(Len(mail[n + 1]), enc.out) /\ e.widest = enc.widest /\ enc.out \in Seq(Bits)
  BY <1>3 DEF Followed, Windowed, Encoder
<1>5. e.widest <= CODE_BITS => Decodable(enc.out, mail[n + 1])
  BY <1>1, <1>3, <1>4, FollowedEnd
<1> HIDE DEF e
<1>6. ASSUME NEW k \in 1..n + 1 PROVE Codable(k)'
  <2>1. CASE k = n + 1
    BY <1>1, <1>2, <1>4, <1>5, <2>1 DEF Codable
  <2>2. CASE k # n + 1
    <3>1. k \in 1..n
      BY <1>2, <2>2
    <3>2. p[k] = prepared[k] /\ Codable(k)
      BY <1>2, <3>1 DEF Faithful
    <3> QED
      BY <1>1, <3>2 DEF Codable
  <2> QED
    BY <2>1, <2>2
<1>7. ASSUME Len(p) < Len(mail) PROVE Followed(enc', Current')
  <2>1. Current' = mail[Len(p) + 1]
    BY <1>1 DEF Current
  <2>2. mail[Len(p) + 1] \in Texts
    <3>1. Len(mail) \in Nat
      BY MailIs DEF Faithful, Intact, Typed
    <3>2. Len(p) + 1 \in 1..Len(mail)
      BY <1>2, <1>7, <3>1
    <3> QED
      BY <3>2, MailIs DEF Faithful, Intact, Typed
  <2> QED
    BY <1>1, <1>7, <2>1, <2>2, FollowedStart
<1>8. FirstDelivered' /\ NextFinishes'
  <2>1. messages' = <<>> /\ dec'.size = 0
    BY <1>1 DEF Faithful, Intact, Typed
  <2> QED
    BY <2>1 DEF FirstDelivered, NextFinishes
<1>9. /\ phase' = phase /\ mail' = mail /\ messages' = messages /\ blocks' = blocks
      /\ Len(p) = n + 1
  BY <1>1, <1>2
<1> HIDE DEF n
<1> QED
  BY <1>1, <1>6, <1>7, <1>8, <1>9 DEF Faithful

\* As long as nothing but the phase and what is on its way changes.
LEMMA FaithfulKept ==
  ASSUME Faithful, Intact', UNCHANGED <<mail, prepared, enc, blocks, dec, messages>>,
         damaged' = damaged \/ damaged', phase' = "compress" => phase = "compress",
         phase' \in {"compress", "arrive"} => messages = <<>>,
         phase' = "done" => Len(messages) = Len(blocks)
  PROVE  Faithful'
<1>1. UNCHANGED <<mail, prepared, enc, blocks, dec, messages>>
  OBVIOUS
<1>2. Current' = Current /\ Exact' = Exact /\ FirstDelivered' = FirstDelivered
      /\ NextFinishes' = NextFinishes
  BY <1>1 DEF Current, Exact, FirstDelivered, NextFinishes
<1>3. ASSUME NEW k \in 1..Len(prepared) PROVE Codable(k)'
  BY <1>1 DEF Faithful, Codable
<1>4. phase' = "compress" /\ Len(prepared') < Len(mail') => Followed(enc', Current')
  BY <1>1, <1>2 DEF Faithful
<1>5. ~damaged' /\ Exact' => FirstDelivered' /\ NextFinishes'
  BY <1>2 DEF Faithful
<1>6. \A k \in 1..Len(prepared') : Codable(k)'
  BY <1>1, <1>3
<1> QED
  BY <1>1, <1>4, <1>5, <1>6 DEF Faithful

LEMMA FaithfulArrive ==
  ASSUME Faithful, Arrive, Intact'
  PROVE  Faithful'
<1>1. /\ phase = "arrive" /\ UNCHANGED <<mail, prepared, enc, damaged, dec, messages>>
  BY DEF Arrive, sending, link
<1>2. phase' \in {"error", "unpack", "arrive"}
  <2> DEFINE p == ParseBlocks(SubSeq(wire, 1, heard'), Len(mail))
  <2>1. phase' = IF p.raised THEN "error" ELSE IF Len(p.blocks) >= Len(mail) THEN "unpack" ELSE "arrive"
    BY Zenon DEF Arrive
  <2> HIDE DEF p
  <2> QED
    BY <2>1
<1>3. messages' = <<>> /\ dec'.size = 0
  BY <1>1 DEF Faithful, Intact, Typed
<1>4. FirstDelivered' /\ NextFinishes'
  BY <1>3 DEF FirstDelivered, NextFinishes
<1>5. Len(messages') <= Len(blocks')
  <2>1. Len(messages') = 0
    BY <1>3
  <2>2. Len(blocks') \in Nat
    BY DEF Intact, Typed
  <2> QED
    BY <2>1, <2>2
<1>6. ASSUME NEW k \in 1..Len(prepared) PROVE Codable(k)'
  BY <1>1 DEF Faithful, Codable
<1>7. \A k \in 1..Len(prepared') : Codable(k)'
  BY <1>1, <1>6
<1> QED
  BY <1>2, <1>3, <1>4, <1>5, <1>7 DEF Faithful

\* The block that is next: the text comes back from it.
LEMMA BlockDecodes ==
  ASSUME Faithful, phase # "compress", ~damaged, Exact, NEW k \in 1..Len(blocks)
  PROVE  /\ k \in 1..Len(mail) /\ mail[k] \in Texts /\ Len(mail[k]) \in Nat
         /\ Accepts(blocks[k]) /\ Size(Body(blocks[k])) = Len(mail[k])
         /\ CodeBits(Body(blocks[k])) \in Seq(Bits)
         /\ Finishes(StartDecompress(Len(mail[k])), CodeBits(Body(blocks[k])), mail[k])
<1>1. k \in 1..Len(prepared) /\ k \in 1..Len(mail) /\ blocks[k] = prepared[k].data
      /\ Accepts(blocks[k]) /\ Size(Body(blocks[k])) = Len(mail[k])
  BY BlockAccepted DEF Faithful
<1>2. Codable(k)
  BY <1>1 DEF Faithful
<1>3. PICK bits \in Seq(Bits) :
        /\ prepared[k].data = CompressedB2(Len(mail[k]), bits)
        /\ prepared[k].widest <= CODE_BITS => Decodable(bits, mail[k])
  BY <1>2 DEF Codable
<1>4. prepared[k].widest <= CODE_BITS
  <2>1. k \in DOMAIN prepared
    BY <1>1 DEF Faithful, Intact, Typed
  <2> QED
    BY <2>1 DEF Exact
<1>5. mail[k] \in Texts /\ Len(mail[k]) \in Nat /\ Len(mail[k]) < 2^(BYTE * LENGTH_BYTES)
  BY <1>1, MailIs DEF Faithful, Intact, Typed
<1> DEFINE l == Len(mail[k])
           x == CodeBits(Body(CompressedB2(l, bits)))
<1>6. x \in Seq(Bits) /\ BitsBegin(bits, x)
  <2> HIDE DEF l
  <2>1. l \in Nat /\ l < 2^(BYTE * LENGTH_BYTES)
    BY <1>5 DEF l
  <2> QED
    BY <2>1, SentBitsRead
<1>7. x = CodeBits(Body(blocks[k]))
  BY <1>1, <1>3
<1> HIDE DEF x
<1>8. Finishes(StartDecompress(Len(mail[k])), x, mail[k])
  BY <1>3, <1>4, <1>6 DEF Decodable
<1> QED
  BY <1>1, <1>5, <1>6, <1>7, <1>8

\* One more text of those that were sent.
LEMMA DeliveredMore ==
  ASSUME NEW sent, NEW sofar \in Seq(Texts), NEW next \in Texts, NEW m, m = Append(sofar, next),
         \A k \in 1..Len(sofar) : k \in 1..Len(sent) /\ sofar[k] = sent[k],
         Len(sofar) + 1 \in 1..Len(sent), next = sent[Len(sofar) + 1]
  PROVE  Len(m) = Len(sofar) + 1 /\ \A k \in 1..Len(m) : k \in 1..Len(sent) /\ m[k] = sent[k]
<1> DEFINE n == Len(sofar)
<1>1. n \in Nat /\ Len(m) = n + 1 /\ m[n + 1] = next /\ \A k \in 1..n : m[k] = sofar[k]
  BY AppendProperties
<1>2. next = sent[n + 1] /\ n + 1 \in 1..Len(sent)
  OBVIOUS
<1> HIDE DEF n
<1>3. ASSUME NEW k \in 1..n + 1 PROVE k \in 1..Len(sent) /\ m[k] = sent[k]
  <2>1. CASE k = n + 1
    BY <1>1, <1>2, <2>1
  <2>2. CASE k # n + 1
    <3>1. k \in 1..n
      BY <1>1, <2>2
    <3> QED
      BY <1>1, <3>1 DEF n
  <2> QED
    BY <2>1, <2>2
<1> QED
  BY <1>1, <1>3 DEF n

LEMMA FaithfulOpen ==
  ASSUME Faithful, Open, Intact'
  PROVE  Faithful'
<1> DEFINE k == Len(messages) + 1
           size == Size(Body(blocks[k]))
<1>1. /\ phase = "unpack" /\ dec.size = 0 /\ Len(messages) < Len(blocks)
      /\ UNCHANGED <<mail, prepared, enc, damaged, blocks>>
  BY DEF Open, sending, link
<1>2. \/ phase' = "error" /\ UNCHANGED <<dec, messages>>
      \/ /\ dec' = StartDecompress(size) /\ UNCHANGED phase
         /\ messages' = IF size = 0 THEN Append(messages, <<>>) ELSE messages
  BY Zenon DEF Open
<1>3. Len(messages) \in Nat /\ Len(blocks) \in Nat /\ messages \in Seq(Texts)
  BY DEF Faithful, Intact, Typed
<1>4. CASE phase' = "error" /\ UNCHANGED <<dec, messages>>
  BY <1>1, <1>4, FaithfulKept
<1>5. CASE /\ dec' = StartDecompress(size) /\ UNCHANGED phase
           /\ messages' = IF size = 0 THEN Append(messages, <<>>) ELSE messages
  <2>1. k \in 1..Len(blocks)
    BY <1>1, <1>3
  <2>2. messages' = Append(messages, <<>>) \/ messages' = messages
    <3> HIDE DEF size
    <3> QED
      BY <1>5
  <2>3. Len(messages') <= Len(blocks')
    <3>1. Len(Append(messages, <<>>)) = Len(messages) + 1
      BY <1>3
    <3> QED
      BY <1>1, <1>3, <2>2, <3>1
  <2>4. \A j \in 1..Len(prepared') : Codable(j)'
    <3>1. ASSUME NEW j \in 1..Len(prepared) PROVE Codable(j)'
      BY <1>1 DEF Faithful, Codable
    <3> QED
      BY <1>1, <3>1
  <2>5. Exact' = Exact
    BY <1>1 DEF Exact
  <2>6. ASSUME ~damaged, Exact PROVE FirstDelivered' /\ NextFinishes'
    <3>1. /\ k \in 1..Len(mail) /\ mail[k] \in Texts /\ Len(mail[k]) \in Nat
          /\ size = Len(mail[k])
          /\ Finishes(StartDecompress(Len(mail[k])), CodeBits(Body(blocks[k])), mail[k])
      BY <1>1, <2>1, <2>6, BlockDecodes
    <3>2. dec'.size = size
      BY <1>5 DEF StartDecompress
    <3>3. \A j \in 1..Len(messages) : j \in 1..Len(mail) /\ messages[j] = mail[j]
      BY <2>6 DEF Faithful, FirstDelivered
    <3> DEFINE fits == Finishes(StartDecompress(Len(mail[k])), CodeBits(Body(blocks[k])), mail[k])
    <3> HIDE DEF size
    <3>4. CASE size = 0
      <4>1. messages' = Append(messages, <<>>)
        BY <1>5, <3>4
      <4>2. <<>> = mail[k] /\ <<>> \in Texts
        <5>1. Len(mail[k]) = 0 /\ <<>> \in Texts
          BY <3>1, <3>4 DEF Texts
        <5> QED
          BY <3>1, <5>1, EmptySeq DEF Texts
      <4>3. \A j \in 1..Len(messages') : j \in 1..Len(mail) /\ messages'[j] = mail[j]
        BY <1>3, <3>1, <3>3, <4>1, <4>2, DeliveredMore
      <4> QED
        BY <1>1, <3>2, <3>4, <4>3 DEF FirstDelivered, NextFinishes
    <3>5. CASE size # 0
      <4>1. messages' = messages
        BY <1>5, <3>5
      <4>2. NextFinishes'
        BY <1>1, <1>5, <3>1, <3>2, <4>1 DEF NextFinishes
      <4>3. FirstDelivered'
        BY <1>1, <3>3, <4>1 DEF FirstDelivered
      <4> QED
        BY <4>2, <4>3
    <3> QED
      BY <3>4, <3>5
  <2>7. phase' = "unpack"
    BY <1>1, <1>5
  <2> QED
    BY <1>1, <2>3, <2>4, <2>5, <2>6, <2>7 DEF Faithful
<1> QED
  BY <1>2, <1>4, <1>5

LEMMA FaithfulDecompress ==
  ASSUME Faithful, Decompress, Intact'
  PROVE  Faithful'
<1> DEFINE k == Len(messages) + 1
           x == CodeBits(Body(blocks[k]))
           next == DecompressNext(dec, x)
           over == Len(next.out) >= next.size
<1>1. /\ phase = "unpack" /\ Len(dec.out) < dec.size
      /\ UNCHANGED <<phase, mail, prepared, enc, damaged, blocks>>
  BY DEF Decompress, sending, link
<1>2. /\ dec' = IF over THEN [next EXCEPT !.size = 0] ELSE next
      /\ messages' = IF over THEN Append(messages, next.out) ELSE messages
  BY Zenon DEF Decompress
<1>3. Len(messages) \in Nat /\ Len(blocks) \in Nat /\ messages \in Seq(Texts)
      /\ dec.size \in Nat /\ Len(dec.out) \in Nat /\ Decoder(dec)
  <2> HIDE DEF k, x, next, over
  <2>1. Typed
    BY DEF Faithful, Intact
  <2>2. messages \in Seq(Texts) /\ blocks \in Seq(Bytes) /\ Decoder(dec)
    BY <2>1 DEF Typed
  <2>3. dec.size \in Nat /\ dec.out \in Seq(Codes)
    BY <2>2 DEF Decoder, Texts
  <2> QED
    BY <2>2, <2>3
<1>4. dec.size > 0 /\ Len(messages) < Len(blocks)
  <2>1. dec.size > 0
    BY <1>1, <1>3
  <2> QED
    BY <2>1 DEF Faithful, Intact, Typed
<1>5. k \in 1..Len(blocks)
  BY <1>3, <1>4
<1>6. \/ messages' = Append(messages, next.out) \/ messages' = messages
  <2> HIDE DEF next
  <2> QED
    BY <1>2
<1>7. Len(messages') <= Len(blocks')
  <2> DEFINE o == next.out
  <2> HIDE DEF o
  <2>1. Len(Append(messages, o)) = Len(messages) + 1
    BY <1>3
  <2>2. messages' = Append(messages, o) \/ messages' = messages
    BY <1>6 DEF o
  <2> QED
    BY <1>1, <1>3, <1>4, <2>1, <2>2
<1>8. \A j \in 1..Len(prepared') : Codable(j)'
  <2>1. ASSUME NEW j \in 1..Len(prepared) PROVE Codable(j)'
    BY <1>1 DEF Faithful, Codable
  <2> QED
    BY <1>1, <2>1
<1>9. Exact' = Exact
  BY <1>1 DEF Exact
<1>10. ASSUME ~damaged, Exact PROVE FirstDelivered' /\ NextFinishes'
  <2>1. k \in 1..Len(mail) /\ mail[k] \in Texts /\ Len(mail[k]) \in Nat /\ x \in Seq(Bits)
    BY <1>1, <1>5, <1>10, BlockDecodes
  <2>2. FirstDelivered /\ dec.size = Len(mail[k]) /\ Finishes(dec, x, mail[k])
    BY <1>4, <1>10 DEF Faithful, NextFinishes
  <2>3. \A j \in 1..Len(messages) : j \in 1..Len(mail) /\ messages[j] = mail[j]
    BY <2>2 DEF FirstDelivered
  <2> HIDE DEF x
  <2>4. Finishes(next, x, mail[k])
    BY <1>1, <2>2, FinishesNext
  <2>5. Decoder(next) /\ next.size = dec.size
    BY <1>1, <1>3, <2>1, DecompressNextTyped
  <2> HIDE DEF next
  <2>6. ~(Len(next.out) < Len(mail[k])) => next.out = mail[k]
    <3> DEFINE t == mail[k]
    <3>1. Finishes(next, x, t)
      BY <2>4
    <3> HIDE DEF t
    <3>2. ~(Len(next.out) < Len(t)) => next.out = t
      BY <3>1, FinishesNext
    <3> QED
      BY <3>2 DEF t
  <2>7. CASE over
    <3>1. messages' = Append(messages, next.out) /\ dec' = [next EXCEPT !.size = 0]
      BY <1>2, <2>7
    <3>2. dec'.size = 0
      BY <2>5, <3>1 DEF Decoder
    <3>3. next.out = mail[k]
      <4> DEFINE a == Len(next.out)
                 b == Len(mail[k])
      <4>1. a \in Nat /\ b \in Nat /\ a >= b
        BY <2>1, <2>2, <2>5, <2>7 DEF Decoder, Texts
      <4> HIDE DEF a, b
      <4>2. ~(a < b)
        BY <4>1
      <4> QED
        BY <2>6, <4>2 DEF a, b
    <3> DEFINE o == next.out
    <3> HIDE DEF o
    <3>4. messages' = Append(messages, o) /\ o = mail[k]
      BY <3>1, <3>3 DEF o
    <3>5. \A j \in 1..Len(messages') : j \in 1..Len(mail) /\ messages'[j] = mail[j]
      BY <1>3, <2>1, <2>3, <3>4, DeliveredMore
    <3> QED
      BY <1>1, <3>2, <3>5 DEF FirstDelivered, NextFinishes
  <2>8. CASE ~over
    <3>1. messages' = messages /\ dec' = next
      BY <1>2, <2>8
    <3>2. NextFinishes'
      BY <1>1, <2>2, <2>4, <2>5, <3>1 DEF NextFinishes, x
    <3>3. FirstDelivered'
      BY <1>1, <2>3, <3>1 DEF FirstDelivered
    <3> QED
      BY <3>2, <3>3
  <2> QED
    BY <2>7, <2>8
<1> QED
  BY <1>1, <1>7, <1>8, <1>9, <1>10 DEF Faithful

LEMMA FaithfulStep ==
  ASSUME Faithful, [Next]_vars
  PROVE  Faithful'
<1>1. Intact'
  BY IntactStep DEF Faithful
<1>2. CASE Compress
  BY <1>1, <1>2, FaithfulCompress
<1>3. CASE Prepare
  BY <1>1, <1>3, FaithfulPrepare
<1>4. CASE Send
  <2>1. phase = "compress" /\ phase' = "arrive"
        /\ UNCHANGED <<mail, prepared, enc, damaged, blocks, dec, messages>>
    BY <1>4 DEF Send, sending, receiving
  <2>2. messages = <<>>
    BY <2>1 DEF Faithful
  <2> QED
    BY <1>1, <2>1, <2>2, FaithfulKept
<1>5. CASE Damage
  <2>1. phase = "arrive" /\ damaged' = TRUE
        /\ UNCHANGED <<phase, mail, prepared, enc, blocks, dec, messages>>
    BY <1>5 DEF Damage, sending, receiving
  <2>2. messages = <<>>
    BY <2>1 DEF Faithful
  <2> QED
    BY <1>1, <2>1, <2>2, FaithfulKept
<1>6. CASE Arrive
  BY <1>1, <1>6, FaithfulArrive
<1>7. CASE TimeOut
  <2>1. phase = "arrive" /\ phase' = "unpack"
        /\ UNCHANGED <<mail, prepared, enc, damaged, blocks, dec, messages>>
    BY <1>7 DEF TimeOut, sending, link, receiving
  <2> QED
    BY <1>1, <2>1, FaithfulKept
<1>8. CASE Open
  BY <1>1, <1>8, FaithfulOpen
<1>9. CASE Decompress
  BY <1>1, <1>9, FaithfulDecompress
<1>10. CASE Return
  <2>1. Len(messages) = Len(blocks) /\ phase' = "done"
        /\ UNCHANGED <<mail, prepared, enc, damaged, blocks, dec, messages>>
    BY <1>10 DEF Return, sending, link, receiving
  <2> QED
    BY <1>1, <2>1, FaithfulKept
<1>11. CASE UNCHANGED vars
  <2>1. UNCHANGED <<phase, mail, prepared, enc, damaged, blocks, dec, messages>>
    BY <1>11 DEF vars, sending, link, receiving
  <2>2. /\ phase' \in {"compress", "arrive"} => messages = <<>>
        /\ phase' = "done" => Len(messages) = Len(blocks)
    BY <2>1 DEF Faithful
  <2> QED
    BY <1>1, <2>1, <2>2, FaithfulKept
<1> QED
  BY <1>2, <1>3, <1>4, <1>5, <1>6, <1>7, <1>8, <1>9, <1>10, <1>11 DEF Next

LEMMA FaithfulDelivers ==
  ASSUME Faithful, ~damaged
  PROVE  MailIsDelivered
<1> SUFFICES ASSUME phase = "done", Exact
             PROVE  IsPrefix(messages, mail) /\ (heard = Len(wire) => messages = mail)
  BY DEF MailIsDelivered
<1> DEFINE n == Len(messages)
           m == Len(mail)
<1>1. \A k \in 1..n : k \in 1..m /\ messages[k] = mail[k]
  BY DEF Faithful, FirstDelivered
<1>2. messages \in Seq(Texts) /\ mail \in Seq(Texts) /\ n \in Nat /\ m \in Nat
  BY MailIs DEF Faithful, Intact, Typed
<1> HIDE DEF n, m
<1>3. n <= m
  BY <1>1, <1>2
<1>4. IsPrefix(messages, mail)
  <2> DEFINE a == SubSeq(messages, 1, n)
             b == SubSeq(mail, 1, n)
  <2>1. a \in Seq(Texts) /\ Len(a) = n /\ \A k \in 1..n : a[k] = messages[k]
    BY <1>2, SubSeqProperties DEF n
  <2>2. b \in Seq(Texts) /\ Len(b) = n /\ \A k \in 1..n : b[k] = mail[k]
    BY <1>2, <1>3, SubSeqProperties DEF m
  <2> HIDE DEF a, b
  <2>3. a = b
    BY <1>1, <1>2, <2>1, <2>2, SeqEqual
  <2> QED
    BY <1>3, <2>3 DEF IsPrefix, a, b, n, m
<1>5. ASSUME heard = Len(wire) PROVE messages = mail
  <2>1. PICK j \in 0..Len(prepared) : blocks = FirstOf(prepared, j) /\ j = Len(prepared)
    BY <1>5 DEF Faithful, Intact, BlocksAreSent
  <2>2. Len(prepared) = m /\ n = Len(blocks)
    BY DEF Faithful, Intact, m, n
  <2>3. Len(blocks) = m
    <3>1. blocks = FirstOf(prepared, m)
      BY <2>1, <2>2
    <3> QED
      BY <1>2, <3>1 DEF FirstOf
  <2> QED
    BY <1>1, <1>2, <2>2, <2>3, SeqEqual DEF n, m
<1> QED
  BY <1>4, <1>5

\* decompress() is the inverse of compress(), and what is sent is what is returned:
\* what a link delivers that damages nothing is the mail, or the first texts of it
\* when the poll times out, as long as no code is longer than the register it is
\* collected in.  For every text, window, look-ahead, chunk size and title.
THEOREM UndamagedMailIsDelivered == Spec => [](~damaged => MailIsDelivered)
<1>1. Spec => []Faithful
  BY FaithfulStart, FaithfulStep, PTL DEF Spec
<1>2. Faithful => (~damaged => MailIsDelivered)
  BY FaithfulDelivers
<1> QED
  BY <1>1, <1>2, PTL

(***************************************************************************)
(* The longest match.                                                      *)
(***************************************************************************)
\* Up to where what comes next and the string k back are alike.
Reaches(c, n, t, r, k) ==
  /\ c \in 0..n
  /\ \A i \in Nat : i < c => t[(r + i) % N] = t[(r + i - k) % N]
  /\ c < n => t[(r + c) % N] # t[(r + c - k) % N]

LEMMA CommonBackIs ==
  ASSUME NEW k, enc.length \in Nat
  PROVE  Reaches(CommonBack(k), enc.length, enc.dict.text, enc.r, k)
<1> DEFINE n == enc.length
           t == enc.dict.text
           r == enc.r
           A == {i \in 0..n - 1 : t[(r + i) % N] # t[(r + i - k) % N]}
           S == {n} \cup A
           m == Min(S)
<1>1. n \in Nat
  OBVIOUS
<1>2. S \in SUBSET Nat /\ S # {} /\ \A i \in S : i \in 0..n
  BY <1>1
<1>3. \A i \in Nat : i < n => (i \in S <=> t[(r + i) % N] # t[(r + i - k) % N])
  BY <1>1
<1>4. CommonBack(k) = m
  BY DEF CommonBack
<1> HIDE DEF S, t, r, n
<1>5. m \in S /\ \A i \in S : m <= i
  BY <1>2, MinMember
<1> HIDE DEF m
<1>6. m \in 0..n
  BY <1>2, <1>5
<1>7. ASSUME NEW i \in Nat, i < m PROVE t[(r + i) % N] = t[(r + i - k) % N]
  <2>1. i < n /\ ~(m <= i)
    BY <1>1, <1>6, <1>7
  <2>2. i \notin S
    BY <1>5, <2>1
  <2> QED
    BY <1>3, <2>1, <2>2
<1>8. m < n => t[(r + m) % N] # t[(r + m - k) % N]
  BY <1>1, <1>3, <1>5, <1>6
<1>9. Reaches(m, n, t, r, k)
  BY <1>6, <1>7, <1>8 DEF Reaches
<1> QED
  BY <1>4, <1>9 DEF n, t, r

\* The window at the string to be coded next, and k symbols back from there.
LEMMA WindowBack ==
  ASSUME NEW t, NEW data, NEW p \in Nat, NEW h \in Nat, h = p + (N - F), NEW n \in Nat,
         Rolled(t, data, p, h + n), NEW k \in Nat, 1 <= k, k <= N - F, NEW r, r = Ring(h),
         NEW i \in Nat, i < n
  PROVE  /\ t[(r + i) % N] = Stream(data, h + i)
         /\ t[(r + i - k) % N] = Stream(data, (h - k) + i)
         /\ (h + i) - k = (h - k) + i
<1>1. N \in Nat /\ F \in Nat /\ F < N
  BY Widths
<1>2. r \in Int
  BY RingIs
<1> DEFINE a == h + i
           b == (h - k) + i
           v == i - k
<1>3. a \in Nat /\ b \in Nat /\ p <= a /\ a < h + n /\ p <= b /\ b < h + n /\ v \in Int
      /\ r + i - k = r + v /\ b = h + v /\ (h + i) - k = b
  BY <1>1, <1>2
<1>4. (r + i) % N = Ring(a)
  BY <1>1, RingSum
<1>5. (r + i - k) % N = Ring(b)
  <2> HIDE DEF v, b
  <2>1. (Ring(h) + v) % N = Ring(h + v)
    BY <1>3, RingSum
  <2> QED
    BY <1>3, <2>1
<1> HIDE DEF a, b, v
<1>6. t[Ring(a)] = Stream(data, a) /\ t[Ring(b)] = Stream(data, b)
  BY <1>3 DEF Rolled
<1> QED
  BY <1>3, <1>4, <1>5, <1>6 DEF a, b

LEMMA BackIsFound ==
  ASSUME NEW data \in Texts, Windowed(enc, data), enc.length > 0,
         NEW k \in 1..Min({enc.read - enc.length + F, N - F}), ~SpacesBeforeText(k),
         CommonBack(k) > THRESHOLD
  PROVE  CommonBack(k) <= enc.dict.match_length
<1> DEFINE p == Gone(enc)
           h == Ahead(enc)
           n == enc.length
           t == enc.dict.text
           r == enc.r
           c == CommonBack(k)
           j == h - k
<1>1. /\ n \in Nat /\ n <= F /\ p \in Nat /\ h \in Nat /\ h = p + (N - F) /\ enc.read - enc.length = p
  BY WindowNumbers
<1>2. /\ r = Ring(h) /\ Rolled(t, data, p, h + n) /\ Longest(enc.dict, data, p, h, n)
  BY DEF Windowed
<1>3. N \in Nat /\ F \in Nat /\ F < N /\ F > 0 /\ THRESHOLD \in Nat
  BY Widths
<1>4. k \in Nat /\ 1 <= k /\ k <= N - F /\ k <= p + F
  <2>1. p + F \in Nat /\ N - F \in Nat
    BY <1>1, <1>3
  <2>2. Min({p + F, N - F}) \in Nat /\ Min({p + F, N - F}) = IF p + F <= N - F THEN p + F ELSE N - F
    BY <2>1, Lesser
  <2>3. k \in 1..Min({p + F, N - F})
    BY <1>1
  <2> DEFINE m == Min({p + F, N - F})
  <2>4. m \in Nat /\ m = (IF p + F <= N - F THEN p + F ELSE N - F) /\ k \in 1..m
    BY <2>2, <2>3
  <2> HIDE DEF m, p
  <2> QED
    BY <2>1, <2>4
<1>5. Reaches(c, n, t, r, k)
  BY <1>1, CommonBackIs
<1>6. ~(k > p /\ \A i \in 0..F - 1 : t[(r + i - k) % N] = Space)
  BY <1>1 DEF SpacesBeforeText
<1> HIDE DEF p, h, n, t, r, c
<1>7. j \in Nat /\ p <= j /\ N - 2 * F <= j /\ j < h /\ (j < N - F => k > p)
  BY <1>1, <1>3, <1>4
<1>8. c \in Nat /\ c <= n /\ \A i \in Nat : i < c => t[(r + i) % N] = t[(r + i - k) % N]
  BY <1>1, <1>5 DEF Reaches
<1>9. ASSUME NEW i \in Nat, i < c PROVE Stream(data, h + i) = Stream(data, j + i)
  <2>1. i < n
    BY <1>1, <1>8, <1>9
  <2>2. t[(r + i) % N] = Stream(data, h + i) /\ t[(r + i - k) % N] = Stream(data, j + i)
    BY <1>1, <1>2, <1>4, <2>1, WindowBack
  <2> QED
    BY <1>8, <1>9, <2>2
<1>10. ~Spacy(t, j)
  <2> SUFFICES ASSUME Spacy(t, j) PROVE FALSE
    OBVIOUS
  <2>1. j < N - F /\ \A i \in 0..F - 1 : t[j + i] = Space
    BY DEF Spacy
  <2>2. ASSUME NEW i \in 0..F - 1 PROVE t[(r + i - k) % N] = Space
    <3> DEFINE v == i - k
               b == j + i
    <3>1. v \in Int /\ r + i - k = r + v /\ h + v = b /\ b \in Nat /\ b < N
      <4>1. r \in Int
        BY <1>2, RingIs, <1>1
      <4> QED
        BY <1>1, <1>3, <1>4, <1>7, <2>1, <4>1
    <3> HIDE DEF v, b
    <3>2. (Ring(h) + v) % N = Ring(h + v)
      BY <1>1, <3>1, RingSum
    <3>3. Ring(b) = b
      BY <3>1, RingSmall
    <3>4. t[b] = Space
      BY <2>1 DEF b
    <3> QED
      BY <1>2, <3>1, <3>2, <3>3, <3>4
  <2> QED
    BY <1>6, <1>7, <2>1, <2>2
<1> HIDE DEF j
<1>11. c > THRESHOLD
  BY DEF c
<1>12. ~Spacy(enc.dict.text, j)
  BY <1>10 DEF t
<1>13. c <= enc.dict.match_length
  BY <1>2, <1>7, <1>8, <1>9, <1>11, <1>12 DEF Longest
<1> QED
  BY <1>13 DEF c

LEMMA FoundIsBack ==
  ASSUME NEW data \in Texts, Windowed(enc, data), enc.length > 0,
         NEW found \in Nat, found <= enc.dict.match_length, found <= enc.length, found > THRESHOLD
  PROVE  CommonBack(enc.dict.match_position + 1) >= found
<1> DEFINE p == Gone(enc)
           h == Ahead(enc)
           n == enc.length
           t == enc.dict.text
           r == enc.r
           l == enc.dict.match_length
<1>1. n \in Nat /\ n <= F /\ p \in Nat /\ h \in Nat /\ h = p + (N - F)
  BY WindowNumbers
<1>2. /\ r = Ring(h) /\ Rolled(t, data, p, h + n) /\ RealMatch(enc.dict, data, h, n)
  BY DEF Windowed
<1>3. l \in Nat /\ THRESHOLD \in Nat
  BY Widths DEF Windowed, Encoder, DictSet
<1>4. l > THRESHOLD
  BY <1>3
<1>5. PICK k \in Nat : /\ 1 <= k /\ k <= N - F /\ k <= h /\ enc.dict.match_position = k - 1
                       /\ \A i \in Nat : i < l /\ i < n => Stream(data, h + i) = Stream(data, (h + i) - k)
  BY <1>2, <1>4 DEF RealMatch
<1>6. enc.dict.match_position + 1 = k
  BY <1>5
<1> DEFINE c == CommonBack(k)
<1>7. Reaches(c, n, t, r, k)
  BY <1>1, CommonBackIs
<1>8. found <= l /\ found <= n
  OBVIOUS
<1> HIDE DEF p, h, n, t, r, c, l
<1>9. SUFFICES ASSUME ~(c >= found) PROVE FALSE
  BY <1>6 DEF c
<1>10. c \in Nat /\ c < n /\ c < l /\ t[(r + c) % N] # t[(r + c - k) % N]
  BY <1>1, <1>3, <1>7, <1>8, <1>9 DEF Reaches
<1>11. t[(r + c) % N] = Stream(data, h + c) /\ t[(r + c - k) % N] = Stream(data, (h - k) + c)
       /\ (h + c) - k = (h - k) + c
  <2>1. 1 <= k /\ k <= N - F /\ c \in Nat /\ c < n
    BY <1>5, <1>10
  <2>2. n \in Nat /\ p \in Nat /\ h \in Nat /\ h = p + (N - F) /\ r = Ring(h) /\ Rolled(t, data, p, h + n)
    BY <1>1, <1>2
  <2> QED
    BY <2>1, <2>2, WindowBack
<1>12. Stream(data, h + c) = Stream(data, (h + c) - k)
  BY <1>5, <1>10
<1> QED
  BY <1>10, <1>11, <1>12

LEMMA WindowedLongest ==
  ASSUME NEW data \in Texts, Windowed(enc, data)
  PROVE  MatchIsLongest
<1> DEFINE n == enc.length
           l == enc.dict.match_length
           found == Min({l, n})
           back == {k \in 1..Min({enc.read - enc.length + F, N - F}) : ~SpacesBeforeText(k)}
           lengths == {0} \cup {CommonBack(k) : k \in back}
           best == Max(lengths)
<1>1. SUFFICES ASSUME n > 0
      PROVE  /\ best > THRESHOLD => found >= best
             /\ found > THRESHOLD => CommonBack(enc.dict.match_position + 1) >= found
  BY DEF MatchIsLongest
<1>2. n \in Nat
  BY WindowNumbers
<1>3. l \in Nat /\ THRESHOLD \in Nat
  BY Widths DEF Windowed, Encoder, DictSet
<1>4. found \in Nat /\ found = IF l <= n THEN l ELSE n
  BY <1>2, <1>3, Lesser
<1>5. \A k \in back : CommonBack(k) \in 0..n /\ (CommonBack(k) > THRESHOLD => CommonBack(k) <= l)
  <2> SUFFICES ASSUME NEW k \in back
               PROVE  CommonBack(k) \in 0..n /\ (CommonBack(k) > THRESHOLD => CommonBack(k) <= l)
    OBVIOUS
  <2>1. Reaches(CommonBack(k), n, enc.dict.text, enc.r, k)
    BY <1>2, CommonBackIs
  <2>2. CommonBack(k) > THRESHOLD => CommonBack(k) <= l
    BY <1>1, BackIsFound
  <2> QED
    BY <2>1, <2>2 DEF Reaches
<1> HIDE DEF back, n, l, found
<1>6. lengths \in SUBSET (0..n) /\ lengths # {}
  BY <1>2, <1>5
<1>7. best \in lengths
  <2> HIDE DEF lengths
  <2> QED
    BY <1>2, <1>6, MaxMember
<1>8. best > THRESHOLD => found >= best
  <2> SUFFICES ASSUME best > THRESHOLD PROVE found >= best
    OBVIOUS
  <2>1. best # 0
    <3> HIDE DEF best
    <3> QED
      BY <1>3
  <2>2. PICK k \in back : best = CommonBack(k)
    <3>1. best \in {CommonBack(k) : k \in back}
      BY <1>7, <2>1
    <3> HIDE DEF best
    <3> QED
      BY <3>1
  <2> HIDE DEF best
  <2> QED
    BY <1>2, <1>3, <1>4, <1>5, <2>2
<1>9. found > THRESHOLD => CommonBack(enc.dict.match_position + 1) >= found
  <2> SUFFICES ASSUME found > THRESHOLD PROVE CommonBack(enc.dict.match_position + 1) >= found
    OBVIOUS
  <2>1. found <= enc.dict.match_length /\ found <= enc.length /\ enc.length > 0
    BY <1>1, <1>2, <1>3, <1>4 DEF l, n
  <2> QED
    BY <1>4, <2>1, FoundIsBack
<1> QED
  BY <1>8, <1>9

\* There is something left to be coded only while the texts are compressed.
Coding == Faithful /\ (enc.length > 0 => phase = "compress" /\ Len(prepared) < Len(mail))

LEMMA CodingStep ==
  ASSUME Coding, [Next]_vars
  PROVE  Coding'
<1>1. Faithful /\ (enc.length > 0 => phase = "compress" /\ Len(prepared) < Len(mail))
  BY DEF Coding
<1>2. Faithful'
  BY <1>1, FaithfulStep
<1>3. CASE Compress
  <2>1. phase = "compress" /\ Len(prepared) < Len(mail) /\ UNCHANGED <<phase, mail, prepared>>
    BY <1>3 DEF Compress
  <2> QED
    BY <1>2, <2>1 DEF Coding
<1>4. CASE Prepare
  <2>1. /\ phase = "compress" /\ phase' = phase /\ enc.length = 0 /\ mail' = mail
        /\ ~(Len(prepared') < Len(mail)) => enc' = enc
    BY <1>4 DEF Prepare
  <2> QED
    BY <1>2, <2>1 DEF Coding
<1>5. CASE Send
  <2>1. Len(prepared) = Len(mail) /\ enc' = enc /\ Len(mail) \in Nat
    BY <1>1, <1>5, MailIs DEF Send, sending, Faithful, Intact, Typed
  <2> QED
    BY <1>1, <1>2, <2>1 DEF Coding
<1>6. CASE ~(enc.length > 0) /\ enc' = enc
  BY <1>2, <1>6 DEF Coding
<1>7. CASE Damage \/ Arrive \/ TimeOut \/ Open \/ Decompress \/ Return
  <2>1. phase # "compress" /\ enc' = enc
    BY <1>7 DEF Damage, Arrive, TimeOut, Open, Decompress, Return, sending
  <2> QED
    BY <1>1, <1>6, <2>1
<1>8. CASE UNCHANGED vars
  BY <1>1, <1>2, <1>8 DEF Coding, vars, sending
<1> QED
  BY <1>3, <1>4, <1>5, <1>7, <1>8 DEF Next

\* The search trees find what a look at the whole window would: as long as there is
\* something left to be coded, no string of the window has more in common with what
\* comes next than insert_node() says, and that much is at the place it names.  For
\* every text, window and look-ahead.
THEOREM MatchesAreLongest == Spec => []MatchIsLongest
<1>1. Init => Coding
  <2>1. Init => phase = "compress" /\ prepared = <<>> /\ mail \in Mails
    BY DEF Init
  <2>2. Init => Len(mail) \in Nat /\ Len(mail) > 0
    BY <2>1, MailIs
  <2>3. Init => Len(prepared) = 0
    BY <2>1
  <2> QED
    BY <2>1, <2>2, <2>3, FaithfulStart DEF Coding
<1>2. Coding /\ [Next]_vars => Coding'
  BY CodingStep
<1>3. Coding => MatchIsLongest
  <2>1. CASE enc.length > 0
    <3> SUFFICES ASSUME Coding PROVE MatchIsLongest
      OBVIOUS
    <3>1. Windowed(enc, Current) /\ Current \in Texts
      BY <2>1, CurrentIs DEF Coding, Faithful, Followed
    <3> QED
      BY <3>1, WindowedLongest
  <2>2. CASE ~(enc.length > 0)
    BY <2>2 DEF MatchIsLongest
  <2> QED
    BY <2>1, <2>2
<1> QED
  BY <1>1, <1>2, <1>3, PTL DEF Spec
=============================================================================
