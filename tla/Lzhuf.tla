-------------------------------- MODULE Lzhuf --------------------------------
(***************************************************************************)
(* lzhuf.py: the codec of Winlink's message bodies.  compress() looks each *)
(* next piece of the text up in a sliding window (_Tree's binary search    *)
(* trees) and writes it as a literal or as a match with a position; both   *)
(* are symbols of an adaptive Huffman code (_Tree's freq, son and prnt).   *)
(* decompress() rebuilds the same code from the symbols it has decoded.    *)
(*                                                                         *)
(* Each operator is a function or a loop of the file; trees and            *)
(* dictionaries are records of its arrays.  The output is a sequence of    *)
(* bits: _BitWriter and _BitReader only pack it into bytes (B2Framing).     *)
(***************************************************************************)
EXTENDS Integers, Sequences, SequencesExt, FiniteSetsExt, Subsequence

CONSTANTS
  LITERALS,    \* literal symbols (the code: 256, the byte values)
  N,           \* size of the window (2048)
  F,           \* size of the look-ahead (60)
  THRESHOLD,   \* a match is longer than this (2)
  MAX_FREQ,    \* the root's frequency at which the tree is rebuilt (0x8000)
  CODE_BITS,   \* width of the register a code is collected in (16)
  Space        \* the literal that fills the window at first (0x20)

ASSUME LzhufAssumption ==
  /\ {LITERALS, F, THRESHOLD, MAX_FREQ, CODE_BITS} \subseteq Nat
  /\ \E k \in 1..12 : N = 2^k
  /\ THRESHOLD < F /\ 2 * F <= N
  /\ Space \in 0..LITERALS - 1
  /\ 2 * (LITERALS - THRESHOLD + F) <= MAX_FREQ

NIL == N
NCHAR == LITERALS - THRESHOLD + F
T == 2 * NCHAR - 1       \* number of nodes of the Huffman tree
R == T - 1               \* its root
MatchSymbol(length) == LITERALS - 1 - THRESHOLD + length

-----------------------------------------------------------------------------
(***************************************************************************)
(* The adaptive Huffman tree.  Nodes 0..R are in order of frequency; the   *)
(* children of an inner node i are son[i] and son[i] + 1, and a leaf of    *)
(* symbol c has son c + T.                                                 *)
(***************************************************************************)
StartHuff ==
  LET freq[i \in 0..T] ==
        CASE i < NCHAR -> 1
          [] i = T     -> 2 * MAX_FREQ - 1
          [] OTHER     -> freq[2 * (i - NCHAR)] + freq[2 * (i - NCHAR) + 1]
  IN  [freq |-> freq,
       son  |-> [i \in 0..R |-> IF i < NCHAR THEN i + T ELSE 2 * (i - NCHAR)],
       prnt |-> [k \in 0..T + NCHAR - 1 |->
                   CASE k >= T -> k - T
                     [] k = R  -> 0
                     [] OTHER  -> NCHAR + k \div 2]]

\* What hangs below a node whose son is k: a symbol, or two nodes.
Children(k) == IF k < T THEN {k, k + 1} ELSE {k}

\* Mutant: of two children that change places only the first learns it.
Swapped_FirstOnly(t, c, n) ==
  LET i == t.son[c]
      j == t.son[n]
  IN  [t EXCEPT !.son = [t.son EXCEPT ![c] = j, ![n] = i],
                !.prnt = [t.prnt EXCEPT ![i] = n, ![j] = c]]

\* Nodes c and n exchange what hangs below them.
Swapped(t, c, n) ==
  LET i == t.son[c]
      j == t.son[n]
  IN  [t EXCEPT !.son = [t.son EXCEPT ![c] = j, ![n] = i],
                !.prnt = [k \in DOMAIN t.prnt |->
                            CASE k \in Children(i) -> n
                              [] k \in Children(j) -> c
                              [] OTHER             -> t.prnt[k]]]

\* The last node that a node c of frequency k has overtaken.
Overtaken(t, c, k) ==
  CHOOSE n \in c..R : t.freq[n + 1] >= k /\ \A m \in c + 1..n : t.freq[m] < k

\* One turn of update()'s loop: one more of node c, which then changes places with
\* the last node that it has overtaken; and the node above, whose turn is next.
Raised(t, c) ==
  LET k == t.freq[c] + 1
      n == Overtaken(t, c, k)
      w == IF n = c THEN t ELSE Swapped(t, c, n)
      u == [w EXCEPT !.freq = [t.freq EXCEPT ![c] = t.freq[n], ![n] = k]]
  IN  [tree |-> u, node |-> u.prnt[n]]

\* The loop, from node c up to the root, above which is 0.
Climb(t, c) ==
  LET Above(v) == IF v.node = 0 THEN v ELSE Raised(v.tree, v.node)
      turn[k \in 1..T] == IF k = 1 THEN Raised(t, c) ELSE Above(turn[k - 1])
  IN  turn[T].tree

\* The nodes with one more, of children i and i + 1, before the first node that is
\* more frequent.
WithInner(nodes, i) ==
  LET f == nodes[i + 1].freq + nodes[i + 2].freq
      k == Max({m \in 1..Len(nodes) : nodes[m].freq <= f})
  IN  InsertAt(nodes, k + 1, [freq |-> f, son |-> i])

\* reconst(): halve the frequencies of the leaves, and build the inner nodes anew.
Reconst(t) ==
  LET halved == [i \in 1..T |-> [freq |-> (t.freq[i - 1] + 1) \div 2, son |-> t.son[i - 1]]]
      built[j \in 0..NCHAR - 1] ==
        IF j = 0 THEN Pick(halved, {i \in 1..T : t.son[i - 1] >= T})
        ELSE WithInner(built[j - 1], 2 * (j - 1))
      nodes == built[NCHAR - 1]
  IN  [freq |-> [i \in 0..T |-> IF i = T THEN t.freq[T] ELSE nodes[i + 1].freq],
       son  |-> [i \in 0..R |-> nodes[i + 1].son],
       prnt |-> [k \in DOMAIN t.prnt |->
                   IF k = R THEN t.prnt[R]
                   ELSE CHOOSE i \in 0..R : k \in Children(nodes[i + 1].son)]]

\* update(): the tree after one more occurrence of symbol c.
Update(t, c) ==
  LET u == IF t.freq[R] = MAX_FREQ THEN Reconst(t) ELSE t
  IN  Climb(u, u.prnt[c + T])

\* The path from the root down to the leaf of a symbol, in which odd nodes are ones.
CodeOf(t, c) ==
  LET path[k \in 0..R] == IF k = R THEN <<>> ELSE Append(path[t.prnt[k]], k % 2)
  IN  path[t.prnt[c + T]]

\* _encode_char(): the path's bits are shifted into a register from the left,
\* so that what does not fit is lost at the end next to the leaf.
EncodeChar(t, c) ==
  [i \in DOMAIN CodeOf(t, c) |-> IF i <= CODE_BITS THEN CodeOf(t, c)[i] ELSE 0]

-----------------------------------------------------------------------------
(***************************************************************************)
(* Bits and positions.                                                     *)
(***************************************************************************)
BitsOf(x, width) == [k \in 1..width |-> (x \div 2^(width - k)) % 2]
NumberOf(bits) ==
  LET value[k \in 0..Len(bits)] == IF k = 0 THEN 0 ELSE 2 * value[k - 1] + bits[k]
  IN  value[Len(bits)]

\* Past its end a _BitReader goes on with zeros.
Bit(bits, i) == IF i <= Len(bits) THEN bits[i] ELSE 0
BitsAt(bits, i, width) == [k \in 1..width |-> Bit(bits, i + k - 1)]

\* What the tables below can express.
Positions == 0..4095

\* The tables for the upper six bits of a position: runs of codes of one length.
P_LEN(i) ==
  CASE i = 0 -> 3 [] i \in 1..3 -> 4 [] i \in 4..11 -> 5
    [] i \in 12..23 -> 6 [] i \in 24..47 -> 7 [] OTHER -> 8
P_CODE(i) ==
  CASE i = 0 -> 0 [] i \in 1..3 -> 16 + 16 * i [] i \in 4..11 -> 48 + 8 * i
    [] i \in 12..23 -> 96 + 4 * i [] i \in 24..47 -> 144 + 2 * i
    [] OTHER -> 192 + i
D_LEN(b) ==
  CASE b < 32 -> 3 [] b \in 32..79 -> 4 [] b \in 80..143 -> 5
    [] b \in 144..191 -> 6 [] b \in 192..239 -> 7 [] OTHER -> 8
D_CODE(b) ==
  CASE b < 32 -> 0 [] b \in 32..79 -> (b - 16) \div 16
    [] b \in 80..143 -> (b - 48) \div 8 [] b \in 144..191 -> (b - 96) \div 4
    [] b \in 192..239 -> (b - 144) \div 2 [] OTHER -> b - 192

EncodePosition(c) ==
  BitsOf(P_CODE(c \div 64) \div 2^(8 - P_LEN(c \div 64)), P_LEN(c \div 64))
    \o BitsOf(c % 64, 6)

\* Mutant: one bit too few is read after a position's first byte.
PositionTail_Short(b) == D_LEN(b) - 3

\* How many bits of a position follow its first byte.
PositionTail(b) == D_LEN(b) - 2

\* _decode_position(): the position, and how many bits it took.
DecodePosition(bits, i) ==
  LET b    == NumberOf(BitsAt(bits, i, 8))
      more == PositionTail(b)
  IN  [value |-> 64 * D_CODE(b) + (NumberOf(BitsAt(bits, i, 8 + more)) % 64),
       width |-> 8 + more]

\* _decode_char(): down from the root, one bit a node, to the symbol of a leaf; and
\* where the next bit is.
DecodeChar(t, bits, i) ==
  LET Below(v) == IF v.node >= T THEN v
                  ELSE [node |-> t.son[v.node + Bit(bits, v.next)], next |-> v.next + 1]
      turn[k \in 0..T] == IF k = 0 THEN [node |-> t.son[R], next |-> i] ELSE Below(turn[k - 1])
  IN  [symbol |-> turn[T].node - T, next |-> turn[T].next]

-----------------------------------------------------------------------------
(***************************************************************************)
(* The sliding window.  text holds the last N symbols, and its first F - 1 *)
(* again at its end; under each of the roots N + 1 + c the positions whose *)
(* string of F symbols begins with c are a binary search tree.             *)
(***************************************************************************)
EmptyDictionary ==
  [text |-> [i \in 0..N + F - 1 |-> IF i < N - F THEN Space ELSE 0],
   dad  |-> [i \in 0..N |-> NIL],
   lson |-> [i \in 0..N |-> NIL],
   rson |-> [i \in 0..N + LITERALS |-> NIL],
   match_length   |-> 0,
   match_position |-> 0]

\* Node q becomes the right, or the left, child of node p.
Hung(d, right, p, q) == IF right THEN [d EXCEPT !.rson[p] = q] ELSE [d EXCEPT !.lson[p] = q]

\* Node q hangs where node p did, below p's parent.
InPlaceOf(d, p, q) ==
  [Hung(d, d.rson[d.dad[p]] = p, d.dad[p], q) EXCEPT
     !.dad = [d.dad EXCEPT ![q] = d.dad[p], ![p] = NIL]]

\* How many symbols the strings at r and p have in common, F at most.
Common(d, r, p) ==
  Min({F} \cup {i \in 1..F - 1 : d.text[r + i] # d.text[p + i]})

\* A string with i symbols in common is at p: the longest match so far, and of
\* the longest ones the nearest, is remembered.
Noted(d, r, p, i) ==
  LET distance == ((r - p) % N) - 1
  IN  IF i > THRESHOLD /\ (i > d.match_length
                             \/ (i = d.match_length /\ distance < d.match_position))
      THEN [d EXCEPT !.match_length = i, !.match_position = distance]
      ELSE d

\* One turn of insert_node()'s loop, at node v.node: r becomes its child, or takes the
\* place of the child, whose string is the same, or goes on from there.
Walk(v, r) ==
  LET d == v.dict
      q == IF v.right THEN d.rson[v.node] ELSE d.lson[v.node]
      i == Common(d, r, q)
      e == Noted(d, r, q, i)
  IN  CASE v.ended -> v
        [] ~v.ended /\ q = NIL ->
             [v EXCEPT !.dict = [Hung(d, v.right, v.node, r) EXCEPT !.dad[r] = v.node],
                       !.ended = TRUE]
        [] ~v.ended /\ q # NIL /\ i = F ->
             [v EXCEPT !.dict = InPlaceOf([e EXCEPT
                         !.lson[r] = d.lson[q], !.rson[r] = d.rson[q],
                         !.dad = [d.dad EXCEPT ![d.lson[q]] = r, ![d.rson[q]] = r]], q, r),
                       !.ended = TRUE]
        [] OTHER ->
             [dict |-> e, node |-> q, right |-> d.text[r + i] >= d.text[q + i], ended |-> FALSE]

\* insert_node(): the walk meets no node twice.
InsertNode(d, r) ==
  LET turn[k \in 0..N] ==
        IF k = 0 THEN [dict  |-> [d EXCEPT !.lson[r] = NIL, !.rson[r] = NIL, !.match_length = 0],
                       node  |-> N + 1 + d.text[r],
                       right |-> TRUE,
                       ended |-> FALSE]
        ELSE Walk(turn[k - 1], r)
  IN  turn[N].dict

\* The last node to the right, from node q down.
Rightmost(d, q) ==
  LET Right(p) == IF d.rson[p] = NIL THEN p ELSE d.rson[p]
      turn[k \in 0..N] == IF k = 0 THEN q ELSE Right(turn[k - 1])
  IN  turn[N]

\* Mutant: the left subtree of the node that takes the place is forgotten.
Detached_LosesLeft(d, p, q) ==
  IF q = d.lson[p] THEN d
  ELSE [d EXCEPT !.rson[d.dad[q]] = NIL,
                 !.dad[d.lson[p]] = q, !.lson[q] = d.lson[p]]

\* Node q, the last one left of p, gives its left subtree to its parent and
\* takes over p's.
Detached(d, p, q) ==
  IF q = d.lson[p] THEN d
  ELSE [d EXCEPT !.rson[d.dad[q]] = d.lson[q],
                 !.dad = [d.dad EXCEPT ![d.lson[q]] = d.dad[q], ![d.lson[p]] = q],
                 !.lson[q] = d.lson[p]]

DeleteNode(d, p) ==
  IF d.dad[p] = NIL THEN d
  ELSE IF d.rson[p] = NIL THEN InPlaceOf(d, p, d.lson[p])
  ELSE IF d.lson[p] = NIL THEN InPlaceOf(d, p, d.rson[p])
  ELSE LET q == Rightmost(d, d.lson[p])
           e == Detached(d, p, q)
       IN  InPlaceOf([e EXCEPT !.rson[q] = d.rson[p], !.dad[d.rson[p]] = q], p, q)

-----------------------------------------------------------------------------
(***************************************************************************)
(* compress(): the locals of its loop are the record it is passed through. *)
(* read is pos, the part of the data that is in the window already.        *)
(***************************************************************************)
StartCompress(data) ==
  LET r     == N - F
      ahead == Min({F, Len(data)})
      d     == [EmptyDictionary EXCEPT !.text =
                  [i \in 0..N + F - 1 |-> IF i - r \in 0..ahead - 1 THEN data[i - r + 1]
                                          ELSE EmptyDictionary.text[i]]]
      inserted[i \in 0..F] == IF i = 0 THEN d ELSE InsertNode(inserted[i - 1], r - i)
  IN  [dict   |-> InsertNode(inserted[F], r),
       huff   |-> StartHuff,
       s      |-> 0,
       r      |-> r,
       read   |-> ahead,
       length |-> ahead,
       out    |-> <<>>,
       widest |-> 0]

\* Which positions are repeated at the end of the window.
Mirrored(s) == s < F - 1

\* One symbol leaves the window and, while there are any, one more comes in.
Slide(z, data) ==
  LET d    == DeleteNode(z.dict, z.s)
      more == z.read < Len(data)
      c    == data[z.read + 1]
      e    == IF ~more THEN d
              ELSE [d EXCEPT !.text = [i \in 0..N + F - 1 |->
                      IF i = z.s \/ (i = z.s + N /\ Mirrored(z.s)) THEN c ELSE d.text[i]]]
      next == (z.r + 1) % N
  IN  [z EXCEPT !.s = (@ + 1) % N, !.r = next,
                !.read = IF more THEN @ + 1 ELSE @,
                !.length = IF more THEN @ ELSE @ - 1,
                !.dict = IF more \/ z.length > 1 THEN InsertNode(e, next) ELSE e]

\* One turn of the loop: what the window begins with is written, and leaves it.
CompressNext(z, data) ==
  LET found  == Min({z.dict.match_length, z.length})
      size   == IF found > THRESHOLD THEN found ELSE 1
      symbol == IF found > THRESHOLD THEN MatchSymbol(found) ELSE z.dict.text[z.r]
      code   == EncodeChar(z.huff, symbol)
      tail   == IF found > THRESHOLD THEN EncodePosition(z.dict.match_position) ELSE <<>>
      y      == [z EXCEPT !.huff = Update(@, symbol),
                          !.out = @ \o code \o tail,
                          !.widest = Max({@, Len(code)})]
      slid[i \in 0..size] == IF i = 0 THEN y ELSE Slide(slid[i - 1], data)
  IN  slid[size]

-----------------------------------------------------------------------------
(***************************************************************************)
(* decompress(): the locals of its loop; at is the next bit to be read.    *)
(***************************************************************************)
StartDecompress(size) ==
  [huff |-> StartHuff,
   text |-> [i \in 0..N - 1 |-> IF i < N - F THEN Space ELSE 0],
   r    |-> N - F,
   size |-> size,
   at   |-> 1,
   out  |-> <<>>]

Emit(z, c) ==
  [z EXCEPT !.out = Append(@, c), !.text[z.r] = c, !.r = (@ + 1) % N]

\* One turn of the loop: a literal, or the copy of a piece of the window that may
\* reach into what is being copied, but not past the size of the text.
DecompressNext(z, bits) ==
  LET char == DecodeChar(z.huff, bits, z.at)
      c    == char.symbol
      pos  == DecodePosition(bits, char.next)
      y    == [z EXCEPT !.huff = Update(@, c)]
      i    == (z.r - pos.value - 1) % N
      n    == Min({c - (LITERALS - 1) + THRESHOLD, z.size - Len(z.out)})
      Copy(v, k) == Emit(v, v.text[(i + k - 1) % N])
      copied[k \in 0..n] == IF k = 0 THEN y ELSE Copy(copied[k - 1], k)
  IN  IF c < LITERALS THEN [Emit(y, c) EXCEPT !.at = char.next]
      ELSE [copied[n] EXCEPT !.at = char.next + pos.width]
=============================================================================
