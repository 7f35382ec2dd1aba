------------------------------ MODULE B2Framing ------------------------------
(***************************************************************************)
(* The bytes a compressed message travels in.  compress_b2() puts a CRC    *)
(* and a length before the codec's bits (lzhuf.py); build_b2_block() cuts  *)
(* the result into chunks between a header and a checksum, and             *)
(* parse_b2_blocks() finds whole blocks in what has been heard (both in    *)
(* winlink.py).  A byte is a number of BYTE bits, so that a chunk whose    *)
(* length does not fit in one is within reach of a small instance.         *)
(***************************************************************************)
EXTENDS Lzhuf

CONSTANTS
  BYTE,          \* bits in a byte (8)
  LENGTH_BYTES,  \* bytes of the header that holds the text's length (4)
  POLY,          \* the powers in the CRC's polynomial ({16, 12, 5, 0})
  Digits         \* the bytes that int() takes for a number

ASSUME FramingAssumption ==
  /\ {BYTE, LENGTH_BYTES} \subseteq Nat /\ BYTE > 2 /\ LENGTH_BYTES > 0
  /\ {0, 2 * BYTE} \subseteq POLY /\ POLY \subseteq 0..2 * BYTE
  /\ Digits \subseteq 1..2^BYTE - 1

NUL == 0
SOH == 1
STX == 2
EOT == 4

-----------------------------------------------------------------------------
(***************************************************************************)
(* compress_b2() and decompress_b2(), the codec itself left out.           *)
(***************************************************************************)
\* _BitWriter: the bits in bytes, the last of them filled up with zeros.
Packed(bits) ==
  [k \in 1..(Len(bits) + BYTE - 1) \div BYTE |->
     NumberOf([j \in 1..BYTE |-> LET i == BYTE * (k - 1) + j
                                 IN  IF i <= Len(bits) THEN bits[i] ELSE 0])]

\* _BitReader: the bits of the bytes.
Unpacked(bytes) == FlattenSeq([k \in DOMAIN bytes |-> BitsOf(bytes[k], BYTE)])

LittleEndian(x, n) == [k \in 1..n |-> (x \div 2^(BYTE * (k - 1))) % 2^BYTE]
FromLittleEndian(bytes) ==
  LET value[k \in 0..Len(bytes)] ==
        IF k = 0 THEN 0 ELSE value[k - 1] + bytes[k] * 2^(BYTE * (k - 1))
  IN  value[Len(bytes)]

\* _crc16(): the remainder of the bits and of two zero bytes.  _CRC16_TABLE holds
\* what a whole byte of such steps makes of the register.
\* The register is the set of its ones.
CRC(bytes) ==
  LET Shift(reg, b) ==
        LET ones == {k + 1 : k \in reg} \cup (IF b = 1 THEN {0} ELSE {})
        IN  IF 2 * BYTE \in ones THEN SymDiff(ones, POLY) ELSE ones
      rest == FoldLeft(Shift, {}, Unpacked(bytes \o <<NUL, NUL>>))
  IN  NumberOf([k \in 1..2 * BYTE |-> IF 2 * BYTE - k \in rest THEN 1 ELSE 0])

\* The message's bytes, for a text of that size and those bits.
CompressedB2(size, bits) ==
  LET body == LittleEndian(size, LENGTH_BYTES) \o Packed(bits)
  IN  LittleEndian(CRC(body), 2) \o body

Body(data) == SubSeq(data, 3, Len(data))
Size(body) == FromLittleEndian(SubSeq(body, 1, LENGTH_BYTES))
CodeBits(body) == Unpacked(SubSeq(body, LENGTH_BYTES + 1, Len(body)))

\* Mutant: the CRC is not compared.
Accepts_AnyCRC(data) == Len(data) >= 2 + LENGTH_BYTES

\* decompress_b2() raises neither ChecksumError nor LZHUFError.
Accepts(data) ==
  /\ Len(data) >= 2 + LENGTH_BYTES
  /\ FromLittleEndian(SubSeq(data, 1, 2)) = CRC(Body(data))

-----------------------------------------------------------------------------
(***************************************************************************)
(* The blocks.                                                             *)
(***************************************************************************)
Checksum(bytes) ==
  LET sum[k \in 0..Len(bytes)] == IF k = 0 THEN 0 ELSE sum[k - 1] + bytes[k]
  IN  (2^BYTE - (sum[Len(bytes)] % 2^BYTE)) % 2^BYTE

LengthByte(chunk) == IF Len(chunk) < 2^BYTE THEN Len(chunk) ELSE 0

\* build_b2_block(), with an offset of one digit.
BuildBlock(title, digit, data, chunkSize) ==
  LET header  == title \o <<NUL, digit, NUL>>
      piece(k) == SubSeq(data, chunkSize * (k - 1) + 1, Min({chunkSize * k, Len(data)}))
      chunks  == [k \in 1..(Len(data) + chunkSize - 1) \div chunkSize |->
                    <<STX, LengthByte(piece(k))>> \o piece(k)]
  IN  <<SOH, Len(header)>> \o header \o FlattenSeq(chunks) \o <<EOT, Checksum(data)>>

\* Mutant: a length of zero is an empty chunk.
ChunkLength_Zero(b) == b

ChunkLength(b) == IF b = 0 THEN 2^BYTE ELSE b

Waiting == [state |-> "waiting", next |-> 0, payload |-> <<>>]
Broken  == [state |-> "broken", next |-> 0, payload |-> <<>>]

\* The chunk, or the checksum, at byte v.next.
ParseChunk(data, v) ==
  LET i      == v.next
      length == ChunkLength(data[i + 1])
      last   == i + 1 + length
  IN  IF v.state # "chunks" THEN v
      ELSE IF i > Len(data) THEN Waiting
      ELSE IF data[i] \notin {STX, EOT} THEN Broken
      ELSE IF i + 1 > Len(data) THEN Waiting
      ELSE IF data[i] = EOT
      THEN IF data[i + 1] = Checksum(v.payload)
           THEN [state |-> "whole", next |-> i + 2, payload |-> v.payload]
           ELSE Broken
      ELSE IF last <= Len(data)
      THEN [v EXCEPT !.next = last + 1, !.payload = @ \o SubSeq(data, i + 2, last)]
      ELSE Waiting

\* The chunks from byte i on, and the checksum after them.
ParseChunks(data, i) ==
  LET turn[k \in 0..Len(data)] ==
        IF k = 0 THEN [state |-> "chunks", next |-> i, payload |-> <<>>]
        ELSE ParseChunk(data, turn[k - 1])
  IN  turn[Len(data)]

\* header_bytes.split(NUL), and int() of the second part.
IsHeader(header) ==
  LET zeros  == {k \in DOMAIN header : header[k] = NUL}
      from   == Min(zeros) + 1
      to     == Min({Len(header) + 1} \cup {k \in zeros : k >= from}) - 1
  IN  zeros # {} /\ from <= to /\ \A k \in from..to : header[k] \in Digits

\* One block from byte i on.
ParseBlock(data, i) ==
  LET last   == i + 1 + data[i + 1]
      header == SubSeq(data, i + 2, last)
  IN  IF i + 1 > Len(data) \/ data[i] # SOH THEN Waiting
      ELSE IF last > Len(data) \/ ~IsHeader(header) THEN Waiting
      ELSE ParseChunks(data, last + 1)

\* One block more, while the last one was whole.
ParseNext(data, v) ==
  LET b == ParseBlock(data, v.next)
  IN  IF v.state # "whole" THEN v
      ELSE [state  |-> b.state,
            next   |-> b.next,
            blocks |-> IF b.state = "whole" THEN Append(v.blocks, b.payload) ELSE v.blocks]

\* parse_b2_blocks(): the blocks at the start of the data, count of them at most;
\* one that is broken raises WinlinkProtocolError, whatever came before it.
ParseBlocks(data, count) ==
  LET turn[k \in 0..count] == IF k = 0 THEN [state |-> "whole", next |-> 1, blocks |-> <<>>]
                              ELSE ParseNext(data, turn[k - 1])
  IN  [raised |-> turn[count].state = "broken", blocks |-> turn[count].blocks]
=============================================================================
