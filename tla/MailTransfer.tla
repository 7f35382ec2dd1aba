----------------------------- MODULE MailTransfer -----------------------------
(***************************************************************************)
(* Message bodies on their way.  At one end they are compressed and framed *)
(* (send_winlink_message(): compress_b2(), build_b2_block()); at the other *)
(* the poll of check_winlink_mail() looks for blocks in ever more bytes    *)
(* (parse_b2_blocks()), and what it found is decompressed                  *)
(* (decompress_b2()).                                                      *)
(*                                                                         *)
(* One step is one turn of compress()'s or decompress()'s loop, or one     *)
(* byte that is heard.  On the way the link may change one byte of a       *)
(* message, or two neighbours may change places.                           *)
(***************************************************************************)
EXTENDS B2Framing

CONSTANTS
  Mails,       \* what may be sent: sequences of texts
  ChunkSizes,  \* sizes of the chunks a sender makes
  TitleBytes,  \* the title of every block
  Digit,       \* the offset of every block
  MaxNoisy     \* bound: the link changes no message longer than that

\* What the sender lets through: to_bytes() of a text's length, and bytes() of a
\* header's, raise when they do not fit.
ASSUME MailAssumption ==
  /\ Mails \subseteq Seq(Seq(0..LITERALS - 1)) \ {<<>>}
  /\ \A m \in Mails : \A k \in DOMAIN m : Len(m[k]) < 2^(BYTE * LENGTH_BYTES)
  /\ ChunkSizes \subseteq 1..2^BYTE
  /\ TitleBytes \in Seq(1..2^BYTE - 1) /\ Len(TitleBytes) + 3 < 2^BYTE
  /\ Digit \in Digits

VARIABLES
  phase,     \* "compress", "arrive", "unpack", "done" or "error"
  mail,      \* the texts
  prepared,  \* those compressed so far: their bytes, and their longest code
  enc,       \* the locals of compress()
  wire,      \* the bytes of all blocks, as they arrive
  place,     \* where each byte of the messages is in them
  damaged,   \* the link has changed one
  heard,     \* how many of them have been read
  blocks,    \* what parse_b2_blocks() returned at last
  dec,       \* the locals of decompress()
  messages   \* the texts decompressed so far

sending == <<mail, prepared, enc>>
link == <<wire, place, damaged>>
receiving == <<heard, blocks, dec, messages>>
vars == <<phase, sending, link, receiving>>

Init ==
  /\ phase = "compress"
  /\ mail \in Mails /\ prepared = <<>>
  /\ enc = StartCompress(mail[1])
  /\ wire = <<>> /\ place = <<>> /\ damaged = FALSE
  /\ heard = 0 /\ blocks = <<>> /\ messages = <<>>
  /\ dec = StartDecompress(0)

-----------------------------------------------------------------------------
(***************************************************************************)
(* The sender.                                                             *)
(***************************************************************************)
Current == mail[Len(prepared) + 1]

Compress ==
  /\ phase = "compress" /\ Len(prepared) < Len(mail) /\ enc.length > 0
  /\ enc' = CompressNext(enc, Current)
  /\ UNCHANGED <<phase, mail, prepared, link, receiving>>

Prepare ==
  /\ phase = "compress" /\ Len(prepared) < Len(mail) /\ enc.length = 0
  /\ prepared' = Append(prepared, [data   |-> CompressedB2(Len(Current), enc.out),
                                   widest |-> enc.widest])
  /\ enc' = IF Len(prepared') < Len(mail) THEN StartCompress(mail[Len(prepared') + 1])
            ELSE enc
  /\ UNCHANGED <<phase, mail, link, receiving>>

\* The bytes of a block, each with its place among those of the message, or 0.
Marked(data, size) ==
  LET block == BuildBlock(TitleBytes, Digit, data, size)
      first == Len(TitleBytes) + 5
      at    == {first + j + 2 * ((j - 1) \div size + 1) : j \in DOMAIN data}
  IN  [i \in DOMAIN block |-> [byte |-> block[i], payload |-> i \in at]]

Send ==
  /\ phase = "compress" /\ Len(prepared) = Len(mail)
  /\ phase' = "arrive"
  /\ \E size \in ChunkSizes :
       LET all == FlattenSeq([k \in DOMAIN prepared |-> Marked(prepared[k].data, size)])
       IN  /\ wire' = [i \in DOMAIN all |-> all[i].byte]
           /\ place' = Ascending(Len(all), {i \in DOMAIN all : all[i].payload})
  /\ UNCHANGED <<sending, damaged, receiving>>

-----------------------------------------------------------------------------
(***************************************************************************)
(* The link.                                                               *)
(***************************************************************************)
Damage ==
  /\ phase = "arrive" /\ heard = 0 /\ ~damaged
  /\ \A k \in DOMAIN prepared : Len(prepared[k].data) <= MaxNoisy
  /\ damaged' = TRUE
  /\ \/ \E j \in DOMAIN place, b \in 0..2^BYTE - 1 : wire' = [wire EXCEPT ![place[j]] = b]
     \/ \E j \in 1..Len(place) - 1 :
          wire' = [wire EXCEPT ![place[j]] = wire[place[j + 1]],
                               ![place[j + 1]] = wire[place[j]]]
  /\ wire' # wire
  /\ UNCHANGED <<phase, sending, place, receiving>>

-----------------------------------------------------------------------------
(***************************************************************************)
(* The receiver.                                                           *)
(***************************************************************************)
\* One more byte, and done(): it raises, or it has all blocks, or not yet.
Arrive ==
  /\ phase = "arrive" /\ heard < Len(wire)
  /\ heard' = heard + 1
  /\ LET parsed == ParseBlocks(SubSeq(wire, 1, heard'), Len(mail))
     IN  /\ blocks' = parsed.blocks
         /\ phase' = IF parsed.raised THEN "error"
                     ELSE IF Len(parsed.blocks) >= Len(mail) THEN "unpack" ELSE "arrive"
  /\ UNCHANGED <<sending, link, dec, messages>>

\* The poll times out: the blocks that are there are enough.
TimeOut ==
  /\ phase = "arrive"
  /\ phase' = "unpack"
  /\ UNCHANGED <<sending, link, receiving>>

\* decompress_b2() on the next block, up to its loop.
Open ==
  /\ phase = "unpack" /\ dec.size = 0 /\ Len(messages) < Len(blocks)
  /\ LET data == blocks[Len(messages) + 1]
     IN  IF ~Accepts(data)
         THEN phase' = "error" /\ UNCHANGED <<dec, messages>>
         ELSE /\ dec' = StartDecompress(Size(Body(data)))
              /\ messages' = IF Size(Body(data)) = 0 THEN Append(messages, <<>>)
                             ELSE messages
              /\ UNCHANGED phase
  /\ UNCHANGED <<sending, link, heard, blocks>>

Decompress ==
  /\ phase = "unpack" /\ Len(dec.out) < dec.size
  /\ LET next == DecompressNext(dec, CodeBits(Body(blocks[Len(messages) + 1])))
         over == Len(next.out) >= next.size
     IN  /\ dec' = IF over THEN [next EXCEPT !.size = 0] ELSE next
         /\ messages' = IF over THEN Append(messages, next.out) ELSE messages
  /\ UNCHANGED <<phase, sending, link, heard, blocks>>

Return ==
  /\ phase = "unpack" /\ dec.size = 0 /\ Len(messages) = Len(blocks)
  /\ phase' = "done"
  /\ UNCHANGED <<sending, link, receiving>>

Next ==
  \/ Compress \/ Prepare \/ Send
  \/ Damage
  \/ Arrive \/ TimeOut \/ Open \/ Decompress \/ Return

Spec == Init /\ [][Next]_vars

-----------------------------------------------------------------------------
(***************************************************************************)
(* Properties.                                                             *)
(***************************************************************************)
\* The binary search trees find what a look at the whole window would: a string
\* as long as any has in common with what comes next, where insert_node() says.
\* N - F positions are in the trees, fewer while the F spaces before the text
\* are all that there is.  Those where F spaces begin are inserted from the nearest
\* to the furthest, each in the place of the one before: they are excepted.
CommonBack(k) ==
  Min({enc.length} \cup
      {i \in 0..enc.length - 1 :
         enc.dict.text[(enc.r + i) % N] # enc.dict.text[(enc.r + i - k) % N]})

SpacesBeforeText(k) ==
  /\ k > enc.read - enc.length
  /\ \A i \in 0..F - 1 : enc.dict.text[(enc.r + i - k) % N] = Space

MatchIsLongest ==
  enc.length > 0 =>
    LET found == Min({enc.dict.match_length, enc.length})
        back  == {k \in 1..Min({enc.read - enc.length + F, N - F}) : ~SpacesBeforeText(k)}
        best  == Max({0} \cup {CommonBack(k) : k \in back})
    IN  /\ best > THRESHOLD => found >= best
        /\ found > THRESHOLD => CommonBack(enc.dict.match_position + 1) >= found

\* The Huffman trees of both ends stay trees, in order of frequency, below the
\* frequency of the sentinel, through every update and rebuilding.
IsHuffman(t) ==
  /\ t.freq[R] <= MAX_FREQ
  /\ \A i \in 0..R :
       /\ t.freq[i] <= t.freq[i + 1]
       /\ \A k \in Children(t.son[i]) : t.prnt[k] = i
       /\ t.son[i] < T => t.freq[i] = t.freq[t.son[i]] + t.freq[t.son[i] + 1]

TreesAreHuffman == IsHuffman(enc.huff) /\ IsHuffman(dec.huff)

\* Every position that the codec's tables can express, whatever bits follow it, is
\* decoded to itself, and no further than to its own last bit.  (The tables do not
\* change: they are looked at in one initial state.)
PositionsDecode ==
  mail = <<<<>>>> /\ prepared = <<>> =>
  \A p \in Positions, b \in {0, 1} :
    LET bits == EncodePosition(p)
    IN  DecodePosition(bits \o [k \in 1..8 |-> b], 1) = [value |-> p, width |-> Len(bits)]

\* What is returned is what was sent, or the first of it, however the bytes were
\* cut and whatever the link did to one message's; all of it when all arrived as
\* it was sent.  A code longer than the register it is collected in is excepted.
Exact == \A k \in DOMAIN prepared : prepared[k].widest <= CODE_BITS

MailIsDelivered ==
  phase = "done" /\ Exact =>
    /\ IsPrefix(messages, mail)
    /\ heard = Len(wire) /\ ~damaged => messages = mail

\* An error means that the link has changed something: no place at which the bytes
\* may be cut looks like a broken block.
ErrorMeansDamage == phase = "error" => damaged

\* decompress() is the "Inverse of compress()" (lzhuf.py).  No run checks this: it
\* does not hold when a code is longer than CODE_BITS (README, section 5).
InverseOfCompress ==
  phase = "done" /\ heard = Len(wire) /\ ~damaged => messages = mail
=============================================================================
