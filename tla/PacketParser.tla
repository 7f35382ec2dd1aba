---------------------------- MODULE PacketParser ----------------------------
(***************************************************************************)
(* packet.py's PacketParser: MONITOR text arrives in chunks that respect   *)
(* neither lines nor packets, and a packet is complete only when the       *)
(* header line of the next one arrives, or the session ends.               *)
(*                                                                         *)
(* Text is a sequence of characters.  What a header line looks like        *)
(* (HEADER_RE) is abstracted to the set Headers of the lines it matches;   *)
(* a packet is its header line and its payload lines, from which the code  *)
(* reads the fields.                                                       *)
(***************************************************************************)
EXTENDS Naturals, Sequences, FiniteSetsExt, Subsequence

CONSTANTS
  Chars,      \* the characters of the text
  LF, CR,     \* the two of them that end a line
  Headers,    \* the lines HEADER_RE matches
  MaxText,    \* bound: characters fed in one session
  MaxChunk    \* bound: characters in one chunk

ASSUME CharsAssumption ==
  /\ {LF, CR} \subseteq Chars
  /\ LF # CR
  /\ Headers \subseteq Seq(Chars \ {LF})
  /\ MaxText \in Nat
  /\ MaxChunk \in Nat

VARIABLES
  buffer,     \* self._buffer: the text after the last newline
  pending,    \* self._pending: <<>>, or <<p>> for the packet being assembled
  emitted,    \* the packets returned so far, in order
  fed,        \* history: all the text fed
  flushed     \* flush() was called: the session is over

parserVars == <<buffer, pending, emitted, fed, flushed>>

-----------------------------------------------------------------------------
\* str.rstrip("\r"): every trailing CR goes, not only one.
RStripCR(line) ==
  LET kept == {i \in 1..Len(line) : line[i] # CR}
  IN  SubSeq(line, 1, Max(kept \union {0}))

\* self._pending.payload_lines.append(line)
WithLine(packet, line) == [packet EXCEPT !.payload = Append(@, line)]

\* _process_line(): s.pending and s.done after one more complete line.  A header
\* finalizes what was pending; any other line goes to it, or nowhere.
ProcessLine(s, line) ==
  IF line \in Headers
  THEN [pending |-> <<[header |-> line, payload |-> <<>>]>>,
        done    |-> s.done \o s.pending]
  ELSE [s EXCEPT !.pending = [i \in DOMAIN @ |-> WithLine(@[i], line)]]

\* feed()'s loop over the text it holds: [line] is what has been read since the
\* last newline, and at the end it is what stays in the buffer.
TakeChar(s, c) ==
  IF c = LF
  THEN [line |-> <<>>,
        acc  |-> ProcessLine(s.acc, RStripCR(s.line))]
  ELSE [s EXCEPT !.line = Append(@, c)]

Unread(p) == [line |-> <<>>, acc |-> [pending |-> p, done |-> <<>>]]

FeedLines(text, p) ==
  LET scanned[i \in 0..Len(text)] ==
        IF i = 0 THEN Unread(p) ELSE TakeChar(scanned[i - 1], text[i])
  IN  scanned[Len(text)]

\* Mutant: the part of a line left over from the last chunk is forgotten.
TextToScan_Forgets(chunk) == chunk

\* self._buffer += text
TextToScan(chunk) == buffer \o chunk

\* Mutant: flush() ignores a line that no newline ended.
UnfinishedLine_Ignored(text) == <<>>

\* The line flush() makes of what is still buffered, if anything is.
UnfinishedLine(text) == IF text = <<>> THEN <<>> ELSE <<RStripCR(text)>>

Chunks == UNION {[1..n -> Chars] : n \in 1..MaxChunk}

ParserInit ==
  /\ buffer = <<>>
  /\ pending = <<>>
  /\ emitted = <<>>
  /\ fed = <<>>
  /\ flushed = FALSE

\* feed(text)
Feed(chunk) ==
  /\ ~flushed
  /\ Len(fed) + Len(chunk) <= MaxText
  /\ LET r == FeedLines(TextToScan(chunk), pending)
     IN  /\ buffer' = r.line
         /\ pending' = r.acc.pending
         /\ emitted' = emitted \o r.acc.done
  /\ fed' = fed \o chunk
  /\ UNCHANGED flushed

\* flush(): the unfinished line is processed, then what is pending is finalized.
Flush ==
  /\ ~flushed
  /\ LET held  == [pending |-> pending, done |-> <<>>]
         lines == UnfinishedLine(buffer)
         s     == IF lines = <<>> THEN held ELSE ProcessLine(held, lines[1])
     IN  emitted' = emitted \o s.done \o s.pending
  /\ buffer' = <<>>
  /\ pending' = <<>>
  /\ flushed' = TRUE
  /\ UNCHANGED fed

ParserNext == (\E chunk \in Chunks : Feed(chunk)) \/ Flush

ParserSpec == ParserInit /\ [][ParserNext]_parserVars

-----------------------------------------------------------------------------
(***************************************************************************)
(* The reference: what the whole text says, read in one piece.             *)
(***************************************************************************)
NewlinesIn(text) == {i \in 1..Len(text) : text[i] = LF}

\* The complete lines of a text, in order: one ends at each newline.
CompleteLines(text) ==
  LET ends == Ascending(Len(text), NewlinesIn(text))
      Start(k) == IF k = 1 THEN 1 ELSE ends[k - 1] + 1
  IN  [k \in 1..Len(ends) |-> RStripCR(SubSeq(text, Start(k), ends[k] - 1))]

Remainder(text) == SubSeq(text, Max(NewlinesIn(text) \union {0}) + 1, Len(text))

\* The packets of a list of lines: a header and what follows it up to the next.
PacketsOf(lines) ==
  LET heads == Ascending(Len(lines), {i \in 1..Len(lines) : lines[i] \in Headers})
      Last_(k) == IF k = Len(heads) THEN Len(lines) ELSE heads[k + 1] - 1
  IN  [k \in 1..Len(heads) |->
         [header  |-> lines[heads[k]],
          payload |-> SubSeq(lines, heads[k] + 1, Last_(k))]]

\* However a session's text was cut into chunks, the packets returned so far and
\* the one being assembled are exactly the packets of the complete lines of the
\* text received; nothing is lost, split or attributed to another packet.
ChunkingIsIrrelevant ==
  ~flushed => /\ emitted \o pending = PacketsOf(CompleteLines(fed))
              /\ Len(pending) <= 1
              /\ buffer = Remainder(fed)

\* After flush() every line of the session, the unfinished last one included, is
\* in the packet it belongs to and nothing is left behind in the parser.
FlushDropsNothing ==
  flushed =>
    LET rest  == Remainder(fed)
        lines == CompleteLines(fed)
                   \o (IF rest = <<>> THEN <<>> ELSE <<RStripCR(rest)>>)
    IN  emitted = PacketsOf(lines) /\ pending = <<>> /\ buffer = <<>>
=============================================================================
