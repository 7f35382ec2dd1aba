----------------------------- MODULE KamTerminal -----------------------------
(***************************************************************************)
(* kamxl.py: the calls that talk to the KAM-XL over its serial line, one   *)
(* after the other, and read_available() between them, which is how the    *)
(* daemon's monitor thread polls.  No call knows what the KAM-XL is doing: *)
(* each writes, and reads until it sees a prompt or a marker, or times     *)
(* out, and an answer that comes later stays for whoever reads next.       *)
(*                                                                         *)
(* The KAM-XL is in Command mode or in Convers mode, takes its input in    *)
(* order and in its own time, and prints lines: tokens with the number of  *)
(* the call they answer.  Its prompt is a token that ends no line.         *)
(***************************************************************************)
EXTENDS Naturals, Sequences, Subsequence

CONSTANTS
  MaxCalls,     \* bound: calls of the driver
  MaxPackets,   \* bound: MONITOR packets the KAM-XL prints
  MaxTexts      \* bound: lines the remote station sends

ASSUME TerminalAssumption ==
  MaxCalls \in Nat /\ MaxPackets \in Nat /\ MaxTexts \in Nat

VARIABLES
  echo,     \* ECHO ON
  mode,     \* "command" or "convers"
  link,     \* "none", "calling", "up" or "ending"
  caller,   \* the call that asked for the link
  input,    \* written to the KAM-XL and not yet taken by it
  job,      \* lines it has still to print for what it took last
  packets,  \* MONITOR packets printed so far
  texts,    \* lines of the remote station printed so far
  line,     \* printed, and not yet read from the serial port
  pc,       \* what the driver waits for, or "idle"
  calls,    \* calls so far: the number of the current one
  quiet,    \* the KAM-XL was idle when the current call wrote to it
  heard,    \* what the current call has read
  last,     \* how the last call ended, until the next one starts
  polled    \* history: read_available() took a line of the remote station

tncVars == <<echo, mode, link, caller, input, job, packets, texts>>
driverVars == <<pc, calls, quiet, heard, last, polled>>
vars == <<tncVars, line, driverVars>>

Tok(t, id) == [t |-> t, id |-> id]
Prompt == Tok("cmd", 0)
Has(text, types) == \E i \in 1..Len(text) : text[i].t \in types

NoCall == [op |-> "none", how |-> "returned", text |-> <<>>]

Init ==
  /\ echo \in BOOLEAN
  /\ mode = "command"
  /\ link = "none"
  /\ caller = 0
  /\ input = <<>>
  /\ job = <<>>
  /\ packets = 0
  /\ texts = 0
  /\ line = <<>>
  /\ pc = "idle"
  /\ calls = 0
  /\ quiet = TRUE
  /\ heard = <<>>
  /\ last = NoCall
  /\ polled = FALSE

-----------------------------------------------------------------------------
(***************************************************************************)
(* The KAM-XL.                                                             *)
(***************************************************************************)
Echo(unit) == IF echo THEN <<Tok("echo", unit.id)>> ELSE <<>>

\* What it prints for a unit of input in Command mode.
Reply(unit) ==
  CASE unit.t = "command"  -> {<<Tok("answer", unit.id), Tok("more", unit.id), Prompt>>,
                               <<Tok("EH?", unit.id), Prompt>>}
    [] unit.t = "text"     -> {<<Tok("EH?", unit.id), Prompt>>}
    [] unit.t = "CONNECT"  -> {IF link = "none" THEN <<Prompt>>
                               ELSE <<Tok("state", unit.id), Prompt>>}
    [] unit.t = "DISCONNE" -> {IF link = "none"
                               THEN <<Tok("can't", unit.id), Prompt>> ELSE <<Prompt>>}

TakeCommand ==
  /\ input # <<>> /\ job = <<>>
  /\ mode = "command"
  /\ LET unit == Head(input)
     IN  /\ unit.t # "ctrlC"
         /\ \E reply \in Reply(unit) : job' = Echo(unit) \o reply
         /\ IF unit.t = "CONNECT" /\ link = "none"
            THEN link' = "calling" /\ caller' = unit.id
            ELSE /\ link' = IF unit.t = "DISCONNE" /\ link # "none" THEN "ending"
                            ELSE link
                 /\ UNCHANGED caller
  /\ input' = Tail(input)
  /\ UNCHANGED <<echo, mode, packets, texts, line, driverVars>>

\* In Convers mode everything is text for the remote station, except Ctrl-C, which
\* in Command mode makes no prompt.
TakeText ==
  /\ input # <<>> /\ job = <<>>
  /\ mode = "convers" \/ Head(input).t = "ctrlC"
  /\ job' = IF mode = "command" THEN <<>>
            ELSE IF Head(input).t = "ctrlC" THEN <<Prompt>> ELSE Echo(Head(input))
  /\ mode' = IF Head(input).t = "ctrlC" THEN "command" ELSE mode
  /\ input' = Tail(input)
  /\ UNCHANGED <<echo, link, caller, packets, texts, line, driverVars>>

TncPrints ==
  /\ job # <<>>
  /\ line' = Append(line, Head(job))
  /\ job' = Tail(job)
  /\ UNCHANGED <<echo, mode, link, caller, input, packets, texts, driverVars>>

LinkMade ==
  /\ link = "calling" /\ job = <<>>
  /\ link' = "up"
  /\ mode' = "convers"
  /\ line' = Append(line, Tok("connected", caller))
  /\ UNCHANGED <<echo, caller, input, job, packets, texts, driverVars>>

LinkRefused ==
  /\ link = "calling" /\ job = <<>>
  /\ link' = "none"
  /\ line' = line \o <<Tok("refused", caller), Tok("disconnected", caller)>>
  /\ UNCHANGED <<echo, mode, caller, input, job, packets, texts, driverVars>>

\* The remote station ends the link, or has agreed to.
LinkEnds ==
  /\ link \in {"up", "ending"} /\ job = <<>>
  /\ link' = "none"
  /\ mode' = "command"
  /\ line' = line \o <<Tok("disconnected", caller)>>
                  \o (IF mode = "convers" THEN <<Prompt>> ELSE <<>>)
  /\ UNCHANGED <<echo, caller, input, job, packets, texts, driverVars>>

RemoteSays ==
  /\ link = "up" /\ mode = "convers"
  /\ texts < MaxTexts
  /\ texts' = texts + 1
  /\ line' = Append(line, Tok("text", texts'))
  /\ UNCHANGED <<echo, mode, link, caller, input, job, packets, driverVars>>

\* A MONITOR packet goes between two lines, and ends with a blank one.
Packet ==
  /\ mode = "command"
  /\ packets < MaxPackets
  /\ packets' = packets + 1
  /\ line' = line \o <<Tok("header", packets'), Tok("payload", packets'),
                       Tok("blank", packets')>>
  /\ UNCHANGED <<echo, mode, link, caller, input, job, texts, driverVars>>

Tnc ==
  \/ TakeCommand \/ TakeText \/ TncPrints \/ LinkMade \/ LinkRefused \/ LinkEnds
  \/ RemoteSays \/ Packet

-----------------------------------------------------------------------------
(***************************************************************************)
(* What a call starts with.                                                *)
(***************************************************************************)
TncIdle == input = <<>> /\ job = <<>> /\ mode = "command" /\ link = "none"

\* The first n tokens have arrived in the port's buffer.
Arrived == 0..Len(line)
After(n) == SubSeq(line, n + 1, Len(line))

\* Mutant: the old input stays.
AfterReset_Kept(n) == line
AfterReset(n) == After(n)

\* reset_input_buffer(): what is still on its way arrives afterwards.
Reset(n) == line' = AfterReset(n)

\* Mutant: the port is cleared once, without the pause.
AfterDrain_Once(n) == After(n)
AfterDrain(n) == <<>>

\* _drain_input(): 50 ms later the port is cleared again, which is time enough for
\* what the KAM-XL had printed, and not for what it prints later.
Drain == \E n \in Arrived : line' = AfterDrain(n)

Write(type) == input' = Append(input, Tok(type, calls'))

Call(wait) ==
  /\ pc = "idle"
  /\ calls < MaxCalls
  /\ calls' = calls + 1
  /\ pc' = wait
  /\ heard' = <<>>
  /\ last' = NoCall
  /\ UNCHANGED <<echo, mode, link, caller, job, packets, texts, polled>>

SendCommand ==
  /\ Call("command")
  /\ \E n \in Arrived : Reset(n) /\ quiet' = (TncIdle /\ n = Len(line))
  /\ Write("command")

ConnectStation ==
  /\ Call("connect")
  /\ Drain
  /\ Write("CONNECT")
  /\ quiet' = TncIdle

\* enter_command_mode(), by itself or as the first half of disconnect_station().
CtrlC ==
  /\ \E wait \in {"enter", "leave"} : Call(wait)
  /\ Drain
  /\ Write("ctrlC")
  /\ quiet' = (input = <<>> /\ job = <<>>)

\* send_connected() waits for nothing.
SendConnected ==
  /\ Call("idle")
  /\ Write("text")
  /\ quiet' = FALSE
  /\ UNCHANGED line

ReadConnected ==
  /\ Call("read")
  /\ quiet' = FALSE
  /\ UNCHANGED <<input, line>>

\* read_available() in the monitor thread, between two calls.
Poll ==
  /\ pc = "idle"
  /\ \E n \in Arrived \ {0} :
       /\ line' = After(n)
       /\ polled' = (polled \/ Has(SubSeq(line, 1, n), {"text"}))
  /\ UNCHANGED <<tncVars, pc, calls, quiet, heard, last>>

-----------------------------------------------------------------------------
(***************************************************************************)
(* _read_until_prompt(), _read_until_any(), read_connected().              *)
(***************************************************************************)
ConnectMarkers == {"connected", "refused", "disconnected", "EH?"}

\* Mutant: the prompt after DISCONNE counts as its confirmation.
DisconnectMarkers_Prompt == {"cmd", "disconnected", "can't"}
DisconnectMarkers == {"disconnected", "can't"}
Awaited ==
  [command |-> {"cmd"}, enter |-> {"cmd"}, leave |-> {"cmd"},
   connect |-> ConnectMarkers, disconne |-> DisconnectMarkers, read |-> {}]

Seen == Has(heard, Awaited[pc])

\* A marker is enough at the end of a line; else reading goes on for a grace period.
MayRead == Seen => pc \in {"connect", "disconne"} /\ heard[Len(heard)].t = "cmd"

Read ==
  /\ pc # "idle"
  /\ MayRead
  /\ \E n \in Arrived \ {0} :
       /\ heard' = heard \o SubSeq(line, 1, n)
       /\ line' = After(n)
  /\ UNCHANGED <<tncVars, pc, calls, quiet, last, polled>>

Ends(op, how, text) ==
  /\ pc' = "idle"
  /\ heard' = <<>>
  /\ last' = [op |-> op, how |-> how, text |-> text]
  /\ UNCHANGED <<tncVars, line, calls, quiet, polled>>

TimesOut ==
  /\ pc \in {"command", "connect", "enter", "leave", "disconne"}
  /\ ~Seen
  /\ Ends(pc, "timeout", heard)

\* Mutant: the prompt stays.
BeforePrompt_All(text) == text

\* raw.partition(PROMPT)
BeforePrompt(text) ==
  Pick(text, {i \in 1..Len(text) : \A k \in 1..i : text[k].t # "cmd"})

\* _strip_monitor_lines(): from a header to the next blank line.
StripMonitorLines(text) ==
  Pick(text, {i \in 1..Len(text) :
    ~\E j \in 1..i : text[j].t = "header" /\ \A k \in j..(i - 1) : text[k].t # "blank"})

\* text.strip("\r\n")
StripBlank(text) ==
  Pick(text, {i \in 1..Len(text) : /\ \E k \in 1..i : text[k].t # "blank"
                                   /\ \E k \in i..Len(text) : text[k].t # "blank"})

\* _remove_command_echo()
RemoveEcho(text) ==
  IF text # <<>> /\ text[1] = Tok("echo", calls) THEN Tail(text) ELSE text

CommandReturns ==
  /\ pc = "command" /\ Seen
  /\ LET raw == StripBlank(BeforePrompt(heard))
         text == StripBlank(RemoveEcho(StripMonitorLines(raw)))
     IN  Ends("command", IF Has(text, {"EH?"}) THEN "rejected" ELSE "returned", text)

\* The first marker in the order of CONNECT_MARKERS decides.
ConnectReturns ==
  /\ pc = "connect" /\ Seen
  /\ Ends("connect", IF Has(heard, {"connected"}) THEN "returned" ELSE "refused", heard)

EnterReturns ==
  /\ pc = "enter" /\ Seen
  /\ Ends("enter", "returned", heard)

Disconne ==
  /\ pc = "leave" /\ Seen
  /\ Drain
  /\ input' = Append(input, Tok("DISCONNE", calls))
  /\ pc' = "disconne"
  /\ heard' = <<>>
  /\ UNCHANGED <<echo, mode, link, caller, job, packets, texts, calls, quiet, last,
                 polled>>

DisconnectReturns ==
  /\ pc = "disconne" /\ Seen
  /\ Ends("disconnect", "returned", heard)

ReadReturns ==
  /\ pc = "read"
  /\ Ends("read", "returned", heard)

Driver ==
  \/ SendCommand \/ ConnectStation \/ CtrlC \/ SendConnected \/ ReadConnected
  \/ Poll \/ Read \/ TimesOut
  \/ CommandReturns \/ ConnectReturns \/ EnterReturns \/ Disconne
  \/ DisconnectReturns \/ ReadReturns

Next == Tnc \/ Driver

Spec == Init /\ [][Next]_vars

-----------------------------------------------------------------------------
TokTypes == {"cmd", "echo", "answer", "more", "EH?", "state", "can't", "connected",
             "refused", "disconnected", "text", "header", "payload", "blank"}
Tokens == [t : TokTypes, id : Nat]

TypeOK ==
  /\ echo \in BOOLEAN /\ quiet \in BOOLEAN
  /\ mode \in {"command", "convers"}
  /\ link \in {"none", "calling", "up", "ending"}
  /\ caller \in Nat /\ packets \in Nat /\ texts \in Nat /\ calls \in Nat
  /\ input \in Seq([t : {"command", "CONNECT", "DISCONNE", "ctrlC", "text"}, id : Nat])
  /\ \A s \in {job, line, heard, last.text} : s \in Seq(Tokens)
  /\ pc \in {"idle", "command", "connect", "enter", "leave", "disconne", "read"}
  /\ last.op \in {"none", "command", "connect", "enter", "leave", "disconne",
                 "disconnect", "read"}
  /\ last.how \in {"returned", "rejected", "refused", "timeout"}
  /\ last.op = "command" /\ last.how # "timeout" =>
       last.text \in Seq(Tokens \ [t : {"cmd"}, id : Nat])
  /\ polled \in BOOLEAN

\* Whatever went wrong before, a command sent to a KAM-XL that is idle, with nothing
\* on its way, gets its own answer and all of it: no MONITOR packet in between, no
\* echo, and nothing that was in the receive buffer.
QuietCommandIsAnswered ==
  last.op = "command" /\ quiet /\ last.how # "timeout" =>
    \/ /\ last.how = "returned"
       /\ last.text = <<Tok("answer", calls), Tok("more", calls)>>
    \/ /\ last.how = "rejected"
       /\ last.text = <<Tok("EH?", calls)>>

\* connect_station() to a KAM-XL that is idle returns or raises because of its own
\* CONNECT, never because of the end of an earlier link.
ConnectIsAboutItself ==
  last.op = "connect" /\ quiet =>
    \A i \in 1..Len(last.text) :
      last.text[i].t \in ConnectMarkers => last.text[i].id = calls

\* When disconnect_station() returns there is no link, if nothing that was written
\* before it was still to be taken by the KAM-XL.
DisconnectLeavesNoLink ==
  [][last' # last /\ last'.op = "disconnect" /\ quiet => link = "none"]_vars

\* "It doesn't introduce any new risk": what the remote station says once
\* connect_station() has returned is for read_connected(), whoever polls meanwhile.
\* It does not hold (README, section 5), and no run checks it.
SessionTextIsNotPolled ==
  last.op = "connect" /\ last.how = "returned" => ~polled
=============================================================================
