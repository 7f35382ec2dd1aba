----------------------------- MODULE PbbsSession -----------------------------
(***************************************************************************)
(* kamxl.py: list_pbbs_messages() and read_pbbs_message(), over a link to  *)
(* the mailbox in the KAM-XL itself, and what pbbs.py reads in the text.   *)
(*                                                                         *)
(* The mailbox signs on, with a prompt of its own, when the link is made,  *)
(* and answers the command with rows or a message, and another prompt.     *)
(* What it prints is a sequence of tokens, a line each, but what is read   *)
(* of it may end inside a line.  No message has a line that looks like one *)
(* of the mailbox's own.                                                   *)
(***************************************************************************)
EXTENDS Naturals, Sequences, SequencesExt, Subsequence

CONSTANTS
  MaxStored,   \* bound: messages in the mailbox
  BodyLines    \* bound: lines of a message

ASSUME PbbsAssumption == MaxStored \in Nat /\ BodyLines \in Nat \ {0}

VARIABLES
  method,   \* "list" or "read"
  number,   \* the message to read
  named,    \* the caller gives mypbbs
  stored,   \* how many messages there are
  blank,    \* which lines of theirs are empty
  echo,     \* the KAM-XL echoes what it is sent in connected mode
  pc,       \* where the driver is
  heard,    \* the lines collected from the mailbox
  cut,      \* the piece of a line they were followed by, if any
  result,   \* what the call returns
  outcome,  \* how it ends
  line,     \* printed by the KAM-XL, and not yet read
  air,      \* what it is going to print
  link,     \* the KAM-XL is connected to the mailbox
  asked,    \* the command the mailbox has still to take
  calling   \* the KAM-XL is still trying to connect

callVars == <<method, number, named, stored, blank, echo>>
driverVars == <<pc, heard, cut, result, outcome>>
vars == <<callVars, driverVars, line, air, link, asked, calling>>

Tok(t) == [t |-> t, id |-> 0]
Has(text, t) == \E i \in 1..Len(text) : text[i].t = t

\* The sign-on's prompt and the answer's look alike; id tells them apart for the
\* properties.
Prompt(k) == [t |-> "prompt", id |-> k]
SignOn == <<Tok("signon"), Prompt(1)>>
HungUp == <<Tok("banner"), Tok("cmd")>>
Rows == [i \in 1..stored |-> [t |-> "row", id |-> i]]
BodyOf(i) ==
  [k \in 1..BodyLines |-> [t |-> IF k \in blank THEN "blank" ELSE "body", id |-> 10 * i + k]]

Answer ==
  IF method = "list" THEN <<Tok("column")>> \o Rows \o <<Prompt(2)>>
  ELSE IF number > stored THEN <<Tok("not found"), Prompt(2)>>
  ELSE <<[t |-> "header", id |-> number]>> \o BodyOf(number) \o <<Prompt(2)>>

Nothing == [number |-> 0, body |-> <<>>]

Init ==
  /\ method \in {"list", "read"}
  /\ stored \in 0..MaxStored
  /\ number \in IF method = "read" THEN 1..(MaxStored + 1) ELSE {1}
  /\ blank \in IF method = "read" THEN SUBSET (1..BodyLines) ELSE {{}}
  /\ named \in BOOLEAN /\ echo \in BOOLEAN
  /\ pc = "name"
  /\ heard = <<>> /\ cut = <<>>
  /\ result = Nothing
  /\ outcome = "returned"
  /\ line = <<>> /\ air = <<>>
  /\ link = FALSE
  /\ asked = FALSE
  /\ calling = FALSE

-----------------------------------------------------------------------------
(* The KAM-XL and its mailbox *)

LinkMade ==
  /\ calling
  /\ calling' = FALSE /\ link' = TRUE
  /\ air' = air \o <<Tok("connected")>> \o SignOn
  /\ UNCHANGED <<callVars, driverVars, line, asked>>

LinkRefused ==
  /\ calling
  /\ calling' = FALSE
  /\ air' = air \o <<Tok("refused"), Tok("cmd")>>
  /\ UNCHANGED <<callVars, driverVars, line, link, asked>>

Takes ==
  /\ link /\ asked
  /\ asked' = FALSE
  /\ air' = air \o Answer
  /\ UNCHANGED <<callVars, driverVars, line, link, calling>>

Arrive ==
  /\ air # <<>>
  /\ line' = Append(line, Head(air))
  /\ air' = Tail(air)
  /\ UNCHANGED <<callVars, driverVars, link, asked, calling>>

LinkEnds ==
  /\ link
  /\ link' = FALSE /\ asked' = FALSE
  /\ air' = air \o HungUp
  /\ UNCHANGED <<callVars, driverVars, line, calling>>

-----------------------------------------------------------------------------
(* The driver *)

\* The call raises.
End(how) ==
  /\ pc' = "end"
  /\ outcome' = how
  /\ result' = Nothing
  /\ UNCHANGED <<heard, cut>>

\* get("MYPBBS"), if it must be asked for, is one send_command().
Name ==
  /\ pc = "name"
  /\ pc' = "connect"
  /\ UNCHANGED <<callVars, heard, cut, result, outcome, line, air, link, asked, calling>>

NameFails ==
  /\ pc = "name" /\ ~named
  /\ End("timeout")
  /\ UNCHANGED <<callVars, line, air, link, asked, calling>>

\* connect_station(): drain, CONNECT, and the marker with what came after it.
Connect ==
  /\ pc = "connect"
  /\ pc' = "await"
  /\ line' = <<>>
  /\ calling' = TRUE
  /\ UNCHANGED <<callVars, heard, cut, result, outcome, air, link, asked>>

Connected ==
  /\ pc = "await" /\ Has(line, "connected")
  /\ pc' = "send"
  /\ line' = <<>>
  /\ UNCHANGED <<callVars, heard, cut, result, outcome, air, link, asked, calling>>

ConnectFails ==
  /\ pc = "await" /\ Has(line, "refused")
  /\ End("refused")
  /\ line' = <<>>
  /\ UNCHANGED <<callVars, air, link, asked, calling>>

ConnectTimesOut ==
  /\ pc = "await" /\ ~Has(line, "connected") /\ ~Has(line, "refused")
  /\ End("timeout")
  /\ line' = <<>>
  /\ UNCHANGED <<callVars, air, link, asked, calling>>

\* send_connected("L"), or "R n".
SendCommand ==
  /\ pc = "send"
  /\ pc' = "poll"
  /\ asked' = link
  /\ line' = IF ~link THEN line \o <<Tok("EH?"), Tok("cmd")>>
             ELSE IF echo THEN Append(line, Tok("echo")) ELSE line
  /\ UNCHANGED <<callVars, heard, cut, result, outcome, air, link, calling>>

\* Mutant: a slice takes the place of what was collected before.
Collected_Last(text, slice) == slice

Collected(text, slice) == text \o slice

\* A piece of a line, as the regular expressions see it: a row may be cut in its page
\* count or its subject, and a header in its last address, and match all the same.
Pieces(token) ==
  CASE token.t = "row"    -> {Tok("stub"), [token EXCEPT !.t = "cut row"]}
    [] token.t = "header" -> {Tok("stub"), [token EXCEPT !.t = "cut header"]}
    [] token.t = "body"   -> {[token EXCEPT !.t = "cut body"]}
    [] token.t = "blank"  -> {}
    [] OTHER              -> {Tok("stub")}

\* read_connected() returns at any byte.  Where the collection goes on, the next
\* slice adds the rest of the line; where it ends, the text ends with a piece of it.
CollectionEnds(unread) ==
  /\ pc' = "ctrlC"
  /\ \/ UNCHANGED <<cut, air>>
     \/ /\ unread = <<>> /\ air # <<>>
        /\ \E piece \in Pieces(Head(air)) : cut' = <<piece>>
        /\ air' = <<Tok("rest")>> \o Tail(air)

\* _collect_pbbs_response(): _poll_until() a prompt is in the text, whose ever.
Slice ==
  /\ pc = "poll" /\ line # <<>>
  /\ heard' = Collected(heard, line)
  /\ line' = <<>>
  /\ IF Has(heard', "prompt") THEN CollectionEnds(<<>>) ELSE UNCHANGED <<pc, cut, air>>
  /\ UNCHANGED <<callVars, result, outcome, link, asked, calling>>

PollTimesOut ==
  /\ pc = "poll"
  /\ CollectionEnds(line)
  /\ UNCHANGED <<callVars, heard, result, outcome, line, link, asked, calling>>

\* Mutant: no disconnect_station() when nothing was collected.
AfterPoll_Empty == IF heard \o cut = <<>> THEN "parse" ELSE "prompt"
AfterPoll == "prompt"

\* finally: disconnect_station(), enter_command_mode() first.  In Command mode the
\* KAM-XL prints no more of what the mailbox says, and no new prompt.
CtrlC ==
  /\ pc = "ctrlC"
  /\ pc' = AfterPoll
  /\ line' = <<>>
  /\ IF link THEN air' = <<Tok("cmd")>> /\ asked' = FALSE ELSE UNCHANGED <<air, asked>>
  /\ UNCHANGED <<callVars, heard, cut, result, outcome, link, calling>>

Disconne ==
  /\ pc = "prompt" /\ Has(line, "cmd")
  /\ pc' = "banner"
  /\ IF link
     THEN link' = FALSE /\ air' = HungUp /\ line' = <<>>
     ELSE line' = <<Tok("can't"), Tok("cmd")>> /\ UNCHANGED <<air, link>>
  /\ UNCHANGED <<callVars, heard, cut, result, outcome, asked, calling>>

Disconnected ==
  /\ pc = "banner" /\ (Has(line, "banner") \/ Has(line, "can't"))
  /\ pc' = "parse"
  /\ line' = <<>>
  /\ UNCHANGED <<callVars, heard, cut, result, outcome, air, link, asked, calling>>

DisconnectTimesOut ==
  /\ \/ pc = "prompt" /\ ~Has(line, "cmd")
     \/ pc = "banner" /\ ~Has(line, "banner") /\ ~Has(line, "can't")
  /\ End("timeout")
  /\ UNCHANGED <<callVars, line, air, link, asked, calling>>

-----------------------------------------------------------------------------
(* pbbs.py *)

\* Mutant: the lines up to the next prompt, and that prompt, are the body.
WithoutPrompt_Kept(lines) == lines

\* while body_lines[-1] is a prompt: body_lines.pop()
WithoutPrompt(lines) ==
  LET kept == {i \in 1..Len(lines) : lines[i].t # "prompt"}
  IN  SubSeq(lines, 1, Max(kept \cup {0}))

\* "\n".join(body_lines).strip("\r\n")
Stripped(lines) ==
  LET kept == {i \in 1..Len(lines) : lines[i].t # "blank"}
  IN  IF kept = {} THEN <<>> ELSE SubSeq(lines, Min(kept), Max(kept))

HeaderTypes == {"header", "cut header"}
RowTypes == {"row", "cut row"}

ParseMessage(text) ==
  IF Places(text, HeaderTypes) = {} THEN Nothing
  ELSE LET h == Min(Places(text, HeaderTypes))
       IN  [number |-> text[h].id,
            body |-> Stripped(WithoutPrompt(SubSeq(text, h + 1, Len(text))))]

ParseMessageList(text) ==
  [number |-> 0, body |-> Only(text, RowTypes)]

Return ==
  /\ pc = "parse"
  /\ pc' = "end"
  /\ result' = IF method = "list" THEN ParseMessageList(heard \o cut)
               ELSE ParseMessage(heard \o cut)
  /\ UNCHANGED <<callVars, heard, cut, outcome, line, air, link, asked, calling>>

Tnc == LinkMade \/ LinkRefused \/ Takes \/ Arrive \/ LinkEnds

Driver ==
  \/ Name \/ NameFails \/ Connect \/ Connected \/ ConnectFails \/ ConnectTimesOut
  \/ SendCommand \/ Slice \/ PollTimesOut
  \/ CtrlC \/ Disconne \/ Disconnected \/ DisconnectTimesOut \/ Return

Next == Tnc \/ Driver

Spec == Init /\ [][Next]_vars

-----------------------------------------------------------------------------
Tokens ==
  [t : {"connected", "refused", "signon", "prompt", "column", "row", "not found", "header",
        "body", "blank", "echo", "banner", "cmd", "EH?", "can't", "rest",
        "stub", "cut row", "cut header", "cut body"},
   id : Nat]

TypeOK ==
  /\ pc \in {"name", "connect", "await", "send", "poll", "ctrlC", "prompt", "banner",
             "parse", "end"}
  /\ outcome \in {"returned", "refused", "timeout"}
  /\ heard \in Seq(Tokens) /\ cut \in Seq(Tokens) /\ line \in Seq(Tokens) /\ air \in Seq(Tokens)
  /\ result \in [number : Nat, body : Seq(Tokens)]
  /\ link \in BOOLEAN /\ asked \in BOOLEAN /\ calling \in BOOLEAN
  /\ asked => link

Returned(m) == pc = "end" /\ method = m /\ outcome = "returned"
Answered == \E i \in 1..Len(heard) : heard[i] = Prompt(2)

\* A call that returns has ended its link, whatever the mailbox said or failed to
\* say: the next command does not go to the mailbox as text.
PbbsEndsDisconnected == pc = "end" /\ outcome # "timeout" => ~link /\ ~calling

\* list_pbbs_messages() returns messages of the mailbox in its order, from the first
\* one and without a gap.  Only the last can have lost the end of its row, and no row
\* is lost or cut when the answer's own prompt was collected.
ListedIsStored ==
  Returned("list") =>
    /\ Len(result.body) <= stored
    /\ \A i \in 1..Len(result.body) :
         \/ result.body[i] = Rows[i]
         \/ i = Len(result.body) /\ result.body[i] = [Rows[i] EXCEPT !.t = "cut row"]
    /\ Answered => result.body = Rows

\* read_pbbs_message() returns the message asked for or none, and its whole body but
\* for empty lines at its ends, with nothing of the sign-on, when the answer's own
\* prompt was collected and nothing of a hang-up after it.
ReadIsStored ==
  Returned("read") =>
    /\ result # Nothing => result.number = number
    /\ Answered => \/ result.body = (IF number <= stored THEN Stripped(BodyOf(number)) ELSE <<>>)
                   \/ Has(heard, "banner") \/ cut # <<>>

\* _collect_pbbs_response(): the prompt "reappears (meaning it's finished and waiting
\* for the next command)".  Not when the prompt is the sign-on's (README, section 5),
\* and no run checks it.
PromptMeansFinished ==
  Returned("list") /\ Has(heard, "prompt") => result.body = Rows
=============================================================================
