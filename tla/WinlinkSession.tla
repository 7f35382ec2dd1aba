---------------------------- MODULE WinlinkSession ----------------------------
(***************************************************************************)
(* kamxl.py: check_winlink_mail() and send_winlink_message(), over a       *)
(* connected-mode link to a Winlink gateway.  The driver polls what the    *)
(* KAM-XL prints in slices of any length until it sees what a stage of the *)
(* exchange ends with, or until the stage times out, which is no error:    *)
(* the exchange goes on with what was heard.                               *)
(*                                                                         *)
(* What the KAM-XL prints is a sequence of tokens: a line, or the piece of *)
(* a line that the driver can see without the rest.  No message has a line *)
(* that looks like one of the protocol's own.                              *)
(***************************************************************************)
EXTENDS Naturals, Sequences, SequencesExt, FiniteSetsExt, Subsequence

CONSTANT MaxMail    \* bound: messages in one session, at most 5 in the code

ASSUME MailAssumption == MaxMail \in Nat \ {0}

VARIABLES
  method,     \* "check" or "send"
  echo,       \* the KAM-XL echoes what it is sent in connected mode
  mail,       \* the tier, "FB" or "FC", of each message the gateway has for us
  outbox,     \* how many messages send_winlink_message() was given
  pc,         \* where the driver is
  stage,      \* the exchange's stage it polls in
  heard,      \* the tokens of this stage
  proposals,  \* the proposals it answered: [tier, id]
  uploads,    \* the accepted messages it has still to send
  result,     \* the list to return
  outcome,    \* how the call is going to end
  gone,       \* gateway_already_disconnected
  late,       \* history: a stage timed out before all it waited for had arrived
  line,       \* printed by the KAM-XL, and not yet read
  link,       \* the KAM-XL is connected to the gateway
  air,        \* on the air to the KAM-XL, and the banner after it
  up,         \* sent to the gateway, and not yet taken by it
  gw,         \* where the gateway is in the exchange
  challenged, \* it asked for a secure login
  took        \* history: its answers to our proposals

driverVars == <<pc, stage, heard, proposals, uploads, result, outcome, gone, late>>
gatewayVars == <<gw, challenged, took>>
sessionVars == <<method, echo, mail, outbox>>
vars == <<sessionVars, driverVars, line, link, air, up, gatewayVars>>

Tok(t) == [t |-> t, id |-> 0]
Has(text, t) == \E i \in 1..Len(text) : text[i].t = t

\* The line that ends a block of proposals, and what may arrive after its "F>".
EndOfBlock == <<Tok("F>"), Tok("eol")>>
Offer(tiers) == [i \in 1..Len(tiers) |-> [t |-> tiers[i], id |-> i]] \o EndOfBlock
Message(i) == <<[t |-> "head", id |-> i], [t |-> "tail", id |-> i]>>
Messages(n) == [k \in 1..(2 * n) |-> Message((k + 1) \div 2)[IF k % 2 = 1 THEN 1 ELSE 2]]
Answers(codes) == <<Tok("FS")>> \o [i \in 1..Len(codes) |-> Tok(codes[i])] \o <<Tok("eol")>>
Codes == {"+", "-", "="}
HungUp == <<Tok("banner"), Tok("cmd")>>

Init ==
  /\ method \in {"check", "send"}
  /\ echo \in BOOLEAN
  /\ mail \in UNION {[1..n -> {"FB", "FC"}] : n \in 0..MaxMail}
  /\ outbox \in IF method = "send" THEN 1..MaxMail ELSE {0}
  /\ method = "send" => Len(mail) <= 1
  /\ pc = "poll"
  /\ stage = "handshake"
  /\ heard = <<>>
  /\ proposals = <<>>
  /\ uploads = <<>>
  /\ result = <<>>
  /\ outcome = "returned"
  /\ gone = FALSE
  /\ late = FALSE
  /\ line = <<>>
  /\ link = TRUE
  /\ air = <<>>
  /\ up = <<>>
  /\ gw = "greet"
  /\ challenged = FALSE
  /\ took = <<>>

-----------------------------------------------------------------------------
(***************************************************************************)
(* The gateway and the KAM-XL.  The gateway keeps to the protocol as long  *)
(* as the driver does, and may hang up, or fall silent, at any moment.     *)
(***************************************************************************)
GatewaySays(text, next) ==
  /\ air' = air \o text
  /\ gw' = next
  /\ UNCHANGED <<sessionVars, driverVars, line, link>>

Greet ==
  /\ gw = "greet"
  /\ challenged' \in BOOLEAN
  /\ GatewaySays((IF challenged' THEN <<Tok("challenge")>> ELSE <<>>)
                   \o <<Tok("prompt")>>, "login")
  /\ UNCHANGED <<up, took>>

Takes(t) == up # <<>> /\ Head(up).t = t /\ up' = Tail(up)

\* The login comes with our proposals, or with FF: it is the gateway's turn.
TakeLogin ==
  /\ gw = "login"
  /\ Takes("login")
  /\ challenged => Head(up).pr
  /\ \/ /\ Head(up).n = 0 /\ mail = <<>>
        /\ GatewaySays(<<Tok("FQ")>>, "over")
        /\ UNCHANGED took
     \/ /\ Head(up).n = 0 /\ mail # <<>>
        /\ GatewaySays(Offer(mail), "offered")
        /\ UNCHANGED took
     \/ /\ Head(up).n > 0
        /\ took' \in [1..Head(up).n -> Codes]
        /\ GatewaySays(Answers(took'), "receive")
  /\ UNCHANGED challenged

\* Our FS line accepts every proposal: the messages follow.
TakeFS ==
  /\ gw = "offered"
  /\ Takes("FS")
  /\ Head(up).n = Len(mail)
  /\ GatewaySays(Messages(Len(mail)), "over")
  /\ UNCHANGED <<challenged, took>>

TakeBlock ==
  /\ gw = "receive"
  /\ Takes("block")
  /\ UNCHANGED <<sessionVars, driverVars, line, link, air, gatewayVars>>

\* It has all the messages it accepted, and offers its own or says it has none.
Reciprocate ==
  /\ gw = "receive"
  /\ up = <<>>
  /\ \/ GatewaySays(<<Tok("FF")>>, "over")
     \/ GatewaySays(<<Tok("FQ")>>, "over")
     \/ mail # <<>> /\ GatewaySays(Offer(mail), "over")
  /\ UNCHANGED <<up, challenged, took>>

\* The link ends, with all or part of what was under way delivered.
HangUp ==
  /\ gw # "gone"
  /\ gw' = "gone"
  /\ \E n \in 0..Len(air) : air' = SubSeq(air, 1, n) \o HungUp
  /\ UNCHANGED <<sessionVars, driverVars, line, link, up, challenged, took>>

Arrive ==
  /\ air # <<>>
  /\ air' = Tail(air)
  /\ line' = Append(line, Head(air))
  /\ link' = (link /\ Head(air).t # "banner")
  /\ UNCHANGED <<sessionVars, driverVars, up, gatewayVars>>

\* What the KAM-XL prints of what it is sent.
Text(unit) ==
  CASE unit.t = "login" ->
         <<Tok("login")>> \o (IF unit.n = 0 THEN <<Tok("FF")>>
                              ELSE Offer([i \in 1..unit.n |-> "FC"]))
    [] unit.t = "FS" -> Answers([i \in 1..unit.n |-> unit.code])
    [] unit.t = "block" -> Message(unit.n)

Echoed(unit) == IF echo THEN Text(unit) ELSE <<>>

\* send_connected(), send_connected_bytes(): without a link it is a command, and a
\* bad one.
Send(unit) ==
  IF link
  THEN /\ up' = Append(up, unit)
       /\ line' = line \o Echoed(unit)
  ELSE /\ line' = line \o Echoed(unit) \o <<Tok("EH?"), Tok("cmd")>>
       /\ UNCHANGED up

-----------------------------------------------------------------------------
(***************************************************************************)
(* What the driver looks for in the text (winlink.py).                     *)
(***************************************************************************)
\* Mutant: FF counts as the end of the gateway's block, though it may be our own.
HasEndOfBlock_FF(text) == Has(text, "F>") \/ Has(text, "FF")
HasEndOfBlock(text) == Has(text, "F>")

\* Mutant: the proposals are listed from the last to the first.
ParseProposals_Reversed(text) ==
  LET offers == Reverse(Only(text, {"FB", "FC"}))
  IN  [i \in 1..Len(offers) |-> [tier |-> offers[i].t, id |-> offers[i].id]]

\* parse_any_proposals()
ParseProposals(text) ==
  LET offers == Only(text, {"FB", "FC"})
  IN  [i \in 1..Len(offers) |-> [tier |-> offers[i].t, id |-> offers[i].id]]

\* The answers in the first line that starts with FS, complete or not.
FsAnswers(text) ==
  LET start == Min({i \in 1..Len(text) : text[i].t = "FS"})
      ends  == {i \in start..Len(text) : text[i].t = "eol"}
      last  == IF ends = {} THEN Len(text) ELSE Min(ends) - 1
  IN  [i \in 1..(last - start) |-> text[start + i].t]

\* parse_b2_blocks(): whole blocks from the very first byte on, and then nothing.
B2Blocks(text, count) ==
  LET Whole(k) == \A i \in 1..k :
        /\ 2 * i <= Len(text)
        /\ text[2 * i - 1].t = "head" /\ text[2 * i].t = "tail"
      most == Max({k \in 0..count : Whole(k)})
  IN  [i \in 1..most |-> [title |-> text[2 * i - 1], id |-> text[2 * i].id]]

\* A block that starts, and goes on with something else than a chunk.
B2Broken(text, count) ==
  LET next == 2 * Len(B2Blocks(text, count)) + 1
  IN  /\ next <= 2 * count
      /\ next < Len(text) /\ text[next].t = "head" /\ text[next + 1].t # "tail"

\* Mutant: what follows the last Ctrl-Z counts as a block too.
SplitMessages_Rest(text, count) ==
  LET ends == {0} \union Places(text, {"tail"}) \union {Len(text)}
      cuts == SetToSortSeq(ends, <)
  IN  [k \in 1..Min({Len(cuts) - 1, count}) |->
         [title |-> text[cuts[k] + 1], id |-> text[cuts[k + 1]].id]]

\* split_message_blocks(): the texts between one Ctrl-Z and the next, without the
\* line ends they start with; the first line of each is its title.
SplitMessages(text, count) ==
  LET ends == Ascending(Len(text), Places(text, {"tail"}))
      From(k) == IF k = 1 THEN 1 ELSE ends[k - 1] + 1
      Title(k) == text[Min({i \in From(k)..ends[k] : text[i].t # "eol"})]
  IN  [k \in 1..Min({Len(ends), count}) |->
         [title |-> Title(k), id |-> text[ends[k]].id]]

IsB2 == \E i \in 1..Len(proposals) : proposals[i].tier = "FC"
Blocks(text) ==
  IF IsB2 THEN B2Blocks(text, Len(proposals)) ELSE SplitMessages(text, Len(proposals))

\* done(), of the stage's poll.
Done(text) ==
  CASE stage = "handshake"  -> text # <<>> /\ Last(text).t = "prompt"
    [] stage = "proposals"  -> HasEndOfBlock(text) \/ Has(text, "FQ")
    [] stage = "messages"   -> Len(Blocks(text)) >= Len(proposals)
    [] stage = "FS"         -> Has(text, "FS")
    [] stage = "reciprocal" -> HasEndOfBlock(text) \/ Has(text, "FQ") \/ Has(text, "FF")

-----------------------------------------------------------------------------
(***************************************************************************)
(* _poll_until() and _poll_until_bytes().                                  *)
(***************************************************************************)
Slice ==
  /\ pc = "poll"
  /\ line # <<>>
  /\ heard' = heard \o line
  /\ line' = <<>>
  /\ pc' = IF Done(heard') THEN "act" ELSE "poll"
  /\ UNCHANGED <<sessionVars, stage, proposals, uploads, result, outcome, gone,
                 late, link, air, up, gatewayVars>>

\* The gateway has said all it has to say before we speak again.
AllArrived ==
  /\ line = <<>> /\ air = <<>> /\ up = <<>>
  /\ gw \notin {"greet", "receive"}

PollTimesOut ==
  /\ pc = "poll"
  /\ pc' = "act"
  /\ late' = (late \/ ~AllArrived)
  /\ UNCHANGED <<sessionVars, stage, heard, proposals, uploads, result, outcome,
                 gone, line, link, air, up, gatewayVars>>

NextStage(s) ==
  /\ stage' = s
  /\ heard' = <<>>
  /\ pc' = "poll"

\* Mutant: the link is left alone whenever there is nothing to be had from it.
AfterTry_Empty == IF gone' \/ result' = <<>> THEN "end" ELSE "ctrlC"
AfterTry == IF gone' THEN "end" ELSE "ctrlC"

\* The try block is left, for the finally clause.
Leave(how, list, disconnected) ==
  /\ outcome' = how
  /\ result' = list
  /\ gone' = disconnected
  /\ pc' = AfterTry
  /\ UNCHANGED <<stage, heard, proposals, uploads, late>>

\* done() raises WinlinkProtocolError when a block is cut where a chunk should
\* start; when it is cut inside a chunk, what follows is taken for the chunk.
PollRaises ==
  /\ pc = "poll" /\ stage = "messages"
  /\ IsB2 /\ B2Broken(heard \o line, Len(proposals))
  /\ line' = <<>>
  /\ Leave("protocol", <<>>, FALSE)
  /\ UNCHANGED <<sessionVars, link, air, up, gatewayVars>>

\* _raise_if_gateway_hung_up()
Hung == Has(heard, "banner")

RaiseHungUp ==
  /\ pc = "act"
  /\ Hung
  /\ Leave("connection", <<>>, TRUE)
  /\ UNCHANGED <<sessionVars, line, link, air, up, gatewayVars>>

Acting(s) == pc = "act" /\ stage = s /\ ~Hung

-----------------------------------------------------------------------------
(***************************************************************************)
(* The stages.                                                             *)
(***************************************************************************)
Login ==
  /\ Acting("handshake")
  /\ Send([t |-> "login", pr |-> Has(heard, "challenge"), n |-> outbox])
  /\ NextStage(IF method = "check" THEN "proposals" ELSE "FS")
  /\ UNCHANGED <<sessionVars, proposals, uploads, result, outcome, gone, late,
                 link, air, gatewayVars>>

Mixed(offers) ==
  {"FB", "FC"} \subseteq {offers[i].tier : i \in 1..Len(offers)}

\* FQ, or no proposal in what was heard: there is no mail.
NoMail ==
  /\ Acting("proposals")
  /\ Has(heard, "FQ") \/ ParseProposals(heard) = <<>>
  /\ Leave("returned", <<>>, FALSE)
  /\ UNCHANGED <<sessionVars, line, link, air, up, gatewayVars>>

MixedBatch ==
  /\ Acting("proposals")
  /\ ~Has(heard, "FQ") /\ Mixed(ParseProposals(heard))
  /\ Leave("protocol", <<>>, FALSE)
  /\ UNCHANGED <<sessionVars, line, link, air, up, gatewayVars>>

AcceptAll ==
  /\ Acting("proposals")
  /\ LET offers == ParseProposals(heard)
     IN  /\ ~Has(heard, "FQ") /\ offers # <<>> /\ ~Mixed(offers)
         /\ proposals' = offers
         /\ Send([t |-> "FS", n |-> Len(offers), code |-> "+"])
  /\ NextStage("messages")
  /\ UNCHANGED <<sessionVars, uploads, result, outcome, gone, late, link, air,
                 gatewayVars>>

\* zip(blocks, proposals)
TakeMessages ==
  /\ Acting("messages")
  /\ LET blocks == Blocks(heard)
     IN  Leave("returned", [k \in 1..Len(blocks) |->
                              [title |-> blocks[k].title, id |-> blocks[k].id,
                               proposal |-> proposals[k].id]], FALSE)
  /\ UNCHANGED <<sessionVars, line, link, air, up, gatewayVars>>

\* Mutant: a deferred message is uploaded like an accepted one.
IsAccept_Deferred(code) == code # "-"
IsAccept(code) == code = "+"

\* No FS line, or one with the wrong number of answers.
BadAnswer ==
  /\ Acting("FS")
  /\ Has(heard, "FS") => Len(FsAnswers(heard)) # outbox
  /\ Leave("protocol", <<>>, FALSE)
  /\ UNCHANGED <<sessionVars, line, link, air, up, gatewayVars>>

GoodAnswer ==
  /\ Acting("FS")
  /\ Has(heard, "FS")
  /\ LET codes == FsAnswers(heard)
     IN  /\ Len(codes) = outbox
         /\ uploads' = Ascending(outbox, {i \in 1..outbox : IsAccept(codes[i])})
  /\ pc' = "upload"
  /\ UNCHANGED <<sessionVars, stage, heard, proposals, result, outcome, gone, late,
                 line, link, air, up, gatewayVars>>

\* One block, and its MID goes to the list of accepted ones.
Upload ==
  /\ pc = "upload"
  /\ IF uploads = <<>>
     THEN /\ NextStage("reciprocal")
          /\ UNCHANGED <<uploads, result, line, up>>
     ELSE /\ Send([t |-> "block", n |-> Head(uploads)])
          /\ uploads' = Tail(uploads)
          /\ result' = Append(result, [title |-> Tok("head"), id |-> Head(uploads),
                                       proposal |-> Head(uploads)])
          /\ UNCHANGED <<pc, stage, heard>>
  /\ UNCHANGED <<sessionVars, proposals, outcome, gone, late, link, air,
                 gatewayVars>>

\* Whatever the gateway offers is declined.
Decline ==
  /\ Acting("reciprocal")
  /\ LET offers == ParseProposals(heard)
     IN  IF HasEndOfBlock(heard) /\ offers # <<>>
         THEN Send([t |-> "FS", n |-> Len(offers), code |-> "-"])
         ELSE UNCHANGED <<line, up>>
  /\ Leave("returned", result, FALSE)
  /\ UNCHANGED <<sessionVars, link, air, gatewayVars>>

-----------------------------------------------------------------------------
(***************************************************************************)
(* finally: disconnect_station().                                          *)
(***************************************************************************)
\* _drain_input(), then Ctrl-C, which in Command mode makes no new prompt.
CtrlC ==
  /\ pc = "ctrlC"
  /\ line' = IF link THEN <<Tok("cmd")>> ELSE <<>>
  /\ pc' = "awaitCmd"
  /\ UNCHANGED <<sessionVars, stage, heard, proposals, uploads, result, outcome, gone,
                 late, link, air, up, gatewayVars>>

\* _drain_input(), then DISCONNE: the KAM-XL ends the link, unless it has none.
Disconne ==
  /\ pc = "awaitCmd"
  /\ Has(line, "cmd")
  /\ pc' = "awaitBanner"
  /\ IF link
     THEN /\ line' = <<>>
          /\ gw' = "gone"
          /\ air' = IF gw = "gone" THEN air ELSE HungUp
     ELSE /\ line' = <<Tok("can't"), Tok("cmd")>>
          /\ UNCHANGED <<gw, air>>
  /\ UNCHANGED <<sessionVars, stage, heard, proposals, uploads, result, outcome,
                 gone, late, link, up, challenged, took>>

Disconnected ==
  /\ pc = "awaitBanner"
  /\ Has(line, "banner") \/ Has(line, "can't")
  /\ line' = <<>>
  /\ pc' = "end"
  /\ UNCHANGED <<sessionVars, stage, heard, proposals, uploads, result, outcome,
                 gone, late, link, air, up, gatewayVars>>

\* KAMTimeoutError takes the place of whatever the call was about to do.
DisconnectTimesOut ==
  /\ \/ pc = "awaitCmd" /\ ~Has(line, "cmd")
     \/ pc = "awaitBanner" /\ ~Has(line, "banner") /\ ~Has(line, "can't")
  /\ outcome' = "timeout"
  /\ result' = <<>>
  /\ pc' = "end"
  /\ UNCHANGED <<sessionVars, stage, heard, proposals, uploads, gone, late, line,
                 link, air, up, gatewayVars>>

Gateway == Greet \/ TakeLogin \/ TakeFS \/ TakeBlock \/ Reciprocate \/ HangUp

Driver ==
  \/ Slice \/ PollTimesOut \/ PollRaises \/ RaiseHungUp
  \/ Login \/ NoMail \/ MixedBatch \/ AcceptAll \/ TakeMessages
  \/ BadAnswer \/ GoodAnswer \/ Upload \/ Decline
  \/ CtrlC \/ Disconne \/ Disconnected \/ DisconnectTimesOut

Next == Gateway \/ Arrive \/ Driver

Spec == Init /\ [][Next]_vars

-----------------------------------------------------------------------------
TokTypes == {"challenge", "prompt", "FB", "FC", "F>", "eol", "FQ", "FF", "FS", "+",
             "-", "=", "head", "tail", "login", "banner", "cmd", "EH?", "can't"}
Tokens == [t : TokTypes, id : 0..MaxMail]

TypeOK ==
  /\ heard \in Seq(Tokens) /\ line \in Seq(Tokens) /\ air \in Seq(Tokens)
  /\ pc \in {"poll", "act", "upload", "ctrlC", "awaitCmd", "awaitBanner", "end"}
  /\ stage \in {"handshake", "proposals", "messages", "FS", "reciprocal"}
  /\ proposals \in Seq([tier : {"FB", "FC"}, id : 1..MaxMail])
  /\ uploads \in Seq(1..MaxMail)
  /\ result \in Seq([title : Tokens, id : 1..MaxMail, proposal : 1..MaxMail])
  /\ outcome \in {"returned", "connection", "protocol", "timeout"}
  /\ gone \in BOOLEAN /\ late \in BOOLEAN /\ link \in BOOLEAN
  /\ gw \in {"greet", "login", "offered", "receive", "over", "gone"}
  /\ challenged \in BOOLEAN
  /\ took \in Seq(Codes)

Returned(m) == pc = "end" /\ method = m /\ outcome = "returned"
Ids(list) == [k \in 1..Len(list) |-> list[k].id]

\* However the call ends, short of a disconnect_station() that timed out, it leaves
\* no link behind, on which the next command would be sent to the gateway as text.
SessionEndsDisconnected == pc = "end" /\ outcome # "timeout" => ~link

\* A returned message is the one its proposal announced, also when a stage timed
\* out and the texts of two stages are read together.
MessagesMeetTheirProposals ==
  Returned("check") => \A k \in 1..Len(result) : result[k].id = result[k].proposal

\* parse_b2_blocks() needs a block's first byte where the stage's text starts: it
\* finds nothing after an echo, or after the rest of a line that "F>" was read of.
Readable == stage = "messages" /\ IsB2 => heard # <<>> /\ heard[1].t = "head"

\* A call in which no stage timed out too early, and that could read the blocks,
\* returns all the mail the gateway had: neither its own echo nor a slice that ends
\* anywhere makes it stop before the gateway is through.
NoMailIsLost ==
  Returned("check") /\ ~late /\ Readable => Ids(result) = [i \in 1..Len(mail) |-> i]

\* The MIDs that send_winlink_message() returns are those of the messages the
\* gateway accepted, in order, and only those are uploaded.
SentIsWhatWasAccepted ==
  LET accepted == Ascending(Len(took), {i \in 1..Len(took) : took[i] = "+"})
  IN  /\ Returned("send") => Ids(result) = accepted
      /\ \A i \in 1..Len(up) : up[i].t = "block" => took[up[i].n] = "+"

\* "download whatever mail is waiting": a call that had all the time it needed, and
\* that returns, returns all of it.
WaitingMailIsReturned ==
  Returned("check") /\ ~late => Ids(result) = [i \in 1..Len(mail) |-> i]
=============================================================================
