------------------------ MODULE WinlinkSessionProofs ------------------------
(***************************************************************************)
(* Theorems about WinlinkSession, for any number of messages.              *)
(***************************************************************************)
EXTENDS WinlinkSession, SubsequenceProofs, SequenceTheorems, TLAPS

(***************************************************************************)
(* The tokens of each speaker.  A token with a number has one of a message.*)
(***************************************************************************)
Numbered == {"FB", "FC", "head", "tail"}
Printed == {x \in Tokens : x.t \in Numbered => x.id # 0}
\* What says nothing of the link, and what the KAM-XL receives on the air.
Quiet == {x \in Printed : x.t \notin {"banner", "can't"}}
Aired == {x \in Printed : x.t # "can't"}

Units == [t : {"login"}, pr : BOOLEAN, n : 0..MaxMail]
           \cup [t : {"FS"}, n : Nat, code : {"+", "-"}]
           \cup [t : {"block"}, n : 1..MaxMail]

LEMMA PlainTok ==
  \A t \in TokTypes \ (Numbered \cup {"banner", "can't"}) : Tok(t) \in Quiet
BY MailAssumption DEF Tok, Quiet, Printed, Tokens, TokTypes, Numbered

LEMMA QuietIs ==
  Quiet \subseteq Aired /\ Aired \subseteq Printed /\ Quiet \subseteq Printed
    /\ Printed \subseteq Tokens
BY DEF Quiet, Aired, Printed

LEMMA Widen ==
  ASSUME NEW s
  PROVE  /\ s \in Seq(Quiet) => s \in Seq(Aired) /\ s \in Seq(Printed)
         /\ s \in Seq(Aired) => s \in Seq(Printed)
         /\ s \in Seq(Printed) => s \in Seq(Tokens)
BY QuietIs, SeqMonotonic

LEMMA QuietOffer ==
  ASSUME NEW n \in 0..MaxMail, NEW tiers \in [1..n -> {"FB", "FC"}]
  PROVE  Offer(tiers) \in Seq(Quiet)
<1> DEFINE lines == [i \in 1..Len(tiers) |-> [t |-> tiers[i], id |-> i]]
<1>1. n \in Nat /\ tiers \in Seq({"FB", "FC"}) /\ Len(tiers) = n
  BY MailAssumption
<1>2. \A i \in 1..Len(tiers) : [t |-> tiers[i], id |-> i] \in Quiet
  <2> SUFFICES ASSUME NEW i \in 1..Len(tiers) PROVE [t |-> tiers[i], id |-> i] \in Quiet
    OBVIOUS
  <2>1. tiers[i] \in {"FB", "FC"} /\ i \in 1..MaxMail
    BY <1>1, MailAssumption
  <2> QED BY <2>1 DEF Quiet, Printed, Tokens, TokTypes, Numbered
<1>3. lines \in Seq(Quiet)
  BY <1>1, <1>2
<1>4. EndOfBlock \in Seq(Quiet)
  <2>1. Tok("F>") \in Quiet /\ Tok("eol") \in Quiet
    BY PlainTok DEF TokTypes, Numbered
  <2> QED BY <2>1 DEF EndOfBlock
<1> HIDE DEF lines
<1>5. lines \o EndOfBlock \in Seq(Quiet)
  BY <1>3, <1>4, ConcatProperties
<1> QED
  BY <1>5, Zenon DEF Offer, lines

LEMMA QuietMessage ==
  ASSUME NEW i \in 1..MaxMail
  PROVE  Message(i) \in Seq(Quiet) /\ Len(Message(i)) = 2
<1>1. [t |-> "head", id |-> i] \in Quiet /\ [t |-> "tail", id |-> i] \in Quiet
  BY MailAssumption DEF Quiet, Printed, Tokens, TokTypes, Numbered
<1> QED
  BY <1>1 DEF Message

LEMMA QuietMessages ==
  ASSUME NEW n \in 0..MaxMail
  PROVE  Messages(n) \in Seq(Quiet)
<1>1. ASSUME NEW k \in 1..(2 * n)
      PROVE  Message((k + 1) \div 2)[IF k % 2 = 1 THEN 1 ELSE 2] \in Quiet
  <2>1. (k + 1) \div 2 \in 1..MaxMail
    BY MailAssumption
  <2>2. Message((k + 1) \div 2) \in Seq(Quiet) /\ Len(Message((k + 1) \div 2)) = 2
    BY <2>1, QuietMessage
  <2> QED BY <2>2
<1>2. 2 * n \in Nat
  BY MailAssumption
<1> QED
  BY <1>1, <1>2 DEF Messages

LEMMA QuietAnswers ==
  ASSUME NEW codes \in Seq(Codes)
  PROVE  Answers(codes) \in Seq(Quiet)
<1> DEFINE said == [i \in 1..Len(codes) |-> Tok(codes[i])]
           fs == <<Tok("FS")>>
           eol == <<Tok("eol")>>
<1>1. \A i \in 1..Len(codes) : Tok(codes[i]) \in Quiet
  BY PlainTok DEF Codes, TokTypes, Numbered
<1>2. said \in Seq(Quiet)
  BY <1>1
<1>3. fs \in Seq(Quiet) /\ eol \in Seq(Quiet)
  <2>1. Tok("FS") \in Quiet /\ Tok("eol") \in Quiet
    BY PlainTok DEF TokTypes, Numbered
  <2> QED BY <2>1
<1>4. Answers(codes) = fs \o said \o eol
  BY DEF Answers
<1> HIDE DEF said, fs, eol
<1>5. fs \o said \in Seq(Quiet)
  BY <1>2, <1>3, ConcatProperties
<1>6. fs \o said \o eol \in Seq(Quiet)
  BY <1>3, <1>5, ConcatProperties
<1> QED
  BY <1>4, <1>6

LEMMA QuietEcho ==
  ASSUME NEW unit \in Units
  PROVE  Echoed(unit) \in Seq(Quiet)
<1>1. CASE unit \in [t : {"login"}, pr : BOOLEAN, n : 0..MaxMail]
  <2> DEFINE first == <<Tok("login")>>
             ff == <<Tok("FF")>>
             offer == Offer([i \in 1..unit.n |-> "FC"])
  <2>1. Tok("login") \in Quiet /\ Tok("FF") \in Quiet
    BY PlainTok DEF TokTypes, Numbered
  <2>2. first \in Seq(Quiet) /\ ff \in Seq(Quiet)
    BY <2>1
  <2>3. offer \in Seq(Quiet)
    <3>1. unit.n \in 0..MaxMail /\ [i \in 1..unit.n |-> "FC"] \in [1..unit.n -> {"FB", "FC"}]
      BY <1>1
    <3> QED BY <3>1, QuietOffer
  <2>4. Text(unit) = first \o (IF unit.n = 0 THEN ff ELSE offer)
    BY <1>1 DEF Text
  <2> HIDE DEF first, ff, offer
  <2>5. Text(unit) \in Seq(Quiet)
    BY <2>2, <2>3, <2>4, ConcatProperties
  <2> QED BY <2>5 DEF Echoed
<1>2. CASE unit \in [t : {"FS"}, n : Nat, code : {"+", "-"}]
  <2>1. [i \in 1..unit.n |-> unit.code] \in Seq(Codes)
    BY <1>2 DEF Codes
  <2>2. Text(unit) = Answers([i \in 1..unit.n |-> unit.code])
    BY <1>2 DEF Text
  <2> QED BY <2>1, <2>2, QuietAnswers DEF Echoed
<1>3. CASE unit \in [t : {"block"}, n : 1..MaxMail]
  <2>1. unit.n \in 1..MaxMail /\ Text(unit) = Message(unit.n)
    BY <1>3 DEF Text
  <2> QED BY <2>1, QuietMessage DEF Echoed
<1> QED
  BY <1>1, <1>2, <1>3 DEF Units

-----------------------------------------------------------------------------
(***************************************************************************)
(* The invariant, first part: types, and what the KAM-XL has said of its   *)
(* link is true of it.                                                     *)
(***************************************************************************)
Proposals == [tier : {"FB", "FC"}, id : 1..MaxMail]
Results == [title : Tokens, id : 1..MaxMail, proposal : 1..MaxMail]

CallTyped ==
  /\ method \in {"check", "send"} /\ echo \in BOOLEAN
  /\ mail \in Seq({"FB", "FC"}) /\ Len(mail) \in 0..MaxMail
  /\ outbox \in 0..MaxMail /\ (method = "send" <=> outbox # 0)

TextTyped ==
  /\ heard \in Seq(Printed) /\ line \in Seq(Printed) /\ air \in Seq(Aired)
  /\ up \in Seq(Units)

DriverTyped ==
  /\ pc \in {"poll", "act", "upload", "ctrlC", "awaitCmd", "awaitBanner", "end"}
  /\ stage \in {"handshake", "proposals", "messages", "FS", "reciprocal"}
  /\ proposals \in Seq(Proposals)
  /\ uploads \in Seq(1..MaxMail)
  /\ result \in Seq(Results)
  /\ outcome \in {"returned", "connection", "protocol", "timeout"}
  /\ gone \in BOOLEAN /\ late \in BOOLEAN

GatewayTyped ==
  /\ link \in BOOLEAN
  /\ gw \in {"greet", "login", "offered", "receive", "over", "gone"}
  /\ challenged \in BOOLEAN
  /\ took \in Seq(Codes)

Typed == CallTyped /\ TextTyped /\ DriverTyped /\ GatewayTyped

LinkInv ==
  /\ link => heard \in Seq(Quiet) /\ line \in Seq(Quiet)
  /\ gone => ~link
  /\ pc = "end" => outcome = "timeout" \/ ~link

BaseInv == Typed /\ LinkInv

LEMMA BaseStart == Init => BaseInv
<1> SUFFICES ASSUME Init PROVE BaseInv
  OBVIOUS
<1> USE MailAssumption
<1>1. CallTyped
  <2>1. PICK n \in 0..MaxMail : mail \in [1..n -> {"FB", "FC"}]
    BY DEF Init
  <2>2. mail \in Seq({"FB", "FC"}) /\ Len(mail) = n
    BY <2>1
  <2>3. outbox \in IF method = "send" THEN 1..MaxMail ELSE {0}
    BY DEF Init
  <2>4. outbox \in 0..MaxMail /\ (method = "send" <=> outbox # 0)
    BY <2>3
  <2> QED BY <2>2, <2>4 DEF Init, CallTyped
<1>2. TextTyped
  BY DEF Init, TextTyped
<1>3. DriverTyped
  <2>1. /\ pc = "poll" /\ stage = "handshake" /\ outcome = "returned"
        /\ proposals = <<>> /\ uploads = <<>> /\ result = <<>>
    BY DEF Init
  <2>2. gone \in BOOLEAN /\ late \in BOOLEAN
    BY Zenon DEF Init
  <2> QED BY <2>1, <2>2 DEF DriverTyped
<1>5. GatewayTyped
  <2>1. gw = "greet" /\ took = <<>>
    BY DEF Init
  <2>2. link \in BOOLEAN /\ challenged \in BOOLEAN
    BY Zenon DEF Init
  <2> QED BY <2>1, <2>2 DEF GatewayTyped
<1>4. LinkInv
  BY DEF Init, LinkInv
<1> QED
  BY <1>1, <1>2, <1>3, <1>4, <1>5 DEF BaseInv, Typed

\* What the gateway says is quiet, but for the banner, and goes on the air.
LEMMA GatewayStep ==
  ASSUME BaseInv, NEW text \in Seq(Quiet),
         NEW next \in {"login", "offered", "receive", "over"}, GatewaySays(text, next),
         up' \in Seq(Units), challenged' \in BOOLEAN, took' \in Seq(Codes)
  PROVE  BaseInv'
<1> USE DEF BaseInv, Typed
<1>1. air' = air \o text /\ gw' = next /\ UNCHANGED <<sessionVars, driverVars, line, link>>
  BY DEF GatewaySays
<1>2. air' \in Seq(Aired)
  BY <1>1, Widen, ConcatProperties DEF TextTyped
<1>3. TextTyped'
  BY <1>1, <1>2 DEF TextTyped, driverVars
<1>4. CallTyped' /\ DriverTyped' /\ GatewayTyped'
  BY <1>1 DEF CallTyped, DriverTyped, GatewayTyped, sessionVars, driverVars
<1>5. LinkInv'
  BY <1>1 DEF LinkInv, driverVars
<1> QED
  BY <1>3, <1>4, <1>5

\* A unit that the driver sends: what becomes of line and up, when nothing else of
\* the text changes.
LEMMA SendKeeps ==
  ASSUME BaseInv, NEW unit \in Units, Send(unit)
  PROVE  /\ up' \in Seq(Units)
         /\ line' \in Seq(Printed)
         /\ link => line' \in Seq(Quiet)
<1> USE DEF BaseInv, Typed, TextTyped
<1>1. Echoed(unit) \in Seq(Quiet) /\ Echoed(unit) \in Seq(Printed)
  BY QuietEcho, Widen
<1> DEFINE bad == <<Tok("EH?"), Tok("cmd")>>
           sent == Echoed(unit)
<1>2. bad \in Seq(Printed)
  <2>1. Tok("EH?") \in Printed /\ Tok("cmd") \in Printed
    BY PlainTok, QuietIs DEF TokTypes, Numbered
  <2> QED BY <2>1
<1>3. line \o sent \in Seq(Printed) /\ (line \in Seq(Quiet) => line \o sent \in Seq(Quiet))
  BY <1>1, ConcatProperties
<1>4. CASE link
  <2>1. up' = Append(up, unit) /\ line' = line \o sent
    BY <1>4 DEF Send
  <2>2. up' \in Seq(Units)
    BY <2>1
  <2>3. line \in Seq(Quiet)
    BY <1>4 DEF LinkInv
  <2> HIDE DEF sent
  <2> QED BY <2>1, <2>2, <2>3, <1>3
<1>5. CASE ~link
  <2>1. up' = up /\ line' = (line \o sent) \o bad
    BY <1>5 DEF Send
  <2> HIDE DEF sent, bad
  <2>2. (line \o sent) \o bad \in Seq(Printed)
    BY <1>2, <1>3, ConcatProperties
  <2> QED BY <1>5, <2>1, <2>2
<1> QED
  BY <1>4, <1>5 DEF GatewayTyped

LEMMA LeaveKeeps ==
  ASSUME BaseInv, NEW how \in {"returned", "connection", "protocol"},
         NEW list \in Seq(Results), NEW disconnected \in BOOLEAN, disconnected => ~link,
         Leave(how, list, disconnected),
         UNCHANGED <<sessionVars, link, air, gatewayVars>>,
         up' \in Seq(Units), line' \in Seq(Printed), link => line' \in Seq(Quiet)
  PROVE  BaseInv'
<1> USE DEF BaseInv, Typed
<1>1. /\ outcome' = how /\ result' = list /\ gone' = disconnected
      /\ pc' = IF disconnected THEN "end" ELSE "ctrlC"
      /\ UNCHANGED <<stage, heard, proposals, uploads, late>>
  BY DEF Leave, AfterTry
<1>2. CallTyped' /\ TextTyped'
  BY <1>1 DEF CallTyped, TextTyped, sessionVars
<1>3. GatewayTyped'
  BY DEF GatewayTyped, gatewayVars
<1>4. DriverTyped'
  <2>1. gone' \in BOOLEAN /\ late' \in BOOLEAN
    BY <1>1, Zenon DEF DriverTyped
  <2>2. pc' \in {"end", "ctrlC"} /\ outcome' \in {"returned", "connection", "protocol"}
        /\ result' \in Seq(Results)
    BY <1>1
  <2>3. UNCHANGED <<stage, proposals, uploads>>
    BY <1>1
  <2> QED BY <2>1, <2>2, <2>3 DEF DriverTyped
<1>5. LinkInv'
  BY <1>1 DEF LinkInv
<1> QED
  BY <1>2, <1>3, <1>4, <1>5

-----------------------------------------------------------------------------
(***************************************************************************)
(* What the driver reads in the text.                                      *)
(***************************************************************************)
\* What Only keeps is of the types asked for.
LEMMA OnlyTypes ==
  ASSUME NEW s \in Seq(Printed), NEW types
  PROVE  Only(s, types) \in Seq({x \in Printed : x.t \in types})
<1> DEFINE K == {x \in Printed : x.t \in types}
           P == {u \in Seq(Printed) : Only(u, types) \in Seq(K)}
<1>1. <<>> \in P
  <2>1. <<>> \in Seq(Printed) /\ <<>> \in Seq(K)
    OBVIOUS
  <2> QED BY <2>1, OnlyEmpty, Zenon
<1>2. ASSUME NEW u \in Seq(Printed), NEW x \in Printed, u \in P PROVE Append(u, x) \in P
  <2> DEFINE a == Only(u, types)
             b == Only(Append(u, x), types)
  <2>1. b = IF x.t \in types THEN Append(a, x) ELSE a
    BY OnlyAppend
  <2>2. a \in Seq(K) /\ (x.t \in types => x \in K)
    BY <1>2
  <2> HIDE DEF a, b, K
  <2>3. b \in Seq(K)
    BY <2>1, <2>2
  <2>4. Append(u, x) \in Seq(Printed)
    OBVIOUS
  <2> QED BY <2>3, <2>4 DEF b
<1> HIDE DEF P
<1>3. Seq(Printed) \subseteq P
  BY <1>1, <1>2, SeqInd
<1> QED
  BY <1>3 DEF P

LEMMA ProposalsTyped ==
  ASSUME NEW s \in Seq(Printed)
  PROVE  /\ ParseProposals(s) \in Seq(Proposals)
         /\ Len(ParseProposals(s)) = Len(Only(s, {"FB", "FC"}))
         /\ \A i \in 1..Len(ParseProposals(s)) :
              ParseProposals(s)[i] = [tier |-> Only(s, {"FB", "FC"})[i].t,
                                      id |-> Only(s, {"FB", "FC"})[i].id]
<1> DEFINE o == Only(s, {"FB", "FC"})
           K == {x \in Printed : x.t \in {"FB", "FC"}}
<1>1. o \in Seq(K)
  BY OnlyTypes
<1>2. ParseProposals(s) = [i \in 1..Len(o) |-> [tier |-> o[i].t, id |-> o[i].id]]
  BY DEF ParseProposals
<1> HIDE DEF o
<1>3. \A i \in 1..Len(o) : o[i].t \in {"FB", "FC"} /\ o[i].id \in 1..MaxMail
  <2> SUFFICES ASSUME NEW i \in 1..Len(o)
               PROVE  o[i].t \in {"FB", "FC"} /\ o[i].id \in 1..MaxMail
    OBVIOUS
  <2>1. o[i] \in K
    BY <1>1
  <2> QED BY <2>1, MailAssumption DEF Printed, Tokens, Numbered
<1>4. \A i \in 1..Len(o) : [tier |-> o[i].t, id |-> o[i].id] \in Proposals
  BY <1>3 DEF Proposals
<1>5. Len(o) \in Nat
  BY <1>1
<1> QED
  BY <1>2, <1>4, <1>5 DEF o

\* The whole blocks at the start of a text, how many there are.
LEMMA B2BlocksAre ==
  ASSUME NEW s, NEW count \in Nat
  PROVE  \E n \in 0..count :
           /\ B2Blocks(s, count) = [i \in 1..n |-> [title |-> s[2 * i - 1], id |-> s[2 * i].id]]
           /\ \A i \in 1..n : /\ 2 * i <= Len(s)
                              /\ s[2 * i - 1].t = "head" /\ s[2 * i].t = "tail"
<1> DEFINE Whole(k) == \A i \in 1..k : /\ 2 * i <= Len(s)
                                       /\ s[2 * i - 1].t = "head" /\ s[2 * i].t = "tail"
           ks == {k \in 0..count : Whole(k)}
           n == Max(ks)
<1>1. 0 \in ks
  OBVIOUS
<1>2. n \in ks
  <2> HIDE DEF ks
  <2>1. ks \in SUBSET (0..count)
    BY DEF ks
  <2> QED BY <1>1, <2>1, MaxMember
<1>3. n \in 0..count /\ Whole(n)
  BY <1>2
<1>4. B2Blocks(s, count) = [i \in 1..n |-> [title |-> s[2 * i - 1], id |-> s[2 * i].id]]
  BY DEF B2Blocks
<1> HIDE DEF n
<1> QED
  BY <1>3, <1>4

LEMMA SplitMessagesAre ==
  ASSUME NEW s \in Seq(Printed), NEW count \in Nat
  PROVE  \E n \in 0..count :
           /\ n = IF Len(Only(s, {"tail"})) <= count THEN Len(Only(s, {"tail"})) ELSE count
           /\ SplitMessages(s, count) \in Seq([title : Tokens, id : 1..MaxMail])
           /\ Len(SplitMessages(s, count)) = n
           /\ \A k \in 1..n : SplitMessages(s, count)[k].id = Only(s, {"tail"})[k].id
<1> DEFINE kept == Places(s, {"tail"})
           ends == Ascending(Len(s), kept)
           o == Only(s, {"tail"})
           n == Min({Len(ends), count})
           From(k) == IF k = 1 THEN 1 ELSE ends[k - 1] + 1
           Lines(k) == {i \in From(k)..ends[k] : s[i].t # "eol"}
           Title(k) == s[Min(Lines(k))]
           block(k) == [title |-> Title(k), id |-> s[ends[k]].id]
<1>1. SplitMessages(s, count) = [k \in 1..n |-> block(k)]
  BY DEF SplitMessages
<1>2. Enumerates(ends, Len(s), kept)
  BY AscendingEnumerates
<1>3. Len(ends) = Len(o) /\ \A k \in 1..Len(o) : o[k] = s[ends[k]]
  BY PickAscending DEF Only
<1>4. \A i \in kept : i \in 1..Len(s) /\ s[i].t = "tail"
  BY DEF Places
<1>5. o \in Seq({x \in Printed : x.t \in {"tail"}})
  BY OnlyTypes
<1> HIDE DEF kept, ends, o
<1>6. Len(ends) \in Nat /\ Len(o) \in Nat
  BY <1>2, <1>5 DEF Enumerates
<1>7. n = (IF Len(o) <= count THEN Len(o) ELSE count) /\ n \in 0..count /\ n <= Len(o)
  <2>1. {Len(ends), count} \in SUBSET Nat /\ {Len(ends), count} # {}
    BY <1>6
  <2>2. n \in {Len(ends), count} /\ n <= Len(ends) /\ n <= count
    <3>1. Min({Len(ends), count}) \in {Len(ends), count}
          /\ \A y \in {Len(ends), count} : Min({Len(ends), count}) <= y
      BY <2>1, MinMember
    <3> QED BY <3>1
  <2> HIDE DEF n
  <2> QED BY <2>2, <1>3, <1>6
<1>8. ASSUME NEW k \in 1..Len(o)
      PROVE  o[k].id \in 1..MaxMail /\ s[ends[k]].id = o[k].id
  <2>1. o[k] \in {x \in Printed : x.t \in {"tail"}}
    BY <1>5
  <2> QED BY <2>1, <1>3, MailAssumption DEF Printed, Tokens, Numbered
<1>9. ASSUME NEW k \in 1..Len(o)
      PROVE  Title(k) \in Tokens
  <2>1. ends[k] \in 1..Len(s) /\ s[ends[k]].t = "tail"
    BY <1>2, <1>3, <1>4 DEF Enumerates
  <2>2. From(k) \in 1..ends[k]
    <3>1. CASE k = 1
      BY <2>1, <3>1
    <3>2. CASE k # 1
      <4>1. k - 1 \in 1..Len(ends) /\ k \in 1..Len(ends) /\ k - 1 < k
        BY <1>3, <3>2
      <4>2. ends[k - 1] < ends[k] /\ ends[k - 1] \in 1..Len(s)
        BY <1>2, <4>1 DEF Enumerates
      <4> QED BY <2>1, <3>2, <4>2
    <3> QED BY <3>1, <3>2
  <2> HIDE DEF From
  <2>3. ends[k] \in Lines(k)
    BY <2>1, <2>2
  <2>4. Lines(k) \in SUBSET Nat /\ Lines(k) \subseteq 1..Len(s)
    BY <2>1, <2>2
  <2> HIDE DEF Lines
  <2>5. Min(Lines(k)) \in Lines(k)
    BY <2>3, <2>4, MinMember
  <2>6. Min(Lines(k)) \in 1..Len(s)
    BY <2>4, <2>5
  <2> QED BY <2>6 DEF Printed
<1> HIDE DEF n, Title
<1>10. \A k \in 1..n : block(k) \in [title : Tokens, id : 1..MaxMail] /\ block(k).id = o[k].id
  BY <1>7, <1>8, <1>9, <1>6
<1> HIDE DEF block
<1> QED
  BY <1>1, <1>7, <1>10 DEF o

\* In whole blocks from the first token on, the tail of block i is token 2i.
LEMMA TailsOfBlocks ==
  ASSUME NEW s \in Seq(Printed), NEW n \in Nat,
         \A i \in 1..n : /\ 2 * i <= Len(s)
                         /\ s[2 * i - 1].t = "head" /\ s[2 * i].t = "tail"
  PROVE  \A i \in 1..n : /\ i \in 1..Len(Only(s, {"tail"}))
                         /\ Only(s, {"tail"})[i] = s[2 * i]
                         /\ Ascending(Len(s), Places(s, {"tail"}))[i] = 2 * i
<1> DEFINE kept == Places(s, {"tail"})
           a == Ascending(Len(s), kept)
           o == Only(s, {"tail"})
           Good(i) == i \in 1..n => i \in 1..Len(a) /\ a[i] = 2 * i
           S == {i \in Nat : Good(i)}
<1>1. Enumerates(a, Len(s), kept)
  BY AscendingEnumerates
<1>2. Len(a) = Len(o) /\ \A k \in 1..Len(o) : o[k] = s[a[k]]
  BY PickAscending DEF Only
<1>3. \A i \in 1..Len(s) : i \in kept <=> s[i].t = "tail"
  BY DEF Places
<1> HIDE DEF kept, a, o
<1>4. a \in Seq(1..Len(s)) /\ Len(a) \in Nat /\ Len(s) \in Nat
  BY <1>1 DEF Enumerates
<1>5. 0 \in S
  OBVIOUS
<1>6. ASSUME NEW i \in Nat, i \in S PROVE i + 1 \in S
  <2> SUFFICES ASSUME i + 1 \in 1..n PROVE i + 1 \in 1..Len(a) /\ a[i + 1] = 2 * (i + 1)
    OBVIOUS
  <2> DEFINE j == i + 1
  <2>1. /\ j \in 1..n /\ 2 * j <= Len(s) /\ s[2 * j - 1].t = "head" /\ s[2 * j].t = "tail"
        /\ 2 * j \in 1..Len(s) /\ 2 * j - 1 \in 1..Len(s)
    <3>1. j \in 1..n /\ j \in Nat /\ j > 0
      OBVIOUS
    <3> HIDE DEF j
    <3>2. 2 * j <= Len(s) /\ s[2 * j - 1].t = "head" /\ s[2 * j].t = "tail"
      BY <3>1
    <3> QED BY <1>4, <3>1, <3>2
  <2>2. 2 * j \in kept /\ 2 * j - 1 \notin kept
    BY <1>3, <2>1
  <2>3. PICK k \in 1..Len(a) : a[k] = 2 * j
    BY <1>1, <2>1, <2>2 DEF Enumerates
  <2>4. i # 0 => i \in 1..Len(a) /\ a[i] = 2 * i
    BY <1>6, <2>1
  <2>5. \A x, y \in 1..Len(a) : x < y => a[x] < a[y]
    BY <1>1 DEF Enumerates
  <2>6. k >= j
    <3>1. SUFFICES ASSUME k < j PROVE FALSE
      BY <1>4
    <3>2. i # 0 /\ k <= i
      BY <3>1
    <3>3. a[k] <= a[i]
      <4>1. i \in 1..Len(a) /\ a[i] \in Nat
        BY <2>4, <3>2
      <4>2. CASE k = i
        BY <4>1, <4>2
      <4>3. CASE k < i
        BY <1>4, <2>5, <4>1, <4>3
      <4> QED BY <3>2, <4>2, <4>3
    <3> QED BY <2>3, <2>4, <3>2, <3>3
  <2>7. j \in 1..Len(a)
    BY <1>4, <2>6
  <2>8. a[j] \in kept /\ a[j] \in 1..Len(s)
    BY <1>1, <2>7 DEF Enumerates
  <2>9. a[j] > 2 * i
    <3>1. CASE i = 0
      BY <2>8, <3>1
    <3>2. CASE i # 0
      <4>1. i \in 1..Len(a) /\ i < j /\ a[i] = 2 * i
        BY <2>4, <3>2
      <4>2. a[i] < a[j]
        BY <2>5, <2>7, <4>1
      <4> QED BY <2>8, <4>1, <4>2
    <3> QED BY <3>1, <3>2
  <2>10. a[j] <= 2 * j
    <3>1. CASE k = j
      BY <2>3, <3>1
    <3>2. CASE k > j
      BY <2>3, <2>5, <2>7, <2>8, <3>2
    <3> QED BY <2>6, <3>1, <3>2
  <2>11. a[j] # 2 * j - 1
    BY <2>2, <2>8
  <2> QED BY <2>7, <2>8, <2>9, <2>10, <2>11
<1> HIDE DEF S
<1>7. Nat \subseteq S
  BY <1>5, <1>6, NatInd
<1>8. \A i \in 1..n : i \in 1..Len(a) /\ a[i] = 2 * i
  BY <1>7 DEF S
<1>9. \A i \in 1..n : i \in 1..Len(o) /\ o[i] = s[2 * i] /\ a[i] = 2 * i
  BY <1>2, <1>8
<1> QED
  BY <1>9 DEF o, a, kept

\* The messages read in a text: never more than proposals, and the k-th ends with
\* the k-th Ctrl-Z of the text.
LEMMA BlocksAre ==
  ASSUME proposals \in Seq(Proposals), NEW s \in Seq(Printed)
  PROVE  /\ Blocks(s) \in Seq([title : Tokens, id : 1..MaxMail])
         /\ Len(Blocks(s)) <= Len(proposals)
         /\ \A k \in 1..Len(Blocks(s)) : /\ k \in 1..Len(Only(s, {"tail"}))
                                         /\ Blocks(s)[k].id = Only(s, {"tail"})[k].id
<1> DEFINE count == Len(proposals)
           o == Only(s, {"tail"})
<1>1. count \in Nat /\ Len(o) \in Nat
  BY OnlyType
<1>2. CASE IsB2
  <2> DEFINE b == B2Blocks(s, count)
  <2>1. PICK n \in 0..count :
          /\ b = [i \in 1..n |-> [title |-> s[2 * i - 1], id |-> s[2 * i].id]]
          /\ \A i \in 1..n : /\ 2 * i <= Len(s)
                             /\ s[2 * i - 1].t = "head" /\ s[2 * i].t = "tail"
    BY <1>1, B2BlocksAre
  <2>2. Blocks(s) = b
    BY <1>2 DEF Blocks
  <2> HIDE DEF b, count
  <2>3. \A i \in 1..n : i \in 1..Len(o) /\ o[i] = s[2 * i]
    <3>1. n \in Nat
      BY <1>1
    <3> QED BY <2>1, <3>1, TailsOfBlocks
  <2>4. ASSUME NEW i \in 1..n
        PROVE  s[2 * i - 1] \in Tokens /\ s[2 * i].id \in 1..MaxMail
    <3>1. 2 * i \in 1..Len(s) /\ 2 * i - 1 \in 1..Len(s)
      BY <1>1, <2>1
    <3>2. s[2 * i - 1] \in Printed /\ s[2 * i] \in Printed /\ s[2 * i].t = "tail"
      BY <2>1, <3>1
    <3> QED BY <3>2, MailAssumption DEF Printed, Tokens, Numbered
  <2>5. b \in Seq([title : Tokens, id : 1..MaxMail]) /\ Len(b) = n
    BY <1>1, <2>1, <2>4
  <2>6. \A k \in 1..n : b[k].id = o[k].id
    BY <2>1, <2>3
  <2> HIDE DEF o
  <2>7. Len(b) <= count
    BY <1>1, <2>5
  <2> QED BY <2>2, <2>3, <2>5, <2>6, <2>7 DEF count, o
<1>3. CASE ~IsB2
  <2> DEFINE b == SplitMessages(s, count)
  <2>1. PICK n \in 0..count :
          /\ n = IF Len(o) <= count THEN Len(o) ELSE count
          /\ b \in Seq([title : Tokens, id : 1..MaxMail])
          /\ Len(b) = n
          /\ \A k \in 1..n : b[k].id = o[k].id
    BY <1>1, SplitMessagesAre
  <2>2. Blocks(s) = b
    BY <1>3 DEF Blocks
  <2> HIDE DEF b, count, o
  <2>3. Len(b) <= count /\ \A k \in 1..Len(b) : k \in 1..Len(o)
    BY <1>1, <2>1
  <2> QED BY <2>1, <2>2, <2>3 DEF count, o
<1> QED
  BY <1>2, <1>3

-----------------------------------------------------------------------------
(***************************************************************************)
(* The steps keep it: the gateway's.                                       *)
(***************************************************************************)
LEMMA BaseGreet == BaseInv /\ Greet => BaseInv'
<1> SUFFICES ASSUME BaseInv, Greet PROVE BaseInv'
  OBVIOUS
<1> USE DEF BaseInv, Typed, TextTyped, GatewayTyped
<1> DEFINE asks == <<Tok("challenge")>>
           prompt == <<Tok("prompt")>>
           text == (IF challenged' THEN asks ELSE <<>>) \o prompt
<1>1. asks \in Seq(Quiet) /\ prompt \in Seq(Quiet)
  <2>1. Tok("challenge") \in Quiet /\ Tok("prompt") \in Quiet
    BY PlainTok DEF TokTypes, Numbered
  <2> QED BY <2>1
<1>2. text \in Seq(Quiet)
  <2> HIDE DEF asks, prompt
  <2> QED BY <1>1, ConcatProperties
<1>3. GatewaySays(text, "login")
  BY DEF Greet
<1>4. up' = up /\ took' = took /\ challenged' \in BOOLEAN
  BY DEF Greet
<1> HIDE DEF text
<1> QED
  BY <1>2, <1>3, <1>4, GatewayStep

LEMMA BaseTakeLogin == BaseInv /\ TakeLogin => BaseInv'
<1> SUFFICES ASSUME BaseInv, TakeLogin PROVE BaseInv'
  OBVIOUS
<1> USE DEF BaseInv, Typed
<1>1. up # <<>> /\ Head(up).t = "login" /\ up' = Tail(up) /\ challenged' = challenged
  BY DEF TakeLogin, Takes
<1>2. Head(up) \in Units /\ up' \in Seq(Units)
  BY <1>1 DEF TextTyped
<1>3. Head(up).n \in 0..MaxMail
  BY <1>1, <1>2 DEF Units
<1>4. CASE GatewaySays(<<Tok("FQ")>>, "over") /\ took' = took
  <2>1. Tok("FQ") \in Quiet
    BY PlainTok DEF TokTypes, Numbered
  <2>2. <<Tok("FQ")>> \in Seq(Quiet)
    BY <2>1
  <2> QED BY <1>1, <1>2, <1>4, <2>2, GatewayStep DEF GatewayTyped
<1>5. CASE GatewaySays(Offer(mail), "offered") /\ took' = took
  <2>1. Offer(mail) \in Seq(Quiet)
    <3>1. Len(mail) \in 0..MaxMail /\ mail \in [1..Len(mail) -> {"FB", "FC"}]
      BY DEF CallTyped
    <3> QED BY <3>1, QuietOffer
  <2> QED BY <1>1, <1>2, <1>5, <2>1, GatewayStep DEF GatewayTyped
<1>6. CASE took' \in [1..Head(up).n -> Codes] /\ GatewaySays(Answers(took'), "receive")
  <2>1. took' \in Seq(Codes)
    BY <1>3, <1>6, MailAssumption
  <2>2. Answers(took') \in Seq(Quiet)
    BY <2>1, QuietAnswers
  <2> QED BY <1>1, <1>2, <1>6, <2>1, <2>2, GatewayStep DEF GatewayTyped
<1> QED
  BY <1>4, <1>5, <1>6 DEF TakeLogin

LEMMA BaseTakeFS == BaseInv /\ TakeFS => BaseInv'
<1> SUFFICES ASSUME BaseInv, TakeFS PROVE BaseInv'
  OBVIOUS
<1> USE DEF BaseInv, Typed
<1>1. up # <<>> /\ up' = Tail(up) /\ challenged' = challenged /\ took' = took
  BY DEF TakeFS, Takes
<1>2. up' \in Seq(Units)
  BY <1>1 DEF TextTyped
<1>3. Messages(Len(mail)) \in Seq(Quiet)
  BY QuietMessages DEF CallTyped
<1>4. GatewaySays(Messages(Len(mail)), "over")
  BY DEF TakeFS
<1> QED
  BY <1>1, <1>2, <1>3, <1>4, GatewayStep DEF GatewayTyped

LEMMA BaseReciprocate == BaseInv /\ Reciprocate => BaseInv'
<1> SUFFICES ASSUME BaseInv, Reciprocate PROVE BaseInv'
  OBVIOUS
<1> USE DEF BaseInv, Typed
<1>1. up' = up /\ challenged' = challenged /\ took' = took
  BY DEF Reciprocate
<1>2. <<Tok("FF")>> \in Seq(Quiet) /\ <<Tok("FQ")>> \in Seq(Quiet)
  <2>1. Tok("FF") \in Quiet /\ Tok("FQ") \in Quiet
    BY PlainTok DEF TokTypes, Numbered
  <2> QED BY <2>1
<1>3. Offer(mail) \in Seq(Quiet)
  <2>1. Len(mail) \in 0..MaxMail /\ mail \in [1..Len(mail) -> {"FB", "FC"}]
    BY DEF CallTyped
  <2> QED BY <2>1, QuietOffer
<1>4. up' \in Seq(Units) /\ challenged' \in BOOLEAN /\ took' \in Seq(Codes)
  BY <1>1 DEF TextTyped, GatewayTyped
<1>5. \E text \in Seq(Quiet) : GatewaySays(text, "over")
  BY <1>2, <1>3 DEF Reciprocate
<1> QED
  BY <1>4, <1>5, GatewayStep

LEMMA BaseTakeBlock == BaseInv /\ TakeBlock => BaseInv'
<1> SUFFICES ASSUME BaseInv, TakeBlock PROVE BaseInv'
  OBVIOUS
<1> USE DEF BaseInv, Typed
<1>1. up # <<>> /\ up' = Tail(up)
  BY DEF TakeBlock, Takes
<1>2. UNCHANGED <<sessionVars, driverVars, line, link, air, gatewayVars>>
  BY DEF TakeBlock
<1>3. TextTyped'
  BY <1>1, <1>2 DEF TextTyped, driverVars
<1> QED
  BY <1>2, <1>3 DEF CallTyped, DriverTyped, GatewayTyped, LinkInv, sessionVars,
    driverVars, gatewayVars

LEMMA AiredHungUp == HungUp \in Seq(Aired)
<1>1. Tok("banner") \in Aired /\ Tok("cmd") \in Aired
  BY MailAssumption DEF Tok, Aired, Printed, Tokens, TokTypes, Numbered
<1> QED
  BY <1>1 DEF HungUp

LEMMA BaseHangUp == BaseInv /\ HangUp => BaseInv'
<1> SUFFICES ASSUME BaseInv, HangUp PROVE BaseInv'
  OBVIOUS
<1> USE DEF BaseInv, Typed
<1>1. PICK n \in 0..Len(air) : air' = SubSeq(air, 1, n) \o HungUp
  BY DEF HangUp
<1>2. /\ gw' = "gone"
      /\ UNCHANGED <<sessionVars, driverVars, line, link, up, challenged, took>>
  BY DEF HangUp
<1>3. SubSeq(air, 1, n) \in Seq(Aired)
  BY <1>1 DEF TextTyped
<1>4. air' \in Seq(Aired)
  BY <1>1, <1>3, AiredHungUp, ConcatProperties
<1>5. TextTyped'
  BY <1>2, <1>4 DEF TextTyped, driverVars
<1> QED
  BY <1>2, <1>5 DEF CallTyped, DriverTyped, GatewayTyped, LinkInv, sessionVars,
    driverVars

LEMMA BaseArrive == BaseInv /\ Arrive => BaseInv'
<1> SUFFICES ASSUME BaseInv, Arrive PROVE BaseInv'
  OBVIOUS
<1> USE DEF BaseInv, Typed
<1>1. /\ air # <<>> /\ air' = Tail(air) /\ line' = Append(line, Head(air))
      /\ link' = (link /\ Head(air).t # "banner")
      /\ UNCHANGED <<sessionVars, driverVars, up, gatewayVars>>
  BY DEF Arrive
<1>2. Head(air) \in Aired /\ Tail(air) \in Seq(Aired)
  BY <1>1 DEF TextTyped
<1>3. Head(air) \in Printed /\ (Head(air).t # "banner" => Head(air) \in Quiet)
  BY <1>2 DEF Aired, Quiet
<1>4. TextTyped'
  <2>1. line' \in Seq(Printed)
    BY <1>1, <1>3 DEF TextTyped
  <2> QED BY <1>1, <1>2, <2>1 DEF TextTyped, driverVars
<1>5. LinkInv'
  <2>1. ASSUME link' PROVE heard' \in Seq(Quiet) /\ line' \in Seq(Quiet)
    <3>1. link /\ Head(air) \in Quiet /\ heard' = heard
      BY <1>1, <1>3, <2>1 DEF driverVars
    <3>2. heard \in Seq(Quiet) /\ line \in Seq(Quiet)
      BY <3>1 DEF LinkInv
    <3> QED BY <1>1, <3>1, <3>2
  <2> QED BY <1>1, <2>1 DEF LinkInv, driverVars
<1>6. GatewayTyped'
  <2>1. link' \in BOOLEAN
    BY <1>1
  <2> QED BY <1>1, <2>1 DEF GatewayTyped, gatewayVars
<1> QED
  BY <1>1, <1>4, <1>5, <1>6 DEF CallTyped, DriverTyped, sessionVars, driverVars

-----------------------------------------------------------------------------
(***************************************************************************)
(* The steps keep it: the driver's.                                        *)
(***************************************************************************)
LEMMA QuietHas ==
  ASSUME NEW s \in Seq(Quiet)
  PROVE  ~Has(s, "banner") /\ ~Has(s, "can't")
BY DEF Has, Quiet

LEMMA BaseSlice == BaseInv /\ Slice => BaseInv'
<1> SUFFICES ASSUME BaseInv, Slice PROVE BaseInv'
  OBVIOUS
<1> USE DEF BaseInv, Typed
<1>1. /\ heard' = heard \o line /\ line' = <<>> /\ pc' \in {"act", "poll"}
      /\ UNCHANGED <<sessionVars, stage, proposals, uploads, result, outcome, gone,
                     late, link, air, up, gatewayVars>>
  BY DEF Slice
<1>2. TextTyped'
  <2>1. heard \o line \in Seq(Printed) /\ <<>> \in Seq(Printed)
    BY ConcatProperties DEF TextTyped
  <2> QED BY <1>1, <2>1 DEF TextTyped
<1>3. LinkInv'
  <2>1. ASSUME link' PROVE heard' \in Seq(Quiet) /\ line' \in Seq(Quiet)
    <3>1. heard \in Seq(Quiet) /\ line \in Seq(Quiet)
      BY <1>1, <2>1 DEF LinkInv
    <3> QED BY <1>1, <3>1, ConcatProperties
  <2> QED BY <1>1, <2>1 DEF LinkInv
<1>4. CallTyped' /\ DriverTyped' /\ GatewayTyped'
  BY <1>1 DEF CallTyped, DriverTyped, GatewayTyped, sessionVars, gatewayVars
<1> QED
  BY <1>2, <1>3, <1>4

LEMMA BasePollTimesOut == BaseInv /\ PollTimesOut => BaseInv'
<1> SUFFICES ASSUME BaseInv, PollTimesOut PROVE BaseInv'
  OBVIOUS
<1> USE DEF BaseInv, Typed
<1>1. /\ pc' = "act" /\ late' = (late \/ ~AllArrived)
      /\ UNCHANGED <<sessionVars, stage, heard, proposals, uploads, result, outcome,
                     gone, line, link, air, up, gatewayVars>>
  BY DEF PollTimesOut
<1>2. DriverTyped'
  <2>1. late' \in BOOLEAN
    BY <1>1, Zenon
  <2> QED BY <1>1, <2>1 DEF DriverTyped
<1> QED
  BY <1>1, <1>2 DEF CallTyped, TextTyped, GatewayTyped, LinkInv, sessionVars, gatewayVars

\* The ends of the call before its time is up, and when there is nothing to take.
LEMMA BaseLeave ==
  ASSUME BaseInv,
         PollRaises \/ RaiseHungUp \/ NoMail \/ MixedBatch \/ BadAnswer
  PROVE  BaseInv'
<1> USE DEF BaseInv, Typed
<1>1. <<>> \in Seq(Results) /\ <<>> \in Seq(Printed) /\ <<>> \in Seq(Quiet)
  OBVIOUS
<1>2. /\ up \in Seq(Units) /\ line \in Seq(Printed)
      /\ link => line \in Seq(Quiet)
      /\ link => heard \in Seq(Quiet)
  BY DEF TextTyped, LinkInv
<1>3. CASE PollRaises
  <2>1. /\ line' = <<>> /\ Leave("protocol", <<>>, FALSE)
        /\ UNCHANGED <<sessionVars, link, air, up, gatewayVars>>
    BY <1>3 DEF PollRaises
  <2> QED BY <1>1, <1>2, <2>1, LeaveKeeps
<1>4. CASE RaiseHungUp
  <2>1. /\ Hung /\ Leave("connection", <<>>, TRUE)
        /\ UNCHANGED <<sessionVars, line, link, air, up, gatewayVars>>
    BY <1>4 DEF RaiseHungUp
  <2>2. ~link
    BY <1>2, <2>1, QuietHas DEF Hung
  <2> QED BY <1>1, <1>2, <2>1, <2>2, LeaveKeeps
<1>5. CASE NoMail \/ MixedBatch \/ BadAnswer
  <2>1. /\ \E how \in {"returned", "connection", "protocol"} : Leave(how, <<>>, FALSE)
        /\ UNCHANGED <<sessionVars, line, link, air, up, gatewayVars>>
    BY <1>5 DEF NoMail, MixedBatch, BadAnswer
  <2> QED BY <1>1, <1>2, <2>1, LeaveKeeps
<1> QED
  BY <1>3, <1>4, <1>5

LEMMA BaseTakeMessages == BaseInv /\ TakeMessages => BaseInv'
<1> SUFFICES ASSUME BaseInv, TakeMessages PROVE BaseInv'
  OBVIOUS
<1> USE DEF BaseInv, Typed
<1> DEFINE b == Blocks(heard)
           list == [k \in 1..Len(b) |-> [title |-> b[k].title, id |-> b[k].id,
                                         proposal |-> proposals[k].id]]
<1>1. /\ Leave("returned", list, FALSE)
      /\ UNCHANGED <<sessionVars, line, link, air, up, gatewayVars>>
  BY DEF TakeMessages
<1>2. proposals \in Seq(Proposals) /\ heard \in Seq(Printed)
  BY DEF DriverTyped, TextTyped
<1>3. b \in Seq([title : Tokens, id : 1..MaxMail]) /\ Len(b) <= Len(proposals)
  BY <1>2, BlocksAre
<1>4. list \in Seq(Results)
  <2> HIDE DEF b
  <2>1. ASSUME NEW k \in 1..Len(b)
        PROVE  /\ b[k].title \in Tokens /\ b[k].id \in 1..MaxMail
               /\ proposals[k].id \in 1..MaxMail
    <3> DEFINE B == [title : Tokens, id : 1..MaxMail]
    <3>1. b[k] \in B
      <4>1. b \in Seq(B)
        BY <1>3
      <4> HIDE DEF B
      <4> QED BY <4>1
    <3>2. k \in 1..Len(proposals)
      BY <1>2, <1>3
    <3>3. proposals[k] \in Proposals
      BY <1>2, <3>2
    <3> QED BY <3>1, <3>3 DEF Proposals
  <2>2. Len(b) \in Nat
    BY <1>3
  <2> QED BY <2>1, <2>2 DEF Results
<1> HIDE DEF list
<1>5. up \in Seq(Units) /\ line \in Seq(Printed) /\ (link => line \in Seq(Quiet))
  BY DEF TextTyped, LinkInv
<1> QED
  BY <1>1, <1>4, <1>5, LeaveKeeps

LEMMA BaseDecline == BaseInv /\ Decline => BaseInv'
<1> SUFFICES ASSUME BaseInv, Decline PROVE BaseInv'
  OBVIOUS
<1> USE DEF BaseInv, Typed
<1> DEFINE n == Len(ParseProposals(heard))
           unit == [t |-> "FS", n |-> n, code |-> "-"]
<1>1. /\ Send(unit) \/ UNCHANGED <<line, up>>
      /\ Leave("returned", result, FALSE)
      /\ UNCHANGED <<sessionVars, link, air, gatewayVars>>
  BY DEF Decline
<1>2. unit \in Units
  <2>1. n \in Nat
    <3>1. ParseProposals(heard) \in Seq(Proposals)
      BY ProposalsTyped DEF TextTyped
    <3> QED BY <3>1
  <2> HIDE DEF n
  <2> QED BY <2>1 DEF Units
<1> HIDE DEF unit
<1>3. up \in Seq(Units) /\ line \in Seq(Printed) /\ (link => line \in Seq(Quiet))
  BY DEF TextTyped, LinkInv
<1>4. up' \in Seq(Units) /\ line' \in Seq(Printed) /\ (link => line' \in Seq(Quiet))
  <2>1. CASE Send(unit)
    BY <1>2, <2>1, SendKeeps
  <2>2. CASE UNCHANGED <<line, up>>
    BY <1>3, <2>2
  <2> QED BY <1>1, <2>1, <2>2
<1>5. result \in Seq(Results)
  BY DEF DriverTyped
<1> QED
  BY <1>1, <1>4, <1>5, LeaveKeeps

\* A unit is sent and the next stage begins.
LEMMA StageKeeps ==
  ASSUME BaseInv, NEW unit \in Units, Send(unit),
         NEW s \in {"proposals", "FS", "messages", "reciprocal"}, NextStage(s),
         proposals' \in Seq(Proposals),
         UNCHANGED <<sessionVars, uploads, result, outcome, gone, late, link, air,
                     gatewayVars>>
  PROVE  BaseInv'
<1> USE DEF BaseInv, Typed
<1>1. stage' = s /\ heard' = <<>> /\ pc' = "poll"
  BY DEF NextStage
<1>2. /\ up' \in Seq(Units) /\ line' \in Seq(Printed)
      /\ link => line' \in Seq(Quiet)
  BY SendKeeps
<1>3. TextTyped'
  <2>1. heard' \in Seq(Printed)
    BY <1>1
  <2> QED BY <1>2, <2>1 DEF TextTyped
<1>4. LinkInv'
  <2>1. heard' \in Seq(Quiet)
    BY <1>1
  <2> QED BY <1>1, <1>2, <2>1 DEF LinkInv
<1>5. DriverTyped'
  BY <1>1 DEF DriverTyped
<1>6. CallTyped' /\ GatewayTyped'
  BY DEF CallTyped, GatewayTyped, sessionVars, gatewayVars
<1> QED
  BY <1>3, <1>4, <1>5, <1>6

LEMMA BaseLogin == BaseInv /\ Login => BaseInv'
<1> SUFFICES ASSUME BaseInv, Login PROVE BaseInv'
  OBVIOUS
<1> DEFINE unit == [t |-> "login", pr |-> Has(heard, "challenge"), n |-> outbox]
           s == IF method = "check" THEN "proposals" ELSE "FS"
<1>1. Send(unit) /\ NextStage(s)
      /\ UNCHANGED <<sessionVars, proposals, uploads, result, outcome, gone, late,
                     link, air, gatewayVars>>
  BY DEF Login
<1>2. unit \in Units
  <2>1. Has(heard, "challenge") \in BOOLEAN
    BY Zenon DEF Has
  <2>2. outbox \in 0..MaxMail
    BY DEF BaseInv, Typed, CallTyped
  <2> QED BY <2>1, <2>2 DEF Units
<1>3. s \in {"proposals", "FS", "messages", "reciprocal"}
  OBVIOUS
<1>4. proposals' \in Seq(Proposals)
  BY <1>1 DEF BaseInv, Typed, DriverTyped
<1> HIDE DEF unit, s
<1> QED
  BY <1>1, <1>2, <1>3, <1>4, StageKeeps

LEMMA BaseAcceptAll == BaseInv /\ AcceptAll => BaseInv'
<1> SUFFICES ASSUME BaseInv, AcceptAll PROVE BaseInv'
  OBVIOUS
<1> DEFINE offers == ParseProposals(heard)
           unit == [t |-> "FS", n |-> Len(offers), code |-> "+"]
<1>1. /\ proposals' = offers /\ Send(unit) /\ NextStage("messages")
      /\ UNCHANGED <<sessionVars, uploads, result, outcome, gone, late, link, air,
                     gatewayVars>>
  BY DEF AcceptAll
<1>2. offers \in Seq(Proposals)
  BY ProposalsTyped DEF BaseInv, Typed, TextTyped
<1> HIDE DEF offers
<1>3. unit \in Units
  BY <1>2 DEF Units
<1>4. proposals' \in Seq(Proposals)
  BY <1>1, <1>2
<1> HIDE DEF unit
<1> QED
  BY <1>1, <1>3, <1>4, StageKeeps

LEMMA BaseGoodAnswer == BaseInv /\ GoodAnswer => BaseInv'
<1> SUFFICES ASSUME BaseInv, GoodAnswer PROVE BaseInv'
  OBVIOUS
<1> USE DEF BaseInv, Typed
<1> DEFINE kept == {i \in 1..outbox : IsAccept(FsAnswers(heard)[i])}
           a == Ascending(outbox, kept)
<1>1. /\ uploads' = a /\ pc' = "upload"
      /\ UNCHANGED <<sessionVars, stage, heard, proposals, result, outcome, gone, late,
                     line, link, air, up, gatewayVars>>
  BY DEF GoodAnswer
<1>2. a \in Seq(1..MaxMail)
  <2>1. outbox \in 0..MaxMail /\ outbox \in Nat
    BY MailAssumption DEF CallTyped
  <2> HIDE DEF kept
  <2>2. a \in Seq(1..outbox)
    BY <2>1, AscendingEnumerates DEF Enumerates
  <2> HIDE DEF a
  <2>3. 1..outbox \subseteq 1..MaxMail
    BY <2>1, MailAssumption
  <2> QED BY <2>2, <2>3, SeqMonotonic
<1> HIDE DEF a
<1>3. DriverTyped'
  BY <1>1, <1>2 DEF DriverTyped
<1> QED
  BY <1>1, <1>3 DEF CallTyped, TextTyped, GatewayTyped, LinkInv, sessionVars, gatewayVars

LEMMA BaseUpload == BaseInv /\ Upload => BaseInv'
<1> SUFFICES ASSUME BaseInv, Upload PROVE BaseInv'
  OBVIOUS
<1> USE DEF BaseInv, Typed
<1>1. /\ pc = "upload"
      /\ UNCHANGED <<sessionVars, proposals, outcome, gone, late, link, air, gatewayVars>>
  BY DEF Upload
<1>2. CallTyped' /\ GatewayTyped'
  BY <1>1 DEF CallTyped, GatewayTyped, sessionVars, gatewayVars
<1>3. CASE uploads = <<>>
  <2>1. /\ stage' = "reciprocal" /\ heard' = <<>> /\ pc' = "poll"
        /\ UNCHANGED <<uploads, result, line, up>>
    BY <1>3 DEF Upload, NextStage
  <2>2. heard' \in Seq(Printed) /\ heard' \in Seq(Quiet)
    BY <2>1
  <2> QED BY <1>1, <1>2, <2>1, <2>2 DEF TextTyped, DriverTyped, LinkInv
<1>4. CASE uploads # <<>>
  <2> DEFINE n == Head(uploads)
             unit == [t |-> "block", n |-> n]
             row == [title |-> Tok("head"), id |-> n, proposal |-> n]
  <2>1. /\ Send(unit) /\ uploads' = Tail(uploads) /\ result' = Append(result, row)
        /\ UNCHANGED <<pc, stage, heard>>
    BY <1>4 DEF Upload
  <2>2. n \in 1..MaxMail /\ uploads' \in Seq(1..MaxMail)
    <3> DEFINE T == 1..MaxMail
    <3>1. uploads \in Seq(T)
      BY DEF DriverTyped
    <3> HIDE DEF T
    <3>2. Head(uploads) \in T /\ Tail(uploads) \in Seq(T)
      BY <1>4, <3>1
    <3> QED BY <2>1, <3>2 DEF T
  <2>3. unit \in Units
    BY <2>2 DEF Units
  <2>4. row \in Results
    <3>1. Tok("head") \in Tokens
      BY MailAssumption DEF Tok, Tokens, TokTypes
    <3> QED BY <2>2, <3>1 DEF Results
  <2> HIDE DEF unit, row
  <2>5. up' \in Seq(Units) /\ line' \in Seq(Printed) /\ (link => line' \in Seq(Quiet))
    BY <2>1, <2>3, SendKeeps
  <2>6. result' \in Seq(Results)
    BY <2>1, <2>4 DEF DriverTyped
  <2>7. DriverTyped'
    BY <1>1, <2>1, <2>2, <2>6 DEF DriverTyped
  <2>8. TextTyped' /\ LinkInv'
    BY <1>1, <2>1, <2>5 DEF TextTyped, LinkInv
  <2> QED BY <1>2, <2>7, <2>8
<1> QED
  BY <1>3, <1>4

LEMMA PrintedWords ==
  /\ <<>> \in Seq(Quiet) /\ <<>> \in Seq(Printed)
  /\ <<Tok("cmd")>> \in Seq(Quiet) /\ <<Tok("cmd")>> \in Seq(Printed)
  /\ <<Tok("can't"), Tok("cmd")>> \in Seq(Printed)
<1>1. Tok("cmd") \in Quiet
  BY PlainTok DEF TokTypes, Numbered
<1>2. Tok("can't") \in Printed
  BY MailAssumption DEF Tok, Printed, Tokens, TokTypes, Numbered
<1> QED
  BY <1>1, <1>2, QuietIs

LEMMA BaseCtrlC == BaseInv /\ CtrlC => BaseInv'
<1> SUFFICES ASSUME BaseInv, CtrlC PROVE BaseInv'
  OBVIOUS
<1> USE DEF BaseInv, Typed
<1>1. /\ pc' = "awaitCmd" /\ line' = IF link THEN <<Tok("cmd")>> ELSE <<>>
      /\ UNCHANGED <<sessionVars, stage, heard, proposals, uploads, result, outcome, gone,
                     late, link, air, up, gatewayVars>>
  BY DEF CtrlC
<1>2. line' \in Seq(Quiet) /\ line' \in Seq(Printed)
  BY <1>1, PrintedWords
<1> QED
  BY <1>1, <1>2 DEF CallTyped, TextTyped, DriverTyped, GatewayTyped, LinkInv, sessionVars,
    gatewayVars

LEMMA BaseDisconne == BaseInv /\ Disconne => BaseInv'
<1> SUFFICES ASSUME BaseInv, Disconne PROVE BaseInv'
  OBVIOUS
<1> USE DEF BaseInv, Typed
<1>1. /\ pc' = "awaitBanner"
      /\ UNCHANGED <<sessionVars, stage, heard, proposals, uploads, result, outcome,
                     gone, late, link, up, challenged, took>>
  BY DEF Disconne
<1>2. /\ line' \in Seq(Printed) /\ (link => line' \in Seq(Quiet))
      /\ air' \in Seq(Aired) /\ gw' \in {"greet", "login", "offered", "receive", "over", "gone"}
  <2>1. CASE link
    <3>1. line' = <<>> /\ gw' = "gone" /\ air' = IF gw = "gone" THEN air ELSE HungUp
      BY <2>1 DEF Disconne
    <3> QED BY <3>1, PrintedWords, AiredHungUp DEF TextTyped
  <2>2. CASE ~link
    <3>1. line' = <<Tok("can't"), Tok("cmd")>> /\ UNCHANGED <<gw, air>>
      BY <2>2 DEF Disconne
    <3> QED BY <2>2, <3>1, PrintedWords DEF TextTyped, GatewayTyped
  <2> QED BY <2>1, <2>2
<1>3. TextTyped' /\ LinkInv'
  BY <1>1, <1>2 DEF TextTyped, LinkInv
<1> QED
  BY <1>1, <1>2, <1>3 DEF CallTyped, DriverTyped, GatewayTyped, sessionVars

LEMMA BaseDisconnected == BaseInv /\ Disconnected => BaseInv'
<1> SUFFICES ASSUME BaseInv, Disconnected PROVE BaseInv'
  OBVIOUS
<1> USE DEF BaseInv, Typed
<1>1. /\ Has(line, "banner") \/ Has(line, "can't")
      /\ line' = <<>> /\ pc' = "end"
      /\ UNCHANGED <<sessionVars, stage, heard, proposals, uploads, result, outcome,
                     gone, late, link, air, up, gatewayVars>>
  BY DEF Disconnected
<1>2. ~link
  BY <1>1, QuietHas DEF LinkInv
<1> QED
  BY <1>1, <1>2, PrintedWords DEF CallTyped, TextTyped, DriverTyped, GatewayTyped, LinkInv,
    sessionVars, gatewayVars

LEMMA BaseDisconnectTimesOut == BaseInv /\ DisconnectTimesOut => BaseInv'
<1> SUFFICES ASSUME BaseInv, DisconnectTimesOut PROVE BaseInv'
  OBVIOUS
<1> USE DEF BaseInv, Typed
<1>1. /\ outcome' = "timeout" /\ result' = <<>> /\ pc' = "end"
      /\ UNCHANGED <<sessionVars, stage, heard, proposals, uploads, gone, late, line,
                     link, air, up, gatewayVars>>
  BY DEF DisconnectTimesOut
<1>2. result' \in Seq(Results)
  BY <1>1
<1> QED
  BY <1>1, <1>2 DEF CallTyped, TextTyped, DriverTyped, GatewayTyped, LinkInv,
    sessionVars, gatewayVars

LEMMA BaseStutter == BaseInv /\ UNCHANGED vars => BaseInv'
BY DEF BaseInv, Typed, CallTyped, TextTyped, DriverTyped, GatewayTyped, LinkInv, vars,
  sessionVars, driverVars, gatewayVars

LEMMA BaseKept == BaseInv /\ [Next]_vars => BaseInv'
<1> SUFFICES ASSUME BaseInv, [Next]_vars PROVE BaseInv'
  OBVIOUS
<1>1. CASE Gateway
  BY <1>1, BaseGreet, BaseTakeLogin, BaseTakeFS, BaseTakeBlock, BaseReciprocate, BaseHangUp
    DEF Gateway
<1>2. CASE Driver
  BY <1>2, BaseSlice, BasePollTimesOut, BaseLeave, BaseLogin, BaseAcceptAll,
    BaseTakeMessages, BaseGoodAnswer, BaseUpload, BaseDecline, BaseCtrlC, BaseDisconne,
    BaseDisconnected, BaseDisconnectTimesOut DEF Driver
<1> QED
  BY <1>1, <1>2, BaseArrive, BaseStutter DEF Next

LEMMA BaseAlways == Spec => []BaseInv
BY BaseStart, BaseKept, PTL DEF Spec

\* Every variable keeps its type, however many messages the two sides have and
\* however the text of the KAM-XL is sliced: of the numbers that parse_any_proposals()
\* and the block parsers read, each is that of a message.
THEOREM TypeCorrect == Spec => []TypeOK
<1>1. BaseInv => TypeOK
  <2> SUFFICES ASSUME BaseInv PROVE TypeOK
    OBVIOUS
  <2> USE DEF BaseInv, Typed
  <2>1. heard \in Seq(Tokens) /\ line \in Seq(Tokens) /\ air \in Seq(Tokens)
    BY Widen DEF TextTyped
  <2> QED BY <2>1 DEF TypeOK, DriverTyped, GatewayTyped, Proposals, Results
<1> QED
  BY <1>1, BaseAlways, PTL

\* check_winlink_mail() and send_winlink_message() leave no link behind, by whichever
\* return or raise the try block is left: gateway_already_disconnected and the text that
\* disconnect_station() waits for are only ever seen of a link that is down.
THEOREM EndsDisconnected == Spec => []SessionEndsDisconnected
<1>1. BaseInv => SessionEndsDisconnected
  BY DEF BaseInv, LinkInv, SessionEndsDisconnected
<1> QED
  BY <1>1, BaseAlways, PTL

-----------------------------------------------------------------------------
(***************************************************************************)
(* All that is printed or on the air of the stage, and what is in it.      *)
(***************************************************************************)
Said == heard \o line \o air
Polling == pc \in {"poll", "act"}

NoneOf(s, types) == \A i \in 1..Len(s) : s[i].t \notin types
Ordered(s, types) == \A k \in 1..Len(Only(s, types)) : Only(s, types)[k].id = k

LEMMA HasIs ==
  ASSUME NEW s, NEW x
  PROVE  Has(s, x) <=> ~NoneOf(s, {x})
BY DEF Has, NoneOf

LEMMA ConcatAt ==
  ASSUME NEW T, NEW s \in Seq(T), NEW u \in Seq(T)
  PROVE  /\ Len(s) \in Nat /\ Len(u) \in Nat /\ Len(s \o u) = Len(s) + Len(u)
         /\ \A i \in 1..Len(s) : (s \o u)[i] = s[i]
         /\ \A i \in 1..Len(u) : (s \o u)[Len(s) + i] = u[i]
BY ConcatProperties

LEMMA NoneConcat ==
  ASSUME NEW T, NEW s \in Seq(T), NEW u \in Seq(T), NEW types
  PROVE  NoneOf(s \o u, types) <=> NoneOf(s, types) /\ NoneOf(u, types)
<1> DEFINE w == s \o u
           m == Len(s)
           n == Len(u)
<1>1. /\ m \in Nat /\ n \in Nat /\ Len(w) = m + n
      /\ \A i \in 1..m : w[i] = s[i]
      /\ \A i \in 1..n : w[m + i] = u[i]
  BY ConcatProperties
<1> HIDE DEF w
<1>2. ASSUME NoneOf(w, types) PROVE NoneOf(s, types) /\ NoneOf(u, types)
  <2>1. ASSUME NEW i \in 1..m PROVE s[i].t \notin types
    <3>1. i \in 1..Len(w) /\ w[i] = s[i]
      BY <1>1
    <3> QED BY <1>2, <3>1 DEF NoneOf
  <2>2. ASSUME NEW i \in 1..n PROVE u[i].t \notin types
    <3>1. m + i \in 1..Len(w) /\ w[m + i] = u[i]
      BY <1>1
    <3> QED BY <1>2, <3>1 DEF NoneOf
  <2> QED BY <2>1, <2>2 DEF NoneOf
<1>3. ASSUME NoneOf(s, types), NoneOf(u, types) PROVE NoneOf(w, types)
  <2> SUFFICES ASSUME NEW i \in 1..Len(w) PROVE w[i].t \notin types
    BY DEF NoneOf
  <2>1. CASE i \in 1..m
    <3>1. w[i] = s[i] /\ s[i].t \notin types
      BY <1>1, <1>3, <2>1 DEF NoneOf
    <3> QED BY <3>1
  <2>2. CASE i \notin 1..m
    <3> DEFINE j == i - m
    <3>1. j \in 1..n /\ i = m + j
      BY <1>1, <2>2
    <3> HIDE DEF j
    <3>2. w[i] = u[j] /\ u[j].t \notin types
      BY <1>1, <1>3, <3>1 DEF NoneOf
    <3> QED BY <3>2
  <2> QED BY <2>1, <2>2
<1> QED
  BY <1>2, <1>3 DEF w

LEMMA NoneEmpty == ASSUME NEW types PROVE NoneOf(<<>>, types)
BY DEF NoneOf

LEMMA NoneSubset ==
  ASSUME NEW s, NEW types, NEW some \in SUBSET types, NoneOf(s, types)
  PROVE  NoneOf(s, some)
BY DEF NoneOf

LEMMA HasConcat ==
  ASSUME NEW T, NEW s \in Seq(T), NEW u \in Seq(T), NEW x
  PROVE  Has(s \o u, x) <=> Has(s, x) \/ Has(u, x)
BY HasIs, NoneConcat

LEMMA NoneOnly ==
  ASSUME NEW T, NEW s \in Seq(T), NEW types, NoneOf(s, types)
  PROVE  Only(s, types) = <<>>
<1> DEFINE kept == Places(s, types)
           a == Ascending(Len(s), kept)
           o == Only(s, types)
<1>1. Len(a) = Len(o) /\ o \in Seq(T)
  BY PickAscending, OnlyType DEF Only
<1>2. kept = {}
  BY DEF NoneOf, Places
<1>3. \A k \in 1..Len(a) : a[k] \in kept
  BY AscendingEnumerates DEF Enumerates
<1> HIDE DEF a, o, kept
<1>4. Len(o) = 0
  BY <1>1, <1>2, <1>3
<1> QED
  BY <1>1, <1>4 DEF o

LEMMA OrderedConcat ==
  ASSUME NEW T, NEW s \in Seq(T), NEW u \in Seq(T), NEW types
  PROVE  /\ Ordered(s \o u, types) => Ordered(s, types)
         /\ Ordered(s, types) /\ NoneOf(u, types) => Ordered(s \o u, types)
         /\ NoneOf(s, types) /\ Ordered(u, types) => Ordered(s \o u, types)
<1> DEFINE a == Only(s, types)
           b == Only(u, types)
           c == Only(s \o u, types)
<1>1. a \in Seq(T) /\ b \in Seq(T) /\ c = a \o b
  <2>1. a \in Seq(T) /\ b \in Seq(T)
    BY OnlyType
  <2>2. Only(s \o u, types) = Only(s, types) \o Only(u, types)
    <3> HIDE DEF a, b, c
    <3> QED BY OnlyConcat
  <2> QED BY <2>1, <2>2
<1>2. NoneOf(u, types) => b = <<>>
  BY NoneOnly
<1>3. NoneOf(s, types) => a = <<>>
  BY NoneOnly
<1>4. /\ Ordered(s, types) <=> \A k \in 1..Len(a) : a[k].id = k
      /\ Ordered(u, types) <=> \A k \in 1..Len(b) : b[k].id = k
      /\ Ordered(s \o u, types) <=> \A k \in 1..Len(c) : c[k].id = k
  BY DEF Ordered
<1> HIDE DEF a, b, c
<1>5. ASSUME Ordered(s \o u, types) PROVE Ordered(s, types)
  <2>1. \A k \in 1..Len(a) : k \in 1..Len(c) /\ c[k] = a[k]
    BY <1>1, ConcatProperties
  <2> QED BY <1>4, <1>5, <2>1
<1>6. ASSUME Ordered(s, types), NoneOf(u, types) PROVE Ordered(s \o u, types)
  <2>1. c = a
    BY <1>1, <1>2, <1>6, ConcatEmptySeq
  <2> QED BY <1>4, <1>6, <2>1
<1>7. ASSUME NoneOf(s, types), Ordered(u, types) PROVE Ordered(s \o u, types)
  <2>1. c = b
    BY <1>1, <1>3, <1>7, ConcatEmptySeq
  <2> QED BY <1>4, <1>7, <2>1
<1> QED
  BY <1>5, <1>6, <1>7

LEMMA NoneOrdered ==
  ASSUME NEW T, NEW s \in Seq(T), NEW types, NoneOf(s, types)
  PROVE  Ordered(s, types)
BY NoneOnly DEF Ordered

LEMMA SaidTyped ==
  ASSUME BaseInv
  PROVE  /\ heard \in Seq(Printed) /\ line \in Seq(Printed) /\ air \in Seq(Printed)
         /\ line \o air \in Seq(Printed)
         /\ Said \in Seq(Printed) /\ Said = heard \o (line \o air)
<1>1. heard \in Seq(Printed) /\ line \in Seq(Printed) /\ air \in Seq(Printed)
  BY Widen DEF BaseInv, Typed, TextTyped
<1> QED
  BY <1>1, ConcatProperties, ConcatAssociative DEF Said

LEMMA SaidInSlices == ASSUME BaseInv, Slice PROVE Said' = Said
<1>1. heard' = heard \o line /\ line' = <<>> /\ air' = air
  BY DEF Slice
<1>2. heard \o line \in Seq(Printed)
  BY SaidTyped, ConcatProperties
<1>3. (heard \o line) \o <<>> = heard \o line
  BY <1>2, ConcatEmptySeq
<1> QED
  BY <1>1, <1>3 DEF Said

LEMMA SaidArrives == ASSUME BaseInv, Arrive PROVE Said' = Said
<1> DEFINE h == Head(air)
           r == Tail(air)
<1>1. air # <<>> /\ air' = r /\ line' = Append(line, h) /\ heard' = heard
  BY DEF Arrive, driverVars
<1>2. heard \in Seq(Printed) /\ line \in Seq(Printed) /\ air \in Seq(Printed)
  BY SaidTyped
<1>3. h \in Printed /\ r \in Seq(Printed) /\ air = <<h>> \o r /\ <<h>> \in Seq(Printed)
  BY <1>1, <1>2
<1>4. Append(line, h) = line \o <<h>>
  BY <1>2, <1>3
<1> HIDE DEF h, r
<1>5. (line \o <<h>>) \o r = line \o (<<h>> \o r) /\ line \o <<h>> \in Seq(Printed)
  BY <1>2, <1>3, ConcatAssociative, ConcatProperties
<1>6. (heard \o (line \o <<h>>)) \o r = heard \o ((line \o <<h>>) \o r)
  <2> DEFINE lh == line \o <<h>>
  <2>1. lh \in Seq(Printed)
    BY <1>5
  <2> HIDE DEF lh
  <2>2. (heard \o lh) \o r = heard \o (lh \o r)
    BY <1>2, <1>3, <2>1, ConcatAssociative, SMTT(20)
  <2> QED BY <2>2 DEF lh
<1>7. (heard \o line) \o air = heard \o (line \o air)
  BY <1>2, ConcatAssociative
<1> QED
  BY <1>1, <1>3, <1>4, <1>5, <1>6, <1>7, Zenon DEF Said

LEMMA SaidMore ==
  ASSUME BaseInv, NEW text \in Seq(Quiet), NEW next, GatewaySays(text, next)
  PROVE  Said' = Said \o text
<1>1. air' = air \o text /\ heard' = heard /\ line' = line
  BY DEF GatewaySays, driverVars
<1>2. heard \o line \in Seq(Printed) /\ air \in Seq(Printed) /\ text \in Seq(Printed)
  BY SaidTyped, ConcatProperties, Widen
<1>3. (heard \o line) \o (air \o text) = ((heard \o line) \o air) \o text
  BY <1>2, ConcatAssociative, SMTT(20)
<1> QED
  BY <1>1, <1>3 DEF Said

\* When the gateway hangs up, what is cut is the end of what it said.
LEMMA SaidCut ==
  ASSUME BaseInv, HangUp
  PROVE  \E a, b \in Seq(Printed) : Said = a \o b /\ Said' = a \o HungUp
<1>1. PICK n \in 0..Len(air) : air' = SubSeq(air, 1, n) \o HungUp
  BY DEF HangUp
<1>2. heard' = heard /\ line' = line
  BY DEF HangUp, driverVars
<1> DEFINE f == SubSeq(air, 1, n)
           b == SubSeq(air, n + 1, Len(air))
           hl == heard \o line
<1>3. hl \in Seq(Printed) /\ air \in Seq(Printed) /\ HungUp \in Seq(Printed)
  BY SaidTyped, ConcatProperties, Widen, AiredHungUp
<1>4. f \in Seq(Printed) /\ b \in Seq(Printed) /\ air = f \o b
  <2>1. f \in Seq(Printed) /\ b \in Seq(Printed)
    BY <1>3
  <2>2. f \o b = SubSeq(air, 1, Len(air))
    <3>1. 1 \in 1..(Len(air) + 1) /\ n \in (1 - 1)..Len(air) /\ Len(air) \in n..Len(air)
      BY <1>3
    <3> QED BY <1>3, <3>1, ConcatAdjacentSubSeq
  <2> QED BY <1>3, <2>1, <2>2, SubSeqFull
<1> HIDE DEF f, b, hl
<1>5. hl \o (f \o b) = (hl \o f) \o b /\ hl \o (f \o HungUp) = (hl \o f) \o HungUp
      /\ hl \o f \in Seq(Printed)
  <2>1. hl \o (f \o b) = (hl \o f) \o b
    BY <1>3, <1>4, ConcatAssociative, SMTT(20)
  <2>2. hl \o (f \o HungUp) = (hl \o f) \o HungUp
    BY <1>3, <1>4, ConcatAssociative, SMTT(20)
  <2>3. hl \o f \in Seq(Printed)
    BY <1>3, <1>4, ConcatProperties
  <2> QED BY <2>1, <2>2, <2>3
<1>6. Said = (hl \o f) \o b /\ Said' = (hl \o f) \o HungUp
  BY <1>1, <1>2, <1>4, <1>5, Zenon DEF Said, hl, f
<1> QED
  BY <1>4, <1>5, <1>6

BadCommand == <<Tok("EH?"), Tok("cmd")>>

\* A stage begins with what the KAM-XL printed and the driver had not read yet, and
\* with what it prints of what is sent.
LEMMA SaidAtNextStage ==
  ASSUME BaseInv, NEW unit \in Units, Send(unit), NEW s, NextStage(s), air' = air
  PROVE  \E e \in Seq(Printed) :
           /\ e = Echoed(unit) \/ e = Echoed(unit) \o BadCommand
           /\ Said' = (line \o e) \o air
           /\ line \o e \in Seq(Printed)
<1>1. Echoed(unit) \in Seq(Printed) /\ BadCommand \in Seq(Printed)
  <2>1. Tok("EH?") \in Printed /\ Tok("cmd") \in Printed
    BY PlainTok, QuietIs DEF TokTypes, Numbered
  <2> QED BY <2>1, QuietEcho, Widen DEF BadCommand
<1> DEFINE f == Echoed(unit)
           g == f \o BadCommand
<1>2. line \in Seq(Printed) /\ air \in Seq(Printed)
  BY SaidTyped
<1>3. g \in Seq(Printed)
  BY <1>1, ConcatProperties
<1>4. \E e \in {f, g} : line' = line \o e
  <2>1. CASE link
    BY <2>1 DEF Send
  <2>2. CASE ~link
    <3>1. line' = (line \o f) \o BadCommand
      BY <2>2 DEF Send, BadCommand
    <3> HIDE DEF f
    <3>2. (line \o f) \o BadCommand = line \o (f \o BadCommand)
      BY <1>1, <1>2, ConcatAssociative, SMTT(20) DEF f
    <3> QED BY <3>1, <3>2
  <2> QED BY <2>1, <2>2
<1> HIDE DEF f, g
<1>5. PICK e \in {f, g} : line' = line \o e
  BY <1>4
<1>6. e \in Seq(Printed)
  BY <1>1, <1>3, <1>5 DEF f
<1>7. line \o e \in Seq(Printed)
  BY <1>2, <1>6, ConcatProperties
<1>8. Said' = (line \o e) \o air
  <2>1. Said' = (<<>> \o (line \o e)) \o air
    BY <1>5, Zenon DEF Said, NextStage
  <2> QED BY <1>7, <2>1, ConcatEmptySeq
<1> QED
  BY <1>6, <1>7, <1>8 DEF f, g

-----------------------------------------------------------------------------
(***************************************************************************)
(* The invariant, second part: who speaks when.  A stage is of one of the  *)
(* two calls, a unit is sent in its stage, and the gateway that is gone is *)
(* the only one the KAM-XL can have lost.                                  *)
(***************************************************************************)
InTurn ==
  /\ method = "check" => stage \in {"handshake", "proposals", "messages"}
  /\ method = "send" => stage \in {"handshake", "FS", "reciprocal"}
  /\ method = "check" => gw # "receive"
  /\ stage = "handshake" => up = <<>> /\ gw \in {"greet", "login", "gone"}
  /\ pc = "upload" => stage = "FS"
UnitsInTurn ==
  \A i \in 1..Len(up) : /\ up[i].t = "login" => up[i].n = outbox
                        /\ up[i].t = "FS" => stage # "proposals"
LinkInTurn == ~link \/ Has(air, "banner") => gw = "gone"

TurnInv == InTurn /\ UnitsInTurn /\ LinkInTurn

LEMMA TurnStart == Init => TurnInv
<1> SUFFICES ASSUME Init PROVE TurnInv
  OBVIOUS
<1>1. /\ pc = "poll" /\ stage = "handshake" /\ up = <<>> /\ gw = "greet" /\ air = <<>>
      /\ method \in {"check", "send"}
  BY DEF Init
<1>2. link
  BY Zenon DEF Init
<1> QED
  BY <1>1, <1>2 DEF TurnInv, InTurn, UnitsInTurn, LinkInTurn, Has

\* What the gateway says is said before it is gone.
LEMMA LinkSays ==
  ASSUME BaseInv, LinkInTurn, gw # "gone", NEW text \in Seq(Quiet), NEW next,
         GatewaySays(text, next)
  PROVE  LinkInTurn'
<1>1. air' = air \o text /\ link' = link
  BY DEF GatewaySays
<1>2. ~Has(text, "banner")
  BY QuietHas
<1>3. Has(air', "banner") <=> Has(air, "banner")
  <2>1. air \in Seq(Printed) /\ text \in Seq(Printed)
    BY SaidTyped, Widen
  <2>2. Has(air \o text, "banner") <=> Has(air, "banner") \/ Has(text, "banner")
    BY <2>1, HasConcat
  <2> QED BY <1>1, <1>2, <2>2
<1>4. link /\ ~Has(air, "banner")
  BY DEF LinkInTurn
<1> QED
  BY <1>1, <1>3, <1>4 DEF LinkInTurn

LEMMA UnitsTail ==
  ASSUME BaseInv, UnitsInTurn, up # <<>>, up' = Tail(up), UNCHANGED <<outbox, stage>>
  PROVE  UnitsInTurn'
<1>1. up \in Seq(Units)
  BY DEF BaseInv, Typed, TextTyped
<1>2. \A i \in 1..Len(up') : i + 1 \in 1..Len(up) /\ up'[i] = up[i + 1]
  BY <1>1
<1> QED
  BY <1>2 DEF UnitsInTurn

\* What the gateway says in each of its steps.
LEMMA GatewayTexts ==
  ASSUME BaseInv
  PROVE  /\ Greet => \E text \in Seq(Quiet) :
              /\ GatewaySays(text, "login")
              /\ NoneOf(text, TokTypes \ {"challenge", "prompt"})
         /\ Offer(mail) \in Seq(Quiet)
         /\ Messages(Len(mail)) \in Seq(Quiet)
         /\ <<Tok("FQ")>> \in Seq(Quiet) /\ <<Tok("FF")>> \in Seq(Quiet)
         /\ took' \in Seq(Codes) => Answers(took') \in Seq(Quiet)
<1> USE DEF BaseInv, Typed
<1>1. Len(mail) \in 0..MaxMail /\ mail \in [1..Len(mail) -> {"FB", "FC"}]
  BY DEF CallTyped
<1>2. ASSUME Greet
      PROVE  \E text \in Seq(Quiet) : /\ GatewaySays(text, "login")
                                      /\ NoneOf(text, TokTypes \ {"challenge", "prompt"})
  <2> DEFINE asks == <<Tok("challenge")>>
             prompt == <<Tok("prompt")>>
             none == <<>>
             types == TokTypes \ {"challenge", "prompt"}
             text == (IF challenged' THEN asks ELSE <<>>) \o prompt
  <2>1. GatewaySays(text, "login")
    BY <1>2 DEF Greet
  <2>2. asks \in Seq(Quiet) /\ prompt \in Seq(Quiet) /\ none \in Seq(Quiet)
    <3>1. Tok("challenge") \in Quiet /\ Tok("prompt") \in Quiet
      BY PlainTok DEF TokTypes, Numbered
    <3> QED BY <3>1
  <2>3. NoneOf(asks, types) /\ NoneOf(prompt, types) /\ NoneOf(none, types)
    BY DEF NoneOf, Tok
  <2> HIDE DEF asks, prompt, none, types
  <2>4. \E first \in {asks, none} : text = first \o prompt
    BY DEF none
  <2> HIDE DEF text
  <2>5. PICK first \in {asks, none} : text = first \o prompt
    BY <2>4
  <2>6. first \in Seq(Quiet) /\ NoneOf(first, types)
    BY <2>2, <2>3, <2>5
  <2>7. text \in Seq(Quiet) /\ NoneOf(text, types)
    BY <2>2, <2>3, <2>5, <2>6, ConcatProperties, NoneConcat
  <2> QED BY <2>1, <2>7 DEF types
<1>3. Tok("FF") \in Quiet /\ Tok("FQ") \in Quiet
  BY PlainTok DEF TokTypes, Numbered
<1>4. Offer(mail) \in Seq(Quiet) /\ Messages(Len(mail)) \in Seq(Quiet)
  BY <1>1, QuietOffer, QuietMessages
<1>5. took' \in Seq(Codes) => Answers(took') \in Seq(Quiet)
  BY QuietAnswers
<1>6. <<Tok("FQ")>> \in Seq(Quiet) /\ <<Tok("FF")>> \in Seq(Quiet)
  BY <1>3
<1> QED
  BY <1>2, <1>4, <1>5, <1>6, Zenon

LEMMA LoginTaken ==
  ASSUME BaseInv, TurnInv, TakeLogin
  PROVE  /\ up # <<>> /\ up' = Tail(up) /\ stage # "handshake" /\ gw = "login"
         /\ UNCHANGED <<sessionVars, driverVars, line, link>>
         /\ \/ /\ outbox = 0 /\ mail = <<>> /\ took' = took
               /\ GatewaySays(<<Tok("FQ")>>, "over")
            \/ /\ outbox = 0 /\ mail # <<>> /\ took' = took
               /\ GatewaySays(Offer(mail), "offered")
            \/ /\ outbox > 0 /\ took' \in Seq(Codes) /\ Len(took') = outbox
               /\ GatewaySays(Answers(took'), "receive")
<1>1. /\ gw = "login" /\ up # <<>> /\ Head(up).t = "login" /\ up' = Tail(up)
      /\ UNCHANGED <<sessionVars, driverVars, line, link>>
  BY DEF TakeLogin, Takes, GatewaySays
<1>2. stage # "handshake"
  BY <1>1 DEF TurnInv, InTurn
<1>3. Head(up).n = outbox
  <2>1. 1 \in 1..Len(up) /\ Head(up) = up[1]
    BY <1>1 DEF BaseInv, Typed, TextTyped
  <2> QED BY <1>1, <2>1 DEF TurnInv, UnitsInTurn
<1>4. outbox \in Nat
  BY MailAssumption DEF BaseInv, Typed, CallTyped
<1>5. \/ /\ outbox = 0 /\ mail = <<>> /\ took' = took
         /\ GatewaySays(<<Tok("FQ")>>, "over")
      \/ /\ outbox = 0 /\ mail # <<>> /\ took' = took
         /\ GatewaySays(Offer(mail), "offered")
      \/ /\ outbox > 0 /\ took' \in [1..outbox -> Codes]
         /\ GatewaySays(Answers(took'), "receive")
  BY <1>3 DEF TakeLogin
<1>6. took' \in [1..outbox -> Codes] => took' \in Seq(Codes) /\ Len(took') = outbox
  BY <1>4
<1> QED
  BY <1>1, <1>2, <1>5, <1>6

LEMMA TurnGateway ==
  ASSUME BaseInv, TurnInv, Gateway
  PROVE  TurnInv'
<1> USE DEF TurnInv
<1>1. CASE Greet
  <2>1. /\ gw = "greet" /\ gw' = "login" /\ up' = up
        /\ UNCHANGED <<sessionVars, driverVars>>
    BY <1>1 DEF Greet, GatewaySays
  <2>2. LinkInTurn'
    BY <1>1, <2>1, GatewayTexts, LinkSays
  <2> QED BY <2>1, <2>2 DEF InTurn, UnitsInTurn, sessionVars, driverVars
<1>2. CASE TakeLogin
  <2>1. /\ up # <<>> /\ up' = Tail(up) /\ stage # "handshake" /\ gw = "login"
        /\ UNCHANGED <<sessionVars, driverVars, line, link>>
        /\ outbox \in Nat /\ (method = "send" <=> outbox # 0) /\ method \in {"check", "send"}
    BY <1>2, LoginTaken, MailAssumption DEF BaseInv, Typed, CallTyped
  <2>2. \E text \in Seq(Quiet), next \in {"over", "offered", "receive"} :
          GatewaySays(text, next) /\ (next = "receive" => outbox > 0)
    BY <1>2, LoginTaken, GatewayTexts
  <2>3. gw' \in {"over", "offered", "receive"} /\ (gw' = "receive" => outbox > 0)
    BY <2>2 DEF GatewaySays
  <2>4. LinkInTurn'
    BY <2>1, <2>2, LinkSays
  <2>5. UnitsInTurn'
    BY <2>1, UnitsTail DEF sessionVars, driverVars
  <2> QED BY <2>1, <2>3, <2>4, <2>5 DEF InTurn, sessionVars, driverVars
<1>3. CASE TakeFS
  <2>1. /\ gw = "offered" /\ gw' = "over" /\ up # <<>> /\ up' = Tail(up)
        /\ UNCHANGED <<sessionVars, driverVars>>
    BY <1>3 DEF TakeFS, GatewaySays, Takes
  <2>2. LinkInTurn'
    BY <1>3, <2>1, GatewayTexts, LinkSays DEF TakeFS
  <2>3. UnitsInTurn'
    BY <2>1, UnitsTail DEF sessionVars, driverVars
  <2> QED BY <2>1, <2>2, <2>3 DEF InTurn, sessionVars, driverVars
<1>4. CASE TakeBlock
  <2>1. /\ gw = "receive" /\ up # <<>> /\ up' = Tail(up)
        /\ UNCHANGED <<sessionVars, driverVars, air, link, gatewayVars>>
    BY <1>4 DEF TakeBlock, Takes
  <2>2. UnitsInTurn'
    BY <2>1, UnitsTail DEF sessionVars, driverVars
  <2> QED BY <2>1, <2>2 DEF InTurn, LinkInTurn, sessionVars, driverVars, gatewayVars
<1>5. CASE Reciprocate
  <2>1. /\ gw = "receive" /\ gw' = "over" /\ up' = up
        /\ UNCHANGED <<sessionVars, driverVars>>
    BY <1>5 DEF Reciprocate, GatewaySays
  <2>2. \E text \in Seq(Quiet) : GatewaySays(text, "over")
    BY <1>5, GatewayTexts DEF Reciprocate
  <2>3. LinkInTurn'
    BY <2>1, <2>2, LinkSays
  <2> QED BY <2>1, <2>3 DEF InTurn, UnitsInTurn, sessionVars, driverVars
<1>6. CASE HangUp
  <2>1. gw' = "gone" /\ UNCHANGED <<sessionVars, driverVars, up>>
    BY <1>6 DEF HangUp
  <2> QED BY <2>1 DEF InTurn, UnitsInTurn, LinkInTurn, sessionVars, driverVars
<1> QED
  BY <1>1, <1>2, <1>3, <1>4, <1>5, <1>6 DEF Gateway

LEMMA TurnArrive == ASSUME BaseInv, TurnInv, Arrive PROVE TurnInv'
<1> USE DEF TurnInv
<1>1. /\ air # <<>> /\ air' = Tail(air) /\ link' = (link /\ Head(air).t # "banner")
      /\ UNCHANGED <<sessionVars, driverVars, up, gatewayVars>>
  BY DEF Arrive
<1>2. Has(air, "banner") <=> Head(air).t = "banner" \/ Has(Tail(air), "banner")
  <2> DEFINE h == Head(air)
             r == Tail(air)
             first == <<h>>
  <2>1. air = first \o r /\ first \in Seq(Printed) /\ r \in Seq(Printed)
    BY <1>1, SaidTyped
  <2>2. Has(first, "banner") <=> h.t = "banner"
    BY DEF Has
  <2> HIDE DEF first, r, h
  <2>3. Has(first \o r, "banner") <=> Has(first, "banner") \/ Has(r, "banner")
    BY <2>1, HasConcat
  <2> QED BY <2>1, <2>2, <2>3 DEF r, h
<1>3. LinkInTurn'
  BY <1>1, <1>2 DEF LinkInTurn, gatewayVars
<1> QED
  BY <1>1, <1>3 DEF InTurn, UnitsInTurn, sessionVars, driverVars, gatewayVars

LEMMA AppendAt ==
  ASSUME NEW T, NEW s \in Seq(T), NEW x \in T, NEW i \in 1..Len(Append(s, x))
  PROVE  Append(s, x)[i] = x \/ (i \in 1..Len(s) /\ Append(s, x)[i] = s[i])
<1> DEFINE a == Append(s, x)
           n == Len(s)
<1>1. Len(a) = n + 1 /\ n \in Nat /\ a[n + 1] = x /\ \A k \in 1..n : a[k] = s[k]
  OBVIOUS
<1> HIDE DEF a, n
<1>2. i = n + 1 \/ i \in 1..n
  BY <1>1 DEF a
<1>3. a[i] = x \/ (i \in 1..n /\ a[i] = s[i])
  BY <1>1, <1>2
<1> QED
  BY <1>3 DEF a, n

LEMMA UnitsSent ==
  ASSUME BaseInv, UnitsInTurn, NEW unit \in Units, Send(unit), outbox' = outbox,
         unit.t = "login" => unit.n = outbox, unit.t = "FS" => stage' # "proposals",
         up = <<>> \/ (stage # "proposals" /\ stage' # "proposals")
  PROVE  UnitsInTurn'
<1>1. up \in Seq(Units)
  BY DEF BaseInv, Typed, TextTyped
<1>2. ASSUME NEW i \in 1..Len(up')
      PROVE  up'[i] = unit \/ (i \in 1..Len(up) /\ up'[i] = up[i])
  <2>1. CASE link
    <3>1. up' = Append(up, unit)
      BY <2>1 DEF Send
    <3> QED BY <1>1, <3>1, AppendAt
  <2>2. CASE ~link
    <3>1. up' = up
      BY <2>2 DEF Send
    <3> QED BY <1>1, <3>1
  <2> QED BY <2>1, <2>2
<1> QED
  BY <1>1, <1>2 DEF UnitsInTurn

LEMMA TurnDriver ==
  ASSUME BaseInv, TurnInv, Driver
  PROVE  TurnInv'
<1> USE DEF TurnInv
\* The steps that neither send nor go to another stage.
<1>1. ASSUME UNCHANGED <<sessionVars, stage, link, air, up, gw>>,
             pc' = "upload" => stage = "FS"
      PROVE  TurnInv'
  BY <1>1 DEF InTurn, UnitsInTurn, LinkInTurn, sessionVars
<1>2. CASE Slice \/ PollTimesOut \/ CtrlC \/ Disconnected \/ DisconnectTimesOut \/ GoodAnswer
  BY <1>1, <1>2 DEF Slice, PollTimesOut, CtrlC, Disconnected, DisconnectTimesOut, GoodAnswer,
    Acting, gatewayVars
<1>3. CASE PollRaises \/ RaiseHungUp \/ NoMail \/ MixedBatch \/ TakeMessages \/ BadAnswer
  <2>1. UNCHANGED <<sessionVars, stage, link, air, up, gw>> /\ pc' \in {"end", "ctrlC"}
    BY <1>3 DEF PollRaises, RaiseHungUp, NoMail, MixedBatch, TakeMessages, BadAnswer, Leave,
      AfterTry, gatewayVars
  <2> QED BY <1>1, <2>1
<1>4. CASE Login
  <2> DEFINE unit == [t |-> "login", pr |-> Has(heard, "challenge"), n |-> outbox]
  <2>1. /\ Send(unit) /\ stage = "handshake" /\ pc' = "poll"
        /\ stage' = IF method = "check" THEN "proposals" ELSE "FS"
        /\ UNCHANGED <<sessionVars, link, air, gw>>
    BY <1>4 DEF Login, Acting, NextStage, gatewayVars
  <2>2. unit \in Units /\ unit.t = "login" /\ unit.n = outbox
    <3>1. Has(heard, "challenge") \in BOOLEAN
      BY Zenon DEF Has
    <3>2. outbox \in 0..MaxMail
      BY DEF BaseInv, Typed, CallTyped
    <3> QED BY <3>1, <3>2 DEF Units
  <2> HIDE DEF unit
  <2>3. UnitsInTurn'
    <3>1. up = <<>> /\ outbox' = outbox
      BY <2>1 DEF InTurn, sessionVars
    <3>2. unit.t # "FS"
      BY <2>2
    <3>3. UnitsInTurn /\ unit \in Units /\ unit.n = outbox /\ Send(unit)
      BY <2>1, <2>2
    <3> QED BY <3>1, <3>2, <3>3, UnitsSent
  <2> QED BY <2>1, <2>3 DEF InTurn, LinkInTurn, sessionVars
<1>5. CASE AcceptAll
  <2> DEFINE unit == [t |-> "FS", n |-> Len(ParseProposals(heard)), code |-> "+"]
  <2>1. /\ Send(unit) /\ stage = "proposals" /\ stage' = "messages" /\ pc' = "poll"
        /\ UNCHANGED <<sessionVars, link, air, gw>>
    BY <1>5 DEF AcceptAll, Acting, NextStage, gatewayVars
  <2>2. Len(ParseProposals(heard)) \in Nat
    <3>1. ParseProposals(heard) \in Seq(Proposals)
      BY ProposalsTyped DEF BaseInv, Typed, TextTyped
    <3> QED BY <3>1
  <2>3. unit \in Units /\ unit.t = "FS"
    BY <2>2 DEF Units
  <2> HIDE DEF unit
  <2>4. up \in Seq(Units)
    BY DEF BaseInv, Typed, TextTyped
  <2>5. UnitsInTurn'
    <3>1. ASSUME NEW i \in 1..Len(up')
          PROVE  up'[i] = unit \/ (i \in 1..Len(up) /\ up'[i] = up[i])
      <4>1. CASE up' = up
        BY <4>1
      <4>2. CASE up' = Append(up, unit)
        BY <2>3, <2>4, <4>2, AppendAt
      <4> QED BY <2>1, <4>1, <4>2 DEF Send
    <3> QED BY <2>1, <2>3, <3>1 DEF UnitsInTurn, sessionVars
  <2> QED BY <2>1, <2>5 DEF InTurn, LinkInTurn, sessionVars
<1>6. CASE Upload
  <2>1. /\ pc = "upload" /\ stage = "FS" /\ UNCHANGED <<sessionVars, link, air, gw>>
    BY <1>6 DEF Upload, InTurn, gatewayVars
  <2>2. CASE uploads = <<>>
    <3>1. stage' = "reciprocal" /\ pc' = "poll" /\ up' = up
      BY <1>6, <2>2 DEF Upload, NextStage
    <3> QED BY <2>1, <3>1 DEF InTurn, UnitsInTurn, LinkInTurn, sessionVars
  <2>3. CASE uploads # <<>>
    <3> DEFINE n == Head(uploads)
               unit == [t |-> "block", n |-> n]
    <3>1. Send(unit) /\ UNCHANGED <<pc, stage>>
      BY <1>6, <2>3 DEF Upload
    <3>2. n \in 1..MaxMail
      <4> DEFINE T == 1..MaxMail
      <4>1. uploads \in Seq(T)
        BY DEF BaseInv, Typed, DriverTyped
      <4> HIDE DEF T
      <4>2. Head(uploads) \in T
        BY <2>3, <4>1
      <4> QED BY <4>2 DEF T
    <3>3. unit \in Units /\ unit.t = "block"
      BY <3>2 DEF Units
    <3> HIDE DEF unit
    <3>4. UnitsInTurn'
      BY <2>1, <3>1, <3>3, UnitsSent DEF sessionVars
    <3> QED BY <2>1, <3>1, <3>4 DEF InTurn, LinkInTurn, sessionVars
  <2> QED BY <2>2, <2>3
<1>7. CASE Decline
  <2> DEFINE unit == [t |-> "FS", n |-> Len(ParseProposals(heard)), code |-> "-"]
  <2>1. /\ Send(unit) \/ UNCHANGED <<line, up>>
        /\ stage = "reciprocal" /\ stage' = stage /\ pc' \in {"end", "ctrlC"}
        /\ UNCHANGED <<sessionVars, link, air, gw>>
    BY <1>7 DEF Decline, Acting, Leave, AfterTry, gatewayVars
  <2>2. Len(ParseProposals(heard)) \in Nat
    <3>1. ParseProposals(heard) \in Seq(Proposals)
      BY ProposalsTyped DEF BaseInv, Typed, TextTyped
    <3> QED BY <3>1
  <2>3. unit \in Units /\ unit.t = "FS"
    BY <2>2 DEF Units
  <2> HIDE DEF unit
  <2>4. UnitsInTurn'
    <3>1. CASE Send(unit)
      BY <2>1, <2>3, <3>1, UnitsSent DEF sessionVars
    <3>2. CASE UNCHANGED <<line, up>>
      BY <2>1, <3>2 DEF UnitsInTurn, sessionVars
    <3> QED BY <2>1, <3>1, <3>2
  <2> QED BY <2>1, <2>4 DEF InTurn, LinkInTurn, sessionVars
<1>8. CASE Disconne
  <2>1. /\ pc' = "awaitBanner" /\ UNCHANGED <<sessionVars, stage, link, up>>
        /\ gw' = "gone" \/ UNCHANGED <<gw, air>>
    BY <1>8 DEF Disconne
  <2> QED BY <2>1 DEF InTurn, UnitsInTurn, LinkInTurn, sessionVars
<1> QED
  BY <1>2, <1>3, <1>4, <1>5, <1>6, <1>7, <1>8 DEF Driver

LEMMA TurnKept == ASSUME BaseInv, TurnInv, [Next]_vars PROVE TurnInv'
<1>1. CASE UNCHANGED vars
  BY <1>1 DEF TurnInv, InTurn, UnitsInTurn, LinkInTurn, vars, sessionVars, driverVars,
    gatewayVars
<1> QED
  BY <1>1, TurnGateway, TurnArrive, TurnDriver DEF Next

-----------------------------------------------------------------------------
(***************************************************************************)
(* What the texts of the session are made of.                              *)
(***************************************************************************)
OfferTypes == {"FB", "FC"}
BlockTypes == {"head", "tail"}

LEMMA OfferHas ==
  ASSUME NEW n \in 0..MaxMail, NEW tiers \in [1..n -> OfferTypes]
  PROVE  /\ NoneOf(Offer(tiers), TokTypes \ {"FB", "FC", "F>", "eol"})
         /\ Len(Offer(tiers)) = n + 2
         /\ \A i \in 1..n : Offer(tiers)[i] = [t |-> tiers[i], id |-> i]
         /\ Offer(tiers)[n + 1] = Tok("F>") /\ Offer(tiers)[n + 2] = Tok("eol")
<1> DEFINE lines == [i \in 1..n |-> [t |-> tiers[i], id |-> i]]
           o == Offer(tiers)
<1>1. n \in Nat /\ Len(tiers) = n
  BY MailAssumption
<1>2. Offer(tiers) = lines \o EndOfBlock
  BY <1>1 DEF Offer
<1>3. \A i \in 1..n : [t |-> tiers[i], id |-> i] \in [t : OfferTypes, id : Nat]
  OBVIOUS
<1>4. lines \in Seq([t : OfferTypes, id : Nat]) /\ Len(lines) = n
  BY <1>1, <1>3
<1>5. EndOfBlock[1] = Tok("F>") /\ EndOfBlock[2] = Tok("eol") /\ Len(EndOfBlock) = 2
  BY DEF EndOfBlock
<1>6. /\ Len(o) = n + 2
      /\ \A i \in 1..n : o[i] = [t |-> tiers[i], id |-> i]
      /\ o[n + 1] = Tok("F>") /\ o[n + 2] = Tok("eol")
  <2> DEFINE U == [t : OfferTypes, id : Nat] \cup {Tok("F>"), Tok("eol")}
  <2>1. lines \in Seq(U)
    <3>1. \A i \in 1..n : [t |-> tiers[i], id |-> i] \in U
      BY <1>3
    <3> HIDE DEF U
    <3> QED BY <1>1, <3>1
  <2>2. EndOfBlock \in Seq(U)
    BY DEF EndOfBlock
  <2>3. \A i \in 1..n : lines[i] = [t |-> tiers[i], id |-> i]
    OBVIOUS
  <2> HIDE DEF U, lines
  <2> DEFINE w == lines \o EndOfBlock
  <2>4. /\ Len(w) = n + 2
        /\ \A i \in 1..n : w[i] = lines[i]
        /\ \A i \in 1..2 : w[n + i] = EndOfBlock[i]
    <3>1. Len(lines) = n
      BY <1>4
    <3>2. /\ Len(w) = Len(lines) + Len(EndOfBlock)
          /\ \A i \in 1..Len(lines) : w[i] = lines[i]
          /\ \A i \in 1..Len(EndOfBlock) : w[Len(lines) + i] = EndOfBlock[i]
      BY <2>1, <2>2, ConcatAt
    <3> HIDE DEF w
    <3> QED BY <1>5, <3>1, <3>2
  <2>5. o = w
    BY <1>2
  <2> HIDE DEF w
  <2>6. w[n + 1] = EndOfBlock[1] /\ w[n + 2] = EndOfBlock[2]
    BY <2>4
  <2> QED BY <1>5, <2>3, <2>4, <2>5, <2>6
<1> HIDE DEF o
<1>7. NoneOf(o, TokTypes \ {"FB", "FC", "F>", "eol"})
  <2> SUFFICES ASSUME NEW i \in 1..Len(o) PROVE o[i].t \in {"FB", "FC", "F>", "eol"}
    BY DEF NoneOf
  <2>1. CASE i \in 1..n
    <3>1. o[i] = [t |-> tiers[i], id |-> i] /\ tiers[i] \in OfferTypes
      BY <1>6, <2>1
    <3>2. o[i].t = tiers[i]
      BY <3>1
    <3> QED BY <3>1, <3>2 DEF OfferTypes
  <2>2. CASE i = n + 1
    BY <1>6, <2>2 DEF Tok
  <2>3. CASE i = n + 2
    BY <1>6, <2>3 DEF Tok
  <2> QED BY <1>1, <1>6, <2>1, <2>2, <2>3
<1> QED
  BY <1>6, <1>7 DEF o

LEMMA OfferOrdered ==
  ASSUME NEW n \in 0..MaxMail, NEW tiers \in [1..n -> OfferTypes]
  PROVE  Ordered(Offer(tiers), OfferTypes)
<1> DEFINE line0(i) == [t |-> tiers[i], id |-> i]
           lines == [i \in 1..n |-> line0(i)]
<1>1. n \in Nat /\ Len(tiers) = n /\ \A i \in 1..n : tiers[i] \in OfferTypes
  BY MailAssumption
<1>2. \A i \in 1..n : line0(i) \in Quiet
  <2> SUFFICES ASSUME NEW i \in 1..n PROVE line0(i) \in Quiet
    OBVIOUS
  <2>1. tiers[i] \in OfferTypes /\ i \in 1..MaxMail
    BY <1>1, MailAssumption
  <2> QED BY <2>1 DEF Quiet, Printed, Tokens, TokTypes, Numbered, OfferTypes
<1>3. lines \in Seq(Quiet) /\ Len(lines) = n /\ \A i \in 1..n : lines[i] = line0(i)
  <2> HIDE DEF line0
  <2> QED BY <1>1, <1>2
<1>4. EndOfBlock \in Seq(Quiet) /\ NoneOf(EndOfBlock, OfferTypes)
  <2>1. Tok("F>") \in Quiet /\ Tok("eol") \in Quiet
    BY PlainTok DEF TokTypes, Numbered
  <2>2. EndOfBlock \in Seq(Quiet)
    BY <2>1 DEF EndOfBlock
  <2>3. NoneOf(EndOfBlock, OfferTypes)
    BY DEF EndOfBlock, NoneOf, Tok, OfferTypes
  <2> QED BY <2>2, <2>3
<1>5. Offer(tiers) = lines \o EndOfBlock
  BY <1>1 DEF Offer
<1>6. \A i \in 1..n : line0(i).t \in OfferTypes /\ line0(i).id = i
  BY <1>1
<1> HIDE DEF lines, line0
<1>7. Only(lines, OfferTypes) = lines
  BY <1>3, <1>6, OnlyAll
<1>8. Ordered(lines, OfferTypes)
  BY <1>3, <1>6, <1>7 DEF Ordered
<1> QED
  BY <1>3, <1>4, <1>5, <1>8, OrderedConcat

LEMMA AnswersHave ==
  ASSUME NEW codes \in Seq(Codes)
  PROVE  /\ NoneOf(Answers(codes), TokTypes \ {"FS", "+", "-", "=", "eol"})
         /\ Len(Answers(codes)) = Len(codes) + 2
         /\ Answers(codes)[1] = Tok("FS")
         /\ \A i \in 1..Len(codes) : Answers(codes)[i + 1] = Tok(codes[i])
         /\ Answers(codes)[Len(codes) + 2] = Tok("eol")
<1> DEFINE n == Len(codes)
           fs == <<Tok("FS")>>
           said == [i \in 1..n |-> Tok(codes[i])]
           eol == <<Tok("eol")>>
           U == {Tok(t) : t \in Codes \cup {"FS", "eol"}}
           a == Answers(codes)
<1>1. a = (fs \o said) \o eol /\ n \in Nat
  BY DEF Answers
<1>2. fs \in Seq(U) /\ eol \in Seq(U) /\ Len(fs) = 1 /\ Len(eol) = 1
      /\ fs[1] = Tok("FS") /\ eol[1] = Tok("eol")
  OBVIOUS
<1>3. \A i \in 1..n : codes[i] \in Codes /\ Tok(codes[i]) \in U
  OBVIOUS
<1>4. said \in Seq(U) /\ Len(said) = n /\ \A i \in 1..n : said[i] = Tok(codes[i])
  <2> HIDE DEF U
  <2> QED BY <1>1, <1>3
<1> HIDE DEF fs, said, eol, U, n, a
<1> DEFINE b == fs \o said
<1>5. b \in Seq(U)
  BY <1>2, <1>4, ConcatProperties
<1>6. Len(b) = n + 1 /\ b[1] = Tok("FS") /\ \A i \in 1..n : b[i + 1] = Tok(codes[i])
  <2>1. /\ Len(b) = 1 + n
        /\ \A i \in 1..1 : b[i] = fs[i]
        /\ \A i \in 1..n : b[1 + i] = said[i]
    <3>1. /\ Len(b) = Len(fs) + Len(said)
          /\ \A i \in 1..Len(fs) : b[i] = fs[i]
          /\ \A i \in 1..Len(said) : b[Len(fs) + i] = said[i]
      <4>1. fs \in Seq(U) /\ said \in Seq(U)
        BY <1>2, <1>4
      <4> QED BY <4>1, ConcatAt
    <3> HIDE DEF b
    <3> QED BY <1>2, <1>4, <3>1
  <2> HIDE DEF b
  <2>2. \A i \in 1..n : 1 + i = i + 1
    BY <1>1
  <2> QED BY <1>1, <1>2, <1>4, <2>1, <2>2
<1> HIDE DEF b
<1>7. /\ Len(a) = n + 2
      /\ \A i \in 1..(n + 1) : a[i] = b[i]
      /\ \A i \in 1..1 : a[(n + 1) + i] = eol[i]
  <2>1. a = b \o eol
    BY <1>1 DEF b
  <2>2. /\ Len(b \o eol) = (n + 1) + 1
        /\ \A i \in 1..(n + 1) : (b \o eol)[i] = b[i]
        /\ \A i \in 1..1 : (b \o eol)[(n + 1) + i] = eol[i]
    BY <1>2, <1>5, <1>6, ConcatAt
  <2> QED BY <1>1, <2>1, <2>2
<1>8. \A i \in 1..(n + 1) : a[i] = b[i]
  BY <1>7
<1>9. a[n + 2] = Tok("eol")
  <2>1. (n + 1) + 1 = n + 2 /\ 1 \in 1..1
    BY <1>1
  <2>2. a[(n + 1) + 1] = eol[1]
    BY <1>7, <2>1, Zenon
  <2> QED BY <1>2, <2>1, <2>2
<1>10. a[1] = Tok("FS") /\ \A i \in 1..n : a[i + 1] = Tok(codes[i])
  <2>1. 1 \in 1..(n + 1) /\ \A i \in 1..n : i + 1 \in 1..(n + 1)
    BY <1>1
  <2> QED BY <1>6, <1>8, <2>1
<1>11. NoneOf(a, TokTypes \ {"FS", "+", "-", "=", "eol"})
  <2> SUFFICES ASSUME NEW i \in 1..Len(a) PROVE a[i].t \in {"FS", "+", "-", "=", "eol"}
    BY DEF NoneOf
  <2>1. CASE i = 1
    BY <1>10, <2>1 DEF Tok
  <2>2. CASE i = n + 2
    BY <1>9, <2>2 DEF Tok
  <2>3. CASE i \in 2..(n + 1)
    <3> DEFINE j == i - 1
    <3>1. j \in 1..n /\ i = j + 1
      BY <1>1, <2>3
    <3> HIDE DEF j
    <3>2. a[i] = Tok(codes[j]) /\ codes[j] \in Codes
      BY <1>3, <1>10, <3>1
    <3> QED BY <3>2 DEF Tok, Codes
  <2> QED BY <1>1, <1>7, <2>1, <2>2, <2>3
<1> QED
  BY <1>7, <1>9, <1>10, <1>11 DEF a, n

LEMMA MessagesAre ==
  ASSUME NEW n \in 0..MaxMail
  PROVE  /\ Len(Messages(n)) = 2 * n
         /\ \A i \in 1..n : /\ 2 * i \in 1..(2 * n) /\ 2 * i - 1 \in 1..(2 * n)
                            /\ Messages(n)[2 * i - 1] = [t |-> "head", id |-> i]
                            /\ Messages(n)[2 * i] = [t |-> "tail", id |-> i]
         /\ NoneOf(Messages(n), TokTypes \ BlockTypes)
<1> DEFINE at(k) == Message((k + 1) \div 2)[IF k % 2 = 1 THEN 1 ELSE 2]
           m == Messages(n)
<1>1. m = [k \in 1..(2 * n) |-> at(k)]
  BY DEF Messages
<1>2. n \in Nat /\ 2 * n \in Nat
  BY MailAssumption
<1>3. \A i \in Nat : Message(i)[1] = [t |-> "head", id |-> i]
                     /\ Message(i)[2] = [t |-> "tail", id |-> i]
  BY DEF Message
<1>4. ASSUME NEW i \in 1..n
      PROVE  /\ 2 * i \in 1..(2 * n) /\ 2 * i - 1 \in 1..(2 * n)
             /\ m[2 * i - 1] = [t |-> "head", id |-> i]
             /\ m[2 * i] = [t |-> "tail", id |-> i]
  <2>1. 2 * i \in 1..(2 * n) /\ 2 * i - 1 \in 1..(2 * n)
    BY <1>2
  <2>2. ((2 * i - 1) + 1) \div 2 = i /\ (2 * i - 1) % 2 = 1
        /\ (2 * i + 1) \div 2 = i /\ (2 * i) % 2 = 0
    BY <1>2
  <2>3. at(2 * i - 1) = Message(i)[1] /\ at(2 * i) = Message(i)[2]
    BY <2>2
  <2> HIDE DEF at, m
  <2>4. m[2 * i - 1] = at(2 * i - 1) /\ m[2 * i] = at(2 * i)
    BY <1>1, <2>1
  <2> QED BY <1>2, <1>3, <2>1, <2>3, <2>4
<1>5. Len(m) = 2 * n
  <2> HIDE DEF at, m
  <2> QED BY <1>1, <1>2
<1> HIDE DEF m
<1>6. NoneOf(m, TokTypes \ BlockTypes)
  <2> SUFFICES ASSUME NEW k \in 1..Len(m) PROVE m[k].t \in BlockTypes
    BY DEF NoneOf
  <2>1. PICK i \in 1..n : k = 2 * i - 1 \/ k = 2 * i
    <3>1. (k + 1) \div 2 \in 1..n /\ (k = 2 * ((k + 1) \div 2) - 1 \/ k = 2 * ((k + 1) \div 2))
      BY <1>2, <1>5
    <3> QED BY <3>1
  <2>2. m[2 * i - 1].t = "head" /\ m[2 * i].t = "tail"
    <3>1. m[2 * i - 1] = [t |-> "head", id |-> i] /\ m[2 * i] = [t |-> "tail", id |-> i]
      BY <1>4
    <3> QED BY <3>1
  <2> QED BY <2>1, <2>2 DEF BlockTypes
<1> QED
  BY <1>4, <1>5, <1>6 DEF m

LEMMA MessagesTails ==
  ASSUME NEW n \in 0..MaxMail
  PROVE  /\ Len(Only(Messages(n), {"tail"})) = n
         /\ Ordered(Messages(n), {"tail"})
<1> DEFINE s == Messages(n)
           o == Only(s, {"tail"})
           a == Ascending(Len(s), Places(s, {"tail"}))
<1>1. s \in Seq(Printed) /\ n \in Nat
  BY QuietMessages, Widen, MailAssumption
<1>2. /\ Len(s) = 2 * n
      /\ \A i \in 1..n : /\ 2 * i <= Len(s) /\ s[2 * i].id = i
                         /\ s[2 * i - 1].t = "head" /\ s[2 * i].t = "tail"
  <2>1. Len(s) = 2 * n
    BY MessagesAre
  <2>2. ASSUME NEW i \in 1..n
        PROVE  /\ 2 * i <= Len(s) /\ s[2 * i].id = i
               /\ s[2 * i - 1].t = "head" /\ s[2 * i].t = "tail"
    <3>1. /\ 2 * i \in 1..(2 * n)
          /\ s[2 * i - 1] = [t |-> "head", id |-> i]
          /\ s[2 * i] = [t |-> "tail", id |-> i]
      BY MessagesAre
    <3> HIDE DEF s
    <3> QED BY <1>1, <2>1, <3>1
  <2> QED BY <2>1, <2>2
<1> HIDE DEF s
<1>3. \A i \in 1..n : i \in 1..Len(o) /\ o[i] = s[2 * i] /\ a[i] = 2 * i
  <2>1. \A i \in 1..n : /\ 2 * i <= Len(s)
                         /\ s[2 * i - 1].t = "head" /\ s[2 * i].t = "tail"
    BY <1>2
  <2> QED BY <1>1, <2>1, TailsOfBlocks
<1>4. Enumerates(a, Len(s), Places(s, {"tail"})) /\ Len(a) = Len(o)
  <2>1. Len(s) \in Nat
    BY <1>1
  <2> QED BY <1>1, <2>1, AscendingEnumerates, PickAscending DEF Only
<1> HIDE DEF a, o
<1>5. Len(o) = n
  <2>1. Len(o) \in Nat /\ a \in Seq(1..Len(s)) /\ Len(a) = Len(o)
    BY <1>4 DEF Enumerates
  <2>2. n # 0 => n <= Len(o)
    BY <1>1, <1>3, <2>1
  <2>3. ASSUME Len(o) > n PROVE FALSE
    <3> DEFINE k == n + 1
    <3>1. k \in 1..Len(a)
      BY <1>1, <2>1, <2>3
    <3> HIDE DEF k
    <3>2. a[k] \in 1..(2 * n)
      BY <1>2, <2>1, <3>1
    <3>3. CASE n = 0
      BY <3>2, <3>3
    <3>4. CASE n # 0
      <4>1. n \in 1..Len(a) /\ n < k /\ a[n] = 2 * n
        BY <1>1, <1>3, <2>1, <2>2, <3>4 DEF k
      <4>2. a[n] < a[k]
        BY <1>4, <3>1, <4>1 DEF Enumerates
      <4> QED BY <1>1, <3>2, <4>1, <4>2
    <3> QED BY <3>3, <3>4
  <2> QED BY <1>1, <2>1, <2>2, <2>3
<1>6. \A k \in 1..Len(o) : o[k].id = k
  BY <1>2, <1>3, <1>5
<1> QED
  BY <1>5, <1>6 DEF Ordered, o, s

LEMMA HungUpHas == NoneOf(HungUp, TokTypes \ {"banner", "cmd"}) /\ Has(HungUp, "banner")
BY DEF HungUp, NoneOf, Has, Tok

\* What is echoed of what is sent.
LEMMA EchoHas ==
  ASSUME NEW unit \in Units
  PROVE  /\ unit.t = "login" =>
              NoneOf(Echoed(unit), TokTypes \ {"login", "FF", "FB", "FC", "F>", "eol"})
         /\ unit.t = "login" /\ unit.n = 0 => NoneOf(Echoed(unit), TokTypes \ {"login", "FF"})
         /\ unit.t = "FS" => NoneOf(Echoed(unit), TokTypes \ {"FS", "+", "-", "=", "eol"})
         /\ NoneOf(BadCommand, TokTypes \ {"EH?", "cmd"})
<1>1. NoneOf(BadCommand, TokTypes \ {"EH?", "cmd"})
  BY DEF BadCommand, NoneOf, Tok
<1>2. CASE ~echo
  BY <1>1, <1>2, NoneEmpty DEF Echoed
<1>3. CASE echo /\ unit.t = "login"
  <2> DEFINE first == <<Tok("login")>>
             ff == <<Tok("FF")>>
             offer == Offer([i \in 1..unit.n |-> "FC"])
             few == TokTypes \ {"login", "FF"}
             types == TokTypes \ {"login", "FF", "FB", "FC", "F>", "eol"}
  <2>1. unit.n \in 0..MaxMail
    BY <1>3 DEF Units
  <2>2. Echoed(unit) = first \o (IF unit.n = 0 THEN ff ELSE offer)
    BY <1>3 DEF Text, Echoed
  <2>3. [i \in 1..unit.n |-> "FC"] \in [1..unit.n -> OfferTypes]
    BY DEF OfferTypes
  <2>4. offer \in Seq(Quiet) /\ NoneOf(offer, types)
    <3>1. offer \in Seq(Quiet)
      BY <2>1, <2>3, QuietOffer DEF OfferTypes
    <3>2. NoneOf(offer, TokTypes \ {"FB", "FC", "F>", "eol"})
      BY <2>1, <2>3, OfferHas
    <3> QED BY <3>1, <3>2 DEF NoneOf
  <2>5. first \in Seq(Quiet) /\ ff \in Seq(Quiet)
    <3>1. Tok("login") \in Quiet /\ Tok("FF") \in Quiet
      BY PlainTok DEF TokTypes, Numbered
    <3> QED BY <3>1
  <2>6. NoneOf(first, few) /\ NoneOf(first, types) /\ NoneOf(ff, few) /\ NoneOf(ff, types)
    BY DEF NoneOf, Tok
  <2> HIDE DEF first, ff, offer, few, types
  <2>7. CASE unit.n = 0
    <3>1. NoneOf(Echoed(unit), few) /\ NoneOf(Echoed(unit), types)
      BY <2>2, <2>5, <2>6, <2>7, NoneConcat
    <3> QED BY <1>1, <1>3, <3>1 DEF few, types
  <2>8. CASE unit.n # 0
    <3>1. NoneOf(Echoed(unit), types)
      BY <2>2, <2>4, <2>5, <2>6, <2>8, NoneConcat
    <3> QED BY <1>1, <1>3, <2>8, <3>1 DEF few, types
  <2> QED BY <2>7, <2>8
<1>4. CASE echo /\ unit.t = "FS"
  <2>1. unit.n \in Nat /\ unit.code \in {"+", "-"}
    BY <1>4 DEF Units
  <2>2. [i \in 1..unit.n |-> unit.code] \in Seq(Codes)
    BY <2>1 DEF Codes
  <2>3. Echoed(unit) = Answers([i \in 1..unit.n |-> unit.code])
    BY <1>4 DEF Text, Echoed
  <2> QED BY <1>1, <1>4, <2>2, <2>3, AnswersHave
<1>5. CASE unit.t \notin {"login", "FS"}
  BY <1>1, <1>5
<1> QED
  BY <1>2, <1>3, <1>4, <1>5

\* A stage that begins without a kind of token, when none is echoed.
LEMMA NoneAtNextStage ==
  ASSUME BaseInv, NEW unit \in Units, Send(unit), NEW s, NextStage(s), air' = air,
         NEW types, NoneOf(Said, types), NoneOf(Echoed(unit), types),
         NoneOf(BadCommand, types)
  PROVE  NoneOf(Said', types)
<1>1. PICK e \in Seq(Printed) :
        /\ e = Echoed(unit) \/ e = Echoed(unit) \o BadCommand
        /\ Said' = (line \o e) \o air
        /\ line \o e \in Seq(Printed)
  BY SaidAtNextStage
<1>2. /\ line \in Seq(Printed) /\ air \in Seq(Printed) /\ heard \in Seq(Printed)
      /\ line \o air \in Seq(Printed) /\ Said = heard \o (line \o air)
  BY SaidTyped
<1>3. NoneOf(line \o air, types)
  BY <1>2, NoneConcat
<1>4. NoneOf(line, types) /\ NoneOf(air, types)
  BY <1>2, <1>3, NoneConcat
<1>5. Echoed(unit) \in Seq(Printed) /\ BadCommand \in Seq(Printed)
  <2>1. Tok("EH?") \in Printed /\ Tok("cmd") \in Printed
    BY PlainTok, QuietIs DEF TokTypes, Numbered
  <2> QED BY <2>1, QuietEcho, Widen DEF BadCommand
<1>6. NoneOf(e, types)
  <2>1. NoneOf(Echoed(unit) \o BadCommand, types)
    BY <1>5, NoneConcat
  <2> QED BY <1>1, <2>1
<1>7. NoneOf(line \o e, types)
  BY <1>1, <1>2, <1>4, <1>6, NoneConcat
<1> QED
  BY <1>1, <1>2, <1>4, <1>7, NoneConcat

-----------------------------------------------------------------------------
(***************************************************************************)
(* The invariant, third part: in a check, the offers and the messages are  *)
(* said in order, and none of them before its turn.                        *)
(***************************************************************************)
Before == {"handshake", "proposals"}
Sayings == {"FB", "FC", "F>", "FQ"}

Unoffered ==
  stage = "handshake" \/ gw \in {"greet", "login"} => NoneOf(Said, Sayings)
Undelivered ==
  stage \in Before \/ gw \in {"greet", "login", "offered"} => NoneOf(Said, BlockTypes)
InOrder ==
  /\ stage \in Before => Ordered(Said, OfferTypes)
  /\ Ordered(Said, {"tail"})
TextMeets == method = "check" /\ Polling => Unoffered /\ Undelivered /\ InOrder

ResultMeets ==
  /\ method = "check" => \A k \in 1..Len(proposals) : proposals[k].id = k
  /\ \A k \in 1..Len(result) : result[k].id = result[k].proposal

LEMMA MeetStart == Init => TextMeets /\ ResultMeets
<1> SUFFICES ASSUME Init PROVE TextMeets /\ ResultMeets
  OBVIOUS
<1>1. Said = <<>>
  <2>1. heard = <<>> /\ line = <<>> /\ air = <<>>
    BY DEF Init
  <2>2. <<>> \o <<>> = <<>>
    BY ConcatEmptySeq, EmptySeq
  <2> QED BY <2>1, <2>2 DEF Said
<1>2. \A types : NoneOf(<<>>, types) /\ Ordered(<<>>, types)
  BY OnlyEmpty, NoneEmpty DEF Ordered
<1>3. proposals = <<>> /\ result = <<>>
  BY DEF Init
<1> QED
  BY <1>1, <1>2, <1>3 DEF TextMeets, Unoffered, Undelivered, InOrder, ResultMeets

\* The same text, in slices or as it arrives.
LEMMA MeetSame ==
  ASSUME TextMeets, Polling, Said' = Said, UNCHANGED <<method, stage, gw>>
  PROVE  TextMeets'
BY DEF TextMeets, Unoffered, Undelivered, InOrder

LEMMA MeetSays ==
  ASSUME BaseInv, TurnInv, TextMeets, NEW text \in Seq(Quiet), NEW next,
         GatewaySays(text, next),
         stage # "handshake" /\ gw \in {"greet", "login", "offered"},
         \/ NoneOf(text, BlockTypes) /\ Ordered(text, OfferTypes) /\ gw = "login"
            /\ next \in {"over", "offered"}
         \/ stage \notin Before /\ gw = "offered" /\ Ordered(text, {"tail"}) /\ next = "over"
  PROVE  TextMeets'
<1> SUFFICES ASSUME method = "check", Polling PROVE (Unoffered /\ Undelivered /\ InOrder)'
  BY DEF TextMeets, GatewaySays, sessionVars, driverVars, Polling
<1>1. Unoffered /\ Undelivered /\ InOrder
  BY DEF TextMeets
<1>2. Said' = Said \o text /\ stage' = stage /\ gw' = next
  BY SaidMore DEF GatewaySays, driverVars
<1>3. Said \in Seq(Printed) /\ text \in Seq(Printed)
  BY SaidTyped, Widen
<1>4. NoneOf(Said, BlockTypes) /\ NoneOf(Said, {"tail"})
  BY <1>1 DEF Undelivered, BlockTypes, NoneOf
<1>5. CASE NoneOf(text, BlockTypes) /\ Ordered(text, OfferTypes) /\ gw = "login"
           /\ next \in {"over", "offered"}
  <2>1. NoneOf(Said, Sayings) /\ NoneOf(Said, OfferTypes)
    BY <1>1, <1>5 DEF Unoffered, Sayings, OfferTypes, NoneOf
  <2>2. NoneOf(Said \o text, BlockTypes) /\ NoneOf(text, {"tail"})
    BY <1>3, <1>4, <1>5, NoneConcat DEF NoneOf, BlockTypes
  <2>3. Ordered(Said \o text, OfferTypes)
    BY <1>3, <1>5, <2>1, OrderedConcat
  <2>4. Ordered(text, {"tail"})
    BY <1>3, <2>2, NoneOrdered
  <2>5. Ordered(Said \o text, {"tail"})
    BY <1>3, <1>4, <2>4, OrderedConcat
  <2> QED BY <1>2, <1>5, <2>2, <2>3, <2>5 DEF Unoffered, Undelivered, InOrder
<1>6. CASE stage \notin Before /\ gw = "offered" /\ Ordered(text, {"tail"}) /\ next = "over"
  <2>1. Ordered(Said \o text, {"tail"})
    BY <1>3, <1>4, <1>6, OrderedConcat
  <2> QED BY <1>2, <1>6, <2>1 DEF Unoffered, Undelivered, InOrder, Before
<1> QED
  BY <1>5, <1>6

LEMMA MeetGateway ==
  ASSUME BaseInv, TurnInv, TextMeets, Gateway
  PROVE  TextMeets'
<1> USE DEF BaseInv, Typed
<1>0. mail \in [1..Len(mail) -> OfferTypes] /\ Len(mail) \in 0..MaxMail
  BY DEF CallTyped, OfferTypes
<1>1. CASE Greet
  <2> SUFFICES ASSUME method = "check", Polling PROVE (Unoffered /\ Undelivered /\ InOrder)'
    BY <1>1 DEF TextMeets, Greet, GatewaySays, sessionVars, driverVars, Polling
  <2>1. PICK text \in Seq(Quiet) : /\ GatewaySays(text, "login")
                                   /\ NoneOf(text, TokTypes \ {"challenge", "prompt"})
    BY <1>1, GatewayTexts
  <2>2. Said' = Said \o text /\ stage' = stage /\ gw' = "login"
    BY <2>1, SaidMore DEF GatewaySays, driverVars
  <2>3. Unoffered /\ Undelivered /\ InOrder /\ gw = "greet"
    BY <1>1 DEF TextMeets, Greet
  <2>4. NoneOf(Said, Sayings) /\ NoneOf(Said, BlockTypes) /\ NoneOf(Said, OfferTypes)
    BY <2>3 DEF Unoffered, Undelivered, NoneOf, Sayings, OfferTypes
  <2>5. NoneOf(text, Sayings) /\ NoneOf(text, BlockTypes) /\ NoneOf(text, OfferTypes)
    BY <2>1 DEF NoneOf, TokTypes, Sayings, OfferTypes, BlockTypes
  <2>6. Said \in Seq(Printed) /\ text \in Seq(Printed) /\ Said \o text \in Seq(Printed)
    BY SaidTyped, Widen, ConcatProperties
  <2>7. /\ NoneOf(Said \o text, Sayings) /\ NoneOf(Said \o text, BlockTypes)
        /\ NoneOf(Said \o text, OfferTypes)
    BY <2>4, <2>5, <2>6, NoneConcat
  <2>8. Ordered(Said \o text, OfferTypes) /\ Ordered(Said \o text, {"tail"})
    <3>1. NoneOf(Said \o text, {"tail"})
      BY <2>7 DEF NoneOf, BlockTypes
    <3> QED BY <2>6, <2>7, <3>1, NoneOrdered
  <2> QED BY <2>2, <2>7, <2>8 DEF Unoffered, Undelivered, InOrder
<1>2. CASE TakeLogin
  <2>1. stage # "handshake" /\ gw = "login"
        /\ UNCHANGED <<sessionVars, driverVars, line, link>>
        /\ (method = "check" => outbox = 0)
    BY <1>2, LoginTaken DEF CallTyped
  <2>2. CASE GatewaySays(<<Tok("FQ")>>, "over")
    <3> DEFINE text == <<Tok("FQ")>>
    <3>1. text \in Seq(Quiet) /\ text \in Seq(Printed)
      BY GatewayTexts, Widen
    <3>2. NoneOf(text, BlockTypes) /\ NoneOf(text, OfferTypes)
      BY DEF NoneOf, Tok, BlockTypes, OfferTypes
    <3> HIDE DEF text
    <3>3. Ordered(text, OfferTypes)
      BY <3>1, <3>2, NoneOrdered
    <3> QED BY <2>1, <2>2, <3>1, <3>2, <3>3, MeetSays DEF text
  <2>3. CASE GatewaySays(Offer(mail), "offered")
    <3>1. Offer(mail) \in Seq(Quiet)
      BY GatewayTexts
    <3>2. NoneOf(Offer(mail), BlockTypes)
      <4>1. NoneOf(Offer(mail), TokTypes \ {"FB", "FC", "F>", "eol"})
        BY <1>0, OfferHas
      <4> QED BY <4>1 DEF NoneOf, BlockTypes, TokTypes
    <3>3. Ordered(Offer(mail), OfferTypes)
      BY <1>0, OfferOrdered
    <3> QED BY <2>1, <2>3, <3>1, <3>2, <3>3, MeetSays
  <2>4. CASE outbox > 0
    <3>1. method # "check"
      BY <2>1, <2>4
    <3> QED BY <2>1, <3>1 DEF TextMeets, sessionVars
  <2> QED BY <1>2, <2>2, <2>3, <2>4, LoginTaken
<1>3. CASE TakeFS
  <2>1. /\ gw = "offered" /\ up # <<>> /\ Head(up).t = "FS"
        /\ GatewaySays(Messages(Len(mail)), "over")
        /\ UNCHANGED <<sessionVars, driverVars>>
    BY <1>3 DEF TakeFS, Takes, GatewaySays
  <2>2. stage \notin Before
    <3>1. up[1].t = "FS" /\ 1 \in 1..Len(up)
      BY <2>1 DEF TextTyped
    <3> QED BY <2>1, <3>1 DEF TurnInv, InTurn, UnitsInTurn, Before
  <2>3. Ordered(Messages(Len(mail)), {"tail"})
    BY <1>0, MessagesTails
  <2> QED BY <2>1, <2>2, <2>3, GatewayTexts, MeetSays DEF Before
<1>4. CASE TakeBlock
  <2>1. UNCHANGED <<sessionVars, driverVars, line, air, gatewayVars>>
    BY <1>4 DEF TakeBlock
  <2>2. Said' = Said
    BY <2>1 DEF Said, driverVars
  <2> QED BY <2>1, <2>2, MeetSame DEF sessionVars, driverVars, gatewayVars, TextMeets, Polling
<1>5. CASE Reciprocate
  <2>1. method # "check" /\ method' = method
    BY <1>5 DEF Reciprocate, GatewaySays, sessionVars, TurnInv, InTurn
  <2> QED BY <2>1 DEF TextMeets
<1>6. CASE HangUp
  <2> SUFFICES ASSUME method = "check", Polling PROVE (Unoffered /\ Undelivered /\ InOrder)'
    BY <1>6 DEF TextMeets, HangUp, sessionVars, driverVars, Polling
  <2>1. PICK a, b \in Seq(Printed) : Said = a \o b /\ Said' = a \o HungUp
    BY <1>6, SaidCut
  <2>2. stage' = stage /\ gw' = "gone" /\ Unoffered /\ Undelivered /\ InOrder
    BY <1>6 DEF TextMeets, HangUp, driverVars
  <2>3. HungUp \in Seq(Printed)
    BY AiredHungUp, Widen
  <2>4. \A types : NoneOf(Said, types) => NoneOf(a, types)
    BY <2>1, NoneConcat
  <2>5. /\ NoneOf(HungUp, Sayings) /\ NoneOf(HungUp, BlockTypes) /\ NoneOf(HungUp, OfferTypes)
        /\ NoneOf(HungUp, {"tail"})
    BY HungUpHas DEF NoneOf, TokTypes, Sayings, BlockTypes, OfferTypes
  <2>6. /\ NoneOf(Said, Sayings) => NoneOf(Said', Sayings)
        /\ NoneOf(Said, BlockTypes) => NoneOf(Said', BlockTypes)
    BY <2>1, <2>3, <2>4, <2>5, NoneConcat
  <2>7. /\ Ordered(Said, OfferTypes) => Ordered(Said', OfferTypes)
        /\ Ordered(Said, {"tail"}) => Ordered(Said', {"tail"})
    BY <2>1, <2>3, <2>5, OrderedConcat
  <2> QED BY <2>2, <2>6, <2>7 DEF Unoffered, Undelivered, InOrder
<1> QED
  BY <1>1, <1>2, <1>3, <1>4, <1>5, <1>6 DEF Gateway

\* The gateway has said nothing yet that comes after the login.
LEMMA LoginText ==
  ASSUME BaseInv, TextMeets, Login, method = "check"
  PROVE  NoneOf(Said', Sayings) /\ NoneOf(Said', BlockTypes)
<1> DEFINE unit == [t |-> "login", pr |-> Has(heard, "challenge"), n |-> outbox]
<1>1. /\ Send(unit) /\ stage = "handshake" /\ pc = "act" /\ NextStage("proposals") /\ air' = air
      /\ outbox = 0
  BY DEF Login, Acting, BaseInv, Typed, CallTyped
<1>2. unit \in Units /\ unit.t = "login" /\ unit.n = 0
  <2>1. Has(heard, "challenge") \in BOOLEAN
    BY Zenon DEF Has
  <2> QED BY <1>1, <2>1, MailAssumption DEF Units
<1> HIDE DEF unit
<1>3. NoneOf(Said, Sayings) /\ NoneOf(Said, BlockTypes)
  BY <1>1 DEF TextMeets, Polling, Unoffered, Undelivered, Before
<1>4. /\ NoneOf(Echoed(unit), Sayings) /\ NoneOf(Echoed(unit), BlockTypes)
      /\ NoneOf(BadCommand, Sayings) /\ NoneOf(BadCommand, BlockTypes)
  BY <1>2, EchoHas DEF NoneOf, TokTypes, Sayings, BlockTypes
<1> QED
  BY <1>1, <1>2, <1>3, <1>4, NoneAtNextStage

LEMMA MeetLogin == ASSUME BaseInv, TurnInv, TextMeets, Login PROVE TextMeets'
<1> SUFFICES ASSUME method = "check" PROVE (Unoffered /\ Undelivered /\ InOrder)'
  BY DEF TextMeets, Login, sessionVars
<1>5. NoneOf(Said', Sayings) /\ NoneOf(Said', BlockTypes)
  BY LoginText
<1>6. Said' \in Seq(Printed)
  <2>1. BaseInv'
    BY BaseLogin
  <2>2. heard' \in Seq(Printed) /\ line' \in Seq(Printed) /\ air' \in Seq(Aired)
    BY <2>1 DEF BaseInv, Typed, TextTyped
  <2>3. air' \in Seq(Printed)
    BY <2>2, Widen
  <2>4. heard' \o line' \in Seq(Printed)
    BY <2>2, ConcatProperties
  <2> QED BY <2>3, <2>4, ConcatProperties DEF Said
<1>7. Ordered(Said', OfferTypes) /\ Ordered(Said', {"tail"})
  <2>1. NoneOf(Said', OfferTypes) /\ NoneOf(Said', {"tail"})
    BY <1>5 DEF NoneOf, Sayings, OfferTypes, BlockTypes
  <2> QED BY <1>6, <2>1, NoneOrdered
<1> QED
  BY <1>5, <1>7 DEF Unoffered, Undelivered, InOrder

LEMMA SaidTypedNext == ASSUME BaseInv' PROVE Said' \in Seq(Printed)
<1>1. heard' \in Seq(Printed) /\ line' \in Seq(Printed) /\ air' \in Seq(Aired)
  BY DEF BaseInv, Typed, TextTyped
<1>2. air' \in Seq(Printed)
  BY <1>1, Widen
<1>3. heard' \o line' \in Seq(Printed)
  BY <1>1, ConcatProperties
<1> QED
  BY <1>2, <1>3, ConcatProperties DEF Said

\* What is heard is the beginning of what is said.
LEMMA HeardInOrder ==
  ASSUME BaseInv
  PROVE  \A types : /\ NoneOf(Said, types) => NoneOf(heard, types)
                    /\ Ordered(Said, types) => Ordered(heard, types)
<1> DEFINE rest == line \o air
<1>1. heard \in Seq(Printed) /\ rest \in Seq(Printed) /\ Said = heard \o rest
  BY SaidTyped
<1> HIDE DEF rest
<1> SUFFICES ASSUME NEW types
             PROVE  /\ NoneOf(Said, types) => NoneOf(heard, types)
                    /\ Ordered(Said, types) => Ordered(heard, types)
  OBVIOUS
<1>2. NoneOf(heard \o rest, types) => NoneOf(heard, types)
  BY <1>1, NoneConcat
<1>3. Ordered(heard \o rest, types) => Ordered(heard, types)
  BY <1>1, OrderedConcat
<1> QED
  BY <1>1, <1>2, <1>3

LEMMA MeetAcceptAll ==
  ASSUME BaseInv, TurnInv, TextMeets, AcceptAll
  PROVE  TextMeets'
<1> SUFFICES ASSUME method = "check" PROVE (Unoffered /\ Undelivered /\ InOrder)'
  BY DEF TextMeets, AcceptAll, sessionVars
<1> DEFINE unit == [t |-> "FS", n |-> Len(ParseProposals(heard)), code |-> "+"]
<1>1. /\ Send(unit) /\ stage = "proposals" /\ pc = "act" /\ NextStage("messages")
      /\ air' = air /\ gw' = gw
  BY DEF AcceptAll, Acting, gatewayVars
<1>2. unit \in Units /\ unit.t = "FS"
  <2>1. Len(ParseProposals(heard)) \in Nat
    <3>1. ParseProposals(heard) \in Seq(Proposals)
      BY ProposalsTyped DEF BaseInv, Typed, TextTyped
    <3> QED BY <3>1
  <2> QED BY <2>1 DEF Units
<1> HIDE DEF unit
<1>3. NoneOf(Said, BlockTypes) /\ (gw \in {"greet", "login"} => NoneOf(Said, Sayings))
  BY <1>1 DEF TextMeets, Polling, Unoffered, Undelivered, Before
<1>4. /\ NoneOf(Echoed(unit), Sayings) /\ NoneOf(Echoed(unit), BlockTypes)
      /\ NoneOf(BadCommand, Sayings) /\ NoneOf(BadCommand, BlockTypes)
  BY <1>2, EchoHas DEF NoneOf, TokTypes, Sayings, BlockTypes
<1>5. NoneOf(Said', BlockTypes) /\ (gw \in {"greet", "login"} => NoneOf(Said', Sayings))
  BY <1>1, <1>2, <1>3, <1>4, NoneAtNextStage
<1>6. Ordered(Said', {"tail"})
  <2>1. NoneOf(Said', {"tail"})
    BY <1>5 DEF NoneOf, BlockTypes
  <2> QED BY <2>1, BaseAcceptAll, SaidTypedNext, NoneOrdered
<1> QED
  BY <1>1, <1>5, <1>6 DEF Unoffered, Undelivered, InOrder, NextStage, Before

LEMMA TextMeetsKept ==
  ASSUME BaseInv, TurnInv, TextMeets, [Next]_vars
  PROVE  TextMeets'
<1>1. CASE Gateway
  BY <1>1, MeetGateway
<1>2. CASE Arrive
  BY <1>2, SaidArrives, MeetSame DEF Arrive, sessionVars, driverVars, gatewayVars, TextMeets,
    Polling
<1>3. CASE Slice
  BY <1>3, SaidInSlices, MeetSame DEF Slice, sessionVars, gatewayVars, Polling
<1>4. CASE PollTimesOut
  <2>1. Said' = Said
    BY <1>4 DEF PollTimesOut, Said
  <2> QED BY <1>4, <2>1, MeetSame DEF PollTimesOut, sessionVars, gatewayVars, Polling
<1>5. CASE PollRaises \/ RaiseHungUp \/ NoMail \/ MixedBatch \/ TakeMessages \/ BadAnswer
           \/ Decline
  <2>1. pc' \in {"end", "ctrlC"}
    BY <1>5 DEF PollRaises, RaiseHungUp, NoMail, MixedBatch, TakeMessages, BadAnswer, Decline,
      Leave, AfterTry
  <2> QED BY <2>1 DEF TextMeets, Polling
<1>6. CASE GoodAnswer \/ CtrlC \/ Disconne \/ Disconnected \/ DisconnectTimesOut
  <2>1. pc' \in {"upload", "awaitCmd", "awaitBanner", "end"}
    BY <1>6 DEF GoodAnswer, CtrlC, Disconne, Disconnected, DisconnectTimesOut
  <2> QED BY <2>1 DEF TextMeets, Polling
<1>7. CASE Upload
  <2>1. method # "check" /\ method' = method
    BY <1>7 DEF Upload, TurnInv, InTurn, sessionVars
  <2> QED BY <2>1 DEF TextMeets
<1>8. CASE UNCHANGED vars
  <2>1. UNCHANGED <<method, stage, gw, pc>> /\ Said' = Said
    BY <1>8 DEF vars, sessionVars, driverVars, gatewayVars, Said
  <2> QED BY <2>1, MeetSame DEF TextMeets, Polling
<1> QED
  BY <1>1, <1>2, <1>3, <1>4, <1>5, <1>6, <1>7, <1>8, MeetLogin, MeetAcceptAll DEF Next, Driver

LEMMA ResultMeetsKept ==
  ASSUME BaseInv, TurnInv, TextMeets, ResultMeets, [Next]_vars
  PROVE  ResultMeets'
<1>1. ASSUME UNCHANGED <<method, proposals, result>> PROVE ResultMeets'
  BY <1>1 DEF ResultMeets
<1>2. ASSUME UNCHANGED <<method, proposals>>, result' = <<>> PROVE ResultMeets'
  BY <1>2 DEF ResultMeets
<1>3. CASE Gateway \/ Arrive \/ UNCHANGED vars
  BY <1>1, <1>3 DEF Gateway, Greet, TakeLogin, TakeFS, TakeBlock, Reciprocate, HangUp, Arrive,
    GatewaySays, vars, sessionVars, driverVars
<1>4. CASE Slice \/ PollTimesOut \/ Login \/ GoodAnswer \/ CtrlC \/ Disconne \/ Disconnected
  BY <1>1, <1>4 DEF Slice, PollTimesOut, Login, GoodAnswer, CtrlC, Disconne, Disconnected,
    sessionVars
<1>5. CASE PollRaises \/ RaiseHungUp \/ NoMail \/ MixedBatch \/ BadAnswer \/ DisconnectTimesOut
  BY <1>2, <1>5 DEF PollRaises, RaiseHungUp, NoMail, MixedBatch, BadAnswer,
    DisconnectTimesOut, Leave, sessionVars
<1>6. CASE Decline
  BY <1>1, <1>6 DEF Decline, Leave, sessionVars
<1>7. CASE AcceptAll
  <2> DEFINE ps == ParseProposals(heard)
             o == Only(heard, OfferTypes)
  <2>1. /\ stage = "proposals" /\ pc = "act" /\ proposals' = ps /\ method' = method
        /\ result' = result
    BY <1>7 DEF AcceptAll, Acting, sessionVars
  <2>2. heard \in Seq(Printed)
    BY SaidTyped
  <2>3. /\ Len(ps) = Len(o)
        /\ \A i \in 1..Len(ps) : ps[i] = [tier |-> o[i].t, id |-> o[i].id]
    BY <2>2, ProposalsTyped DEF OfferTypes
  <2>4. method = "check" => Ordered(heard, OfferTypes)
    BY <2>1, HeardInOrder DEF TextMeets, InOrder, Polling, Before
  <2>5. method = "check" => \A i \in 1..Len(o) : o[i].id = i
    BY <2>4 DEF Ordered
  <2> HIDE DEF ps, o
  <2>6. ASSUME method = "check", NEW i \in 1..Len(ps) PROVE ps[i].id = i
    <3>1. i \in 1..Len(o) /\ ps[i] = [tier |-> o[i].t, id |-> o[i].id]
      BY <2>3
    <3>2. o[i].id = i
      BY <2>5, <2>6, <3>1
    <3> QED BY <3>1, <3>2
  <2> QED BY <2>1, <2>6 DEF ResultMeets
<1>8. CASE TakeMessages
  <2> DEFINE b == Blocks(heard)
             o == Only(heard, {"tail"})
             row(k) == [title |-> b[k].title, id |-> b[k].id, proposal |-> proposals[k].id]
  <2>1. /\ stage = "messages" /\ pc = "act" /\ result' = [k \in 1..Len(b) |-> row(k)]
        /\ UNCHANGED <<method, proposals>>
    BY <1>8 DEF TakeMessages, Acting, Leave, sessionVars
  <2>2. method = "check"
    BY <2>1 DEF TurnInv, InTurn, BaseInv, Typed, CallTyped
  <2>3. heard \in Seq(Printed) /\ proposals \in Seq(Proposals)
    BY SaidTyped DEF BaseInv, Typed, DriverTyped
  <2>4. /\ b \in Seq([title : Tokens, id : 1..MaxMail])
        /\ Len(b) <= Len(proposals)
        /\ \A k \in 1..Len(b) : k \in 1..Len(o) /\ b[k].id = o[k].id
    BY <2>3, BlocksAre
  <2>5. Ordered(heard, {"tail"})
    BY <2>1, <2>2, HeardInOrder DEF TextMeets, InOrder, Polling
  <2>6. Len(b) \in Nat
    BY <2>4
  <2>7. \A k \in 1..Len(b) : b[k].id = k /\ proposals[k].id = k
    <3> HIDE DEF b
    <3>1. \A k \in 1..Len(o) : o[k].id = k
      BY <2>5 DEF Ordered
    <3>2. \A k \in 1..Len(b) : k \in 1..Len(proposals)
      BY <2>3, <2>4, <2>6
    <3> QED BY <2>2, <2>4, <3>1, <3>2 DEF ResultMeets
  <2>8. Len(result') = Len(b) /\ \A k \in 1..Len(b) : result'[k] = row(k)
    <3> HIDE DEF b, row
    <3> QED BY <2>1, <2>6
  <2>9. \A k \in 1..Len(b) : result'[k].id = result'[k].proposal
    <3> SUFFICES ASSUME NEW k \in 1..Len(b) PROVE result'[k].id = result'[k].proposal
      OBVIOUS
    <3>1. b[k].id = k /\ proposals[k].id = k /\ result'[k] = row(k)
      BY <2>7, <2>8
    <3> HIDE DEF b
    <3>2. row(k).id = b[k].id /\ row(k).proposal = proposals[k].id
      OBVIOUS
    <3> HIDE DEF row
    <3> QED BY <3>1, <3>2
  <2> HIDE DEF b, row
  <2> QED BY <2>1, <2>8, <2>9 DEF ResultMeets
<1>9. CASE Upload
  <2>1. UNCHANGED <<method, proposals>>
    BY <1>9 DEF Upload, sessionVars
  <2>2. CASE uploads = <<>>
    BY <1>1, <1>9, <2>1, <2>2 DEF Upload
  <2>3. CASE uploads # <<>>
    <3> DEFINE row == [title |-> Tok("head"), id |-> Head(uploads), proposal |-> Head(uploads)]
    <3>1. result' = Append(result, row)
      BY <1>9, <2>3 DEF Upload
    <3>2. row.id = row.proposal /\ result \in Seq(Results)
      BY DEF BaseInv, Typed, DriverTyped
    <3> HIDE DEF row
    <3>3. /\ Len(result') = Len(result) + 1 /\ Len(result) \in Nat
          /\ result'[Len(result) + 1] = row
          /\ \A k \in 1..Len(result) : result'[k] = result[k]
      BY <3>1, <3>2
    <3>4. \A k \in 1..Len(result') : k \in 1..Len(result) \/ k = Len(result) + 1
      BY <3>3
    <3>5. \A k \in 1..Len(result') : result'[k].id = result'[k].proposal
      BY <3>2, <3>3, <3>4 DEF ResultMeets
    <3> QED BY <2>1, <3>5 DEF ResultMeets
  <2> QED BY <2>2, <2>3
<1> QED
  BY <1>3, <1>4, <1>5, <1>6, <1>7, <1>8, <1>9 DEF Next, Driver

MeetInv == BaseInv /\ TurnInv /\ TextMeets /\ ResultMeets

LEMMA MeetAlways == Spec => []MeetInv
<1>1. Init => MeetInv
  BY BaseStart, TurnStart, MeetStart DEF MeetInv
<1>2. MeetInv /\ [Next]_vars => MeetInv'
  BY BaseKept, TurnKept, TextMeetsKept, ResultMeetsKept DEF MeetInv
<1> QED
  BY <1>1, <1>2, PTL DEF Spec

\* zip(blocks, proposals) pairs every message check_winlink_mail() returns with the
\* proposal that announced it, for any number of messages of either tier, however the
\* texts of two stages are read together and wherever the link is cut.
THEOREM MeetTheirProposals == Spec => []MessagesMeetTheirProposals
<1>1. MeetInv => MessagesMeetTheirProposals
  BY DEF MeetInv, ResultMeets, MessagesMeetTheirProposals
<1> QED
  BY <1>1, MeetAlways, PTL

-----------------------------------------------------------------------------
(***************************************************************************)
(* The invariant, fourth part: when messages are sent, the gateway's        *)
(* answers reach the driver in order, or cut.                              *)
(***************************************************************************)
Settled == gw \notin {"greet", "login"}
Accepted == Ascending(Len(took), {i \in 1..Len(took) : took[i] = "+"})

\* What follows an FS, up to the banner of a link that ended, is the answers.
AnswersAre(s, codes) ==
  \A p, q \in 1..Len(s) :
     /\ p < q /\ s[p].t = "FS" /\ q - p <= Len(codes)
     /\ \A i \in p..q : s[i].t # "banner"
     => s[q].t = codes[q - p]
AnswersWhole(s, codes) == \A p \in 1..Len(s) : s[p].t = "FS" => p + Len(codes) <= Len(s)

AnswersSaid ==
  /\ stage = "handshake" \/ ~Settled => NoneOf(Said, {"FS"})
  /\ AnswersAre(Said, took)
  /\ Has(Said, "FS") => Len(took) = outbox
  /\ gw = "receive" => AnswersWhole(Said, took)
TextAnswers ==
  method = "send" =>
    /\ gw # "offered"
    /\ Polling /\ stage \in {"handshake", "FS"} => AnswersSaid

ResultSent ==
  method = "send" =>
    /\ Polling /\ stage \in {"handshake", "FS"} => result = <<>>
    /\ pc = "upload" => Settled /\ Ids(result) \o uploads = Accepted
    /\ stage = "reciprocal" => Settled
    /\ stage = "reciprocal" /\ Polling => Ids(result) = Accepted
    /\ ~Polling /\ pc # "upload" /\ outcome = "returned" => Settled /\ Ids(result) = Accepted
BlocksAccepted == \A i \in 1..Len(up) : up[i].t = "block" => Settled /\ took[up[i].n] = "+"

SentParts == TextAnswers /\ ResultSent /\ BlocksAccepted

LEMMA NoAnswers ==
  ASSUME NEW s, NEW codes, NoneOf(s, {"FS"})
  PROVE  AnswersAre(s, codes) /\ AnswersWhole(s, codes) /\ ~Has(s, "FS")
BY DEF NoneOf, AnswersAre, AnswersWhole, Has

LEMMA AnswersPrefix ==
  ASSUME NEW T, NEW s \in Seq(T), NEW u \in Seq(T), NEW codes, AnswersAre(s \o u, codes)
  PROVE  AnswersAre(s, codes)
<1> DEFINE w == s \o u
<1>1. Len(s) \in Nat /\ \A i \in 1..Len(s) : i \in 1..Len(w) /\ w[i] = s[i]
  BY ConcatAt
<1> HIDE DEF w
<1>2. AnswersAre(w, codes)
  BY DEF w
<1> SUFFICES ASSUME NEW p \in 1..Len(s), NEW q \in 1..Len(s),
                    p < q, s[p].t = "FS", q - p <= Len(codes),
                    \A i \in p..q : s[i].t # "banner"
             PROVE  s[q].t = codes[q - p]
  BY Zenon DEF AnswersAre
<1>3. p \in 1..Len(w) /\ q \in 1..Len(w) /\ w[p].t = "FS" /\ w[q] = s[q]
  BY <1>1
<1>4. \A i \in p..q : w[i].t # "banner"
  <2>1. \A i \in p..q : i \in 1..Len(s)
    BY <1>1
  <2> QED BY <1>1, <2>1
<1>5. w[q].t = codes[q - p]
  BY <1>2, <1>3, <1>4, Zenon DEF AnswersAre
<1> QED
  BY <1>3, <1>5, Zenon

\* What is said after the answers changes nothing in them, when they are whole or
\* when it begins with the banner.
LEMMA AnswersMore ==
  ASSUME NEW s \in Seq(Printed), NEW u \in Seq(Printed), NEW codes \in Seq(Codes),
         AnswersAre(s, codes), NoneOf(u, {"FS"}),
         AnswersWhole(s, codes) \/ (u # <<>> /\ u[1].t = "banner")
  PROVE  AnswersAre(s \o u, codes)
<1> DEFINE w == s \o u
           m == Len(s)
<1>1. /\ m \in Nat /\ Len(u) \in Nat /\ Len(codes) \in Nat /\ Len(w) = m + Len(u)
      /\ \A i \in 1..m : w[i] = s[i]
      /\ \A i \in 1..Len(u) : w[m + i] = u[i]
  BY ConcatAt
<1> HIDE DEF w, m
<1> SUFFICES ASSUME NEW p \in 1..Len(w), NEW q \in 1..Len(w),
                    p < q, w[p].t = "FS", q - p <= Len(codes),
                    \A i \in p..q : w[i].t # "banner"
             PROVE  w[q].t = codes[q - p]
  BY Zenon DEF AnswersAre, w
<1>2. p \in 1..m
  <2> SUFFICES ASSUME p > m PROVE FALSE
    BY <1>1
  <2> DEFINE j == p - m
  <2>1. j \in 1..Len(u) /\ p = m + j
    BY <1>1
  <2> HIDE DEF j
  <2>2. u[j].t = "FS"
    BY <1>1, <2>1
  <2> QED BY <2>1, <2>2 DEF NoneOf
<1>3. s[p].t = "FS"
  BY <1>1, <1>2
<1>4. q \in 1..m
  <2> SUFFICES ASSUME q > m PROVE FALSE
    BY <1>1
  <2>1. CASE AnswersWhole(s, codes)
    <3>1. p + Len(codes) <= m
      BY <1>2, <1>3, <2>1 DEF AnswersWhole, m
    <3> QED BY <1>1, <1>2, <3>1
  <2>2. CASE u # <<>> /\ u[1].t = "banner"
    <3>1. 1 \in 1..Len(u)
      BY <2>2
    <3>2. m + 1 \in p..q /\ w[m + 1] = u[1]
      BY <1>1, <1>2, <3>1
    <3> QED BY <2>2, <3>2
  <2> QED BY <2>1, <2>2
<1>5. \A i \in p..q : i \in 1..m /\ s[i].t # "banner"
  <2>1. \A i \in p..q : i \in 1..m
    BY <1>1, <1>2, <1>4
  <2> QED BY <1>1, <2>1
<1>6. s[q].t = codes[q - p]
  BY <1>2, <1>3, <1>4, <1>5, Zenon DEF AnswersAre, m
<1> QED
  BY <1>1, <1>4, <1>6

LEMMA AnswersNew ==
  ASSUME NEW s \in Seq(Printed), NEW codes \in Seq(Codes), NoneOf(s, {"FS"})
  PROVE  AnswersAre(s \o Answers(codes), codes) /\ AnswersWhole(s \o Answers(codes), codes)
<1> DEFINE a == Answers(codes)
           n == Len(codes)
           w == s \o a
           m == Len(s)
<1>1. /\ Len(a) = n + 2 /\ a[1].t = "FS" /\ a[n + 2].t = "eol"
      /\ \A i \in 1..n : a[i + 1].t = codes[i]
  <2>1. /\ Len(a) = n + 2 /\ a[1] = Tok("FS") /\ a[n + 2] = Tok("eol")
        /\ \A i \in 1..n : a[i + 1] = Tok(codes[i])
    BY AnswersHave
  <2>2. \A t : Tok(t).t = t
    BY DEF Tok
  <2> HIDE DEF a
  <2> QED BY <2>1, <2>2
<1>2. a \in Seq(Printed) /\ n \in Nat /\ \A i \in 1..n : codes[i] \in Codes
  BY QuietAnswers, Widen
<1> HIDE DEF a, n
<1>3. /\ m \in Nat /\ Len(w) = m + (n + 2)
      /\ \A i \in 1..m : w[i] = s[i]
      /\ \A i \in 1..(n + 2) : w[m + i] = a[i]
  <2>1. /\ m \in Nat /\ Len(w) = m + Len(a)
        /\ \A i \in 1..m : w[i] = s[i]
        /\ \A i \in 1..Len(a) : w[m + i] = a[i]
    BY <1>2, ConcatAt
  <2> HIDE DEF w, m
  <2> QED BY <1>1, <2>1
<1> HIDE DEF w, m
<1>4. ASSUME NEW p \in 1..Len(w), w[p].t = "FS" PROVE p = m + 1
  <2>1. p \notin 1..m
    BY <1>3, <1>4 DEF NoneOf, m
  <2> DEFINE j == p - m
  <2>2. j \in 1..(n + 2) /\ p = m + j
    BY <1>2, <1>3, <2>1
  <2> HIDE DEF j
  <2>3. a[j].t = "FS"
    BY <1>3, <1>4, <2>2
  <2>4. j # n + 2
    BY <1>1, <2>3
  <2>5. ASSUME j # 1 PROVE FALSE
    <3> DEFINE k == j - 1
    <3>1. k \in 1..n /\ j = k + 1
      BY <1>2, <2>2, <2>4, <2>5
    <3> HIDE DEF k
    <3>2. codes[k] = "FS" /\ codes[k] \in Codes
      BY <1>1, <1>2, <2>3, <3>1
    <3> QED BY <3>2 DEF Codes
  <2> QED BY <2>2, <2>5
<1>5. AnswersWhole(w, codes)
  <2> SUFFICES ASSUME NEW p \in 1..Len(w), w[p].t = "FS" PROVE p + n <= Len(w)
    BY DEF AnswersWhole, n
  <2> QED BY <1>2, <1>3, <1>4
<1>6. ASSUME NEW p \in 1..Len(w), NEW q \in 1..Len(w),
             p < q, w[p].t = "FS", q - p <= n
      PROVE  w[q].t = codes[q - p]
  <2> DEFINE j == q - p
  <2>1. p = m + 1
    BY <1>4, <1>6
  <2>2. j \in 1..n /\ q = m + (j + 1) /\ j + 1 \in 1..(n + 2)
    BY <1>2, <1>3, <1>6, <2>1
  <2> HIDE DEF j
  <2>3. w[q] = a[j + 1]
    BY <1>3, <2>2
  <2>4. w[q].t = codes[j]
    BY <1>1, <2>2, <2>3
  <2> QED BY <2>4 DEF j
<1>7. AnswersAre(w, codes)
  BY <1>6, Zenon DEF AnswersAre, n
<1> QED
  BY <1>5, <1>7 DEF w, a

\* What fs_answers finds in a text: what stands after its first FS, up to the end of
\* the line or of the text.
LEMMA FsAnswersAre ==
  ASSUME NEW s \in Seq(Printed), Has(s, "FS")
  PROVE  \E start \in 1..Len(s), last \in Nat :
           /\ s[start].t = "FS" /\ last \in start..Len(s)
           /\ FsAnswers(s) = [i \in 1..(last - start) |-> s[start + i].t]
<1> DEFINE places == {i \in 1..Len(s) : s[i].t = "FS"}
           start == Min(places)
           ends == {i \in start..Len(s) : s[i].t = "eol"}
           last == IF ends = {} THEN Len(s) ELSE Min(ends) - 1
<1>1. start \in 1..Len(s) /\ s[start].t = "FS"
  <2>1. places # {} /\ places \in SUBSET Nat
    BY DEF Has
  <2>2. start \in places
    <3> HIDE DEF places
    <3> QED BY <2>1, MinMember
  <2> HIDE DEF start
  <2> QED BY <2>2
<1>2. FsAnswers(s) = [i \in 1..(last - start) |-> s[start + i].t]
  BY DEF FsAnswers
<1> HIDE DEF start
<1>3. last \in start..Len(s) /\ last \in Nat
  <2>1. CASE ends = {}
    BY <1>1, <2>1
  <2>2. CASE ends # {}
    <3>1. ends \in SUBSET Nat
      BY <1>1
    <3>2. Min(ends) \in ends
      <4> HIDE DEF ends
      <4> QED BY <2>2, <3>1, MinMember
    <3> DEFINE k == Min(ends)
    <3>3. k \in start..Len(s) /\ s[k].t = "eol"
      BY <3>2
    <3>4. last = k - 1
      BY <2>2
    <3> HIDE DEF k, last
    <3>5. k # start
      BY <1>1, <3>3
    <3> QED BY <1>1, <3>3, <3>4, <3>5
  <2> QED BY <2>1, <2>2
<1> HIDE DEF last
<1> QED
  BY <1>1, <1>2, <1>3

\* The line that the driver acts on has as many answers as it offered messages: they
\* are the gateway's.
LEMMA AnswersHeard ==
  ASSUME BaseInv, AnswersSaid, ~Hung, Has(heard, "FS"), Len(FsAnswers(heard)) = outbox
  PROVE  /\ Settled /\ Len(took) = outbox
         /\ \A i \in 1..outbox : FsAnswers(heard)[i] = took[i]
<1> DEFINE rest == line \o air
           codes == FsAnswers(heard)
<1>1. /\ heard \in Seq(Printed) /\ rest \in Seq(Printed) /\ Said = heard \o rest
      /\ took \in Seq(Codes) /\ outbox \in Nat
  <2>1. took \in Seq(Codes) /\ outbox \in Nat
    BY MailAssumption DEF BaseInv, Typed, CallTyped, GatewayTyped
  <2> QED BY <2>1, SaidTyped
<1> HIDE DEF rest
<1>2. Has(Said, "FS")
  <2>1. Has(heard \o rest, "FS")
    BY <1>1, HasConcat
  <2> QED BY <1>1, <2>1
<1>3. Settled /\ Len(took) = outbox
  BY <1>2, NoAnswers DEF AnswersSaid
<1>4. AnswersAre(heard, took)
  <2>1. AnswersAre(heard \o rest, took)
    BY <1>1 DEF AnswersSaid
  <2> QED BY <1>1, <2>1, AnswersPrefix
<1>5. PICK start \in 1..Len(heard), last \in Nat :
        /\ heard[start].t = "FS" /\ last \in start..Len(heard)
        /\ codes = [i \in 1..(last - start) |-> heard[start + i].t]
  BY <1>1, FsAnswersAre
<1> HIDE DEF codes
<1>6. last - start = outbox
  <2>1. last - start \in Nat
    BY <1>5
  <2>2. Len(codes) = last - start
    BY <1>5, <2>1
  <2> QED BY <2>2 DEF codes
<1>7. ASSUME NEW i \in 1..outbox PROVE codes[i] = took[i]
  <2> DEFINE q == start + i
  <2>1. /\ q \in 1..Len(heard) /\ start < q /\ q - start = i /\ q - start <= Len(took)
        /\ i \in 1..(last - start)
    BY <1>1, <1>3, <1>5, <1>6
  <2>2. \A k \in start..q : heard[k].t # "banner"
    <3>1. \A k \in start..q : k \in 1..Len(heard)
      BY <1>1, <1>5, <2>1
    <3> QED BY <3>1 DEF Hung, Has
  <2>3. codes[i] = heard[q].t
    BY <1>5, <2>1
  <2> HIDE DEF q
  <2>4. heard[q].t = took[q - start]
    BY <1>4, <1>5, <2>1, <2>2, Zenon DEF AnswersAre
  <2> QED BY <2>1, <2>3, <2>4
<1> QED
  BY <1>3, <1>7 DEF codes

LEMMA SentStart == Init => SentParts
<1> SUFFICES ASSUME Init PROVE SentParts
  OBVIOUS
<1>1. /\ heard = <<>> /\ line = <<>> /\ air = <<>> /\ up = <<>> /\ result = <<>>
      /\ pc = "poll" /\ stage = "handshake" /\ gw = "greet"
  BY DEF Init
<1>2. Said = <<>>
  <2>1. <<>> \o <<>> = <<>>
    BY ConcatEmptySeq, EmptySeq
  <2> QED BY <1>1, <2>1 DEF Said
<1>3. NoneOf(Said, {"FS"})
  BY <1>2, NoneEmpty
<1>4. AnswersSaid
  BY <1>1, <1>3, NoAnswers DEF AnswersSaid
<1> QED
  BY <1>1, <1>4 DEF SentParts, TextAnswers, ResultSent, BlocksAccepted, Polling

\* The gateway answers once.
LEMMA AnsweredOnce ==
  ASSUME BaseInv, [Next]_vars, Settled
  PROVE  Settled' /\ took' = took
<1>1. CASE Gateway
  <2>1. CASE TakeLogin \/ Greet
    BY <2>1 DEF TakeLogin, Greet, Settled
  <2>2. CASE TakeFS \/ TakeBlock \/ Reciprocate \/ HangUp
    BY <2>2 DEF TakeFS, TakeBlock, Reciprocate, HangUp, GatewaySays, Settled, gatewayVars
  <2> QED BY <1>1, <2>1, <2>2 DEF Gateway
<1>2. CASE Arrive
  BY <1>2 DEF Arrive, gatewayVars, Settled
<1>3. CASE Disconne
  BY <1>3 DEF Disconne, Settled
<1>4. CASE Driver /\ ~Disconne
  <2>1. UNCHANGED gatewayVars
    BY <1>4 DEF Driver, Slice, PollTimesOut, PollRaises, RaiseHungUp, Login, NoMail, MixedBatch,
      AcceptAll, TakeMessages, BadAnswer, GoodAnswer, Upload, Decline, CtrlC, Disconnected,
      DisconnectTimesOut
  <2> QED BY <2>1 DEF gatewayVars, Settled
<1>5. CASE UNCHANGED vars
  BY <1>5 DEF vars, gatewayVars, Settled
<1> QED
  BY <1>1, <1>2, <1>3, <1>4, <1>5 DEF Next

LEMMA AnswersSame ==
  ASSUME AnswersSaid, Said' = Said, UNCHANGED <<stage, gw, took, outbox>>
  PROVE  AnswersSaid'
BY DEF AnswersSaid, Settled

LEMMA AnswersGateway ==
  ASSUME BaseInv, TurnInv, TextAnswers, Gateway
  PROVE  TextAnswers'
<1> USE DEF BaseInv, Typed
<1>0. UNCHANGED <<sessionVars, driverVars>>
  BY DEF Gateway, Greet, TakeLogin, TakeFS, TakeBlock, Reciprocate, HangUp, GatewaySays
<1> SUFFICES ASSUME method = "send"
             PROVE  /\ gw' # "offered"
                    /\ Polling /\ stage \in {"handshake", "FS"} => AnswersSaid'
  BY <1>0 DEF TextAnswers, sessionVars, driverVars, Polling
<1>1. /\ gw # "offered" /\ stage' = stage /\ outbox' = outbox
      /\ Polling /\ stage \in {"handshake", "FS"} => AnswersSaid
      /\ Said \in Seq(Printed) /\ took \in Seq(Codes)
  BY <1>0, SaidTyped DEF TextAnswers, sessionVars, driverVars, GatewayTyped
<1>2. CASE Greet
  <2>1. PICK text \in Seq(Quiet) : /\ GatewaySays(text, "login")
                                   /\ NoneOf(text, TokTypes \ {"challenge", "prompt"})
    BY <1>2, GatewayTexts
  <2>2. Said' = Said \o text /\ gw' = "login" /\ gw = "greet" /\ text \in Seq(Printed)
    BY <1>2, <2>1, SaidMore, Widen DEF GatewaySays, Greet
  <2>3. ASSUME AnswersSaid PROVE AnswersSaid'
    <3>1. NoneOf(Said, {"FS"})
      BY <2>2, <2>3 DEF AnswersSaid, Settled
    <3>2. NoneOf(text, {"FS"})
      BY <2>1 DEF NoneOf, TokTypes
    <3>3. NoneOf(Said \o text, {"FS"})
      BY <1>1, <2>2, <3>1, <3>2, NoneConcat
    <3> QED BY <2>2, <3>3, NoAnswers DEF AnswersSaid
  <2> QED BY <1>1, <2>2, <2>3
<1>3. CASE TakeLogin
  <2>1. /\ stage # "handshake" /\ gw = "login" /\ took' \in Seq(Codes) /\ Len(took') = outbox
        /\ GatewaySays(Answers(took'), "receive")
    BY <1>3, LoginTaken DEF CallTyped
  <2>2. Said' = Said \o Answers(took') /\ gw' = "receive"
    BY <2>1, GatewayTexts, SaidMore DEF GatewaySays
  <2>3. ASSUME AnswersSaid PROVE AnswersSaid'
    <3>1. NoneOf(Said, {"FS"})
      BY <2>1, <2>3 DEF AnswersSaid, Settled
    <3>2. AnswersAre(Said', took') /\ AnswersWhole(Said', took')
      BY <1>1, <2>1, <2>2, <3>1, AnswersNew
    <3> QED BY <1>1, <2>1, <2>2, <3>2 DEF AnswersSaid, Settled
  <2> QED BY <1>1, <2>2, <2>3
<1>4. CASE TakeFS
  BY <1>1, <1>4 DEF TakeFS
<1>5. CASE TakeBlock
  <2>1. Said' = Said /\ UNCHANGED <<gw, took>>
    BY <1>0, <1>5 DEF TakeBlock, Said, driverVars, gatewayVars
  <2> QED BY <1>1, <2>1, AnswersSame
<1>6. CASE Reciprocate
  <2>1. gw = "receive" /\ gw' = "over" /\ took' = took
    BY <1>6 DEF Reciprocate, GatewaySays
  <2>2. \E text \in Seq(Quiet) : GatewaySays(text, "over") /\ NoneOf(text, {"FS"})
    <3>1. NoneOf(<<Tok("FF")>>, {"FS"}) /\ NoneOf(<<Tok("FQ")>>, {"FS"})
      BY DEF NoneOf, Tok
    <3>2. NoneOf(Offer(mail), {"FS"})
      <4>1. mail \in [1..Len(mail) -> OfferTypes] /\ Len(mail) \in 0..MaxMail
        BY DEF CallTyped, OfferTypes
      <4>2. NoneOf(Offer(mail), TokTypes \ {"FB", "FC", "F>", "eol"})
        BY <4>1, OfferHas
      <4> QED BY <4>2 DEF NoneOf, TokTypes
    <3> QED BY <1>6, <3>1, <3>2, GatewayTexts DEF Reciprocate
  <2>3. PICK text \in Seq(Quiet) : GatewaySays(text, "over") /\ NoneOf(text, {"FS"})
    BY <2>2
  <2>4. Said' = Said \o text /\ text \in Seq(Printed)
    BY <2>3, SaidMore, Widen
  <2>5. ASSUME AnswersSaid PROVE AnswersSaid'
    <3>1. AnswersAre(Said, took) /\ AnswersWhole(Said, took) /\ stage # "handshake"
      BY <2>1, <2>5 DEF AnswersSaid, TurnInv, InTurn
    <3>2. AnswersAre(Said \o text, took)
      BY <1>1, <2>3, <2>4, <3>1, AnswersMore
    <3>3. Has(Said \o text, "FS") => Has(Said, "FS")
      <4>1. ~Has(text, "FS")
        BY <2>3, NoAnswers
      <4> QED BY <1>1, <2>4, <4>1, HasConcat
    <3> QED BY <1>1, <2>1, <2>4, <2>5, <3>1, <3>2, <3>3 DEF AnswersSaid, Settled
  <2> QED BY <1>1, <2>1, <2>5
<1>7. CASE HangUp
  <2>1. PICK a, b \in Seq(Printed) : Said = a \o b /\ Said' = a \o HungUp
    BY <1>7, SaidCut
  <2>2. gw' = "gone" /\ took' = took
    BY <1>7 DEF HangUp
  <2>3. HungUp \in Seq(Printed) /\ NoneOf(HungUp, {"FS"}) /\ ~Has(HungUp, "FS")
        /\ HungUp # <<>> /\ HungUp[1].t = "banner"
    <3>1. HungUp \in Seq(Printed)
      BY AiredHungUp, Widen
    <3>2. NoneOf(HungUp, {"FS"})
      BY HungUpHas DEF NoneOf, TokTypes
    <3>3. HungUp # <<>> /\ HungUp[1].t = "banner"
      BY DEF HungUp, Tok
    <3> QED BY <3>1, <3>2, <3>3, NoAnswers
  <2>4. ASSUME AnswersSaid PROVE AnswersSaid'
    <3>1. AnswersAre(a, took)
      <4>1. AnswersAre(a \o b, took)
        BY <2>1, <2>4 DEF AnswersSaid
      <4> QED BY <4>1, AnswersPrefix
    <3>2. AnswersAre(a \o HungUp, took)
      BY <1>1, <2>3, <3>1, AnswersMore
    <3>3. NoneOf(Said, {"FS"}) => NoneOf(Said', {"FS"})
      BY <2>1, <2>3, NoneConcat
    <3>4. Has(Said', "FS") => Has(Said, "FS")
      BY <2>1, <2>3, HasConcat
    <3> QED BY <1>1, <2>1, <2>2, <2>4, <3>2, <3>3, <3>4 DEF AnswersSaid, Settled
  <2> QED BY <1>1, <2>2, <2>4
<1> QED
  BY <1>2, <1>3, <1>4, <1>5, <1>6, <1>7 DEF Gateway

LEMMA AnswersLogin == ASSUME BaseInv, TurnInv, TextAnswers, Login PROVE TextAnswers'
<1> SUFFICES ASSUME method = "send" PROVE gw' # "offered" /\ AnswersSaid'
  BY DEF TextAnswers, Login, sessionVars
<1> DEFINE unit == [t |-> "login", pr |-> Has(heard, "challenge"), n |-> outbox]
<1>1. /\ Send(unit) /\ stage = "handshake" /\ pc = "act" /\ NextStage("FS") /\ air' = air
      /\ gw' = gw
  BY DEF Login, Acting, gatewayVars
<1>2. unit \in Units /\ unit.t = "login"
  <2>1. Has(heard, "challenge") \in BOOLEAN /\ outbox \in 0..MaxMail
    BY Zenon DEF Has, BaseInv, Typed, CallTyped
  <2> QED BY <2>1 DEF Units
<1> HIDE DEF unit
<1>3. NoneOf(Said, {"FS"})
  BY <1>1 DEF TextAnswers, AnswersSaid, Polling
<1>4. NoneOf(Echoed(unit), {"FS"}) /\ NoneOf(BadCommand, {"FS"})
  BY <1>2, EchoHas DEF NoneOf, TokTypes
<1>5. NoneOf(Said', {"FS"})
  BY <1>1, <1>2, <1>3, <1>4, NoneAtNextStage
<1>6. AnswersSaid'
  BY <1>5, NoAnswers DEF AnswersSaid
<1> QED
  BY <1>1, <1>6 DEF TextAnswers, TurnInv, InTurn

LEMMA TextAnswersKept ==
  ASSUME BaseInv, TurnInv, TextAnswers, [Next]_vars
  PROVE  TextAnswers'
<1>1. ASSUME Said' = Said, UNCHANGED <<method, outbox, stage, gw, took>>, Polling' => Polling
      PROVE  TextAnswers'
  BY <1>1, AnswersSame DEF TextAnswers
<1>2. ASSUME method' = method, method = "send" => gw' # "offered",
             ~Polling' \/ stage' \notin {"handshake", "FS"}
      PROVE  TextAnswers'
  BY <1>2 DEF TextAnswers
<1>3. CASE Arrive
  BY <1>1, <1>3, SaidArrives DEF Arrive, sessionVars, driverVars, gatewayVars, Polling
<1>4. CASE Slice
  BY <1>1, <1>4, SaidInSlices DEF Slice, sessionVars, gatewayVars, Polling
<1>5. CASE PollTimesOut
  <2>1. Said' = Said
    BY <1>5 DEF PollTimesOut, Said
  <2> QED BY <1>1, <1>5, <2>1 DEF PollTimesOut, sessionVars, gatewayVars, Polling
<1>6. CASE PollRaises \/ RaiseHungUp \/ NoMail \/ MixedBatch \/ TakeMessages \/ BadAnswer
           \/ Decline
  <2>1. pc' \in {"end", "ctrlC"} /\ UNCHANGED <<method, gw>>
    BY <1>6 DEF PollRaises, RaiseHungUp, NoMail, MixedBatch, TakeMessages, BadAnswer, Decline,
      Leave, AfterTry, sessionVars, gatewayVars
  <2> QED BY <1>2, <2>1 DEF TextAnswers, Polling
<1>7. CASE GoodAnswer \/ CtrlC \/ Disconne \/ Disconnected \/ DisconnectTimesOut
  <2>1. pc' \in {"upload", "awaitCmd", "awaitBanner", "end"} /\ method' = method
        /\ (gw' = gw \/ gw' = "gone")
    BY <1>7 DEF GoodAnswer, CtrlC, Disconne, Disconnected, DisconnectTimesOut, sessionVars,
      gatewayVars
  <2> QED BY <1>2, <2>1 DEF TextAnswers, Polling
<1>8. CASE Upload
  <2>1. pc' = "upload" \/ stage' = "reciprocal"
    BY <1>8 DEF Upload, NextStage
  <2>2. UNCHANGED <<method, gw>>
    BY <1>8 DEF Upload, sessionVars, gatewayVars
  <2> QED BY <1>2, <2>1, <2>2 DEF TextAnswers, Polling
<1>9. CASE AcceptAll
  <2>1. method # "send" /\ method' = method
    BY <1>9 DEF AcceptAll, Acting, TurnInv, InTurn, sessionVars
  <2> QED BY <2>1 DEF TextAnswers
<1>10. CASE UNCHANGED vars
  <2>1. UNCHANGED <<method, outbox, stage, gw, took, pc>> /\ Said' = Said
    BY <1>10 DEF vars, sessionVars, driverVars, gatewayVars, Said
  <2> QED BY <1>1, <2>1 DEF Polling
<1> QED
  BY <1>3, <1>4, <1>5, <1>6, <1>7, <1>8, <1>9, <1>10, AnswersGateway, AnswersLogin
    DEF Next, Driver

LEMMA AcceptedIs ==
  ASSUME BaseInv
  PROVE  /\ Accepted \in Seq(Nat)
         /\ \A k \in 1..Len(Accepted) : took[Accepted[k]] = "+"
<1> DEFINE kept == {i \in 1..Len(took) : took[i] = "+"}
           n == Len(took)
           a == Ascending(n, kept)
<1>1. n \in Nat
  BY DEF BaseInv, Typed, GatewayTyped
<1>2. \A i \in kept : took[i] = "+"
  OBVIOUS
<1> HIDE DEF kept, n
<1>3. a \in Seq(1..n) /\ \A k \in 1..Len(a) : a[k] \in kept
  BY <1>1, AscendingEnumerates DEF Enumerates
<1>4. Accepted = a
  BY DEF Accepted, kept, n
<1> HIDE DEF a
<1>5. a \in Seq(Nat)
  BY <1>1, <1>3
<1> QED
  BY <1>2, <1>3, <1>4, <1>5

LEMMA GoodAnswerSent ==
  ASSUME BaseInv, TurnInv, TextAnswers, ResultSent, GoodAnswer
  PROVE  ResultSent'
<1> SUFFICES ASSUME method = "send" PROVE Settled' /\ Ids(result') \o uploads' = Accepted'
  BY DEF ResultSent, GoodAnswer, Acting, sessionVars, Polling
<1> DEFINE codes == FsAnswers(heard)
           kept == {i \in 1..outbox : IsAccept(codes[i])}
<1>1. /\ Acting("FS") /\ Has(heard, "FS") /\ Len(codes) = outbox
      /\ uploads' = Ascending(outbox, kept)
      /\ result' = result /\ gw' = gw /\ took' = took
  BY DEF GoodAnswer, gatewayVars
<1>2. AnswersSaid /\ result = <<>> /\ ~Hung
  BY <1>1 DEF Acting, TextAnswers, ResultSent, Polling
<1>3. Settled /\ Len(took) = outbox /\ \A i \in 1..outbox : codes[i] = took[i]
  BY <1>1, <1>2, AnswersHeard
<1> HIDE DEF codes
<1>4. kept = {i \in 1..Len(took) : took[i] = "+"}
  BY <1>3 DEF IsAccept
<1> HIDE DEF kept
<1>5. uploads' = Accepted /\ Accepted' = Accepted
  BY <1>1, <1>3, <1>4 DEF Accepted
<1>6. Ids(result') = <<>>
  BY <1>1, <1>2 DEF Ids
<1>7. <<>> \o Accepted = Accepted
  BY AcceptedIs, ConcatEmptySeq
<1> QED
  BY <1>1, <1>3, <1>5, <1>6, <1>7 DEF Settled

\* Every row of the list to return names a message.
LEMMA RowsHaveIds ==
  ASSUME result \in Seq(Results)
  PROVE  Len(result) \in Nat /\ \A k \in 1..Len(result) : result[k].id \in 1..MaxMail
<1>1. \A r \in Results : r.id \in 1..MaxMail
  BY DEF Results
<1> HIDE DEF Results
<1>2. Len(result) \in Nat /\ \A k \in 1..Len(result) : result[k] \in Results
  OBVIOUS
<1> QED
  BY <1>1, <1>2

\* The first of the messages still to send is the next of the accepted ones.
LEMMA NextUpload ==
  ASSUME BaseInv, Ids(result) \o uploads = Accepted, uploads # <<>>, NEW row,
         row.id = Head(uploads)
  PROVE  /\ Ids(Append(result, row)) \o Tail(uploads) = Accepted
         /\ took[Head(uploads)] = "+"
<1> DEFINE h == Head(uploads)
           r == Tail(uploads)
           ids == Ids(result)
           more == Append(result, row)
           T == 1..MaxMail
<1>1. uploads \in Seq(T) /\ result \in Seq(Results)
  BY DEF BaseInv, Typed, DriverTyped
<1>2. ids \in Seq(T) /\ Len(ids) = Len(result) /\ \A k \in 1..Len(result) : ids[k] = result[k].id
  <2>1. \A k \in 1..Len(result) : result[k].id \in T
    BY <1>1, RowsHaveIds
  <2>2. ids = [k \in 1..Len(result) |-> result[k].id] /\ Len(result) \in Nat
    BY <1>1 DEF Ids
  <2> HIDE DEF T, ids
  <2> QED BY <2>1, <2>2
<1>3. h \in T /\ r \in Seq(T) /\ uploads = <<h>> \o r /\ <<h>> \in Seq(T)
  <2> HIDE DEF T
  <2> QED BY <1>1
<1>4. Ids(more) = ids \o <<h>>
  <2>1. /\ Len(more) = Len(result) + 1 /\ Len(result) \in Nat
        /\ more[Len(result) + 1] = row
        /\ \A k \in 1..Len(result) : more[k] = result[k]
    BY <1>1
  <2>2. Ids(more) = [k \in 1..Len(more) |-> more[k].id]
    BY DEF Ids
  <2>3. ids \o <<h>> = Append(ids, h)
    <3> HIDE DEF ids, h, T
    <3> QED BY <1>2, <1>3
  <2> HIDE DEF more, ids, h, T
  <2>4. /\ Append(ids, h) \in Seq(T) /\ Len(Append(ids, h)) = Len(result) + 1
        /\ Append(ids, h)[Len(result) + 1] = h
        /\ \A k \in 1..Len(result) : Append(ids, h)[k] = result[k].id
    BY <1>2, <1>3
  <2> DEFINE a == Append(ids, h)
  <2> HIDE DEF a
  <2>5. /\ a \in Seq(T) /\ Len(a) = Len(result) + 1 /\ a[Len(result) + 1] = h
        /\ \A k \in 1..Len(result) : a[k] = result[k].id
    BY <2>4 DEF a
  <2>6. ASSUME NEW k \in 1..(Len(result) + 1) PROVE a[k] = more[k].id
    <3>1. CASE k = Len(result) + 1
      <4>1. a[k] = h /\ more[k] = row
        BY <2>1, <2>5, <3>1
      <4> QED BY <4>1 DEF h
    <3>2. CASE k \in 1..Len(result)
      <4>1. a[k] = result[k].id /\ more[k] = result[k]
        BY <2>1, <2>5, <3>2
      <4> QED BY <4>1
    <3> QED BY <2>1, <3>1, <3>2
  <2>8. a = [k \in 1..Len(a) |-> a[k]]
    BY <2>5
  <2>7. a = [k \in 1..Len(more) |-> more[k].id]
    BY <2>1, <2>5, <2>6, <2>8
  <2> QED BY <2>2, <2>3, <2>7, Zenon DEF a
<1> HIDE DEF h, r, ids, more, T
<1>5. (ids \o <<h>>) \o r = ids \o (<<h>> \o r)
  BY <1>2, <1>3, ConcatAssociative
<1>6. Ids(more) \o r = Accepted
  <2>1. ids \o uploads = Accepted
    BY DEF ids
  <2> QED BY <1>3, <1>4, <1>5, <2>1, Zenon
<1>7. took[h] = "+"
  <2> DEFINE k == Len(ids) + 1
  <2>1. ids \o uploads = Accepted
    BY DEF ids
  <2>2. Len(uploads) > 0 /\ uploads[1] = h
    BY <1>1 DEF h
  <2>3. /\ Len(Accepted) = Len(ids) + Len(uploads) /\ Len(ids) \in Nat
        /\ \A i \in 1..Len(uploads) : Accepted[Len(ids) + i] = uploads[i]
    <3>1. ids \in Seq(T) /\ uploads \in Seq(T)
      BY <1>1, <1>2 DEF T
    <3>2. /\ Len(ids \o uploads) = Len(ids) + Len(uploads) /\ Len(ids) \in Nat
          /\ \A i \in 1..Len(uploads) : (ids \o uploads)[Len(ids) + i] = uploads[i]
      BY <3>1, ConcatAt
    <3> QED BY <2>1, <3>2
  <2>4. 1 \in 1..Len(uploads) /\ Len(uploads) \in Nat
    BY <1>1, <2>2
  <2>5. k \in 1..Len(Accepted) /\ Accepted[k] = h
    BY <2>2, <2>3, <2>4
  <2> HIDE DEF k
  <2> QED BY <2>5, AcceptedIs
<1> QED
  BY <1>6, <1>7 DEF h, r, more

LEMMA ResultSentKept ==
  ASSUME BaseInv, TurnInv, SentParts, [Next]_vars
  PROVE  ResultSent'
<1> USE DEF SentParts
<1>0. Settled => Settled' /\ Accepted' = Accepted
  BY AnsweredOnce DEF Accepted
\* The steps that leave the driver's state alone, but for the end of a poll or of the call.
<1>1. ASSUME UNCHANGED <<method, stage, result, uploads, outcome>>,
             pc' = pc \/ (Polling /\ Polling')
             \/ (pc \in {"ctrlC", "awaitCmd", "awaitBanner"}
                   /\ pc' \in {"awaitCmd", "awaitBanner", "end"})
      PROVE  ResultSent'
  BY <1>0, <1>1 DEF ResultSent, Ids, Polling
<1>2. ASSUME UNCHANGED <<method, stage>>, outcome' # "returned", pc' \in {"ctrlC", "end"}
      PROVE  ResultSent'
  BY <1>0, <1>2 DEF ResultSent, Polling
<1>3. CASE Gateway \/ Arrive \/ UNCHANGED vars
  BY <1>1, <1>3 DEF Gateway, Greet, TakeLogin, TakeFS, TakeBlock, Reciprocate, HangUp, Arrive,
    GatewaySays, vars, sessionVars, driverVars
<1>4. CASE Slice \/ PollTimesOut \/ CtrlC \/ Disconne \/ Disconnected
  BY <1>1, <1>4 DEF Slice, PollTimesOut, CtrlC, Disconne, Disconnected, sessionVars, Polling
<1>5. CASE PollRaises \/ RaiseHungUp \/ MixedBatch \/ BadAnswer
  BY <1>2, <1>5 DEF PollRaises, RaiseHungUp, MixedBatch, BadAnswer, Leave, AfterTry, sessionVars
<1>6. CASE DisconnectTimesOut
  BY <1>2, <1>6 DEF DisconnectTimesOut, sessionVars
<1>7. CASE NoMail \/ AcceptAll \/ TakeMessages
  <2>1. method # "send" /\ method' = method
    BY <1>7 DEF NoMail, AcceptAll, TakeMessages, Acting, TurnInv, InTurn, sessionVars
  <2> QED BY <2>1 DEF ResultSent
<1>8. CASE Login
  <2>1. /\ stage = "handshake" /\ Polling /\ result' = result /\ method' = method
        /\ pc' = "poll" /\ stage' \in {"proposals", "FS"}
    BY <1>8 DEF Login, Acting, NextStage, sessionVars, Polling
  <2> QED BY <2>1 DEF ResultSent, Polling
<1>9. CASE GoodAnswer
  BY <1>9, GoodAnswerSent
<1>10. CASE Decline
  <2>1. /\ stage = "reciprocal" /\ Polling /\ pc' \in {"end", "ctrlC"}
        /\ UNCHANGED <<method, stage, result>>
    BY <1>10 DEF Decline, Acting, Leave, AfterTry, sessionVars, Polling
  <2>2. method = "send" => Settled /\ Ids(result) = Accepted
    BY <2>1 DEF ResultSent
  <2>3. Ids(result') = Ids(result)
    BY <2>1
  <2> QED BY <1>0, <2>1, <2>2, <2>3 DEF ResultSent, Polling
<1>11. CASE Upload
  <2>1. pc = "upload" /\ method' = method
    BY <1>11 DEF Upload, sessionVars
  <2>2. SUFFICES ASSUME method = "send" PROVE ResultSent'
    BY <2>1 DEF ResultSent
  <2>3. Settled /\ Ids(result) \o uploads = Accepted
    BY <2>1, <2>2 DEF ResultSent
  <2>4. CASE uploads = <<>>
    <3>1. stage' = "reciprocal" /\ pc' = "poll" /\ result' = result
      BY <1>11, <2>4 DEF Upload, NextStage
    <3>2. Ids(result) = Accepted
      <4>1. Ids(result) \in Seq(1..MaxMail)
        <5>1. result \in Seq(Results)
          BY DEF BaseInv, Typed, DriverTyped
        <5>2. Len(result) \in Nat /\ \A k \in 1..Len(result) : result[k].id \in 1..MaxMail
          BY <5>1, RowsHaveIds
        <5> QED BY <5>2 DEF Ids
      <4>2. Ids(result) \o <<>> = Ids(result)
        BY <4>1, ConcatEmptySeq
      <4> QED BY <2>3, <2>4, <4>2
    <3>3. Ids(result') = Ids(result)
      BY <3>1
    <3> QED BY <1>0, <2>3, <3>1, <3>2, <3>3 DEF ResultSent, Polling
  <2>5. CASE uploads # <<>>
    <3> DEFINE row == [title |-> Tok("head"), id |-> Head(uploads), proposal |-> Head(uploads)]
    <3>1. /\ result' = Append(result, row) /\ uploads' = Tail(uploads) /\ UNCHANGED <<pc, stage>>
      BY <1>11, <2>5 DEF Upload
    <3>2. row.id = Head(uploads)
      OBVIOUS
    <3> HIDE DEF row
    <3>3. Ids(result') \o uploads' = Accepted
      BY <2>3, <2>5, <3>1, <3>2, NextUpload
    <3>4. stage = "FS"
      BY <2>1 DEF TurnInv, InTurn
    <3> QED BY <1>0, <2>1, <2>3, <3>1, <3>3, <3>4 DEF ResultSent, Polling
  <2> QED BY <2>4, <2>5
<1> QED
  BY <1>3, <1>4, <1>5, <1>6, <1>7, <1>8, <1>9, <1>10, <1>11 DEF Next, Driver

LEMMA BlocksAcceptedKept ==
  ASSUME BaseInv, TurnInv, SentParts, [Next]_vars
  PROVE  BlocksAccepted'
<1> USE DEF SentParts
<1>0. Settled => Settled' /\ took' = took
  BY AnsweredOnce
<1>1. up \in Seq(Units)
  BY DEF BaseInv, Typed, TextTyped
<1>2. ASSUME up' = up PROVE BlocksAccepted'
  BY <1>0, <1>2 DEF BlocksAccepted
<1>3. ASSUME up # <<>>, up' = Tail(up) PROVE BlocksAccepted'
  <2>1. \A i \in 1..Len(up') : i + 1 \in 1..Len(up) /\ up'[i] = up[i + 1]
    BY <1>1, <1>3
  <2> QED BY <1>0, <2>1 DEF BlocksAccepted
<1>4. ASSUME NEW unit \in Units, Send(unit),
             unit.t = "block" => Settled /\ took[unit.n] = "+"
      PROVE  BlocksAccepted'
  <2>1. CASE up' = up
    BY <1>2, <2>1
  <2>2. CASE up' = Append(up, unit)
    <3>1. \A i \in 1..Len(up') : up'[i] = unit \/ (i \in 1..Len(up) /\ up'[i] = up[i])
      BY <1>1, <2>2, AppendAt
    <3> QED BY <1>0, <1>4, <3>1 DEF BlocksAccepted
  <2> QED BY <1>4, <2>1, <2>2 DEF Send
<1>5. CASE Gateway
  BY <1>2, <1>3, <1>5 DEF Gateway, Greet, TakeLogin, TakeFS, TakeBlock, Reciprocate, HangUp, Takes
<1>6. CASE Arrive \/ UNCHANGED vars
  BY <1>2, <1>6 DEF Arrive, vars
<1>7. CASE Login
  <2> DEFINE unit == [t |-> "login", pr |-> Has(heard, "challenge"), n |-> outbox]
  <2>1. Send(unit)
    BY <1>7 DEF Login
  <2>2. unit \in Units /\ unit.t # "block"
    <3>1. Has(heard, "challenge") \in BOOLEAN /\ outbox \in 0..MaxMail
      BY Zenon DEF Has, BaseInv, Typed, CallTyped
    <3> QED BY <3>1 DEF Units
  <2> HIDE DEF unit
  <2> QED BY <1>4, <2>1, <2>2
<1>8. CASE AcceptAll \/ Decline
  <2>1. Len(ParseProposals(heard)) \in Nat
    <3>1. ParseProposals(heard) \in Seq(Proposals)
      BY ProposalsTyped DEF BaseInv, Typed, TextTyped
    <3> QED BY <3>1
  <2>2. up' = up \/ \E code \in {"+", "-"} :
          Send([t |-> "FS", n |-> Len(ParseProposals(heard)), code |-> code])
    BY <1>8 DEF AcceptAll, Decline
  <2>3. ASSUME NEW code \in {"+", "-"},
               Send([t |-> "FS", n |-> Len(ParseProposals(heard)), code |-> code])
        PROVE  BlocksAccepted'
    <3> DEFINE unit == [t |-> "FS", n |-> Len(ParseProposals(heard)), code |-> code]
    <3>1. unit \in Units /\ unit.t # "block"
      BY <2>1 DEF Units
    <3>2. Send(unit)
      BY <2>3
    <3> HIDE DEF unit
    <3> QED BY <1>4, <3>1, <3>2
  <2> QED BY <1>2, <2>2, <2>3
<1>9. CASE Upload
  <2>1. CASE uploads = <<>>
    BY <1>2, <1>9, <2>1 DEF Upload
  <2>2. CASE uploads # <<>>
    <3> DEFINE h == Head(uploads)
               unit == [t |-> "block", n |-> h]
               row == [title |-> Tok("head"), id |-> h, proposal |-> h]
    <3>1. Send(unit) /\ pc = "upload"
      BY <1>9, <2>2 DEF Upload
    <3>2. method = "send"
      BY <3>1 DEF TurnInv, InTurn, BaseInv, Typed, CallTyped
    <3>3. Settled /\ Ids(result) \o uploads = Accepted
      BY <3>1, <3>2 DEF ResultSent
    <3>4. row.id = h
      OBVIOUS
    <3>5. took[h] = "+"
      <4> HIDE DEF row
      <4> QED BY <2>2, <3>3, <3>4, NextUpload
    <3>6. h \in 1..MaxMail
      <4> DEFINE T == 1..MaxMail
      <4>1. uploads \in Seq(T)
        BY DEF BaseInv, Typed, DriverTyped
      <4> HIDE DEF T
      <4>2. Head(uploads) \in T
        BY <2>2, <4>1
      <4> QED BY <4>2 DEF T
    <3>7. unit \in Units /\ unit.n = h
      BY <3>6 DEF Units
    <3> HIDE DEF unit
    <3> QED BY <1>4, <3>1, <3>3, <3>5, <3>7
  <2> QED BY <2>1, <2>2
<1>10. CASE Slice \/ PollTimesOut \/ PollRaises \/ RaiseHungUp \/ NoMail \/ MixedBatch
            \/ TakeMessages \/ BadAnswer \/ GoodAnswer \/ CtrlC \/ Disconne \/ Disconnected
            \/ DisconnectTimesOut
  BY <1>2, <1>10 DEF Slice, PollTimesOut, PollRaises, RaiseHungUp, NoMail, MixedBatch,
    TakeMessages, BadAnswer, GoodAnswer, CtrlC, Disconne, Disconnected, DisconnectTimesOut
<1> QED
  BY <1>5, <1>6, <1>7, <1>8, <1>9, <1>10 DEF Next, Driver

SentInv == BaseInv /\ TurnInv /\ SentParts

LEMMA SentAlways == Spec => []SentInv
<1>1. Init => SentInv
  BY BaseStart, TurnStart, SentStart DEF SentInv
<1>2. SentInv /\ [Next]_vars => SentInv'
  <2>1. SentParts => TextAnswers
    BY DEF SentParts
  <2>2. BaseInv /\ TurnInv /\ SentParts /\ [Next]_vars => SentParts'
    BY <2>1, TextAnswersKept, ResultSentKept, BlocksAcceptedKept DEF SentParts
  <2> QED BY <2>2, BaseKept, TurnKept DEF SentInv
<1> QED
  BY <1>1, <1>2, PTL DEF Spec

\* send_winlink_message() returns the MIDs of the messages the gateway accepted, in order,
\* and uploads no other: whatever mix of answers it gives, wherever its FS line is cut by
\* a slice, a timeout or a hang-up, and for any number of messages.
THEOREM SentIsAccepted == Spec => []SentIsWhatWasAccepted
<1>1. SentInv => SentIsWhatWasAccepted
  <2> SUFFICES ASSUME SentInv PROVE SentIsWhatWasAccepted
    OBVIOUS
  <2> USE DEF SentInv, SentParts
  <2>1. Returned("send") => Ids(result) = Accepted
    BY DEF Returned, ResultSent, Polling
  <2>2. \A i \in 1..Len(up) : up[i].t = "block" => took[up[i].n] = "+"
    BY DEF BlocksAccepted
  <2> QED BY <2>1, <2>2 DEF SentIsWhatWasAccepted, Accepted
<1> QED
  BY <1>1, SentAlways, PTL

-----------------------------------------------------------------------------
(***************************************************************************)
(* The invariant, fifth part: in a check, the gateway's offers are complete *)
(* before it says that they are, the messages it sends are all there, and  *)
(* the driver has acted on all of them unless it was too late.             *)
(***************************************************************************)
\* The first p tokens offer each of n messages.
OfferedBy(s, p, n) == \A k \in 1..n : \E i \in 1..p : s[i].t \in OfferTypes /\ s[i].id = k
\* What may be said of n messages before the driver has accepted them.
OffersKnown(s, n) ==
  /\ Has(s, "FQ") => n = 0
  /\ \A p \in 1..Len(s) : /\ s[p].t = "F>" => OfferedBy(s, p, n)
                          /\ s[p].t \in OfferTypes => s[p].id <= n

Asked ==
  /\ stage # "handshake" /\ gw \in {"greet", "login"} => up # <<>>
  /\ stage = "messages" => gw \notin {"greet", "login"}
  /\ stage = "messages" /\ gw = "offered" => up # <<>>
  /\ stage = "proposals" /\ gw = "over" => Len(mail) = 0
GoneIsSaid == gw = "gone" => Has(Said, "banner")
OffersSaid ==
  stage \in Before =>
    /\ OffersKnown(Said, Len(mail))
    /\ gw = "offered" => OfferedBy(Said, Len(Said), Len(mail))
MessagesSaid ==
  stage = "messages" /\ gw = "over" =>
    \E pre \in Seq(Printed) : NoneOf(pre, BlockTypes) /\ Said = pre \o Messages(Len(mail))
MailTexts == method = "check" /\ Polling => Asked /\ GoneIsSaid /\ OffersSaid /\ MessagesSaid

Heeded ==
  method = "check" /\ Polling /\ ~late =>
    /\ stage = "messages" => Len(proposals) = Len(mail)
    /\ pc = "act" /\ ~Hung /\ stage = "proposals" => OfferedBy(heard, Len(heard), Len(mail))
    /\ pc = "act" /\ ~Hung /\ stage = "messages" /\ Readable =>
         Len(Blocks(heard)) = Len(proposals)

MailReturned ==
  method = "check" /\ ~Polling /\ outcome = "returned" /\ ~late /\ Readable =>
    Ids(result) = [i \in 1..Len(mail) |-> i]

MailParts == MailTexts /\ Heeded /\ MailReturned

\* Only keeps the tokens of the types asked for, and loses none of them.
LEMMA OnlyOccurs ==
  ASSUME NEW s \in Seq(Printed), NEW types
  PROVE  /\ \A k \in 1..Len(Only(s, types)) :
              \E i \in 1..Len(s) : s[i] = Only(s, types)[k] /\ s[i].t \in types
         /\ \A i \in 1..Len(s) : s[i].t \in types =>
              \E k \in 1..Len(Only(s, types)) : Only(s, types)[k] = s[i]
<1> DEFINE kept == Places(s, types)
           a == Ascending(Len(s), kept)
           o == Only(s, types)
<1>1. Enumerates(a, Len(s), kept)
  BY AscendingEnumerates
<1>2. Len(a) = Len(o) /\ \A k \in 1..Len(o) : o[k] = s[a[k]]
  BY PickAscending DEF Only
<1>3. \A i : i \in kept <=> i \in 1..Len(s) /\ s[i].t \in types
  BY DEF Places
<1> HIDE DEF a, o, kept
<1>4. ASSUME NEW k \in 1..Len(o)
      PROVE  \E i \in 1..Len(s) : s[i] = o[k] /\ s[i].t \in types
  <2>1. a[k] \in kept /\ o[k] = s[a[k]]
    BY <1>1, <1>2 DEF Enumerates
  <2>2. a[k] \in 1..Len(s) /\ s[a[k]].t \in types
    BY <1>3, <2>1
  <2> QED BY <2>1, <2>2
<1>5. ASSUME NEW i \in 1..Len(s), s[i].t \in types
      PROVE  \E k \in 1..Len(o) : o[k] = s[i]
  <2>1. i \in kept
    BY <1>3, <1>5
  <2>2. PICK k \in 1..Len(a) : a[k] = i
    BY <1>1, <2>1 DEF Enumerates
  <2> QED BY <1>2, <2>2
<1> QED
  BY <1>4, <1>5 DEF o

\* Offers in order, none above n and none missing: there are n of them.
LEMMA OffersCounted ==
  ASSUME NEW s \in Seq(Printed), NEW n \in Nat, Ordered(s, OfferTypes),
         OffersKnown(s, n), OfferedBy(s, Len(s), n)
  PROVE  Len(Only(s, OfferTypes)) = n
<1> DEFINE o == Only(s, OfferTypes)
<1>1. \A k \in 1..Len(o) : \E i \in 1..Len(s) : s[i] = o[k] /\ s[i].t \in OfferTypes
  BY OnlyOccurs
<1>2. \A i \in 1..Len(s) : s[i].t \in OfferTypes => \E k \in 1..Len(o) : o[k] = s[i]
  BY OnlyOccurs
<1>3. \A k \in 1..Len(o) : o[k].id = k
  BY DEF Ordered
<1>4. Len(o) \in Nat
  <2>1. o \in Seq(Printed)
    BY OnlyType
  <2> QED BY <2>1
<1> HIDE DEF o
<1>5. ASSUME NEW k \in 1..Len(o) PROVE k <= n
  <2>1. PICK i \in 1..Len(s) : s[i] = o[k] /\ s[i].t \in OfferTypes
    BY <1>1
  <2>2. s[i].id <= n
    BY <2>1 DEF OffersKnown
  <2> QED BY <1>3, <2>1, <2>2
<1>6. ASSUME NEW k \in 1..n PROVE k <= Len(o)
  <2>1. PICK i \in 1..Len(s) : s[i].t \in OfferTypes /\ s[i].id = k
    BY DEF OfferedBy
  <2>2. PICK j \in 1..Len(o) : o[j] = s[i]
    BY <1>2, <2>1
  <2>3. j = k
    BY <1>3, <2>1, <2>2
  <2> QED BY <1>4, <2>3
<1>7. Len(o) <= n
  BY <1>4, <1>5
<1>8. n <= Len(o)
  BY <1>4, <1>6
<1> QED
  BY <1>4, <1>7, <1>8 DEF o

LEMMA KnownNone ==
  ASSUME NEW s, NEW n, NoneOf(s, Sayings)
  PROVE  OffersKnown(s, n)
BY DEF NoneOf, OffersKnown, Has, Sayings, OfferTypes

LEMMA OfferedMore ==
  ASSUME NEW T, NEW s \in Seq(T), NEW u \in Seq(T), NEW n, OfferedBy(s, Len(s), n)
  PROVE  OfferedBy(s \o u, Len(s \o u), n)
<1> DEFINE w == s \o u
<1>1. Len(s) \in Nat /\ Len(u) \in Nat /\ Len(w) = Len(s) + Len(u)
      /\ \A i \in 1..Len(s) : w[i] = s[i]
  BY ConcatAt
<1> HIDE DEF w
<1>2. \A i \in 1..Len(s) : i \in 1..Len(w) /\ w[i] = s[i]
  BY <1>1
<1>3. OfferedBy(w, Len(w), n)
  BY <1>2 DEF OfferedBy
<1> QED
  BY <1>3 DEF w

\* What was known of a text is known of its beginning, and stays known.
LEMMA KnownPrefix ==
  ASSUME NEW T, NEW s \in Seq(T), NEW u \in Seq(T), NEW n, OffersKnown(s \o u, n)
  PROVE  OffersKnown(s, n)
<1> DEFINE w == s \o u
<1>1. Len(s) \in Nat /\ Len(u) \in Nat /\ Len(w) = Len(s) + Len(u)
      /\ \A i \in 1..Len(s) : w[i] = s[i]
  BY ConcatAt
<1>2. Has(s, "FQ") => Has(w, "FQ")
  BY HasConcat
<1>3. OffersKnown(w, n)
  OBVIOUS
<1> HIDE DEF w
<1>4. \A p \in 1..Len(s) : p \in 1..Len(w) /\ w[p] = s[p] /\ \A i \in 1..p : w[i] = s[i]
  BY <1>1
<1>5. ASSUME NEW p \in 1..Len(s)
      PROVE  /\ s[p].t = "F>" => OfferedBy(s, p, n)
             /\ s[p].t \in OfferTypes => s[p].id <= n
  <2>1. /\ w[p].t = "F>" => OfferedBy(w, p, n)
        /\ w[p].t \in OfferTypes => w[p].id <= n
    BY <1>3, <1>4 DEF OffersKnown
  <2>2. OfferedBy(w, p, n) => OfferedBy(s, p, n)
    BY <1>4 DEF OfferedBy
  <2> QED BY <1>4, <2>1, <2>2
<1> QED
  BY <1>2, <1>3, <1>5 DEF OffersKnown

LEMMA KnownMore ==
  ASSUME NEW T, NEW s \in Seq(T), NEW u \in Seq(T), NEW n, OffersKnown(s, n),
         NoneOf(u, Sayings)
  PROVE  OffersKnown(s \o u, n)
<1> DEFINE w == s \o u
<1>1. Len(s) \in Nat /\ Len(u) \in Nat /\ Len(w) = Len(s) + Len(u)
      /\ (\A i \in 1..Len(s) : w[i] = s[i]) /\ \A i \in 1..Len(u) : w[Len(s) + i] = u[i]
  BY ConcatAt
<1>2. Has(w, "FQ") => Has(s, "FQ")
  <2>1. ~Has(u, "FQ")
    BY DEF NoneOf, Has, Sayings
  <2> QED BY <2>1, HasConcat
<1> HIDE DEF w
<1>3. ASSUME NEW p \in 1..Len(w)
      PROVE  /\ w[p].t = "F>" => OfferedBy(w, p, n)
             /\ w[p].t \in OfferTypes => w[p].id <= n
  <2>1. CASE p \in 1..Len(s)
    <3>1. \A i \in 1..p : i \in 1..Len(s) /\ w[i] = s[i]
      BY <1>1, <2>1
    <3>2. p \in 1..p /\ OfferedBy(s, p, n) => OfferedBy(w, p, n)
      BY <3>1 DEF OfferedBy
    <3>3. p \in 1..p
      BY <1>1, <2>1
    <3> QED BY <2>1, <3>1, <3>2, <3>3 DEF OffersKnown
  <2>2. CASE p \notin 1..Len(s)
    <3> DEFINE j == p - Len(s)
    <3>1. j \in 1..Len(u) /\ p = Len(s) + j
      BY <1>1, <2>2
    <3> HIDE DEF j
    <3>2. w[p] = u[j] /\ u[j].t \notin Sayings
      BY <1>1, <3>1 DEF NoneOf
    <3> QED BY <3>2 DEF Sayings, OfferTypes
  <2> QED BY <2>1, <2>2
<1> QED
  BY <1>2, <1>3 DEF OffersKnown, w

LEMMA KnownOver ==
  ASSUME NEW s \in Seq(Printed), NoneOf(s, Sayings)
  PROVE  OffersKnown(s \o <<Tok("FQ")>>, 0)
<1> DEFINE u == <<Tok("FQ")>>
<1>1. u \in Seq(Printed)
  <2>1. Tok("FQ") \in Printed
    BY PlainTok, QuietIs DEF TokTypes, Numbered
  <2> QED BY <2>1
<1>2. NoneOf(u, {"FB", "FC", "F>"})
  BY DEF NoneOf, Tok
<1> HIDE DEF u
<1>3. NoneOf(s, {"FB", "FC", "F>"})
  BY DEF NoneOf, Sayings
<1>4. NoneOf(s \o u, {"FB", "FC", "F>"})
  BY <1>1, <1>2, <1>3, NoneConcat
<1> QED
  BY <1>4 DEF OffersKnown, NoneOf, OfferTypes, u

LEMMA KnownOffer ==
  ASSUME NEW s \in Seq(Printed), NoneOf(s, Sayings),
         NEW n \in 0..MaxMail, NEW tiers \in [1..n -> OfferTypes]
  PROVE  /\ OffersKnown(s \o Offer(tiers), n)
         /\ OfferedBy(s \o Offer(tiers), Len(s \o Offer(tiers)), n)
<1> DEFINE u == Offer(tiers)
           w == s \o u
           m == Len(s)
<1>1. u \in Seq(Printed) /\ n \in Nat
  BY QuietOffer, Widen, MailAssumption DEF OfferTypes
<1>2. /\ NoneOf(u, TokTypes \ {"FB", "FC", "F>", "eol"})
      /\ Len(u) = n + 2
      /\ \A i \in 1..n : u[i] = [t |-> tiers[i], id |-> i]
      /\ u[n + 1] = Tok("F>") /\ u[n + 2] = Tok("eol")
  BY OfferHas
<1> HIDE DEF u
<1>3. /\ m \in Nat /\ Len(w) = m + (n + 2)
      /\ \A i \in 1..m : w[i] = s[i]
      /\ \A i \in 1..(n + 2) : w[m + i] = u[i]
  <2>1. /\ m \in Nat /\ Len(w) = m + Len(u)
        /\ \A i \in 1..m : w[i] = s[i]
        /\ \A i \in 1..Len(u) : w[m + i] = u[i]
    BY <1>1, ConcatAt
  <2> HIDE DEF w, m
  <2> QED BY <1>2, <2>1
<1>4. ~Has(w, "FQ")
  <2>1. NoneOf(u, {"FQ"}) /\ NoneOf(s, {"FQ"})
    BY <1>2 DEF NoneOf, Sayings, TokTypes
  <2>2. NoneOf(w, {"FQ"})
    BY <1>1, <2>1, NoneConcat
  <2> QED BY <2>2, HasIs
<1> HIDE DEF w
<1>5. \A k \in 1..n : /\ m + k \in 1..Len(w) /\ w[m + k].t \in OfferTypes
                      /\ w[m + k].id = k
  <2> SUFFICES ASSUME NEW k \in 1..n
               PROVE  /\ m + k \in 1..Len(w) /\ w[m + k].t \in OfferTypes
                      /\ w[m + k].id = k
    OBVIOUS
  <2>1. k \in 1..(n + 2) /\ m + k \in 1..Len(w) /\ w[m + k] = u[k]
    BY <1>1, <1>3
  <2>2. u[k] = [t |-> tiers[k], id |-> k] /\ tiers[k] \in OfferTypes
    BY <1>2
  <2>3. w[m + k].t = tiers[k] /\ w[m + k].id = k
    BY <2>1, <2>2
  <2> QED BY <2>1, <2>2, <2>3
<1>6. OfferedBy(w, Len(w), n)
  BY <1>5 DEF OfferedBy
<1>7. ASSUME NEW p \in 1..Len(w)
      PROVE  /\ w[p].t = "F>" => OfferedBy(w, p, n)
             /\ w[p].t \in OfferTypes => w[p].id <= n
  <2>1. CASE p \in 1..m
    <3>1. w[p].t \notin Sayings
      BY <1>3, <2>1 DEF NoneOf
    <3> QED BY <3>1 DEF Sayings, OfferTypes
  <2>2. CASE p \in (m + 1)..(m + n)
    <3> DEFINE k == p - m
    <3>1. k \in 1..n /\ p = m + k
      BY <1>1, <1>3, <2>2
    <3> HIDE DEF k
    <3>2. w[p].t \in OfferTypes /\ w[p].id = k /\ k <= n
      BY <1>1, <1>5, <3>1
    <3> QED BY <3>2 DEF OfferTypes
  <2>3. CASE p = m + (n + 1)
    <3>1. w[p] = Tok("F>")
      <4>1. n + 1 \in 1..(n + 2)
        BY <1>1
      <4>2. w[m + (n + 1)] = u[n + 1]
        BY <1>3, <4>1
      <4> QED BY <1>2, <2>3, <4>2
    <3>2. \A k \in 1..n : m + k \in 1..p
      BY <1>1, <1>3, <2>3
    <3>3. OfferedBy(w, p, n)
      BY <1>5, <3>2 DEF OfferedBy
    <3> QED BY <3>1, <3>3 DEF Tok, OfferTypes
  <2>4. CASE p = m + (n + 2)
    <3>1. w[p] = Tok("eol")
      <4>1. n + 2 \in 1..(n + 2)
        BY <1>1
      <4>2. w[m + (n + 2)] = u[n + 2]
        BY <1>3, <4>1
      <4> QED BY <1>2, <2>4, <4>2
    <3> QED BY <3>1 DEF Tok, OfferTypes
  <2>5. p \in 1..m \/ p \in (m + 1)..(m + n) \/ p = m + (n + 1) \/ p = m + (n + 2)
    <3>1. p \in 1..(m + (n + 2)) /\ m \in Nat
      BY <1>3
    <3> HIDE DEF m
    <3> QED BY <1>1, <3>1
  <2> QED BY <2>1, <2>2, <2>3, <2>4, <2>5
<1> QED
  BY <1>4, <1>6, <1>7 DEF OffersKnown, w, u

LEMMA MailStart == Init => MailParts
<1> SUFFICES ASSUME Init PROVE MailParts
  OBVIOUS
<1>1. /\ pc = "poll" /\ stage = "handshake" /\ gw = "greet"
      /\ heard = <<>> /\ line = <<>> /\ air = <<>>
  BY DEF Init
<1>2. Said = <<>>
  <2>1. <<>> \o <<>> = <<>>
    BY ConcatEmptySeq, EmptySeq
  <2> QED BY <1>1, <2>1 DEF Said
<1>3. OffersKnown(Said, Len(mail))
  BY <1>2, NoneEmpty, KnownNone
<1> QED
  BY <1>1, <1>3 DEF MailParts, MailTexts, Asked, GoneIsSaid, OffersSaid, MessagesSaid, Heeded,
    MailReturned, Polling

\* The steps that say nothing and leave the stage to go on.
LEMMA MailSame ==
  ASSUME MailTexts, Said' = Said, UNCHANGED <<method, mail, stage, gw, up>>, Polling
  PROVE  MailTexts'
<1> SUFFICES ASSUME method = "check" PROVE (Asked /\ GoneIsSaid /\ OffersSaid /\ MessagesSaid)'
  BY DEF MailTexts
<1>1. Asked /\ GoneIsSaid /\ OffersSaid /\ MessagesSaid
  BY DEF MailTexts
<1>2. Asked'
  BY <1>1 DEF Asked
<1>3. GoneIsSaid'
  BY <1>1 DEF GoneIsSaid
<1>4. OffersSaid'
  BY <1>1 DEF OffersSaid
<1>5. MessagesSaid'
  BY <1>1 DEF MessagesSaid
<1> QED
  BY <1>2, <1>3, <1>4, <1>5

LEMMA MailGreet ==
  ASSUME BaseInv, TurnInv, TextMeets, MailTexts, Greet
  PROVE  MailTexts'
<1>0. UNCHANGED <<method, mail, stage, up, pc>> /\ gw = "greet" /\ gw' = "login"
  BY DEF Greet, GatewaySays, sessionVars, driverVars
<1> SUFFICES ASSUME method = "check", Polling
             PROVE  (Asked /\ GoneIsSaid /\ OffersSaid /\ MessagesSaid)'
  BY <1>0 DEF MailTexts, Polling
<1>1. Asked /\ NoneOf(Said, Sayings)
  BY <1>0 DEF MailTexts, TextMeets, Unoffered
<1>2. PICK text \in Seq(Quiet) : /\ GatewaySays(text, "login")
                                 /\ NoneOf(text, TokTypes \ {"challenge", "prompt"})
  BY GatewayTexts
<1>3. Said' = Said \o text
  BY <1>2, SaidMore
<1>4. OffersKnown(Said', Len(mail))
  <2>1. Said \in Seq(Printed) /\ text \in Seq(Printed)
    BY SaidTyped, Widen
  <2>2. NoneOf(text, Sayings)
    BY <1>2 DEF NoneOf, TokTypes, Sayings
  <2>3. NoneOf(Said', Sayings)
    BY <1>1, <1>3, <2>1, <2>2, NoneConcat
  <2> QED BY <2>3, KnownNone
<1> QED
  BY <1>0, <1>1, <1>4 DEF Asked, GoneIsSaid, OffersSaid, MessagesSaid

LEMMA MailTakeLogin ==
  ASSUME BaseInv, TurnInv, TextMeets, MailTexts, TakeLogin
  PROVE  MailTexts'
<1>0. UNCHANGED <<method, mail, stage, pc>> /\ gw = "login" /\ stage # "handshake"
  BY LoginTaken DEF sessionVars, driverVars
<1> SUFFICES ASSUME method = "check", Polling
             PROVE  (Asked /\ GoneIsSaid /\ OffersSaid /\ MessagesSaid)'
  BY <1>0 DEF MailTexts, Polling
<1>1. NoneOf(Said, Sayings) /\ stage = "proposals"
  BY <1>0 DEF MailTexts, Asked, TextMeets, Unoffered, TurnInv, InTurn
<1>2. Said \in Seq(Printed) /\ outbox = 0 /\ mail \in [1..Len(mail) -> OfferTypes]
      /\ Len(mail) \in 0..MaxMail
  BY SaidTyped DEF BaseInv, Typed, CallTyped, OfferTypes
<1>3. CASE mail = <<>> /\ GatewaySays(<<Tok("FQ")>>, "over")
  <2>1. Said' = Said \o <<Tok("FQ")>> /\ gw' = "over"
    BY <1>3, GatewayTexts, SaidMore DEF GatewaySays
  <2>2. OffersKnown(Said', 0) /\ Len(mail) = 0
    BY <1>1, <1>2, <1>3, <2>1, KnownOver
  <2> QED BY <1>0, <1>1, <2>1, <2>2 DEF Asked, GoneIsSaid, OffersSaid, MessagesSaid
<1>4. CASE GatewaySays(Offer(mail), "offered")
  <2>1. Said' = Said \o Offer(mail) /\ gw' = "offered"
    BY <1>4, GatewayTexts, SaidMore DEF GatewaySays
  <2>2. OffersKnown(Said', Len(mail)) /\ OfferedBy(Said', Len(Said'), Len(mail))
    BY <1>1, <1>2, <2>1, KnownOffer
  <2> QED BY <1>0, <1>1, <2>1, <2>2 DEF Asked, GoneIsSaid, OffersSaid, MessagesSaid
<1> QED
  BY <1>2, <1>3, <1>4, LoginTaken

LEMMA MailTakeFS ==
  ASSUME BaseInv, TurnInv, TextMeets, MailTexts, TakeFS
  PROVE  MailTexts'
<1>0. /\ UNCHANGED <<method, mail, stage, pc>> /\ gw = "offered" /\ gw' = "over"
      /\ up # <<>> /\ Head(up).t = "FS" /\ GatewaySays(Messages(Len(mail)), "over")
  BY DEF TakeFS, Takes, GatewaySays, sessionVars, driverVars
<1> SUFFICES ASSUME method = "check", Polling
             PROVE  (Asked /\ GoneIsSaid /\ OffersSaid /\ MessagesSaid)'
  BY <1>0 DEF MailTexts, Polling
<1>1. stage \notin Before
  <2>1. up[1].t = "FS" /\ 1 \in 1..Len(up)
    BY <1>0 DEF BaseInv, Typed, TextTyped
  <2> QED BY <1>0, <2>1 DEF TurnInv, InTurn, UnitsInTurn, Before
<1>2. Said' = Said \o Messages(Len(mail))
  BY <1>0, GatewayTexts, SaidMore
<1>3. Said \in Seq(Printed) /\ NoneOf(Said, BlockTypes)
  BY <1>0, SaidTyped DEF TextMeets, Undelivered
<1> QED
  BY <1>0, <1>1, <1>2, <1>3 DEF Asked, GoneIsSaid, OffersSaid, MessagesSaid, Before

LEMMA MailHangUp ==
  ASSUME BaseInv, TurnInv, MailTexts, HangUp
  PROVE  MailTexts'
<1>0. UNCHANGED <<method, mail, stage, up, pc>> /\ gw' = "gone"
  BY DEF HangUp, sessionVars, driverVars
<1> SUFFICES ASSUME method = "check", Polling
             PROVE  (Asked /\ GoneIsSaid /\ OffersSaid /\ MessagesSaid)'
  BY <1>0 DEF MailTexts, Polling
<1>1. PICK a, b \in Seq(Printed) : Said = a \o b /\ Said' = a \o HungUp
  BY SaidCut
<1>2. HungUp \in Seq(Printed) /\ Has(HungUp, "banner") /\ NoneOf(HungUp, Sayings)
  BY AiredHungUp, Widen, HungUpHas DEF NoneOf, TokTypes, Sayings
<1>3. Has(Said', "banner")
  BY <1>1, <1>2, HasConcat
<1>4. stage \in Before => OffersKnown(Said', Len(mail))
  <2> SUFFICES ASSUME stage \in Before PROVE OffersKnown(Said', Len(mail))
    OBVIOUS
  <2>1. OffersKnown(a \o b, Len(mail))
    BY <1>1 DEF MailTexts, OffersSaid
  <2>2. OffersKnown(a, Len(mail))
    BY <2>1, KnownPrefix
  <2>3. OffersKnown(a \o HungUp, Len(mail))
    BY <1>2, <2>2, KnownMore
  <2> QED BY <1>1, <2>3
<1> QED
  BY <1>0, <1>3, <1>4 DEF Asked, GoneIsSaid, OffersSaid, MessagesSaid

LEMMA MailGateway ==
  ASSUME BaseInv, TurnInv, TextMeets, MailTexts, Gateway
  PROVE  MailTexts'
<1>1. CASE TakeBlock \/ Reciprocate
  <2>1. gw = "receive" /\ method' = method
    BY <1>1 DEF TakeBlock, Reciprocate, GatewaySays, sessionVars
  <2>2. method # "check"
    BY <2>1 DEF TurnInv, InTurn
  <2> QED BY <2>1, <2>2 DEF MailTexts
<1> QED
  BY <1>1, MailGreet, MailTakeLogin, MailTakeFS, MailHangUp DEF Gateway

\* What has arrived and was not heard is there in the next stage.
LEMMA HasAtNextStage ==
  ASSUME BaseInv, NEW unit \in Units, Send(unit), NEW s, NextStage(s), air' = air,
         NEW x, Has(Said, x), ~Has(heard, x)
  PROVE  Has(Said', x)
<1>1. PICK e \in Seq(Printed) :
        /\ e = Echoed(unit) \/ e = Echoed(unit) \o BadCommand
        /\ Said' = (line \o e) \o air
        /\ line \o e \in Seq(Printed)
  BY SaidAtNextStage
<1>2. /\ line \in Seq(Printed) /\ air \in Seq(Printed) /\ heard \in Seq(Printed)
      /\ line \o air \in Seq(Printed) /\ Said = heard \o (line \o air)
  BY SaidTyped
<1>3. Has(line \o air, x)
  BY <1>2, HasConcat
<1>4. Has(line, x) \/ Has(air, x)
  BY <1>2, <1>3, HasConcat
<1>5. Has(line, x) => Has(line \o e, x)
  BY <1>1, <1>2, HasConcat
<1>6. Has(line \o e, x) \/ Has(air, x) => Has((line \o e) \o air, x)
  BY <1>1, <1>2, HasConcat
<1> QED
  BY <1>1, <1>4, <1>5, <1>6

LEMMA MailLogin ==
  ASSUME BaseInv, TurnInv, TextMeets, MailTexts, Login
  PROVE  MailTexts'
<1> SUFFICES ASSUME method = "check"
             PROVE  (Asked /\ GoneIsSaid /\ OffersSaid /\ MessagesSaid)'
  BY DEF MailTexts, Login, sessionVars
<1> DEFINE unit == [t |-> "login", pr |-> Has(heard, "challenge"), n |-> outbox]
<1>1. /\ Send(unit) /\ stage = "handshake" /\ pc = "act" /\ NextStage("proposals") /\ air' = air
      /\ outbox = 0 /\ ~Has(heard, "banner") /\ stage' = "proposals" /\ UNCHANGED <<mail, gw>>
  BY DEF Login, Acting, Hung, NextStage, BaseInv, Typed, CallTyped, sessionVars, gatewayVars
<1>2. unit \in Units
  <2>1. Has(heard, "challenge") \in BOOLEAN
    BY Zenon DEF Has
  <2> QED BY <1>1, <2>1, MailAssumption DEF Units
<1> HIDE DEF unit
<1>3. gw \in {"greet", "login", "gone"} /\ (~link => gw = "gone")
  BY <1>1 DEF TurnInv, InTurn, LinkInTurn
<1>4. link => up' # <<>>
  BY <1>1 DEF Send, BaseInv, Typed, TextTyped
<1>5. gw = "gone" => Has(Said', "banner")
  <2>1. gw = "gone" => Has(Said, "banner")
    BY <1>1 DEF MailTexts, GoneIsSaid, Polling
  <2> QED BY <1>1, <1>2, <2>1, HasAtNextStage
<1>6. OffersKnown(Said', Len(mail))
  BY LoginText, KnownNone
<1> QED
  BY <1>1, <1>3, <1>4, <1>5, <1>6 DEF Asked, GoneIsSaid, OffersSaid, MessagesSaid

\* The proposals the driver accepts, unless a stage was cut short, are all there are.
LEMMA OffersAccepted ==
  ASSUME BaseInv, TurnInv, TextMeets, MailTexts, AcceptAll, method = "check"
  PROVE  /\ gw \in {"offered", "gone"}
         /\ OfferedBy(heard, Len(heard), Len(mail)) => Len(ParseProposals(heard)) = Len(mail)
<1> DEFINE o == Only(heard, OfferTypes)
           ps == ParseProposals(heard)
           rest == line \o air
<1>1. stage = "proposals" /\ pc = "act" /\ ps # <<>>
  BY DEF AcceptAll, Acting
<1>2. heard \in Seq(Printed) /\ rest \in Seq(Printed) /\ Said = heard \o rest
      /\ Len(mail) \in Nat
  BY SaidTyped, MailAssumption DEF BaseInv, Typed, CallTyped
<1>3. Len(ps) = Len(o) /\ ps \in Seq(Proposals) /\ o \in Seq(Printed)
  BY <1>2, ProposalsTyped, OnlyType DEF OfferTypes
<1>4. OffersKnown(heard, Len(mail))
  <2>1. OffersKnown(Said, Len(mail))
    BY <1>1 DEF MailTexts, OffersSaid, Polling, Before
  <2> HIDE DEF rest
  <2> QED BY <1>2, <2>1, KnownPrefix
<1>5. PICK i \in 1..Len(heard) : heard[i] \in Printed /\ heard[i].t \in OfferTypes
  <2>1. \A k \in 1..Len(o) : \E i \in 1..Len(heard) : heard[i] = o[k] /\ heard[i].t \in OfferTypes
    BY <1>2, OnlyOccurs
  <2>2. 1 \in 1..Len(o)
    <3> HIDE DEF ps, o
    <3> QED BY <1>1, <1>3
  <2> HIDE DEF o
  <2>3. PICK i \in 1..Len(heard) : heard[i].t \in OfferTypes
    BY <2>1, <2>2
  <2> QED BY <1>2, <2>3
<1>6. Len(mail) # 0
  <2>1. heard[i].id <= Len(mail)
    BY <1>4, <1>5 DEF OffersKnown
  <2>2. heard[i].id \in 1..MaxMail
    BY <1>5, MailAssumption DEF Printed, Tokens, Numbered, OfferTypes
  <2> QED BY <1>2, <2>1, <2>2, MailAssumption
<1>7. gw \notin {"greet", "login"}
  <2>1. ~NoneOf(heard, Sayings)
    BY <1>5 DEF NoneOf, Sayings, OfferTypes
  <2> QED BY <1>1, <2>1, HeardInOrder DEF TextMeets, Unoffered, Polling
<1>8. gw # "over" /\ gw # "receive"
  BY <1>1, <1>6 DEF MailTexts, Asked, Polling, TurnInv, InTurn
<1>9. Ordered(heard, OfferTypes)
  BY <1>1, HeardInOrder DEF TextMeets, InOrder, Polling, Before
<1>10. OfferedBy(heard, Len(heard), Len(mail)) => Len(o) = Len(mail)
  BY <1>2, <1>4, <1>9, OffersCounted
<1> HIDE DEF o, ps
<1> QED
  BY <1>3, <1>7, <1>8, <1>10 DEF ps, BaseInv, Typed, GatewayTyped

LEMMA MailAcceptAll ==
  ASSUME BaseInv, TurnInv, TextMeets, MailTexts, AcceptAll
  PROVE  MailTexts'
<1> SUFFICES ASSUME method = "check"
             PROVE  (Asked /\ GoneIsSaid /\ OffersSaid /\ MessagesSaid)'
  BY DEF MailTexts, AcceptAll, sessionVars
<1> DEFINE unit == [t |-> "FS", n |-> Len(ParseProposals(heard)), code |-> "+"]
<1>1. /\ Send(unit) /\ stage = "proposals" /\ pc = "act" /\ NextStage("messages")
      /\ air' = air /\ gw' = gw /\ ~Has(heard, "banner") /\ stage' = "messages"
  BY DEF AcceptAll, Acting, Hung, NextStage, gatewayVars
<1>2. unit \in Units
  <2>1. Len(ParseProposals(heard)) \in Nat
    <3>1. ParseProposals(heard) \in Seq(Proposals)
      BY ProposalsTyped DEF BaseInv, Typed, TextTyped
    <3> QED BY <3>1
  <2> QED BY <2>1 DEF Units
<1> HIDE DEF unit
<1>3. gw \in {"offered", "gone"}
  BY OffersAccepted
<1>4. link => up' # <<>>
  BY <1>1 DEF Send, BaseInv, Typed, TextTyped
<1>5. ~link => gw = "gone"
  BY DEF TurnInv, LinkInTurn
<1>6. gw = "gone" => Has(Said', "banner")
  <2>1. gw = "gone" => Has(Said, "banner")
    BY <1>1 DEF MailTexts, GoneIsSaid, Polling
  <2> QED BY <1>1, <1>2, <2>1, HasAtNextStage
<1> QED
  BY <1>1, <1>3, <1>4, <1>5, <1>6 DEF Asked, GoneIsSaid, OffersSaid, MessagesSaid, Before

\* The driver has waited for the end of what the gateway had to say, and has heard it.
LEMMA HeardAll ==
  ASSUME BaseInv, TurnInv, MailTexts, method = "check", Polling, AllArrived, ~Hung,
         stage # "handshake"
  PROVE  heard = Said /\ gw \in {"offered", "over"} /\ (gw = "offered" => stage = "proposals")
<1>1. line = <<>> /\ air = <<>> /\ up = <<>> /\ gw \notin {"greet", "receive"}
  BY DEF AllArrived
<1>2. heard = Said
  <2>1. heard \in Seq(Printed)
    BY SaidTyped
  <2>2. heard \o <<>> = heard
    BY <2>1, ConcatEmptySeq
  <2> QED BY <1>1, <2>2 DEF Said
<1>3. gw # "gone"
  BY <1>2 DEF MailTexts, GoneIsSaid, Hung
<1>4. gw # "login" /\ (gw = "offered" => stage # "messages")
  BY <1>1 DEF MailTexts, Asked
<1> QED
  BY <1>1, <1>2, <1>3, <1>4 DEF TurnInv, InTurn, BaseInv, Typed, GatewayTyped

\* With all messages in it, a text is read to the last of them.
LEMMA BlocksOfAll ==
  ASSUME proposals \in Seq(Proposals), Len(proposals) = Len(mail), Len(mail) \in 0..MaxMail,
         NEW pre \in Seq(Printed), NoneOf(pre, BlockTypes), NEW s,
         s = pre \o Messages(Len(mail)),
         IsB2 => s # <<>> /\ s[1].t = "head"
  PROVE  Len(Blocks(s)) = Len(proposals)
<1> DEFINE n == Len(mail)
           m == Messages(n)
<1>1. n \in Nat /\ m \in Seq(Printed) /\ s \in Seq(Printed) /\ s = pre \o m
  <2>1. m \in Seq(Printed)
    BY QuietMessages, Widen
  <2>2. pre \o m \in Seq(Printed)
    BY <2>1, ConcatProperties
  <2> QED BY <2>1, <2>2, MailAssumption
<1>2. CASE IsB2
  <2>1. pre = <<>>
    <3> SUFFICES ASSUME pre # <<>> PROVE FALSE
      OBVIOUS
    <3>1. 1 \in 1..Len(pre)
      OBVIOUS
    <3>2. s[1] = pre[1]
      <4>1. \A i \in 1..Len(pre) : (pre \o m)[i] = pre[i]
        BY <1>1, ConcatAt
      <4> QED BY <1>1, <3>1, <4>1
    <3>3. pre[1].t # "head"
      BY <3>1 DEF NoneOf, BlockTypes
    <3> QED BY <1>2, <3>2, <3>3
  <2>2. s = m
    BY <1>1, <2>1, ConcatEmptySeq
  <2> DEFINE Whole(k) == \A i \in 1..k : /\ 2 * i <= Len(s)
                                         /\ s[2 * i - 1].t = "head" /\ s[2 * i].t = "tail"
             ks == {k \in 0..n : Whole(k)}
             most == Max(ks)
  <2>3. Whole(n)
    <3> SUFFICES ASSUME NEW i \in 1..n
                 PROVE  /\ 2 * i <= Len(s)
                        /\ s[2 * i - 1].t = "head" /\ s[2 * i].t = "tail"
      OBVIOUS
    <3>1. /\ Len(m) = 2 * n /\ 2 * i \in 1..(2 * n)
          /\ m[2 * i - 1] = [t |-> "head", id |-> i]
          /\ m[2 * i] = [t |-> "tail", id |-> i]
      BY MessagesAre
    <3> HIDE DEF m
    <3> QED BY <1>1, <2>2, <3>1
  <2>4. n \in ks
    BY <1>1, <2>3
  <2>5. most \in 0..n /\ most >= n
    <3>1. ks \in SUBSET (0..n)
      OBVIOUS
    <3> HIDE DEF ks
    <3>2. most \in ks /\ \A y \in ks : most >= y
      BY <1>1, <2>4, <3>1, MaxMember
    <3> QED BY <2>4, <3>1, <3>2
  <2>6. most = n
    <3> HIDE DEF most
    <3> QED BY <1>1, <2>5
  <2>7. B2Blocks(s, n) = [i \in 1..most |-> [title |-> s[2 * i - 1], id |-> s[2 * i].id]]
    BY DEF B2Blocks
  <2> HIDE DEF most
  <2>8. Blocks(s) = B2Blocks(s, n)
    BY <1>2 DEF Blocks
  <2>9. Len([i \in 1..n |-> [title |-> s[2 * i - 1], id |-> s[2 * i].id]]) = n
    BY <1>1
  <2> QED BY <2>6, <2>7, <2>8, <2>9
<1>3. CASE ~IsB2
  <2>1. Len(Only(s, {"tail"})) = n
    <3>1. Only(pre \o m, {"tail"}) = Only(pre, {"tail"}) \o Only(m, {"tail"})
      BY <1>1, OnlyConcat
    <3>2. NoneOf(pre, {"tail"})
      BY DEF NoneOf, BlockTypes
    <3>3. Only(pre, {"tail"}) = <<>>
      BY <3>2, NoneOnly
    <3>4. Only(m, {"tail"}) \in Seq(Printed) /\ Len(Only(m, {"tail"})) = n
      BY <1>1, OnlyType, MessagesTails
    <3> HIDE DEF m, n
    <3> QED BY <1>1, <3>1, <3>3, <3>4, ConcatEmptySeq
  <2>2. PICK k \in 0..n :
          /\ k = IF Len(Only(s, {"tail"})) <= n THEN Len(Only(s, {"tail"})) ELSE n
          /\ Len(SplitMessages(s, n)) = k
    BY <1>1, SplitMessagesAre
  <2>3. Blocks(s) = SplitMessages(s, n)
    BY <1>3 DEF Blocks
  <2> QED BY <1>1, <2>1, <2>2, <2>3
<1> QED
  BY <1>2, <1>3

\* What is heard grows with the slices.
LEMMA HeedSlice ==
  ASSUME BaseInv, TextMeets, MailTexts, Heeded, Slice
  PROVE  Heeded'
<1>1. /\ pc = "poll" /\ heard' = heard \o line
      /\ UNCHANGED <<method, mail, stage, proposals, late, gw>>
      /\ pc' = IF Done(heard') THEN "act" ELSE "poll"
  BY DEF Slice, sessionVars, gatewayVars
<1> SUFFICES ASSUME method = "check", ~late
             PROVE  /\ stage = "messages" => Len(proposals) = Len(mail)
                    /\ pc' = "act" /\ stage = "proposals" /\ ~Has(heard', "banner") =>
                         OfferedBy(heard', Len(heard'), Len(mail))
                    /\ pc' = "act" /\ stage = "messages" =>
                         Len(Blocks(heard')) = Len(proposals)
  <2>2. Len(Blocks(heard))' = Len(Blocks(heard'))
    BY <1>1 DEF Blocks, IsB2
  <2> QED BY <1>1, <2>2 DEF Heeded, Hung
<1>2. stage = "messages" => Len(proposals) = Len(mail)
  BY <1>1 DEF Heeded, Polling
<1>3. /\ heard' \in Seq(Printed) /\ air \in Seq(Printed) /\ Said = heard' \o air
      /\ Len(mail) \in Nat /\ proposals \in Seq(Proposals)
  <2>1. heard' \in Seq(Printed) /\ air \in Seq(Printed)
    BY <1>1, SaidTyped, ConcatProperties
  <2>2. Said = heard' \o air
    BY <1>1 DEF Said
  <2> QED BY <2>1, <2>2, MailAssumption DEF BaseInv, Typed, CallTyped, DriverTyped
<1>4. ASSUME pc' = "act", stage = "proposals"
      PROVE  OfferedBy(heard', Len(heard'), Len(mail))
  <2>1. Has(heard', "F>") \/ Has(heard', "FQ")
    BY <1>1, <1>4 DEF Done, HasEndOfBlock
  <2>2. OffersKnown(Said, Len(mail))
    BY <1>1, <1>4 DEF MailTexts, OffersSaid, Polling, Before
  <2>3. OffersKnown(heard', Len(mail))
    BY <1>3, <2>2, KnownPrefix
  <2>4. CASE Has(heard', "FQ")
    BY <2>3, <2>4 DEF OffersKnown, OfferedBy
  <2>5. CASE Has(heard', "F>")
    <3>1. PICK p \in 1..Len(heard') : heard'[p].t = "F>"
      BY <2>5 DEF Has
    <3>2. OfferedBy(heard', p, Len(mail))
      BY <2>3, <3>1 DEF OffersKnown
    <3>3. \A i \in 1..p : i \in 1..Len(heard')
      BY <1>3, <3>1
    <3> QED BY <3>2, <3>3 DEF OfferedBy
  <2> QED BY <2>1, <2>4, <2>5
<1>5. ASSUME pc' = "act", stage = "messages"
      PROVE  Len(Blocks(heard')) = Len(proposals)
  <2>1. Len(Blocks(heard')) >= Len(proposals)
    <3>1. Done(heard')
      BY <1>1, <1>5
    <3>2. stage # "handshake" /\ stage # "proposals"
      BY <1>5
    <3> QED BY <1>5, <3>1, <3>2 DEF Done
  <2>2. /\ Blocks(heard') \in Seq([title : Tokens, id : 1..MaxMail])
        /\ Len(Blocks(heard')) <= Len(proposals)
    BY <1>3, BlocksAre
  <2>3. Len(Blocks(heard')) \in Nat /\ Len(proposals) \in Nat
    BY <1>3, <2>2
  <2> QED BY <2>1, <2>2, <2>3
<1> QED
  BY <1>2, <1>4, <1>5

\* A stage that times out and is not late has heard all there is.
LEMMA HeedTimeout ==
  ASSUME BaseInv, TurnInv, TextMeets, MailTexts, Heeded, PollTimesOut
  PROVE  Heeded'
<1>1. /\ pc = "poll" /\ pc' = "act" /\ (late' <=> late \/ ~AllArrived)
      /\ UNCHANGED <<method, mail, stage, proposals, heard, gw>>
  BY DEF PollTimesOut, sessionVars, gatewayVars
<1>2. Blocks(heard)' = Blocks(heard) /\ (Readable' <=> Readable) /\ (Hung' <=> Hung)
  BY <1>1 DEF Blocks, IsB2, Readable, Hung
<1> SUFFICES ASSUME method = "check", ~late, AllArrived
             PROVE  /\ stage = "messages" => Len(proposals) = Len(mail)
                    /\ stage = "proposals" /\ ~Hung => OfferedBy(heard, Len(heard), Len(mail))
                    /\ stage = "messages" /\ ~Hung /\ Readable =>
                         Len(Blocks(heard)) = Len(proposals)
  BY <1>1, <1>2 DEF Heeded
<1>3. stage = "messages" => Len(proposals) = Len(mail)
  BY <1>1 DEF Heeded, Polling
<1>4. ASSUME stage = "proposals", ~Hung PROVE OfferedBy(heard, Len(heard), Len(mail))
  <2>1. heard = Said /\ gw \in {"offered", "over"}
    BY <1>1, <1>4, HeardAll DEF Polling
  <2>2. gw = "offered" => OfferedBy(Said, Len(Said), Len(mail))
    BY <1>1, <1>4 DEF MailTexts, OffersSaid, Polling, Before
  <2>3. gw = "over" => Len(mail) = 0
    BY <1>1, <1>4 DEF MailTexts, Asked, Polling
  <2>4. Len(mail) = 0 => OfferedBy(heard, Len(heard), Len(mail))
    BY DEF OfferedBy
  <2> QED BY <2>1, <2>2, <2>3, <2>4
<1>5. ASSUME stage = "messages", ~Hung, Readable PROVE Len(Blocks(heard)) = Len(proposals)
  <2>1. heard = Said /\ gw = "over"
    BY <1>1, <1>5, HeardAll DEF Polling
  <2>2. PICK pre \in Seq(Printed) : /\ NoneOf(pre, BlockTypes)
                                    /\ Said = pre \o Messages(Len(mail))
    BY <1>1, <1>5, <2>1 DEF MailTexts, MessagesSaid, Polling
  <2>3. IsB2 => heard # <<>> /\ heard[1].t = "head"
    BY <1>5 DEF Readable
  <2>4. proposals \in Seq(Proposals) /\ Len(mail) \in 0..MaxMail
    BY DEF BaseInv, Typed, DriverTyped, CallTyped
  <2> QED BY <1>3, <1>5, <2>1, <2>2, <2>3, <2>4, BlocksOfAll
<1> QED
  BY <1>3, <1>4, <1>5

LEMMA HeedSame ==
  ASSUME Heeded, UNCHANGED <<method, mail, stage, proposals, late, heard, pc>>
  PROVE  Heeded'
<1>1. Blocks(heard)' = Blocks(heard) /\ (Readable' <=> Readable) /\ (Hung' <=> Hung)
  BY DEF Blocks, IsB2, Readable, Hung
<1> QED
  BY <1>1 DEF Heeded, Polling

LEMMA HeedAcceptAll ==
  ASSUME BaseInv, TurnInv, TextMeets, MailTexts, Heeded, AcceptAll
  PROVE  Heeded'
<1>1. /\ stage = "proposals" /\ pc = "act" /\ ~Hung /\ pc' = "poll" /\ stage' = "messages"
      /\ proposals' = ParseProposals(heard) /\ UNCHANGED <<method, mail, late>>
  BY DEF AcceptAll, Acting, NextStage, sessionVars
<1>2. method = "check" /\ ~late => OfferedBy(heard, Len(heard), Len(mail))
  BY <1>1 DEF Heeded, Polling
<1> QED
  BY <1>1, <1>2, OffersAccepted DEF Heeded

LEMMA ReturnSame ==
  ASSUME MailReturned, UNCHANGED <<method, mail, stage, heard, proposals, late, result>>,
         outcome' = outcome \/ outcome' # "returned",
         ~Polling \/ Polling'
  PROVE  MailReturned'
<1>1. Readable' <=> Readable
  BY DEF Readable, IsB2
<1>2. Ids(result') = Ids(result)
  OBVIOUS
<1> QED
  BY <1>1, <1>2 DEF MailReturned

\* No mail: the gateway said so, or all that it offers was waited for.
LEMMA ReturnNone ==
  ASSUME BaseInv, TurnInv, TextMeets, MailTexts, Heeded, NoMail
  PROVE  MailReturned'
<1> DEFINE o == Only(heard, OfferTypes)
           rest == line \o air
<1>1. /\ stage = "proposals" /\ pc = "act" /\ ~Hung /\ UNCHANGED <<method, mail, late>>
      /\ result' = <<>> /\ (Has(heard, "FQ") \/ ParseProposals(heard) = <<>>)
  BY DEF NoMail, Acting, Leave, sessionVars
<1> SUFFICES ASSUME method = "check", ~late
             PROVE  Ids(<<>>) = [i \in 1..Len(mail) |-> i]
  BY <1>1 DEF MailReturned
<1>2. heard \in Seq(Printed) /\ rest \in Seq(Printed) /\ Said = heard \o rest
      /\ Len(mail) \in Nat
  BY SaidTyped, MailAssumption DEF BaseInv, Typed, CallTyped
<1>3. OffersKnown(heard, Len(mail))
  <2>1. OffersKnown(Said, Len(mail))
    BY <1>1 DEF MailTexts, OffersSaid, Polling, Before
  <2> HIDE DEF rest
  <2> QED BY <1>2, <2>1, KnownPrefix
<1>4. Len(mail) = 0
  <2>1. CASE Has(heard, "FQ")
    BY <1>3, <2>1 DEF OffersKnown
  <2>2. CASE ParseProposals(heard) = <<>>
    <3>1. Len(o) = 0
      <4>1. Len(ParseProposals(heard)) = Len(o)
        BY <1>2, ProposalsTyped DEF OfferTypes
      <4> HIDE DEF o
      <4> QED BY <2>2, <4>1
    <3>2. Ordered(heard, OfferTypes)
      BY <1>1, HeardInOrder DEF TextMeets, InOrder, Polling, Before
    <3>3. OfferedBy(heard, Len(heard), Len(mail))
      BY <1>1 DEF Heeded, Polling
    <3>4. Len(o) = Len(mail)
      BY <1>2, <1>3, <3>2, <3>3, OffersCounted
    <3> QED BY <3>1, <3>4
  <2> QED BY <1>1, <2>1, <2>2
<1> QED
  BY <1>4 DEF Ids

\* All messages were proposed and accepted, and as many were read, in order.
LEMMA ReturnMessages ==
  ASSUME BaseInv, TurnInv, TextMeets, ResultMeets, Heeded, TakeMessages
  PROVE  MailReturned'
<1> DEFINE b == Blocks(heard)
           o == Only(heard, {"tail"})
           row(k) == [title |-> b[k].title, id |-> b[k].id, proposal |-> proposals[k].id]
<1>1. /\ stage = "messages" /\ pc = "act" /\ ~Hung /\ result' = [k \in 1..Len(b) |-> row(k)]
      /\ UNCHANGED <<method, mail, stage, heard, proposals, late>>
  BY DEF TakeMessages, Acting, Leave, sessionVars
<1>2. Readable' <=> Readable
  BY <1>1 DEF Readable, IsB2
<1> SUFFICES ASSUME method = "check", ~late, Readable
             PROVE  Ids(result') = [i \in 1..Len(mail) |-> i]
  BY <1>1, <1>2 DEF MailReturned
<1>3. Len(b) = Len(mail)
  BY <1>1 DEF Heeded, Polling
<1>4. heard \in Seq(Printed) /\ proposals \in Seq(Proposals) /\ Len(mail) \in Nat
  BY SaidTyped, MailAssumption DEF BaseInv, Typed, DriverTyped, CallTyped
<1>5. \A k \in 1..Len(b) : k \in 1..Len(o) /\ b[k].id = o[k].id
  BY <1>4, BlocksAre
<1>6. \A k \in 1..Len(o) : o[k].id = k
  <2>1. Ordered(heard, {"tail"})
    BY <1>1, HeardInOrder DEF TextMeets, InOrder, Polling
  <2> QED BY <2>1 DEF Ordered
<1> HIDE DEF b, o
<1>7. Len(result') = Len(mail) /\ \A k \in 1..Len(mail) : result'[k] = row(k)
  <2> HIDE DEF row
  <2> QED BY <1>1, <1>3, <1>4
<1>8. ASSUME NEW k \in 1..Len(mail) PROVE result'[k].id = k
  <2>1. row(k).id = b[k].id
    OBVIOUS
  <2>2. b[k].id = k
    BY <1>3, <1>5, <1>6
  <2> HIDE DEF row
  <2> QED BY <1>7, <2>1, <2>2
<1> HIDE DEF row
<1> QED
  BY <1>7, <1>8 DEF Ids

LEMMA MailKept ==
  ASSUME BaseInv, TurnInv, TextMeets, ResultMeets, MailParts, [Next]_vars
  PROVE  MailParts'
<1> USE DEF MailParts
<1>1. CASE Gateway
  <2>1. UNCHANGED <<sessionVars, driverVars>>
    BY <1>1 DEF Gateway, Greet, TakeLogin, TakeFS, TakeBlock, Reciprocate, HangUp, GatewaySays
  <2>2. UNCHANGED <<method, mail, stage, heard, proposals, late, result, outcome, pc>>
    BY <2>1 DEF sessionVars, driverVars
  <2>3. ~Polling \/ Polling'
    BY <2>2 DEF Polling
  <2> QED BY <1>1, <2>2, <2>3, MailGateway, HeedSame, ReturnSame
<1>2. CASE Arrive \/ UNCHANGED vars
  <2>1. UNCHANGED <<method, mail, stage, heard, proposals, late, result, outcome, pc, gw, up>>
    BY <1>2 DEF Arrive, vars, sessionVars, driverVars, gatewayVars
  <2>2. Said' = Said
    BY <1>2, SaidArrives DEF vars, Said, driverVars
  <2>3. ~Polling \/ Polling'
    BY <2>1 DEF Polling
  <2>4. MailTexts'
    BY <2>1, <2>2, <2>3, MailSame DEF MailTexts, Polling
  <2> QED BY <2>1, <2>3, <2>4, HeedSame, ReturnSame
<1>3. CASE Slice \/ PollTimesOut
  <2>1. UNCHANGED <<method, mail, stage, gw, up>> /\ Polling /\ Polling'
    BY <1>3 DEF Slice, PollTimesOut, sessionVars, gatewayVars, Polling
  <2>2. Said' = Said
    BY <1>3, SaidInSlices DEF PollTimesOut, Said
  <2>3. MailTexts'
    BY <2>1, <2>2, MailSame
  <2>4. Heeded'
    BY <1>3, HeedSlice, HeedTimeout
  <2> QED BY <2>1, <2>3, <2>4 DEF MailReturned
<1>4. CASE Login
  <2>1. pc' = "poll" /\ (method' = "check" => stage' = "proposals")
    BY <1>4 DEF Login, NextStage, sessionVars
  <2>2. Heeded' /\ MailReturned'
    BY <2>1 DEF Heeded, MailReturned, Polling
  <2> QED BY <1>4, <2>2, MailLogin
<1>5. CASE AcceptAll
  <2>1. pc' = "poll"
    BY <1>5 DEF AcceptAll, NextStage
  <2>2. MailReturned'
    BY <2>1 DEF MailReturned, Polling
  <2> QED BY <1>5, <2>2, MailAcceptAll, HeedAcceptAll
<1>6. CASE PollRaises \/ RaiseHungUp \/ MixedBatch \/ BadAnswer \/ DisconnectTimesOut
  <2>1. pc' \in {"ctrlC", "end"} /\ outcome' # "returned"
    BY <1>6 DEF PollRaises, RaiseHungUp, MixedBatch, BadAnswer, DisconnectTimesOut, Leave, AfterTry
  <2> QED BY <2>1 DEF MailTexts, Heeded, MailReturned, Polling
<1>7. CASE NoMail \/ TakeMessages
  <2>1. pc' \in {"ctrlC", "end"}
    BY <1>7 DEF NoMail, TakeMessages, Leave, AfterTry
  <2>2. MailReturned'
    BY <1>7, ReturnNone, ReturnMessages
  <2> QED BY <2>1, <2>2 DEF MailTexts, Heeded, Polling
<1>8. CASE GoodAnswer \/ Upload \/ Decline
  <2>1. method # "check" /\ method' = method
    BY <1>8 DEF GoodAnswer, Upload, Decline, Acting, TurnInv, InTurn, sessionVars
  <2> QED BY <2>1 DEF MailTexts, Heeded, MailReturned
<1>9. CASE CtrlC \/ Disconne \/ Disconnected
  <2>1. /\ UNCHANGED <<method, mail, stage, heard, proposals, late, result, outcome>>
        /\ ~Polling /\ ~Polling'
    BY <1>9 DEF CtrlC, Disconne, Disconnected, sessionVars, Polling
  <2>2. MailReturned'
    BY <2>1, ReturnSame
  <2> QED BY <2>1, <2>2 DEF MailTexts, Heeded
<1> QED
  BY <1>1, <1>2, <1>3, <1>4, <1>5, <1>6, <1>7, <1>8, <1>9 DEF Next, Driver

MailInv == MeetInv /\ MailParts

LEMMA MailAlways == Spec => []MailInv
<1>1. Init => MailInv
  BY BaseStart, TurnStart, MeetStart, MailStart DEF MailInv, MeetInv
<1>2. MailInv /\ [Next]_vars => MailInv'
  BY BaseKept, TurnKept, TextMeetsKept, ResultMeetsKept, MailKept DEF MailInv, MeetInv
<1> QED
  BY <1>1, <1>2, PTL DEF Spec

\* check_winlink_mail() returns every message the gateway had, in order, if no stage of the
\* call timed out before all it waited for had arrived and its blocks could be read: for
\* any number of messages, with and without an echo, cut in any slices.
THEOREM NothingIsLost == Spec => []NoMailIsLost
<1>1. MailInv => NoMailIsLost
  BY DEF MailInv, MailParts, MailReturned, NoMailIsLost, Returned, Polling
<1> QED
  BY <1>1, MailAlways, PTL
=============================================================================
