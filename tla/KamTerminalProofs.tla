-------------------------- MODULE KamTerminalProofs --------------------------
(***************************************************************************)
(* Theorems about KamTerminal, for any number of calls, of MONITOR packets *)
(* and of lines of the remote station.                                     *)
(***************************************************************************)
EXTENDS KamTerminal, SubsequenceProofs, SequenceTheorems, TLAPS

Units == [t : {"command", "CONNECT", "DISCONNE", "ctrlC", "text"}, id : Nat]

\* Tokens that are no marker of connect_station(), unless of its own CONNECT; and
\* that are none of disconnect_station().
Own == {x \in Tokens : x.t \in ConnectMarkers => x.id = calls}
Silent == {x \in Tokens : x.t \notin DisconnectMarkers}

\* Input that is a CONNECT of this call; that is Ctrl-C; that leaves a link.
Asking == {u \in Units : u.t = "CONNECT" /\ u.id = calls}
Stopping == {u \in Units : u.t = "ctrlC"}
Leaving == {u \in Units : u.t \in {"ctrlC", "DISCONNE"}}

-----------------------------------------------------------------------------
(***************************************************************************)
(* The invariant.                                                          *)
(***************************************************************************)
Typing ==
  /\ line \in Seq(Tokens) /\ heard \in Seq(Tokens) /\ job \in Seq(Tokens)
  /\ input \in Seq(Units)
  /\ calls \in Nat /\ caller \in Nat /\ packets \in Nat /\ texts \in Nat
  /\ link \in {"none", "calling", "up", "ending"}

\* From a quiet start on, the KAM-XL has nothing to say but of this CONNECT.
ConnectInv ==
  pc = "connect" /\ quiet =>
    /\ input \in Seq(Asking)
    /\ link # "none" => caller = calls
    /\ job \in Seq(Own) /\ line \in Seq(Own) /\ heard \in Seq(Own)

ReportInv == last.op = "connect" /\ quiet => last.text \in Seq(Own)

\* Nothing that could make a link is to be taken, and no marker is to be seen as long
\* as there is one.
LeaveInv ==
  /\ pc = "leave" /\ quiet => input \in Seq(Stopping) /\ job \in Seq(Silent)
  /\ pc = "disconne" /\ quiet =>
       /\ input \in Seq(Leaving)
       /\ link # "none" =>
            job \in Seq(Silent) /\ line \in Seq(Silent) /\ heard \in Seq(Silent)

TermInv == Typing /\ ConnectInv /\ ReportInv /\ LeaveInv

-----------------------------------------------------------------------------
(***************************************************************************)
(* Sequences over a set.                                                   *)
(***************************************************************************)
LEMMA Short ==
  ASSUME NEW S, NEW a \in S, NEW b \in S, NEW c \in S
  PROVE  /\ <<>> \in Seq(S) /\ <<a>> \in Seq(S) /\ <<a, b>> \in Seq(S)
         /\ <<a, b, c>> \in Seq(S)
OBVIOUS

LEMMA HeadTail ==
  ASSUME NEW S, NEW s \in Seq(S), s # <<>>
  PROVE  Head(s) \in S /\ Tail(s) \in Seq(S)
BY HeadTailProperties

LEMMA Wider ==
  ASSUME NEW S, NEW R, S \subseteq R, NEW s \in Seq(S)
  PROVE  s \in Seq(R)
OBVIOUS

LEMMA Parts ==
  ASSUME NEW S, NEW s \in Seq(S), NEW n \in 0..Len(s)
  PROVE  SubSeq(s, 1, n) \in Seq(S) /\ SubSeq(s, n + 1, Len(s)) \in Seq(S)
<1>1. Len(s) \in Nat
  BY LenProperties
<1>2. \A i \in 1..n : s[i] \in S
  BY <1>1, ElementOfSeq
<1>3. \A i \in (n + 1)..Len(s) : s[i] \in S
  BY <1>1, ElementOfSeq
<1> QED
  BY <1>1, <1>2, <1>3, SubSeqProperties

LEMMA NothingSeen ==
  ASSUME NEW s \in Seq(Silent)
  PROVE  ~Has(s, DisconnectMarkers)
<1>1. \A i \in 1..Len(s) : s[i] \in Silent
  BY ElementOfSeq
<1> QED
  BY <1>1 DEF Silent, Has

LEMMA Prints ==
  ASSUME NEW id \in Nat
  PROVE  /\ \A t \in TokTypes : Tok(t, id) \in Tokens
         /\ \A t \in TokTypes \ DisconnectMarkers : Tok(t, id) \in Silent
         /\ \A t \in TokTypes : t \notin ConnectMarkers \/ id = calls => Tok(t, id) \in Own
         /\ Prompt \in Tokens /\ Prompt \in Silent /\ Prompt \in Own
BY DEF Tokens, TokTypes, Tok, Silent, Own, Prompt, ConnectMarkers, DisconnectMarkers

LEMMA Terminal == Init => TermInv
<1> SUFFICES ASSUME Init PROVE TermInv
  OBVIOUS
<1>1. /\ line = <<>> /\ heard = <<>> /\ job = <<>> /\ input = <<>>
      /\ calls = 0 /\ caller = 0 /\ packets = 0 /\ texts = 0
      /\ link = "none" /\ pc = "idle" /\ last.op = "none"
  BY DEF Init, NoCall
<1> QED
  BY <1>1 DEF TermInv, Typing, ConnectInv, ReportInv, LeaveInv

-----------------------------------------------------------------------------
(***************************************************************************)
(* The KAM-XL's steps.                                                     *)
(***************************************************************************)
\* They leave the driver alone, so that these are the same before and after.
LEMMA DriverStays ==
  ASSUME UNCHANGED driverVars
  PROVE  /\ Own' = Own /\ Asking' = Asking /\ ReportInv' = ReportInv
         /\ pc' = pc /\ quiet' = quiet /\ calls' = calls /\ heard' = heard
BY DEF driverVars, Own, Asking, ReportInv

LEMMA TakeCommandStep == TermInv /\ TakeCommand => TermInv'
<1> SUFFICES ASSUME TermInv, TakeCommand PROVE TermInv'
  OBVIOUS
<1> USE DEF TermInv, Typing
<1> DEFINE unit == Head(input)
<1>1. /\ unit \in Units /\ unit.id \in Nat /\ unit.t # "ctrlC"
      /\ input' \in Seq(Units) /\ input' = Tail(input) /\ input # <<>>
  <2>1. unit.t # "ctrlC" /\ input' = Tail(input) /\ input # <<>>
    BY DEF TakeCommand
  <2>2. unit \in Units /\ Tail(input) \in Seq(Units)
    BY <2>1, HeadTail
  <2> QED
    BY <2>1, <2>2 DEF Units
<1>2. PICK reply \in Reply(unit) : job' = Echo(unit) \o reply
  BY DEF TakeCommand
<1>3. /\ line' = line /\ packets' = packets /\ texts' = texts
      /\ Own' = Own /\ Asking' = Asking /\ ReportInv' = ReportInv
      /\ pc' = pc /\ quiet' = quiet /\ calls' = calls /\ heard' = heard
  BY DriverStays DEF TakeCommand
<1>4. /\ unit.t = "CONNECT" /\ link = "none" => link' = "calling" /\ caller' = unit.id
      /\ unit.t # "CONNECT" \/ link # "none" =>
           /\ caller' = caller
           /\ link' = IF unit.t = "DISCONNE" /\ link # "none" THEN "ending" ELSE link
  BY DEF TakeCommand
<1> HIDE DEF unit
<1>5. /\ Echo(unit) \in Seq(Tokens) /\ Echo(unit) \in Seq(Own) /\ Echo(unit) \in Seq(Silent)
  BY <1>1, Short, Prints DEF Echo, TokTypes, ConnectMarkers, DisconnectMarkers
<1>6. job' \in Seq(Tokens)
  <2>1. \A t \in {"answer", "more", "EH?", "state", "can't"} : Tok(t, unit.id) \in Tokens
    BY <1>1, Prints DEF TokTypes
  <2>2. Prompt \in Tokens
    BY <1>1, Prints
  <2>3. unit.t \in {"command", "text", "CONNECT", "DISCONNE"}
    BY <1>1 DEF Units
  <2>4. \/ reply = <<Tok("answer", unit.id), Tok("more", unit.id), Prompt>>
        \/ \E t \in {"EH?", "state", "can't"} : reply = <<Tok(t, unit.id), Prompt>>
        \/ reply = <<Prompt>>
    <3>1. CASE unit.t = "command"
      BY <1>2, <3>1 DEF Reply
    <3>2. CASE unit.t = "text"
      BY <1>2, <3>2 DEF Reply
    <3>3. CASE unit.t = "CONNECT"
      BY <1>2, <3>3 DEF Reply
    <3>4. CASE unit.t = "DISCONNE"
      BY <1>2, <3>4 DEF Reply
    <3> QED
      BY <2>3, <3>1, <3>2, <3>3, <3>4
  <2>5. reply \in Seq(Tokens)
    BY <2>1, <2>2, <2>4, Short
  <2> QED
    BY <1>2, <1>5, <2>5, ConcatProperties
<1>7. Typing'
  BY <1>1, <1>3, <1>4, <1>6
<1>8. ConnectInv'
  <2> SUFFICES ASSUME pc = "connect", quiet
               PROVE  /\ input' \in Seq(Asking) /\ (link' # "none" => caller' = calls)
                      /\ job' \in Seq(Own) /\ line \in Seq(Own) /\ heard \in Seq(Own)
    BY <1>3 DEF ConnectInv
  <2>1. /\ unit \in Asking /\ input' \in Seq(Asking)
        /\ link # "none" => caller = calls
        /\ line \in Seq(Own) /\ heard \in Seq(Own)
    BY <1>1, HeadTail DEF ConnectInv, unit
  <2>2. unit.t = "CONNECT" /\ unit.id = calls
    BY <2>1 DEF Asking
  <2>3. reply = <<Prompt>> \/ reply = <<Tok("state", unit.id), Prompt>>
    BY <1>2, <2>2 DEF Reply
  <2>4. Prompt \in Own /\ Tok("state", unit.id) \in Own
    BY <1>1, Prints DEF TokTypes, ConnectMarkers
  <2>5. reply \in Seq(Own)
    BY <2>3, <2>4, Short
  <2>6. job' \in Seq(Own)
    BY <1>2, <1>5, <2>5, ConcatProperties
  <2> QED
    BY <1>4, <2>1, <2>2, <2>6
<1>9. LeaveInv'
  <2>1. ASSUME pc = "leave", quiet PROVE FALSE
    <3>1. unit \in Stopping
      BY <1>1, <2>1, HeadTail DEF LeaveInv, unit
    <3> QED
      BY <1>1, <3>1 DEF Stopping
  <2>2. ASSUME pc = "disconne", quiet
        PROVE  /\ input' \in Seq(Leaving)
               /\ link' # "none" =>
                    job' \in Seq(Silent) /\ line \in Seq(Silent) /\ heard \in Seq(Silent)
    <3>1. /\ unit \in Leaving /\ input' \in Seq(Leaving)
          /\ link # "none" => line \in Seq(Silent) /\ heard \in Seq(Silent)
      BY <1>1, <2>2, HeadTail DEF LeaveInv, unit
    <3>2. unit.t = "DISCONNE"
      BY <1>1, <3>1 DEF Leaving
    <3>3. link' # "none" => link # "none"
      BY <1>4, <3>2
    <3>4. link # "none" => reply = <<Prompt>>
      BY <1>2, <3>2 DEF Reply
    <3>5. <<Prompt>> \in Seq(Silent)
      BY <1>1, Prints, Short
    <3>6. link # "none" => job' \in Seq(Silent)
      BY <1>2, <1>5, <3>4, <3>5, ConcatProperties
    <3> QED
      BY <3>1, <3>3, <3>6
  <2> QED
    BY <1>3, <2>1, <2>2 DEF LeaveInv
<1> QED
  BY <1>3, <1>7, <1>8, <1>9

LEMMA TakeTextStep == TermInv /\ TakeText => TermInv'
<1> SUFFICES ASSUME TermInv, TakeText PROVE TermInv'
  OBVIOUS
<1> USE DEF TermInv, Typing
<1>1. /\ Head(input) \in Units /\ Head(input).id \in Nat
      /\ input' \in Seq(Units) /\ input' = Tail(input) /\ input # <<>>
  <2>1. input' = Tail(input) /\ input # <<>>
    BY DEF TakeText
  <2>2. Head(input) \in Units /\ Tail(input) \in Seq(Units)
    BY <2>1, HeadTail
  <2> QED
    BY <2>1, <2>2 DEF Units
<1>2. /\ line' = line /\ packets' = packets /\ texts' = texts /\ link' = link
      /\ caller' = caller
      /\ Own' = Own /\ Asking' = Asking /\ ReportInv' = ReportInv
      /\ pc' = pc /\ quiet' = quiet /\ calls' = calls /\ heard' = heard
  BY DriverStays DEF TakeText
<1>3. job' = <<>> \/ job' = <<Prompt>> \/ job' = <<Tok("echo", Head(input).id)>>
  BY DEF TakeText, Echo
<1>4. job' \in Seq(Tokens) /\ job' \in Seq(Own) /\ job' \in Seq(Silent)
  <2>1. \A S \in {Tokens, Own, Silent} : Prompt \in S /\ Tok("echo", Head(input).id) \in S
    BY <1>1, Prints DEF TokTypes, ConnectMarkers, DisconnectMarkers
  <2> QED
    BY <1>3, <2>1, Short
<1>5. \A S : input \in Seq(S) => input' \in Seq(S)
  BY <1>1, HeadTail
<1> QED
  BY <1>1, <1>2, <1>4, <1>5 DEF ConnectInv, LeaveInv

LEMMA TncPrintsStep == TermInv /\ TncPrints => TermInv'
<1> SUFFICES ASSUME TermInv, TncPrints PROVE TermInv'
  OBVIOUS
<1> USE DEF TermInv, Typing
<1>1. ASSUME NEW S, job \in Seq(S)
      PROVE  job' \in Seq(S) /\ (line \in Seq(S) => line' \in Seq(S))
  BY <1>1, HeadTail, AppendProperties DEF TncPrints
<1>2. /\ input' = input /\ packets' = packets /\ texts' = texts /\ link' = link
      /\ caller' = caller
      /\ Own' = Own /\ Asking' = Asking /\ ReportInv' = ReportInv
      /\ pc' = pc /\ quiet' = quiet /\ calls' = calls /\ heard' = heard
  BY DriverStays DEF TncPrints
<1> QED
  BY <1>1, <1>2 DEF ConnectInv, LeaveInv

\* Lines that are printed at once, from outside what was taken.
LEMMA OtherStep ==
  ASSUME TermInv, UNCHANGED <<input, job, caller, driverVars>>,
         packets' \in Nat, texts' \in Nat, link' \in {"none", "calling", "up", "ending"},
         line' \in Seq(Tokens),
         link # "none" \/ link' = "none",
         (link # "none" => caller = calls) /\ line \in Seq(Own) => line' \in Seq(Own),
         link = "none" /\ line \in Seq(Own) => line' \in Seq(Own),
         link' # "none" /\ line \in Seq(Silent) => line' \in Seq(Silent)
  PROVE  TermInv'
<1> USE DEF TermInv, Typing
<1>1. /\ Own' = Own /\ Asking' = Asking /\ ReportInv' = ReportInv
      /\ pc' = pc /\ quiet' = quiet /\ calls' = calls /\ heard' = heard
  BY DriverStays
<1>2. Typing'
  BY <1>1
<1>3. ConnectInv'
  BY <1>1 DEF ConnectInv
<1>4. LeaveInv'
  BY <1>1 DEF LeaveInv
<1> QED
  BY <1>1, <1>2, <1>3, <1>4

LEMMA OtherSteps ==
  TermInv /\ (LinkMade \/ LinkRefused \/ LinkEnds \/ RemoteSays \/ Packet) => TermInv'
<1> SUFFICES ASSUME TermInv
             PROVE (LinkMade \/ LinkRefused \/ LinkEnds \/ RemoteSays \/ Packet) => TermInv'
  OBVIOUS
<1> USE DEF TermInv, Typing
<1>0. /\ \A t \in TokTypes : Tok(t, caller) \in Tokens
      /\ Tok("connected", caller) \in Silent
      /\ \A t \in TokTypes : caller = calls => Tok(t, caller) \in Own
      /\ Prompt \in Tokens /\ Prompt \in Silent /\ Prompt \in Own
  BY Prints DEF TokTypes, DisconnectMarkers
<1>1. ASSUME LinkMade PROVE TermInv'
  <2>1. line' = Append(line, Tok("connected", caller)) /\ link = "calling" /\ link' = "up"
    BY <1>1 DEF LinkMade
  <2>2. \A S : Tok("connected", caller) \in S /\ line \in Seq(S) => line' \in Seq(S)
    BY <2>1, AppendProperties
  <2>3. Tok("connected", caller) \in Tokens /\ (caller = calls => Tok("connected", caller) \in Own)
    BY <1>0 DEF TokTypes
  <2> QED
    BY <1>0, <1>1, <2>1, <2>2, <2>3, OtherStep DEF LinkMade
<1>2. ASSUME LinkRefused PROVE TermInv'
  <2>1. /\ line' = line \o <<Tok("refused", caller), Tok("disconnected", caller)>>
        /\ link = "calling" /\ link' = "none"
    BY <1>2 DEF LinkRefused
  <2>2. \A S : Tok("refused", caller) \in S /\ Tok("disconnected", caller) \in S
                /\ line \in Seq(S) => line' \in Seq(S)
    BY <2>1, Short, ConcatProperties
  <2>3. /\ Tok("refused", caller) \in Tokens /\ Tok("disconnected", caller) \in Tokens
        /\ caller = calls => Tok("refused", caller) \in Own /\ Tok("disconnected", caller) \in Own
    BY <1>0 DEF TokTypes
  <2> QED
    BY <1>2, <2>1, <2>2, <2>3, OtherStep DEF LinkRefused
<1>3. ASSUME LinkEnds PROVE TermInv'
  <2> DEFINE said == <<Tok("disconnected", caller)>>
             prompt == IF mode = "convers" THEN <<Prompt>> ELSE <<>>
  <2>1. line' = (line \o said) \o prompt /\ link # "none" /\ link' = "none"
    BY <1>3 DEF LinkEnds
  <2>2. ASSUME NEW S, Tok("disconnected", caller) \in S, Prompt \in S, line \in Seq(S)
        PROVE  line' \in Seq(S)
    <3>1. said \in Seq(S) /\ prompt \in Seq(S)
      BY <2>2, Short
    <3> HIDE DEF said, prompt
    <3> QED
      BY <2>1, <2>2, <3>1, ConcatProperties
  <2>3. /\ Tok("disconnected", caller) \in Tokens
        /\ caller = calls => Tok("disconnected", caller) \in Own
    BY <1>0 DEF TokTypes
  <2>4. line' \in Seq(Tokens)
    BY <1>0, <2>2, <2>3
  <2>5. caller = calls /\ line \in Seq(Own) => line' \in Seq(Own)
    BY <1>0, <2>2, <2>3
  <2> QED
    BY <1>3, <2>1, <2>4, <2>5, OtherStep DEF LinkEnds
<1>4. ASSUME RemoteSays PROVE TermInv'
  <2>1. line' = Append(line, Tok("text", texts')) /\ texts' \in Nat
    BY <1>4 DEF RemoteSays
  <2>2. \A S \in {Tokens, Own, Silent} : Tok("text", texts') \in S
    BY <2>1, Prints DEF TokTypes, ConnectMarkers, DisconnectMarkers
  <2>3. \A S \in {Tokens, Own, Silent} : line \in Seq(S) => line' \in Seq(S)
    BY <2>1, <2>2, AppendProperties
  <2> QED
    BY <1>4, <2>1, <2>3, OtherStep DEF RemoteSays
<1>5. ASSUME Packet PROVE TermInv'
  <2> DEFINE said == <<Tok("header", packets'), Tok("payload", packets'), Tok("blank", packets')>>
  <2>1. line' = line \o said /\ packets' \in Nat
    BY <1>5 DEF Packet
  <2>2. ASSUME NEW S \in {Tokens, Own, Silent} PROVE said \in Seq(S)
    <3>1. \A t \in {"header", "payload", "blank"} : Tok(t, packets') \in S
      BY <2>1, <2>2, Prints DEF TokTypes, ConnectMarkers, DisconnectMarkers
    <3> QED
      BY <3>1, Short
  <2> HIDE DEF said
  <2>3. \A S \in {Tokens, Own, Silent} : line \in Seq(S) => line' \in Seq(S)
    BY <2>1, <2>2, ConcatProperties
  <2> QED
    BY <1>5, <2>1, <2>3, OtherStep DEF Packet
<1> QED
  BY <1>1, <1>2, <1>3, <1>4, <1>5

-----------------------------------------------------------------------------
(***************************************************************************)
(* The driver's steps.                                                     *)
(***************************************************************************)
\* A call that starts is about itself, and nothing has been reported yet.
LEMMA CallStep ==
  ASSUME TermInv, NEW wait, Call(wait), line' \in Seq(Tokens), input' \in Seq(Units),
         wait = "connect" /\ quiet' =>
           input' \in Seq(Asking') /\ link = "none" /\ job = <<>> /\ line' = <<>>,
         wait = "leave" /\ quiet' => input' \in Seq(Stopping) /\ job = <<>>,
         wait # "disconne"
  PROVE  TermInv'
<1> USE DEF TermInv, Typing
<1>1. /\ pc' = wait /\ heard' = <<>> /\ last'.op = "none" /\ calls' = calls + 1
      /\ job' = job /\ link' = link /\ caller' = caller /\ packets' = packets
      /\ texts' = texts
  BY DEF Call, NoCall
<1>2. \A S : <<>> \in Seq(S)
  OBVIOUS
<1>3. Typing'
  BY <1>1, <1>2
<1>4. ConnectInv'
  BY <1>1, <1>2 DEF ConnectInv
<1>5. ReportInv' /\ LeaveInv'
  BY <1>1, <1>2 DEF ReportInv, LeaveInv
<1> QED
  BY <1>3, <1>4, <1>5

LEMMA StartSteps ==
  TermInv /\ (SendCommand \/ ConnectStation \/ CtrlC \/ SendConnected \/ ReadConnected)
    => TermInv'
<1> SUFFICES ASSUME TermInv
             PROVE  (SendCommand \/ ConnectStation \/ CtrlC \/ SendConnected
                     \/ ReadConnected) => TermInv'
  OBVIOUS
<1> USE DEF TermInv, Typing
<1>0. ASSUME NEW t \in {"command", "CONNECT", "ctrlC", "text"}, NEW wait, Call(wait), Write(t)
      PROVE  input' \in Seq(Units) /\ input' = Append(input, Tok(t, calls')) /\ calls' \in Nat
  <2>1. calls' \in Nat /\ Tok(t, calls') \in Units
    BY <1>0 DEF Call, Tok, Units
  <2> QED
    BY <1>0, <2>1, AppendProperties DEF Write
<1>1. ASSUME SendCommand PROVE TermInv'
  <2>1. PICK n \in Arrived : line' = After(n)
    BY <1>1 DEF SendCommand, Reset, AfterReset
  <2>2. line' \in Seq(Tokens)
    BY <2>1, Parts DEF After, Arrived
  <2> QED
    BY <1>0, <1>1, <2>2, CallStep DEF SendCommand
<1>2. ASSUME ConnectStation PROVE TermInv'
  <2>1. line' = <<>> /\ line' \in Seq(Tokens)
    BY <1>2 DEF ConnectStation, Drain, AfterDrain
  <2>2. Call("connect") /\ Write("CONNECT") /\ quiet' = TncIdle
    BY <1>2 DEF ConnectStation
  <2>3. input' \in Seq(Units) /\ input' = Append(input, Tok("CONNECT", calls')) /\ calls' \in Nat
    BY <1>0, <2>2
  <2>4. ASSUME quiet' PROVE input' \in Seq(Asking') /\ link = "none" /\ job = <<>>
    <3>1. input = <<>> /\ link = "none" /\ job = <<>>
      BY <2>2, <2>4 DEF TncIdle
    <3>2. Tok("CONNECT", calls') \in Asking'
      BY <2>3 DEF Asking, Units, Tok
    <3>3. input \in Seq(Asking')
      BY <3>1
    <3> QED
      BY <2>3, <3>1, <3>2, <3>3, AppendProperties
  <2> QED
    BY <2>1, <2>2, <2>3, <2>4, CallStep
<1>3. ASSUME CtrlC PROVE TermInv'
  <2>1. line' = <<>> /\ line' \in Seq(Tokens)
    BY <1>3 DEF CtrlC, Drain, AfterDrain
  <2>2. PICK wait \in {"enter", "leave"} : Call(wait)
    BY <1>3 DEF CtrlC
  <2>3. Write("ctrlC") /\ quiet' = (input = <<>> /\ job = <<>>)
    BY <1>3 DEF CtrlC
  <2>4. input' \in Seq(Units) /\ input' = Append(input, Tok("ctrlC", calls')) /\ calls' \in Nat
    BY <1>0, <2>2, <2>3
  <2>5. ASSUME quiet' PROVE input' \in Seq(Stopping) /\ job = <<>>
    <3>1. input = <<>> /\ job = <<>>
      BY <2>3, <2>5
    <3>2. Tok("ctrlC", calls') \in Stopping
      BY <2>4 DEF Stopping, Units, Tok
    <3>3. input \in Seq(Stopping)
      BY <3>1
    <3> QED
      BY <2>4, <3>1, <3>2, <3>3, AppendProperties
  <2> QED
    BY <2>1, <2>2, <2>4, <2>5, CallStep
<1>4. SendConnected => TermInv'
  BY <1>0, CallStep DEF SendConnected
<1>5. ReadConnected => TermInv'
  BY CallStep DEF ReadConnected
<1> QED
  BY <1>1, <1>2, <1>3, <1>4, <1>5

LEMMA ReadingSteps == TermInv /\ (Poll \/ Read) => TermInv'
<1> SUFFICES ASSUME TermInv PROVE (Poll \/ Read) => TermInv'
  OBVIOUS
<1> USE DEF TermInv, Typing
<1>1. ASSUME Poll PROVE TermInv'
  <2>1. PICK n \in Arrived : line' = After(n)
    BY <1>1 DEF Poll
  <2>2. line' \in Seq(Tokens)
    BY <2>1, Parts DEF After, Arrived
  <2> QED
    BY <1>1, <2>2 DEF Poll, tncVars, ConnectInv, ReportInv, LeaveInv, Own, Asking
<1>2. ASSUME Read PROVE TermInv'
  <2>1. PICK n \in Arrived : heard' = heard \o SubSeq(line, 1, n) /\ line' = After(n)
    BY <1>2 DEF Read
  <2>2. ASSUME NEW S, line \in Seq(S), heard \in Seq(S)
        PROVE  line' \in Seq(S) /\ heard' \in Seq(S)
    BY <2>1, <2>2, Parts, ConcatProperties DEF After, Arrived
  <2>3. /\ input' = input /\ job' = job /\ link' = link /\ caller' = caller
        /\ packets' = packets /\ texts' = texts /\ pc' = pc /\ calls' = calls
        /\ quiet' = quiet /\ last' = last /\ Own' = Own /\ Asking' = Asking
    BY <1>2 DEF Read, tncVars, Own, Asking
  <2> QED
    BY <2>2, <2>3 DEF ConnectInv, ReportInv, LeaveInv
<1> QED
  BY <1>1, <1>2

\* What a call reports is what it heard.
LEMMA EndStep ==
  ASSUME TermInv, NEW op, NEW how, NEW text, Ends(op, how, text),
         op = "connect" => pc = "connect" /\ text = heard
  PROVE  TermInv'
<1> USE DEF TermInv, Typing
<1>1. /\ pc' = "idle" /\ heard' = <<>> /\ line' = line /\ calls' = calls /\ quiet' = quiet
      /\ last'.op = op /\ last'.text = text
      /\ input' = input /\ job' = job /\ link' = link /\ caller' = caller
      /\ packets' = packets /\ texts' = texts /\ Own' = Own
  BY DEF Ends, tncVars, Own
<1>2. Typing' /\ ConnectInv' /\ LeaveInv'
  BY <1>1 DEF ConnectInv, LeaveInv
<1>3. ReportInv'
  BY <1>1 DEF ReportInv, ConnectInv
<1> QED
  BY <1>2, <1>3

LEMMA EndSteps ==
  TermInv /\ (TimesOut \/ CommandReturns \/ ConnectReturns \/ EnterReturns
              \/ DisconnectReturns \/ ReadReturns) => TermInv'
<1> SUFFICES ASSUME TermInv
             PROVE  (TimesOut \/ CommandReturns \/ ConnectReturns \/ EnterReturns
                     \/ DisconnectReturns \/ ReadReturns) => TermInv'
  OBVIOUS
<1>1. TimesOut => TermInv'
  BY EndStep DEF TimesOut
<1>2. CommandReturns => TermInv'
  BY EndStep DEF CommandReturns
<1>3. ConnectReturns => TermInv'
  BY EndStep DEF ConnectReturns
<1>4. EnterReturns => TermInv'
  BY EndStep DEF EnterReturns
<1>5. DisconnectReturns => TermInv'
  BY EndStep DEF DisconnectReturns
<1>6. ReadReturns => TermInv'
  BY EndStep DEF ReadReturns
<1> QED
  BY <1>1, <1>2, <1>3, <1>4, <1>5, <1>6

LEMMA DisconneStep == TermInv /\ Disconne => TermInv'
<1> SUFFICES ASSUME TermInv, Disconne PROVE TermInv'
  OBVIOUS
<1> USE DEF TermInv, Typing
<1>1. /\ line' = <<>> /\ heard' = <<>> /\ pc = "leave" /\ pc' = "disconne"
      /\ input' = Append(input, Tok("DISCONNE", calls))
      /\ job' = job /\ link' = link /\ caller' = caller /\ packets' = packets
      /\ texts' = texts /\ calls' = calls /\ quiet' = quiet /\ last' = last
      /\ Own' = Own
  BY DEF Disconne, Drain, AfterDrain, Own
<1>2. Tok("DISCONNE", calls) \in Units /\ Tok("DISCONNE", calls) \in Leaving
  BY DEF Tok, Units, Leaving
<1>3. input' \in Seq(Units)
  BY <1>1, <1>2, AppendProperties
<1>4. ASSUME quiet PROVE input' \in Seq(Leaving) /\ job \in Seq(Silent)
  <2>1. input \in Seq(Stopping) /\ job \in Seq(Silent)
    BY <1>1, <1>4 DEF LeaveInv
  <2>2. input \in Seq(Leaving)
    BY <2>1, Wider DEF Stopping, Leaving
  <2> QED
    BY <1>1, <1>2, <2>1, <2>2, AppendProperties
<1>5. Typing' /\ ConnectInv' /\ ReportInv'
  BY <1>1, <1>3 DEF ConnectInv, ReportInv
<1>6. LeaveInv'
  BY <1>1, <1>4 DEF LeaveInv
<1> QED
  BY <1>5, <1>6

-----------------------------------------------------------------------------
LEMMA TermKept == TermInv /\ [Next]_vars => TermInv'
<1>1. TermInv /\ UNCHANGED vars => TermInv'
  BY DEF TermInv, Typing, ConnectInv, ReportInv, LeaveInv, Own, Asking, vars, tncVars,
     driverVars
<1> QED
  BY <1>1, TakeCommandStep, TakeTextStep, TncPrintsStep, OtherSteps, StartSteps,
     ReadingSteps, EndSteps, DisconneStep DEF Next, Tnc, Driver

LEMMA TermAlways == Spec => []TermInv
BY Terminal, TermKept, PTL DEF Spec

(***************************************************************************)
(* connect_station() to an idle KAM-XL decides by a marker of its own      *)
(* CONNECT only, whatever came before it and however late that arrives.    *)
(***************************************************************************)
THEOREM ConnectOwn == Spec => []ConnectIsAboutItself
<1>1. ASSUME TermInv PROVE ConnectIsAboutItself
  <2> SUFFICES ASSUME last.op = "connect", quiet, NEW i \in 1..Len(last.text),
                      last.text[i].t \in ConnectMarkers
               PROVE  last.text[i].id = calls
    BY DEF ConnectIsAboutItself
  <2>1. last.text[i] \in Own
    BY <1>1, ElementOfSeq DEF TermInv, ReportInv
  <2> QED
    BY <2>1 DEF Own
<1> QED
  BY <1>1, TermAlways, PTL

(***************************************************************************)
(* disconnect_station() returns only when the KAM-XL has no link, if it    *)
(* had taken what was written before: neither an old banner nor one that   *)
(* is still printed when the call starts can end it.                       *)
(***************************************************************************)
THEOREM DisconnectLeaves == Spec => DisconnectLeavesNoLink
<1> DEFINE Reported == last' # last /\ last'.op = "disconnect" /\ quiet => link = "none"
<1>1. ASSUME TermInv, [Next]_vars PROVE [Reported]_vars
  <2> SUFFICES ASSUME last' # last, last'.op = "disconnect", quiet PROVE link = "none"
    OBVIOUS
  <2>1. DisconnectReturns
    <3>1. ~Tnc
      BY DEF Tnc, driverVars, TakeCommand, TakeText, TncPrints, LinkMade, LinkRefused,
         LinkEnds, RemoteSays, Packet
    <3>2. \A wait : ~Call(wait)
      BY DEF Call, NoCall
    <3>3. ~(SendCommand \/ ConnectStation \/ CtrlC \/ SendConnected \/ ReadConnected)
      BY <3>2 DEF SendCommand, ConnectStation, CtrlC, SendConnected, ReadConnected
    <3>4. ~Poll /\ ~Read /\ ~Disconne
      BY DEF Poll, Read, Disconne
    <3>5. \A op, how, text : Ends(op, how, text) => op = "disconnect"
      BY DEF Ends
    <3>6. ~TimesOut /\ ~ConnectReturns /\ ~EnterReturns /\ ~ReadReturns
      BY <3>5 DEF TimesOut, ConnectReturns, EnterReturns, ReadReturns
    <3>7. ~CommandReturns
      BY <3>5 DEF CommandReturns
    <3>8. vars' # vars
      BY DEF vars, driverVars
    <3> QED
      BY <1>1, <3>1, <3>3, <3>4, <3>6, <3>7, <3>8 DEF Next, Driver
  <2>2. pc = "disconne" /\ Has(heard, DisconnectMarkers)
    BY <2>1 DEF DisconnectReturns, Seen, Awaited
  <2>3. link # "none" => heard \in Seq(Silent)
    BY <1>1, <2>2 DEF TermInv, LeaveInv
  <2> QED
    BY <2>2, <2>3, NothingSeen
<1> HIDE DEF Reported
<1>2. Spec => [][Reported]_vars
  BY <1>1, TermAlways, PTL DEF Spec
<1> QED
  BY <1>2 DEF Reported, DisconnectLeavesNoLink

-----------------------------------------------------------------------------
(***************************************************************************)
(* What _strip_monitor_lines() takes out of a text that grows.             *)
(***************************************************************************)
\* A packet has begun that has not ended; a position is in a packet.
Open(s) == \E j \in 1..Len(s) : s[j].t = "header" /\ \A k \in j..Len(s) : s[k].t # "blank"
InPacket(s, i) == \E j \in 1..i : s[j].t = "header" /\ \A k \in j..(i - 1) : s[k].t # "blank"
Outside(s) == {i \in 1..Len(s) : ~InPacket(s, i)}

\* Whole packets, and lines that are no part of one, and no prompt.
Clean(s) ==
  /\ s \in Seq(Tokens) /\ ~Open(s)
  /\ \A i \in 1..Len(s) : s[i].t # "cmd" /\ (s[i].t = "blank" => InPacket(s, i))

LEMMA StripIsOutside == \A s : StripMonitorLines(s) = Pick(s, Outside(s))
BY DEF StripMonitorLines, Outside, InPacket

LEMMA StripType ==
  ASSUME NEW X, NEW s \in Seq(X)
  PROVE  StripMonitorLines(s) \in Seq(X)
BY StripIsOutside, PickType

\* What comes later does not change what a line is in.
LEMMA InPacketBefore ==
  ASSUME NEW s, NEW u, NEW n \in Nat, \A i \in 1..n : u[i] = s[i], NEW i \in 1..n
  PROVE  InPacket(u, i) <=> InPacket(s, i)
<1>1. \A j \in 1..i : j \in 1..n
  OBVIOUS
<1>2. \A j \in 1..i : \A k \in j..(i - 1) : k \in 1..n
  OBVIOUS
<1> QED
  BY <1>1, <1>2, Zenon DEF InPacket

LEMMA NextInPacket ==
  ASSUME NEW s \in Seq(Tokens), NEW x \in Tokens
  PROVE  /\ InPacket(Append(s, x), Len(s) + 1) <=> Open(s) \/ x.t = "header"
         /\ Open(Append(s, x)) <=> (Open(s) \/ x.t = "header") /\ x.t # "blank"
         /\ \A i \in 1..Len(s) : InPacket(Append(s, x), i) <=> InPacket(s, i)
<1> DEFINE u == Append(s, x)
           n == Len(s)
<1>1. n \in Nat /\ Len(u) = n + 1 /\ u[n + 1] = x /\ \A i \in 1..n : u[i] = s[i]
  BY AppendProperties
<1> HIDE DEF u, n
<1>2. \A i \in 1..n : InPacket(u, i) <=> InPacket(s, i)
  BY <1>1, InPacketBefore
<1>3. \A j \in 1..(n + 1) : j \in 1..n \/ j = n + 1
  BY <1>1
<1>4. \A j \in 1..n : \A k \in j..n : k \in 1..n
  OBVIOUS
<1>5. \A j \in 1..n : j \in 1..(n + 1)
  BY <1>1
<1>6. n + 1 \in 1..(n + 1) /\ (n + 1) - 1 = n /\ ~\E k : k \in (n + 1)..n
  BY <1>1
<1>7. Open(s) <=> \E j \in 1..n : s[j].t = "header" /\ \A k \in j..n : s[k].t # "blank"
  BY DEF Open, n
<1>8. InPacket(u, n + 1)
        <=> \E j \in 1..(n + 1) : u[j].t = "header" /\ \A k \in j..n : u[k].t # "blank"
  BY <1>6, Zenon DEF InPacket
<1>9. InPacket(u, n + 1) <=> Open(s) \/ x.t = "header"
  <2>1. ASSUME NEW j \in 1..n
        PROVE  (u[j].t = "header" /\ \A k \in j..n : u[k].t # "blank")
                 <=> (s[j].t = "header" /\ \A k \in j..n : s[k].t # "blank")
    BY <1>1, <1>4, Zenon
  <2>2. (u[n + 1].t = "header" /\ \A k \in (n + 1)..n : u[k].t # "blank") <=> x.t = "header"
    BY <1>1, <1>6, Zenon
  <2>3. ASSUME InPacket(u, n + 1) PROVE Open(s) \/ x.t = "header"
    <3>1. PICK j \in 1..(n + 1) : u[j].t = "header" /\ \A k \in j..n : u[k].t # "blank"
      BY <1>8, <2>3
    <3>2. CASE j \in 1..n
      BY <1>7, <2>1, <3>1, <3>2, Zenon
    <3>3. CASE j = n + 1
      BY <1>1, <3>1, <3>3
    <3> QED
      BY <1>3, <3>2, <3>3
  <2>4. ASSUME Open(s) PROVE InPacket(u, n + 1)
    <3>1. PICK j \in 1..n : s[j].t = "header" /\ \A k \in j..n : s[k].t # "blank"
      BY <1>7, <2>4
    <3> QED
      <4>1. u[j].t = "header" /\ \A k \in j..n : u[k].t # "blank"
        BY <2>1, <3>1, Zenon
      <4>2. j \in 1..(n + 1)
        BY <1>5, <3>1
      <4> QED
        BY <1>8, <4>1, <4>2, Zenon
  <2>5. ASSUME x.t = "header" PROVE InPacket(u, n + 1)
    BY <1>6, <1>8, <2>2, <2>5, Zenon
  <2> QED
    BY <2>3, <2>4, <2>5
<1>10. Open(u) <=> InPacket(u, n + 1) /\ x.t # "blank"
  <2>1. Open(u)
          <=> \E j \in 1..(n + 1) : u[j].t = "header" /\ \A k \in j..(n + 1) : u[k].t # "blank"
    BY <1>1, Zenon DEF Open
  <2>2. ASSUME NEW j \in 1..(n + 1)
        PROVE  (\A k \in j..(n + 1) : u[k].t # "blank")
                 <=> (\A k \in j..n : u[k].t # "blank") /\ x.t # "blank"
    <3>1. n + 1 \in j..(n + 1) /\ \A k \in j..n : k \in j..(n + 1)
      BY <1>1
    <3>2. \A k \in j..(n + 1) : k \in j..n \/ k = n + 1
      BY <1>1
    <3> QED
      BY <1>1, <3>1, <3>2, Zenon
  <2> QED
    BY <1>8, <2>1, <2>2, Zenon
<1> QED
  BY <1>1, <1>2, <1>9, <1>10 DEF u, n

\* One more line: it stays, unless it is in a packet.
LEMMA StripAppend ==
  ASSUME NEW s \in Seq(Tokens), NEW x \in Tokens
  PROVE  StripMonitorLines(Append(s, x)) =
           IF Open(s) \/ x.t = "header" THEN StripMonitorLines(s)
           ELSE Append(StripMonitorLines(s), x)
<1> DEFINE u == Append(s, x)
           n == Len(s)
<1>1. n \in Nat /\ Len(u) = n + 1
  BY AppendProperties
<1>2. \A i \in 1..n : i \in Outside(s) <=> i \in Outside(u)
  <2>1. \A i \in 1..n : InPacket(u, i) <=> InPacket(s, i)
    BY NextInPacket
  <2> HIDE DEF u
  <2>2. \A i \in 1..n : i \in 1..Len(u)
    BY <1>1
  <2> QED
    BY <2>1, <2>2, Zenon DEF Outside
<1>3. n + 1 \in Outside(u) <=> ~(Open(s) \/ x.t = "header")
  <2>1. n + 1 \in 1..Len(u)
    BY <1>1
  <2>2. InPacket(u, n + 1) <=> Open(s) \/ x.t = "header"
    BY NextInPacket
  <2> HIDE DEF u, n
  <2> QED
    BY <2>1, <2>2, Zenon DEF Outside
<1>4. Pick(u, Outside(u)) = IF n + 1 \in Outside(u) THEN Append(Pick(s, Outside(s)), x)
                            ELSE Pick(s, Outside(s))
  BY <1>2, PickAppend
<1> HIDE DEF u, n
<1>5. StripMonitorLines(u) = IF Open(s) \/ x.t = "header" THEN StripMonitorLines(s)
                             ELSE Append(StripMonitorLines(s), x)
  BY <1>3, <1>4, StripIsOutside
<1> QED
  BY <1>5 DEF u

LEMMA CleanEmpty == Clean(<< >>) /\ StripMonitorLines(<< >>) = << >>
<1>1. StripMonitorLines(<< >>) = << >>
  BY StripIsOutside, PickEmpty
<1> QED
  BY <1>1 DEF Clean, Open

LEMMA CleanAppend ==
  ASSUME NEW s \in Seq(Tokens), Clean(s), NEW x \in Tokens, x.t \notin {"header", "blank", "cmd"}
  PROVE  Clean(Append(s, x)) /\ StripMonitorLines(Append(s, x)) = Append(StripMonitorLines(s), x)
<1> DEFINE u == Append(s, x)
<1>1. /\ u \in Seq(Tokens) /\ Len(s) \in Nat /\ Len(u) = Len(s) + 1 /\ u[Len(s) + 1] = x
      /\ \A i \in 1..Len(s) : u[i] = s[i]
  BY AppendProperties
<1>2. /\ Open(u) <=> (Open(s) \/ x.t = "header") /\ x.t # "blank"
      /\ \A i \in 1..Len(s) : InPacket(u, i) <=> InPacket(s, i)
  BY NextInPacket
<1>3. StripMonitorLines(u) = Append(StripMonitorLines(s), x)
  BY StripAppend DEF Clean
<1> HIDE DEF u
<1>4. ASSUME NEW i \in 1..Len(u) PROVE u[i].t # "cmd" /\ (u[i].t = "blank" => InPacket(u, i))
  <2>1. CASE i = Len(s) + 1
    BY <1>1, <2>1
  <2>2. CASE i # Len(s) + 1
    <3>1. i \in 1..Len(s)
      BY <1>1, <2>2
    <3> QED
      BY <1>1, <1>2, <3>1 DEF Clean
  <2> QED
    BY <2>1, <2>2
<1>5. Clean(u)
  BY <1>1, <1>2, <1>4 DEF Clean
<1> QED
  BY <1>3, <1>5 DEF u

PacketOf(k) == <<Tok("header", k), Tok("payload", k), Tok("blank", k)>>

\* What a step that appends a line of a packet keeps.
LEMMA PacketLine ==
  ASSUME NEW s \in Seq(Tokens), NEW x \in Tokens, Open(s) \/ x.t = "header", x.t # "cmd",
         \A i \in 1..Len(s) : s[i].t # "cmd" /\ (s[i].t = "blank" => InPacket(s, i))
  PROVE  /\ Append(s, x) \in Seq(Tokens)
         /\ StripMonitorLines(Append(s, x)) = StripMonitorLines(s)
         /\ Open(Append(s, x)) <=> x.t # "blank"
         /\ \A i \in 1..Len(Append(s, x)) :
              /\ Append(s, x)[i].t # "cmd"
              /\ Append(s, x)[i].t = "blank" => InPacket(Append(s, x), i)
<1> DEFINE u == Append(s, x)
<1>1. /\ u \in Seq(Tokens) /\ Len(s) \in Nat /\ Len(u) = Len(s) + 1 /\ u[Len(s) + 1] = x
      /\ \A i \in 1..Len(s) : u[i] = s[i]
  BY AppendProperties
<1>2. /\ InPacket(u, Len(s) + 1) <=> Open(s) \/ x.t = "header"
      /\ Open(u) <=> (Open(s) \/ x.t = "header") /\ x.t # "blank"
      /\ \A i \in 1..Len(s) : InPacket(u, i) <=> InPacket(s, i)
  BY NextInPacket
<1>3. StripMonitorLines(u) = StripMonitorLines(s)
  BY StripAppend
<1> HIDE DEF u
<1>4. ASSUME NEW i \in 1..Len(u) PROVE u[i].t # "cmd" /\ (u[i].t = "blank" => InPacket(u, i))
  <2>1. CASE i = Len(s) + 1
    BY <1>1, <1>2, <2>1
  <2>2. CASE i # Len(s) + 1
    <3>1. i \in 1..Len(s)
      BY <1>1, <2>2
    <3> QED
      BY <1>1, <1>2, <3>1
  <2> QED
    BY <2>1, <2>2
<1>5. Open(u) <=> x.t # "blank"
  BY <1>2
<1>6. u \in Seq(Tokens)
  BY <1>1
<1> QED
  BY <1>3, <1>4, <1>5, <1>6, Zenon DEF u

LEMMA PacketTokens ==
  ASSUME NEW k \in Nat
  PROVE  /\ \A t \in {"header", "payload", "blank"} : Tok(t, k) \in Tokens /\ Tok(t, k).t = t
         /\ PacketOf(k) \in Seq(Tokens)
<1>1. \A t \in {"header", "payload", "blank"} : Tok(t, k) \in Tokens /\ Tok(t, k).t = t
  BY DEF Tok, Tokens, TokTypes
<1> QED
  BY <1>1 DEF PacketOf

LEMMA CleanPacket ==
  ASSUME NEW s \in Seq(Tokens), Clean(s), NEW k \in Nat
  PROVE  /\ Clean(s \o PacketOf(k))
         /\ StripMonitorLines(s \o PacketOf(k)) = StripMonitorLines(s)
<1> DEFINE x == Tok("header", k)
           y == Tok("payload", k)
           z == Tok("blank", k)
<1>1. /\ x \in Tokens /\ y \in Tokens /\ z \in Tokens
      /\ x.t = "header" /\ y.t = "payload" /\ z.t = "blank"
  BY PacketTokens
<1> DEFINE a == Append(s, x)
           b == Append(a, y)
           c == Append(b, z)
<1>2. s \o PacketOf(k) = c
  <2> HIDE DEF x, y, z
  <2>1. PacketOf(k) = <<x, y, z>>
    BY DEF PacketOf, x, y, z
  <2>2. s \o <<x, y, z>> = c
    BY <1>1
  <2> QED
    BY <2>1, <2>2
<1> HIDE DEF x, y, z, a, b, c
<1>3. /\ a \in Seq(Tokens) /\ StripMonitorLines(a) = StripMonitorLines(s) /\ Open(a)
      /\ \A i \in 1..Len(a) : a[i].t # "cmd" /\ (a[i].t = "blank" => InPacket(a, i))
  BY <1>1, PacketLine DEF a, Clean
<1>4. /\ b \in Seq(Tokens) /\ StripMonitorLines(b) = StripMonitorLines(s) /\ Open(b)
      /\ \A i \in 1..Len(b) : b[i].t # "cmd" /\ (b[i].t = "blank" => InPacket(b, i))
  BY <1>1, <1>3, PacketLine DEF b
<1>5. /\ c \in Seq(Tokens) /\ StripMonitorLines(c) = StripMonitorLines(s) /\ ~Open(c)
      /\ \A i \in 1..Len(c) : c[i].t # "cmd" /\ (c[i].t = "blank" => InPacket(c, i))
  BY <1>1, <1>4, PacketLine DEF c
<1> QED
  BY <1>2, <1>5 DEF Clean

-----------------------------------------------------------------------------
(***************************************************************************)
(* What is left of a text with whole packets in it.                        *)
(***************************************************************************)
AllBlank(t) == \A i \in 1..Len(t) : t[i].t = "blank"

\* text.strip("\r\n") of a text that begins with no blank line.
LEMMA BlanksComeOff ==
  ASSUME NEW s \in Seq(Tokens), s # << >>, s[1].t # "blank", s[Len(s)].t # "blank",
         NEW t \in Seq(Tokens), AllBlank(t)
  PROVE  StripBlank(s \o t) = s
<1> DEFINE u == s \o t
           n == Len(s)
           kept == {i \in 1..Len(u) : /\ \E k \in 1..i : u[k].t # "blank"
                                      /\ \E k \in i..Len(u) : u[k].t # "blank"}
<1>1. /\ n \in Nat /\ n >= 1 /\ Len(t) \in Nat /\ u \in Seq(Tokens) /\ Len(u) = n + Len(t)
      /\ \A i \in 1..n : u[i] = s[i]
      /\ \A i \in 1..Len(t) : u[n + i] = t[i]
  BY EmptySeq
<1>2. StripBlank(u) = Pick(u, kept)
  BY DEF StripBlank
<1>3. ASSUME NEW i \in 1..n PROVE i \in kept
  <2> HIDE DEF u, n
  <2>1. 1 \in 1..n /\ n \in 1..n /\ 1 \in 1..i /\ n \in i..Len(u) /\ i \in 1..Len(u)
    BY <1>1
  <2>2. u[1].t # "blank" /\ u[n].t # "blank"
    BY <1>1, <2>1 DEF n
  <2> QED
    BY <2>1, <2>2
<1>4. ASSUME NEW i \in 1..Len(t) PROVE n + i \notin kept
  <2> HIDE DEF u, n
  <2>1. ASSUME NEW k \in (n + i)..Len(u) PROVE u[k].t = "blank"
    <3>1. k - n \in 1..Len(t) /\ k = n + (k - n)
      BY <1>1
    <3> QED
      BY <1>1, <3>1 DEF AllBlank
  <2> QED
    BY <2>1
<1> HIDE DEF kept
<1>5. Pick(u, kept) = Pick(s, kept)
  BY <1>4, PickHead
<1>6. Pick(s, kept) = s
  BY <1>3, PickAll
<1> QED
  BY <1>2, <1>5, <1>6 DEF u

\* raw.partition(PROMPT)
LEMMA PromptEnds ==
  ASSUME NEW s \in Seq(Tokens), \A i \in 1..Len(s) : s[i].t # "cmd",
         NEW t \in Seq(Tokens), t # << >>, t[1].t = "cmd"
  PROVE  BeforePrompt(s \o t) = s
<1> DEFINE u == s \o t
           n == Len(s)
           kept == {i \in 1..Len(u) : \A k \in 1..i : u[k].t # "cmd"}
<1>1. /\ n \in Nat /\ Len(t) \in Nat /\ Len(t) >= 1 /\ Len(u) = n + Len(t)
      /\ \A i \in 1..n : u[i] = s[i]
      /\ \A i \in 1..Len(t) : u[n + i] = t[i]
  BY EmptySeq
<1>2. BeforePrompt(u) = Pick(u, kept)
  BY DEF BeforePrompt
<1>3. ASSUME NEW i \in 1..n PROVE i \in kept
  <2> HIDE DEF u, n
  <2>1. i \in 1..Len(u) /\ \A k \in 1..i : k \in 1..n
    BY <1>1
  <2> QED
    BY <1>1, <2>1 DEF n
<1>4. ASSUME NEW i \in 1..Len(t) PROVE n + i \notin kept
  <2> HIDE DEF u, n
  <2>1. n + 1 \in 1..(n + i) /\ 1 \in 1..Len(t)
    BY <1>1
  <2>2. u[n + 1].t = "cmd"
    BY <1>1, <2>1
  <2> QED
    BY <2>1, <2>2
<1> HIDE DEF kept
<1>5. Pick(u, kept) = Pick(s, kept)
  BY <1>4, PickHead
<1>6. Pick(s, kept) = s
  BY <1>3, PickAll
<1> QED
  BY <1>2, <1>5, <1>6 DEF u

\* Blank lines at the end that are a packet's are removed with the packet.
LEMMA StripTrimmed ==
  ASSUME NEW s \in Seq(Tokens), NEW t \in Seq(Tokens), AllBlank(t), Clean(s \o t)
  PROVE  StripMonitorLines(s) = StripMonitorLines(s \o t)
<1> DEFINE u == s \o t
           n == Len(s)
<1>1. /\ n \in Nat /\ Len(t) \in Nat /\ Len(u) = n + Len(t)
      /\ \A i \in 1..n : u[i] = s[i]
      /\ \A i \in 1..Len(t) : u[n + i] = t[i]
  OBVIOUS
<1>2. Clean(u)
  OBVIOUS
<1>3. ASSUME NEW i \in 1..Len(t) PROVE n + i \notin Outside(u)
  <2> HIDE DEF u, n
  <2>1. n + i \in 1..Len(u) /\ u[n + i].t = "blank"
    BY <1>1 DEF AllBlank
  <2> QED
    BY <1>2, <2>1 DEF Clean, Outside
<1>4. ASSUME NEW i \in 1..n PROVE i \in Outside(s) <=> i \in Outside(u)
  <2> HIDE DEF u
  <2>1. i \in 1..Len(u)
    BY <1>1
  <2>2. InPacket(u, i) <=> InPacket(s, i)
    BY <1>1, InPacketBefore
  <2> QED
    BY <2>1, <2>2 DEF Outside
<1>5. Pick(u, Outside(u)) = Pick(s, Outside(u))
  BY <1>3, PickHead
<1>6. Pick(s, Outside(s)) = Pick(s, Outside(u))
  BY <1>4, PickSame
<1> HIDE DEF u
<1>7. StripMonitorLines(s) = StripMonitorLines(u)
  BY <1>5, <1>6, StripIsOutside
<1> QED
  BY <1>7 DEF u

\* What send_command() makes of a text with whole packets in it.
LEMMA PacketsComeOff ==
  ASSUME NEW s \in Seq(Tokens), Clean(s), StripMonitorLines(s) # << >>
  PROVE  StripMonitorLines(StripBlank(s)) = StripMonitorLines(s)
<1>1. s # << >>
  BY CleanEmpty
<1>2. Len(s) \in Nat /\ Len(s) >= 1 /\ 1 \in 1..Len(s)
  BY <1>1, EmptySeq
<1>3. s[1].t # "blank"
  <2>1. ASSUME InPacket(s, 1) PROVE s[1].t = "header"
    <3>1. PICK j \in 1..1 : s[j].t = "header"
      BY <2>1 DEF InPacket
    <3>2. j = 1
      OBVIOUS
    <3> QED
      BY <3>1, <3>2
  <2> QED
    BY <1>2, <2>1 DEF Clean
<1> DEFINE solid == {i \in 1..Len(s) : s[i].t # "blank"}
           m == Max(solid)
<1>4. solid \in SUBSET (0..Len(s)) /\ solid # {}
  BY <1>2, <1>3
<1>5. m \in solid /\ \A i \in solid : m >= i
  BY <1>2, <1>4, MaxMember
<1> HIDE DEF m
<1>6. m \in 1..Len(s) /\ s[m].t # "blank" /\ \A i \in 1..Len(s) : s[i].t # "blank" => m >= i
  BY <1>5
<1> DEFINE a == SubSeq(s, 1, m)
           t == SubSeq(s, m + 1, Len(s))
<1>7. /\ a \in Seq(Tokens) /\ t \in Seq(Tokens) /\ a \o t = s
      /\ Len(a) = m /\ \A i \in 1..m : a[i] = s[i]
      /\ Len(t) = Len(s) - m /\ \A i \in 1..(Len(s) - m) : t[i] = s[m + i]
  BY <1>2, <1>6
<1> HIDE DEF a, t
<1>8. a # << >> /\ a[1].t # "blank" /\ a[Len(a)].t # "blank"
  BY <1>3, <1>6, <1>7
<1>9. AllBlank(t)
  <2>1. ASSUME NEW i \in 1..Len(t) PROVE t[i].t = "blank"
    <3>1. m + i \in 1..Len(s) /\ m + i > m /\ t[i] = s[m + i]
      BY <1>2, <1>6, <1>7
    <3> QED
      BY <1>6, <3>1
  <2> QED
    BY <2>1 DEF AllBlank
<1>10. StripBlank(s) = a
  <2>1. StripBlank(a \o t) = a
    BY <1>7, <1>8, <1>9, BlanksComeOff
  <2> QED
    BY <1>7, <2>1
<1>11. StripMonitorLines(a) = StripMonitorLines(s)
  <2>1. Clean(a \o t)
    BY <1>7
  <2>2. StripMonitorLines(a) = StripMonitorLines(a \o t)
    BY <1>7, <1>9, <2>1, StripTrimmed
  <2> QED
    BY <1>7, <2>2
<1> QED
  BY <1>10, <1>11

-----------------------------------------------------------------------------
(***************************************************************************)
(* The invariant of send_command(): what was heard and is still to be read,*)
(* the MONITOR packets taken out of it, and what is still to be printed    *)
(* are the echo and an answer, to a KAM-XL that was idle.                  *)
(***************************************************************************)
Said == {x \in Tokens : x.t \in {"echo", "answer", "more", "EH?"}}
Answers == {<<Tok("answer", calls), Tok("more", calls)>>, <<Tok("EH?", calls)>>}
EchoPart == Echo(Tok("command", calls))
Text == heard \o line

\* Of an answer, some lines are in the text, and the others still to be printed; or it
\* is all there, before the prompt.
Printing(text, r) ==
  /\ Clean(text)
  /\ \E j \in Seq(Said) : job = Append(j, Prompt) /\ StripMonitorLines(text) \o j = EchoPart \o r
Printed(text, r) ==
  /\ job = << >>
  /\ \E b, c \in Seq(Tokens) :
       text = b \o (<<Prompt>> \o c) /\ Clean(b) /\ StripMonitorLines(b) = EchoPart \o r

CommandInv ==
  pc = "command" /\ quiet =>
    /\ mode = "command" /\ link = "none"
    /\ \/ /\ input = <<Tok("command", calls)>> /\ job = << >>
          /\ Clean(Text) /\ StripMonitorLines(Text) = << >>
       \/ input = << >> /\ \E r \in Answers : Printing(Text, r) \/ Printed(Text, r)

LEMMA AnswerTokens ==
  ASSUME calls \in Nat
  PROVE  /\ \A r \in Answers : r \in Seq(Said) /\ r # << >>
         /\ EchoPart \in Seq(Said) /\ Prompt \in Tokens /\ Said \subseteq Tokens
<1>1. \A t \in {"echo", "answer", "more", "EH?"} : Tok(t, calls) \in Said
  BY DEF Tok, Said, Tokens, TokTypes
<1>2. \A r \in Answers : r \in Seq(Said) /\ r # << >>
  <2> DEFINE x == Tok("answer", calls)
             y == Tok("more", calls)
             z == Tok("EH?", calls)
  <2>1. x \in Said /\ y \in Said /\ z \in Said
    BY <1>1
  <2>2. Answers = {<<x, y>>, <<z>>}
    BY DEF Answers
  <2> HIDE DEF x, y, z
  <2>3. /\ <<x, y>> \in Seq(Said) /\ <<x, y>> # << >>
        /\ <<z>> \in Seq(Said) /\ <<z>> # << >>
    BY <2>1, Short
  <2> QED
    BY <2>2, <2>3
<1>3. EchoPart \in Seq(Said)
  <2> DEFINE x == Tok("echo", calls)
  <2>1. x \in Said /\ (EchoPart = << >> \/ EchoPart = <<x>>)
    BY <1>1 DEF EchoPart, Echo, Tok
  <2> HIDE DEF x
  <2>2. << >> \in Seq(Said) /\ <<x>> \in Seq(Said)
    BY <2>1, Short
  <2> QED
    BY <2>1, <2>2, Zenon
<1>4. Prompt \in Tokens /\ Said \subseteq Tokens
  BY DEF Prompt, Tok, Tokens, TokTypes, Said
<1> QED
  BY <1>2, <1>3, <1>4

LEMMA SaidIsTokens ==
  ASSUME NEW s \in Seq(Said)
  PROVE  s \in Seq(Tokens)
<1>1. Said \subseteq Tokens
  BY DEF Said
<1> QED
  BY <1>1

\* A line of what the KAM-XL has to say.
LEMMA PrintsOne ==
  ASSUME Typing, TncPrints, heard \in Seq(Tokens), NEW r \in Answers, Printing(Text, r),
         heard' = heard, calls' = calls, echo' = echo
  PROVE  Printing(Text, r)' \/ Printed(Text, r)'
<1>1. /\ line' = Append(line, Head(job)) /\ job' = Tail(job)
      /\ EchoPart' = EchoPart
      /\ line \in Seq(Tokens) /\ calls \in Nat
  BY DEF TncPrints, EchoPart, Echo, Typing
<1>2. PICK j \in Seq(Said) : job = Append(j, Prompt) /\ StripMonitorLines(Text) \o j = EchoPart \o r
  BY DEF Printing
<1>3. Clean(Text) /\ Text \in Seq(Tokens)
  BY DEF Printing, Clean
<1>4. Prompt \in Tokens
  BY <1>1, AnswerTokens
<1>5. j \in Seq(Tokens)
  BY <1>2, SaidIsTokens
<1> DEFINE x == Head(job)
<1>6. CASE j = << >>
  <2>1. x = Prompt /\ job' = << >>
    BY <1>1, <1>2, <1>4, <1>6
  <2>2. Text' = Text \o (<<Prompt>> \o << >>)
    <3>1. Text' = Append(Text, Prompt)
      BY <1>1, <1>4, <2>1 DEF Text
    <3>2. <<Prompt>> \in Seq(Tokens) /\ <<Prompt>> \o << >> = <<Prompt>>
      BY <1>4, ConcatEmptySeq
    <3>3. Append(Text, Prompt) = Text \o <<Prompt>>
      BY <1>3, <1>4, AppendIsConcat
    <3> QED
      BY <3>1, <3>2, <3>3
  <2>3. StripMonitorLines(Text) = EchoPart \o r
    <3>1. StripMonitorLines(Text) \in Seq(Tokens)
      BY <1>3, StripType
    <3>2. StripMonitorLines(Text) \o << >> = StripMonitorLines(Text)
      BY <3>1, ConcatEmptySeq
    <3> QED
      BY <1>2, <1>6, <3>2
  <2>4. << >> \in Seq(Tokens)
    OBVIOUS
  <2>5. Printed(Text, r)'
    BY <1>1, <1>3, <2>1, <2>2, <2>3, <2>4 DEF Printed
  <2> QED
    BY <2>5
<1>7. CASE j # << >>
  <2>1. /\ x = Head(j) /\ job' = Append(Tail(j), Prompt)
        /\ Head(j) \in Said /\ Tail(j) \in Seq(Said)
    BY <1>1, <1>2, <1>4, <1>7
  <2>2. x \in Tokens /\ x.t \notin {"header", "blank", "cmd"}
    BY <2>1 DEF Said
  <2> HIDE DEF x
  <2>3. Text' = Append(Text, x)
    <3>1. line' = Append(line, x) /\ heard' = heard
      BY <1>1 DEF x
    <3>2. heard \o Append(line, x) = Append(heard \o line, x)
      BY <1>1, <2>2
    <3> QED
      BY <3>1, <3>2 DEF Text
  <2>4. Clean(Text') /\ StripMonitorLines(Text') = Append(StripMonitorLines(Text), x)
    BY <1>3, <2>2, <2>3, CleanAppend
  <2>5. Append(StripMonitorLines(Text), x) \o Tail(j) = StripMonitorLines(Text) \o j
    <3>1. StripMonitorLines(Text) \in Seq(Tokens)
      BY <1>3, StripType
    <3>2. Append(StripMonitorLines(Text), Head(j)) \o Tail(j) = StripMonitorLines(Text) \o j
      BY <1>5, <1>7, <3>1, MovesOn
    <3> QED
      BY <2>1, <3>2
  <2>6. StripMonitorLines(Text') \o Tail(j) = EchoPart' \o r
    BY <1>1, <1>2, <2>4, <2>5
  <2>7. Printing(Text, r)'
    BY <2>1, <2>4, <2>6 DEF Printing
  <2> QED
    BY <2>7
<1> QED
  BY <1>6, <1>7

\* A packet comes between two lines.
LEMMA PacketBetween ==
  ASSUME Typing, CommandInv, Packet, pc = "command", quiet
  PROVE  CommandInv'
<1>1. /\ line' = line \o PacketOf(packets') /\ packets' \in Nat
      /\ heard' = heard /\ calls' = calls /\ job' = job /\ input' = input /\ mode' = mode
      /\ link' = link
      /\ echo' = echo
  BY DEF Packet, PacketOf, driverVars, Typing
<1>2. EchoPart' = EchoPart /\ Answers' = Answers
  BY <1>1 DEF EchoPart, Echo, Answers
<1>3. /\ heard \in Seq(Tokens) /\ line \in Seq(Tokens) /\ PacketOf(packets') \in Seq(Tokens)
      /\ calls \in Nat /\ Prompt \in Tokens
  BY <1>1, PacketTokens, AnswerTokens DEF Typing
<1>4. Text' = Text \o PacketOf(packets') /\ Text \in Seq(Tokens)
  <2>1. Regroups(heard, line, PacketOf(packets'))
    BY <1>3, ThreeParts, Zenon
  <2>2. heard \o line \in Seq(Tokens)
    BY <1>3, ConcatProperties
  <2> QED
    BY <1>1, <2>1, <2>2 DEF Text, Regroups
<1>5. ASSUME Clean(Text) PROVE Clean(Text') /\ StripMonitorLines(Text') = StripMonitorLines(Text)
  BY <1>1, <1>4, <1>5, CleanPacket
<1>6. ASSUME NEW r, Printing(Text, r) PROVE Printing(Text, r)'
  BY <1>1, <1>2, <1>5, <1>6 DEF Printing
<1>7. ASSUME NEW r, Printed(Text, r) PROVE Printed(Text, r)'
  <2>1. PICK b \in Seq(Tokens), c \in Seq(Tokens) :
           Text = b \o (<<Prompt>> \o c) /\ Clean(b) /\ StripMonitorLines(b) = EchoPart \o r
    BY <1>7 DEF Printed
  <2> DEFINE p == PacketOf(packets')
             d == <<Prompt>> \o c
  <2>2. /\ <<Prompt>> \in Seq(Tokens) /\ d \in Seq(Tokens) /\ p \in Seq(Tokens)
        /\ c \o p \in Seq(Tokens)
    BY <1>3, <2>1, ConcatProperties
  <2>3. Regroups(b, d, p) /\ Regroups(<<Prompt>>, c, p)
    BY <2>1, <2>2, ThreeParts, Zenon
  <2>4. Text' = b \o (<<Prompt>> \o (c \o p))
    BY <1>4, <2>1, <2>3 DEF Regroups
  <2> QED
    BY <1>1, <1>2, <1>7, <2>1, <2>2, <2>4 DEF Printed
<1>8. /\ mode = "command" /\ link = "none"
      /\ \/ /\ input = <<Tok("command", calls)>> /\ job = << >>
            /\ Clean(Text) /\ StripMonitorLines(Text) = << >>
         \/ input = << >> /\ \E r \in Answers : Printing(Text, r) \/ Printed(Text, r)
  BY DEF CommandInv
<1>9. CASE /\ input = <<Tok("command", calls)>> /\ job = << >>
           /\ Clean(Text) /\ StripMonitorLines(Text) = << >>
  BY <1>1, <1>5, <1>8, <1>9 DEF CommandInv
<1>10. CASE input = << >> /\ \E r \in Answers : Printing(Text, r) \/ Printed(Text, r)
  <2>1. PICK r \in Answers : Printing(Text, r) \/ Printed(Text, r)
    BY <1>10
  <2>2. Printing(Text, r)' \/ Printed(Text, r)'
    BY <1>6, <1>7, <2>1
  <2>3. r \in Answers'
    BY <1>2
  <2> QED
    BY <1>1, <1>8, <1>10, <2>2, <2>3 DEF CommandInv
<1> QED
  BY <1>8, <1>9, <1>10

\* The KAM-XL takes the command, and knows what it is going to print.
LEMMA CommandTaken ==
  ASSUME Typing, CommandInv, TakeCommand, pc = "command", quiet
  PROVE  CommandInv'
<1>1. /\ line' = line /\ heard' = heard /\ calls' = calls /\ mode' = mode /\ echo' = echo
      /\ input # << >> /\ input' = Tail(input) /\ job = << >>
  BY DEF TakeCommand, driverVars
<1> DEFINE unit == Tok("command", calls)
<1>2. /\ mode = "command" /\ link = "none" /\ input = <<unit>>
      /\ Clean(Text) /\ StripMonitorLines(Text) = << >>
  BY <1>1 DEF CommandInv
<1>3. Head(input) = unit /\ input' = << >> /\ unit.t = "command" /\ unit.id = calls
  <2>1. Head(<<unit>>) = unit /\ Tail(<<unit>>) = << >> /\ unit.t = "command" /\ unit.id = calls
    BY DEF Tok
  <2> QED
    BY <1>1, <1>2, <2>1
<1> HIDE DEF unit
<1>4. PICK reply \in Reply(unit) : job' = Echo(unit) \o reply
  BY <1>3 DEF TakeCommand
<1>5. link' = link
  BY <1>2, <1>3 DEF TakeCommand
<1>6. /\ EchoPart' = EchoPart /\ Answers' = Answers /\ Echo(unit) = EchoPart /\ Text' = Text
      /\ calls \in Nat
  BY <1>1 DEF EchoPart, Echo, Answers, Text, unit, Typing
<1>7. \E r \in Answers : reply = Append(r, Prompt)
  <2>1. Reply(unit) = {<<Tok("answer", calls), Tok("more", calls), Prompt>>,
                       <<Tok("EH?", calls), Prompt>>}
    BY <1>3 DEF Reply
  <2> DEFINE x == Tok("answer", calls)
             y == Tok("more", calls)
             z == Tok("EH?", calls)
  <2>2. /\ <<x, y, Prompt>> = Append(<<x, y>>, Prompt)
        /\ <<z, Prompt>> = Append(<<z>>, Prompt)
    OBVIOUS
  <2>3. Answers = {<<x, y>>, <<z>>}
    BY DEF Answers
  <2>4. reply = <<x, y, Prompt>> \/ reply = <<z, Prompt>>
    BY <1>4, <2>1
  <2> HIDE DEF x, y, z
  <2> QED
    BY <2>2, <2>3, <2>4
<1>8. PICK r \in Answers : reply = Append(r, Prompt)
  BY <1>7
<1> DEFINE j == EchoPart \o r
<1>9. /\ EchoPart \in Seq(Said) /\ r \in Seq(Said) /\ EchoPart \in Seq(Tokens) /\ r \in Seq(Tokens)
      /\ Prompt \in Tokens
  BY <1>6, <1>8, AnswerTokens, SaidIsTokens
<1>10. j \in Seq(Said) /\ << >> \o j = j
  BY <1>9, ConcatProperties, ConcatEmptySeq
<1>11. job' = Append(j, Prompt)
  <2>1. EchoPart \o Append(r, Prompt) = Append(EchoPart \o r, Prompt)
    BY <1>9
  <2> QED
    BY <1>4, <1>6, <1>8, <2>1
<1>12. Printing(Text, r)'
  <2>1. StripMonitorLines(Text') \o j = EchoPart' \o r
    BY <1>2, <1>6, <1>10
  <2>2. Clean(Text')
    BY <1>2, <1>6
  <2> HIDE DEF j
  <2> QED
    BY <1>10, <1>11, <2>1, <2>2 DEF Printing
<1> QED
  BY <1>1, <1>2, <1>3, <1>5, <1>6, <1>12 DEF CommandInv

LEMMA CommandTnc ==
  ASSUME TermInv, CommandInv, Tnc
  PROVE  CommandInv'
<1> SUFFICES ASSUME pc = "command", quiet PROVE CommandInv'
  BY DEF CommandInv, Tnc, TakeCommand, TakeText, TncPrints, LinkMade, LinkRefused, LinkEnds,
     RemoteSays, Packet, driverVars
<1>0. Typing
  BY DEF TermInv
<1>1. mode = "command" /\ link = "none" /\ (input # << >> => input = <<Tok("command", calls)>>)
  BY DEF CommandInv
<1>2. ~LinkMade /\ ~LinkRefused /\ ~LinkEnds /\ ~RemoteSays
  BY <1>1 DEF LinkMade, LinkRefused, LinkEnds, RemoteSays
<1>3. ~TakeText
  <2>1. ASSUME TakeText PROVE FALSE
    <3>1. input = <<Tok("command", calls)>> /\ Head(input).t = "ctrlC"
      BY <1>1, <2>1 DEF TakeText
    <3>2. Head(<<Tok("command", calls)>>).t = "command"
      BY DEF Tok
    <3> QED
      BY <3>1, <3>2
  <2> QED
    BY <2>1
<1>4. CASE TakeCommand
  BY <1>0, <1>4, CommandTaken
<1>5. CASE Packet
  BY <1>0, <1>5, PacketBetween
<1>6. CASE TncPrints
  <2>1. /\ heard' = heard /\ calls' = calls /\ echo' = echo /\ mode' = mode /\ link' = link
        /\ input' = input /\ job # << >>
    BY <1>6 DEF TncPrints, driverVars
  <2>2. PICK r \in Answers : Printing(Text, r)
    BY <2>1 DEF CommandInv, Printed
  <2>3. input = << >>
    BY <2>1 DEF CommandInv
  <2>4. Printing(Text, r)' \/ Printed(Text, r)'
    BY <1>0, <1>6, <2>1, <2>2, PrintsOne DEF Typing
  <2>5. r \in Answers'
    BY <2>1 DEF Answers
  <2> QED
    BY <1>1, <2>1, <2>3, <2>4, <2>5 DEF CommandInv
<1> QED
  BY <1>2, <1>3, <1>4, <1>5, <1>6 DEF Tnc

LEMMA CommandStarts ==
  ASSUME TermInv, SendCommand
  PROVE  CommandInv'
<1> SUFFICES ASSUME quiet' PROVE CommandInv'
  BY DEF CommandInv
<1>1. PICK n \in Arrived : line' = After(n) /\ quiet' = (TncIdle /\ n = Len(line))
  BY DEF SendCommand, Reset, AfterReset
<1>2. /\ heard' = << >> /\ job' = job /\ mode' = mode /\ link' = link
      /\ input' = Append(input, Tok("command", calls'))
  BY DEF SendCommand, Call, Write
<1>3. n = Len(line) /\ input = << >> /\ job = << >> /\ mode = "command" /\ link = "none"
  BY <1>1 DEF TncIdle
<1>4. line' = << >>
  <2>1. line \in Seq(Tokens) /\ Len(line) \in Nat
    BY DEF TermInv, Typing
  <2> QED
    BY <1>1, <1>3, <2>1 DEF After
<1>5. Text' = << >>
  BY <1>2, <1>4 DEF Text
<1>6. input' = <<Tok("command", calls')>>
  BY <1>2, <1>3
<1>7. Clean(Text') /\ StripMonitorLines(Text') = << >>
  BY <1>5, CleanEmpty
<1> QED
  BY <1>2, <1>3, <1>6, <1>7 DEF CommandInv

\* Reading does not change the text.
LEMMA ReadKeepsText ==
  ASSUME Typing, Read
  PROVE  Text' = Text
<1>1. PICK n \in Arrived : /\ heard' = heard \o SubSeq(line, 1, n)
                           /\ line' = SubSeq(line, n + 1, Len(line))
  BY DEF Read, After
<1> DEFINE a == SubSeq(line, 1, n)
           t == SubSeq(line, n + 1, Len(line))
<1>2. heard \in Seq(Tokens) /\ line \in Seq(Tokens) /\ n \in 0..Len(line)
  BY <1>1 DEF Typing, Arrived
<1>3. a \in Seq(Tokens) /\ t \in Seq(Tokens) /\ a \o t = line
  BY <1>2, Halves
<1> HIDE DEF a, t
<1>4. Regroups(heard, a, t)
  BY <1>2, <1>3, ThreeParts, Zenon
<1>5. heard' = heard \o a /\ line' = t
  BY <1>1 DEF a, t
<1> QED
  BY <1>3, <1>4, <1>5 DEF Text, Regroups

LEMMA CommandReads ==
  ASSUME TermInv, CommandInv, Read
  PROVE  CommandInv'
<1>1. /\ Text' = Text /\ input' = input /\ job' = job /\ link' = link /\ mode' = mode /\ pc' = pc
      /\ quiet' = quiet /\ Answers' = Answers /\ EchoPart' = EchoPart /\ calls' = calls
  BY ReadKeepsText DEF TermInv, Read, tncVars, Answers, EchoPart, Echo
<1> QED
  BY <1>1 DEF CommandInv, Printing, Printed

LEMMA CommandKept ==
  ASSUME TermInv, CommandInv, [Next]_vars
  PROVE  CommandInv'
<1>1. CASE UNCHANGED vars
  BY <1>1 DEF vars, tncVars, driverVars, CommandInv, Printing, Printed, Text, Answers,
     EchoPart, Echo
<1>2. CASE Tnc
  BY <1>2, CommandTnc
<1>3. CASE SendCommand
  BY <1>3, CommandStarts
<1>4. CASE Read
  BY <1>4, CommandReads
<1>5. CASE ConnectStation \/ CtrlC \/ SendConnected \/ ReadConnected
  BY <1>5 DEF ConnectStation, CtrlC, SendConnected, ReadConnected, Call, CommandInv
<1>6. CASE Poll \/ Disconne
  BY <1>6 DEF Poll, Disconne, CommandInv
<1>7. CASE TimesOut \/ CommandReturns \/ ConnectReturns \/ EnterReturns \/ DisconnectReturns
           \/ ReadReturns
  BY <1>7 DEF TimesOut, CommandReturns, ConnectReturns, EnterReturns, DisconnectReturns,
     ReadReturns, Ends, CommandInv
<1> QED
  BY <1>1, <1>2, <1>3, <1>4, <1>5, <1>6, <1>7 DEF Next, Driver

-----------------------------------------------------------------------------
(***************************************************************************)
(* What send_command() makes of the text.                                  *)
(***************************************************************************)
\* The prompt is in what was heard: what comes before it is the answer.
LEMMA HeardBefore ==
  ASSUME TermInv, CommandInv, pc = "command", quiet, Seen
  PROVE  \E r \in Answers : \E b \in Seq(Tokens) :
           BeforePrompt(heard) = b /\ Clean(b) /\ StripMonitorLines(b) = EchoPart \o r
<1>1. /\ heard \in Seq(Tokens) /\ line \in Seq(Tokens) /\ calls \in Nat
      /\ Prompt \in Tokens /\ Prompt.t = "cmd"
  BY AnswerTokens DEF TermInv, Typing, Prompt, Tok
<1>2. PICK i \in 1..Len(heard) : heard[i].t = "cmd"
  BY DEF Seen, Awaited, Has
<1>3. /\ Len(Text) = Len(heard) + Len(line) /\ \A k \in 1..Len(heard) : Text[k] = heard[k]
      /\ Len(heard) \in Nat /\ Len(line) \in Nat /\ Text \in Seq(Tokens)
  BY <1>1 DEF Text
<1>4. i \in 1..Len(Text) /\ Text[i].t = "cmd"
  BY <1>2, <1>3
<1>5. ~Clean(Text)
  BY <1>4 DEF Clean
<1>6. PICK r \in Answers : Printed(Text, r)
  BY <1>5 DEF CommandInv, Printing
<1>7. PICK b \in Seq(Tokens), c \in Seq(Tokens) :
        Text = b \o (<<Prompt>> \o c) /\ Clean(b) /\ StripMonitorLines(b) = EchoPart \o r
  BY <1>6 DEF Printed
<1> DEFINE d == <<Prompt>> \o c
           n == Len(b)
<1>8. d \in Seq(Tokens) /\ d[1] = Prompt
  BY <1>1, <1>7
<1> HIDE DEF d
<1>9. /\ n \in Nat /\ Len(Text) = n + Len(d) /\ \A k \in 1..n : Text[k] = b[k]
      /\ \A k \in 1..Len(d) : Text[n + k] = d[k]
      /\ 1 \in 1..Len(d)
  <2>1. Text = b \o d /\ b \in Seq(Tokens) /\ d \in Seq(Tokens)
    BY <1>7, <1>8 DEF d
  <2>2. Len(d) \in Nat /\ Len(d) >= 1
    BY <1>1, <1>7 DEF d
  <2> QED
    BY <2>1, <2>2
<1>10. i > n
  <2>1. \A k \in 1..n : b[k].t # "cmd"
    BY <1>7 DEF Clean
  <2>2. i \notin 1..n
    BY <1>4, <1>9, <2>1
  <2> QED
    BY <1>2, <1>9, <2>2
<1> DEFINE t == SubSeq(heard, n + 1, Len(heard))
<1>11. n + 1 \in 1..Len(heard) /\ n < Len(heard) /\ n \in 0..Len(heard)
  BY <1>2, <1>3, <1>9, <1>10
<1>12. t \in Seq(Tokens) /\ t # << >> /\ t[1] = heard[n + 1]
  <2>1. /\ t \in Seq(Tokens) /\ Len(t) = Len(heard) - n
        /\ \A k \in 1..(Len(heard) - n) : t[k] = heard[n + k]
    BY <1>1, <1>11, Halves
  <2> HIDE DEF t
  <2>2. n \in Nat /\ Len(heard) \in Nat /\ 1 \in 1..(Len(heard) - n)
    BY <1>3, <1>9, <1>11
  <2> QED
    BY <2>1, <2>2
<1>13. t[1].t = "cmd"
  <2>1. heard[n + 1] = Text[n + 1] /\ Text[n + 1] = d[1]
    BY <1>3, <1>9, <1>11
  <2> QED
    BY <1>1, <1>8, <1>12, <2>1
<1>14. heard = b \o t
  <2>1. SubSeq(heard, 1, n) \o t = heard
    BY <1>1, <1>11, Halves
  <2>2. SubSeq(heard, 1, n) = b
    <3>1. /\ SubSeq(heard, 1, n) \in Seq(Tokens) /\ Len(SubSeq(heard, 1, n)) = n
          /\ \A k \in 1..n : SubSeq(heard, 1, n)[k] = heard[k]
      BY <1>1, <1>11
    <3>2. \A k \in 1..n : heard[k] = b[k]
      BY <1>3, <1>9, <1>11
    <3> QED
      BY <1>7, <3>1, <3>2, SeqEqual
  <2> QED
    BY <2>1, <2>2
<1> HIDE DEF t, n
<1>15. BeforePrompt(b \o t) = b
  BY <1>7, <1>12, <1>13, PromptEnds DEF Clean
<1>16. BeforePrompt(heard) = b
  BY <1>14, <1>15
<1> QED
  BY <1>6, <1>7, <1>16

\* The echo comes off, and there is nothing else to take away.
LEMMA EchoComesOff ==
  ASSUME calls \in Nat, echo \in BOOLEAN, NEW r \in Answers
  PROVE  StripBlank(RemoveEcho(EchoPart \o r)) = r
<1>1. EchoPart \in Seq(Said) /\ r \in Seq(Said) /\ r # << >> /\ r \in Seq(Tokens)
  BY AnswerTokens, SaidIsTokens
<1>2. r[1].t \in {"answer", "EH?"} /\ r[1] # Tok("echo", calls)
  BY DEF Answers, Tok
<1>3. RemoveEcho(EchoPart \o r) = r
  <2>1. CASE echo
    <3> DEFINE x == Tok("echo", calls)
    <3>1. EchoPart = <<x>>
      BY <2>1 DEF EchoPart, Echo, Tok
    <3> HIDE DEF x
    <3>2. <<x>> \o r # << >> /\ (<<x>> \o r)[1] = x /\ Tail(<<x>> \o r) = r
      BY <1>1
    <3> QED
      BY <3>1, <3>2 DEF RemoveEcho, x
  <2>2. CASE ~echo
    <3>1. EchoPart = << >> /\ << >> \o r = r
      BY <1>1, <2>2, ConcatEmptySeq DEF EchoPart, Echo
    <3> QED
      BY <1>2, <3>1 DEF RemoveEcho
  <2> QED
    BY <2>1, <2>2
<1>4. StripBlank(r) = r
  <2>1. \A i \in 1..Len(r) : r[i].t # "blank"
    BY <1>1 DEF Said
  <2>2. Len(r) \in Nat /\ 1 \in 1..Len(r) /\ Len(r) \in 1..Len(r)
    BY <1>1, EmptySeq
  <2>3. << >> \in Seq(Tokens) /\ AllBlank(<< >>) /\ r \o << >> = r
    BY <1>1, ConcatEmptySeq DEF AllBlank
  <2>4. StripBlank(r \o << >>) = r
    BY <1>1, <2>1, <2>2, <2>3, BlanksComeOff
  <2> QED
    BY <2>3, <2>4
<1> QED
  BY <1>3, <1>4

\* A command to an idle KAM-XL returns its answer, or is rejected with its EH?.
LEMMA AnsweredRight ==
  ASSUME TermInv, CommandInv, echo \in BOOLEAN, CommandReturns, quiet
  PROVE  QuietCommandIsAnswered'
<1>1. pc = "command" /\ Seen /\ calls \in Nat
  BY DEF CommandReturns, TermInv, Typing
<1>2. PICK r \in Answers, b \in Seq(Tokens) :
        BeforePrompt(heard) = b /\ Clean(b) /\ StripMonitorLines(b) = EchoPart \o r
  BY <1>1, HeardBefore
<1>3. StripMonitorLines(b) # << >>
  <2>1. r \in Seq(Said) /\ r # << >> /\ EchoPart \in Seq(Said)
    BY <1>1, AnswerTokens
  <2>2. EchoPart \o r # << >>
    BY <2>1
  <2> QED
    BY <1>2, <2>2
<1>4. StripMonitorLines(StripBlank(BeforePrompt(heard))) = EchoPart \o r
  BY <1>2, <1>3, PacketsComeOff
<1>5. StripBlank(RemoveEcho(EchoPart \o r)) = r
  BY <1>1, EchoComesOff
<1>6. Ends("command", IF Has(r, {"EH?"}) THEN "rejected" ELSE "returned", r)
  BY <1>4, <1>5 DEF CommandReturns
<1>7. calls' = calls /\ last' = [op |-> "command",
        how |-> IF Has(r, {"EH?"}) THEN "rejected" ELSE "returned", text |-> r]
  BY <1>6 DEF Ends
<1>8. CASE r = <<Tok("answer", calls), Tok("more", calls)>>
  <2>1. ~Has(r, {"EH?"})
    <3>1. Len(r) = 2 /\ r[1].t = "answer" /\ r[2].t = "more"
      BY <1>8 DEF Tok
    <3>2. \A i \in 1..2 : i = 1 \/ i = 2
      OBVIOUS
    <3> QED
      BY <3>1, <3>2 DEF Has
  <2>2. last'.how = "returned" /\ last'.text = r
    BY <1>7, <2>1
  <2> QED
    BY <1>7, <1>8, <2>2 DEF QuietCommandIsAnswered
<1>9. CASE r = <<Tok("EH?", calls)>>
  <2>1. Has(r, {"EH?"})
    <3>1. Len(r) = 1 /\ r[1].t = "EH?"
      BY <1>9 DEF Tok
    <3>2. 1 \in 1..1
      OBVIOUS
    <3> QED
      BY <3>1, <3>2 DEF Has
  <2>2. last'.how = "rejected" /\ last'.text = r
    BY <1>7, <2>1
  <2> QED
    BY <1>7, <1>9, <2>2 DEF QuietCommandIsAnswered
<1> QED
  BY <1>2, <1>8, <1>9 DEF Answers

LEMMA AnswerStays ==
  ASSUME TermInv, CommandInv, echo \in BOOLEAN, QuietCommandIsAnswered, [Next]_vars
  PROVE  QuietCommandIsAnswered'
<1>1. CASE UNCHANGED vars
  BY <1>1 DEF vars, driverVars, QuietCommandIsAnswered
<1>2. CASE Tnc
  <2>1. UNCHANGED driverVars
    BY <1>2 DEF Tnc, TakeCommand, TakeText, TncPrints, LinkMade, LinkRefused, LinkEnds,
       RemoteSays, Packet
  <2> QED
    BY <2>1 DEF driverVars, QuietCommandIsAnswered
<1>3. CASE SendCommand \/ ConnectStation \/ CtrlC \/ SendConnected \/ ReadConnected
  <2>1. last' = NoCall
    BY <1>3 DEF SendCommand, ConnectStation, CtrlC, SendConnected, ReadConnected, Call
  <2> QED
    BY <2>1 DEF NoCall, QuietCommandIsAnswered
<1>4. CASE Poll \/ Read \/ Disconne
  <2>1. last' = last /\ quiet' = quiet /\ calls' = calls
    BY <1>4 DEF Poll, Read, Disconne
  <2> QED
    BY <2>1 DEF QuietCommandIsAnswered
<1>5. CASE TimesOut \/ ConnectReturns \/ EnterReturns \/ DisconnectReturns \/ ReadReturns
  <2>1. last'.op # "command" \/ last'.how = "timeout"
    BY <1>5 DEF TimesOut, ConnectReturns, EnterReturns, DisconnectReturns, ReadReturns, Ends
  <2> QED
    BY <2>1 DEF QuietCommandIsAnswered
<1>6. CASE CommandReturns
  <2>1. CASE quiet
    BY <1>6, <2>1, AnsweredRight
  <2>2. CASE ~quiet
    <3>1. quiet' = quiet
      BY <1>6 DEF CommandReturns, Ends
    <3> QED
      BY <2>2, <3>1 DEF QuietCommandIsAnswered
  <2> QED
    BY <2>1, <2>2
<1> QED
  BY <1>1, <1>2, <1>3, <1>4, <1>5, <1>6 DEF Next, Driver

-----------------------------------------------------------------------------
(***************************************************************************)
(* What a call reports.                                                    *)
(***************************************************************************)
Plain == Tokens \ [t : {"cmd"}, id : Nat]

\* What comes before the prompt has no prompt in it.
LEMMA BeforePromptPlain ==
  ASSUME NEW s \in Seq(Tokens)
  PROVE  BeforePrompt(s) \in Seq(Plain)
<1> DEFINE K(u) == {i \in 1..Len(u) : \A k \in 1..i : u[k].t # "cmd"}
           P == {u \in Seq(Tokens) : Pick(u, K(u)) \in Seq(Plain)}
<1>1. << >> \in P
  <2>1. << >> \in Seq(Tokens) /\ << >> \in Seq(Plain)
    OBVIOUS
  <2> QED
    BY <2>1, PickEmpty
<1>2. ASSUME NEW u \in Seq(Tokens), NEW x \in Tokens, u \in P PROVE Append(u, x) \in P
  <2> DEFINE w == Append(u, x)
             n == Len(u)
  <2>1. /\ n \in Nat /\ Len(w) = n + 1 /\ w[n + 1] = x /\ \A i \in 1..n : w[i] = u[i]
        /\ w \in Seq(Tokens)
    BY AppendProperties
  <2> HIDE DEF w
  <2>2. \A i \in 1..n : i \in K(u) <=> i \in K(w)
    <3> HIDE DEF n
    <3>1. \A i \in 1..n : i \in 1..Len(w) /\ \A k \in 1..i : k \in 1..n
      BY <2>1
    <3> QED
      BY <2>1, <3>1 DEF n
  <2> DEFINE old == K(u)
             kept == K(w)
  <2>3. old = K(u) /\ kept = K(w)
    OBVIOUS
  <2>4. n + 1 \in kept => x.t # "cmd"
    <3> HIDE DEF n
    <3>1. n + 1 \in 1..(n + 1)
      BY <2>1
    <3> QED
      BY <2>1, <3>1
  <2> HIDE DEF old, kept, n, K
  <2>5. Pick(Append(u, x), kept) = IF Len(u) + 1 \in kept THEN Append(Pick(u, old), x)
                                   ELSE Pick(u, old)
    <3>1. \A i \in 1..Len(u) : i \in old <=> i \in kept
      BY <2>2, <2>3 DEF n
    <3> QED
      BY <3>1, PickAppend
  <2>6. Pick(u, old) \in Seq(Plain)
    BY <1>2, <2>3
  <2>7. x.t # "cmd" => x \in Plain
    <3>1. \A y \in [t : {"cmd"}, id : Nat] : y.t = "cmd"
      OBVIOUS
    <3> QED
      BY <3>1 DEF Plain
  <2>8. Pick(w, kept) \in Seq(Plain)
    BY <2>4, <2>5, <2>6, <2>7, AppendProperties DEF w, n
  <2> QED
    BY <2>1, <2>3, <2>8 DEF w
<1> HIDE DEF P
<1>3. Seq(Tokens) \subseteq P
  BY <1>1, <1>2, SeqInd
<1> QED
  BY <1>3 DEF P, BeforePrompt

\* Nothing that send_command() does to a text adds a line to it.
LEMMA OnlyTakesAway ==
  ASSUME NEW X, NEW s \in Seq(X)
  PROVE  /\ StripBlank(s) \in Seq(X) /\ StripMonitorLines(s) \in Seq(X)
         /\ RemoveEcho(s) \in Seq(X)
<1>1. StripBlank(s) \in Seq(X)
  BY PickType DEF StripBlank
<1>2. RemoveEcho(s) \in Seq(X)
  BY HeadTailProperties DEF RemoveEcho
<1> QED
  BY <1>1, <1>2, StripType

Reports ==
  /\ last.op \in {"none", "command", "connect", "enter", "leave", "disconne",
                 "disconnect", "read"}
  /\ last.how \in {"returned", "rejected", "refused", "timeout"}
  /\ last.text \in Seq(Tokens)
  /\ last.op = "command" /\ last.how # "timeout" => last.text \in Seq(Plain)

Flags ==
  /\ echo \in BOOLEAN /\ quiet \in BOOLEAN /\ polled \in BOOLEAN
  /\ mode \in {"command", "convers"}
  /\ pc \in {"idle", "command", "connect", "enter", "leave", "disconne", "read"}

LEMMA FlagsKept ==
  ASSUME Flags, [Next]_vars
  PROVE  Flags'
<1>1. CASE UNCHANGED vars
  BY <1>1 DEF vars, tncVars, driverVars, Flags
<1>2. CASE Tnc
  <2>1. UNCHANGED driverVars /\ echo' = echo
    BY <1>2 DEF Tnc, TakeCommand, TakeText, TncPrints, LinkMade, LinkRefused, LinkEnds,
       RemoteSays, Packet
  <2>2. mode' \in {"command", "convers"}
    BY <1>2 DEF Tnc, TakeCommand, TakeText, TncPrints, LinkMade, LinkRefused, LinkEnds,
       RemoteSays, Packet, Flags
  <2> QED
    BY <2>1, <2>2 DEF driverVars, Flags
<1>3. CASE SendCommand \/ ConnectStation \/ CtrlC \/ SendConnected \/ ReadConnected
  <2>1. /\ echo' = echo /\ polled' = polled /\ mode' = mode
        /\ pc' \in {"idle", "command", "connect", "enter", "leave", "disconne", "read"}
    BY <1>3 DEF SendCommand, ConnectStation, CtrlC, SendConnected, ReadConnected, Call
  <2>2. quiet' \in BOOLEAN
    BY <1>3, Zenon DEF SendCommand, ConnectStation, CtrlC, SendConnected, ReadConnected, TncIdle
  <2> QED
    BY <2>1, <2>2 DEF Flags
<1>4. CASE Poll
  <2>1. /\ echo' = echo /\ mode' = mode /\ pc' = pc /\ quiet' = quiet
    BY <1>4 DEF Poll, tncVars
  <2>2. polled' \in BOOLEAN
    BY <1>4, Zenon DEF Poll, Has
  <2> QED
    BY <2>1, <2>2 DEF Flags
<1>5. CASE Read \/ Disconne
  BY <1>5 DEF Read, Disconne, tncVars, Flags
<1>6. CASE TimesOut \/ CommandReturns \/ ConnectReturns \/ EnterReturns \/ DisconnectReturns
           \/ ReadReturns
  BY <1>6 DEF TimesOut, CommandReturns, ConnectReturns, EnterReturns, DisconnectReturns,
     ReadReturns, Ends, tncVars, Flags
<1> QED
  BY <1>1, <1>2, <1>3, <1>4, <1>5, <1>6 DEF Next, Driver

LEMMA ReportsKept ==
  ASSUME Typing, Flags, Reports, [Next]_vars
  PROVE  Reports'
<1>1. CASE UNCHANGED vars \/ Tnc \/ Poll \/ Read \/ Disconne
  <2>1. last' = last
    BY <1>1 DEF vars, driverVars, Tnc, TakeCommand, TakeText, TncPrints, LinkMade,
       LinkRefused, LinkEnds, RemoteSays, Packet, Poll, Read, Disconne
  <2> QED
    BY <2>1 DEF Reports
<1>2. CASE SendCommand \/ ConnectStation \/ CtrlC \/ SendConnected \/ ReadConnected
  <2>1. last' = NoCall
    BY <1>2 DEF SendCommand, ConnectStation, CtrlC, SendConnected, ReadConnected, Call
  <2>2. << >> \in Seq(Tokens)
    OBVIOUS
  <2> QED
    BY <2>1, <2>2 DEF NoCall, Reports
<1>3. heard \in Seq(Tokens)
  BY DEF Typing
<1>4. CASE TimesOut \/ ConnectReturns \/ EnterReturns \/ DisconnectReturns \/ ReadReturns
  BY <1>3, <1>4 DEF TimesOut, ConnectReturns, EnterReturns, DisconnectReturns, ReadReturns,
     Ends, Reports
<1>5. CASE CommandReturns
  <2> DEFINE text == StripBlank(RemoveEcho(StripMonitorLines(StripBlank(BeforePrompt(heard)))))
  <2>1. text \in Seq(Plain)
    BY <1>3, BeforePromptPlain, OnlyTakesAway
  <2>2. Ends("command", IF Has(text, {"EH?"}) THEN "rejected" ELSE "returned", text)
    BY <1>5 DEF CommandReturns
  <2> HIDE DEF text
  <2>3. text \in Seq(Tokens)
    BY <2>1, Wider DEF Plain
  <2> QED
    BY <2>1, <2>2, <2>3 DEF Ends, Reports
<1> QED
  BY <1>1, <1>2, <1>4, <1>5 DEF Next, Driver

-----------------------------------------------------------------------------
(***************************************************************************)
(* Every variable has its type, and a command that returned has no prompt  *)
(* in its answer.                                                          *)
(***************************************************************************)
CallInv == TermInv /\ Flags /\ Reports /\ CommandInv /\ QuietCommandIsAnswered

LEMMA CallsBegin == Init => CallInv
<1> SUFFICES ASSUME Init PROVE CallInv
  OBVIOUS
<1>1. << >> \in Seq(Tokens)
  OBVIOUS
<1>2. Flags /\ Reports
  BY <1>1 DEF Init, Flags, Reports, NoCall
<1>3. CommandInv /\ QuietCommandIsAnswered
  BY DEF Init, CommandInv, QuietCommandIsAnswered, NoCall
<1> QED
  BY <1>2, <1>3, Terminal DEF CallInv

LEMMA CallsKept == CallInv /\ [Next]_vars => CallInv'
<1> SUFFICES ASSUME CallInv, [Next]_vars PROVE CallInv'
  OBVIOUS
<1>1. TermInv' /\ Flags' /\ CommandInv'
  BY TermKept, FlagsKept, CommandKept DEF CallInv
<1>2. Reports'
  BY ReportsKept DEF CallInv, TermInv
<1>3. QuietCommandIsAnswered'
  BY AnswerStays DEF CallInv, Flags
<1> QED
  BY <1>1, <1>2, <1>3 DEF CallInv

THEOREM TypeCorrect == Spec => []TypeOK
<1>1. ASSUME CallInv PROVE TypeOK
  BY <1>1 DEF CallInv, TermInv, Typing, Units, Flags, Reports, Plain, TypeOK
<1> QED
  BY <1>1, CallsBegin, CallsKept, PTL DEF Spec

(***************************************************************************)
(* A command sent to an idle KAM-XL gets its own answer, all of it and     *)
(* nothing else: not its echo, nor a MONITOR packet, nor what was in the   *)
(* receive buffer (_read_until_prompt(), _strip_monitor_lines(),           *)
(* _remove_command_echo()).                                                *)
(***************************************************************************)
THEOREM CommandAnswered == Spec => []QuietCommandIsAnswered
<1>1. CallInv => QuietCommandIsAnswered
  BY DEF CallInv
<1> QED
  BY <1>1, CallsBegin, CallsKept, PTL DEF Spec
=============================================================================
