------------------------------ MODULE RestProofs ------------------------------
(***************************************************************************)
(* Theorems about the two ways the REST service uses the daemon: RestRelay *)
(* (for any command lines, requests, parameters and number of slots) and   *)
(* EventStream (for any streams, packets and socket buffer).               *)
(***************************************************************************)
EXTENDS RestRelay, EventStream, SequenceTheorems, TLAPS

(***************************************************************************)
(* The requests.                                                           *)
(***************************************************************************)
Times == [t : Nat, cm : Nat, c : Nat, r : Nat]
StepSet == [limit : Nat, grace : Nat, raises : BOOLEAN, asks : BOOLEAN]

\* The longest a step of the driver can take.
Span(s) == s.limit + s.grace

\* The requests that reach the daemon.
Reaches(r) == Route(r) \in ROUTES /\ r.path \notin Pages

LEMMA Paths ==
  ASSUME NEW r, Reaches(r)
  PROVE  \/ r.path \in {"/ping", "/status", "/configuration", "/params/C", "/params/C/raw",
                        "/connected/read", "/stations", "/stations/S", "/connect",
                        "/disconnect", "/connected/send", "/terminal/exec"}
         \/ r.path \in PBBSPaths \/ r.path \in WinlinkPaths \/ r.path \in WebService
BY DEF Reaches, Route, ROUTES, Pages, PBBSPaths, WinlinkPaths, WebService

LEMMA Single ==
  ASSUME NEW S, NEW x \in S
  PROVE  <<x>> \in Seq(S) /\ Len(<<x>>) = 1 /\ <<x>>[1] = x
OBVIOUS

LEMMA Kinds ==
  ASSUME NEW n \in Nat
  PROVE  /\ Raising(n) \in StepSet /\ Lenient(n) \in StepSet
         /\ Command(n) \in StepSet /\ Banner(n) \in StepSet
BY DEF Raising, Lenient, Command, Banner, Step, Grace, StepSet

LEMMA Spans ==
  ASSUME NEW n \in Nat
  PROVE  /\ Span(Raising(n)) = n /\ Span(Lenient(n)) = n /\ Span(Command(n)) = n
         /\ Span(Banner(n)) \in {n, n + 1}
BY DEF Raising, Lenient, Command, Banner, Step, Grace, Span

LEMMA SpanTyped ==
  ASSUME NEW s \in StepSet
  PROVE  Span(s) \in Nat /\ s.limit \in Nat /\ s.grace \in Nat
BY DEF StepSet, Span

LEMMA SessionTyped ==
  ASSUME NEW r, r.times \in Times, NEW polls \in Nat
  PROVE  Session(r, polls) \in Seq(StepSet) /\ Len(Session(r, polls)) >= 1
<1>1. /\ COMMAND \in StepSet /\ Banner(r.times.c) \in StepSet
      /\ Command(5) \in StepSet /\ Banner(30) \in StepSet
      /\ Lenient(r.times.r) \in StepSet
  BY Kinds DEF Times, COMMAND
<1> DEFINE a == Name(r)
           b == <<Banner(r.times.c)>>
           c == [k \in 1..polls |-> Lenient(r.times.r)]
           d == DISCONNECT(5, 30)
<1>2. a \in Seq(StepSet)
  BY <1>1, EmptySeq, Single DEF Name
<1>3. b \in Seq(StepSet) /\ Len(b) = 1
  BY <1>1, Single
<1>4. c \in Seq(StepSet)
  BY <1>1
<1>5. d \in Seq(StepSet)
  BY <1>1 DEF DISCONNECT
<1>6. Session(r, polls) = ((a \o b) \o c) \o d
  BY DEF Session
<1> HIDE DEF a, b, c, d
<1>7. (a \o b) \in Seq(StepSet) /\ Len(a \o b) = Len(a) + Len(b)
  BY <1>2, <1>3, ConcatProperties
<1>8. ((a \o b) \o c) \in Seq(StepSet) /\ Len((a \o b) \o c) = Len(a) + Len(b) + Len(c)
  BY <1>4, <1>7, ConcatProperties
<1>9. /\ (((a \o b) \o c) \o d) \in Seq(StepSet)
      /\ Len(((a \o b) \o c) \o d) = Len(a) + Len(b) + Len(c) + Len(d)
  BY <1>5, <1>8, ConcatProperties
<1>10. Len(a) \in Nat /\ Len(c) \in Nat /\ Len(d) \in Nat
  BY <1>2, <1>4, <1>5
<1> QED
  BY <1>3, <1>6, <1>9, <1>10

\* Each step of an operation has a limit.
LEMMA StepsTyped ==
  ASSUME NEW r, Reaches(r), r.times \in Times
  PROVE  Steps(r) \in Seq(StepSet)
<1> USE DEF PBBSPaths, WinlinkPaths, WebService
<1>1. /\ COMMAND \in StepSet
      /\ \A n \in Nat : /\ Raising(n) \in StepSet /\ Lenient(n) \in StepSet
                        /\ Command(n) \in StepSet /\ Banner(n) \in StepSet
  BY Kinds DEF COMMAND
<1>2. /\ r.times.t \in Nat /\ r.times.cm \in Nat
  BY DEF Times
<1>3. CASE r.path \in {"/ping", "/stations", "/stations/S"}
  BY <1>3, EmptySeq DEF Steps
<1>4. CASE r.path \in {"/status", "/connected/send", "/configuration", "/params/C/raw",
                       "/connect", "/terminal/exec", "/connected/read"}
  BY <1>1, <1>2, <1>4, Single DEF Steps
<1>5. CASE r.path = "/params/C"
  BY <1>1, <1>5 DEF Steps, SetTyped
<1>6. CASE r.path = "/disconnect"
  BY <1>1, <1>2, <1>6 DEF Steps, DISCONNECT
<1>7. CASE r.path \in PBBSPaths
  <2>1. Steps(r) = Session(r, 1)
    BY <1>7 DEF Steps
  <2> QED
    BY <2>1, SessionTyped
<1>8. CASE r.path \in WinlinkPaths
  <2>1. Steps(r) = Session(r, 3)
    BY <1>8 DEF Steps
  <2> QED
    BY <2>1, SessionTyped
<1>9. CASE r.path \in WebService
  BY <1>1, <1>9 DEF Steps
<1> QED
  BY <1>3, <1>4, <1>5, <1>6, <1>7, <1>8, <1>9, Paths

\* A request that writes does so under the lock.
LEMMA WritersLock == ASSUME NEW r, Writes(r) PROVE LockedSteps(r) >= 1
BY DEF Writes, Typed, Route, LockedSteps, WebService, Steps, SetTyped, PBBSPaths,
   WinlinkPaths

\* A typed PUT that reads back: one refusal, or one write and one read.
LEMMA TypedSteps ==
  ASSUME NEW r, Typed(r), ReadsBack(r)
  PROVE  /\ ~Accepted(r.command, r.value) => Steps(r) = <<Raising(0)>>
         /\ Accepted(r.command, r.value) => Steps(r) = <<COMMAND, COMMAND>> /\ Writes(r)
         /\ LockedSteps(r) = Len(Steps(r))
         /\ Reaches(r)
         /\ r.path = "/params/C"
<1>1. r.path = "/params/C" /\ r.method = "PUT" /\ Known(r.command)
  <2>1. <<r.method, r.path>> = <<"PUT", "/params/C">>
    BY DEF Typed, Route
  <2>2. r.path = "/params/C" /\ Known(r.command)
    BY DEF ReadsBack
  <2> QED
    BY <2>1, <2>2
<1>2. Steps(r) = SetTyped(r)
  BY <1>1 DEF Steps, PBBSPaths, WinlinkPaths, WebService
<1>3. LockedSteps(r) = Len(Steps(r))
  BY <1>1 DEF LockedSteps, WebService
<1>4. Reaches(r)
  BY <1>1 DEF Reaches, Route, ROUTES, Pages
<1> QED
  BY <1>1, <1>2, <1>3, <1>4 DEF SetTyped, Writes

-----------------------------------------------------------------------------
(***************************************************************************)
(* The invariant.                                                          *)
(***************************************************************************)
Handling == {"sent", "lock", "run", "ok", "error"}

Typing ==
  /\ up \in BOOLEAN
  /\ rest \in [Slots -> {"idle", "waiting", "done"}]
  /\ left \in [Slots -> Nat]
  /\ status \in [Slots -> {NoAnswer, 200, 204, 400, 401, 404, 405, 500, 502, 503, 504}]
  /\ handler \in [Slots -> {"none", "gone"} \cup Handling]
  /\ step \in [Slots -> Nat] /\ ran \in [Slots -> Nat]
  /\ holder \in Slots \cup {Free}
  /\ quiet \in BOOLEAN /\ late \subseteq Slots /\ clean \subseteq Slots
  /\ queued \subseteq Slots /\ saw \in [Slots -> SUBSET Slots]
  /\ DOMAIN params = DOMAIN Factory
  /\ DOMAIN reported = Slots

\* The command line and the requests do not change.
Given ==
  /\ Launchable(launch)
  /\ \A q \in Slots :
       asks[q] # NoRequest =>
         asks[q].times \in Times /\ (Writes(asks[q]) => asks[q].command \in DOMAIN Factory)

\* Where a slot's REST thread and the daemon's handler may be together.
Together(q) ==
  /\ rest[q] = "idle" => handler[q] = "none"
  /\ rest[q] # "idle" => asks[q] # NoRequest
  /\ rest[q] # "done" => status[q] = NoAnswer
  /\ status[q] = 200 => handler[q] \in {"none", "gone"}
  /\ handler[q] # "none" =>
       asks[q] # NoRequest /\ Reaches(asks[q]) /\ CheckAuth(launch, asks[q])
  /\ handler[q] \in {"none", "sent", "lock"} => ran[q] = 0
  /\ handler[q] = "lock" => LockedSteps(asks[q]) > 0
  /\ Running(q) =>
       /\ step[q] \in 1..Len(Steps(asks[q]))
       /\ ran[q] <= Span(AtStep(q))
       /\ step[q] <= LockedSteps(asks[q]) => holder = q
  /\ holder = q => Running(q) /\ LockedSteps(asks[q]) > 0

\* What a typed PUT has written stays until it has read it back, when the serial
\* line was quiet as it began.
ReadingBack(q) ==
  LET r == asks[q]
  IN  r # NoRequest /\ Typed(r) /\ ReadsBack(r) /\ q \in clean =>
        /\ Running(q) /\ step[q] > 1 => params[r.command] = Adopted(r)
        /\ handler[q] = "ok" \/ status[q] = 200
             => reported[q] = Parsed(r.command, Adopted(r))

CoreInv == Typing /\ Given /\ \A q \in Slots : Together(q) /\ ReadingBack(q)

\* The late writes, and the slots that began with a quiet line: it stays quiet as
\* long as such a writer runs.
Tidy(q) ==
  /\ q \in late => /\ handler[q] \notin {"none", "sent", "lock"}
                   /\ Writes(asks[q]) /\ asks[q] # NoRequest
  /\ q \in clean => handler[q] \notin {"none", "sent", "lock"}
  /\ Running(q) /\ Writes(asks[q]) /\ q \in clean => quiet

LineInv == (quiet => late = {}) /\ \A q \in Slots : Tidy(q)

RestInv == CoreInv /\ LineInv

-----------------------------------------------------------------------------
LEMMA RestInit == Init => RestInv
<1> SUFFICES ASSUME Init PROVE RestInv
  OBVIOUS
<1>1. Typing
  BY DEF Init, Typing, Handling, NoAnswer, Free
<1>2. Given
  BY RequestsAssumption DEF Init, Given, Times
<1>3. ASSUME NEW q \in Slots PROVE Together(q) /\ ReadingBack(q)
  BY <1>3, FreeAssumption DEF Init, Together, ReadingBack, Running, NoAnswer
<1>4. LineInv
  BY DEF Init, LineInv, Tidy, Running
<1> QED
  BY <1>1, <1>2, <1>3, <1>4 DEF RestInv, CoreInv

\* A request that the REST layer does not answer by itself has its key and a route.
LEMMA Unanswered ==
  ASSUME NEW l, NEW r, Immediate(l, r) = NoAnswer
  PROVE  CheckAuth(l, r) /\ Reaches(r)
BY DEF Immediate, NoAnswer, Reaches, Route

\* No page and no failed check is answered 200 in place of a typed PUT.
LEMMA TypedIsNoPage ==
  ASSUME NEW l, NEW r, Typed(r), ReadsBack(r)
  PROVE  Immediate(l, r) # 200
<1>1. r.path \notin Pages
  BY TypedSteps DEF Pages
<1> QED
  BY <1>1 DEF Immediate, NoAnswer

LEMMA ImmediateCodes ==
  ASSUME NEW l, NEW r
  PROVE  Immediate(l, r) \in {NoAnswer, 200, 204, 400, 401, 404, 405, 500}
BY DEF Immediate

\* What a slot's part of the invariant is about.
Own(q) == <<rest[q], status[q], handler[q], step[q], ran[q], reported[q]>>

\* A step that leaves a slot, the lock it holds and the parameters alone.
LEMMA OthersKeep ==
  ASSUME RestInv, NEW q \in Slots, Own(q)' = Own(q), UNCHANGED <<launch, asks>>,
         holder = q <=> holder' = q, q \in clean' => q \in clean,
         Running(q) /\ holder = q /\ Writes(asks[q]) /\ q \in clean => params' = params
  PROVE  (Together(q) /\ ReadingBack(q))'
<1>1. Together(q) /\ ReadingBack(q)
  BY DEF RestInv, CoreInv
<1>2. /\ rest[q]' = rest[q] /\ status[q]' = status[q] /\ handler[q]' = handler[q]
      /\ step[q]' = step[q] /\ ran[q]' = ran[q] /\ reported[q]' = reported[q]
  BY DEF Own
<1>3. Together(q)'
  BY <1>1, <1>2 DEF Together, Running, AtStep
<1>4. ASSUME asks[q] # NoRequest, Typed(asks[q]), ReadsBack(asks[q]),
             Running(q), step[q] > 1
      PROVE  holder = q /\ Writes(asks[q])
  <2>1. step[q] <= LockedSteps(asks[q]) /\ step[q] \in 1..Len(Steps(asks[q]))
    BY <1>1, <1>4, TypedSteps DEF Together
  <2>2. holder = q
    BY <1>1, <1>4, <2>1 DEF Together
  <2>3. CASE Accepted(asks[q].command, asks[q].value)
    BY <1>4, <2>2, <2>3, TypedSteps
  <2>4. CASE ~Accepted(asks[q].command, asks[q].value)
    <3>1. Len(Steps(asks[q])) = 1
      BY <1>4, <2>4, TypedSteps
    <3> QED
      BY <1>4, <2>1, <3>1
  <2> QED
    BY <2>3, <2>4
<1>5. ReadingBack(q)'
  BY <1>1, <1>2, <1>4 DEF ReadingBack, Running
<1> QED
  BY <1>3, <1>5

LEMMA GivenStays ==
  ASSUME RestInv, UNCHANGED <<launch, asks>>
  PROVE  Given'
BY DEF RestInv, CoreInv, Given, Launchable

LEMMA SocketTimeoutTyped ==
  ASSUME NEW r, r.times \in Times
  PROVE  SocketTimeout(r) \in Nat
<1>1. r.times.t \in Nat /\ r.times.cm \in Nat /\ r.times.c \in Nat /\ r.times.r \in Nat
  BY DEF Times
<1> QED
  BY <1>1 DEF SocketTimeout, DefaultTimeout, PBBSPaths, WinlinkPaths, WebService

LEMMA SendKeeps == ASSUME RestInv, NEW q \in Slots, Send(q) PROVE CoreInv'
<1> DEFINE code == Immediate(launch, asks[q])
<1>1. /\ code \in {NoAnswer, 200, 204, 400, 401, 404, 405, 500}
      /\ asks[q] # NoRequest /\ SocketTimeout(asks[q]) \in Nat
  BY ImmediateCodes, SocketTimeoutTyped DEF RestInv, CoreInv, Given, Send
<1>2. /\ rest[q] = "idle" /\ handler[q] = "none" /\ status[q] = NoAnswer /\ ran[q] = 0
      /\ holder # q
  BY DEF RestInv, CoreInv, Together, Send, Running
<1>3. \/ /\ code # NoAnswer
         /\ rest' = [rest EXCEPT ![q] = "done"] /\ status' = [status EXCEPT ![q] = code]
         /\ UNCHANGED <<left, handler>>
      \/ /\ rest' = [rest EXCEPT ![q] = "done"] /\ status' = [status EXCEPT ![q] = 503]
         /\ UNCHANGED <<left, handler>>
      \/ /\ code = NoAnswer
         /\ rest' = [rest EXCEPT ![q] = "waiting"] /\ UNCHANGED status
         /\ left' = [left EXCEPT ![q] = SocketTimeout(asks[q])]
         /\ handler' = [handler EXCEPT ![q] = "sent"]
  BY DEF Send, Answer
<1>4. /\ saw' = [saw EXCEPT ![q] = {p \in Slots : Answered(p)}]
      /\ UNCHANGED <<launch, asks, up, step, ran, holder, params, lineVars, reported, queued>>
  BY DEF Send
<1>5. code = NoAnswer => CheckAuth(launch, asks[q]) /\ Reaches(asks[q])
  BY Unanswered
<1>6. Typed(asks[q]) /\ ReadsBack(asks[q]) => code # 200
  BY TypedIsNoPage
<1> HIDE DEF code
<1>7. Typing
  BY DEF RestInv, CoreInv
<1>8. Typing'
  BY <1>1, <1>3, <1>4, <1>7 DEF Typing, Handling, lineVars
<1>9. Given'
  BY <1>4, GivenStays
<1>10. ASSUME NEW p \in Slots \ {q} PROVE (Together(p) /\ ReadingBack(p))'
  <2>1. Own(p)' = Own(p)
    BY <1>3, <1>4, <1>7, <1>10 DEF Typing, Own
  <2> QED
    BY <1>4, <2>1, OthersKeep DEF lineVars
<1>11. (Together(q) /\ ReadingBack(q))'
  BY <1>1, <1>2, <1>3, <1>4, <1>5, <1>6, <1>7
  DEF Typing, Together, ReadingBack, Running, NoAnswer, lineVars
<1> QED
  BY <1>8, <1>9, <1>10, <1>11 DEF RestInv, CoreInv

LEMMA GiveUpKeeps == ASSUME RestInv, NEW q \in Slots, GiveUp(q) PROVE CoreInv'
<1>1. /\ rest[q] = "waiting"
      /\ rest' = [rest EXCEPT ![q] = "done"] /\ status' = [status EXCEPT ![q] = 504]
      /\ UNCHANGED <<launch, asks, up, left, handler, step, ran, holder, params, lineVars,
                     reported, queued, saw>>
  BY DEF GiveUp, Answer, TimeoutStatus
<1>2. Typing /\ Together(q) /\ ReadingBack(q)
  BY DEF RestInv, CoreInv
<1>3. Typing'
  BY <1>1, <1>2 DEF Typing, lineVars
<1>4. Given'
  BY <1>1, GivenStays
<1>5. ASSUME NEW p \in Slots \ {q} PROVE (Together(p) /\ ReadingBack(p))'
  <2>1. Own(p)' = Own(p)
    BY <1>1, <1>2, <1>5 DEF Typing, Own
  <2> QED
    BY <1>1, <2>1, OthersKeep DEF lineVars
<1>6. rest'[q] = "done" /\ status'[q] = 504
  BY <1>1, <1>2 DEF Typing, lineVars
<1>7. Together(q)'
  BY <1>1, <1>2, <1>6 DEF Together, Running, AtStep
<1>8. ReadingBack(q)'
  BY <1>1, <1>2, <1>6 DEF ReadingBack, Running, lineVars
<1> QED
  BY <1>3, <1>4, <1>5, <1>7, <1>8 DEF RestInv, CoreInv

LEMMA StepsOf ==
  ASSUME RestInv, NEW q \in Slots, handler[q] # "none"
  PROVE  /\ Steps(asks[q]) \in Seq(StepSet)
         /\ Len(Steps(asks[q])) \in Nat
         /\ LockedSteps(asks[q]) \in {0, Len(Steps(asks[q]))}
         /\ asks[q] # NoRequest
<1>1. asks[q] # NoRequest /\ Reaches(asks[q]) /\ asks[q].times \in Times
  BY DEF RestInv, CoreInv, Together, Given
<1>2. Steps(asks[q]) \in Seq(StepSet)
  BY <1>1, StepsTyped
<1> QED
  BY <1>1, <1>2 DEF LockedSteps

\* The step a handler is at.
LEMMA RunsAStep ==
  ASSUME RestInv, NEW q \in Slots, Running(q)
  PROVE  /\ AtStep(q) \in StepSet
         /\ ran[q] <= Span(AtStep(q))
         /\ step[q] \in 1..Len(Steps(asks[q]))
<1>1. step[q] \in 1..Len(Steps(asks[q])) /\ ran[q] <= Span(AtStep(q))
  BY DEF RestInv, CoreInv, Together
<1>2. Steps(asks[q]) \in Seq(StepSet)
  BY StepsOf DEF Running
<1> QED
  BY <1>1, <1>2 DEF AtStep

LEMMA BeginKeeps == ASSUME RestInv, NEW q \in Slots, Begin(q) PROVE CoreInv'
<1>1. /\ handler[q] \in {"sent", "lock"}
      /\ UNCHANGED <<launch, asks, up, rest, left, status, ran, params, quiet, late, reported,
                     queued, saw>>
      /\ clean' = clean \/ clean' = clean \cup {q}
  BY DEF Begin
<1>2. \/ /\ handler' = [handler EXCEPT ![q] = "lock"] /\ LockedSteps(asks[q]) > 0
         /\ UNCHANGED <<step, holder, clean>>
      \/ /\ handler' = [handler EXCEPT ![q] = "ok"] /\ Steps(asks[q]) = <<>>
         /\ step' = [step EXCEPT ![q] = 1] /\ UNCHANGED <<holder, clean>>
      \/ /\ handler' = [handler EXCEPT ![q] = "run"] /\ Steps(asks[q]) # <<>>
         /\ LockedSteps(asks[q]) = 0
         /\ step' = [step EXCEPT ![q] = 1] /\ UNCHANGED <<holder, clean>>
      \/ /\ handler' = [handler EXCEPT ![q] = "run"] /\ LockedSteps(asks[q]) > 0
         /\ step' = [step EXCEPT ![q] = 1] /\ holder = Free /\ holder' = q
  <2>1. Together(q)
    BY DEF RestInv, CoreInv
  <2> QED
    BY <2>1 DEF Begin, Together
<1>3. Typing /\ Together(q) /\ ReadingBack(q)
  BY DEF RestInv, CoreInv
<1>4. Typing'
  <2>1. handler' \in [Slots -> {"none", "gone"} \cup Handling]
    <3>1. PICK h \in Handling : handler' = [handler EXCEPT ![q] = h]
      BY <1>2 DEF Handling
    <3> QED
      BY <1>3, <3>1 DEF Typing
  <2>2. step' \in [Slots -> Nat] /\ holder' \in Slots \cup {Free}
    BY <1>2, <1>3 DEF Typing
  <2> QED
    BY <1>1, <1>3, <2>1, <2>2 DEF Typing
<1>5. Given'
  BY <1>1, GivenStays
<1>6. ASSUME NEW p \in Slots \ {q} PROVE (Together(p) /\ ReadingBack(p))'
  <2>1. Own(p)' = Own(p)
    BY <1>1, <1>2, <1>3, <1>6 DEF Typing, Own
  <2>2. holder = p <=> holder' = p
    BY <1>2, <1>6, FreeAssumption
  <2> QED
    BY <1>1, <2>1, <2>2, OthersKeep
<1>7. /\ Steps(asks[q]) \in Seq(StepSet) /\ Len(Steps(asks[q])) \in Nat
      /\ LockedSteps(asks[q]) \in {0, Len(Steps(asks[q]))}
  BY <1>1, StepsOf
<1>8. Steps(asks[q]) # <<>> =>
        1 \in 1..Len(Steps(asks[q])) /\ Steps(asks[q])[1] \in StepSet
  BY <1>7, EmptySeq
<1>9. Steps(asks[q]) # <<>> => 0 <= Span(Steps(asks[q])[1])
  BY <1>8, SpanTyped
<1>10. LockedSteps(asks[q]) > 0 => Steps(asks[q]) # <<>>
  BY <1>7, EmptySeq
<1>11. /\ rest[q] # "idle" /\ status[q] # 200 /\ ran[q] = 0 /\ holder # q
       /\ asks[q] # NoRequest /\ Reaches(asks[q]) /\ CheckAuth(launch, asks[q])
  BY <1>1, <1>3 DEF Together, Running
<1>12. ASSUME handler' = [handler EXCEPT ![q] = "lock"], LockedSteps(asks[q]) > 0,
              holder' = holder
       PROVE  (Together(q) /\ ReadingBack(q))'
  <2>1. handler'[q] = "lock"
    BY <1>3, <1>12 DEF Typing
  <2> QED
    BY <1>1, <1>3, <1>11, <1>12, <2>1 DEF Together, ReadingBack, Running
<1>13. ASSUME handler' = [handler EXCEPT ![q] = "ok"], Steps(asks[q]) = <<>>,
              holder' = holder
       PROVE  (Together(q) /\ ReadingBack(q))'
  <2>1. handler'[q] = "ok"
    BY <1>3, <1>13 DEF Typing
  <2>2. ~(Typed(asks[q]) /\ ReadsBack(asks[q]))
    <3> SUFFICES ASSUME Typed(asks[q]), ReadsBack(asks[q]) PROVE FALSE
      OBVIOUS
    <3>1. Steps(asks[q]) = <<Raising(0)>> \/ Steps(asks[q]) = <<COMMAND, COMMAND>>
      BY TypedSteps, Zenon
    <3> QED
      BY <1>13, <3>1
  <2> QED
    BY <1>1, <1>3, <1>11, <1>13, <2>1, <2>2 DEF Together, ReadingBack, Running
<1>14. ASSUME handler' = [handler EXCEPT ![q] = "run"], Steps(asks[q]) # <<>>,
              step' = [step EXCEPT ![q] = 1],
              LockedSteps(asks[q]) > 0 <=> holder' = q
       PROVE  (Together(q) /\ ReadingBack(q))'
  <2>1. handler'[q] = "run" /\ step'[q] = 1
    BY <1>3, <1>14 DEF Typing
  <2>2. 1 <= LockedSteps(asks[q]) => holder' = q
    BY <1>7, <1>14
  <2> QED
    BY <1>1, <1>3, <1>8, <1>9, <1>11, <1>14, <2>1, <2>2
    DEF Together, ReadingBack, Running, AtStep
<1>15. (Together(q) /\ ReadingBack(q))'
  BY <1>2, <1>10, <1>11, <1>12, <1>13, <1>14
<1> QED
  BY <1>4, <1>5, <1>6, <1>15 DEF RestInv, CoreInv

(***************************************************************************)
(* The driver's steps: a handler that writes or reads back has the lock.   *)
(***************************************************************************)
LEMMA WriterHolds ==
  ASSUME RestInv, NEW q \in Slots, Running(q), step[q] = 1, Welcome(asks[q])
  PROVE  holder = q /\ asks[q].command \in DOMAIN params
<1>1. Writes(asks[q]) /\ asks[q] # NoRequest
  BY StepsOf DEF Welcome, Running
<1>2. LockedSteps(asks[q]) >= 1 /\ asks[q].command \in DOMAIN params
  BY <1>1, WritersLock DEF RestInv, CoreInv, Given, Typing
<1> QED
  BY <1>2 DEF RestInv, CoreInv, Together

\* A step of one handler leaves the others as they are.
LEMMA OthersUndisturbed ==
  ASSUME RestInv, NEW q \in Slots, Running(q), NEW p \in Slots \ {q},
         Own(p)' = Own(p), UNCHANGED <<launch, asks, clean>>,
         holder = p <=> holder' = p, Write(q) \/ UNCHANGED params
  PROVE  (Together(p) /\ ReadingBack(p))'
<1>1. holder = p => params' = params
  BY WriterHolds DEF Write, Unfinished
<1> QED
  BY <1>1, OthersKeep

LEMMA HolderAfterTyped ==
  ASSUME RestInv, NEW q \in Slots, NEW raised \in BOOLEAN
  PROVE  /\ HolderAfter(q, raised) \in Slots \cup {Free}
         /\ \A p \in Slots \ {q} : holder = p <=> HolderAfter(q, raised) = p
BY FreeAssumption DEF HolderAfter, RestInv, CoreInv, Typing

LEMMA WriteTyped ==
  ASSUME RestInv, NEW q \in Slots, Write(q) \/ UNCHANGED params
  PROVE  DOMAIN params' = DOMAIN Factory
BY DEF Write, RestInv, CoreInv, Typing

LEMMA RaiseKeeps ==
  ASSUME RestInv, NEW q \in Slots, Running(q), Raise(q), Write(q) \/ UNCHANGED params,
         UNCHANGED <<launch, asks, up, rest, left, status, clean, queued, saw>>,
         quiet' \in BOOLEAN, late' \subseteq Slots
  PROVE  CoreInv'
<1>1. /\ handler' = [handler EXCEPT ![q] = "error"]
      /\ holder' = HolderAfter(q, TRUE)
      /\ UNCHANGED <<step, ran, reported>>
  BY DEF Raise
<1>2. Typing /\ Together(q) /\ ReadingBack(q)
  BY DEF RestInv, CoreInv
<1>3. handler'[q] = "error" /\ handler' \in [Slots -> {"none", "gone"} \cup Handling]
  BY <1>1, <1>2 DEF Typing, Handling
<1>4. Typing'
  <2>1. holder' \in Slots \cup {Free} /\ DOMAIN params' = DOMAIN Factory
    BY <1>1, HolderAfterTyped, WriteTyped
  <2> QED
    BY <1>1, <1>2, <1>3, <2>1 DEF Typing
<1>5. Given'
  BY GivenStays
<1>6. ASSUME NEW p \in Slots \ {q} PROVE (Together(p) /\ ReadingBack(p))'
  <2>1. Own(p)' = Own(p)
    BY <1>1, <1>2, <1>6 DEF Typing, Own
  <2>2. holder = p <=> holder' = p
    BY <1>1, HolderAfterTyped
  <2> QED
    BY <2>1, <2>2, OthersUndisturbed
<1>7. status[q] # 200 /\ rest[q] # "idle" /\ holder' # q
  BY <1>1, <1>2, FreeAssumption DEF Together, Running, HolderAfter
<1>8. (Together(q) /\ ReadingBack(q))'
  BY <1>1, <1>2, <1>3, <1>7 DEF Together, ReadingBack, Running
<1> QED
  BY <1>4, <1>5, <1>6, <1>8 DEF RestInv, CoreInv

LEMMA ProceedKeeps ==
  ASSUME RestInv, NEW q \in Slots, Running(q), Proceed(q), Write(q) \/ UNCHANGED params,
         DOMAIN reported' = Slots, \A p \in Slots \ {q} : reported'[p] = reported[p],
         UNCHANGED <<launch, asks, up, rest, left, status, clean, queued, saw>>,
         quiet' \in BOOLEAN, late' \subseteq Slots,
         ReadingBack(q)'
  PROVE  CoreInv'
<1>1. \/ /\ ~AtLastStep(q)
         /\ step' = [step EXCEPT ![q] = @ + 1] /\ ran' = [ran EXCEPT ![q] = 0]
         /\ UNCHANGED handler
      \/ /\ AtLastStep(q)
         /\ \E outcome \in {"ok", "error"} : handler' = [handler EXCEPT ![q] = outcome]
         /\ UNCHANGED <<step, ran>>
  BY DEF Proceed
<1>2. holder' = HolderAfter(q, FALSE)
  BY DEF Proceed
<1>3. Typing /\ Together(q)
  BY DEF RestInv, CoreInv
<1>4. handler' \in [Slots -> {"none", "gone"} \cup Handling]
  <2>1. CASE UNCHANGED handler
    BY <1>3, <2>1 DEF Typing
  <2>2. ASSUME NEW h \in {"ok", "error"}, handler' = [handler EXCEPT ![q] = h]
        PROVE  handler' \in [Slots -> {"none", "gone"} \cup Handling]
    BY <1>3, <2>2 DEF Typing, Handling
  <2> QED
    BY <1>1, <2>1, <2>2
<1>5. step' \in [Slots -> Nat] /\ ran' \in [Slots -> Nat]
  BY <1>1, <1>3 DEF Typing
<1>6. Typing'
  <2>1. holder' \in Slots \cup {Free}
    BY <1>2, HolderAfterTyped
  <2>2. DOMAIN params' = DOMAIN Factory
    BY WriteTyped
  <2> QED
    BY <1>3, <1>4, <1>5, <2>1, <2>2 DEF Typing
<1>7. Given'
  BY GivenStays
<1>8. ASSUME NEW p \in Slots \ {q} PROVE (Together(p) /\ ReadingBack(p))'
  <2>1. Own(p)' = Own(p)
    <3>1. handler'[p] = handler[p] /\ step'[p] = step[p] /\ ran'[p] = ran[p]
      BY <1>1, <1>3, <1>8 DEF Typing
    <3> QED
      BY <1>8, <3>1 DEF Own
  <2>2. holder = p <=> holder' = p
    BY <1>2, HolderAfterTyped
  <2> QED
    BY <2>1, <2>2, OthersUndisturbed
<1>9. /\ status[q] # 200 /\ rest[q] # "idle" /\ asks[q] # NoRequest
      /\ Reaches(asks[q]) /\ CheckAuth(launch, asks[q])
  BY <1>3 DEF Together, Running
<1>10. ASSUME ~AtLastStep(q), step' = [step EXCEPT ![q] = @ + 1],
              ran' = [ran EXCEPT ![q] = 0], UNCHANGED handler
       PROVE  Together(q)'
  <2>1. /\ step[q] \in 1..Len(Steps(asks[q])) /\ step[q] # Len(Steps(asks[q]))
        /\ step'[q] = step[q] + 1 /\ ran'[q] = 0
    BY <1>3, <1>10, RunsAStep DEF Typing, AtLastStep
  <2>2. /\ Len(Steps(asks[q])) \in Nat /\ LockedSteps(asks[q]) \in Nat
        /\ Steps(asks[q]) \in Seq(StepSet)
    BY StepsOf DEF Running
  <2>3. step'[q] \in 1..Len(Steps(asks[q]))
    BY <2>1, <2>2
  <2>4. 0 <= Span(Steps(asks[q])[step'[q]])
    <3>1. Steps(asks[q])[step'[q]] \in StepSet
      BY <2>2, <2>3
    <3> QED
      BY <3>1, SpanTyped
  <2>5. step'[q] <= LockedSteps(asks[q]) => holder' = q
    <3>1. step'[q] <= LockedSteps(asks[q]) =>
            holder = q /\ step[q] # LockedSteps(asks[q])
      BY <1>3, <2>1, <2>2 DEF Together
    <3> QED
      BY <1>2, <3>1 DEF HolderAfter
  <2>6. holder' = q => holder = q
    BY <1>2, FreeAssumption DEF HolderAfter
  <2> QED
    BY <1>3, <1>9, <1>10, <2>1, <2>3, <2>4, <2>5, <2>6 DEF Together, Running, AtStep
<1>11. ASSUME NEW h \in {"ok", "error"}, handler' = [handler EXCEPT ![q] = h],
              AtLastStep(q), UNCHANGED <<step, ran>>
       PROVE  Together(q)'
  <2>1. handler'[q] = h
    BY <1>3, <1>11 DEF Typing
  <2>2. holder = q => step[q] = LockedSteps(asks[q])
    BY <1>3, <1>11, StepsOf DEF Together, AtLastStep, Running
  <2>3. holder' # q
    BY <1>2, <2>2, FreeAssumption DEF HolderAfter
  <2> QED
    BY <1>3, <1>9, <1>11, <2>1, <2>3 DEF Together, Running
<1>12. Together(q)'
  BY <1>1, <1>10, <1>11
<1> QED
  BY <1>6, <1>7, <1>8, <1>12 DEF RestInv, CoreInv

\* A typed PUT is at its write or at its read, and a lenient step is neither.
LEMMA TypedRuns ==
  ASSUME RestInv, NEW q \in Slots, Running(q), Typed(asks[q]), ReadsBack(asks[q])
  PROVE  /\ AtStep(q).raises
         /\ AtStep(q).limit > 0 =>
              /\ Writes(asks[q])
              /\ Len(Steps(asks[q])) = 2
              /\ step[q] = 1 \/ step[q] = 2
<1>1. step[q] \in 1..Len(Steps(asks[q]))
  BY RunsAStep
<1>2. CASE ~Accepted(asks[q].command, asks[q].value)
  BY <1>1, <1>2, TypedSteps DEF AtStep, Raising, Step
<1>3. CASE Accepted(asks[q].command, asks[q].value)
  <2>1. Steps(asks[q]) = <<COMMAND, COMMAND>> /\ Writes(asks[q])
    BY <1>3, TypedSteps
  <2>2. Len(Steps(asks[q])) = 2 /\ step[q] \in 1..2 /\ (step[q] = 1 \/ step[q] = 2)
    BY <1>1, <2>1
  <2>3. AtStep(q) = COMMAND
    BY <2>1, <2>2 DEF AtStep
  <2> QED
    BY <2>1, <2>2, <2>3 DEF COMMAND, Command, Step
<1> QED
  BY <1>2, <1>3

LEMMA LineTyped ==
  ASSUME RestInv, NEW q \in Slots,
         StepEnds(q) \/ StepEndsOnStray(q) \/ StepFails(q) \/ StepTimesOut(q)
  PROVE  /\ Running(q)
         /\ UNCHANGED <<launch, asks, up, rest, left, status, clean, queued, saw>>
         /\ quiet' \in BOOLEAN
         /\ late' = late \/ late' = late \cup Unfinished(q)
         /\ late' \subseteq Slots
         /\ Raise(q) \/ Proceed(q)
         /\ Write(q) \/ UNCHANGED params
<1>1. /\ Running(q)
      /\ UNCHANGED <<launch, asks, up, rest, left, status, clean, queued, saw>>
      /\ late' = late \/ late' = late \cup Unfinished(q)
      /\ quiet' = quiet \/ quiet' = (Settled(q) /\ ~AtStep(q).asks) \/ quiet' = Settled(q)
      /\ Raise(q) \/ Proceed(q)
      /\ Write(q) \/ UNCHANGED params
  BY DEF StepEnds, StepEndsOnStray, StepFails, StepTimesOut
<1>2. quiet \in BOOLEAN /\ late \subseteq Slots
  BY DEF RestInv, CoreInv, Typing
<1>3. Unfinished(q) \subseteq Slots
  BY DEF Unfinished
<1>4. quiet' \in BOOLEAN
  BY <1>1, <1>2 DEF Settled
<1>5. late' \subseteq Slots
  BY <1>1, <1>2, <1>3
<1> QED
  BY <1>1, <1>4, <1>5

LEMMA StepFailsKeeps == ASSUME RestInv, NEW q \in Slots, StepFails(q) PROVE CoreInv'
<1>1. Raise(q) /\ UNCHANGED params
  BY DEF StepFails
<1> QED
  BY <1>1, LineTyped, RaiseKeeps

LEMMA StepTimesOutKeeps ==
  ASSUME RestInv, NEW q \in Slots, StepTimesOut(q) PROVE CoreInv'
<1>1. UNCHANGED params
  BY DEF StepTimesOut
<1>2. CASE Raise(q)
  BY <1>1, <1>2, LineTyped, RaiseKeeps
<1>3. CASE ~AtStep(q).raises
  <2>1. Proceed(q) /\ UNCHANGED <<reported, params>>
    BY <1>3 DEF StepTimesOut
  <2>2. Running(q) /\ UNCHANGED <<asks, status>>
    BY LineTyped
  <2>3. ReadingBack(q)'
    BY <1>3, <2>2, TypedRuns DEF ReadingBack
  <2>4. DOMAIN reported' = Slots /\ \A p \in Slots \ {q} : reported'[p] = reported[p]
    BY <2>1 DEF RestInv, CoreInv, Typing
  <2> QED
    BY <2>1, <2>3, <2>4, LineTyped, ProceedKeeps
<1> QED
  BY <1>2, <1>3 DEF StepTimesOut

\* A turn that began with a quiet line takes no answer but its own.
LEMMA StrayKeeps == ASSUME RestInv, NEW q \in Slots, StepEndsOnStray(q) PROVE CoreInv'
<1>1. UNCHANGED params /\ ~quiet
  BY DEF StepEndsOnStray
<1>2. CASE Raise(q)
  BY <1>1, <1>2, LineTyped, RaiseKeeps
<1>3. ASSUME NEW x, Proceed(q), reported' = [reported EXCEPT ![q] = x]
      PROVE  CoreInv'
  <2>1. DOMAIN reported' = Slots /\ \A p \in Slots \ {q} : reported'[p] = reported[p]
    BY <1>3 DEF RestInv, CoreInv, Typing
  <2>2. Running(q) /\ UNCHANGED <<asks, status, clean>>
    BY LineTyped
  <2>3. AtStep(q).limit > 0
    BY DEF StepEndsOnStray
  <2>4. Typed(asks[q]) /\ ReadsBack(asks[q]) => q \notin clean
    <3> SUFFICES ASSUME Typed(asks[q]), ReadsBack(asks[q]) PROVE q \notin clean
      OBVIOUS
    <3>1. Writes(asks[q])
      BY <2>2, <2>3, TypedRuns
    <3> QED
      BY <1>1, <2>2, <3>1 DEF RestInv, LineInv, Tidy
  <2>5. ReadingBack(q)'
    BY <2>2, <2>4 DEF ReadingBack
  <2> QED
    BY <1>1, <1>3, <2>1, <2>5, LineTyped, ProceedKeeps
<1>4. Raise(q) \/ \E x : Proceed(q) /\ reported' = [reported EXCEPT ![q] = x]
  BY DEF StepEndsOnStray
<1> QED
  BY <1>2, <1>3, <1>4

LEMMA StepEndsKeeps == ASSUME RestInv, NEW q \in Slots, StepEnds(q) PROVE CoreInv'
<1> DEFINE r == asks[q]
<1>1. /\ Running(q) /\ Write(q)
      /\ AtStep(q).limit > 0 \/ ~AtStep(q).raises
      /\ Writes(r) /\ step[q] = 1 => Welcome(r)
      /\ UNCHANGED <<launch, asks, up, rest, left, status, clean, queued, saw>>
      /\ quiet' \in BOOLEAN /\ late' \subseteq Slots
  BY LineTyped DEF StepEnds
<1>2. CASE Raise(q)
  BY <1>1, <1>2, RaiseKeeps
<1>3. CASE /\ Proceed(q)
           /\ reported' = [reported EXCEPT ![q] = IF Reads(q) THEN Value(q) ELSE @]
  <2>1. Typing /\ Together(q) /\ ReadingBack(q)
    BY DEF RestInv, CoreInv
  <2>2. DOMAIN reported' = Slots /\ \A p \in Slots \ {q} : reported'[p] = reported[p]
    BY <1>3, <2>1 DEF Typing
  <2>3. ASSUME r # NoRequest, Typed(r), ReadsBack(r), q \in clean
        PROVE  /\ Running(q)' /\ step'[q] > 1 => params'[r.command] = Adopted(r)
               /\ handler'[q] = "ok" \/ status'[q] = 200
                    => reported'[q] = Parsed(r.command, Adopted(r))
    <3>1. /\ Writes(r) /\ Len(Steps(r)) = 2
          /\ step[q] = 1 \/ step[q] = 2
      BY <1>1, <2>3, TypedRuns
    <3>2. status'[q] # 200
      BY <1>1, <2>1 DEF Together, Running
    <3>3. CASE step[q] = 1
      <4>1. params' = [params EXCEPT ![r.command] = Adopted(r)]
        BY <1>1, <3>1, <3>3 DEF Write, Unfinished
      <4>2. params'[r.command] = Adopted(r)
        BY <1>1, <3>1, <3>3, <4>1, WriterHolds
      <4>3. handler'[q] # "ok"
        BY <1>1, <1>3, <3>1, <3>3 DEF Proceed, AtLastStep, Running
      <4> QED
        BY <3>2, <4>2, <4>3
    <3>4. CASE step[q] = 2
      <4>1. params' = params /\ params[r.command] = Adopted(r)
        BY <1>1, <2>1, <2>3, <3>4 DEF Write, Unfinished, ReadingBack
      <4>2. reported'[q] = Value(q)
        BY <1>3, <2>1, <2>3, <3>1, <3>4 DEF Typing, Reads, AtLastStep
      <4>3. Value(q) = Parsed(r.command, Adopted(r))
        BY <4>1 DEF Value
      <4> QED
        BY <4>1, <4>2, <4>3
    <3> QED
      BY <3>1, <3>3, <3>4
  <2>4. ReadingBack(q)'
    BY <1>1, <2>3 DEF ReadingBack
  <2> QED
    BY <1>1, <1>3, <2>2, <2>4, ProceedKeeps
<1> QED
  BY <1>2, <1>3 DEF StepEnds

LEMMA ReplyKeeps == ASSUME RestInv, NEW q \in Slots, Reply(q) PROVE CoreInv'
<1>1. /\ handler[q] \in {"ok", "error"} /\ handler' = [handler EXCEPT ![q] = "gone"]
      /\ UNCHANGED <<launch, asks, up, left, step, ran, holder, params, lineVars,
                     reported, queued, saw>>
  BY DEF Reply
<1>2. Typing /\ Together(q) /\ ReadingBack(q)
  BY DEF RestInv, CoreInv
<1>3. \/ /\ rest' = [rest EXCEPT ![q] = "done"]
         /\ \/ handler[q] = "ok" /\ status' = [status EXCEPT ![q] = 200]
            \/ status' = [status EXCEPT ![q] = 502]
      \/ UNCHANGED <<rest, status>>
  BY DEF Reply, Answer
<1>4. Typing'
  BY <1>1, <1>2, <1>3 DEF Typing, lineVars
<1>5. Given'
  BY <1>1, GivenStays
<1>6. ASSUME NEW p \in Slots \ {q} PROVE (Together(p) /\ ReadingBack(p))'
  <2>1. Own(p)' = Own(p)
    BY <1>1, <1>2, <1>3, <1>6 DEF Typing, Own
  <2> QED
    BY <1>1, <2>1, OthersKeep DEF lineVars
<1>7. handler'[q] = "gone"
  BY <1>1, <1>2 DEF Typing
<1>8. Together(q)'
  BY <1>1, <1>2, <1>3, <1>7 DEF Typing, Together, Running
<1>9. status'[q] = 200 => handler[q] = "ok" \/ status[q] = 200
  BY <1>2, <1>3 DEF Typing
<1>10. ReadingBack(q)'
  BY <1>1, <1>2, <1>7, <1>9 DEF ReadingBack, Running, lineVars
<1> QED
  BY <1>4, <1>5, <1>6, <1>8, <1>10 DEF RestInv, CoreInv

LEMMA DaemonStopsKeeps == ASSUME RestInv, DaemonStops PROVE CoreInv'
<1>1. /\ up' = FALSE /\ holder' = Free
      /\ handler' = [q \in Slots |-> IF Alive(q) THEN "gone" ELSE handler[q]]
      /\ rest' = [q \in Slots |-> IF rest[q] = "waiting" THEN "done" ELSE rest[q]]
      /\ UNCHANGED <<launch, asks, left, step, ran, params, clean, reported, queued, saw>>
  BY DEF DaemonStops
<1>2. PICK failed \in SUBSET {q \in Slots : Running(q)} :
        status' = [q \in Slots |->
                     IF rest[q] # "waiting" THEN status[q]
                     ELSE IF handler[q] = "sent" THEN 500
                     ELSE IF q \in failed THEN 502 ELSE 503]
  BY DEF DaemonStops
<1>3. Typing
  BY DEF RestInv, CoreInv
<1>4. quiet' \in BOOLEAN /\ late' \subseteq Slots
  <2>1. \A q : Unfinished(q) \subseteq {q}
    BY DEF Unfinished
  <2> QED
    BY <1>3, <2>1 DEF DaemonStops, Typing
<1>5. Typing'
  <2>1. handler' \in [Slots -> {"none", "gone"} \cup Handling]
    BY <1>1, <1>3 DEF Typing
  <2>2. status' \in [Slots -> {NoAnswer, 200, 204, 400, 401, 404, 405, 500, 502, 503, 504}]
    BY <1>2, <1>3 DEF Typing
  <2>3. rest' \in [Slots -> {"idle", "waiting", "done"}]
    BY <1>1, <1>3 DEF Typing
  <2> QED
    BY <1>1, <1>3, <1>4, <2>1, <2>2, <2>3 DEF Typing
<1>6. Given'
  BY <1>1, GivenStays
<1>7. ASSUME NEW p \in Slots PROVE (Together(p) /\ ReadingBack(p))'
  <2>1. Together(p) /\ ReadingBack(p)
    BY <1>7 DEF RestInv, CoreInv
  <2>2. /\ handler'[p] \in {"none", "gone"}
        /\ handler[p] = "none" <=> handler'[p] = "none"
        /\ status'[p] = 200 => status[p] = 200
        /\ rest'[p] # "done" => status'[p] = status[p] /\ rest[p] # "done"
        /\ rest'[p] = "idle" => rest[p] = "idle"
    BY <1>1, <1>2, <1>3, <1>7 DEF Typing, Alive
  <2>3. Together(p)'
    BY <1>1, <1>7, <2>1, <2>2, FreeAssumption DEF Together, Running
  <2>4. ReadingBack(p)'
    BY <1>1, <2>1, <2>2 DEF ReadingBack, Running
  <2> QED
    BY <2>3, <2>4
<1> QED
  BY <1>5, <1>6, <1>7 DEF RestInv, CoreInv

\* A while that passes: nobody is late.
LEMMA Passing ==
  ASSUME RestInv, Tick
  PROVE  \E d \in Nat \ {0} :
           /\ \A q \in Slots : /\ ~MustAct(q)
                               /\ rest[q] = "waiting" => d <= left[q]
                               /\ Running(q) => ran[q] + d <= Span(AtStep(q))
           /\ left' = [q \in Slots |-> IF rest[q] = "waiting" THEN left[q] - d ELSE left[q]]
           /\ ran' = [q \in Slots |-> IF Running(q) THEN ran[q] + d ELSE ran[q]]
<1>1. PICK d \in Leaps :
        /\ MayPass(d)
        /\ left' = [q \in Slots |-> IF rest[q] = "waiting" THEN left[q] - d ELSE left[q]]
        /\ ran' = [q \in Slots |-> IF Running(q) THEN ran[q] + d ELSE ran[q]]
  BY DEF Tick
<1>2. d \in Nat \ {0}
  BY LeapsAssumption
<1>3. ASSUME NEW q \in Slots
      PROVE  /\ ~MustAct(q)
             /\ rest[q] = "waiting" => d <= left[q]
             /\ Running(q) => ran[q] + d <= Span(AtStep(q))
  <2>1. /\ ~MustAct(q)
        /\ rest[q] = "waiting" => d <= left[q]
        /\ Running(q) => ran[q] + d <= Deadline(q)
    BY <1>1 DEF MayPass
  <2>2. ASSUME Running(q) PROVE Deadline(q) <= Span(AtStep(q)) /\ Deadline(q) \in Nat
    <3>1. AtStep(q) \in StepSet
      BY <2>2, RunsAStep
    <3> QED
      BY <3>1, SpanTyped DEF Deadline, Span
  <2>3. ran[q] \in Nat
    BY DEF RestInv, CoreInv, Typing
  <2>4. ASSUME Running(q) PROVE Span(AtStep(q)) \in Nat
    BY <2>4, RunsAStep, SpanTyped
  <2> QED
    BY <1>2, <2>1, <2>2, <2>3, <2>4
<1> QED
  BY <1>1, <1>2, <1>3

LEMMA TickKeeps == ASSUME RestInv, Tick PROVE CoreInv'
<1>1. UNCHANGED <<launch, asks, up, rest, status, handler, step, holder, params, quiet,
                  late, clean, reported, saw>>
  BY DEF Tick, lineVars
<1>2. queued' = queued \cup {q \in Slots : handler[q] = "lock"}
  BY DEF Tick
<1>3. PICK d \in Nat \ {0} :
        /\ \A q \in Slots : /\ ~MustAct(q)
                            /\ rest[q] = "waiting" => d <= left[q]
                            /\ Running(q) => ran[q] + d <= Span(AtStep(q))
        /\ left' = [q \in Slots |-> IF rest[q] = "waiting" THEN left[q] - d ELSE left[q]]
        /\ ran' = [q \in Slots |-> IF Running(q) THEN ran[q] + d ELSE ran[q]]
  BY Passing
<1>4. Typing
  BY DEF RestInv, CoreInv
<1>5. Typing'
  <2>1. left' \in [Slots -> Nat]
    BY <1>3, <1>4 DEF Typing
  <2>2. ran' \in [Slots -> Nat]
    BY <1>3, <1>4 DEF Typing
  <2> QED
    BY <1>1, <1>2, <1>4, <2>1, <2>2 DEF Typing
<1>6. Given'
  BY <1>1, GivenStays
<1>7. ASSUME NEW p \in Slots PROVE (Together(p) /\ ReadingBack(p))'
  <2>1. Together(p) /\ ReadingBack(p)
    BY <1>7 DEF RestInv, CoreInv
  <2>2. Running(p) => ran'[p] <= Span(AtStep(p))
    BY <1>3, <1>7
  <2>3. ~Running(p) => ran'[p] = ran[p]
    BY <1>3, <1>7
  <2>4. Together(p)'
    BY <1>1, <2>1, <2>2, <2>3 DEF Together, Running, AtStep
  <2>5. ReadingBack(p)'
    BY <1>1, <2>1 DEF ReadingBack, Running
  <2> QED
    BY <2>4, <2>5
<1> QED
  BY <1>5, <1>6, <1>7 DEF RestInv, CoreInv

\* A late write, or the end of what was still to come: neither meets a writer that
\* began with a quiet line.
LEMMA KamKeeps ==
  ASSUME RestInv, (\E w \in Slots : LateWrite(w)) \/ Settle PROVE CoreInv'
<1>1. /\ UNCHANGED <<launch, asks, up, rest, left, status, handler, step, ran, holder, clean,
                     reported, queued, saw>>
      /\ quiet => UNCHANGED params
      /\ quiet' \in BOOLEAN /\ late' \subseteq late
      /\ \/ UNCHANGED params
         \/ \E w \in Slots : params' = [params EXCEPT ![asks[w].command] = Adopted(asks[w])]
  BY DEF LateWrite, Settle, RestInv, CoreInv, LineInv, Typing
<1>2. Typing' /\ Given'
  BY <1>1, GivenStays DEF RestInv, CoreInv, Typing
<1>3. ASSUME NEW q \in Slots PROVE (Together(q) /\ ReadingBack(q))'
  <2>1. Own(q)' = Own(q)
    BY <1>1 DEF Own
  <2>2. Running(q) /\ Writes(asks[q]) /\ q \in clean => quiet
    BY DEF RestInv, LineInv, Tidy
  <2> QED
    BY <1>1, <2>1, <2>2, OthersKeep
<1> QED
  BY <1>2, <1>3 DEF CoreInv

(***************************************************************************)
(* The serial line.                                                        *)
(***************************************************************************)
LEMMA WritersPath ==
  ASSUME NEW r, Writes(r)
  PROVE  \/ r.path = "/params/C" /\ r.method = "PUT" /\ Accepted(r.command, r.value)
         \/ r.path = "/params/C/raw"
         \/ r.path = "/terminal/exec"
<1>1. CASE Typed(r)
  <2>1. <<r.method, r.path>> = <<"PUT", "/params/C">>
    BY <1>1 DEF Typed, Route
  <2> QED
    BY <1>1, <2>1 DEF Writes, Route
<1>2. CASE Route(r) = <<"PUT", "/params/C/raw">>
  BY <1>2 DEF Route
<1> QED
  BY <1>1, <1>2 DEF Writes

LEMMA WritersDisturbNothing == ASSUME NEW r, Writes(r) PROVE ~Disturbs(r)
BY WritersPath DEF Disturbs, PBBSPaths, WinlinkPaths

\* The first step of a write waits for its answer, and raises when its time is over.
LEMMA WriteAsks ==
  ASSUME RestInv, NEW q \in Slots, Running(q), Writes(asks[q]), step[q] = 1
  PROVE  AtStep(q).raises /\ AtStep(q).asks
<1>1. Steps(asks[q])[1].raises /\ Steps(asks[q])[1].asks
  BY WritersPath DEF Steps, SetTyped, COMMAND, Command, Step, PBBSPaths, WinlinkPaths, WebService
<1> QED
  BY <1>1 DEF AtStep

\* Who runs without the lock does not use the serial line.
LEMMA OnlyTheHolderTalks ==
  ASSUME RestInv, NEW q \in Slots, Running(q), holder # q
  PROVE  ~AtStep(q).asks /\ ~Disturbs(asks[q]) /\ ~Writes(asks[q])
<1>1. /\ step[q] \in 1..Len(Steps(asks[q])) /\ step[q] > LockedSteps(asks[q])
      /\ LockedSteps(asks[q]) \in {0, Len(Steps(asks[q]))} /\ Len(Steps(asks[q])) \in Nat
  BY StepsOf DEF RestInv, CoreInv, Together, Running
<1>2. asks[q].path \in WebService
  BY <1>1 DEF LockedSteps
<1>3. Steps(asks[q]) = <<Raising(15)>>
  BY <1>2 DEF Steps, WebService, PBBSPaths, WinlinkPaths
<1>4. step[q] = 1 /\ Steps(asks[q])[1] = Raising(15)
  BY <1>1, <1>3
<1>5. ~AtStep(q).asks
  BY <1>4 DEF AtStep, Raising, Step
<1>6. ~Disturbs(asks[q])
  BY <1>2 DEF Disturbs, WebService, PBBSPaths, WinlinkPaths
<1>7. ~Writes(asks[q])
  BY <1>2, WritersPath DEF WebService
<1> QED
  BY <1>5, <1>6, <1>7

\* A step that leaves the line alone.
LEMMA LineKept ==
  ASSUME RestInv, UNCHANGED <<asks, quiet, late, clean>>,
         \A p \in Slots : \/ handler'[p] = handler[p]
                         \/ handler'[p] \notin {"none", "sent", "lock", "run"}
                         \/ handler[p] \in {"none", "sent", "lock"}
  PROVE  LineInv'
<1>1. ASSUME NEW p \in Slots PROVE Tidy(p)'
  <2>1. Tidy(p)
    BY DEF RestInv, LineInv
  <2>2. \/ handler'[p] = handler[p]
        \/ handler'[p] \notin {"none", "sent", "lock", "run"}
        \/ handler[p] \in {"none", "sent", "lock"}
    OBVIOUS
  <2> QED
    BY <2>1, <2>2 DEF Tidy, Running
<1>2. (quiet => late = {})'
  BY DEF RestInv, LineInv
<1> QED
  BY <1>1, <1>2 DEF LineInv

LEMMA SendLine == ASSUME RestInv, NEW q \in Slots, Send(q) PROVE LineInv'
<1>1. UNCHANGED <<asks, quiet, late, clean>>
  BY DEF Send, lineVars
<1>2. handler' = handler \/ handler' = [handler EXCEPT ![q] = "sent"]
  BY DEF Send
<1>3. handler[q] = "none"
  BY DEF Send, RestInv, CoreInv, Together
<1>4. \A p \in Slots : handler'[p] = handler[p] \/ handler[p] \in {"none", "sent", "lock"}
  BY <1>2, <1>3 DEF RestInv, CoreInv, Typing
<1> QED
  BY <1>1, <1>4, LineKept

LEMMA BeginLine == ASSUME RestInv, NEW q \in Slots, Begin(q) PROVE LineInv'
<1>1. UNCHANGED <<asks, quiet, late>> /\ handler[q] \in {"sent", "lock"}
  BY DEF Begin
<1>2. \/ UNCHANGED clean
      \/ /\ clean' = IF quiet THEN clean \cup {q} ELSE clean
         /\ handler' = [handler EXCEPT ![q] = "run"]
  BY DEF Begin
<1>3. /\ handler'[q] \in {"lock", "ok", "run"}
      /\ \A p \in Slots \ {q} : handler'[p] = handler[p]
  BY DEF Begin, RestInv, CoreInv, Typing
<1>4. CASE UNCHANGED clean
  BY <1>1, <1>3, <1>4, LineKept
<1>5. CASE clean' = clean \cup {q} /\ quiet /\ handler' = [handler EXCEPT ![q] = "run"]
  <2>1. late = {}
    BY <1>5 DEF RestInv, LineInv
  <2>2. handler'[q] = "run"
    BY <1>5 DEF RestInv, CoreInv, Typing
  <2>3. ASSUME NEW p \in Slots PROVE Tidy(p)'
    <3>1. CASE p = q
      BY <1>1, <1>5, <2>1, <2>2, <3>1 DEF Tidy
    <3>2. CASE p # q
      <4>1. Tidy(p) /\ handler'[p] = handler[p]
        BY <1>3, <3>2 DEF RestInv, LineInv
      <4> QED
        BY <1>1, <1>5, <2>1, <3>2, <4>1 DEF Tidy, Running
    <3> QED
      BY <3>1, <3>2
  <2> QED
    BY <1>1, <2>1, <2>3 DEF LineInv
<1> QED
  BY <1>2, <1>4, <1>5

\* After a step the line is quiet only if it was, and nothing was left undone.
LEMMA QuietAfter ==
  ASSUME RestInv, NEW q \in Slots,
         StepEnds(q) \/ StepEndsOnStray(q) \/ StepFails(q) \/ StepTimesOut(q)
  PROVE  quiet' => quiet /\ late' = late
<1>1. CASE StepEnds(q) \/ StepEndsOnStray(q)
  BY <1>1 DEF StepEnds, StepEndsOnStray, Settled
<1>2. CASE StepFails(q)
  BY <1>2 DEF StepFails, Settled
<1>3. CASE StepTimesOut(q)
  <2> SUFFICES ASSUME quiet' PROVE quiet /\ late' = late
    OBVIOUS
  <2>1. CASE UNCHANGED late
    BY <1>3, <2>1 DEF StepTimesOut, Settled
  <2>2. CASE late' = late \cup Unfinished(q) /\ ~AtStep(q).asks /\ quiet
    <3>1. ~(step[q] = 1 /\ Welcome(asks[q]))
      BY <1>3, <2>2, WriteAsks DEF Welcome, StepTimesOut
    <3> QED
      BY <2>2, <3>1 DEF Unfinished
  <2> QED
    BY <1>3, <2>1, <2>2 DEF StepTimesOut, Settled
<1> QED
  BY <1>1, <1>2, <1>3

\* And it stays quiet under a writer that found it so.
LEMMA QuietStays ==
  ASSUME RestInv, NEW q \in Slots,
         StepEnds(q) \/ StepEndsOnStray(q) \/ StepFails(q) \/ StepTimesOut(q),
         NEW p \in Slots, Running(p)', Writes(asks[p]), p \in clean,
         p = q \/ Running(p)
  PROVE  quiet'
<1>1. Running(q) /\ Running(p)
  BY LineTyped
<1>2. quiet
  BY <1>1 DEF RestInv, LineInv, Tidy
<1>3. CASE p = q
  <2>1. ~Raise(q)
    <3> SUFFICES ASSUME Raise(q) PROVE FALSE
      OBVIOUS
    <3>1. handler'[q] = "error"
      BY DEF Raise, RestInv, CoreInv, Typing
    <3> QED
      BY <1>3, <3>1 DEF Running
  <2>2. ~Disturbs(asks[q])
    BY <1>3, WritersDisturbNothing
  <2>3. StepEnds(q) \/ (StepTimesOut(q) /\ ~AtStep(q).raises)
    BY <1>2, <2>1 DEF StepEndsOnStray, StepFails, StepTimesOut
  <2>4. quiet' = Settled(q)
    BY <2>1, <2>3 DEF StepEnds, StepTimesOut
  <2> QED
    BY <1>2, <2>2, <2>4 DEF Settled
<1>4. CASE p # q
  <2>1. holder = p
    BY <1>1, OnlyTheHolderTalks
  <2>2. ~AtStep(q).asks /\ ~Disturbs(asks[q])
    BY <1>1, <1>4, <2>1, OnlyTheHolderTalks
  <2> QED
    BY <1>2, <2>2 DEF StepEnds, StepEndsOnStray, StepFails, StepTimesOut, Settled
<1> QED
  BY <1>3, <1>4

LEMMA StepsLine ==
  ASSUME RestInv, NEW q \in Slots,
         StepEnds(q) \/ StepEndsOnStray(q) \/ StepFails(q) \/ StepTimesOut(q)
  PROVE  LineInv'
<1>1. /\ Running(q) /\ UNCHANGED <<asks, clean>>
      /\ late' = late \/ late' = late \cup Unfinished(q)
      /\ Raise(q) \/ Proceed(q)
  BY LineTyped
<1>2. /\ handler'[q] \in {"run", "ok", "error"}
      /\ \A p \in Slots \ {q} : handler'[p] = handler[p]
  <2>1. CASE Raise(q)
    BY <2>1 DEF Raise, RestInv, CoreInv, Typing
  <2>2. CASE Proceed(q)
    BY <1>1, <2>2 DEF Proceed, Running, RestInv, CoreInv, Typing
  <2> QED
    BY <1>1, <2>1, <2>2
<1>3. \A p : p \in Unfinished(q) => p = q /\ Writes(asks[q])
  BY DEF Unfinished, Welcome
<1>4. asks[q] # NoRequest
  BY <1>1 DEF Running, RestInv, CoreInv, Together
<1>5. ASSUME NEW p \in Slots PROVE Tidy(p)'
  <2>1. Tidy(p)
    BY DEF RestInv, LineInv
  <2>2. p \in late' => p \in late \/ (p = q /\ Writes(asks[q]))
    BY <1>1, <1>3
  <2>3. p # q => handler'[p] = handler[p]
    BY <1>2
  <2>4. handler'[p] = "run" => p = q \/ Running(p)
    BY <2>3 DEF Running
  <2>5. handler'[p] = "run" /\ Writes(asks[p]) /\ p \in clean => quiet'
    BY <2>4, QuietStays DEF Running
  <2>6. p \in late' => handler'[p] \notin {"none", "sent", "lock"} /\ Writes(asks[p])
                       /\ asks[p] # NoRequest
    BY <1>2, <1>4, <2>1, <2>2, <2>3 DEF Tidy
  <2>7. p \in clean => handler'[p] \notin {"none", "sent", "lock"}
    BY <1>2, <2>1, <2>3 DEF Tidy
  <2> QED
    BY <1>1, <2>5, <2>6, <2>7 DEF Tidy, Running
<1>6. (quiet => late = {})'
  BY QuietAfter DEF RestInv, LineInv
<1> QED
  BY <1>5, <1>6 DEF LineInv

LEMMA AnswerLine ==
  ASSUME RestInv, (\E q \in Slots : GiveUp(q) \/ Reply(q)) \/ Tick
  PROVE  LineInv'
<1>1. UNCHANGED <<asks, quiet, late, clean>>
  BY DEF GiveUp, Reply, Tick, lineVars
<1>2. UNCHANGED handler \/ \E q \in Slots : handler' = [handler EXCEPT ![q] = "gone"]
  BY DEF GiveUp, Reply, Tick
<1>3. \A p \in Slots : handler'[p] = handler[p] \/ handler'[p] = "gone"
  BY <1>2 DEF RestInv, CoreInv, Typing
<1> QED
  BY <1>1, <1>3, LineKept

LEMMA KamLine ==
  ASSUME RestInv, (\E w \in Slots : LateWrite(w)) \/ Settle PROVE LineInv'
<1>1. /\ UNCHANGED <<asks, handler, clean>> /\ late' \subseteq late
      /\ quiet' = quiet \/ (quiet' = TRUE /\ late = {})
  BY DEF LateWrite, Settle
<1>2. ASSUME NEW p \in Slots PROVE Tidy(p)'
  <2>1. Tidy(p)
    BY DEF RestInv, LineInv
  <2> QED
    BY <1>1, <2>1 DEF Tidy, Running
<1>3. (quiet => late = {})'
  BY <1>1 DEF RestInv, LineInv
<1> QED
  BY <1>2, <1>3 DEF LineInv

LEMMA DaemonStopsLine == ASSUME RestInv, DaemonStops PROVE LineInv'
<1>1. /\ UNCHANGED <<asks, clean>>
      /\ late' = IF holder = Free THEN late ELSE late \cup Unfinished(holder)
      /\ quiet' = (quiet /\ holder = Free)
  BY DEF DaemonStops
<1>2. \A p \in Slots : \/ handler'[p] = handler[p] /\ handler[p] \in {"none", "gone"}
                      \/ handler'[p] = "gone"
  BY DEF DaemonStops, Alive, RestInv, CoreInv, Typing
<1>3. ASSUME NEW p \in Slots, p \in late' PROVE handler'[p] = "gone" /\ Writes(asks[p])
                                               /\ asks[p] # NoRequest
  <2>1. CASE p \in late
    BY <1>2, <2>1 DEF RestInv, LineInv, Tidy
  <2>2. CASE p \notin late
    <3>1. p = holder /\ Writes(asks[p])
      BY <1>1, <1>3, <2>2 DEF Unfinished, Welcome
    <3>2. Running(p) /\ asks[p] # NoRequest
      BY <3>1 DEF RestInv, CoreInv, Together, Running
    <3> QED
      BY <1>2, <3>1, <3>2 DEF Running
  <2> QED
    BY <2>1, <2>2
<1>4. ASSUME NEW p \in Slots PROVE Tidy(p)'
  <2>1. p \in clean => handler'[p] = "gone"
    BY <1>2 DEF RestInv, LineInv, Tidy
  <2>2. handler'[p] # "run"
    BY <1>2
  <2> QED
    BY <1>1, <1>3, <2>1, <2>2 DEF Tidy, Running
<1>5. (quiet => late = {})'
  BY <1>1 DEF RestInv, LineInv
<1> QED
  BY <1>4, <1>5 DEF LineInv

LEMMA RestStep == RestInv /\ [Next]_vars => RestInv'
<1> SUFFICES ASSUME RestInv, [Next]_vars PROVE RestInv'
  OBVIOUS
<1>1. CASE UNCHANGED vars
  <2>1. \A q \in Slots : Own(q)' = Own(q)
    BY <1>1 DEF vars, Own
  <2>2. \A q \in Slots : (Together(q) /\ ReadingBack(q))'
    BY <1>1, <2>1, OthersKeep DEF vars, lineVars
  <2>3. Typing' /\ Given'
    BY <1>1, GivenStays DEF vars, lineVars, RestInv, CoreInv, Typing
  <2>4. LineInv'
    BY <1>1, LineKept DEF vars, lineVars
  <2> QED
    BY <2>2, <2>3, <2>4 DEF RestInv, CoreInv
<1>2. CASE \E q \in Slots : Send(q)
  BY <1>2, SendKeeps, SendLine DEF RestInv
<1>3. CASE \E q \in Slots : GiveUp(q) \/ Reply(q)
  BY <1>3, GiveUpKeeps, ReplyKeeps, AnswerLine DEF RestInv
<1>4. CASE \E q \in Slots : Begin(q)
  BY <1>4, BeginKeeps, BeginLine DEF RestInv
<1>5. CASE \E q \in Slots :
             StepEnds(q) \/ StepEndsOnStray(q) \/ StepFails(q) \/ StepTimesOut(q)
  BY <1>5, StepEndsKeeps, StrayKeeps, StepFailsKeeps, StepTimesOutKeeps, StepsLine DEF RestInv
<1>6. CASE (\E w \in Slots : LateWrite(w)) \/ Settle
  BY <1>6, KamKeeps, KamLine DEF RestInv
<1>7. CASE DaemonStops
  BY <1>7, DaemonStopsKeeps, DaemonStopsLine DEF RestInv
<1>8. CASE Tick
  BY <1>8, TickKeeps, AnswerLine DEF RestInv
<1> QED
  BY <1>1, <1>2, <1>3, <1>4, <1>5, <1>6, <1>7, <1>8 DEF Next, Operation

\* Whoever has the lock is at work.
LEMMA HolderRuns ==
  ASSUME RestInv, holder \in Slots
  PROVE  Running(holder)
BY DEF RestInv, CoreInv, Together

LEMMA RestInvAlways == Spec => []RestInv
BY RestInit, RestStep, PTL DEF Spec

\* Every variable keeps its type, and no step of the driver outlasts its deadline.
THEOREM RestTypeCorrect == Spec => []TypeOK
<1>1. RestInv => TypeOK
  BY DEF RestInv, CoreInv, Typing, Together, TypeOK, Handling, Span
<1> QED
  BY <1>1, RestInvAlways, PTL

\* The daemon takes a request only with the key, or on localhost without one.
THEOREM KeyNeeded == Spec => []OnlyWithTheKey
<1>1. RestInv => OnlyWithTheKey
  <2> SUFFICES ASSUME RestInv, NEW q \in Slots, handler[q] # "none"
               PROVE  \/ asks[q].key = (IF launch.key # "" THEN launch.key ELSE "token")
                      \/ launch.noAuth /\ launch.host = "localhost"
    BY DEF OnlyWithTheKey
  <2>1. Launchable(launch) /\ CheckAuth(launch, asks[q])
    BY DEF RestInv, CoreInv, Given, Together
  <2> QED
    BY <2>1 DEF Launchable, CheckAuth, ApiKey
<1> QED
  BY <1>1, RestInvAlways, PTL

\* The value a typed PUT is answered with is the one it wrote, however many others
\* write the same parameter, if the serial line was quiet as its turn began: then
\* nothing but its own answers comes, nobody else has the lock between write and
\* read, and no late write is left to be carried out.
THEOREM AnswersInForce == Spec => []AnswerIsInForce
<1>1. RestInv => AnswerIsInForce
  <2> SUFFICES ASSUME RestInv, NEW q \in Slots, status[q] = 200,
                      Typed(asks[q]), ReadsBack(asks[q]), q \in clean
               PROVE  reported[q] = Parsed(asks[q].command, Adopted(asks[q]))
    BY DEF AnswerIsInForce
  <2>1. asks[q] # NoRequest
    BY DEF RestInv, CoreInv, Together, NoAnswer
  <2> QED
    BY <2>1 DEF RestInv, CoreInv, ReadingBack
<1> QED
  BY <1>1, RestInvAlways, PTL

-----------------------------------------------------------------------------
(***************************************************************************)
(* Answers and the writes of others.                                       *)
(***************************************************************************)
Wrote(w) == (Running(w) /\ step[w] > 1) \/ handler[w] = "ok" \/ status[w] = 200

\* No other write of its parameter can still be carried out.
Alone(w) ==
  \A v \in Slots \ {w} :
    rest[v] # "idle" /\ Writes(asks[v]) /\ asks[v].command = asks[w].command
      => v \in saw[w] /\ status[v] # 504

\* Only a request that was given up may go on after its answer.
Over(v) == rest[v] = "done" /\ status[v] # 504 => handler[v] \in {"none", "gone"}

SawAnswers(w) == \A v \in saw[w] : v \in Slots /\ rest[v] = "done"

\* What was answered before a slot that found the line quiet was sent, is done.
Untouched(w) == \A v \in saw[w] : w \in clean /\ status[v] # 504 => v \notin late

Stands(w) ==
  Writes(asks[w]) /\ Wrote(w) /\ w \in clean /\ Alone(w)
    => params[asks[w].command] = Adopted(asks[w])

StandInv == \A w \in Slots : Over(w) /\ SawAnswers(w) /\ Untouched(w) /\ Stands(w)

\* What a step may do to the parameters.
SomeWrite ==
  \/ UNCHANGED params
  \/ \E v \in Slots :
       /\ Running(v) \/ v \in late
       /\ Writes(asks[v]) /\ asks[v].command \in DOMAIN params
       /\ params' = [params EXCEPT ![asks[v].command] = Adopted(asks[v])]

LEMMA WriteIsSome ==
  ASSUME RestInv, NEW q \in Slots, Running(q), Write(q) \/ UNCHANGED params
  PROVE  SomeWrite
<1>1. CASE UNCHANGED params
  BY <1>1 DEF SomeWrite
<1>2. CASE step[q] = 1 /\ Welcome(asks[q])
              /\ params' = [params EXCEPT ![asks[q].command] = Adopted(asks[q])]
  BY <1>2, WriterHolds DEF SomeWrite, Welcome
<1> QED
  BY <1>1, <1>2 DEF Write, Unfinished

\* Answers stand, nobody becomes alone, and a writer that is alone is not disturbed.
LEMMA StandKeeps ==
  ASSUME RestInv, StandInv, UNCHANGED asks, SomeWrite,
         NEW w \in Slots,
         \A v \in Slots : /\ rest[v] = "done" => rest'[v] = "done" /\ status'[v] = status[v]
                          /\ rest[v] # "idle" => rest'[v] # "idle",
         saw'[w] = saw[w] \/ rest[w] = "idle",
         Writes(asks[w]) /\ Wrote(w)' /\ w \in clean' =>
           (Wrote(w) /\ w \in clean) \/ params'[asks[w].command] = Adopted(asks[w])
  PROVE  Stands(w)'
<1> SUFFICES ASSUME Writes(asks[w]), Wrote(w), w \in clean, Alone(w)'
             PROVE  params'[asks[w].command] = Adopted(asks[w])
  BY DEF Stands
<1>1. saw'[w] = saw[w]
  BY DEF RestInv, CoreInv, Together, Wrote, Running, NoAnswer
<1>2. Alone(w)
  BY <1>1 DEF Alone, StandInv, SawAnswers
<1>3. params[asks[w].command] = Adopted(asks[w])
  BY <1>2 DEF StandInv, Stands
<1>4. CASE UNCHANGED params
  BY <1>3, <1>4
<1>5. ASSUME NEW v \in Slots, Running(v) \/ v \in late,
             Writes(asks[v]), asks[v].command \in DOMAIN params,
             params' = [params EXCEPT ![asks[v].command] = Adopted(asks[v])]
      PROVE  params'[asks[w].command] = Adopted(asks[w])
  <2>1. CASE v = w
    BY <1>5, <2>1
  <2>2. CASE v # w /\ asks[v].command = asks[w].command
    <3>1. rest[v] # "idle"
      BY <1>5 DEF RestInv, CoreInv, LineInv, Tidy, Together, Running
    <3>2. v \in saw[w] /\ status[v] # 504
      BY <1>2, <1>5, <2>2, <3>1 DEF Alone
    <3>3. rest[v] = "done"
      BY <3>2 DEF StandInv, SawAnswers
    <3>4. v \notin late
      BY <3>2 DEF StandInv, Untouched
    <3> QED
      BY <1>5, <3>2, <3>3, <3>4 DEF StandInv, Over, Running
  <2>3. CASE asks[v].command # asks[w].command
    BY <1>3, <1>5, <2>3
  <2> QED
    BY <2>1, <2>2, <2>3
<1> QED
  BY <1>4, <1>5 DEF SomeWrite

\* The steps of a handler before its answer.
LEMMA RunningStands ==
  ASSUME RestInv, StandInv, NEW q \in Slots, handler[q] \in {"sent", "lock", "run"},
         UNCHANGED <<asks, rest, status, saw>>, SomeWrite,
         \A p \in Slots \ {q} : handler'[p] = handler[p] /\ step'[p] = step[p],
         clean' = clean \/ (clean' = clean \cup {q} /\ late = {}),
         \A v : v \in late' => v \in late \/ v = q,
         Writes(asks[q]) /\ Wrote(q)' /\ q \in clean' =>
           (Wrote(q) /\ clean' = clean) \/ params'[asks[q].command] = Adopted(asks[q])
  PROVE  StandInv'
<1> SUFFICES ASSUME NEW w \in Slots PROVE (Over(w) /\ SawAnswers(w) /\ Untouched(w) /\ Stands(w))'
  BY DEF StandInv
<1>1. Over(w)'
  BY DEF StandInv, Over
<1>2. SawAnswers(w)'
  BY DEF StandInv, SawAnswers
<1>3. w # q => (Wrote(w)' <=> Wrote(w))
  BY DEF Wrote, Running
<1>4. Stands(w)'
  <2>1. Writes(asks[w]) /\ Wrote(w)' /\ w \in clean' =>
          (Wrote(w) /\ w \in clean) \/ params'[asks[w].command] = Adopted(asks[w])
    BY <1>3
  <2> QED
    BY <2>1, StandKeeps
<1>5. Untouched(w)'
  <2> SUFFICES ASSUME NEW v \in saw[w], w \in clean', status[v] # 504 PROVE v \notin late'
    BY DEF Untouched
  <2>1. v \in Slots /\ rest[v] = "done" /\ Over(v)
    BY DEF StandInv, SawAnswers
  <2>2. v # q
    BY <2>1 DEF Over
  <2>3. w \in clean => v \notin late
    BY DEF StandInv, Untouched
  <2> QED
    BY <2>2, <2>3
<1> QED
  BY <1>1, <1>2, <1>4, <1>5

LEMMA StandInit == Init => StandInv
BY DEF Init, StandInv, Over, SawAnswers, Untouched, Stands, Wrote, Running, NoAnswer

LEMMA BeginStands ==
  ASSUME RestInv, StandInv, NEW q \in Slots, Begin(q) PROVE StandInv'
<1>1. Typing /\ Together(q)
  BY DEF RestInv, CoreInv
<1>2. UNCHANGED <<asks, rest, status, saw, params>> /\ handler[q] \in {"sent", "lock"}
  BY DEF Begin
<1>3. \A p \in Slots \ {q} : handler'[p] = handler[p] /\ step'[p] = step[p]
  BY <1>1 DEF Begin, Typing
<1>4. Writes(asks[q]) => ~Wrote(q)'
  <2> SUFFICES ASSUME Writes(asks[q]) PROVE ~Wrote(q)'
    OBVIOUS
  <2>1. LockedSteps(asks[q]) >= 1 /\ LockedSteps(asks[q]) \in Nat
    BY <1>2, WritersLock, StepsOf
  <2>2. \/ handler'[q] = "lock"
        \/ handler'[q] = "run" /\ step'[q] = 1
    BY <1>1, <1>2, <2>1 DEF Begin, Typing
  <2>3. status'[q] # 200
    BY <1>1, <1>2 DEF Together
  <2> QED
    BY <2>2, <2>3 DEF Wrote, Running
<1>5. UNCHANGED late /\ (clean' = clean \/ (clean' = clean \cup {q} /\ quiet))
  BY DEF Begin
<1>6. clean' = clean \/ (clean' = clean \cup {q} /\ late = {})
  BY <1>5 DEF RestInv, LineInv
<1> QED
  BY <1>2, <1>3, <1>4, <1>5, <1>6, RunningStands DEF SomeWrite

LEMMA RaiseStands ==
  ASSUME RestInv, StandInv, NEW q \in Slots, Running(q), Raise(q),
         Write(q) \/ UNCHANGED params, UNCHANGED <<asks, rest, status, clean, saw>>,
         \A v : v \in late' => v \in late \/ v = q
  PROVE  StandInv'
<1>1. Typing /\ Together(q)
  BY DEF RestInv, CoreInv
<1>2. handler'[q] = "error" /\ \A p \in Slots \ {q} : handler'[p] = handler[p] /\ step'[p] = step[p]
  BY <1>1 DEF Raise, Typing
<1>3. ~Wrote(q)'
  BY <1>1, <1>2 DEF Together, Wrote, Running
<1> QED
  BY <1>2, <1>3, RunningStands, WriteIsSome DEF Running

LEMMA ProceedStands ==
  ASSUME RestInv, StandInv, NEW q \in Slots, Running(q), Proceed(q),
         Write(q) \/ UNCHANGED params, UNCHANGED <<asks, rest, status, clean, saw>>,
         \A v : v \in late' => v \in late \/ v = q,
         Writes(asks[q]) /\ step[q] = 1 /\ q \in clean => params'[asks[q].command] = Adopted(asks[q])
  PROVE  StandInv'
<1>1. Typing
  BY DEF RestInv, CoreInv
<1>2. \A p \in Slots \ {q} : handler'[p] = handler[p] /\ step'[p] = step[p]
  BY <1>1 DEF Proceed, Typing
<1>3. step[q] # 1 => Wrote(q)
  BY RunsAStep DEF Wrote
<1> QED
  BY <1>2, <1>3, RunningStands, WriteIsSome DEF Running

LEMMA StepsStand ==
  ASSUME RestInv, StandInv, NEW q \in Slots,
         StepEnds(q) \/ StepEndsOnStray(q) \/ StepFails(q) \/ StepTimesOut(q)
  PROVE  StandInv'
<1>1. /\ Running(q) /\ UNCHANGED <<asks, rest, status, clean, saw>>
      /\ Write(q) \/ UNCHANGED params
      /\ Raise(q) \/ Proceed(q)
  BY LineTyped
<1>2. \A v : v \in late' => v \in late \/ v = q
  BY LineTyped DEF Unfinished
<1>3. CASE Raise(q)
  BY <1>1, <1>2, <1>3, RaiseStands
<1>4. CASE Proceed(q) /\ ~Raise(q)
  <2>1. ASSUME Writes(asks[q]), step[q] = 1, q \in clean
        PROVE  params'[asks[q].command] = Adopted(asks[q])
    <3>1. quiet
      BY <1>1, <2>1 DEF RestInv, LineInv, Tidy
    <3>2. StepEnds(q)
      BY <1>1, <1>4, <2>1, <3>1, WriteAsks DEF StepEndsOnStray, StepFails, StepTimesOut
    <3>3. Welcome(asks[q]) /\ Write(q)
      BY <2>1, <3>2 DEF StepEnds
    <3> QED
      BY <1>1, <2>1, <3>3, WriterHolds DEF Write, Unfinished
  <2> QED
    BY <1>1, <1>2, <1>4, <2>1, ProceedStands
<1> QED
  BY <1>1, <1>3, <1>4

LEMMA WriterIsNoPage ==
  ASSUME NEW l, NEW r, Writes(r)
  PROVE  Immediate(l, r) # 200
<1>1. r.path \in {"/params/C", "/params/C/raw", "/terminal/exec"}
  <2>1. CASE Typed(r)
    <3>1. <<r.method, r.path>> = <<"PUT", "/params/C">>
      BY <2>1 DEF Typed, Route
    <3> QED
      BY <3>1
  <2>2. CASE Route(r) = <<"PUT", "/params/C/raw">>
    BY <2>2 DEF Route
  <2> QED
    BY <2>1, <2>2 DEF Writes
<1> QED
  BY <1>1 DEF Immediate, Pages, NoAnswer

LEMMA SendStands == ASSUME RestInv, StandInv, NEW q \in Slots, Send(q) PROVE StandInv'
<1>1. Typing /\ Together(q)
  BY DEF RestInv, CoreInv
<1>2. /\ rest[q] = "idle" /\ handler[q] = "none" /\ status[q] = NoAnswer
      /\ UNCHANGED <<asks, step, params, late, clean>>
      /\ saw' = [saw EXCEPT ![q] = {p \in Slots : Answered(p)}]
  BY <1>1 DEF Send, Together, lineVars
<1>3. /\ rest'[q] # "idle"
      /\ rest'[q] = "done" => handler'[q] = "none"
      /\ handler'[q] \in {"none", "sent"}
      /\ status'[q] = 200 => Immediate(launch, asks[q]) = 200
      /\ \A p \in Slots \ {q} : /\ rest'[p] = rest[p] /\ status'[p] = status[p]
                                /\ handler'[p] = handler[p] /\ saw'[p] = saw[p]
  BY <1>1, <1>2 DEF Send, Answer, Typing, NoAnswer
<1> SUFFICES ASSUME NEW w \in Slots PROVE (Over(w) /\ SawAnswers(w) /\ Untouched(w) /\ Stands(w))'
  BY DEF StandInv
<1>4. Over(w)'
  BY <1>3 DEF StandInv, Over
<1>5. SawAnswers(w)'
  <2>1. saw'[q] = {p \in Slots : rest[p] = "done"}
    BY <1>1, <1>2 DEF Typing, Answered
  <2>2. \A v \in Slots : rest[v] = "done" => rest'[v] = "done"
    BY <1>2, <1>3
  <2>3. CASE w = q
    BY <2>1, <2>2, <2>3 DEF SawAnswers
  <2>4. CASE w # q
    BY <1>3, <2>2, <2>4 DEF StandInv, SawAnswers
  <2> QED
    BY <2>3, <2>4
<1>6. Writes(asks[w]) /\ Wrote(w)' => Wrote(w)
  BY <1>2, <1>3, WriterIsNoPage DEF Wrote, Running
<1>7. /\ saw'[w] = saw[w] \/ rest[w] = "idle"
      /\ \A v \in Slots : /\ rest[v] = "done" => rest'[v] = "done" /\ status'[v] = status[v]
                          /\ rest[v] # "idle" => rest'[v] # "idle"
  BY <1>2, <1>3
<1>8. Stands(w)'
  BY <1>2, <1>6, <1>7, StandKeeps DEF SomeWrite
<1>9. Untouched(w)'
  <2>1. q \notin clean
    BY <1>2 DEF RestInv, LineInv, Tidy
  <2>2. CASE w = q
    BY <1>2, <2>1, <2>2 DEF Untouched
  <2>3. CASE w # q
    <3> SUFFICES ASSUME NEW v \in saw[w], w \in clean, status'[v] # 504 PROVE v \notin late
      BY <1>2, <1>3, <2>3 DEF Untouched
    <3>1. v \in Slots /\ rest[v] = "done"
      BY DEF StandInv, SawAnswers
    <3> QED
      BY <1>7, <3>1 DEF StandInv, Untouched
  <2> QED
    BY <2>2, <2>3
<1> QED
  BY <1>4, <1>5, <1>8, <1>9

\* An answer from the daemon, or none.
LEMMA AnswerStands ==
  ASSUME RestInv, StandInv, NEW q \in Slots, GiveUp(q) \/ Reply(q)
  PROVE  StandInv'
<1>1. Typing /\ Together(q) /\ Over(q)
  BY DEF RestInv, CoreInv, StandInv
<1>2. UNCHANGED <<asks, step, params, late, clean, saw>>
  BY DEF GiveUp, Reply, lineVars
<1>3. /\ \A p \in Slots \ {q} : /\ rest'[p] = rest[p] /\ status'[p] = status[p]
                                /\ handler'[p] = handler[p]
      /\ rest[q] = "done" => rest'[q] = "done" /\ status'[q] = status[q]
      /\ rest[q] # "idle" => rest'[q] # "idle"
  BY <1>1 DEF GiveUp, Reply, Answer, Typing
<1>4. /\ status'[q] = 504 \/ handler'[q] = "gone"
      /\ Wrote(q)' => Wrote(q)
  BY <1>1, <1>2 DEF GiveUp, Reply, Answer, Typing, TimeoutStatus, Wrote, Running, Together, NoAnswer
<1> SUFFICES ASSUME NEW w \in Slots PROVE (Over(w) /\ SawAnswers(w) /\ Untouched(w) /\ Stands(w))'
  BY DEF StandInv
<1>5. Over(w)'
  BY <1>3, <1>4 DEF StandInv, Over
<1>6. SawAnswers(w)'
  BY <1>2, <1>3 DEF StandInv, SawAnswers
<1>7. Wrote(w)' => Wrote(w)
  BY <1>2, <1>3, <1>4 DEF Wrote, Running
<1>8. Stands(w)'
  BY <1>2, <1>3, <1>7, StandKeeps DEF SomeWrite
<1>9. Untouched(w)'
  <2> SUFFICES ASSUME NEW v \in saw[w], w \in clean, status'[v] # 504 PROVE v \notin late'
    BY <1>2 DEF Untouched
  <2>1. v \in Slots /\ rest[v] = "done" /\ Over(v)
    BY DEF StandInv, SawAnswers
  <2>2. status[v] # 504
    BY <1>3, <2>1
  <2>3. v \notin late
    BY <2>2 DEF StandInv, Untouched
  <2> QED
    BY <1>2, <2>3
<1> QED
  BY <1>5, <1>6, <1>8, <1>9

LEMMA DaemonStopsStands == ASSUME RestInv, StandInv, DaemonStops PROVE StandInv'
<1>1. Typing
  BY DEF RestInv, CoreInv
<1>2. UNCHANGED <<asks, step, params, clean, saw>>
  BY DEF DaemonStops
<1>3. \A p \in Slots : /\ rest[p] = "done" => rest'[p] = "done" /\ status'[p] = status[p]
                       /\ rest[p] # "idle" => rest'[p] # "idle"
                       /\ handler'[p] \in {"none", "gone"}
                       /\ status'[p] = 200 => status[p] = 200
  BY <1>1 DEF DaemonStops, Alive, Typing
<1>4. SomeWrite
  BY <1>2 DEF SomeWrite
<1> SUFFICES ASSUME NEW w \in Slots PROVE (Over(w) /\ SawAnswers(w) /\ Untouched(w) /\ Stands(w))'
  BY DEF StandInv
<1>5. Over(w)' /\ SawAnswers(w)'
  BY <1>2, <1>3 DEF StandInv, Over, SawAnswers
<1>6. Wrote(w)' => Wrote(w)
  BY <1>3 DEF Wrote, Running
<1>7. Stands(w)'
  BY <1>2, <1>3, <1>4, <1>6, StandKeeps
<1>8. Untouched(w)'
  <2> SUFFICES ASSUME NEW v \in saw[w], w \in clean, status'[v] # 504 PROVE v \notin late'
    BY <1>2 DEF Untouched
  <2>1. v \in Slots /\ rest[v] = "done" /\ Over(v)
    BY DEF StandInv, SawAnswers
  <2>2. status[v] # 504
    BY <1>3, <2>1
  <2>3. v \notin late
    BY <2>2 DEF StandInv, Untouched
  <2>4. Running(v) => FALSE
    BY <2>1, <2>2 DEF Over, Running
  <2>5. v # holder \/ holder = Free
    BY <1>1, <2>4, HolderRuns DEF Typing
  <2> QED
    BY <2>3, <2>5 DEF DaemonStops, Unfinished
<1> QED
  BY <1>5, <1>7, <1>8

LEMMA KamStands ==
  ASSUME RestInv, StandInv, (\E w \in Slots : LateWrite(w)) \/ Settle PROVE StandInv'
<1>1. UNCHANGED <<asks, rest, status, handler, step, clean, saw>> /\ late' \subseteq late
  BY DEF LateWrite, Settle
<1>2. SomeWrite
  <2>1. CASE UNCHANGED params
    BY <2>1 DEF SomeWrite
  <2>2. ASSUME NEW v \in Slots, LateWrite(v),
               params' = [params EXCEPT ![asks[v].command] = Adopted(asks[v])]
        PROVE  SomeWrite
    <3>1. v \in late
      BY <2>2 DEF LateWrite
    <3>2. Writes(asks[v]) /\ asks[v] # NoRequest
      BY <3>1 DEF RestInv, LineInv, Tidy
    <3>3. asks[v].command \in DOMAIN params
      BY <3>2 DEF RestInv, CoreInv, Given, Typing
    <3> QED
      BY <2>2, <3>1, <3>2, <3>3 DEF SomeWrite
  <2> QED
    BY <2>1, <2>2 DEF LateWrite, Settle
<1> SUFFICES ASSUME NEW w \in Slots PROVE (Over(w) /\ SawAnswers(w) /\ Untouched(w) /\ Stands(w))'
  BY DEF StandInv
<1>3. (Over(w) /\ SawAnswers(w) /\ Untouched(w))'
  BY <1>1 DEF StandInv, Over, SawAnswers, Untouched
<1>4. Wrote(w)' => Wrote(w)
  BY <1>1 DEF Wrote, Running
<1>5. Stands(w)'
  BY <1>1, <1>2, <1>4, StandKeeps
<1> QED
  BY <1>3, <1>5

LEMMA StandStep == RestInv /\ StandInv /\ [Next]_vars => StandInv'
<1> SUFFICES ASSUME RestInv, StandInv, [Next]_vars PROVE StandInv'
  OBVIOUS
<1>1. CASE Tick \/ UNCHANGED vars
  <2>1. UNCHANGED <<asks, rest, status, handler, step, params, late, clean, saw>>
    BY <1>1 DEF Tick, vars, lineVars
  <2>2. ASSUME NEW w \in Slots PROVE (Over(w) /\ SawAnswers(w) /\ Untouched(w) /\ Stands(w))'
    <3>1. Over(w) /\ SawAnswers(w) /\ Untouched(w) /\ Stands(w)
      BY DEF StandInv
    <3> QED
      BY <2>1, <3>1 DEF Over, SawAnswers, Untouched, Stands, Wrote, Alone, Running
  <2> QED
    BY <2>2 DEF StandInv
<1> QED
  BY <1>1, SendStands, BeginStands, StepsStand, AnswerStands, DaemonStopsStands, KamStands
  DEF Next, Operation

\* A write that was answered 200, and found the serial line quiet, is in force as
\* long as no other write of its parameter is under way, was sent later, or was given
\* up by its own caller: what timed out before it has been carried out or lost.
THEOREM WritesStand == Spec => []AnsweredWriteStands
<1>1. RestInv /\ StandInv => AnsweredWriteStands
  <2> SUFFICES ASSUME StandInv, NEW w \in Slots, status[w] = 200, Writes(asks[w]), w \in clean,
                      Alone(w)
               PROVE  params[asks[w].command] = Adopted(asks[w])
    BY DEF AnsweredWriteStands, Alone
  <2> QED
    BY DEF StandInv, Stands, Wrote
<1>2. Init => RestInv /\ StandInv
  BY RestInit, StandInit
<1>3. RestInv /\ StandInv /\ [Next]_vars => (RestInv /\ StandInv)'
  BY RestStep, StandStep
<1> QED
  BY <1>1, <1>2, <1>3, PTL DEF Spec

-----------------------------------------------------------------------------
(***************************************************************************)
(* Budgets: how long an operation may take after its step k.               *)
(***************************************************************************)
After(r, k) ==
  IF r.path = "/disconnect" THEN (IF k = 1 THEN r.times.t + 1 ELSE 0)
  ELSE IF r.path \in PBBSPaths
  THEN (IF k = 1 THEN r.times.r + 36 ELSE IF k = 2 THEN 36 ELSE IF k = 3 THEN 31 ELSE 0)
  ELSE IF r.path \in WinlinkPaths
  THEN (IF k = 1 THEN 3 * r.times.r + 36 ELSE IF k = 2 THEN 2 * r.times.r + 36
        ELSE IF k = 3 THEN r.times.r + 36 ELSE IF k = 4 THEN 36 ELSE IF k = 5 THEN 31 ELSE 0)
  ELSE 0

\* The steps of a session whose station is named.
LEMMA NamedSession ==
  ASSUME NEW r, r.named, r.times \in Times, NEW n \in {1, 3}
  PROVE  LET s == Session(r, n)
         IN  /\ Len(s) = n + 3
             /\ s[1] = Banner(r.times.c)
             /\ \A k \in 2..n + 1 : s[k] = Lenient(r.times.r)
             /\ s[n + 2] = Command(5) /\ s[n + 3] = Banner(30)
<1> DEFINE b == <<Banner(r.times.c)>>
           c == [k \in 1..n |-> Lenient(r.times.r)]
           d == <<Command(5), Banner(30)>>
<1>1. /\ Banner(r.times.c) \in StepSet /\ Command(5) \in StepSet
      /\ Banner(30) \in StepSet /\ Lenient(r.times.r) \in StepSet
  BY Kinds DEF Times
<1>2. b \in Seq(StepSet) /\ Len(b) = 1 /\ b[1] = Banner(r.times.c)
  BY <1>1
<1>3. c \in Seq(StepSet) /\ Len(c) = n /\ \A k \in 1..n : c[k] = Lenient(r.times.r)
  BY <1>1
<1>4. d \in Seq(StepSet) /\ Len(d) = 2 /\ d[1] = Command(5) /\ d[2] = Banner(30)
  BY <1>1
<1>5. Session(r, n) = (b \o c) \o d
  <2>1. <<>> \o b = b
    BY <1>2, ConcatEmptySeq
  <2> QED
    BY <2>1 DEF Session, Name, DISCONNECT
<1> HIDE DEF b, c, d
<1>6. /\ (b \o c) \in Seq(StepSet) /\ Len(b \o c) = n + 1
      /\ \A i \in 1..n + 1 : (b \o c)[i] = IF i <= 1 THEN b[i] ELSE c[i - 1]
  BY <1>2, <1>3, ConcatProperties
<1> DEFINE e == b \o c
<1>7. e \in Seq(StepSet) /\ Len(e) = n + 1
  BY <1>6
<1>8. e[1] = b[1] /\ \A i \in 2..n + 1 : e[i] = c[i - 1]
  BY <1>6
<1> HIDE DEF e
<1>9. /\ Len(e \o d) = Len(e) + Len(d)
      /\ \A i \in 1..Len(e) + Len(d) : (e \o d)[i] = IF i <= Len(e) THEN e[i]
                                                     ELSE d[i - Len(e)]
  <2>1. e \in Seq(StepSet) /\ d \in Seq(StepSet)
    BY <1>4, <1>7
  <2> QED
    BY <2>1, ConcatProperties, Zenon
<1>10. Session(r, n) = e \o d
  BY <1>5 DEF e
<1>11. CASE n = 1
  BY <1>2, <1>3, <1>4, <1>7, <1>8, <1>9, <1>10, <1>11
<1>12. CASE n = 3
  BY <1>2, <1>3, <1>4, <1>7, <1>8, <1>9, <1>10, <1>12
<1> QED
  BY <1>11, <1>12

LEMMA Budgets ==
  ASSUME NEW r, Reaches(r), r.times \in Times, ~Overlong(r)
  PROVE  /\ Len(Steps(r)) = 0 => SocketTimeout(r) >= 1
         /\ Len(Steps(r)) > 0 => SocketTimeout(r) >= Span(Steps(r)[1]) + After(r, 1) + 1
         /\ \A k \in 1..Len(Steps(r)) :
              /\ After(r, k) \in Nat
              /\ k # Len(Steps(r)) => After(r, k) >= Span(Steps(r)[k + 1]) + After(r, k + 1)
<1> USE DEF PBBSPaths, WinlinkPaths, WebService
<1>1. r.times.t \in Nat /\ r.times.cm \in Nat /\ r.times.c \in Nat /\ r.times.r \in Nat
  BY DEF Times
<1>2. \A n \in Nat : /\ Span(Raising(n)) = n /\ Span(Lenient(n)) = n /\ Span(Command(n)) = n
                    /\ Span(Banner(n)) \in {n, n + 1}
  BY Spans
<1>3. Span(COMMAND) = 10
  BY <1>2 DEF COMMAND
<1>4. CASE r.path \in {"/ping", "/stations", "/stations/S"}
  <2>1. Steps(r) = <<>> /\ SocketTimeout(r) = 15
    BY <1>4 DEF Steps, SocketTimeout, DefaultTimeout
  <2> QED
    BY <2>1
<1>5. ASSUME NEW x, NEW n \in Nat, Steps(r) = <<x>>, Span(x) = n, SocketTimeout(r) >= n + 1,
             r.path # "/disconnect", r.path \notin PBBSPaths, r.path \notin WinlinkPaths,
             SocketTimeout(r) \in Nat
      PROVE  /\ Len(Steps(r)) = 0 => SocketTimeout(r) >= 1
             /\ Len(Steps(r)) > 0 => SocketTimeout(r) >= Span(Steps(r)[1]) + After(r, 1) + 1
             /\ \A k \in 1..Len(Steps(r)) :
                  /\ After(r, k) \in Nat
                  /\ k # Len(Steps(r)) => After(r, k) >= Span(Steps(r)[k + 1]) + After(r, k + 1)
  <2>1. \A k \in Nat : After(r, k) = 0
    BY <1>5 DEF After
  <2>2. Len(Steps(r)) = 1 /\ Steps(r)[1] = x
    BY <1>5
  <2> QED
    BY <1>5, <2>1, <2>2
<1>6. CASE r.path \in {"/status", "/connected/send"}
  <2>1. Steps(r) = <<Lenient(0)>> /\ SocketTimeout(r) = 15
    BY <1>6 DEF Steps, SocketTimeout, DefaultTimeout
  <2> QED
    BY <1>2, <1>5, <1>6, <2>1
<1>7. CASE r.path = "/params/C/raw"
  <2>1. Steps(r) = <<COMMAND>> /\ SocketTimeout(r) = 15
    BY <1>7 DEF Steps, SocketTimeout, DefaultTimeout
  <2> QED
    BY <1>3, <1>5, <1>7, <2>1
<1>8. CASE r.path = "/params/C"
  <2>1. SocketTimeout(r) = 15
    BY <1>8 DEF SocketTimeout, DefaultTimeout
  <2>2. r.method = "PUT" => ~Known(r.command)
    BY <1>8 DEF Overlong, Typed, Route
  <2>3. Steps(r) = <<COMMAND>> \/ Steps(r) = <<Raising(0)>>
    BY <1>8, <2>2 DEF Steps, SetTyped
  <2> QED
    BY <1>2, <1>3, <1>5, <1>8, <2>1, <2>3
<1>9. CASE r.path \in {"/connect", "/terminal/exec"}
  <2>1. /\ SocketTimeout(r) = r.times.t + 5
        /\ Steps(r) = <<Banner(r.times.t)>> \/ Steps(r) = <<Command(r.times.t)>>
    BY <1>9 DEF Steps, SocketTimeout
  <2>2. CASE Steps(r) = <<Banner(r.times.t)>>
    <3>1. PICK n \in Nat : Span(Banner(r.times.t)) = n /\ n <= r.times.t + 1
      BY <1>1, <1>2
    <3> QED
      BY <1>1, <1>5, <1>9, <2>1, <2>2, <3>1
  <2>3. CASE Steps(r) = <<Command(r.times.t)>>
    BY <1>1, <1>2, <1>5, <1>9, <2>1, <2>3
  <2> QED
    BY <2>1, <2>2, <2>3
<1>10. CASE r.path = "/connected/read"
  <2>1. Steps(r) = <<Lenient(r.times.t)>> /\ SocketTimeout(r) = r.times.t + 5
    BY <1>10 DEF Steps, SocketTimeout
  <2> QED
    BY <1>1, <1>2, <1>5, <1>10, <2>1
<1>11. CASE r.path \in WebService
  <2>1. Steps(r) = <<Raising(15)>> /\ SocketTimeout(r) = 20
    BY <1>11 DEF Steps, SocketTimeout
  <2> QED
    BY <1>2, <1>5, <1>11, <2>1
<1>12. CASE r.path = "/disconnect"
  <2>1. /\ Steps(r) = <<Command(r.times.cm), Banner(r.times.t)>>
        /\ SocketTimeout(r) = r.times.t + r.times.cm + 5
    BY <1>12 DEF Steps, SocketTimeout, DISCONNECT
  <2>2. After(r, 1) = r.times.t + 1 /\ After(r, 2) = 0
    BY <1>12 DEF After
  <2>3. /\ Span(Steps(r)[1]) = r.times.cm /\ Len(Steps(r)) = 2
        /\ Span(Steps(r)[2]) \in {r.times.t, r.times.t + 1}
    BY <1>1, <1>2, <2>1
  <2>4. 1..Len(Steps(r)) = {1, 2}
    BY <2>3
  <2> QED
    BY <1>1, <2>1, <2>2, <2>3, <2>4
<1>13. CASE r.path \in PBBSPaths
  <2>1. r.named
    BY <1>13 DEF Overlong
  <2>2. Steps(r) = Session(r, 1) /\ SocketTimeout(r) = r.times.c + r.times.r + 40
    BY <1>13 DEF Steps, SocketTimeout
  <2>3. /\ After(r, 1) = r.times.r + 36 /\ After(r, 2) = 36 /\ After(r, 3) = 31
        /\ After(r, 4) = 0
    BY <1>13 DEF After
  <2>4. /\ Span(Steps(r)[1]) \in {r.times.c, r.times.c + 1} /\ Span(Steps(r)[2]) = r.times.r
        /\ Span(Steps(r)[3]) = 5 /\ Span(Steps(r)[4]) \in {30, 31} /\ Len(Steps(r)) = 4
    BY <1>1, <1>2, <2>1, <2>2, NamedSession
  <2>5. 1..Len(Steps(r)) = {1, 2, 3, 4}
    BY <2>4
  <2>6. /\ \A k \in 1..4 : After(r, k) \in Nat
        /\ \A k \in 1..3 : After(r, k) >= Span(Steps(r)[k + 1]) + After(r, k + 1)
    BY <1>1, <2>3, <2>4
  <2>7. SocketTimeout(r) >= Span(Steps(r)[1]) + After(r, 1) + 1
    BY <1>1, <2>2, <2>3, <2>4
  <2>8. \A k \in 1..Len(Steps(r)) : k # Len(Steps(r)) => k \in 1..3
    BY <2>4
  <2> QED
    BY <2>4, <2>6, <2>7, <2>8
<1>14. CASE r.path \in WinlinkPaths
  <2>1. r.named
    BY <1>14 DEF Overlong
  <2>2. Steps(r) = Session(r, 3) /\ SocketTimeout(r) = r.times.c + 3 * r.times.r + 40
    BY <1>14 DEF Steps, SocketTimeout
  <2>3. /\ After(r, 1) = 3 * r.times.r + 36 /\ After(r, 2) = 2 * r.times.r + 36
        /\ After(r, 3) = r.times.r + 36 /\ After(r, 4) = 36 /\ After(r, 5) = 31
        /\ After(r, 6) = 0
    BY <1>14 DEF After
  <2>4. /\ Span(Steps(r)[1]) \in {r.times.c, r.times.c + 1} /\ Span(Steps(r)[2]) = r.times.r
        /\ Span(Steps(r)[3]) = r.times.r /\ Span(Steps(r)[4]) = r.times.r
        /\ Span(Steps(r)[5]) = 5 /\ Span(Steps(r)[6]) \in {30, 31} /\ Len(Steps(r)) = 6
    BY <1>1, <1>2, <2>1, <2>2, NamedSession
  <2>5. 1..Len(Steps(r)) = {1, 2, 3, 4, 5, 6}
    BY <2>4
  <2>6. /\ \A k \in 1..6 : After(r, k) \in Nat
        /\ \A k \in 1..5 : After(r, k) >= Span(Steps(r)[k + 1]) + After(r, k + 1)
    BY <1>1, <2>3, <2>4
  <2>7. SocketTimeout(r) >= Span(Steps(r)[1]) + After(r, 1) + 1
    BY <1>1, <2>2, <2>3, <2>4
  <2>8. \A k \in 1..Len(Steps(r)) : k # Len(Steps(r)) => k \in 1..5
    BY <2>4
  <2> QED
    BY <2>4, <2>6, <2>7, <2>8
<1> QED
  BY <1>4, <1>6, <1>7, <1>8, <1>9, <1>10, <1>11, <1>12, <1>13, <1>14, Paths DEF Overlong

\* What is left of a slot's socket timeout covers what may be left of its operation.
Budget(q) ==
  LET r == asks[q]
  IN  rest[q] = "waiting" =>
        /\ handler[q] \in Handling
        /\ q \notin queued /\ ~Overlong(r) =>
             /\ handler[q] \in {"sent", "lock"} => left[q] = SocketTimeout(r)
             /\ Running(q) => left[q] + ran[q] >= Span(AtStep(q)) + After(r, step[q]) + 1
             /\ left[q] >= 1

Patient(q) == status[q] = 504 => q \in queued \/ Overlong(asks[q])

BudgetInv == \A q \in Slots : Budget(q) /\ Patient(q)

LEMMA TimeoutPositive ==
  ASSUME NEW r, Reaches(r), r.times \in Times
  PROVE  SocketTimeout(r) >= 1
<1>1. r.times.t \in Nat /\ r.times.cm \in Nat /\ r.times.c \in Nat /\ r.times.r \in Nat
  BY DEF Times
<1> QED
  BY <1>1 DEF SocketTimeout, DefaultTimeout, PBBSPaths, WinlinkPaths, WebService

LEMMA BudgetKeeps ==
  ASSUME BudgetInv, UNCHANGED <<asks, queued>>, NEW q \in Slots,
         rest'[q] = rest[q], status'[q] = status[q], handler'[q] = handler[q],
         step'[q] = step[q], ran'[q] = ran[q], left'[q] = left[q]
  PROVE  (Budget(q) /\ Patient(q))'
<1>1. Budget(q) /\ Patient(q)
  BY DEF BudgetInv
<1> QED
  BY <1>1 DEF Budget, Patient, Running, AtStep

LEMMA BudgetInit == Init => BudgetInv
BY DEF Init, BudgetInv, Budget, Patient, NoAnswer

LEMMA BudgetSend ==
  ASSUME RestInv, BudgetInv, NEW q \in Slots, Send(q) PROVE BudgetInv'
<1>1. Typing /\ Together(q) /\ rest[q] = "idle" /\ handler[q] = "none" /\ status[q] = NoAnswer
  BY DEF RestInv, CoreInv, Together, Send
<1>2. UNCHANGED <<asks, step, ran, reported, queued>>
  BY DEF Send
<1>3. /\ status'[q] # 504
      /\ rest'[q] = "waiting" => /\ handler'[q] = "sent"
                                 /\ left'[q] = SocketTimeout(asks[q])
                                 /\ Immediate(launch, asks[q]) = NoAnswer
      /\ \A p \in Slots \ {q} : /\ rest'[p] = rest[p] /\ status'[p] = status[p]
                                /\ handler'[p] = handler[p] /\ left'[p] = left[p]
  BY <1>1, ImmediateCodes DEF Send, Answer, Typing, NoAnswer
<1>4. rest'[q] = "waiting" => SocketTimeout(asks[q]) >= 1
  BY <1>3, Unanswered, TimeoutPositive DEF Send, RestInv, CoreInv, Given
<1>5. (Budget(q) /\ Patient(q))'
  BY <1>2, <1>3, <1>4 DEF Budget, Patient, Handling, Running
<1>6. ASSUME NEW p \in Slots \ {q} PROVE (Budget(p) /\ Patient(p))'
  BY <1>2, <1>3, BudgetKeeps
<1> QED
  BY <1>5, <1>6 DEF BudgetInv

LEMMA BudgetAnswer ==
  ASSUME RestInv, BudgetInv, NEW q \in Slots, GiveUp(q) \/ Reply(q) PROVE BudgetInv'
<1>1. Typing /\ Together(q) /\ Budget(q) /\ Patient(q)
  BY DEF RestInv, CoreInv, BudgetInv
<1>2. UNCHANGED <<asks, step, ran, reported, queued, left>>
  BY DEF GiveUp, Reply
<1>3. /\ rest'[q] # "waiting"
      /\ status'[q] = 504 => status[q] = 504 \/ (rest[q] = "waiting" /\ left[q] = 0)
      /\ \A p \in Slots \ {q} : /\ rest'[p] = rest[p] /\ status'[p] = status[p]
                                /\ handler'[p] = handler[p]
  <2>1. CASE GiveUp(q)
    BY <1>1, <2>1 DEF GiveUp, Answer, Typing
  <2>2. CASE Reply(q)
    <3>1. \/ /\ rest' = [rest EXCEPT ![q] = "done"]
             /\ \E code \in {200, 502} : status' = [status EXCEPT ![q] = code]
          \/ rest[q] # "waiting" /\ UNCHANGED <<rest, status>>
      BY <2>2 DEF Reply, Answer
    <3>2. handler' = [handler EXCEPT ![q] = "gone"]
      BY <2>2 DEF Reply
    <3>3. \A p \in Slots \ {q} : /\ rest'[p] = rest[p] /\ status'[p] = status[p]
                                 /\ handler'[p] = handler[p]
      BY <1>1, <3>1, <3>2 DEF Typing
    <3>4. rest'[q] # "waiting" /\ (status'[q] = 504 => status[q] = 504)
      BY <1>1, <3>1 DEF Typing
    <3> QED
      BY <3>3, <3>4
  <2> QED
    BY <2>1, <2>2
<1>4. (Budget(q) /\ Patient(q))'
  BY <1>1, <1>2, <1>3 DEF Budget, Patient
<1>5. ASSUME NEW p \in Slots \ {q} PROVE (Budget(p) /\ Patient(p))'
  BY <1>2, <1>3, BudgetKeeps
<1> QED
  BY <1>4, <1>5 DEF BudgetInv

LEMMA BudgetBegin ==
  ASSUME RestInv, BudgetInv, NEW q \in Slots, Begin(q) PROVE BudgetInv'
<1>1. Typing /\ Together(q) /\ Budget(q) /\ Patient(q)
  BY DEF RestInv, CoreInv, BudgetInv
<1>2. UNCHANGED <<asks, rest, status, ran, reported, queued, left>> /\ ran[q] = 0
  BY <1>1 DEF Begin, Together
<1>3. /\ handler[q] \in {"sent", "lock"} /\ handler'[q] \in {"lock", "ok", "run"}
      /\ handler'[q] = "run" => step'[q] = 1 /\ Steps(asks[q]) # <<>>
      /\ \A p \in Slots \ {q} : handler'[p] = handler[p] /\ step'[p] = step[p]
  <2>1. LockedSteps(asks[q]) > 0 => Steps(asks[q]) # <<>>
    BY EmptySeq DEF LockedSteps
  <2>2. handler[q] = "lock" => LockedSteps(asks[q]) > 0
    BY <1>1 DEF Together
  <2> QED
    BY <1>1, <2>1, <2>2 DEF Begin, Typing
<1>4. asks[q].times \in Times /\ Reaches(asks[q])
  BY <1>1, <1>3 DEF RestInv, CoreInv, Given, Together
<1>5. ASSUME handler'[q] = "run", left[q] = SocketTimeout(asks[q]), ~Overlong(asks[q])
      PROVE  left'[q] + ran'[q] >= Span(Steps(asks[q])[step'[q]]) + After(asks[q], step'[q]) + 1
  <2>1. SocketTimeout(asks[q]) >= Span(Steps(asks[q])[1]) + After(asks[q], 1) + 1
    <3>1. Len(Steps(asks[q])) > 0
      BY <1>3, <1>4, <1>5, StepsTyped, EmptySeq
    <3> QED
      BY <1>4, <1>5, <3>1, Budgets
  <2>2. left[q] \in Nat /\ left'[q] = left[q] /\ ran'[q] = 0
    BY <1>1, <1>2 DEF Typing
  <2> QED
    BY <1>3, <1>5, <2>1, <2>2
<1>6. (Budget(q) /\ Patient(q))'
  BY <1>1, <1>2, <1>3, <1>5 DEF Budget, Patient, Handling, Running, AtStep
<1>7. ASSUME NEW p \in Slots \ {q} PROVE (Budget(p) /\ Patient(p))'
  BY <1>2, <1>3, BudgetKeeps
<1> QED
  BY <1>6, <1>7 DEF BudgetInv

LEMMA BudgetSteps ==
  ASSUME RestInv, BudgetInv, NEW q \in Slots,
         StepEnds(q) \/ StepEndsOnStray(q) \/ StepFails(q) \/ StepTimesOut(q)
  PROVE  BudgetInv'
<1>1. Typing /\ Together(q) /\ Budget(q) /\ Patient(q) /\ Running(q)
  BY LineTyped DEF RestInv, CoreInv, BudgetInv
<1>2. UNCHANGED <<asks, rest, status, queued, left>>
  BY LineTyped
<1>3. \/ handler'[q] \in {"ok", "error"}
      \/ /\ handler'[q] = handler[q] /\ step'[q] = step[q] + 1 /\ ran'[q] = 0
         /\ ~AtLastStep(q)
  <2>1. Raise(q) \/ Proceed(q)
    BY LineTyped
  <2>2. CASE Raise(q)
    BY <1>1, <2>2 DEF Raise, Typing
  <2>3. CASE Proceed(q)
    BY <1>1, <2>3 DEF Proceed, Typing
  <2> QED
    BY <2>1, <2>2, <2>3
<1>4. \A p \in Slots \ {q} : /\ handler'[p] = handler[p] /\ step'[p] = step[p]
                             /\ ran'[p] = ran[p]
  <2>1. Raise(q) \/ Proceed(q)
    BY LineTyped
  <2>2. CASE Raise(q)
    BY <1>1, <2>2 DEF Raise, Typing
  <2>3. CASE Proceed(q)
    BY <1>1, <2>3 DEF Proceed, Typing
  <2> QED
    BY <2>1, <2>2, <2>3
<1>5. asks[q].times \in Times /\ Reaches(asks[q])
  BY <1>1 DEF RestInv, CoreInv, Given, Together, Running
<1>6. /\ step[q] \in 1..Len(Steps(asks[q])) /\ Len(Steps(asks[q])) \in Nat
      /\ ran[q] <= Span(AtStep(q)) /\ Span(AtStep(q)) \in Nat /\ ran[q] \in Nat
      /\ left[q] \in Nat /\ Steps(asks[q]) \in Seq(StepSet)
  BY <1>1, RunsAStep, StepsOf, SpanTyped DEF Running, Typing
<1>7. ASSUME ~AtLastStep(q), step'[q] = step[q] + 1, ran'[q] = 0, ~Overlong(asks[q]),
             left[q] + ran[q] >= Span(AtStep(q)) + After(asks[q], step[q]) + 1
      PROVE  left'[q] + ran'[q] >= Span(Steps(asks[q])[step'[q]]) + After(asks[q], step'[q]) + 1
  <2>1. step[q] # Len(Steps(asks[q])) /\ step'[q] \in 1..Len(Steps(asks[q]))
    BY <1>6, <1>7 DEF AtLastStep
  <2> DEFINE before == After(asks[q], step[q])
             after == After(asks[q], step'[q])
             next == Span(Steps(asks[q])[step'[q]])
             this == Span(AtStep(q))
  <2>2. before \in Nat /\ after \in Nat /\ before >= next + after
    BY <1>5, <1>6, <1>7, <2>1, Budgets
  <2>3. next \in Nat /\ left'[q] = left[q]
    <3>1. Steps(asks[q])[step'[q]] \in StepSet
      BY <1>6, <2>1
    <3> QED
      BY <1>2, <3>1, SpanTyped
  <2>4. this \in Nat /\ ran[q] \in Nat /\ left[q] \in Nat /\ ran[q] <= this
    BY <1>6
  <2>5. ran'[q] = 0 /\ left[q] + ran[q] >= this + before + 1
    BY <1>7
  <2> HIDE DEF before, after, next, this
  <2>6. left'[q] + ran'[q] >= next + after + 1
    BY ONLY <2>2, <2>3, <2>4, <2>5
  <2> QED
    BY <2>6 DEF next, after
<1>8. (Budget(q) /\ Patient(q))'
  BY <1>1, <1>2, <1>3, <1>7 DEF Budget, Patient, Handling, Running, AtStep
<1>9. ASSUME NEW p \in Slots \ {q} PROVE (Budget(p) /\ Patient(p))'
  BY <1>2, <1>4, BudgetKeeps
<1> QED
  BY <1>8, <1>9 DEF BudgetInv

LEMMA BudgetStops == ASSUME RestInv, BudgetInv, DaemonStops PROVE BudgetInv'
<1>1. \A q \in Slots : rest'[q] # "waiting" /\ (status'[q] = 504 => status[q] = 504)
  BY DEF DaemonStops, RestInv, CoreInv, Typing
<1>2. UNCHANGED <<asks, queued>>
  BY DEF DaemonStops
<1> QED
  BY <1>1, <1>2 DEF BudgetInv, Budget, Patient

LEMMA BudgetKam ==
  ASSUME BudgetInv, (\E w \in Slots : LateWrite(w)) \/ Settle PROVE BudgetInv'
<1>1. UNCHANGED <<asks, queued, rest, status, handler, step, ran, left>>
  BY DEF LateWrite, Settle
<1>2. \A q \in Slots : (Budget(q) /\ Patient(q))'
  BY <1>1, BudgetKeeps
<1> QED
  BY <1>2 DEF BudgetInv

LEMMA BudgetTick == ASSUME RestInv, BudgetInv, Tick PROVE BudgetInv'
<1> SUFFICES ASSUME NEW q \in Slots PROVE (Budget(q) /\ Patient(q))'
  BY DEF BudgetInv
<1>1. Typing /\ Together(q) /\ Budget(q) /\ Patient(q)
  BY DEF RestInv, CoreInv, BudgetInv
<1>2. /\ queued' = queued \cup {p \in Slots : handler[p] = "lock"}
      /\ UNCHANGED <<asks, rest, status, handler, step>>
  BY DEF Tick
<1>3. PICK d \in Nat \ {0} :
        /\ ~MustAct(q)
        /\ Running(q) => ran[q] + d <= Span(AtStep(q))
        /\ rest[q] = "waiting" => left'[q] = left[q] - d
        /\ Running(q) => ran'[q] = ran[q] + d
  BY <1>1, Passing DEF Typing
<1>4. left[q] \in Nat /\ ran[q] \in Nat
  BY <1>1 DEF Typing
<1>5. Patient(q)'
  BY <1>1, <1>2 DEF Patient
<1>6. handler[q] \notin {"sent", "ok", "error"}
  BY <1>3 DEF MustAct
<1>7. ASSUME rest[q] = "waiting", q \notin queued', ~Overlong(asks[q])
      PROVE  /\ Running(q)
             /\ left'[q] + ran'[q] >= Span(AtStep(q)) + After(asks[q], step[q]) + 1
             /\ left'[q] >= 1
  <2>1. q \notin queued /\ handler[q] # "lock"
    BY <1>2, <1>7
  <2>2. Running(q)
    BY <1>1, <1>6, <1>7, <2>1 DEF Budget, Handling, Running
  <2>3. left[q] + ran[q] >= Span(AtStep(q)) + After(asks[q], step[q]) + 1
    BY <1>1, <1>7, <2>1, <2>2 DEF Budget
  <2>4. left'[q] = left[q] - d /\ ran'[q] = ran[q] + d /\ ran[q] + d <= Span(AtStep(q))
    BY <1>3, <1>7, <2>2
  <2>5. Span(AtStep(q)) \in Nat
    BY <2>2, RunsAStep, SpanTyped
  <2>6. After(asks[q], step[q]) \in Nat
    <3>1. asks[q].times \in Times /\ Reaches(asks[q]) /\ step[q] \in 1..Len(Steps(asks[q]))
      BY <1>1, <2>2, RunsAStep DEF RestInv, CoreInv, Given, Together, Running
    <3> QED
      BY <1>7, <3>1, Budgets
  <2> QED
    BY <1>3, <1>4, <2>2, <2>3, <2>4, <2>5, <2>6
<1>8. Budget(q)'
  BY <1>1, <1>2, <1>6, <1>7 DEF Budget, Running, AtStep
<1> QED
  BY <1>5, <1>8

LEMMA BudgetStep == RestInv /\ BudgetInv /\ [Next]_vars => BudgetInv'
<1> SUFFICES ASSUME RestInv, BudgetInv, [Next]_vars PROVE BudgetInv'
  OBVIOUS
<1>1. CASE UNCHANGED vars
  <2>1. \A q \in Slots : (Budget(q) /\ Patient(q))'
    BY <1>1, BudgetKeeps DEF vars
  <2> QED
    BY <2>1 DEF BudgetInv
<1> QED
  BY <1>1, BudgetSend, BudgetAnswer, BudgetBegin, BudgetSteps, BudgetStops, BudgetKam,
     BudgetTick
  DEF Next, Operation

\* Each socket timeout covers all the steps of its operation, with the grace of those
\* that wait for the end of a banner's line: the REST layer gives
\* up only on a request that had to wait for the lock, or on an overlong one.
THEOREM TimeoutsSuffice == Spec => []TimeoutMeansBusy
<1>1. BudgetInv => TimeoutMeansBusy
  BY DEF BudgetInv, Patient, TimeoutMeansBusy
<1>2. Init => RestInv /\ BudgetInv
  BY RestInit, BudgetInit
<1>3. RestInv /\ BudgetInv /\ [Next]_vars => (RestInv /\ BudgetInv)'
  BY RestStep, BudgetStep
<1> QED
  BY <1>1, <1>2, <1>3, PTL DEF Spec

-----------------------------------------------------------------------------
(***************************************************************************)
(* The event streams.                                                      *)
(***************************************************************************)
Packets == 1..MaxPackets
Lines == 0..MaxPackets

LEMMA Values ==
  /\ Packets \subseteq Lines /\ Ack \in Lines /\ Keepalive \notin Lines
  /\ \A x : x \in 1..Keepalive \cup {Ack} <=> x \in Lines \/ x = Keepalive
BY StreamAssumption DEF Packets, Lines, Ack, Keepalive

-----------------------------------------------------------------------------
(***************************************************************************)
(* The invariant.                                                          *)
(***************************************************************************)
StreamTyped ==
  /\ members \subseteq Streams /\ cut \subseteq Streams /\ due \subseteq Streams
  /\ recorded \in Lines /\ ready \in BOOLEAN /\ daemonUp \in BOOLEAN
  /\ ready \/ due # {} => recorded \in Packets
  /\ due \cap cut = {}
  /\ serving \in [Streams -> {"none", "subscribe", "reply", "read", "gone"}]
  /\ client \in [Streams -> {"none", "ack", "select", "yield", "closed"}]
  /\ event \in [Streams -> Lines \cup {Keepalive}]
  /\ browser \in [Streams -> BOOLEAN]
  /\ feed \in [Streams -> Seq(Packets)]
  /\ socket \in [Streams -> Seq(Lines)] /\ rfile \in [Streams -> Seq(Lines)]
  /\ ack \in [Streams -> Seq(Lines)] /\ sse \in [Streams -> Seq(Lines)]

\* What is being yielded, and every line of the connection, in the order in which
\* the daemon wrote it.
Pending(s) == IF client[s] = "yield" THEN Data(s) ELSE <<>>
Written(s) == (ack[s] \o sse[s]) \o ((Pending(s) \o rfile[s]) \o socket[s])

\* Nothing is lost while the connection is open; a closed one gets no more.
FlowInv(s) ==
  /\ client[s] = "none" => serving[s] = "none"
  /\ client[s] \in {"none", "ack"} => ack[s] = <<>> /\ sse[s] = <<>>
  /\ client[s] \in {"select", "yield"} => Len(ack[s]) = 1
  /\ client[s] # "closed" =>
       \/ serving[s] \in {"none", "subscribe", "reply"} /\ Written(s) = feed[s]
       \/ /\ serving[s] = "read"
          /\ \E k \in 1..Len(feed[s]) + 1 : Written(s) = WithAck(feed[s], k)
  /\ client[s] = "closed" =>
       /\ s \in cut \/ ~daemonUp
       /\ sse[s] # <<>> => Len(ack[s]) = 1
       /\ \E k \in 1..Len(feed[s]) + 1 : IsPrefix(ack[s] \o sse[s], WithAck(feed[s], k))

StreamInv == StreamTyped /\ \A s \in Streams : FlowInv(s)

-----------------------------------------------------------------------------
(***************************************************************************)
(* Sequences.                                                              *)
(***************************************************************************)
LEMMA ConcatAppend ==
  ASSUME NEW S, NEW a \in Seq(S), NEW b \in Seq(S), NEW x \in S
  PROVE  a \o Append(b, x) = Append(a \o b, x)
<1>1. <<x>> \in Seq(S) /\ (a \o b) \in Seq(S)
  BY ConcatProperties
<1> QED
  BY <1>1, AppendIsConcat, ConcatAssociative

LEMMA LongerByOne ==
  ASSUME NEW shown \in Seq(Lines), NEW taken \in Seq(Lines), NEW e \in Seq(Lines),
         NEW x \in Lines
  PROVE  shown \o (taken \o Append(e, x)) = Append(shown \o (taken \o e), x)
<1>1. taken \o Append(e, x) = Append(taken \o e, x)
  BY ConcatAppend
<1>2. taken \o e \in Seq(Lines)
  BY ConcatProperties
<1>3. shown \o Append(taken \o e, x) = Append(shown \o (taken \o e), x)
  BY <1>2, ConcatAppend
<1> QED
  BY <1>1, <1>3, Zenon

LEMMA FirstAndRest ==
  ASSUME NEW S, NEW a \in Seq(S), a # <<>>
  PROVE  Head(a) \in S /\ Tail(a) \in Seq(S) /\ a = <<Head(a)>> \o Tail(a)
<1>1. /\ Head(a) \in S /\ Tail(a) \in Seq(S) /\ Len(Tail(a)) = Len(a) - 1
      /\ \A i \in 1..Len(Tail(a)) : Tail(a)[i] = a[i + 1]
      /\ Len(a) \in Nat /\ Len(a) >= 1 /\ Head(a) = a[1]
  BY HeadTailProperties, EmptySeq
<1> DEFINE one == <<Head(a)>>
<1>2. one \in Seq(S) /\ Len(one) = 1 /\ one[1] = Head(a)
  BY <1>1
<1> HIDE DEF one
<1> DEFINE others == Tail(a)
<1>3. /\ others \in Seq(S) /\ Len(others) = Len(a) - 1
      /\ \A i \in 1..Len(a) - 1 : others[i] = a[i + 1]
  BY <1>1
<1> HIDE DEF others
<1>4. /\ one \o others \in Seq(S) /\ Len(one \o others) = 1 + Len(others)
      /\ \A i \in 1..1 + Len(others) : (one \o others)[i] = IF i <= 1 THEN one[i] ELSE others[i - 1]
  <2>1. one \in Seq(S)
    BY <1>2
  <2>2. others \in Seq(S)
    BY <1>3
  <2>3. /\ one \o others \in Seq(S) /\ Len(one \o others) = Len(one) + Len(others)
        /\ \A i \in 1..Len(one) + Len(others) :
              (one \o others)[i] = IF i <= Len(one) THEN one[i] ELSE others[i - Len(one)]
    BY <2>1, <2>2, ConcatProperties
  <2> QED
    BY <1>2, <2>3
<1>5. \A i \in 1..Len(a) : a[i] = (one \o others)[i]
  <2> TAKE i \in 1..Len(a)
  <2>1. (one \o others)[i] = IF i <= 1 THEN one[i] ELSE others[i - 1]
    BY <1>1, <1>3, <1>4
  <2>2. i > 1 => others[i - 1] = a[i]
    BY <1>1, <1>3
  <2>3. i <= 1 => one[i] = a[i]
    BY <1>1, <1>2
  <2> QED
    BY <1>1, <2>1, <2>2, <2>3
<1>6. a = one \o others
  <2> DEFINE whole == one \o others
  <2>1. whole \in Seq(S) /\ Len(a) = Len(whole)
    BY <1>1, <1>3, <1>4
  <2>2. \A i \in 1..Len(a) : a[i] = whole[i]
    BY <1>5
  <2> HIDE DEF whole
  <2>3. a = whole
    BY <2>1, <2>2, SeqEqual
  <2> QED
    BY <2>3 DEF whole
<1> QED
  BY <1>1, <1>6 DEF one, others

LEMMA WithAckIs ==
  ASSUME NEW f \in Seq(Packets), NEW k \in 1..Len(f) + 1
  PROVE  /\ WithAck(f, k) \in Seq(Lines) /\ Len(WithAck(f, k)) = Len(f) + 1
         /\ \A i \in 1..Len(f) + 1 :
              WithAck(f, k)[i] = IF i < k THEN f[i] ELSE IF i = k THEN Ack ELSE f[i - 1]
<1>1. Len(f) \in Nat /\ \A i \in 1..Len(f) : f[i] \in Lines
  BY ElementOfSeq, LenProperties, Values
<1>2. \A i \in 1..Len(f) + 1 :
        (IF i < k THEN f[i] ELSE IF i = k THEN Ack ELSE f[i - 1]) \in Lines
  BY <1>1, Values
<1> QED
  BY <1>1, <1>2 DEF WithAck

LEMMA WithAckAppend ==
  ASSUME NEW f \in Seq(Packets), NEW k \in 1..Len(f) + 1, NEW x \in Packets
  PROVE  WithAck(Append(f, x), k) = Append(WithAck(f, k), x)
<1> DEFINE w == WithAck(f, k)
           v == WithAck(Append(f, x), k)
<1>1. /\ Append(f, x) \in Seq(Packets) /\ Len(Append(f, x)) = Len(f) + 1 /\ Len(f) \in Nat
      /\ \A i \in 1..Len(f) : Append(f, x)[i] = f[i]
      /\ Append(f, x)[Len(f) + 1] = x
  BY AppendProperties, LenProperties
<1>2. /\ w \in Seq(Lines) /\ Len(w) = Len(f) + 1
      /\ \A i \in 1..Len(f) + 1 : w[i] = IF i < k THEN f[i] ELSE IF i = k THEN Ack ELSE f[i - 1]
  BY WithAckIs
<1>3. /\ v \in Seq(Lines) /\ Len(v) = Len(f) + 2
      /\ \A i \in 1..Len(f) + 2 :
           v[i] = IF i < k THEN Append(f, x)[i] ELSE IF i = k THEN Ack ELSE Append(f, x)[i - 1]
  <2> DEFINE g == Append(f, x)
  <2>1. g \in Seq(Packets) /\ k \in 1..Len(g) + 1 /\ Len(g) + 1 = Len(f) + 2
    BY <1>1
  <2> HIDE DEF g
  <2>2. /\ WithAck(g, k) \in Seq(Lines) /\ Len(WithAck(g, k)) = Len(f) + 2
        /\ \A i \in 1..Len(f) + 2 :
              WithAck(g, k)[i] = IF i < k THEN g[i] ELSE IF i = k THEN Ack ELSE g[i - 1]
    BY <2>1, WithAckIs
  <2> QED
    BY <2>2 DEF g
<1> HIDE DEF w, v
<1>4. /\ Append(w, x) \in Seq(Lines) /\ Len(Append(w, x)) = Len(f) + 2
      /\ \A i \in 1..Len(f) + 1 : Append(w, x)[i] = w[i]
      /\ Append(w, x)[Len(f) + 2] = x
  BY <1>1, <1>2, AppendProperties, Values
<1>5. ASSUME NEW i \in 1..Len(f) + 2 PROVE v[i] = Append(w, x)[i]
  <2>1. v[i] = IF i < k THEN Append(f, x)[i] ELSE IF i = k THEN Ack ELSE Append(f, x)[i - 1]
    BY <1>3
  <2>2. CASE i = Len(f) + 2
    <3>1. ~(i < k) /\ i # k /\ i - 1 = Len(f) + 1
      BY <1>1, <2>2
    <3>2. v[i] = Append(f, x)[Len(f) + 1]
      BY <2>1, <3>1
    <3> QED
      BY <1>1, <1>4, <2>2, <3>2
  <2>3. CASE i # Len(f) + 2
    <3>1. i \in 1..Len(f) + 1
      BY <1>1, <2>3
    <3>2. Append(w, x)[i] = IF i < k THEN f[i] ELSE IF i = k THEN Ack ELSE f[i - 1]
      BY <1>2, <1>4, <3>1
    <3>3. i < k => Append(f, x)[i] = f[i]
      BY <1>1, <3>1
    <3>4. ~(i < k) /\ i # k => Append(f, x)[i - 1] = f[i - 1]
      <4>1. ~(i < k) /\ i # k => i - 1 \in 1..Len(f)
        BY <1>1, <3>1
      <4> QED
        BY <1>1, <4>1
    <3> QED
      BY <2>1, <3>2, <3>3, <3>4
  <2> QED
    BY <2>2, <2>3
<1>6. v = Append(w, x)
  BY <1>1, <1>3, <1>4, <1>5, SeqEqual
<1> QED
  BY <1>6 DEF w, v

LEMMA WithAckLast ==
  ASSUME NEW f \in Seq(Packets)
  PROVE  Append(f, Ack) = WithAck(f, Len(f) + 1) /\ Len(f) + 1 \in 1..Len(f) + 1
<1>1. f \in Seq(Lines) /\ Len(f) \in Nat
  BY Values, SeqMonotonic, LenProperties
<1>2. /\ Append(f, Ack) \in Seq(Lines) /\ Len(Append(f, Ack)) = Len(f) + 1
      /\ \A i \in 1..Len(f) : Append(f, Ack)[i] = f[i]
      /\ Append(f, Ack)[Len(f) + 1] = Ack
  BY <1>1, Values, AppendProperties
<1> DEFINE w == WithAck(f, Len(f) + 1)
<1>3. /\ w \in Seq(Lines) /\ Len(w) = Len(f) + 1
      /\ \A i \in 1..Len(f) + 1 :
           w[i] = IF i < Len(f) + 1 THEN f[i] ELSE IF i = Len(f) + 1 THEN Ack ELSE f[i - 1]
  BY <1>1, WithAckIs
<1> HIDE DEF w
<1>4. \A i \in 1..Len(f) + 1 : w[i] = Append(f, Ack)[i]
  BY <1>1, <1>2, <1>3
<1>5. w = Append(f, Ack)
  BY <1>2, <1>3, <1>4, SeqEqual
<1> QED
  BY <1>1, <1>5 DEF w

LEMMA StartIsPrefix ==
  ASSUME NEW a \in Seq(Lines), NEW b \in Seq(Lines)
  PROVE  IsPrefix(a, a \o b)
<1>1. /\ (a \o b) \in Seq(Lines) /\ Len(a \o b) = Len(a) + Len(b)
      /\ Len(a) \in Nat /\ Len(b) \in Nat
      /\ \A i \in 1..Len(a) + Len(b) : (a \o b)[i] = IF i <= Len(a) THEN a[i] ELSE b[i - Len(a)]
  BY ConcatProperties, LenProperties
<1>2. \A i \in 1..Len(a) : a[i] \in Lines /\ (a \o b)[i] = a[i]
  BY <1>1, ElementOfSeq
<1>3. /\ SubSeq(a, 1, Len(a)) \in Seq(Lines) /\ Len(SubSeq(a, 1, Len(a))) = Len(a)
      /\ \A i \in 1..Len(a) : SubSeq(a, 1, Len(a))[i] = a[i]
  BY <1>1, <1>2, SubSeqProperties
<1>4. /\ SubSeq(a \o b, 1, Len(a)) \in Seq(Lines) /\ Len(SubSeq(a \o b, 1, Len(a))) = Len(a)
      /\ \A i \in 1..Len(a) : SubSeq(a \o b, 1, Len(a))[i] = (a \o b)[i]
  BY <1>1, <1>2, SubSeqProperties
<1>5. SubSeq(a, 1, Len(a)) = SubSeq(a \o b, 1, Len(a))
  BY <1>1, <1>2, <1>3, <1>4, SeqEqual
<1> QED
  BY <1>1, <1>5 DEF IsPrefix

-----------------------------------------------------------------------------
(***************************************************************************)
(* What follows from the invariant.                                        *)
(***************************************************************************)
LEMMA Types ==
  ASSUME StreamTyped, NEW s \in Streams
  PROVE  /\ feed[s] \in Seq(Packets) /\ socket[s] \in Seq(Lines) /\ rfile[s] \in Seq(Lines)
         /\ ack[s] \in Seq(Lines) /\ sse[s] \in Seq(Lines)
         /\ Data(s) \in Seq(Lines) /\ Pending(s) \in Seq(Lines)
         /\ ack[s] \o sse[s] \in Seq(Lines)
         /\ Pending(s) \o rfile[s] \in Seq(Lines)
         /\ (Pending(s) \o rfile[s]) \o socket[s] \in Seq(Lines)
<1>1. /\ feed[s] \in Seq(Packets) /\ socket[s] \in Seq(Lines) /\ rfile[s] \in Seq(Lines)
      /\ ack[s] \in Seq(Lines) /\ sse[s] \in Seq(Lines) /\ event[s] \in Lines \cup {Keepalive}
  BY DEF StreamTyped
<1>2. Data(s) \in Seq(Lines)
  BY <1>1 DEF Data
<1>3. Pending(s) \in Seq(Lines)
  BY <1>2 DEF Pending
<1>4. ack[s] \o sse[s] \in Seq(Lines) /\ Pending(s) \o rfile[s] \in Seq(Lines)
  BY <1>1, <1>3, ConcatProperties
<1>5. (Pending(s) \o rfile[s]) \o socket[s] \in Seq(Lines)
  BY <1>1, <1>4, ConcatProperties
<1> QED
  BY <1>1, <1>2, <1>3, <1>4, <1>5

LEMMA WrittenLonger ==
  ASSUME StreamTyped, NEW s \in Streams, NEW x \in Lines
  PROVE  (ack[s] \o sse[s]) \o ((Pending(s) \o rfile[s]) \o Append(socket[s], x))
           = Append(Written(s), x)
<1> DEFINE shown == ack[s] \o sse[s]
           taken == Pending(s) \o rfile[s]
           e == socket[s]
<1>1. shown \in Seq(Lines)
  BY Types
<1>2. taken \in Seq(Lines)
  BY Types
<1>3. e \in Seq(Lines)
  BY Types
<1> HIDE DEF shown, taken, e
<1>4. shown \o (taken \o Append(e, x)) = Append(shown \o (taken \o e), x)
  BY <1>1, <1>2, <1>3, LongerByOne
<1> QED
  BY <1>4, Zenon DEF shown, taken, e, Written

\* The chunk moves from what is pending to what has been written.
LEMMA ChunkMoves ==
  ASSUME StreamTyped, NEW s \in Streams, Pending(s) = Data(s)
  PROVE  (ack[s] \o (sse[s] \o Data(s))) \o ((<<>> \o rfile[s]) \o socket[s]) = Written(s)
<1> DEFINE a == ack[s]
           b == sse[s]
           d == Data(s)
           r == rfile[s]
           c == socket[s]
           ab == a \o b
           rc == r \o c
<1>a. a \in Seq(Lines)
  BY Types
<1>b. b \in Seq(Lines)
  BY Types
<1>d. d \in Seq(Lines)
  BY Types
<1>r. r \in Seq(Lines) /\ <<>> \o r = r
  BY Types, ConcatEmptySeq
<1>c. c \in Seq(Lines)
  BY Types
<1> HIDE DEF a, b, d, r, c
<1>1. ab \in Seq(Lines)
  BY <1>a, <1>b, ConcatProperties
<1>2. rc \in Seq(Lines)
  BY <1>r, <1>c, ConcatProperties
<1>3. a \o (b \o d) = ab \o d
  BY <1>a, <1>b, <1>d, ConcatAssociative
<1>4. d \o rc = (d \o r) \o c
  BY <1>d, <1>r, <1>c, ConcatAssociative
<1> HIDE DEF ab, rc
<1>5. (ab \o d) \o rc = ab \o (d \o rc)
  BY <1>1, <1>d, <1>2, ConcatAssociative
<1>6. (a \o (b \o d)) \o ((<<>> \o r) \o c) = ab \o ((d \o r) \o c)
  BY <1>r, <1>3, <1>4, <1>5, Zenon DEF rc
<1> QED
  BY <1>6, Zenon DEF a, b, d, r, c, ab, Written

LEMMA LineIsNext ==
  ASSUME StreamTyped, NEW s \in Streams, LineThere(s)
  PROVE  LET l == ReadLine(s)
         IN  /\ l.line \in Lines /\ l.rest \in Seq(Lines) /\ l.left \in Seq(Lines)
             /\ rfile[s] \o socket[s] = <<l.line>> \o (l.rest \o l.left)
<1>1. rfile[s] \in Seq(Lines) /\ socket[s] \in Seq(Lines)
  BY Types
<1>2. CASE rfile[s] # <<>>
  <2>1. /\ ReadLine(s).line = Head(rfile[s]) /\ ReadLine(s).rest = Tail(rfile[s])
        /\ ReadLine(s).left = socket[s]
    BY <1>2 DEF ReadLine
  <2>2. /\ Head(rfile[s]) \in Lines /\ Tail(rfile[s]) \in Seq(Lines)
        /\ rfile[s] = <<Head(rfile[s])>> \o Tail(rfile[s])
    BY <1>1, <1>2, FirstAndRest
  <2> DEFINE first == <<Head(rfile[s])>>
             others == Tail(rfile[s])
             unread == socket[s]
  <2>3. first \in Seq(Lines) /\ others \in Seq(Lines) /\ unread \in Seq(Lines)
    BY <1>1, <2>2
  <2> HIDE DEF first, others, unread
  <2>4. (first \o others) \o unread = first \o (others \o unread)
    BY <2>3, ConcatAssociative
  <2>5. rfile[s] \o socket[s] = first \o (others \o socket[s])
    BY <2>2, <2>4, Zenon DEF first, others, unread
  <2>6. rfile[s] \o socket[s] = <<Head(rfile[s])>> \o (Tail(rfile[s]) \o socket[s])
    BY <2>5 DEF first, others
  <2> QED
    BY <1>1, <2>1, <2>2, <2>6, Zenon
<1>3. CASE rfile[s] = <<>>
  <2>1. ReadLine(s) = [line |-> Head(socket[s]), rest |-> Tail(socket[s]), left |-> <<>>]
    BY <1>3 DEF ReadLine
  <2>2. rfile[s] \o socket[s] = socket[s] /\ socket[s] # <<>>
    BY <1>1, <1>3, ConcatEmptySeq DEF LineThere
  <2>3. /\ Head(socket[s]) \in Lines /\ Tail(socket[s]) \in Seq(Lines)
        /\ socket[s] = <<Head(socket[s])>> \o Tail(socket[s])
    BY <1>1, <2>2, FirstAndRest
  <2>4. Tail(socket[s]) \o <<>> = Tail(socket[s]) /\ <<>> \in Seq(Lines)
    BY <2>3, ConcatEmptySeq
  <2> QED
    BY <2>1, <2>2, <2>3, <2>4
<1> QED
  BY <1>2, <1>3

\* What the HTTP client has got of an open connection is the beginning of it.
LEMMA ShownIsFirst ==
  ASSUME StreamTyped, NEW s \in Streams, FlowInv(s), client[s] # "closed"
  PROVE  /\ sse[s] # <<>> => Len(ack[s]) = 1
         /\ \E k \in 1..Len(feed[s]) + 1 : IsPrefix(ack[s] \o sse[s], WithAck(feed[s], k))
<1> DEFINE shown == ack[s] \o sse[s]
           others == (Pending(s) \o rfile[s]) \o socket[s]
<1>1. shown \in Seq(Lines) /\ others \in Seq(Lines) /\ Written(s) = shown \o others
      /\ feed[s] \in Seq(Packets)
  BY Types DEF Written
<1>2. client[s] \in {"none", "ack", "select", "yield", "closed"}
  BY DEF StreamTyped
<1>3. sse[s] # <<>> => Len(ack[s]) = 1
  BY <1>2 DEF FlowInv
<1> HIDE DEF shown, others
<1>4. CASE Written(s) = feed[s]
  <2>1. Append(others, Ack) \in Seq(Lines) /\ shown \o Append(others, Ack) = Append(feed[s], Ack)
    <3>1. Ack \in Lines
      BY Values
    <3>2. Append(others, Ack) \in Seq(Lines)
      BY <1>1, <3>1, AppendProperties
    <3>3. shown \o Append(others, Ack) = Append(shown \o others, Ack)
      BY <1>1, <3>1, ConcatAppend
    <3> QED
      BY <1>1, <1>4, <3>2, <3>3
  <2>2. IsPrefix(shown, Append(feed[s], Ack))
    BY <1>1, <2>1, StartIsPrefix
  <2>3. /\ Append(feed[s], Ack) = WithAck(feed[s], Len(feed[s]) + 1)
        /\ Len(feed[s]) + 1 \in 1..Len(feed[s]) + 1
    BY <1>1, WithAckLast
  <2> QED
    BY <1>3, <2>2, <2>3 DEF shown
<1>5. CASE \E k \in 1..Len(feed[s]) + 1 : Written(s) = WithAck(feed[s], k)
  <2>1. PICK k \in 1..Len(feed[s]) + 1 : Written(s) = WithAck(feed[s], k)
    BY <1>5
  <2>2. IsPrefix(shown, WithAck(feed[s], k))
    BY <1>1, <2>1, StartIsPrefix
  <2> QED
    BY <1>3, <2>1, <2>2 DEF shown
<1> QED
  BY <1>4, <1>5 DEF FlowInv

-----------------------------------------------------------------------------
(***************************************************************************)
(* The steps.  Each is about one stream, and leaves the others alone.      *)
(***************************************************************************)
Same(t) ==
  /\ client'[t] = client[t] /\ serving'[t] = serving[t] /\ event'[t] = event[t]
  /\ socket'[t] = socket[t] /\ rfile'[t] = rfile[t] /\ ack'[t] = ack[t] /\ sse'[t] = sse[t]
  /\ feed'[t] = feed[t]
  /\ t \in cut => t \in cut'
  /\ daemonUp' => daemonUp

LEMMA SameFlow ==
  ASSUME NEW t \in Streams, FlowInv(t), Same(t)
  PROVE  FlowInv(t)'
<1>1. Data(t)' = Data(t)
  BY DEF Same, Data
<1>2. Pending(t)' = Pending(t)
  BY <1>1 DEF Same, Pending
<1>3. Written(t)' = Written(t)
  BY <1>2 DEF Same, Written
<1> QED
  BY <1>3 DEF Same, FlowInv

LEMMA OneStream ==
  ASSUME StreamInv, NEW s \in Streams, StreamTyped', FlowInv(s)', \A t \in Streams \ {s} : Same(t)
  PROVE  StreamInv'
<1>1. ASSUME NEW t \in Streams PROVE FlowInv(t)'
  <2>1. CASE t = s
    BY <2>1
  <2>2. CASE t # s
    BY <2>2, SameFlow DEF StreamInv
  <2> QED
    BY <2>1, <2>2
<1> QED
  BY <1>1 DEF StreamInv

LEMMA StreamStart == StreamInit => StreamInv
<1> SUFFICES ASSUME StreamInit PROVE StreamInv
  OBVIOUS
<1>1. StreamTyped
  <2>1. <<>> \in Seq(Lines) /\ <<>> \in Seq(Packets) /\ 0 \in Lines
    BY Values DEF Ack
  <2>2. /\ members = {} /\ cut = {} /\ due = {} /\ recorded = 0 /\ ready = FALSE
        /\ daemonUp = TRUE /\ feed \in [Streams -> Seq(Packets)]
    BY <2>1 DEF StreamInit, Feed!Init
  <2>3. /\ socket \in [Streams -> Seq(Lines)] /\ rfile \in [Streams -> Seq(Lines)]
        /\ ack \in [Streams -> Seq(Lines)] /\ sse \in [Streams -> Seq(Lines)]
    BY <2>1 DEF StreamInit
  <2>4. /\ serving \in [Streams -> {"none", "subscribe", "reply", "read", "gone"}]
        /\ client \in [Streams -> {"none", "ack", "select", "yield", "closed"}]
        /\ event \in [Streams -> Lines \cup {Keepalive}]
        /\ browser \in [Streams -> BOOLEAN]
    BY DEF StreamInit
  <2> QED
    BY <2>1, <2>2, <2>3, <2>4 DEF StreamTyped
<1>2. ASSUME NEW s \in Streams PROVE FlowInv(s)
  <2>1. /\ client[s] = "none" /\ serving[s] = "none" /\ ack[s] = <<>> /\ sse[s] = <<>>
        /\ rfile[s] = <<>> /\ socket[s] = <<>> /\ feed[s] = <<>>
    BY DEF StreamInit, Feed!Init
  <2>2. Written(s) = <<>>
    BY <2>1 DEF Written, Pending
  <2> QED
    BY <2>1, <2>2 DEF FlowInv
<1> QED
  BY <1>1, <1>2 DEF StreamInv

LEMMA DaemonSteps ==
  StreamInv /\ (MonitorPublishes \/ DaemonExits) => StreamInv'
<1> SUFFICES ASSUME StreamInv PROVE (MonitorPublishes \/ DaemonExits) => StreamInv'
  OBVIOUS
<1> USE DEF StreamInv
<1>1. ASSUME MonitorPublishes PROVE StreamInv'
  <2>1. /\ client' = client /\ serving' = serving /\ event' = event /\ socket' = socket
        /\ rfile' = rfile /\ ack' = ack /\ sse' = sse /\ feed' = feed /\ cut' = cut
        /\ daemonUp' = daemonUp /\ browser' = browser /\ members' = members
    BY <1>1 DEF MonitorPublishes, restVars, Feed!Record, Feed!Publish
  <2>2. \/ recorded' \in Packets /\ ready' = TRUE /\ due' = due
        \/ ready /\ ready' = FALSE /\ due' = members \ cut /\ recorded' = recorded
    BY <1>1 DEF MonitorPublishes, Feed!Record, Feed!Publish, Packets
  <2>3. StreamTyped'
    BY <2>1, <2>2, Values DEF StreamTyped
  <2> QED
    BY <2>1, <2>3, SameFlow DEF Same
<1>2. ASSUME DaemonExits PROVE StreamInv'
  <2>1. /\ client' = client /\ serving' = serving /\ event' = event /\ socket' = socket
        /\ rfile' = rfile /\ ack' = ack /\ sse' = sse /\ feed' = feed /\ cut' = cut
        /\ daemonUp' = FALSE /\ browser' = browser /\ members' = members
        /\ recorded' = recorded /\ ready' = ready /\ due' = due
    BY <1>2 DEF DaemonExits, restVars, feedVars
  <2>2. StreamTyped'
    BY <2>1 DEF StreamTyped
  <2> QED
    BY <2>1, <2>2, SameFlow DEF Same
<1> QED
  BY <1>1, <1>2

\* The handler of a connection, which may just have joined or left.
LEMMA HandlerSteps ==
  ASSUME StreamInv, NEW s \in Streams, HandlerStep(s)
  PROVE  StreamInv'
<1> USE DEF StreamInv
<1>0. FlowInv(s) /\ StreamTyped
  OBVIOUS
<1>1. ASSUME HandlerJoins(s) \/ HandlerFinishes(s) PROVE StreamInv'
  <2>1. /\ client' = client /\ event' = event /\ socket' = socket /\ rfile' = rfile
        /\ ack' = ack /\ sse' = sse /\ feed' = feed /\ cut' = cut /\ daemonUp' = daemonUp
        /\ browser' = browser /\ recorded' = recorded /\ ready' = ready /\ due' = due
        /\ members' \subseteq members \cup {s}
        /\ \/ serving[s] = "subscribe" /\ serving' = [serving EXCEPT ![s] = "reply"]
           \/ /\ serving[s] = "read" /\ serving' = [serving EXCEPT ![s] = "gone"]
              /\ client[s] \in {"none", "closed"}
    BY <1>1 DEF HandlerJoins, HandlerFinishes, restVars, Feed!Join, Feed!Leave, Connected
  <2>2. StreamTyped'
    BY <2>1 DEF StreamTyped
  <2>3. \A t \in Streams \ {s} : Same(t)
    BY <2>1 DEF Same, StreamTyped
  <2>4. Written(s)' = Written(s)
    BY <2>1 DEF Written, Pending, Data
  <2>5. serving'[s] = IF serving[s] = "subscribe" THEN "reply" ELSE "gone"
    BY <2>1 DEF StreamTyped
  <2>6. FlowInv(s)'
    BY <1>0, <2>1, <2>4, <2>5 DEF FlowInv
  <2> QED
    BY <2>2, <2>3, <2>6, OneStream
<1>2. ASSUME HandlerReplies(s) PROVE StreamInv'
  <2>1. /\ client' = client /\ event' = event /\ rfile' = rfile
        /\ ack' = ack /\ sse' = sse /\ feed' = feed /\ cut' = cut /\ daemonUp' = daemonUp
        /\ browser' = browser /\ recorded' = recorded /\ ready' = ready /\ due' = due
        /\ members' = members
        /\ serving[s] = "reply" /\ serving' = [serving EXCEPT ![s] = "read"]
        /\ \/ client[s] \notin {"none", "closed"}
              /\ socket' = [socket EXCEPT ![s] = Append(@, Ack)]
           \/ client[s] \in {"none", "closed"} /\ socket' = socket
    BY <1>2 DEF HandlerReplies, restVars, feedVars, Connected, WriteLine
  <2>2. Append(socket[s], Ack) \in Seq(Lines)
    BY <1>0, Types, Values, AppendProperties
  <2>3. StreamTyped'
    <3>1. socket' \in [Streams -> Seq(Lines)]
      BY <2>1, <2>2 DEF StreamTyped
    <3>2. serving' \in [Streams -> {"none", "subscribe", "reply", "read", "gone"}]
      BY <2>1 DEF StreamTyped
    <3> QED
      BY <2>1, <3>1, <3>2 DEF StreamTyped
  <2>4. \A t \in Streams \ {s} : Same(t)
    BY <2>1 DEF Same, StreamTyped
  <2>5. Pending(s)' = Pending(s) /\ serving'[s] = "read"
    BY <2>1 DEF Pending, Data, StreamTyped
  <2>6. CASE client[s] \notin {"none", "closed"}
    <3>1. socket'[s] = Append(socket[s], Ack)
      BY <2>1, <2>6 DEF StreamTyped
    <3>2. Written(s)' = Append(Written(s), Ack)
      <4>1. Written(s)' = (ack[s] \o sse[s]) \o ((Pending(s) \o rfile[s]) \o Append(socket[s], Ack))
        BY <2>1, <2>5, <3>1 DEF Written
      <4>2. (ack[s] \o sse[s]) \o ((Pending(s) \o rfile[s]) \o Append(socket[s], Ack))
              = Append(Written(s), Ack)
        BY <1>0, Values, WrittenLonger, Zenon
      <4> QED
        BY <4>1, <4>2, Zenon
    <3>3. Written(s) = feed[s]
      BY <1>0, <2>1, <2>6 DEF FlowInv
    <3>4. /\ Append(feed[s], Ack) = WithAck(feed[s], Len(feed[s]) + 1)
          /\ Len(feed[s]) + 1 \in 1..Len(feed[s]) + 1
      BY Types, WithAckLast
    <3> QED
      BY <1>0, <2>1, <2>3, <2>4, <2>5, <2>6, <3>2, <3>3, <3>4, OneStream DEF FlowInv
  <2>7. CASE client[s] \in {"none", "closed"}
    BY <1>0, <2>1, <2>3, <2>4, <2>5, <2>7, OneStream DEF FlowInv
  <2> QED
    BY <2>6, <2>7
<1> QED
  BY <1>1, <1>2 DEF HandlerStep

LEMMA MonitorSendsStep ==
  ASSUME StreamInv, NEW s \in Streams, MonitorSends(s)
  PROVE  StreamInv'
<1> USE DEF StreamInv
<1>0. FlowInv(s) /\ StreamTyped
  OBVIOUS
<1>1. /\ client' = client /\ event' = event /\ rfile' = rfile /\ serving' = serving
      /\ ack' = ack /\ sse' = sse /\ cut' = cut /\ daemonUp' = daemonUp /\ daemonUp
      /\ browser' = browser /\ recorded' = recorded /\ ready' = ready
      /\ members' = members /\ s \in due /\ due' = due \ {s}
      /\ feed' = [feed EXCEPT ![s] = Append(@, recorded)]
      /\ socket' = [socket EXCEPT ![s] = Append(@, recorded)]
  BY DEF MonitorSends, restVars, Feed!Deliver, WriteLine
<1>2. recorded \in Packets /\ recorded \in Lines /\ s \notin cut
  BY <1>1 DEF StreamTyped
<1>3. client[s] # "closed"
  BY <1>0, <1>1, <1>2 DEF FlowInv
<1>4. Append(socket[s], recorded) \in Seq(Lines) /\ Append(feed[s], recorded) \in Seq(Packets)
  BY <1>2, Types, AppendProperties
<1>5. StreamTyped'
  BY <1>1, <1>4 DEF StreamTyped
<1>6. \A t \in Streams \ {s} : Same(t)
  BY <1>1 DEF Same, StreamTyped
<1>7. /\ socket'[s] = Append(socket[s], recorded) /\ feed'[s] = Append(feed[s], recorded)
      /\ Pending(s)' = Pending(s)
  BY <1>1 DEF StreamTyped, Pending, Data
<1>8. Written(s)' = Append(Written(s), recorded)
  <2>1. Written(s)' =
          (ack[s] \o sse[s]) \o ((Pending(s) \o rfile[s]) \o Append(socket[s], recorded))
    BY <1>1, <1>7 DEF Written
  <2>2. (ack[s] \o sse[s]) \o ((Pending(s) \o rfile[s]) \o Append(socket[s], recorded))
          = Append(Written(s), recorded)
    BY <1>0, <1>2, WrittenLonger, Zenon
  <2> QED
    BY <2>1, <2>2, Zenon
<1>9. ASSUME NEW k \in 1..Len(feed[s]) + 1, Written(s) = WithAck(feed[s], k)
      PROVE  k \in 1..Len(feed'[s]) + 1 /\ Written(s)' = WithAck(feed'[s], k)
  <2>1. Len(feed[s]) \in Nat /\ Len(feed'[s]) = Len(feed[s]) + 1
    BY <1>2, <1>7, Types, LenProperties, AppendProperties
  <2>2. WithAck(feed'[s], k) = Append(WithAck(feed[s], k), recorded)
    BY <1>2, <1>7, Types, WithAckAppend
  <2> QED
    BY <1>8, <1>9, <2>1, <2>2
<1>10. FlowInv(s)'
  BY <1>0, <1>1, <1>3, <1>7, <1>8, <1>9 DEF FlowInv
<1> QED
  BY <1>5, <1>6, <1>10, OneStream

\* The connection is closed: what had been read ahead and the socket are gone.
LEMMA ClosedFlow ==
  ASSUME StreamInv, NEW s \in Streams, client[s] \notin {"none", "closed"}, Close(s),
         UNCHANGED <<daemonUp, serving, ack, event, browser, sse>>
  PROVE  StreamInv'
<1> USE DEF StreamInv
<1>0. FlowInv(s) /\ StreamTyped
  OBVIOUS
<1>1. /\ cut' = cut \cup {s} /\ due' = due \ {s} /\ members' = members
      /\ recorded' = recorded /\ ready' = ready /\ feed' = feed
      /\ client' = [client EXCEPT ![s] = "closed"]
      /\ socket' = [socket EXCEPT ![s] = <<>>] /\ rfile' = [rfile EXCEPT ![s] = <<>>]
      /\ daemonUp' = daemonUp /\ serving' = serving /\ ack' = ack /\ event' = event
      /\ browser' = browser /\ sse' = sse
  BY DEF Close, Feed!HangUp
<1>2. <<>> \in Seq(Lines)
  OBVIOUS
<1>3. StreamTyped'
  BY <1>1, <1>2 DEF StreamTyped
<1>4. \A t \in Streams \ {s} : Same(t)
  BY <1>1 DEF Same, StreamTyped
<1>5. client'[s] = "closed"
  BY <1>1 DEF StreamTyped
<1>6. /\ sse[s] # <<>> => Len(ack[s]) = 1
      /\ \E k \in 1..Len(feed[s]) + 1 : IsPrefix(ack[s] \o sse[s], WithAck(feed[s], k))
  BY <1>0, ShownIsFirst
<1>7. FlowInv(s)'
  <2>1. s \in cut'
    BY <1>1
  <2> QED
    BY <1>1, <1>5, <1>6, <2>1 DEF FlowInv
<1> QED
  BY <1>3, <1>4, <1>7, OneStream

LEMMA CloseSteps ==
  ASSUME StreamInv, NEW s \in Streams, AckFails(s) \/ StreamEnds(s) \/ WriteFails(s)
  PROVE  StreamInv'
BY ClosedFlow DEF AckFails, StreamEnds, WriteFails

LEMMA OpenSteps ==
  ASSUME StreamInv, NEW s \in Streams, StreamOpens(s) \/ BrowserLeaves(s)
  PROVE  StreamInv'
<1> USE DEF StreamInv
<1>0. FlowInv(s) /\ StreamTyped
  OBVIOUS
<1>1. /\ event' = event /\ socket' = socket /\ rfile' = rfile /\ ack' = ack /\ sse' = sse
      /\ feed' = feed /\ cut' = cut /\ daemonUp' = daemonUp /\ members' = members
      /\ recorded' = recorded /\ ready' = ready /\ due' = due
      /\ \/ client' = client /\ serving' = serving /\ browser' = [browser EXCEPT ![s] = FALSE]
         \/ /\ client[s] = "none" /\ daemonUp
            /\ client' = [client EXCEPT ![s] = "ack"]
            /\ serving' = [serving EXCEPT ![s] = "subscribe"]
            /\ browser' = [browser EXCEPT ![s] = TRUE]
         \/ /\ client[s] = "none" /\ ~daemonUp
            /\ client' = [client EXCEPT ![s] = "closed"]
            /\ serving' = serving /\ browser' = browser
  BY DEF StreamOpens, BrowserLeaves, feedVars, restVars
<1>2. StreamTyped'
  BY <1>1 DEF StreamTyped
<1>3. \A t \in Streams \ {s} : Same(t)
  BY <1>1 DEF Same, StreamTyped
<1>4. CASE client' = client /\ serving' = serving
  <2>1. Same(s)
    BY <1>1, <1>4 DEF Same
  <2> QED
    BY <1>0, <1>2, <1>3, <2>1, SameFlow, OneStream
<1>5. CASE client[s] = "none"
  <2>1. client'[s] \in {"ack", "closed", "none"}
    BY <1>1, <1>5 DEF StreamTyped
  <2>2. CASE client'[s] = "none"
    <3>1. client' = client /\ serving' = serving
      BY <1>1, <2>2 DEF StreamTyped
    <3> QED
      BY <1>4, <3>1
  <2>3. CASE client'[s] = "ack"
    <3>1. serving'[s] = "subscribe" /\ serving[s] = "none" /\ ack[s] = <<>> /\ sse[s] = <<>>
      BY <1>0, <1>1, <1>5, <2>3 DEF StreamTyped, FlowInv
    <3>2. Written(s) = feed[s]
      BY <1>0, <1>5, <3>1 DEF FlowInv
    <3>3. Pending(s)' = Pending(s)
      BY <1>5, <2>3 DEF Pending
    <3>4. Written(s)' = feed'[s]
      BY <1>1, <3>2, <3>3 DEF Written
    <3>5. FlowInv(s)'
      BY <1>1, <2>3, <3>1, <3>4 DEF FlowInv
    <3> QED
      BY <1>2, <1>3, <3>5, OneStream
  <2>4. CASE client'[s] = "closed"
    <3>1. ~daemonUp /\ sse[s] = <<>>
      BY <1>0, <1>1, <1>5, <2>4 DEF StreamTyped, FlowInv
    <3>2. \E k \in 1..Len(feed[s]) + 1 : IsPrefix(ack[s] \o sse[s], WithAck(feed[s], k))
      BY <1>0, <1>5, ShownIsFirst
    <3>3. FlowInv(s)'
      BY <1>1, <2>4, <3>1, <3>2 DEF FlowInv
    <3> QED
      BY <1>2, <1>3, <3>3, OneStream
  <2> QED
    BY <2>1, <2>2, <2>3, <2>4
<1> QED
  BY <1>1, <1>4, <1>5

\* Lines are moved, and no line is lost or gained.
LEMMA MovedLines ==
  ASSUME StreamInv, NEW s \in Streams, StreamTyped', \A t \in Streams \ {s} : Same(t),
         client[s] \in {"ack", "select", "yield"},
         client'[s] \in {"select", "yield"}, Len(ack'[s]) = 1,
         serving' = serving, feed' = feed, Written(s)' = Written(s)
  PROVE  StreamInv'
<1>2. FlowInv(s)'
  BY DEF StreamInv, FlowInv
<1> QED
  BY <1>2, OneStream

\* The line that readline() returns is the next one of the connection.
LEMMA TakeSteps ==
  ASSUME StreamInv, NEW s \in Streams, TakeAck(s) \/ TakeLine(s)
  PROVE  StreamInv'
<1> USE DEF StreamInv
<1>0. FlowInv(s) /\ StreamTyped /\ LineThere(s)
  BY DEF TakeAck, TakeLine
<1> DEFINE line == ReadLine(s).line
           others == ReadLine(s).rest
           unread == ReadLine(s).left
<1>1. /\ line \in Lines /\ others \in Seq(Lines) /\ unread \in Seq(Lines)
      /\ rfile[s] \o socket[s] = <<line>> \o (others \o unread)
  BY <1>0, LineIsNext
<1>2. /\ feed' = feed /\ cut' = cut /\ daemonUp' = daemonUp /\ members' = members
      /\ recorded' = recorded /\ ready' = ready /\ due' = due /\ serving' = serving
      /\ browser' = browser /\ sse' = sse
      /\ rfile' = [rfile EXCEPT ![s] = others] /\ socket' = [socket EXCEPT ![s] = unread]
      /\ \/ /\ client[s] = "ack" /\ client' = [client EXCEPT ![s] = "select"]
            /\ ack' = [ack EXCEPT ![s] = <<line>>] /\ event' = event
         \/ /\ client[s] = "select" /\ client' = [client EXCEPT ![s] = "yield"]
            /\ event' = [event EXCEPT ![s] = line] /\ ack' = ack
  BY DEF TakeAck, TakeLine, feedVars
<1> DEFINE one == <<line>>
<1>3. one \in Seq(Lines) /\ Len(one) = 1 /\ one = <<line>>
  BY <1>1
<1>4. /\ ack[s] \in Seq(Lines) /\ sse[s] \in Seq(Lines) /\ rfile[s] \in Seq(Lines)
      /\ socket[s] \in Seq(Lines) /\ ack[s] \o sse[s] \in Seq(Lines)
  BY <1>0, Types
<1> HIDE DEF line, others, unread, one
<1>5. StreamTyped'
  <2>1. /\ rfile' \in [Streams -> Seq(Lines)] /\ socket' \in [Streams -> Seq(Lines)]
        /\ client' \in [Streams -> {"none", "ack", "select", "yield", "closed"}]
    BY <1>1, <1>2 DEF StreamTyped
  <2>2. event' \in [Streams -> Lines \cup {Keepalive}]
    <3>1. event' = event \/ event' = [event EXCEPT ![s] = line]
      BY <1>2
    <3> QED
      BY <1>1, <3>1 DEF StreamTyped
  <2>3. ack' \in [Streams -> Seq(Lines)]
    <3>1. ack' = ack \/ ack' = [ack EXCEPT ![s] = one]
      BY <1>2, <1>3
    <3> QED
      BY <1>3, <3>1 DEF StreamTyped
  <2> QED
    BY <1>2, <2>1, <2>2, <2>3 DEF StreamTyped
<1>6. \A t \in Streams \ {s} : Same(t)
  BY <1>2 DEF Same, StreamTyped
<1>7. rfile'[s] = others /\ socket'[s] = unread
  BY <1>2 DEF StreamTyped
<1>8. /\ others \o unread \in Seq(Lines) /\ one \o (others \o unread) \in Seq(Lines)
  BY <1>1, <1>3, ConcatProperties
<1>9. (one \o others) \o unread = one \o (others \o unread)
  <2>1. one \in Seq(Lines)
    BY <1>3
  <2>2. others \in Seq(Lines) /\ unread \in Seq(Lines)
    BY <1>1
  <2> QED
    BY <2>1, <2>2, ConcatAssociative
<1>10. client[s] # "yield" /\ Pending(s) = <<>>
  BY <1>2 DEF Pending
<1>11. Written(s) = (ack[s] \o sse[s]) \o (one \o (others \o unread))
  <2>1. <<>> \o rfile[s] = rfile[s]
    BY <1>4, ConcatEmptySeq
  <2> QED
    BY <1>1, <1>3, <1>10, <2>1 DEF Written
<1>12. CASE client[s] = "ack"
  <2>1. client'[s] = "select" /\ ack'[s] = one /\ sse'[s] = <<>> /\ sse[s] = <<>> /\ ack[s] = <<>>
    BY <1>0, <1>2, <1>3, <1>12 DEF StreamTyped, FlowInv
  <2>2. <<>> \o <<>> = <<>> /\ one \o <<>> = one /\ <<>> \o others = others
        /\ <<>> \o (one \o (others \o unread)) = one \o (others \o unread)
    BY <1>1, <1>3, <1>8, ConcatEmptySeq
  <2>3. Pending(s)' = <<>>
    BY <2>1 DEF Pending
  <2>4. Written(s)' = (one \o <<>>) \o ((<<>> \o others) \o unread)
    BY <1>7, <2>1, <2>3 DEF Written
  <2>5. Written(s)' = one \o (others \o unread) /\ Written(s) = one \o (others \o unread)
    BY <1>11, <2>1, <2>2, <2>4
  <2> QED
    BY <1>2, <1>3, <1>5, <1>6, <1>12, <2>1, <2>5, MovedLines
<1>13. CASE client[s] = "select"
  <2>1. client'[s] = "yield" /\ ack'[s] = ack[s] /\ sse'[s] = sse[s] /\ event'[s] = line
    BY <1>2, <1>13 DEF StreamTyped
  <2>2. Pending(s)' = one
    BY <1>1, <1>3, <2>1, Values DEF Pending, Data
  <2>3. Written(s)' = (ack[s] \o sse[s]) \o ((one \o others) \o unread)
    BY <1>7, <2>1, <2>2 DEF Written
  <2>4. Written(s)' = Written(s)
    BY <1>9, <1>11, <2>3, Zenon
  <2>5. Len(ack'[s]) = 1
    BY <1>0, <1>13, <2>1 DEF FlowInv
  <2> QED
    BY <1>2, <1>5, <1>6, <1>13, <2>1, <2>4, <2>5, MovedLines
<1> QED
  BY <1>2, <1>12, <1>13

LEMMA KeepaliveStep ==
  ASSUME StreamInv, NEW s \in Streams, SelectTimesOut(s)
  PROVE  StreamInv'
<1> USE DEF StreamInv
<1>1. /\ feed' = feed /\ cut' = cut /\ daemonUp' = daemonUp /\ members' = members
      /\ recorded' = recorded /\ ready' = ready /\ due' = due /\ serving' = serving
      /\ browser' = browser /\ sse' = sse /\ ack' = ack /\ rfile' = rfile /\ socket' = socket
      /\ client[s] = "select" /\ client' = [client EXCEPT ![s] = "yield"]
      /\ event' = [event EXCEPT ![s] = Keepalive]
  BY DEF SelectTimesOut, AfterTimeout, feedVars
<1>2. StreamTyped'
  BY <1>1 DEF StreamTyped
<1>3. \A t \in Streams \ {s} : Same(t)
  BY <1>1 DEF Same, StreamTyped
<1>4. client'[s] = "yield" /\ event'[s] = Keepalive
  BY <1>1 DEF StreamTyped
<1>5. Pending(s) = <<>> /\ Pending(s)' = <<>>
  BY <1>1, <1>4 DEF Pending, Data, Keepalive
<1>6. Written(s)' = Written(s)
  BY <1>1, <1>5 DEF Written
<1>7. Len(ack'[s]) = 1
  BY <1>1 DEF FlowInv
<1> QED
  BY <1>1, <1>2, <1>3, <1>4, <1>6, <1>7, MovedLines

LEMMA ChunkStep ==
  ASSUME StreamInv, NEW s \in Streams, WriteChunk(s)
  PROVE  StreamInv'
<1> USE DEF StreamInv
<1>0. FlowInv(s) /\ StreamTyped
  OBVIOUS
<1> DEFINE data == Data(s)
<1>1. /\ feed' = feed /\ cut' = cut /\ daemonUp' = daemonUp /\ members' = members
      /\ recorded' = recorded /\ ready' = ready /\ due' = due /\ serving' = serving
      /\ browser' = browser /\ ack' = ack /\ rfile' = rfile /\ socket' = socket
      /\ event' = event /\ client[s] = "yield" /\ client' = [client EXCEPT ![s] = "select"]
      /\ sse' = [sse EXCEPT ![s] = sse[s] \o data]
  BY DEF WriteChunk, feedVars
<1>2. Pending(s) = data
  BY <1>1 DEF Pending
<1>3. data \in Seq(Lines) /\ sse[s] \in Seq(Lines)
  BY <1>0, Types
<1> HIDE DEF data
<1>4. sse[s] \o data \in Seq(Lines)
  BY <1>3, ConcatProperties
<1>5. StreamTyped'
  BY <1>1, <1>4 DEF StreamTyped
<1>6. \A t \in Streams \ {s} : Same(t)
  BY <1>1 DEF Same, StreamTyped
<1>7. client'[s] = "select" /\ sse'[s] = sse[s] \o data
  BY <1>1 DEF StreamTyped
<1>8. Pending(s)' = <<>>
  BY <1>7 DEF Pending
<1>9. Written(s)' = (ack[s] \o (sse[s] \o data)) \o ((<<>> \o rfile[s]) \o socket[s])
  BY <1>1, <1>7, <1>8 DEF Written
<1>10. Written(s)' = Written(s)
  BY <1>0, <1>2, <1>9, ChunkMoves, Zenon DEF data
<1>11. Len(ack'[s]) = 1
  BY <1>0, <1>1 DEF FlowInv
<1> QED
  BY <1>1, <1>5, <1>6, <1>7, <1>10, <1>11, MovedLines

LEMMA StreamKept == StreamInv /\ [StreamNext]_streamVars => StreamInv'
<1> SUFFICES ASSUME StreamInv, [StreamNext]_streamVars PROVE StreamInv'
  OBVIOUS
<1>1. CASE MonitorPublishes \/ DaemonExits
  BY <1>1, DaemonSteps
<1>2. ASSUME NEW s \in Streams,
             \/ HandlerStep(s) \/ MonitorSends(s)
             \/ StreamOpens(s) \/ Generator(s)
             \/ WriteChunk(s) \/ WriteFails(s) \/ BrowserLeaves(s)
      PROVE  StreamInv'
  BY <1>2, HandlerSteps, MonitorSendsStep, OpenSteps, TakeSteps, KeepaliveStep, ChunkStep,
     CloseSteps DEF Generator
<1>3. CASE UNCHANGED streamVars
  <2>1. /\ client' = client /\ serving' = serving /\ event' = event /\ socket' = socket
        /\ rfile' = rfile /\ ack' = ack /\ sse' = sse /\ feed' = feed /\ cut' = cut
        /\ daemonUp' = daemonUp /\ browser' = browser /\ members' = members
        /\ recorded' = recorded /\ ready' = ready /\ due' = due
    BY <1>3 DEF streamVars, feedVars, restVars
  <2>2. StreamTyped'
    BY <2>1 DEF StreamTyped, StreamInv
  <2> QED
    BY <2>1, <2>2, SameFlow DEF Same, StreamInv
<1> QED
  BY <1>1, <1>2, <1>3 DEF StreamNext

LEMMA StreamAlways == StreamSpec => []StreamInv
BY StreamStart, StreamKept, PTL DEF StreamSpec

-----------------------------------------------------------------------------
\* Every variable of the event stream keeps its type: in particular, only packets
\* and the response go through a connection.
THEOREM StreamTyping == StreamSpec => []StreamTypeOK
<1>1. StreamInv => StreamTypeOK
  <2> SUFFICES ASSUME StreamInv PROVE StreamTypeOK
    OBVIOUS
  <2>1. StreamTyped
    BY DEF StreamInv
  <2>2. event \in [Streams -> 1..Keepalive \union {Ack}]
    BY <2>1, Values DEF StreamTyped
  <2>3. \A s \in Streams :
          /\ feed[s] \in Seq(1..MaxPackets)
          /\ \A lines \in {socket[s], rfile[s], ack[s], sse[s]} : lines \in Seq(0..MaxPackets)
    BY <2>1 DEF StreamTyped, Packets, Lines
  <2> QED
    BY <2>1, <2>2, <2>3 DEF StreamTyped, StreamTypeOK, Lines
<1> QED
  BY <1>1, StreamAlways, PTL

\* stream_events() hands on the daemon's events in order and without gaps, whatever
\* the response overtakes, however the lines are read ahead, and whenever the HTTP
\* client or the daemon goes away: all that can be lost is the very first line.
THEOREM StreamIsComplete == StreamSpec => []OnlyTheFirstEventIsLost
<1>1. StreamInv => OnlyTheFirstEventIsLost
  <2> SUFFICES ASSUME StreamInv, NEW s \in Streams
               PROVE  /\ sse[s] # <<>> => Len(ack[s]) = 1
                      /\ \E k \in 1..Len(feed[s]) + 1 :
                            IsPrefix(ack[s] \o sse[s], WithAck(feed[s], k))
    BY DEF OnlyTheFirstEventIsLost
  <2>1. StreamTyped /\ FlowInv(s)
    BY DEF StreamInv
  <2>2. CASE client[s] = "closed"
    BY <2>1, <2>2 DEF FlowInv
  <2>3. CASE client[s] # "closed"
    BY <2>1, <2>3, ShownIsFirst
  <2> QED
    BY <2>2, <2>3
<1> QED
  BY <1>1, StreamAlways, PTL
==============================================================================
