----------------------------- MODULE RestRelay -----------------------------
(***************************************************************************)
(* kamxl_rest.py: an HTTP request, checked and relayed to the daemon over  *)
(* a connection of its own, while a socket timeout runs; kamxl_daemon.py:  *)
(* the handler that takes it, waits for _kam_lock and drives the KAM-XL;   *)
(* kamxl.py: how long every step of an operation may take, and what        *)
(* set_typed() and get_typed() do to a parameter.                          *)
(*                                                                         *)
(* Time is in seconds.  What takes less (a line on a Unix socket, the      *)
(* monitor thread's turn with the lock) takes none.                        *)
(*                                                                         *)
(* A command whose time is over is not taken back: the KAM-XL may carry it *)
(* out later, and its prompt then ends whatever waits for one.             *)
(*                                                                         *)
(* A request is [method, path, key, body, command, value, text, times,     *)
(* named]: path is the route's pattern, key what the caller presents, body *)
(* whether its fields are "ok", "missing" or "garbled", value what         *)
(* set_typed is given and text what a raw command sets, times the timeouts *)
(* it asks for, and named whether it names the station (mypbbs, mycall).   *)
(***************************************************************************)
EXTENDS TypedParameters, FiniteSets

CONSTANTS
  Slots,       \* the requests, numbered
  Client,      \* slot |-> the caller, who sends one request at a time
  NoRequest,   \* a slot that is not used
  Scenarios,   \* [launch, asks]: a command line, and a request for each slot
  Factory,     \* command |-> its text before anything is written
  Tolerated,   \* command |-> the texts the KAM-XL does not answer with EH?
  Strays,      \* what get() may make of an answer to something else
  Leaps        \* the seconds that may pass at once

ASSUME SlotsAssumption == Slots \subseteq Nat /\ IsFiniteSet(Slots)
ASSUME LeapsAssumption == Leaps \subseteq Nat \ {0} /\ 1 \in Leaps

Free == 0          \* nobody holds _kam_lock
NoAnswer == 0      \* no HTTP status yet
ASSUME FreeAssumption == Free \notin Slots

-----------------------------------------------------------------------------
(* The command line *)

\* main(): refused by parser.error(), or the key every request must show.
Launchable(l) == l.noAuth => l.host = "localhost"

\* Mutant: no token is made up when no key is given.
ApiKey_NoToken(l) == IF l.noAuth THEN "" ELSE l.key

ApiKey(l) == IF l.noAuth THEN "" ELSE IF l.key # "" THEN l.key ELSE "token"

\* _check_auth()
CheckAuth(l, r) == ApiKey(l) # "" => r.key = ApiKey(l)

-----------------------------------------------------------------------------
(* What the REST layer answers by itself *)

Pages == {"/", "/pbbs", "/map", "/winlink"}

ROUTES ==
  {"GET"} \X (Pages \cup
     {"/ping", "/status", "/configuration", "/params/C", "/params/C/raw",
      "/connected/read", "/pbbs/messages", "/pbbs/messages/N", "/stations",
      "/stations/S", "/winlink/account/S", "/winlink/gateways/nearby",
      "/winlink/gateways"})
  \cup {"PUT"} \X {"/params/C", "/params/C/raw"}
  \cup {"POST"} \X {"/connect", "/disconnect", "/connected/send", "/terminal/exec",
                    "/winlink/check", "/winlink/send"}

Route(r) == <<r.method, r.path>>

\* The handlers that insist on a field.
Demanding ==
  {"PUT"} \X {"/params/C", "/params/C/raw"}
  \cup {"POST"} \X {"/connect", "/connected/send", "/terminal/exec",
                    "/winlink/check", "/winlink/send"}
  \cup {<<"GET", "/winlink/gateways/nearby">>}

\* The handlers that parse a body or a number.
Parsing ==
  Demanding \cup
  {<<"POST", "/disconnect">>, <<"GET", "/connected/read">>, <<"GET", "/pbbs/messages">>,
   <<"GET", "/pbbs/messages/N">>, <<"GET", "/winlink/gateways">>}

Immediate(l, r) ==
  IF Route(r) = <<"GET", "/favicon.ico">> THEN 204
  ELSE IF ~CheckAuth(l, r) THEN 401
  ELSE IF \A route \in ROUTES : route[2] # r.path THEN 404
  ELSE IF Route(r) \notin ROUTES THEN 405
  ELSE IF r.path \in Pages THEN 200
  ELSE IF Route(r) \in Parsing /\ r.body = "garbled" THEN 500
  ELSE IF Route(r) \in Demanding /\ r.body = "missing" THEN 400
  ELSE NoAnswer

-----------------------------------------------------------------------------
(* How long the REST layer waits, and what the daemon does meanwhile *)

DefaultTimeout == 15

PBBSPaths == {"/pbbs/messages", "/pbbs/messages/N"}
WinlinkPaths == {"/winlink/check", "/winlink/send"}
WebService == {"/winlink/account/S", "/winlink/gateways", "/winlink/gateways/nearby"}

\* Mutant: the larger of the two steps of a disconnect, not their sum.
SocketTimeout_Larger(r) ==
  IF r.path = "/disconnect" THEN (IF r.times.t > r.times.cm THEN r.times.t ELSE r.times.cm) + 5
  ELSE IF r.path \in {"/connect", "/connected/read", "/terminal/exec"} THEN r.times.t + 5
  ELSE IF r.path \in PBBSPaths THEN r.times.c + r.times.r + 40
  ELSE IF r.path \in WinlinkPaths THEN r.times.c + 3 * r.times.r + 40
  ELSE IF r.path \in WebService THEN 20
  ELSE DefaultTimeout

SocketTimeout(r) ==
  CASE r.path \in {"/connect", "/connected/read", "/terminal/exec"} -> r.times.t + 5
    [] r.path = "/disconnect"  -> r.times.t + r.times.cm + 5
    [] r.path \in PBBSPaths    -> r.times.c + r.times.r + 40
    [] r.path \in WinlinkPaths -> r.times.c + 3 * r.times.r + 40
    [] r.path \in WebService   -> 20
    [] OTHER                   -> DefaultTimeout

\* A step of the driver: it has limit seconds, and after a marker grace more for
\* the rest of its line; then it raises, or goes on.  Some wait for an answer.
Step(n, more, raises, asking) ==
  [limit |-> n, grace |-> IF n = 0 THEN 0 ELSE more, raises |-> raises, asks |-> asking]

Grace == 1        \* line_end_grace: 0.5 s, begun again with every byte
Command(n) == Step(n, 0, TRUE, TRUE)
Banner(n) == Step(n, Grace, TRUE, TRUE)      \* require_line_end
Raising(n) == Step(n, 0, TRUE, FALSE)
Lenient(n) == Step(n, 0, FALSE, FALSE)

COMMAND == Command(10)                             \* send_command()
DISCONNECT(cm, t) == <<Command(cm), Banner(t)>>    \* disconnect_station()

SetTyped(r) ==
  IF ~Accepted(r.command, r.value) THEN <<Raising(0)>>
  ELSE IF Known(r.command) THEN <<COMMAND, COMMAND>>
  ELSE <<COMMAND>>

\* The station's own name is asked for first when the caller gives none.
Name(r) == IF r.named THEN <<>> ELSE <<COMMAND>>

Session(r, polls) ==
  Name(r) \o <<Banner(r.times.c)>> \o [k \in 1..polls |-> Lenient(r.times.r)]
    \o DISCONNECT(5, 30)

Steps(r) ==
  CASE r.path \in {"/ping", "/stations", "/stations/S"} -> <<>>
    [] r.path \in {"/status", "/connected/send"} -> <<Lenient(0)>>
    [] r.path = "/configuration"      -> <<Command(20)>>
    [] r.path = "/params/C"           -> IF r.method = "PUT" THEN SetTyped(r) ELSE <<COMMAND>>
    [] r.path = "/params/C/raw"       -> <<COMMAND>>
    [] r.path = "/connect"            -> <<Banner(r.times.t)>>
    [] r.path = "/terminal/exec"      -> <<Command(r.times.t)>>
    [] r.path = "/disconnect"         -> DISCONNECT(r.times.cm, r.times.t)
    [] r.path = "/connected/read"     -> <<Lenient(r.times.t)>>
    [] r.path \in PBBSPaths           -> Session(r, 1)
    [] r.path \in WinlinkPaths        -> Session(r, 3)
    [] r.path \in WebService          -> <<Raising(15)>>

\* Mutant: set_typed() reads back after it has let go of the lock.
LockedSteps_NoReadBack(r) ==
  IF r.path \in WebService THEN 0 ELSE IF Len(Steps(r)) = 0 THEN 0 ELSE 1

\* The steps under _kam_lock: all of them, except for an HTTPS request.
LockedSteps(r) == IF r.path \in WebService THEN 0 ELSE Len(Steps(r))

\* A request that writes a parameter does so in its first step.
Typed(r) == Route(r) = <<"PUT", "/params/C">>
Writes(r) ==
  \/ Typed(r) /\ Accepted(r.command, r.value)
  \/ Route(r) = <<"PUT", "/params/C/raw">>
  \/ r.path = "/terminal/exec" /\ r.command \in DOMAIN Factory

\* The text it sends, and the text the KAM-XL then shows.
Sent(r) == IF Typed(r) THEN Text(r.command, r.value) ELSE r.text
Adopted(r) == [k \in DOMAIN Sent(r) |-> Upper(Sent(r)[k])]
Welcome(r) == Writes(r) /\ Adopted(r) \in Tolerated[r.command]

\* Timeouts are not negative, and what is written had a text before.
ASSUME RequestsAssumption ==
  \A s \in Scenarios : \A q \in Slots :
    LET r == s.asks[q]
    IN  r # NoRequest =>
          /\ r.times \in [t : Nat, cm : Nat, c : Nat, r : Nat]
          /\ Writes(r) => r.command \in DOMAIN Factory

\* What makes or ends a link, or may, has more to come than its own answer; so has
\* text for a remote station that is not there.
Disturbs(r) ==
  \/ r.path \in {"/connect", "/disconnect", "/connected/send"} \cup PBBSPaths \cup WinlinkPaths
  \/ r.path = "/terminal/exec" /\ ~Writes(r)

\* get_typed() is the last step of a typed request.
ReadsBack(r) == r.path = "/params/C" /\ Known(r.command)

-----------------------------------------------------------------------------
VARIABLES
  launch,    \* the command line of kamxl_rest.py
  asks,      \* the requests
  up,        \* the daemon accepts connections and its serial port is open
  rest,      \* the REST thread of each slot
  left,      \* what is left of its socket timeout
  status,    \* the HTTP status it has answered
  handler,   \* the daemon's thread for it
  step, ran, \* the driver's step it is at, and how long it has taken
  holder,    \* of _kam_lock
  params,    \* the KAM-XL's parameters
  quiet,     \* the serial line has nothing to come but the current step's answer
  late,      \* the slots whose write the KAM-XL may still carry out
  clean,     \* the slots that found the line quiet when they got the lock
  reported,  \* what get_typed() returned for a slot
  queued,    \* the slots that spent time waiting for _kam_lock
  saw        \* the slots already answered when a slot was sent

lineVars == <<quiet, late, clean>>
vars == <<launch, asks, up, rest, left, status, handler, step, ran, holder, params,
          lineVars, reported, queued, saw>>

Nothing == Str("")

Init ==
  /\ \E s \in Scenarios : launch = s.launch /\ asks = s.asks
  /\ Launchable(launch)
  /\ up = TRUE
  /\ rest = [q \in Slots |-> "idle"]
  /\ left = [q \in Slots |-> 0]
  /\ status = [q \in Slots |-> NoAnswer]
  /\ handler = [q \in Slots |-> "none"]
  /\ step = [q \in Slots |-> 0]
  /\ ran = [q \in Slots |-> 0]
  /\ holder = Free
  /\ params = Factory
  \* What the KAM-XL was doing before the daemon started is not known.
  /\ quiet = FALSE
  /\ late = {}
  /\ clean = {}
  /\ reported = [q \in Slots |-> Nothing]
  /\ queued = {}
  /\ saw = [q \in Slots |-> {}]

-----------------------------------------------------------------------------
(* The REST thread *)

Answered(q) == rest[q] = "done"

Answer(q, code) ==
  /\ rest' = [rest EXCEPT ![q] = "done"]
  /\ status' = [status EXCEPT ![q] = code]

\* do_GET()/do_PUT()/do_POST(), up to DaemonClient.call()'s readline().
Send(q) ==
  LET code == Immediate(launch, asks[q])
  IN  /\ rest[q] = "idle" /\ asks[q] # NoRequest
      /\ \A p \in Slots :
           p < q /\ Client[p] = Client[q] /\ asks[p] # NoRequest => Answered(p)
      /\ saw' = [saw EXCEPT ![q] = {p \in Slots : Answered(p)}]
      /\ \/ /\ code # NoAnswer
            /\ Answer(q, code)
            /\ UNCHANGED <<left, handler>>
         \/ /\ code = NoAnswer /\ ~up
            /\ Answer(q, 503)
            /\ UNCHANGED <<left, handler>>
         \/ /\ code = NoAnswer /\ up
            /\ rest' = [rest EXCEPT ![q] = "waiting"]
            /\ left' = [left EXCEPT ![q] = SocketTimeout(asks[q])]
            /\ handler' = [handler EXCEPT ![q] = "sent"]
            /\ UNCHANGED status
      /\ UNCHANGED <<launch, asks, up, step, ran, holder, params, lineVars, reported,
                     queued>>

\* Mutant: a timeout is answered as if the daemon were not there.
TimeoutStatus_Unavailable == 503

TimeoutStatus == 504

\* DaemonTimeout: the REST thread closes its socket, the daemon goes on.
GiveUp(q) ==
  /\ rest[q] = "waiting" /\ left[q] = 0
  /\ Answer(q, TimeoutStatus)
  /\ UNCHANGED <<launch, asks, up, left, handler, step, ran, holder, params, lineVars,
                 reported, queued, saw>>

-----------------------------------------------------------------------------
(* The daemon's handler *)

Running(q) == handler[q] = "run"
AtStep(q) == Steps(asks[q])[step[q]]
AtLastStep(q) == step[q] = Len(Steps(asks[q]))

\* handle() has read the request; then the method has its lock, or needs none.
Begin(q) ==
  /\ \/ /\ handler[q] = "sent" /\ LockedSteps(asks[q]) > 0
        /\ handler' = [handler EXCEPT ![q] = "lock"]
        /\ UNCHANGED <<step, holder, clean>>
     \/ /\ handler[q] = "sent" /\ LockedSteps(asks[q]) = 0
        /\ handler' = [handler EXCEPT ![q] = IF Steps(asks[q]) = <<>> THEN "ok" ELSE "run"]
        /\ step' = [step EXCEPT ![q] = 1]
        /\ UNCHANGED <<holder, clean>>
     \/ /\ handler[q] = "lock" /\ holder = Free
        /\ handler' = [handler EXCEPT ![q] = "run"]
        /\ step' = [step EXCEPT ![q] = 1]
        /\ holder' = q
        /\ clean' = IF quiet THEN clean \cup {q} ELSE clean
  /\ UNCHANGED <<launch, asks, up, rest, left, status, ran, params, quiet, late, reported,
                 queued, saw>>

\* Mutant: no "with": an exception leaves the lock held.
HolderAfter_Raise(q, raised) ==
  IF holder = q /\ ~raised /\ step[q] = LockedSteps(asks[q]) THEN Free ELSE holder

HolderAfter(q, raised) ==
  IF holder = q /\ (raised \/ step[q] = LockedSteps(asks[q])) THEN Free ELSE holder

\* The write that has been sent, and not been answered yet.
Unfinished(q) == IF step[q] = 1 /\ Welcome(asks[q]) THEN {q} ELSE {}

\* The KAM-XL carries it out before it answers.
Write(q) ==
  IF q \in Unfinished(q)
  THEN params' = [params EXCEPT ![asks[q].command] = Adopted(asks[q])]
  ELSE UNCHANGED params

\* Nothing is left to come after the step.
Settled(q) == quiet /\ ~Disturbs(asks[q])

\* The method raises; what it returns is dropped.
Raise(q) ==
  /\ handler' = [handler EXCEPT ![q] = "error"]
  /\ holder' = HolderAfter(q, TRUE)
  /\ UNCHANGED <<step, ran, reported>>

\* The next step, or the method returns; a session may still have failed.
Proceed(q) ==
  /\ holder' = HolderAfter(q, FALSE)
  /\ \/ /\ ~AtLastStep(q)
        /\ step' = [step EXCEPT ![q] = @ + 1]
        /\ ran' = [ran EXCEPT ![q] = 0]
        /\ UNCHANGED handler
     \/ /\ AtLastStep(q)
        /\ \E outcome \in {"ok"} \cup (IF asks[q].path \in WinlinkPaths THEN {"error"} ELSE {}) :
             handler' = [handler EXCEPT ![q] = outcome]
        /\ UNCHANGED <<step, ran>>

\* What get_typed() makes of the parameter's text as it is now.
Value(q) == Parsed(asks[q].command, params[asks[q].command])

Reads(q) == ReadsBack(asks[q]) /\ AtLastStep(q)

\* The step has what it waits for, or enough of it when its time is over.  The
\* KAM-XL answers its commands in turn.
StepEnds(q) ==
  LET r == asks[q]
  IN  /\ Running(q)
      /\ AtStep(q).limit > 0 \/ ~AtStep(q).raises
      /\ AtStep(q).asks => late = {}
      /\ Writes(r) /\ step[q] = 1 => Welcome(r)
      /\ \/ /\ Reads(q) => Value(q) # ValueError
            /\ Proceed(q)
            /\ reported' = [reported EXCEPT ![q] = IF Reads(q) THEN Value(q) ELSE @]
         \/ /\ Reads(q) /\ Value(q) = ValueError
            /\ Raise(q)
      /\ Write(q)
      /\ quiet' = Settled(q)
      /\ UNCHANGED <<launch, asks, up, rest, left, status, late, clean, queued, saw>>

\* The prompt it takes for its own ends the answer to an earlier command, whose
\* time was over; or text of a link that is no more.
StepEndsOnStray(q) ==
  /\ Running(q)
  /\ AtStep(q).asks /\ AtStep(q).limit > 0
  /\ ~quiet
  /\ \E text \in Strays :
       LET value == Parsed(asks[q].command, text)
       IN  \/ /\ Reads(q) => value # ValueError
              /\ Proceed(q)
              /\ reported' = [reported EXCEPT ![q] = IF Reads(q) THEN value ELSE @]
           \/ /\ Reads(q) /\ value = ValueError
              /\ Raise(q)
  /\ late' = late \cup Unfinished(q)
  /\ UNCHANGED <<launch, asks, up, rest, left, status, params, quiet, clean, queued, saw>>

\* The KAM-XL says no (EH?, *** busy), to this command or, out of turn, to an
\* earlier one; or set_typed() refuses its value.
StepFails(q) ==
  /\ Running(q)
  /\ AtStep(q).raises
  /\ Unfinished(q) # {} => ~quiet
  /\ Raise(q)
  /\ late' = late \cup Unfinished(q)
  /\ quiet' = Settled(q)
  /\ UNCHANGED <<launch, asks, up, rest, left, status, params, clean, queued, saw>>

\* Its time is over.  What it sent stays sent.
StepTimesOut(q) ==
  /\ Running(q)
  /\ ran[q] = AtStep(q).limit
  /\ \/ /\ AtStep(q).raises
        /\ Raise(q)
        /\ late' = late \cup Unfinished(q)
        /\ quiet' = (Settled(q) /\ ~AtStep(q).asks)
     \/ /\ ~AtStep(q).raises
        /\ Proceed(q)
        /\ quiet' = Settled(q)
        /\ UNCHANGED <<late, reported>>
  /\ UNCHANGED <<launch, asks, up, rest, left, status, params, clean, queued, saw>>

\* _send(), and _relay() on the other side if it still listens.
Reply(q) ==
  /\ handler[q] \in {"ok", "error"}
  /\ handler' = [handler EXCEPT ![q] = "gone"]
  /\ IF rest[q] = "waiting"
     THEN Answer(q, IF handler[q] = "ok" THEN 200 ELSE 502)
     ELSE UNCHANGED <<rest, status>>
  /\ UNCHANGED <<launch, asks, up, left, step, ran, holder, params, lineVars, reported,
                 queued, saw>>

-----------------------------------------------------------------------------
(* The KAM-XL, the daemon's end, and the passing of time *)

\* The KAM-XL carries out a write nobody waits for any more, or has lost it.
LateWrite(w) ==
  /\ w \in late
  /\ late' = late \ {w}
  /\ \/ params' = [params EXCEPT ![asks[w].command] = Adopted(asks[w])]
     \/ UNCHANGED params
  /\ UNCHANGED <<launch, asks, up, rest, left, status, handler, step, ran, holder, quiet,
                 clean, reported, queued, saw>>

\* All that was to come has come: the monitor thread's poll has taken it, or
\* reset_input_buffer() will drop it.
Settle ==
  /\ ~quiet /\ quiet' = TRUE
  /\ late = {} /\ holder = Free
  /\ UNCHANGED <<launch, asks, up, rest, left, status, handler, step, ran, holder, params,
                 late, clean, reported, queued, saw>>

Alive(q) == handler[q] \notin {"none", "gone"}

\* kamxl_daemon.main() on a signal: no new connections, the port is closed and
\* the process ends.  A running command fails on the closed port and may still
\* be answered; the other threads are daemon threads and end where they are.
\* A socket with a request nobody has read is reset, any other is closed.
DaemonStops ==
  /\ up /\ up' = FALSE
  /\ handler' = [q \in Slots |-> IF Alive(q) THEN "gone" ELSE handler[q]]
  /\ holder' = Free
  /\ late' = IF holder = Free THEN late ELSE late \cup Unfinished(holder)
  /\ quiet' = (quiet /\ holder = Free)
  /\ \E failed \in SUBSET {q \in Slots : Running(q)} :
       status' = [q \in Slots |->
                    IF rest[q] # "waiting" THEN status[q]
                    ELSE IF handler[q] = "sent" THEN 500
                    ELSE IF q \in failed THEN 502 ELSE 503]
  /\ rest' = [q \in Slots |-> IF rest[q] = "waiting" THEN "done" ELSE rest[q]]
  /\ UNCHANGED <<launch, asks, left, step, ran, params, clean, reported, queued, saw>>

\* What nobody waits a second with.
MustAct(q) ==
  \/ handler[q] \in {"sent", "ok", "error"}
  \/ handler[q] = "lock" /\ holder = Free

\* A read of the serial port ends at its deadline.
Deadline(q) ==
  IF ran[q] < AtStep(q).limit THEN AtStep(q).limit ELSE AtStep(q).limit + AtStep(q).grace

\* Mutant: it goes on while there is something to read.
MayPass_NoDeadline(d) ==
  \A q \in Slots : ~MustAct(q) /\ (rest[q] = "waiting" => d <= left[q])

MayPass(d) ==
  \A q \in Slots :
    /\ ~MustAct(q)
    /\ rest[q] = "waiting" => d <= left[q]
    /\ Running(q) => ran[q] + d <= Deadline(q)

\* The longest leap that nobody has to act before.
Tick ==
  \E d \in Leaps :
    /\ MayPass(d) /\ \A e \in Leaps : e > d => ~MayPass(e)
    /\ left' = [q \in Slots |-> IF rest[q] = "waiting" THEN left[q] - d ELSE left[q]]
    /\ ran' = [q \in Slots |-> IF Running(q) THEN ran[q] + d ELSE ran[q]]
    /\ queued' = queued \cup {q \in Slots : handler[q] = "lock"}
    /\ UNCHANGED <<launch, asks, up, rest, status, handler, step, holder, params, lineVars,
                   reported, saw>>

Operation(q) ==
  Begin(q) \/ StepEnds(q) \/ StepEndsOnStray(q) \/ StepFails(q) \/ StepTimesOut(q) \/ Reply(q)

Next ==
  \/ \E q \in Slots : Send(q) \/ GiveUp(q) \/ Operation(q) \/ LateWrite(q)
  \/ Settle
  \/ DaemonStops
  \/ Tick

\* The threads run and time passes; nobody has to send a request, the daemon
\* need not stop, and the KAM-XL need not carry out or answer anything.
Spec ==
  /\ Init /\ [][Next]_vars
  /\ WF_vars(Tick)
  /\ \A q \in Slots : WF_vars(GiveUp(q)) /\ WF_vars(Operation(q))

-----------------------------------------------------------------------------
TypeOK ==
  /\ up \in BOOLEAN
  /\ rest \in [Slots -> {"idle", "waiting", "done"}]
  /\ left \in [Slots -> Nat]
  /\ status \in [Slots -> {NoAnswer, 200, 204, 400, 401, 404, 405, 500, 502, 503, 504}]
  /\ handler \in [Slots -> {"none", "sent", "lock", "run", "ok", "error", "gone"}]
  /\ step \in [Slots -> Nat] /\ ran \in [Slots -> Nat]
  /\ holder \in Slots \cup {Free}
  /\ quiet \in BOOLEAN /\ late \subseteq Slots /\ clean \subseteq Slots
  /\ queued \subseteq Slots /\ saw \in [Slots -> SUBSET Slots]
  \* A step of the driver is over when its time is.
  /\ \A q \in Slots : Running(q) => ran[q] <= AtStep(q).limit + AtStep(q).grace

\* The operations that may take longer than the REST layer waits for them:
\* DISPLAY has 20 s of its own, a typed PUT two commands of 10 s, and a session
\* one more command when the caller does not name the station.
Overlong(r) ==
  \/ r.path = "/configuration"
  \/ Typed(r) /\ Known(r.command)
  \/ r.path \in PBBSPaths \cup WinlinkPaths /\ ~r.named

\* DaemonClient.call() and _relay(): the REST layer never gives up on an
\* operation while the daemon could still answer, unless another request held
\* _kam_lock first: each budget covers all the steps of its operation, one
\* after the other.  The overlong ones are the only exceptions.
TimeoutMeansBusy ==
  \A q \in Slots : status[q] = 504 => q \in queued \/ Overlong(asks[q])

\* set_typed() and _m_set_typed(): the value a PUT is answered with is the
\* one it asked for, as the KAM-XL writes it, whoever writes the same
\* parameter at the same time: the write and the read back are one turn.  It
\* is so when the turn began with nothing to come on the serial line: after a
\* command that timed out, or text of a link, the answer may be another's.
AnswerIsInForce ==
  \A q \in Slots :
    LET r == asks[q]
    IN  rest[q] = "done" /\ status[q] = 200 /\ Typed(r) /\ ReadsBack(r) /\ q \in clean
          => reported[q] = Parsed(r.command, Adopted(r))

\* A write that was answered 200, and began with nothing to come on the serial
\* line, is in force when every other write of its parameter was answered
\* before it was sent, or not yet sent; but one that was answered 504 may
\* still be carried out, after it.
AnsweredWriteStands ==
  \A w \in Slots :
    LET others == {v \in Slots \ {w} : /\ rest[v] # "idle" /\ Writes(asks[v])
                                       /\ asks[v].command = asks[w].command}
    IN  /\ status[w] = 200 /\ Writes(asks[w]) /\ w \in clean
        /\ \A v \in others : v \in saw[w] /\ status[v] # 504
        => params[asks[w].command] = Adopted(asks[w])

\* main() and _check_auth(): nothing is relayed to the daemon without the key,
\* unless --no-auth was given, and then the server listens on localhost only.
OnlyWithTheKey ==
  \A q \in Slots :
    handler[q] # "none" =>
      \/ asks[q].key = (IF launch.key # "" THEN launch.key ELSE "token")
      \/ launch.noAuth /\ launch.host = "localhost"

\* Every request the daemon takes comes to an end, whatever raises on the way
\* and whoever has given up on it: _kam_lock is never left held.
OperationsEnd == \A q \in Slots : (handler[q] = "lock") ~> (handler[q] = "gone")
=============================================================================
