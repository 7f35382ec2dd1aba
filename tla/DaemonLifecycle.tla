--------------------------- MODULE DaemonLifecycle ---------------------------
(***************************************************************************)
(* kamxl_daemon.py: main(), serve_forever() and shutdown() around the      *)
(* threads of KamDaemon.  A signal makes the main thread call shutdown();  *)
(* the server thread calls it again when serve_forever()'s loop ends, so   *)
(* two threads can be in it at once.                                       *)
(***************************************************************************)
EXTENDS KamDaemon

VARIABLES
  signalled,    \* shutdown_requested: SIGINT or SIGTERM has arrived
  callerPc,     \* where the main thread and the server thread are
  serverSet,    \* self._server is not None
  loopEnded,    \* BaseServer.__is_shut_down
  stopRequest,  \* BaseServer.__shutdown_request
  oldSocket,    \* a socket file was left from before (never changes)
  socketFile,   \* the socket path exists
  shutdownLock, \* who holds _shutdown_lock, or "nobody"
  shutdownDone  \* _shutdown_done

serverVars == <<serverSet, loopEnded, stopRequest, socketFile, oldSocket>>
lockVars == <<shutdownLock, shutdownDone>>
lifeVars == <<signalled, callerPc, serverVars, lockVars>>
allVars == <<vars, lifeVars>>

Callers == {"main", "server"}
Goto(c, label) == callerPc' = [callerPc EXCEPT ![c] = label]
Running == callerPc["main"] \notin {"exit", "crashed"}

\* main() has started the server thread; a socket file may be left from before.
LifeInit ==
  /\ Init
  /\ signalled = FALSE
  /\ callerPc = [c \in Callers |-> IF c = "main" THEN "wait" ELSE "oldSocket"]
  /\ serverSet = FALSE
  /\ loopEnded = FALSE
  /\ stopRequest = FALSE
  /\ oldSocket \in BOOLEAN
  /\ socketFile = oldSocket
  /\ shutdownLock = "nobody"
  /\ shutdownDone = FALSE

-----------------------------------------------------------------------------
(***************************************************************************)
(* main().                                                                 *)
(***************************************************************************)
Signal ==
  /\ Running /\ ~signalled
  /\ signalled' = TRUE
  /\ UNCHANGED <<vars, callerPc, serverVars, lockVars>>

MainWakes ==
  /\ callerPc["main"] = "wait"
  /\ signalled
  /\ Goto("main", "enter")
  /\ UNCHANGED <<vars, signalled, serverVars, lockVars>>

\* server_thread.join(timeout=5) returns sooner or later, or an exception of
\* shutdown() leaves main(); daemon threads die with the process.
MainExits ==
  /\ \/ callerPc["main"] = "returned" /\ Goto("main", "exit")
     \/ callerPc["main"] = "raised" /\ Goto("main", "crashed")
  /\ UNCHANGED <<vars, signalled, serverVars, lockVars>>

-----------------------------------------------------------------------------
(***************************************************************************)
(* serve_forever(), on the server thread.                                  *)
(***************************************************************************)
\* if os.path.exists(self.socket_path)
SeeOldSocket ==
  /\ Running /\ callerPc["server"] = "oldSocket"
  /\ Goto("server", IF socketFile THEN "unlinkOld" ELSE "bind")
  /\ UNCHANGED <<vars, signalled, serverVars, lockVars>>

\* os.remove(self.socket_path): FileNotFoundError ends the thread when shutdown()
\* removed the file after the test.
RemoveOldSocket ==
  /\ Running /\ callerPc["server"] = "unlinkOld"
  /\ socketFile' = FALSE
  /\ Goto("server", IF socketFile THEN "bind" ELSE "raised")
  /\ UNCHANGED <<vars, signalled, serverSet, loopEnded, stopRequest, oldSocket,
                 lockVars>>

\* _ThreadingUnixStreamServer(...) binds the path, then self._server is assigned.
BindSocket ==
  /\ Running /\ callerPc["server"] = "bind"
  /\ socketFile' = TRUE
  /\ Goto("server", "assign")
  /\ UNCHANGED <<vars, signalled, serverSet, loopEnded, stopRequest, oldSocket,
                 lockVars>>

AssignServer ==
  /\ Running /\ callerPc["server"] = "assign"
  /\ serverSet' = TRUE
  /\ Goto("server", "loop")
  /\ UNCHANGED <<vars, signalled, loopEnded, stopRequest, socketFile, oldSocket,
                 lockVars>>

\* BaseServer.serve_forever() ends on request, or by an exception; finally: shutdown().
LoopEnds ==
  /\ Running /\ callerPc["server"] = "loop"
  /\ loopEnded' = TRUE
  /\ stopRequest' = FALSE
  /\ Goto("server", "enter")
  /\ UNCHANGED <<vars, signalled, serverSet, socketFile, oldSocket, lockVars>>

-----------------------------------------------------------------------------
(***************************************************************************)
(* shutdown(), by either thread.                                           *)
(***************************************************************************)
\* Mutants: the flag is not set; it is tested without waiting for the lock.
DoneFlag_Unset == FALSE
DoneFlag == TRUE
MayTestFlag_NoWait == shutdownLock = "nobody" \/ shutdownDone
MayTestFlag == shutdownLock = "nobody"

\* Mutant: shutdown() before it had a lock and a flag.
Enter_Unguarded(c) ==
  /\ Running /\ callerPc[c] = "enter"
  /\ Goto(c, "stop")
  /\ UNCHANGED <<vars, signalled, serverVars, lockVars>>

\* with self._shutdown_lock: if self._shutdown_done: return
Enter(c) ==
  /\ Running /\ callerPc[c] = "enter"
  /\ MayTestFlag
  /\ IF shutdownDone
     THEN /\ Goto(c, "returned")
          /\ UNCHANGED lockVars
     ELSE /\ Goto(c, "stop")
          /\ shutdownLock' = c
          /\ shutdownDone' = DoneFlag
  /\ UNCHANGED <<vars, signalled, serverVars>>

SetMonitorStop(c) ==
  /\ Running /\ callerPc[c] = "stop"
  /\ StopMonitor
  /\ Goto(c, IF serverSet THEN "request" ELSE "socket")
  /\ UNCHANGED <<signalled, serverVars, lockVars>>

\* Mutant: shutdown() waits for the loop without having told it to stop.
StopFlag_Unset == stopRequest
StopFlag == TRUE

\* self._server.shutdown(): set the request, then wait for the loop to end.
RequestStop(c) ==
  /\ Running /\ callerPc[c] = "request"
  /\ stopRequest' = StopFlag
  /\ Goto(c, "await")
  /\ UNCHANGED <<vars, signalled, serverSet, loopEnded, socketFile, oldSocket,
                 lockVars>>

\* self._server.server_close(); self._server = None
CloseServer(c) ==
  /\ Running /\ callerPc[c] = "await"
  /\ loopEnded
  /\ serverSet' = FALSE
  /\ Goto(c, "socket")
  /\ UNCHANGED <<vars, signalled, loopEnded, stopRequest, socketFile, oldSocket,
                 lockVars>>

\* if os.path.exists(self.socket_path)
SeeSocket(c) ==
  /\ Running /\ callerPc[c] = "socket"
  /\ Goto(c, IF socketFile THEN "unlinkSocket" ELSE "disconnect")
  /\ UNCHANGED <<vars, signalled, serverVars, lockVars>>

\* os.remove(self.socket_path): FileNotFoundError leaves shutdown(), and with it the
\* lock, when serve_forever() removed the file after the test.
RemoveSocket(c) ==
  /\ Running /\ callerPc[c] = "unlinkSocket"
  /\ socketFile' = FALSE
  /\ IF socketFile
     THEN /\ Goto(c, "disconnect")
          /\ UNCHANGED shutdownLock
     ELSE /\ Goto(c, "raised")
          /\ shutdownLock' = "nobody"
  /\ UNCHANGED <<vars, signalled, serverSet, loopEnded, stopRequest, oldSocket,
                 shutdownDone>>

CloseKam(c) ==
  /\ Running /\ callerPc[c] = "disconnect"
  /\ DisconnectKam
  /\ shutdownLock' = "nobody"
  /\ Goto(c, "returned")
  /\ UNCHANGED <<signalled, serverVars, shutdownDone>>

ShutdownStep(c) ==
  \/ Enter(c) \/ SetMonitorStop(c) \/ RequestStop(c) \/ CloseServer(c)
  \/ SeeSocket(c) \/ RemoveSocket(c) \/ CloseKam(c)

-----------------------------------------------------------------------------
\* The other threads run while the process does; the loop accepts connections.
DaemonStep ==
  /\ Running
  /\ \/ Hear
     \/ MonStep
     \/ \E h \in Handlers :
          /\ ClientStep(h) \/ HandlerStep(h)
          /\ hpc[h] = "none" => callerPc["server"] = "loop"
  /\ UNCHANGED lifeVars

LifeNext ==
  \/ Signal \/ MainWakes \/ MainExits
  \/ SeeOldSocket \/ RemoveOldSocket \/ BindSocket \/ AssignServer \/ LoopEnds
  \/ \E c \in Callers : ShutdownStep(c)
  \/ DaemonStep

\* The main and the server thread run, and a loop told to stop sees it within its
\* poll interval.  Nothing is assumed of the daemon's other threads or its clients.
LifeFairness ==
  /\ WF_allVars(MainWakes \/ MainExits \/ ShutdownStep("main"))
  /\ WF_allVars(SeeOldSocket \/ RemoveOldSocket \/ BindSocket \/ AssignServer
                  \/ ShutdownStep("server"))
  /\ WF_allVars(stopRequest /\ LoopEnds)

LifeSpec == LifeInit /\ [][LifeNext]_allVars
LifeFairSpec == LifeSpec /\ LifeFairness

-----------------------------------------------------------------------------
LifeTypeOK ==
  /\ signalled \in BOOLEAN
  /\ callerPc \in [Callers -> {"wait", "oldSocket", "unlinkOld", "bind", "assign", "loop",
                               "enter", "stop", "request", "await", "socket",
                               "unlinkSocket", "disconnect", "returned", "raised",
                               "exit", "crashed"}]
  /\ serverSet \in BOOLEAN
  /\ loopEnded \in BOOLEAN
  /\ stopRequest \in BOOLEAN
  /\ socketFile \in BOOLEAN
  /\ oldSocket \in BOOLEAN
  /\ shutdownLock \in Callers \union {"nobody"}
  /\ shutdownDone \in BOOLEAN

\* Labels inside the part of shutdown() that runs once.
Body == {"stop", "request", "await", "socket", "unlinkSocket", "disconnect"}

\* Two threads never use self._server at once: whoever is about to call
\* self._server.shutdown() or server_close() does not find None there.
ServerIsThereToClose ==
  \A c \in Callers : callerPc[c] \in {"request", "await"} => serverSet

\* The main thread's shutdown() raised FileNotFoundError on a socket file that the
\* server thread removed as a leftover.
MainRaised == callerPc["main"] \in {"raised", "crashed"}

\* shutdown() returns only when it is complete, also to the caller that found it
\* under way: a main() that ends by itself never leaves the port open.  Only when an
\* old socket file was there may the main thread's call raise before it closed the
\* port, and then the server thread's call returns all the same.
ReturnedMeansComplete ==
  /\ callerPc["main"] \in {"returned", "exit"} => down = "closed" /\ ~kamOpen
  /\ callerPc["server"] = "returned" => MainRaised \/ (down = "closed" /\ ~kamOpen)
  /\ MainRaised => oldSocket
  /\ callerPc["server"] = "raised" => oldSocket

\* Once a signal arrived the process ends, whatever its clients and its serial
\* transactions are doing.
SignalEndsProcess == signalled ~> ~Running

\* The daemon inside its process is the daemon of KamDaemon: in particular
\* shutdown()'s effects happen once, in order.
ImplementsDaemon == Spec

\* docs/daemon.md: "`Ctrl-C` (or `SIGTERM`) closes the KAM-XL connection [...] and
\* exits cleanly".  Not when shutdown() loses the race for an old socket file
\* (README, section 5), and no run checks it.
ExitsCleanly == ~Running => callerPc["main"] = "exit" /\ ~kamOpen

\* The same sentence: "removes the socket file".  It does not hold when the signal
\* comes before the server is there (README, section 5), and no run checks it.
NoSocketFileLeft == ~Running => ~socketFile
=============================================================================
