------------------------------- MODULE Server -------------------------------
(***************************************************************************)
(* The life of the server: the accept loops (ftp/server.go), the control   *)
(* connections they start, Server.Shutdown and Server.Close, and the loop  *)
(* of the program that waits for signals and for the end of the accept     *)
(* loops (Serve in s3ftpgateway.go).                                       *)
(*                                                                         *)
(* A step is one critical section of Server.mu, or what a goroutine does   *)
(* between two of them.  Of a control connection, which ServerConn models  *)
(* in detail, only what the server sees is left: it is idle, or busy with  *)
(* a command or a data transfer, or on its way out.                        *)
(***************************************************************************)
EXTENDS Naturals, FiniteSets

CONSTANTS
    Listeners,      \* the configured listeners
    Conns,          \* the control connections clients open
    NoConn,         \* no connection
    MaxSignals      \* bound: signals sent to the process

ASSUME ServerAssumption ==
    /\ NoConn \notin Conns
    /\ MaxSignals \in Nat

VARIABLES
    shuttingDown,   \* s.shuttingDown
    done,           \* s.doneChan is closed
    listeners,      \* s.listeners
    conns,          \* s.conns
    lpc, lconn, lerr, lret, lopen,  \* accept loops, see below
    cpc, cflag, csock,              \* control connections
    main,           \* the loop of the program
    exitCode,
    pending,        \* a signal waits in chsig
    signals,        \* signals sent so far
    stop,           \* the goroutine that shuts down: program counter
    cause           \* what started it: "none", "signal" or "error"

srvVars  == << shuttingDown, done, listeners, conns >>
lVars    == << lpc, lconn, lerr, lret, lopen >>
cVars    == << cpc, cflag, csock >>
mainVars == << main, exitCode, pending, signals >>
stopVars == << stop, cause >>
vars     == << srvVars, lVars, cVars, mainVars, stopVars >>

-----------------------------------------------------------------------------
LoopStates == {"start", "accept", "track", "failed", "untrack", "close", "result", "end"}
ConnStates == {"none", "accepted", "idle", "busy", "ending", "gone", "refused"}
StopStates == {"none", "flag", "first", "poll", "wait", "closeflag", "close", "end"}
MainStates == {"select", "closeflag", "close", "exited"}

TypeOK ==
    /\ shuttingDown \in BOOLEAN /\ done \in BOOLEAN
    /\ listeners \subseteq Listeners /\ conns \subseteq Conns
    /\ lpc \in [Listeners -> LoopStates]
    /\ lconn \in [Listeners -> Conns \union {NoConn}]   \* accepted, not tracked yet
    /\ lerr \in [Listeners -> {"none", "closed", "temporary", "broken"}]
    /\ lret \in [Listeners -> {"none", "ErrServerClosed", "error"}]
    /\ lopen \in [Listeners -> BOOLEAN]
    /\ cpc \in [Conns -> ConnStates]
    /\ cflag \in [Conns -> BOOLEAN]                     \* c.shuttingDown
    /\ csock \in [Conns -> {"none", "open", "closed"}]
    /\ main \in MainStates /\ exitCode \in {0, 1}
    /\ pending \in BOOLEAN /\ signals \in 0 .. MaxSignals
    /\ stop \in StopStates /\ cause \in {"none", "signal", "error"}

Init ==
    /\ shuttingDown = FALSE /\ done = FALSE
    /\ listeners = {} /\ conns = {}
    /\ lpc   = [l \in Listeners |-> "start"]
    /\ lconn = [l \in Listeners |-> NoConn]
    /\ lerr  = [l \in Listeners |-> "none"]
    /\ lret  = [l \in Listeners |-> "none"]
    /\ lopen = [l \in Listeners |-> TRUE]
    /\ cpc   = [c \in Conns |-> "none"]
    /\ cflag = [c \in Conns |-> FALSE]
    /\ csock = [c \in Conns |-> "none"]
    /\ main = "select" /\ exitCode = 0 /\ pending = FALSE /\ signals = 0
    /\ stop = "none" /\ cause = "none"

-----------------------------------------------------------------------------
(* Server.serve: the accept loop of the listener l *)

LoopGoto(l, from, to) == lpc[l] = from /\ lpc' = [lpc EXCEPT ![l] = to]

\* Faulty variant: the flag is not tested.
TrackListenerAlways(l) ==
    /\ LoopGoto(l, "start", "accept")
    /\ listeners' = listeners \union {l}
    /\ UNCHANGED << shuttingDown, done, conns, lconn, lerr, lret, lopen, cVars, mainVars, stopVars >>

TrackListener(l) ==
    /\ \/ /\ shuttingDown
          /\ LoopGoto(l, "start", "close")
          /\ lret' = [lret EXCEPT ![l] = "ErrServerClosed"]
          /\ UNCHANGED listeners
       \/ /\ ~shuttingDown
          /\ LoopGoto(l, "start", "accept")
          /\ listeners' = listeners \union {l}
          /\ UNCHANGED lret
    /\ UNCHANGED << shuttingDown, done, conns, lconn, lerr, lopen, cVars, mainVars, stopVars >>

\* A client connects: Accept returns, and newConn makes a ServerConn.
Accept(l, c) ==
    /\ LoopGoto(l, "accept", "track")
    /\ lopen[l]
    /\ cpc[c] = "none"
    /\ cpc' = [cpc EXCEPT ![c] = "accepted"]
    /\ csock' = [csock EXCEPT ![c] = "open"]
    /\ lconn' = [lconn EXCEPT ![l] = c]
    /\ UNCHANGED << srvVars, lerr, lret, lopen, cflag, mainVars, stopVars >>

\* Accept fails: the listener is closed, or the system refuses.
AcceptFails(l, e) ==
    /\ LoopGoto(l, "accept", "failed")
    /\ (e = "closed") = ~lopen[l]
    /\ lerr' = [lerr EXCEPT ![l] = e]
    /\ UNCHANGED << srvVars, lconn, lret, lopen, cVars, mainVars, stopVars >>

\* Faulty variant: c is served without being tracked.
TrackConnForgets(l) ==
    /\ ~shuttingDown
    /\ LoopGoto(l, "track", "accept")
    /\ cpc' = [cpc EXCEPT ![lconn[l]] = "idle"]
    /\ lconn' = [lconn EXCEPT ![l] = NoConn]
    /\ UNCHANGED << srvVars, lerr, lret, lopen, cflag, csock, mainVars, stopVars >>

\* trackConn(c, true), and the goroutine of c; or c.Close and return.
TrackConn(l) ==
    /\ \/ /\ shuttingDown
          /\ LoopGoto(l, "track", "untrack")
          /\ lret' = [lret EXCEPT ![l] = "ErrServerClosed"]
          /\ cpc' = [cpc EXCEPT ![lconn[l]] = "refused"]
          /\ cflag' = [cflag EXCEPT ![lconn[l]] = TRUE]
          /\ csock' = [csock EXCEPT ![lconn[l]] = "closed"]
          /\ UNCHANGED conns
       \/ /\ ~shuttingDown
          /\ LoopGoto(l, "track", "accept")
          /\ conns' = conns \union {lconn[l]}
          /\ cpc' = [cpc EXCEPT ![lconn[l]] = "idle"]
          /\ UNCHANGED << lret, cflag, csock >>
    /\ lconn' = [lconn EXCEPT ![l] = NoConn]
    /\ UNCHANGED << shuttingDown, done, listeners, lerr, lopen, mainVars, stopVars >>

\* Faulty variant: the error is returned whatever the reason.
AcceptErrorReturned(l) ==
    /\ LoopGoto(l, "failed", IF lerr[l] = "temporary" THEN "accept" ELSE "untrack")
    /\ lret' = [lret EXCEPT ![l] = IF lerr[l] = "temporary" THEN @ ELSE "error"]
    /\ UNCHANGED << srvVars, lconn, lerr, lopen, cVars, mainVars, stopVars >>

\* getDoneChan: was the server closed?  If not, sleep and go on, or give up.
AcceptError(l) ==
    /\ \/ /\ done
          /\ LoopGoto(l, "failed", "untrack")
          /\ lret' = [lret EXCEPT ![l] = "ErrServerClosed"]
       \/ /\ ~done /\ lerr[l] = "temporary"
          /\ LoopGoto(l, "failed", "accept")
          /\ UNCHANGED lret
       \/ /\ ~done /\ lerr[l] # "temporary"
          /\ LoopGoto(l, "failed", "untrack")
          /\ lret' = [lret EXCEPT ![l] = "error"]
    /\ UNCHANGED << srvVars, lconn, lerr, lopen, cVars, mainVars, stopVars >>

\* The deferred trackListener(l, false) and l.Close, and the result in cherr.
UntrackListener(l) ==
    /\ LoopGoto(l, "untrack", "close")
    /\ listeners' = listeners \ {l}
    /\ UNCHANGED << shuttingDown, done, conns, lconn, lerr, lret, lopen, cVars, mainVars, stopVars >>

CloseListener(l) ==
    /\ LoopGoto(l, "close", "result")
    /\ lopen' = [lopen EXCEPT ![l] = FALSE]
    /\ UNCHANGED << srvVars, lconn, lerr, lret, cVars, mainVars, stopVars >>

-----------------------------------------------------------------------------
(* The control connection c *)

ConnGoto(c, from, to) == cpc[c] = from /\ cpc' = [cpc EXCEPT ![c] = to]

\* The client sends a command.
Begin(c) ==
    /\ ConnGoto(c, "idle", "busy")
    /\ csock[c] = "open" /\ ~cflag[c]
    /\ UNCHANGED << srvVars, lVars, cflag, csock, mainVars, stopVars >>

\* Faulty variant: c waits for its next command, although it has to end.
RestAnyway(c) ==
    /\ ConnGoto(c, "busy", "idle")
    /\ csock[c] = "open"
    /\ UNCHANGED << srvVars, lVars, cflag, csock, mainVars, stopVars >>

\* The command and the data transfer are over.
Rest(c) ==
    /\ ConnGoto(c, "busy", "idle")
    /\ csock[c] = "open" /\ ~cflag[c]
    /\ UNCHANGED << srvVars, lVars, cflag, csock, mainVars, stopVars >>

\* The loop of c.serve ends, as the client left or said QUIT, or as the server
\* closes; the deferred c.Close.
End(c) ==
    /\ \E s \in {"idle", "busy"} : ConnGoto(c, s, "ending")
    /\ cflag' = [cflag EXCEPT ![c] = TRUE]
    /\ csock' = [csock EXCEPT ![c] = "closed"]
    /\ UNCHANGED << srvVars, lVars, mainVars, stopVars >>

\* The deferred trackConn(c, false).
UntrackConn(c) ==
    /\ ConnGoto(c, "ending", "gone")
    /\ conns' = conns \ {c}
    /\ UNCHANGED << shuttingDown, done, listeners, lVars, cflag, csock, mainVars, stopVars >>

-----------------------------------------------------------------------------
(* What Server.Shutdown and Server.Close do in their critical sections *)

\* Faulty variant: the listeners are forgotten, but not closed.
CloseNoListener ==
    /\ done' = TRUE
    /\ UNCHANGED lopen
    /\ listeners' = {}

\* closeDoneChanLocked and closeListenersLocked
CloseListeners ==
    /\ done' = TRUE
    /\ lopen' = [l \in Listeners |-> lopen[l] /\ l \notin listeners]
    /\ listeners' = {}

\* Faulty variant: busy connections are closed as well.
shutdownConnsHard ==
    /\ cflag' = [c \in Conns |-> cflag[c] \/ c \in conns]
    /\ csock' = [c \in Conns |-> IF c \in conns THEN "closed" ELSE csock[c]]

\* Faulty variant: idle connections are only told to end.
shutdownConnsSoft ==
    /\ cflag' = [c \in Conns |-> cflag[c] \/ c \in conns]
    /\ UNCHANGED csock

\* shutdownConnsLocked: c.shutdown of each connection, which closes idle ones
shutdownConns ==
    /\ cflag' = [c \in Conns |-> cflag[c] \/ c \in conns]
    /\ csock' = [c \in Conns |-> IF c \in conns /\ cpc[c] # "busy" THEN "closed" ELSE csock[c]]

\* closeConnsLocked: c.Close of each connection
closeConns ==
    /\ cflag' = [c \in Conns |-> cflag[c] \/ c \in conns]
    /\ csock' = [c \in Conns |-> IF c \in conns THEN "closed" ELSE csock[c]]
    /\ conns' = {}

-----------------------------------------------------------------------------
(* The goroutine that the loop of the program starts: Server.Shutdown, and  *)
(* after ten seconds Server.Close if a listener failed                      *)

StopGoto(from, to) == stop = from /\ stop' = to

ShutdownFlag ==
    /\ StopGoto("flag", "first")
    /\ shuttingDown' = TRUE
    /\ UNCHANGED << done, listeners, conns, lVars, cVars, mainVars, cause >>

ShutdownFirst ==
    /\ StopGoto("first", "poll")
    /\ CloseListeners
    /\ shutdownConns
    /\ UNCHANGED << shuttingDown, conns, lpc, lconn, lerr, lret, cpc, mainVars, cause >>

\* Faulty variant: the connections are counted before they have ended.
ShutdownPollOnce ==
    /\ stop = "poll"
    /\ stop' = "end"
    /\ shutdownConns
    /\ UNCHANGED << srvVars, lVars, cpc, mainVars, cause >>

ShutdownPoll ==
    /\ stop = "poll"
    /\ stop' = IF conns = {} THEN "end" ELSE "wait"
    /\ shutdownConns
    /\ UNCHANGED << srvVars, lVars, cpc, mainVars, cause >>

ShutdownTick ==
    /\ StopGoto("wait", "poll")
    /\ UNCHANGED << srvVars, lVars, cVars, mainVars, cause >>

\* Faulty variant: no time limit.
ShutdownTimeoutNever ==
    /\ StopGoto("wait", "closeflag")
    /\ FALSE
    /\ UNCHANGED << srvVars, lVars, cVars, mainVars, cause >>

ShutdownTimeout ==
    /\ StopGoto("wait", "closeflag")
    /\ cause = "error"
    /\ UNCHANGED << srvVars, lVars, cVars, mainVars, cause >>

StopCloseFlag ==
    /\ StopGoto("closeflag", "close")
    /\ shuttingDown' = TRUE
    /\ UNCHANGED << done, listeners, conns, lVars, cVars, mainVars, cause >>

StopClose ==
    /\ StopGoto("close", "end")
    /\ CloseListeners
    /\ closeConns
    /\ UNCHANGED << shuttingDown, lpc, lconn, lerr, lret, cpc, mainVars, cause >>

-----------------------------------------------------------------------------
(* Serve of s3ftpgateway.go: the loop of the program *)

\* chsig holds one signal; others are dropped while it is full.
Signal ==
    /\ signals < MaxSignals
    /\ signals' = signals + 1
    /\ pending' = TRUE
    /\ UNCHANGED << srvVars, lVars, cVars, main, exitCode, stopVars >>

\* Faulty variant: the exit code counts the listeners that failed.
TakeResultCounts(l) ==
    /\ main = "select"
    /\ LoopGoto(l, "result", "end")
    /\ exitCode' = IF lret[l] = "error" THEN exitCode + 1 ELSE exitCode
    /\ IF lret[l] = "error" /\ cause = "none"
         THEN stop' = "flag" /\ cause' = "error"
         ELSE UNCHANGED stopVars
    /\ UNCHANGED << srvVars, lconn, lerr, lret, lopen, cVars, main, pending, signals >>

TakeResult(l) ==
    /\ main = "select"
    /\ LoopGoto(l, "result", "end")
    /\ exitCode' = IF lret[l] = "error" THEN 1 ELSE exitCode
    /\ IF lret[l] = "error" /\ cause = "none"
         THEN stop' = "flag" /\ cause' = "error"
         ELSE UNCHANGED stopVars
    /\ UNCHANGED << srvVars, lconn, lerr, lret, lopen, cVars, main, pending, signals >>

\* The first signal starts Shutdown, unless it has started; a later one closes.
TakeSignal ==
    /\ main = "select" /\ pending
    /\ pending' = FALSE
    /\ IF cause = "none"
         THEN stop' = "flag" /\ cause' = "signal" /\ main' = main
         ELSE main' = "closeflag" /\ UNCHANGED stopVars
    /\ UNCHANGED << srvVars, lVars, cVars, exitCode, signals >>

MainCloseFlag ==
    /\ main = "closeflag" /\ main' = "close"
    /\ shuttingDown' = TRUE
    /\ UNCHANGED << done, listeners, conns, lVars, cVars, exitCode, pending, signals, stopVars >>

MainClose ==
    /\ main = "close" /\ main' = "select"
    /\ CloseListeners
    /\ closeConns
    /\ UNCHANGED << shuttingDown, lpc, lconn, lerr, lret, cpc, exitCode, pending, signals, stopVars >>

\* chshutdown is closed: os.Exit.
Exit ==
    /\ main = "select" /\ stop = "end"
    /\ main' = "exited"
    /\ UNCHANGED << srvVars, lVars, cVars, exitCode, pending, signals, stopVars >>

-----------------------------------------------------------------------------
Loop(l) == \/ TrackListener(l) \/ TrackConn(l) \/ AcceptError(l)
           \/ UntrackListener(l) \/ CloseListener(l)
           \/ \E c \in Conns : Accept(l, c)
           \/ \E e \in {"closed", "temporary", "broken"} : AcceptFails(l, e)

Conn(c) == Begin(c) \/ Rest(c) \/ End(c) \/ UntrackConn(c)

Stop == \/ ShutdownFlag \/ ShutdownFirst \/ ShutdownPoll \/ ShutdownTick
        \/ ShutdownTimeout \/ StopCloseFlag \/ StopClose

Main == \/ TakeSignal \/ MainCloseFlag \/ MainClose \/ Exit
        \/ \E l \in Listeners : TakeResult(l)

\* os.Exit ends every goroutine.
Running == main # "exited"

Next == \/ Running /\ \/ \E l \in Listeners : Loop(l)
                      \/ \E c \in Conns : Conn(c)
                      \/ Stop \/ Main \/ Signal
        \/ ~Running /\ UNCHANGED vars

Spec == Init /\ [][Next]_vars

\* What the goroutines do by themselves: an accept loop whose listener is open
\* waits for clients, a connection that is open waits for its client, and the
\* ten seconds of Shutdown end however often it polls.
LoopAlone(l) ==
    \/ TrackListener(l) \/ TrackConn(l) \/ AcceptError(l)
    \/ UntrackListener(l) \/ CloseListener(l) \/ AcceptFails(l, "closed")
ConnAlone(c) == (csock[c] = "closed" /\ End(c)) \/ UntrackConn(c)

Fairness ==
    /\ \A l \in Listeners : WF_vars(Running /\ LoopAlone(l))
    /\ \A c \in Conns : WF_vars(Running /\ ConnAlone(c))
    /\ WF_vars(Running /\ Stop) /\ SF_vars(Running /\ ShutdownTimeout)
    /\ WF_vars(Running /\ Main)

FairSpec == Spec /\ Fairness

-----------------------------------------------------------------------------
(* Properties *)

\* Whatever runs on behalf of a client is in s.conns, where Shutdown waits for
\* it and Close finds it, or its connection is closed already: accepting,
\* tracking, shutting down and leaving may interleave in any way.
Tracked ==
    \A c \in Conns :
        cpc[c] \in {"idle", "busy", "ending"} => c \in conns \/ csock[c] = "closed"

\* Once the goroutine that shuts down has returned, no client is served any
\* more: what an accept loop still holds will be refused.
NobodyServed ==
    stop = "end" => \A c \in Conns : csock[c] = "open" => cpc[c] = "accepted"

\* "When Shutdown is called, Serve, ListenAndServe, and ListenAndServeTLS
\* immediately return ErrServerClosed" (server.go:383): the error that closing
\* a listener causes is never taken for a failure.
ReturnsErrServerClosed ==
    \A l \in Listeners : lret[l] = "error" => lerr[l] = "broken"

\* The program ends with 0 only if it was a signal that ended it.
ExitCodeTells == main = "exited" /\ exitCode = 0 => cause = "signal"

\* No client is accepted once the listeners were closed, not even by an accept
\* loop that had not started yet.
NoLateAccept ==
    [][\A c \in Conns : cpc[c] = "none" /\ cpc'[c] = "accepted" => ~done]_vars

\* The server itself closes the connection of a busy client only after a
\* second signal or the failure of a listener.
BusySpared ==
    [][\A c \in Conns :
          /\ cpc[c] = "busy" /\ csock[c] = "open"
          /\ cpc'[c] = "busy" /\ csock'[c] = "closed"
          => signals >= 2 \/ exitCode = 1]_vars

\* The server comes to its end as Draining promises.
Abstract == INSTANCE Draining WITH
    phase  <- IF stop = "end" THEN "over" ELSE IF shuttingDown THEN "draining" ELSE "up",
    served <- conns

ImplementsDraining == Abstract!Spec

\* Each connection, from when it is accepted, does what Connection allows and no
\* more, whatever TrackConn, Shutdown and Close do to it (server.go:325, :345, :395).
PhaseOf(c) ==
    IF cpc[c] = "gone" THEN "gone"
    ELSE IF csock[c] = "closed" THEN "ending"
    ELSE IF cpc[c] = "busy" THEN "busy"
    ELSE "idle"

Client(c) == INSTANCE Connection WITH phase <- PhaseOf(c), told <- cflag[c]

ImplementsConnections ==
    [][\A c \in Conns : [Client(c)!Next]_<< PhaseOf(c), cflag[c] >>]_vars

\* A second signal and the failure of a listener end the program, whatever the
\* clients do.
ForcedExit == cause = "error" \/ main = "closeflag" ~> main = "exited"

\* After one signal the program ends when no client is busy any more.
GracefulExit ==
    cause # "none" /\ <>[](\A c \in Conns : cpc[c] = "busy" => csock[c] = "closed")
        ~> main = "exited"

\* Each accept loop returns once the server was told to stop, unless the
\* program ends before.
LoopsReturn ==
    done ~> main = "exited" \/ \A l \in Listeners : lpc[l] \in {"result", "end"}
=============================================================================
