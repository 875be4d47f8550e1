---------------------------- MODULE ServerProofs ----------------------------
(***************************************************************************)
(* Proofs about Server for any number of listeners, of clients and of      *)
(* signals.                                                                *)
(***************************************************************************)
EXTENDS Server, TLAPS

-----------------------------------------------------------------------------
(* The inductive invariant *)

\* The accept loops: each connection that waits to be tracked is held by one
\* loop; an open listener of a loop that runs is tracked, so that none is open
\* once done is closed, and one that is closed before its loop ends was closed
\* by Shutdown or Close.
Held(l) == lpc[l] = "track" => lconn[l] \in Conns /\ cpc[lconn[l]] = "accepted"

ListenerInv(l) ==
    /\ Held(l)
    /\ lpc[l] \in {"accept", "track", "failed", "untrack"} /\ lopen[l] => l \in listeners
    /\ lpc[l] \in {"start", "accept", "track", "failed", "untrack"} /\ ~lopen[l] => done
    /\ lpc[l] = "accept" => lret[l] = "none" /\ (done => ~lopen[l])
    /\ lpc[l] = "failed" => lret[l] = "none" /\ lerr[l] # "none"
    /\ lpc[l] \in {"start", "track"} => lret[l] = "none"
    /\ lerr[l] = "closed" => done
    /\ lret[l] = "error" => lerr[l] = "broken"

LoopInv ==
    /\ \A l \in Listeners : ListenerInv(l)
    /\ \A l, m \in Listeners :
          lpc[l] = "track" /\ lpc[m] = "track" /\ lconn[l] = lconn[m] => l = m

\* The connections: whoever is served is tracked or closed, and whoever is closed
\* was told to end.
ConnInv ==
    \A c \in Conns :
        /\ cpc[c] \in {"idle", "busy", "ending"} => c \in conns \/ csock[c] = "closed"
        /\ c \in conns => cpc[c] \in {"idle", "busy", "ending"}
        /\ cpc[c] = "none" => csock[c] = "none"
        /\ cpc[c] \in {"ending", "gone", "refused"} => csock[c] = "closed"
        /\ csock[c] = "closed" => cflag[c]

\* The end: its cause, what was set by then, and what it takes to use force.
StopInv ==
    /\ done => shuttingDown
    /\ stop \notin {"none", "flag"} => shuttingDown
    /\ main = "close" => shuttingDown
    /\ stop = "end" => conns = {}
    /\ stop = "none" => cause = "none"
    /\ main = "exited" => stop = "end"

ForceInv ==
    /\ cause = "none" => stop = "none"
    /\ cause = "error" => exitCode = 1
    /\ pending => signals >= 1
    /\ cause = "signal" => signals >= 1 /\ (pending => signals >= 2)
    /\ main \in {"closeflag", "close"} => signals >= 2 \/ exitCode = 1
    /\ stop \in {"closeflag", "close"} => exitCode = 1

IInv == TypeOK /\ LoopInv /\ ConnInv /\ StopInv /\ ForceInv

-----------------------------------------------------------------------------
(* Each step preserves each part of the invariant *)

\* Each assignment keeps its variable's type; a connection that is tracked is
\* one that its accept loop holds (serve, server.go:162-207).
LEMMA TypeStep ==
    ASSUME TypeOK, LoopInv, [Next]_vars
    PROVE  TypeOK'
<1> USE ServerAssumption DEF TypeOK, LoopStates, ConnStates, StopStates,
   MainStates, vars, srvVars, lVars, cVars, mainVars, stopVars
<1>1. ASSUME NEW l \in Listeners, Loop(l) PROVE TypeOK'
  <2>1. CASE TrackListener(l)
    BY <2>1 DEF TrackListener, LoopGoto
  <2>2. CASE TrackConn(l)
    <3>1. lconn[l] \in Conns
      BY <2>2 DEF TrackConn, LoopGoto, LoopInv, ListenerInv, Held
    <3>2. /\ conns' \subseteq Conns
          /\ lpc' \in [Listeners -> LoopStates]
          /\ lret' \in [Listeners -> {"none", "ErrServerClosed", "error"}]
          /\ lconn' \in [Listeners -> Conns \union {NoConn}]
      BY <2>2, <3>1 DEF TrackConn, LoopGoto
    <3>3. /\ cpc' \in [Conns -> ConnStates]
          /\ csock' \in [Conns -> {"none", "open", "closed"}]
      BY <2>2, <3>1 DEF TrackConn
    <3>4. cflag' \in [Conns -> BOOLEAN]
      BY <2>2, <3>1 DEF TrackConn
    <3> QED BY <2>2, <3>2, <3>3, <3>4 DEF TrackConn
  <2>3. CASE AcceptError(l)
    BY <2>3 DEF AcceptError, LoopGoto
  <2>4. CASE UntrackListener(l)
    BY <2>4 DEF UntrackListener, LoopGoto
  <2>5. CASE CloseListener(l)
    BY <2>5 DEF CloseListener, LoopGoto
  <2>6. ASSUME NEW c \in Conns, Accept(l, c) PROVE TypeOK'
    BY <2>6 DEF Accept, LoopGoto
  <2>7. ASSUME NEW e \in {"closed", "temporary", "broken"}, AcceptFails(l, e)
         PROVE  TypeOK'
    BY <2>7 DEF AcceptFails, LoopGoto
  <2> QED BY <1>1, <2>1, <2>2, <2>3, <2>4, <2>5, <2>6, <2>7 DEF Loop
<1>2. ASSUME NEW c \in Conns, Conn(c) PROVE TypeOK'
  <2>1. CASE Begin(c)
    BY <2>1 DEF Begin, ConnGoto
  <2>2. CASE Rest(c)
    BY <2>2 DEF Rest, ConnGoto
  <2>3. CASE End(c)
    BY <2>3 DEF End, ConnGoto
  <2>4. CASE UntrackConn(c)
    BY <2>4 DEF UntrackConn, ConnGoto
  <2> QED BY <1>2, <2>1, <2>2, <2>3, <2>4 DEF Conn
<1>3. CASE Stop
  <2>1. CASE ShutdownFlag
    BY <2>1 DEF ShutdownFlag, StopGoto
  <2>2. CASE ShutdownFirst
    BY <2>2 DEF ShutdownFirst, StopGoto, CloseListeners, shutdownConns
  <2>3. CASE ShutdownPoll
    BY <2>3 DEF ShutdownPoll, shutdownConns
  <2>4. CASE ShutdownTick
    BY <2>4 DEF ShutdownTick, StopGoto
  <2>5. CASE ShutdownTimeout
    BY <2>5 DEF ShutdownTimeout, StopGoto
  <2>6. CASE StopCloseFlag
    BY <2>6 DEF StopCloseFlag, StopGoto
  <2>7. CASE StopClose
    BY <2>7 DEF StopClose, StopGoto, CloseListeners, closeConns
  <2> QED BY <1>3, <2>1, <2>2, <2>3, <2>4, <2>5, <2>6, <2>7 DEF Stop
<1>4. CASE Main
  <2>1. CASE TakeSignal
    BY <2>1 DEF TakeSignal
  <2>2. CASE MainCloseFlag
    BY <2>2 DEF MainCloseFlag
  <2>3. CASE MainClose
    BY <2>3 DEF MainClose, CloseListeners, closeConns
  <2>4. CASE Exit
    BY <2>4 DEF Exit
  <2>5. ASSUME NEW l \in Listeners, TakeResult(l) PROVE TypeOK'
    BY <2>5 DEF TakeResult, LoopGoto
  <2> QED BY <1>4, <2>1, <2>2, <2>3, <2>4, <2>5 DEF Main
<1>5. CASE Signal
  BY <1>5 DEF Signal
<1>6. CASE UNCHANGED vars
  BY <1>6
<1> QED BY <1>1, <1>2, <1>3, <1>4, <1>5, <1>6 DEF Next

\* The accept loops against Shutdown and Close (server.go:162-207, 297-325,
\* 366-412): closing s.doneChan and the tracked listeners is one section of mu.
LEMMA LoopStep ==
    ASSUME TypeOK, LoopInv, ConnInv, StopInv, [Next]_vars
    PROVE  LoopInv'
<1> USE ServerAssumption DEF LoopInv, ListenerInv, Held, vars, srvVars, lVars,
   cVars, mainVars, stopVars
<1>1. ASSUME NEW l \in Listeners, Loop(l) PROVE LoopInv'
  <2>1. CASE TrackListener(l)
    BY <2>1 DEF TrackListener, LoopGoto, TypeOK, StopInv
  <2>2. CASE TrackConn(l)
    <3>1. /\ lconn[l] \in Conns /\ lpc[l] = "track"
          /\ lpc' \in [Listeners -> LoopStates]
          /\ lpc'[l] # "track"
          /\ \A m \in Listeners \ {l} :
                lpc'[m] = lpc[m] /\ lconn'[m] = lconn[m] /\ lret'[m] = lret[m]
      BY <2>2 DEF TrackConn, LoopGoto, TypeOK, LoopStates
    <3>2. UNCHANGED << listeners, done, lerr, lopen >>
      BY <2>2 DEF TrackConn
    <3>3. ASSUME NEW m \in Listeners \ {l} PROVE ListenerInv(m)'
      <4>1. lpc[m] = "track" => lconn[m] # lconn[l]
        BY <3>1, <3>3
      <4>2. lpc[m] = "track" => cpc'[lconn[m]] = cpc[lconn[m]]
        BY <2>2, <3>3, <4>1 DEF TrackConn, TypeOK
      <4> QED BY <3>1, <3>2, <3>3, <4>2
    <3>4. ListenerInv(l)'
      BY <2>2, <3>1, <3>2 DEF TrackConn, LoopGoto, TypeOK, StopInv
    <3>5. ASSUME NEW m \in Listeners, NEW n \in Listeners,
                 lpc'[m] = "track", lpc'[n] = "track", lconn'[m] = lconn'[n]
          PROVE  m = n
      BY <3>1, <3>5
    <3> QED BY <3>3, <3>4, <3>5
  <2>3. CASE AcceptError(l)
    BY <2>3 DEF AcceptError, LoopGoto, TypeOK
  <2>4. CASE UntrackListener(l)
    BY <2>4 DEF UntrackListener, LoopGoto, TypeOK
  <2>5. CASE CloseListener(l)
    BY <2>5 DEF CloseListener, LoopGoto, TypeOK
  <2>6. ASSUME NEW c \in Conns, Accept(l, c) PROVE LoopInv'
    BY <2>6 DEF Accept, LoopGoto, TypeOK
  <2>7. ASSUME NEW e \in {"closed", "temporary", "broken"}, AcceptFails(l, e)
         PROVE  LoopInv'
    BY <2>7 DEF AcceptFails, LoopGoto, TypeOK
  <2> QED BY <1>1, <2>1, <2>2, <2>3, <2>4, <2>5, <2>6, <2>7 DEF Loop
<1>2. ASSUME NEW c \in Conns, Conn(c) PROVE LoopInv'
  <2>1. CASE Begin(c)
    BY <2>1 DEF Begin, ConnGoto
  <2>2. CASE Rest(c)
    BY <2>2 DEF Rest, ConnGoto
  <2>3. CASE End(c)
    BY <2>3 DEF End, ConnGoto
  <2>4. CASE UntrackConn(c)
    BY <2>4 DEF UntrackConn, ConnGoto
  <2> QED BY <1>2, <2>1, <2>2, <2>3, <2>4 DEF Conn
<1>3. CASE Stop
  <2>1. CASE ShutdownFlag
    BY <2>1 DEF ShutdownFlag, StopGoto
  <2>2. CASE ShutdownFirst
    BY <2>2 DEF ShutdownFirst, StopGoto, CloseListeners, shutdownConns, TypeOK
  <2>3. CASE ShutdownPoll
    BY <2>3 DEF ShutdownPoll, shutdownConns
  <2>4. CASE ShutdownTick
    BY <2>4 DEF ShutdownTick, StopGoto
  <2>5. CASE ShutdownTimeout
    BY <2>5 DEF ShutdownTimeout, StopGoto
  <2>6. CASE StopCloseFlag
    BY <2>6 DEF StopCloseFlag, StopGoto
  <2>7. CASE StopClose
    BY <2>7 DEF StopClose, StopGoto, CloseListeners, closeConns, TypeOK
  <2> QED BY <1>3, <2>1, <2>2, <2>3, <2>4, <2>5, <2>6, <2>7 DEF Stop
<1>4. CASE Main
  <2>1. CASE TakeSignal
    BY <2>1 DEF TakeSignal
  <2>2. CASE MainCloseFlag
    BY <2>2 DEF MainCloseFlag
  <2>3. CASE MainClose
    BY <2>3 DEF MainClose, CloseListeners, closeConns, TypeOK
  <2>4. CASE Exit
    BY <2>4 DEF Exit
  <2>5. ASSUME NEW l \in Listeners, TakeResult(l) PROVE LoopInv'
    BY <2>5 DEF TakeResult, LoopGoto, TypeOK
  <2> QED BY <1>4, <2>1, <2>2, <2>3, <2>4, <2>5 DEF Main
<1>5. CASE Signal
  BY <1>5 DEF Signal
<1>6. CASE UNCHANGED vars
  BY <1>6
<1> QED BY <1>1, <1>2, <1>3, <1>4, <1>5, <1>6 DEF Next

\* Tracking, serving and leaving (server.go:182-207, 327-364).
LEMMA ConnStep ==
    ASSUME TypeOK, LoopInv, ConnInv, [Next]_vars
    PROVE  ConnInv'
<1> USE ServerAssumption DEF ConnInv, vars, srvVars, lVars, cVars, mainVars,
   stopVars
<1>1. ASSUME NEW l \in Listeners, Loop(l) PROVE ConnInv'
  <2>1. CASE TrackListener(l)
    BY <2>1 DEF TrackListener, LoopGoto
  <2>2. CASE TrackConn(l)
    BY <2>2 DEF TrackConn, LoopGoto, TypeOK, LoopInv, ListenerInv, Held
  <2>3. CASE AcceptError(l)
    BY <2>3 DEF AcceptError, LoopGoto
  <2>4. CASE UntrackListener(l)
    BY <2>4 DEF UntrackListener, LoopGoto
  <2>5. CASE CloseListener(l)
    BY <2>5 DEF CloseListener, LoopGoto
  <2>6. ASSUME NEW c \in Conns, Accept(l, c) PROVE ConnInv'
    BY <2>6 DEF Accept, LoopGoto, TypeOK
  <2>7. ASSUME NEW e \in {"closed", "temporary", "broken"}, AcceptFails(l, e)
         PROVE  ConnInv'
    BY <2>7 DEF AcceptFails, LoopGoto
  <2> QED BY <1>1, <2>1, <2>2, <2>3, <2>4, <2>5, <2>6, <2>7 DEF Loop
<1>2. ASSUME NEW c \in Conns, Conn(c) PROVE ConnInv'
  <2>1. CASE Begin(c)
    BY <2>1 DEF Begin, ConnGoto, TypeOK
  <2>2. CASE Rest(c)
    BY <2>2 DEF Rest, ConnGoto, TypeOK
  <2>3. CASE End(c)
    BY <2>3 DEF End, ConnGoto, TypeOK
  <2>4. CASE UntrackConn(c)
    BY <2>4 DEF UntrackConn, ConnGoto, TypeOK
  <2> QED BY <1>2, <2>1, <2>2, <2>3, <2>4 DEF Conn
<1>3. CASE Stop
  <2>1. CASE ShutdownFlag
    BY <2>1 DEF ShutdownFlag, StopGoto
  <2>2. CASE ShutdownFirst
    BY <2>2 DEF ShutdownFirst, StopGoto, CloseListeners, shutdownConns, TypeOK
  <2>3. CASE ShutdownPoll
    BY <2>3 DEF ShutdownPoll, shutdownConns, TypeOK
  <2>4. CASE ShutdownTick
    BY <2>4 DEF ShutdownTick, StopGoto
  <2>5. CASE ShutdownTimeout
    BY <2>5 DEF ShutdownTimeout, StopGoto
  <2>6. CASE StopCloseFlag
    BY <2>6 DEF StopCloseFlag, StopGoto
  <2>7. CASE StopClose
    BY <2>7 DEF StopClose, StopGoto, CloseListeners, closeConns, TypeOK
  <2> QED BY <1>3, <2>1, <2>2, <2>3, <2>4, <2>5, <2>6, <2>7 DEF Stop
<1>4. CASE Main
  <2>1. CASE TakeSignal
    BY <2>1 DEF TakeSignal
  <2>2. CASE MainCloseFlag
    BY <2>2 DEF MainCloseFlag
  <2>3. CASE MainClose
    BY <2>3 DEF MainClose, CloseListeners, closeConns, TypeOK
  <2>4. CASE Exit
    BY <2>4 DEF Exit
  <2>5. ASSUME NEW l \in Listeners, TakeResult(l) PROVE ConnInv'
    BY <2>5 DEF TakeResult, LoopGoto
  <2> QED BY <1>4, <2>1, <2>2, <2>3, <2>4, <2>5 DEF Main
<1>5. CASE Signal
  BY <1>5 DEF Signal
<1>6. CASE UNCHANGED vars
  BY <1>6
<1> QED BY <1>1, <1>2, <1>3, <1>4, <1>5, <1>6 DEF Next

\* The order of flag, doneChan and the wait for s.conns (server.go:366-412).
LEMMA StopStep ==
    ASSUME TypeOK, StopInv, [Next]_vars
    PROVE  StopInv'
<1> USE ServerAssumption DEF StopInv, vars, srvVars, lVars, cVars, mainVars,
   stopVars
<1>1. ASSUME NEW l \in Listeners, Loop(l) PROVE StopInv'
  <2>1. CASE TrackListener(l)
    BY <2>1 DEF TrackListener, LoopGoto
  <2>2. CASE TrackConn(l)
    BY <2>2 DEF TrackConn, LoopGoto
  <2>3. CASE AcceptError(l)
    BY <2>3 DEF AcceptError, LoopGoto
  <2>4. CASE UntrackListener(l)
    BY <2>4 DEF UntrackListener, LoopGoto
  <2>5. CASE CloseListener(l)
    BY <2>5 DEF CloseListener, LoopGoto
  <2>6. ASSUME NEW c \in Conns, Accept(l, c) PROVE StopInv'
    BY <2>6 DEF Accept, LoopGoto
  <2>7. ASSUME NEW e \in {"closed", "temporary", "broken"}, AcceptFails(l, e)
         PROVE  StopInv'
    BY <2>7 DEF AcceptFails, LoopGoto
  <2> QED BY <1>1, <2>1, <2>2, <2>3, <2>4, <2>5, <2>6, <2>7 DEF Loop
<1>2. ASSUME NEW c \in Conns, Conn(c) PROVE StopInv'
  <2>1. CASE Begin(c)
    BY <2>1 DEF Begin, ConnGoto
  <2>2. CASE Rest(c)
    BY <2>2 DEF Rest, ConnGoto
  <2>3. CASE End(c)
    BY <2>3 DEF End, ConnGoto
  <2>4. CASE UntrackConn(c)
    BY <2>4 DEF UntrackConn, ConnGoto
  <2> QED BY <1>2, <2>1, <2>2, <2>3, <2>4 DEF Conn
<1>3. CASE Stop
  <2>1. CASE ShutdownFlag
    BY <2>1 DEF ShutdownFlag, StopGoto
  <2>2. CASE ShutdownFirst
    BY <2>2 DEF ShutdownFirst, StopGoto, CloseListeners, shutdownConns
  <2>3. CASE ShutdownPoll
    BY <2>3 DEF ShutdownPoll, shutdownConns
  <2>4. CASE ShutdownTick
    BY <2>4 DEF ShutdownTick, StopGoto
  <2>5. CASE ShutdownTimeout
    BY <2>5 DEF ShutdownTimeout, StopGoto
  <2>6. CASE StopCloseFlag
    BY <2>6 DEF StopCloseFlag, StopGoto
  <2>7. CASE StopClose
    BY <2>7 DEF StopClose, StopGoto, CloseListeners, closeConns
  <2> QED BY <1>3, <2>1, <2>2, <2>3, <2>4, <2>5, <2>6, <2>7 DEF Stop
<1>4. CASE Main
  <2>1. CASE TakeSignal
    BY <2>1 DEF TakeSignal
  <2>2. CASE MainCloseFlag
    BY <2>2 DEF MainCloseFlag
  <2>3. CASE MainClose
    BY <2>3 DEF MainClose, CloseListeners, closeConns
  <2>4. CASE Exit
    BY <2>4 DEF Exit
  <2>5. ASSUME NEW l \in Listeners, TakeResult(l) PROVE StopInv'
    BY <2>5 DEF TakeResult, LoopGoto
  <2> QED BY <1>4, <2>1, <2>2, <2>3, <2>4, <2>5 DEF Main
<1>5. CASE Signal
  BY <1>5 DEF Signal
<1>6. CASE UNCHANGED vars
  BY <1>6
<1> QED BY <1>1, <1>2, <1>3, <1>4, <1>5, <1>6 DEF Next

\* What started the goroutine that shuts down, and what allows to close
\* connections (s3ftpgateway.go:99-146).
LEMMA ForceStep ==
    ASSUME TypeOK, ForceInv, [Next]_vars
    PROVE  ForceInv'
<1> USE ServerAssumption DEF TypeOK, ForceInv, vars, srvVars, lVars, cVars,
   mainVars, stopVars
<1>1. ASSUME NEW l \in Listeners, Loop(l) PROVE ForceInv'
  <2>1. CASE TrackListener(l)
    BY <2>1 DEF TrackListener, LoopGoto
  <2>2. CASE TrackConn(l)
    BY <2>2 DEF TrackConn, LoopGoto
  <2>3. CASE AcceptError(l)
    BY <2>3 DEF AcceptError, LoopGoto
  <2>4. CASE UntrackListener(l)
    BY <2>4 DEF UntrackListener, LoopGoto
  <2>5. CASE CloseListener(l)
    BY <2>5 DEF CloseListener, LoopGoto
  <2>6. ASSUME NEW c \in Conns, Accept(l, c) PROVE ForceInv'
    BY <2>6 DEF Accept, LoopGoto
  <2>7. ASSUME NEW e \in {"closed", "temporary", "broken"}, AcceptFails(l, e)
         PROVE  ForceInv'
    BY <2>7 DEF AcceptFails, LoopGoto
  <2> QED BY <1>1, <2>1, <2>2, <2>3, <2>4, <2>5, <2>6, <2>7 DEF Loop
<1>2. ASSUME NEW c \in Conns, Conn(c) PROVE ForceInv'
  <2>1. CASE Begin(c)
    BY <2>1 DEF Begin, ConnGoto
  <2>2. CASE Rest(c)
    BY <2>2 DEF Rest, ConnGoto
  <2>3. CASE End(c)
    BY <2>3 DEF End, ConnGoto
  <2>4. CASE UntrackConn(c)
    BY <2>4 DEF UntrackConn, ConnGoto
  <2> QED BY <1>2, <2>1, <2>2, <2>3, <2>4 DEF Conn
<1>3. CASE Stop
  <2>1. CASE ShutdownFlag
    BY <2>1 DEF ShutdownFlag, StopGoto
  <2>2. CASE ShutdownFirst
    BY <2>2 DEF ShutdownFirst, StopGoto, CloseListeners, shutdownConns
  <2>3. CASE ShutdownPoll
    BY <2>3 DEF ShutdownPoll, shutdownConns
  <2>4. CASE ShutdownTick
    BY <2>4 DEF ShutdownTick, StopGoto
  <2>5. CASE ShutdownTimeout
    BY <2>5 DEF ShutdownTimeout, StopGoto
  <2>6. CASE StopCloseFlag
    BY <2>6 DEF StopCloseFlag, StopGoto
  <2>7. CASE StopClose
    BY <2>7 DEF StopClose, StopGoto, CloseListeners, closeConns
  <2> QED BY <1>3, <2>1, <2>2, <2>3, <2>4, <2>5, <2>6, <2>7 DEF Stop
<1>4. CASE Main
  <2>1. CASE TakeSignal
    BY <2>1 DEF TakeSignal
  <2>2. CASE MainCloseFlag
    BY <2>2 DEF MainCloseFlag
  <2>3. CASE MainClose
    BY <2>3 DEF MainClose, CloseListeners, closeConns
  <2>4. CASE Exit
    BY <2>4 DEF Exit
  <2>5. ASSUME NEW l \in Listeners, TakeResult(l) PROVE ForceInv'
    BY <2>5 DEF TakeResult, LoopGoto
  <2> QED BY <1>4, <2>1, <2>2, <2>3, <2>4, <2>5 DEF Main
<1>5. CASE Signal
  BY <1>5 DEF Signal
<1>6. CASE UNCHANGED vars
  BY <1>6
<1> QED BY <1>1, <1>2, <1>3, <1>4, <1>5, <1>6 DEF Next

-----------------------------------------------------------------------------
(* The invariant *)

\* The initial state satisfies the invariant ...
LEMMA Initial == Init => IInv
<1> SUFFICES ASSUME Init PROVE IInv
  OBVIOUS
<1>1. TypeOK
  <2>1. shuttingDown \in BOOLEAN /\ done \in BOOLEAN /\ pending \in BOOLEAN
    BY Zenon DEF Init
  <2>2. /\ lpc \in [Listeners -> LoopStates]
        /\ lconn \in [Listeners -> Conns \union {NoConn}]
        /\ lerr \in [Listeners -> {"none", "closed", "temporary", "broken"}]
        /\ lret \in [Listeners -> {"none", "ErrServerClosed", "error"}]
        /\ lopen \in [Listeners -> BOOLEAN]
    BY DEF Init, LoopStates
  <2>3. /\ cpc \in [Conns -> ConnStates]
        /\ cflag \in [Conns -> BOOLEAN]
        /\ csock \in [Conns -> {"none", "open", "closed"}]
    BY DEF Init, ConnStates
  <2>4. /\ listeners \subseteq Listeners /\ conns \subseteq Conns
        /\ main \in MainStates /\ exitCode \in {0, 1}
        /\ signals \in 0 .. MaxSignals
        /\ stop \in StopStates /\ cause \in {"none", "signal", "error"}
    BY ServerAssumption DEF Init, MainStates, StopStates
  <2> QED BY <2>1, <2>2, <2>3, <2>4 DEF TypeOK
<1>2. LoopInv
  BY DEF Init, LoopInv, ListenerInv, Held
<1>3. ConnInv
  BY DEF Init, ConnInv
<1>4. StopInv /\ ForceInv
  BY DEF Init, StopInv, ForceInv
<1> QED BY <1>1, <1>2, <1>3, <1>4 DEF IInv

\* ... every step preserves it ...
LEMMA Inductive == IInv /\ [Next]_vars => IInv'
<1> SUFFICES ASSUME IInv, [Next]_vars PROVE IInv'
  OBVIOUS
<1>1. TypeOK /\ LoopInv /\ ConnInv /\ StopInv /\ ForceInv
  BY DEF IInv
<1>2. TypeOK'
  BY <1>1, TypeStep
<1>3. LoopInv'
  BY <1>1, LoopStep
<1>4. ConnInv'
  BY <1>1, ConnStep
<1>5. StopInv'
  BY <1>1, StopStep
<1>6. ForceInv'
  BY <1>1, ForceStep
<1> QED BY <1>2, <1>3, <1>4, <1>5, <1>6 DEF IInv

\* ... and so every reachable state satisfies it.
LEMMA Invariance == Spec => []IInv
  BY Initial, Inductive, PTL DEF Spec

-----------------------------------------------------------------------------
(* Results *)

\* Every variable of the server and of the program has its type, however many
\* listeners, clients and signals there are (server.go, s3ftpgateway.go).
THEOREM TypeCorrect == Spec => []TypeOK
<1>1. IInv => TypeOK
  BY DEF IInv
<1> QED BY <1>1, Invariance, PTL

\* A connection that is served is tracked or closed (trackConn, server.go:327):
\* Shutdown cannot overlook it, Close cannot leave it open.
THEOREM AllTracked == Spec => []Tracked
<1>1. IInv => Tracked
  BY DEF IInv, ConnInv, Tracked
<1> QED BY <1>1, Invariance, PTL

\* When the goroutine that shuts the server down has returned, no client is
\* served (Shutdown and Close, server.go:366-412, against trackConn).
THEOREM ShutdownComplete == Spec => []NobodyServed
<1>1. IInv => NobodyServed
  BY DEF IInv, TypeOK, ConnStates, ConnInv, StopInv, NobodyServed
<1> QED BY <1>1, Invariance, PTL

\* Serve mistakes the end of the server for a failure of its listener in no
\* case (server.go:162-207): done is closed before any listener is.
THEOREM ServeReturns == Spec => []ReturnsErrServerClosed
<1>1. IInv => ReturnsErrServerClosed
  BY DEF IInv, LoopInv, ListenerInv, ReturnsErrServerClosed
<1> QED BY <1>1, Invariance, PTL

\* The program exits with 0 only if a signal ended it (s3ftpgateway.go:103).
THEOREM ExitCodeCorrect == Spec => []ExitCodeTells
<1>1. IInv => ExitCodeTells
  BY DEF IInv, TypeOK, StopInv, ForceInv, ExitCodeTells
<1> QED BY <1>1, Invariance, PTL


-----------------------------------------------------------------------------
(* What a step may do to a connection *)

\* A step that takes a client (newConn, server.go:263) is taken in time.
TakenInTime == \A c \in Conns : cpc[c] = "none" /\ cpc'[c] = "accepted" => ~done

\* A step that closes the connection of a busy client has leave to do so.
BusyClosed ==
    \A c \in Conns :
        /\ cpc[c] = "busy" /\ csock[c] = "open"
        /\ cpc'[c] = "busy" /\ csock'[c] = "closed"
        => signals >= 2 \/ exitCode = 1

\* Steps that leave the connections alone do neither.
LEMMA ConnsAlone == UNCHANGED << cpc, csock >> => TakenInTime /\ BusyClosed
  BY DEF TakenInTime, BusyClosed

\* Accept is the only step that takes a client, and needs an open listener
\* (server.go:176); only closeConnsLocked closes busy connections
\* (server.go:345), called by the loop of the program after a second signal and
\* by its goroutine after the failure of a listener (s3ftpgateway.go:103-134).
LEMMA ConnChanges ==
    ASSUME TypeOK, LoopInv, ForceInv, [Next]_vars
    PROVE  TakenInTime /\ BusyClosed
<1> USE DEF vars, srvVars, lVars, cVars, mainVars, stopVars
<1>1. ASSUME NEW l \in Listeners, Loop(l) PROVE TakenInTime /\ BusyClosed
  <2>1. CASE TrackConn(l)
    <3>1. lconn[l] \in Conns /\ cpc[lconn[l]] = "accepted"
      BY <2>1 DEF TrackConn, LoopGoto, LoopInv, ListenerInv, Held
    <3> QED BY <2>1, <3>1 DEF TrackConn, TypeOK, TakenInTime, BusyClosed
  <2>2. ASSUME NEW c \in Conns, Accept(l, c) PROVE TakenInTime /\ BusyClosed
    <3>1. ~done
      BY <2>2 DEF Accept, LoopGoto, LoopInv, ListenerInv
    <3>2. \A d \in Conns : cpc'[d] = "busy" => csock'[d] = csock[d]
      BY <2>2 DEF Accept, TypeOK
    <3> QED BY <3>1, <3>2 DEF TakenInTime, BusyClosed
  <2>3. ASSUME NEW e \in {"closed", "temporary", "broken"}, AcceptFails(l, e)
        PROVE  UNCHANGED << cpc, csock >>
    BY <2>3 DEF AcceptFails
  <2>4. TrackListener(l) \/ AcceptError(l) \/ UntrackListener(l) \/ CloseListener(l)
        => UNCHANGED << cpc, csock >>
    BY DEF TrackListener, AcceptError, UntrackListener, CloseListener
  <2> QED BY <1>1, <2>1, <2>2, <2>3, <2>4, ConnsAlone DEF Loop
<1>2. ASSUME NEW d \in Conns, Conn(d) PROVE TakenInTime /\ BusyClosed
  <2>1. CASE Begin(d) \/ Rest(d) \/ UntrackConn(d)
    BY <2>1 DEF Begin, Rest, UntrackConn, ConnGoto, TypeOK, TakenInTime, BusyClosed
  <2>2. CASE End(d)
    BY <2>2 DEF End, ConnGoto, TypeOK, TakenInTime, BusyClosed
  <2> QED BY <1>2, <2>1, <2>2 DEF Conn
<1>3. CASE Stop
  <2>1. CASE ShutdownFirst \/ ShutdownPoll
    BY <2>1 DEF ShutdownFirst, ShutdownPoll, shutdownConns, TypeOK, TakenInTime, BusyClosed
  <2>2. CASE StopClose
    BY <2>2 DEF StopClose, StopGoto, ForceInv, TakenInTime, BusyClosed
  <2>3. ShutdownFlag \/ ShutdownTick \/ ShutdownTimeout \/ StopCloseFlag
        => UNCHANGED << cpc, csock >>
    BY DEF ShutdownFlag, ShutdownTick, ShutdownTimeout, StopCloseFlag
  <2> QED BY <1>3, <2>1, <2>2, <2>3, ConnsAlone DEF Stop
<1>4. CASE Main
  <2>1. CASE MainClose
    BY <2>1 DEF MainClose, ForceInv, TakenInTime, BusyClosed
  <2>2. ASSUME NEW l \in Listeners, TakeResult(l) PROVE UNCHANGED << cpc, csock >>
    BY <2>2 DEF TakeResult
  <2>3. TakeSignal \/ MainCloseFlag \/ Exit => UNCHANGED << cpc, csock >>
    BY DEF TakeSignal, MainCloseFlag, Exit
  <2> QED BY <1>4, <2>1, <2>2, <2>3, ConnsAlone DEF Main
<1>5. Signal \/ UNCHANGED vars => UNCHANGED << cpc, csock >>
  BY DEF Signal
<1> QED BY <1>1, <1>2, <1>3, <1>4, <1>5, ConnsAlone DEF Next

\* No client is accepted once the listeners were closed (server.go:316), not
\* even by an accept loop that had not started yet (trackListener,
\* server.go:297).
THEOREM AcceptsInTime == Spec => NoLateAccept
<1>1. IInv /\ [Next]_vars => [TakenInTime]_vars
  BY ConnChanges DEF IInv
<1>2. [TakenInTime]_vars =>
        [\A c \in Conns : cpc[c] = "none" /\ cpc'[c] = "accepted" => ~done]_vars
  BY DEF TakenInTime
<1> QED BY <1>1, <1>2, Invariance, PTL DEF Spec, NoLateAccept

\* The server closes the connection of a busy client by force only
\* (ServerConn.shutdown, conn.go:267, against Close, conn.go:231).
THEOREM BusyAreSpared == Spec => BusySpared
<1>1. IInv /\ [Next]_vars => [BusyClosed]_vars
  BY ConnChanges DEF IInv
<1>2. [BusyClosed]_vars =>
        [\A c \in Conns :
            /\ cpc[c] = "busy" /\ csock[c] = "open"
            /\ cpc'[c] = "busy" /\ csock'[c] = "closed"
            => signals >= 2 \/ exitCode = 1]_vars
  BY DEF BusyClosed
<1> QED BY <1>1, <1>2, Invariance, PTL DEF Spec, BusySpared

-----------------------------------------------------------------------------
(* Server implements Draining *)

Phase == IF stop = "end" THEN "over" ELSE IF shuttingDown THEN "draining" ELSE "up"

\* Every step of the server is a step of Draining or leaves phase and the
\* clients that are served as they are.
LEMMA StepMaps ==
    ASSUME TypeOK, LoopInv, ConnInv, StopInv, ForceInv, [Next]_vars
    PROVE  [Abstract!Next]_<< Phase, conns >>
<1> USE DEF vars, srvVars, lVars, cVars, mainVars, stopVars, Phase
<1> DEFINE Same == UNCHANGED << Phase, conns >>
           Mapped == Abstract!Next \/ Same
<1>1. ASSUME NEW l \in Listeners, Loop(l) PROVE Mapped
  <2>1. CASE TrackConn(l)
    <3>1. lconn[l] \in Conns /\ cpc[lconn[l]] = "accepted"
      BY <2>1 DEF TrackConn, LoopGoto, LoopInv, ListenerInv, Held
    <3>2. CASE shuttingDown
      BY <2>1, <3>2 DEF TrackConn
    <3>3. CASE ~shuttingDown
      <4>1. Abstract!Enter(lconn[l])
        BY <2>1, <3>1, <3>3 DEF TrackConn, LoopGoto, ConnInv, StopInv, Abstract!Enter
      <4> QED BY <3>1, <4>1 DEF Abstract!Next
    <3> QED BY <3>2, <3>3
  <2>2. ASSUME NEW c \in Conns, Accept(l, c) PROVE Same
    BY <2>2 DEF Accept
  <2>3. ASSUME NEW e \in {"closed", "temporary", "broken"}, AcceptFails(l, e)
        PROVE  Same
    BY <2>3 DEF AcceptFails
  <2>4. TrackListener(l) \/ AcceptError(l) \/ UntrackListener(l) \/ CloseListener(l)
        => Same
    BY DEF TrackListener, AcceptError, UntrackListener, CloseListener
  <2> QED BY <1>1, <2>1, <2>2, <2>3, <2>4 DEF Loop
<1>2. ASSUME NEW c \in Conns, Conn(c) PROVE Mapped
  <2>1. CASE UntrackConn(c)
    <3>1. conns' = conns \ (conns \intersect {c}) /\ UNCHANGED Phase
      BY <2>1 DEF UntrackConn
    <3>2. Abstract!Leave(conns \intersect {c})
      BY <3>1 DEF Abstract!Leave
    <3>3. conns \intersect {c} \in SUBSET conns
      OBVIOUS
    <3> QED BY <3>2, <3>3 DEF Abstract!Next
  <2>2. Begin(c) \/ Rest(c) \/ End(c) => Same
    BY DEF Begin, Rest, End
  <2> QED BY <1>2, <2>1, <2>2 DEF Conn
<1>3. CASE Stop
  <2>1. CASE ShutdownFlag \/ StopCloseFlag
    <3>1. Same \/ Abstract!Drain
      BY <2>1 DEF ShutdownFlag, StopCloseFlag, StopGoto, Abstract!Drain
    <3> QED BY <3>1 DEF Abstract!Next
  <2>2. CASE ShutdownPoll
    <3>1. Same \/ Abstract!Finish
      BY <2>2 DEF ShutdownPoll, StopInv, Abstract!Finish
    <3> QED BY <3>1 DEF Abstract!Next
  <2>3. CASE StopClose
    <3>1. Abstract!Force
      BY <2>3 DEF StopClose, StopGoto, closeConns, StopInv, Abstract!Force
    <3> QED BY <3>1 DEF Abstract!Next
  <2>4. ShutdownFirst \/ ShutdownTick \/ ShutdownTimeout => Same
    BY DEF ShutdownFirst, ShutdownTick, ShutdownTimeout, StopGoto
  <2> QED BY <1>3, <2>1, <2>2, <2>3, <2>4 DEF Stop
<1>4. CASE Main
  <2>1. CASE MainCloseFlag
    <3>1. Same \/ Abstract!Drain
      BY <2>1 DEF MainCloseFlag, Abstract!Drain
    <3> QED BY <3>1 DEF Abstract!Next
  <2>2. CASE MainClose
    <3>1. conns' = conns \ conns /\ UNCHANGED Phase
      BY <2>2 DEF MainClose, closeConns
    <3>2. Abstract!Leave(conns)
      BY <3>1 DEF Abstract!Leave
    <3> QED BY <3>2 DEF Abstract!Next
  <2>3. CASE TakeSignal
    BY <2>3 DEF TakeSignal, ForceInv
  <2>4. ASSUME NEW l \in Listeners, TakeResult(l) PROVE Same
    BY <2>4 DEF TakeResult, ForceInv
  <2>5. Exit => Same
    BY DEF Exit
  <2> QED BY <1>4, <2>1, <2>2, <2>3, <2>4, <2>5 DEF Main
<1>5. Signal \/ UNCHANGED vars => Same
  BY DEF Signal
<1> QED BY <1>1, <1>2, <1>3, <1>4, <1>5 DEF Next

\* The server ends as Draining promises: nobody enters once it drains, and it
\* is over only when the last client has left or was made to leave (Shutdown,
\* server.go:388, and Close, server.go:366, against trackConn, server.go:327).
THEOREM Refinement == Spec => ImplementsDraining
<1>1. Init => Abstract!Init
  BY DEF Init, Abstract!Init
<1>2. IInv /\ [Next]_vars => [Abstract!Next]_<< Phase, conns >>
  BY StepMaps DEF IInv
<1> QED BY <1>1, <1>2, Invariance, PTL DEF Spec, ImplementsDraining, Abstract!Spec, Phase

-----------------------------------------------------------------------------
(* Each connection is as Connection promises *)

Mapped(c) == [Client(c)!Next]_<< PhaseOf(c), cflag[c] >>

\* Steps that leave the connection alone are none of Connection.
Alone(c) == cpc'[c] = cpc[c] /\ csock'[c] = csock[c] /\ cflag'[c] = cflag[c]

LEMMA AloneMaps == \A c \in Conns : Alone(c) => Mapped(c)
  BY DEF Alone, Mapped, PhaseOf

\* So are those that concern no connection.
LEMMA SameMaps == UNCHANGED cVars => \A c \in Conns : Mapped(c)
  BY AloneMaps DEF Alone, cVars

\* A step that closes the connection ends it, if nothing has ended it before.
LEMMA ClosedMaps ==
    ASSUME TypeOK, ConnInv, NEW c \in Conns, cpc'[c] = "gone" <=> cpc[c] = "gone",
           csock'[c] = "closed", cflag'[c] = TRUE
    PROVE  Mapped(c)
<1>1. CASE csock[c] = "closed"
  <2>1. cflag[c] = TRUE /\ PhaseOf(c)' = PhaseOf(c)
    BY <1>1 DEF TypeOK, ConnInv, PhaseOf
  <2> QED BY <2>1 DEF Mapped
<1>2. CASE csock[c] # "closed"
  <2>1. PhaseOf(c) \in {"idle", "busy"} /\ PhaseOf(c)' = "ending"
    BY <1>2 DEF ConnInv, PhaseOf
  <2>2. Client(c)!End
    BY <2>1 DEF Client!End
  <2> QED BY <2>2 DEF Mapped, Client!Next
<1> QED BY <1>1, <1>2

\* A connection that is told to end does so, unless it is busy.
LEMMA ToldMaps ==
    ASSUME TypeOK, ConnInv, NEW c \in Conns, cpc'[c] = cpc[c], cflag'[c] = TRUE,
           csock'[c] = IF cpc[c] # "busy" THEN "closed" ELSE csock[c]
    PROVE  Mapped(c)
<1>1. PhaseOf(c)' = IF PhaseOf(c) = "idle" THEN "ending" ELSE PhaseOf(c)
  BY DEF ConnInv, PhaseOf
<1>2. Client(c)!Tell
  BY <1>1 DEF Client!Tell
<1> QED BY <1>2 DEF Mapped, Client!Next

\* The steps of the server and of its clients.
LEMMA ClientMaps ==
    ASSUME TypeOK, LoopInv, ConnInv, [Next]_vars
    PROVE  \A c \in Conns : Mapped(c)
<1> USE DEF vars, srvVars, lVars, mainVars, stopVars
<1>1. ASSUME NEW l \in Listeners, Loop(l), NEW c \in Conns PROVE Mapped(c)
  <2>1. CASE TrackConn(l)
    <3>1. lconn[l] \in Conns /\ cpc[lconn[l]] = "accepted"
      BY <2>1 DEF TrackConn, LoopGoto, LoopInv, ListenerInv, Held
    <3>2. CASE c # lconn[l]
      <4>1. Alone(c)
        BY <2>1, <3>1, <3>2 DEF TrackConn, TypeOK, Alone, cVars
      <4> QED BY <4>1, AloneMaps
    <3>3. CASE c = lconn[l] /\ shuttingDown
      <4>1. /\ cpc'[c] = "refused" /\ cpc[c] = "accepted"
            /\ csock'[c] = "closed" /\ cflag'[c] = TRUE
        BY <2>1, <3>1, <3>3 DEF TrackConn, TypeOK
      <4> QED BY <4>1, ClosedMaps
    <3>4. CASE c = lconn[l] /\ ~shuttingDown
      <4>1. /\ cpc'[c] = "idle" /\ cpc[c] = "accepted"
            /\ csock'[c] = csock[c] /\ cflag'[c] = cflag[c]
        BY <2>1, <3>1, <3>4 DEF TrackConn, TypeOK
      <4> QED BY <4>1 DEF Mapped, PhaseOf
    <3> QED BY <3>2, <3>3, <3>4
  <2>2. ASSUME NEW d \in Conns, Accept(l, d) PROVE Mapped(c)
    <3>1. CASE c # d
      <4>1. Alone(c)
        BY <2>2, <3>1 DEF Accept, TypeOK, Alone
      <4> QED BY <4>1, AloneMaps
    <3>2. CASE c = d
      <4>1. /\ cpc'[c] = "accepted" /\ cpc[c] = "none" /\ cflag'[c] = cflag[c]
            /\ csock'[c] = "open" /\ csock[c] = "none"
        BY <2>2, <3>2 DEF Accept, TypeOK, ConnInv
      <4> QED BY <4>1 DEF Mapped, PhaseOf
    <3> QED BY <3>1, <3>2
  <2>3. ASSUME NEW e \in {"closed", "temporary", "broken"}, AcceptFails(l, e)
        PROVE  UNCHANGED cVars
    BY <2>3 DEF AcceptFails
  <2>4. TrackListener(l) \/ AcceptError(l) \/ UntrackListener(l) \/ CloseListener(l)
        => UNCHANGED cVars
    BY DEF TrackListener, AcceptError, UntrackListener, CloseListener
  <2> QED BY <1>1, <2>1, <2>2, <2>3, <2>4, SameMaps DEF Loop
<1>2. ASSUME NEW d \in Conns, Conn(d), NEW c \in Conns PROVE Mapped(c)
  <2>1. CASE c # d
    <3>1. Alone(c)
      BY <1>2, <2>1 DEF Conn, Begin, Rest, End, UntrackConn, ConnGoto, TypeOK, Alone
    <3> QED BY <3>1, AloneMaps
  <2>2. CASE c = d /\ Begin(c)
    <3>1. /\ PhaseOf(c) = "idle" /\ PhaseOf(c)' = "busy"
          /\ ~cflag[c] /\ UNCHANGED cflag[c]
      BY <2>2 DEF Begin, ConnGoto, TypeOK, PhaseOf
    <3>2. Client(c)!Begin
      BY <3>1 DEF Client!Begin
    <3> QED BY <3>2 DEF Mapped, Client!Next
  <2>3. CASE c = d /\ Rest(c)
    <3>1. /\ PhaseOf(c) = "busy" /\ PhaseOf(c)' = "idle"
          /\ ~cflag[c] /\ UNCHANGED cflag[c]
      BY <2>3 DEF Rest, ConnGoto, TypeOK, PhaseOf
    <3>2. Client(c)!Rest
      BY <3>1 DEF Client!Rest
    <3> QED BY <3>2 DEF Mapped, Client!Next
  <2>4. CASE c = d /\ End(c)
    <3>1. /\ cpc'[c] = "ending" /\ cpc[c] \in {"idle", "busy"}
          /\ csock'[c] = "closed" /\ cflag'[c] = TRUE
      BY <2>4 DEF End, ConnGoto, TypeOK
    <3> QED BY <3>1, ClosedMaps
  <2>5. CASE c = d /\ UntrackConn(c)
    <3>1. /\ PhaseOf(c) = "ending" /\ PhaseOf(c)' = "gone" /\ UNCHANGED cflag[c]
      BY <2>5 DEF UntrackConn, ConnGoto, TypeOK, ConnInv, PhaseOf
    <3>2. Client(c)!Leave
      BY <3>1 DEF Client!Leave
    <3> QED BY <3>2 DEF Mapped, Client!Next
  <2> QED BY <1>2, <2>1, <2>2, <2>3, <2>4, <2>5 DEF Conn
<1>3. ASSUME shutdownConns, UNCHANGED cpc, NEW c \in Conns PROVE Mapped(c)
  <2>1. CASE c \in conns
    <3>1. /\ cpc'[c] = cpc[c] /\ cflag'[c] = TRUE
          /\ csock'[c] = IF cpc[c] # "busy" THEN "closed" ELSE csock[c]
      BY <1>3, <2>1 DEF shutdownConns
    <3> QED BY <3>1, ToldMaps
  <2>2. CASE c \notin conns
    <3>1. Alone(c)
      BY <1>3, <2>2 DEF shutdownConns, TypeOK, Alone
    <3> QED BY <3>1, AloneMaps
  <2> QED BY <2>1, <2>2
<1>4. ASSUME closeConns, UNCHANGED cpc, NEW c \in Conns PROVE Mapped(c)
  <2>1. CASE c \in conns
    <3>1. cpc'[c] = cpc[c] /\ cflag'[c] = TRUE /\ csock'[c] = "closed"
      BY <1>4, <2>1 DEF closeConns
    <3> QED BY <3>1, ClosedMaps
  <2>2. CASE c \notin conns
    <3>1. Alone(c)
      BY <1>4, <2>2 DEF closeConns, TypeOK, Alone
    <3> QED BY <3>1, AloneMaps
  <2> QED BY <2>1, <2>2
<1>5. CASE Stop
  <2>1. CASE ShutdownFirst \/ ShutdownPoll
    <3>1. shutdownConns /\ UNCHANGED cpc
      BY <2>1 DEF ShutdownFirst, ShutdownPoll
    <3> QED BY <1>3, <3>1
  <2>2. CASE StopClose
    <3>1. closeConns /\ UNCHANGED cpc
      BY <2>2 DEF StopClose
    <3> QED BY <1>4, <3>1
  <2>3. ShutdownFlag \/ ShutdownTick \/ ShutdownTimeout \/ StopCloseFlag => UNCHANGED cVars
    BY DEF ShutdownFlag, ShutdownTick, ShutdownTimeout, StopCloseFlag
  <2> QED BY <1>5, <2>1, <2>2, <2>3, SameMaps DEF Stop
<1>6. CASE Main
  <2>1. CASE MainClose
    <3>1. closeConns /\ UNCHANGED cpc
      BY <2>1 DEF MainClose
    <3> QED BY <1>4, <3>1
  <2>2. ASSUME NEW l \in Listeners, TakeResult(l) PROVE UNCHANGED cVars
    BY <2>2 DEF TakeResult
  <2>3. TakeSignal \/ MainCloseFlag \/ Exit => UNCHANGED cVars
    BY DEF TakeSignal, MainCloseFlag, Exit
  <2> QED BY <1>6, <2>1, <2>2, <2>3, SameMaps DEF Main
<1>7. Signal \/ UNCHANGED vars => UNCHANGED cVars
  BY DEF Signal
<1> QED BY <1>1, <1>2, <1>5, <1>6, <1>7, SameMaps DEF Next

\* Whatever the accept loops, Shutdown and Close do to a connection is what
\* Connection allows, which ServerConn implements (Server.serve, server.go:162,
\* shutdownConnsLocked and closeConnsLocked, server.go:345).
THEOREM ConnectionsKept == Spec => ImplementsConnections
<1>1. IInv /\ [Next]_vars =>
         [\A c \in Conns : [Client(c)!Next]_<< PhaseOf(c), cflag[c] >>]_vars
  BY ClientMaps DEF IInv, Mapped
<1> QED BY <1>1, Invariance, PTL DEF Spec, ImplementsConnections
=============================================================================
