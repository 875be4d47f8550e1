----------------------------- MODULE ServerConn -----------------------------
(***************************************************************************)
(* One control connection of the server (ftp/conn.go) with everything that *)
(* runs on its behalf: the goroutine that reads and executes commands, the *)
(* listen goroutine of each passive data transfer, the goroutine of each   *)
(* file transfer (ftp/transfer.go, ftp/command.go), and the two calls that *)
(* end the connection from outside, Server.Shutdown and Server.Close       *)
(* (ftp/server.go).  The client sends commands, opens data connections and *)
(* hangs up whenever it likes.                                             *)
(*                                                                         *)
(* A step is what one goroutine does between two points where another can  *)
(* see the difference.  setDataTransfer is one step: it holds mudt, and    *)
(* what it does to the previous transfer takes effect with close(closed).  *)
(***************************************************************************)
EXTENDS Naturals, FiniteSets

CONSTANTS
    Dts,        \* data transfers PASV, EPSV, PORT and EPRT create
    Jobs,       \* file transfers and listings the client asks for
    Commands,   \* the kinds of command the client sends
    Calls,      \* the calls that may end the connection from outside
    Empty,      \* emptyDataTransfer{}
    NoCmd       \* no command with an argument is being executed

\* STOR stands for the commands that wait for the data connection themselves:
\* STOR, STOU, LIST, NLST and MLSD.  OTHER does not touch the data transfer.
Foreground == {"STOR"}
Background == {"RETR", "APPE"}
AllCommands == {"OTHER", "QUIT", "ABOR", "PASV", "PORT"} \union Foreground \union Background

ASSUME ServerConnAssumption ==
    /\ Commands \subseteq AllCommands
    /\ Calls \subseteq {"Shutdown", "Close"}
    /\ Empty \notin Dts
    /\ NoCmd \notin Dts \union Jobs
    /\ Dts \intersect Jobs = {}

VARIABLES
    srv, cmd,           \* serve: program counter, argument of its command
    executing,          \* c.executing
    shuttingDown,       \* c.shuttingDown
    cancelled,          \* c.ctx was cancelled
    once,               \* c.closeOnce: "no", "run" or "done"
    rwc,                \* c.rwc: "open" or "closed" by the server
    client,             \* "here" or "gone"
    dt,                 \* c.dt
    kind, lis, over, tconn, sock,           \* data transfers, see below
    job, jkind, jdt, jstop, replies,        \* jobs, see below
    mu,                 \* who holds Server.mu: "free", "Shutdown" or "Close"
    tracked,            \* c is in Server.conns
    sd,                 \* Server.Shutdown: program counter
    cl                  \* the two calls of c.Close: program counters

srvVars == << srv, cmd >>
ctlVars == << executing, shuttingDown, cancelled, once, rwc, client >>
dtVars  == << dt, kind, lis, over, tconn, sock >>
jobVars == << job, jkind, jdt, jstop, replies >>
outVars == << mu, tracked, sd, cl >>
vars    == << srvVars, ctlVars, dtVars, jobVars, outVars >>

-----------------------------------------------------------------------------
SrvStates == {"loop", "scan", "line", "check", "exec", "dial", "setdt", "abor",
              "abor2", "wait", "done", "exit", "closing", "gone"}
LisStates == {"none", "accepting", "broken", "offering", "ending", "closed", "released"}
JobStates == {"none", "open", "conn", "recv", "got", "run", "reply", "close",
              "failed", "end"}
ShutdownStates == {"off", "set", "check", "close", "tick", "end"}
CloseStates    == {"off", "enter", "dt", "rwc", "back", "end"}

TypeOK ==
    /\ srv \in SrvStates /\ cmd \in Dts \union Jobs \union {NoCmd}
    /\ executing \in BOOLEAN /\ shuttingDown \in BOOLEAN /\ cancelled \in BOOLEAN
    /\ once \in {"no", "run", "done"}
    /\ rwc \in {"open", "closed"} /\ client \in {"here", "gone"}
    /\ dt \in Dts \union {Empty}
    /\ kind \in [Dts -> {"unused", "passive", "active"}]
    /\ lis \in [Dts -> LisStates]       \* the listen goroutine
    /\ over \in [Dts -> BOOLEAN]        \* t.closed is closed, t.l too
    /\ tconn \in [Dts -> BOOLEAN]       \* t.conn is set
    /\ sock \in [Dts -> {"none", "open", "closed"}]     \* the data connection
    /\ job \in [Jobs -> JobStates]
    /\ jkind \in [Jobs -> Commands \union {"none"}]
    /\ jdt \in [Jobs -> Dts \union {Empty}]     \* the transfer Conn was called on
    /\ jstop \in [Jobs -> BOOLEAN]              \* its tctx was cancelled
    /\ replies \in [Jobs -> 0 .. 2]             \* final replies to its command
    /\ mu \in {"free", "Shutdown", "Close"} /\ tracked \in BOOLEAN
    /\ sd \in ShutdownStates
    /\ cl \in [{"serve", "server"} -> CloseStates]

Init ==
    /\ srv = "loop" /\ cmd = NoCmd
    /\ executing = FALSE /\ shuttingDown = FALSE /\ cancelled = FALSE
    /\ once = "no" /\ rwc = "open" /\ client = "here"
    /\ dt = Empty
    /\ kind  = [d \in Dts |-> "unused"]
    /\ lis   = [d \in Dts |-> "none"]
    /\ over  = [d \in Dts |-> FALSE]
    /\ tconn = [d \in Dts |-> FALSE]
    /\ sock  = [d \in Dts |-> "none"]
    /\ job     = [j \in Jobs |-> "none"]
    /\ jkind   = [j \in Jobs |-> "none"]
    /\ jdt     = [j \in Jobs |-> Empty]
    /\ jstop   = [j \in Jobs |-> FALSE]
    /\ replies = [j \in Jobs |-> 0]
    /\ mu = "free" /\ tracked = TRUE /\ sd = "off"
    /\ cl = [p \in {"serve", "server"} |-> "off"]

-----------------------------------------------------------------------------
(* The current data transfer *)

\* mudt is free: Shutdown holds it from its test to rwc.Close.
MudtFree == sd # "close"

\* dataTransfer.Close of the transfer d: the empty one does nothing; an active
\* one closes its connection; a passive one closes the connection if Conn has
\* stored it, the channel "closed" and the listener.
CloseTransfer(d) ==
    IF d = Empty THEN UNCHANGED << over, sock >>
    ELSE /\ over' = [over EXCEPT ![d] = kind[d] = "passive"]
         /\ sock' = [sock EXCEPT ![d] = IF kind[d] = "active" \/ tconn[d] THEN "closed" ELSE @]

\* Faulty variant: an empty transfer is not stored.
setDataTransferKeeps(new) ==
    /\ MudtFree
    /\ CloseTransfer(dt)
    /\ dt' = IF new = Empty THEN dt ELSE new
    /\ UNCHANGED << kind, lis, tconn >>

setDataTransfer(new) ==
    /\ MudtFree
    /\ CloseTransfer(dt)
    /\ dt' = new
    /\ UNCHANGED << kind, lis, tconn >>

\* The second half of closeDataTransfer.
CloseIfShuttingDown ==
    rwc' = IF shuttingDown THEN "closed" ELSE rwc

Reply(j) == replies' = [replies EXCEPT ![j] = @ + 1]

-----------------------------------------------------------------------------
(* serve: read a line, execute its command *)

\* What the server writes is taken from it, or the write fails: otherwise a
\* reply, and the handshake of AUTH TLS, last as long as the client likes.
Taken == rwc = "closed" \/ client = "gone"

SrvGoto(from, to) == srv = from /\ srv' = to

LoopTest ==
    /\ srv = "loop"
    /\ srv' = IF shuttingDown THEN "exit" ELSE "scan"
    /\ UNCHANGED << cmd, ctlVars, dtVars, jobVars, outVars >>

\* Scan returns a line that the client sent ...
ScanLine ==
    /\ SrvGoto("scan", "line")
    /\ rwc = "open" /\ client = "here"
    /\ UNCHANGED << cmd, ctlVars, dtVars, jobVars, outVars >>

\* ... or false, as the client or the server closed the connection.
ScanEnd ==
    /\ SrvGoto("scan", "exit")
    /\ rwc = "closed" \/ client = "gone"
    /\ UNCHANGED << cmd, ctlVars, dtVars, jobVars, outVars >>

SetExecuting ==
    /\ SrvGoto("line", "check")
    /\ executing' = TRUE
    /\ UNCHANGED << cmd, shuttingDown, cancelled, once, rwc, client, dtVars, jobVars, outVars >>

\* Faulty variant: the flag is not tested once more.
CheckNothing ==
    /\ SrvGoto("check", "exec")
    /\ UNCHANGED << cmd, ctlVars, dtVars, jobVars, outVars >>

\* 421, which the client may not take, and the loop ends with executing set.
CheckShutdown ==
    /\ srv = "check"
    /\ srv' = IF shuttingDown THEN "exit" ELSE "exec"
    /\ UNCHANGED << cmd, ctlVars, dtVars, jobVars, outVars >>

\* A command that replies and does no more, or that is refused: "done" is
\* where its reply is written.  AUTH TLS shakes hands there, too.
ExecOther ==
    /\ "OTHER" \in Commands
    /\ SrvGoto("exec", "done")
    /\ UNCHANGED << cmd, ctlVars, dtVars, jobVars, outVars >>

\* QUIT; a rejected command; PASS after too many failures.
ExecQuit ==
    /\ "QUIT" \in Commands
    /\ SrvGoto("exec", "done")
    /\ shuttingDown' = TRUE
    /\ UNCHANGED << cmd, executing, cancelled, once, rwc, client, dtVars, jobVars, outVars >>

ExecAbor ==
    /\ "ABOR" \in Commands
    /\ SrvGoto("exec", "abor")
    /\ UNCHANGED << cmd, ctlVars, dtVars, jobVars, outVars >>

AborSet ==
    /\ SrvGoto("abor", "abor2")
    /\ setDataTransfer(Empty)
    /\ UNCHANGED << cmd, ctlVars, jobVars, outVars >>

AborClose ==
    /\ SrvGoto("abor2", "done")
    /\ CloseIfShuttingDown
    /\ UNCHANGED << cmd, executing, shuttingDown, cancelled, once, client, dtVars, jobVars, outVars >>

\* newPassiveDataTransfer: choose a port (under Server.mu), listen on it and
\* start the listen goroutine.  Its failures are those of ExecOther.
ExecPasv(d) ==
    /\ "PASV" \in Commands
    /\ SrvGoto("exec", "setdt")
    /\ kind[d] = "unused"
    /\ mu = "free"
    /\ cmd' = d
    /\ kind' = [kind EXCEPT ![d] = "passive"]
    /\ lis'  = [lis EXCEPT ![d] = "accepting"]
    /\ UNCHANGED << ctlVars, dt, over, tconn, sock, jobVars, outVars >>

\* newActiveDataTransfer dials, or fails to.
ExecPort(d) ==
    /\ "PORT" \in Commands
    /\ SrvGoto("exec", "dial")
    /\ kind[d] = "unused"
    /\ cmd' = d
    /\ UNCHANGED << ctlVars, dtVars, jobVars, outVars >>

DialOk ==
    /\ SrvGoto("dial", "setdt")
    /\ kind' = [kind EXCEPT ![cmd] = "active"]
    /\ sock' = [sock EXCEPT ![cmd] = "open"]
    /\ UNCHANGED << cmd, ctlVars, dt, lis, over, tconn, jobVars, outVars >>

DialFails ==
    /\ SrvGoto("dial", "done")
    /\ cmd' = NoCmd
    /\ UNCHANGED << ctlVars, dtVars, jobVars, outVars >>

\* Both constructors end by installing the new transfer.
Install ==
    /\ SrvGoto("setdt", "done")
    /\ setDataTransfer(cmd)
    /\ cmd' = NoCmd
    /\ UNCHANGED << ctlVars, jobVars, outVars >>

\* RETR and APPE start a goroutine and wait until it has its connection; the
\* others wait for the connection first.
ExecTransfer(j, k) ==
    /\ k \in Commands
    /\ SrvGoto("exec", "wait")
    /\ job[j] = "none"
    /\ cmd' = j
    /\ job' = [job EXCEPT ![j] = IF k \in Background THEN "open" ELSE "conn"]
    /\ jkind' = [jkind EXCEPT ![j] = k]
    /\ UNCHANGED << ctlVars, dtVars, jdt, jstop, replies, outVars >>

\* The job has its connection, or it failed: RETR replies 553 now.
WaitOver ==
    /\ SrvGoto("wait", "done")
    /\ job[cmd] \in {"run", "reply", "close", "failed", "end"}
    /\ cmd' = NoCmd
    /\ IF job[cmd] = "failed"
         THEN Reply(cmd) /\ job' = [job EXCEPT ![cmd] = "end"]
         ELSE UNCHANGED << replies, job >>
    /\ UNCHANGED << ctlVars, dtVars, jkind, jdt, jstop, outVars >>

\* One minute has passed, or c.ctx was cancelled: stop waiting, cancel the
\* context of the goroutine, and leave it to itself.  RETR replies 553.
WaitTimeout ==
    /\ SrvGoto("wait", "done")
    /\ jkind[cmd] \in Background
    /\ cmd' = NoCmd
    /\ jstop' = [jstop EXCEPT ![cmd] = TRUE]
    /\ IF jkind[cmd] = "RETR" THEN Reply(cmd) ELSE UNCHANGED replies
    /\ job' = [job EXCEPT ![cmd] = IF @ = "failed" THEN "end" ELSE @]
    /\ UNCHANGED << ctlVars, dtVars, jkind, jdt, outVars >>


\* The command has written its reply.
Done ==
    /\ SrvGoto("done", "loop")
    /\ executing' = FALSE
    /\ UNCHANGED << cmd, shuttingDown, cancelled, once, rwc, client, dtVars, jobVars, outVars >>

\* The deferred c.Close, then the deferred trackConn(c, false).
Exit ==
    /\ SrvGoto("exit", "closing")
    /\ cancelled' = TRUE
    /\ cl' = [cl EXCEPT !["serve"] = "enter"]
    /\ UNCHANGED << cmd, executing, shuttingDown, once, rwc, client, dtVars, jobVars, mu, tracked, sd >>

Untrack ==
    /\ SrvGoto("closing", "gone")
    /\ cl["serve"] = "back"
    /\ mu = "free"
    /\ cl' = [cl EXCEPT !["serve"] = "end"]
    /\ tracked' = FALSE
    /\ UNCHANGED << cmd, ctlVars, dtVars, jobVars, mu, sd >>

-----------------------------------------------------------------------------
(* c.Close, called by serve's end and by Server.Close *)

ClGoto(p, from, to) == cl[p] = from /\ cl' = [cl EXCEPT ![p] = to]

\* closeOnce.Do runs close for the first caller; another one waits for it.
CloseEnter(p) ==
    /\ \/ /\ once = "no"
          /\ ClGoto(p, "enter", "dt")
          /\ once' = "run"
          /\ shuttingDown' = TRUE
       \/ /\ once = "done"
          /\ ClGoto(p, "enter", "back")
          /\ UNCHANGED << once, shuttingDown >>
    /\ UNCHANGED << srvVars, executing, cancelled, rwc, client, dtVars, jobVars, mu, tracked, sd >>

\* Faulty variant: the data transfer is forgotten.
CloseDtSkips(p) ==
    /\ ClGoto(p, "dt", "rwc")
    /\ UNCHANGED << srvVars, ctlVars, dtVars, jobVars, mu, tracked, sd >>

CloseDt(p) ==
    /\ ClGoto(p, "dt", "rwc")
    /\ setDataTransfer(Empty)
    /\ UNCHANGED << srvVars, ctlVars, jobVars, mu, tracked, sd >>


\* Both rwc.Close calls, the one of closeDataTransfer and the one of close.
CloseRwc(p) ==
    /\ ClGoto(p, "rwc", "back")
    /\ rwc' = "closed"
    /\ once' = "done"
    /\ UNCHANGED << srvVars, executing, shuttingDown, cancelled, client, dtVars, jobVars, mu, tracked, sd >>

-----------------------------------------------------------------------------
(* The listen goroutine of the passive transfer d *)

LisGoto(d, from, to) == lis[d] = from /\ lis' = [lis EXCEPT ![d] = to]

\* The client connects to the port, from the right address.  (A connection
\* from another address is ignored, which changes nothing here.)
Accept(d) ==
    /\ LisGoto(d, "accepting", "offering")
    /\ ~over[d]
    /\ sock' = [sock EXCEPT ![d] = "open"]
    /\ UNCHANGED << srvVars, ctlVars, dt, kind, over, tconn, jobVars, outVars >>

\* Accept returns an error, always so once the listener is closed.
AcceptFails(d) ==
    /\ LisGoto(d, "accepting", "broken")
    /\ UNCHANGED << srvVars, ctlVars, dt, kind, over, tconn, sock, jobVars, outVars >>

\* Faulty variant: the error of Accept is sent without the select.
WithdrawOffer(d) ==
    /\ LisGoto(d, "offering", "ending") /\ sock' = [sock EXCEPT ![d] = "closed"]
    /\ over[d]
    /\ UNCHANGED << srvVars, ctlVars, dt, kind, over, tconn, jobVars, outVars >>

\* The select on <-t.closed, with the connection it offers or with its error.
Withdraw(d) ==
    /\ \/ LisGoto(d, "offering", "ending") /\ sock' = [sock EXCEPT ![d] = "closed"]
       \/ LisGoto(d, "broken", "ending") /\ UNCHANGED sock
    /\ over[d]
    /\ UNCHANGED << srvVars, ctlVars, dt, kind, over, tconn, jobVars, outVars >>

\* The deferred close(ch) and t.l.Close, then releasePassivePort.
ListenEnd(d) ==
    /\ LisGoto(d, "ending", "closed")
    /\ UNCHANGED << srvVars, ctlVars, dt, kind, over, tconn, sock, jobVars, outVars >>

ReleasePort(d) ==
    /\ LisGoto(d, "closed", "released")
    /\ mu = "free"
    /\ UNCHANGED << srvVars, ctlVars, dt, kind, over, tconn, sock, jobVars, outVars >>

-----------------------------------------------------------------------------
(* The job j: a file transfer or a listing *)

JobGoto(j, from, to) == job[j] = from /\ job' = [job EXCEPT ![j] = to]

\* Faulty variant: the goroutine of RETR replies although serve will.
FailReplies(j, from) ==
    /\ job[j] = from
    /\ job' = [job EXCEPT ![j] = IF jkind[j] = "RETR" /\ ~jstop[j] THEN "failed" ELSE "end"]
    /\ Reply(j)
    /\ UNCHANGED << jkind, jstop >>

\* No data connection, or no file.  RETR leaves the reply to serve, as long
\* as serve waits for it; the others reply themselves.
Fail(j, from) ==
    /\ job[j] = from
    /\ IF jkind[j] = "RETR"
         THEN job' = [job EXCEPT ![j] = IF jstop[j] THEN "end" ELSE "failed"] /\ UNCHANGED replies
         ELSE job' = [job EXCEPT ![j] = "end"] /\ Reply(j)
    /\ UNCHANGED << jkind, jstop >>

OpenOk(j) ==
    /\ JobGoto(j, "open", "conn")
    /\ UNCHANGED << srvVars, ctlVars, dtVars, jkind, jdt, jstop, replies, outVars >>

OpenFails(j) ==
    /\ Fail(j, "open")
    /\ UNCHANGED << srvVars, ctlVars, dtVars, jdt, outVars >>

\* Reply 150, then c.dt.Conn: c.dt is read without mudt.
CallConn(j) ==
    /\ \/ dt = Empty /\ Fail(j, "conn")
       \/ dt # Empty /\ JobGoto(j, "conn", IF kind[dt] = "active" THEN "run" ELSE "recv")
                     /\ UNCHANGED << jkind, jstop, replies >>
    /\ jdt' = [jdt EXCEPT ![j] = dt]
    /\ UNCHANGED << srvVars, ctlVars, dtVars, outVars >>

\* The rendezvous on t.ch.
Receive(j) ==
    /\ JobGoto(j, "recv", "got")
    /\ LisGoto(jdt[j], "offering", "ending")
    /\ UNCHANGED << srvVars, ctlVars, dt, kind, over, tconn, sock, jkind, jdt, jstop, replies, outVars >>

\* An error arrives on t.ch, t.ch is closed, or the context is done.
ReceiveFails(j) ==
    /\ Fail(j, "recv")
    /\ \/ LisGoto(jdt[j], "broken", "ending")
       \/ lis[jdt[j]] \in {"closed", "released"} /\ UNCHANGED lis
       \/ (jstop[j] \/ jkind[j] \in Foreground) /\ UNCHANGED lis
    /\ UNCHANGED << srvVars, ctlVars, dt, kind, over, tconn, sock, jdt, outVars >>

\* t.conn = c.conn, under t.mu.
StoreConn(j) ==
    /\ JobGoto(j, "got", "run")
    /\ tconn' = [tconn EXCEPT ![jdt[j]] = TRUE]
    /\ UNCHANGED << srvVars, ctlVars, dt, kind, lis, over, sock, jkind, jdt, jstop, replies, outVars >>

\* Faulty variant: a reply for each chunk of the copy.
FinishChunk(j) ==
    /\ job[j] = "run"
    /\ Reply(j)
    /\ UNCHANGED << srvVars, ctlVars, dtVars, job, jkind, jdt, jstop, outVars >>

\* The copy ends, well or not; in "reply" its reply is written, 226 or 451.
Finish(j) ==
    /\ JobGoto(j, "run", "reply")
    /\ Reply(j)
    /\ UNCHANGED << srvVars, ctlVars, dtVars, jkind, jdt, jstop, outVars >>

\* The deferred closeDataTransfer, which closes the current transfer.
JobCloseDt(j) ==
    /\ JobGoto(j, "reply", "close")
    /\ setDataTransfer(Empty)
    /\ UNCHANGED << srvVars, ctlVars, jkind, jdt, jstop, replies, outVars >>

JobCloseRwc(j) ==
    /\ JobGoto(j, "close", "end")
    /\ CloseIfShuttingDown
    /\ UNCHANGED << srvVars, executing, shuttingDown, cancelled, once, client, dtVars,
                    jkind, jdt, jstop, replies, outVars >>

-----------------------------------------------------------------------------
(* Server.Shutdown with a context that never ends *)

SdGoto(from, to) == sd = from /\ sd' = to

SdLock ==
    /\ mu = "free"
    /\ mu' = "Shutdown"
    /\ ("Shutdown" \in Calls /\ SdGoto("off", "set")) \/ (tracked /\ SdGoto("tick", "set"))
    /\ UNCHANGED << srvVars, ctlVars, dtVars, jobVars, tracked, cl >>

\* c.shutdown of every tracked connection: set the flag ...
SdSet ==
    /\ sd = "set"
    /\ IF tracked THEN sd' = "check" /\ mu' = mu /\ shuttingDown' = TRUE
                  ELSE sd' = "tick" /\ mu' = "free" /\ UNCHANGED shuttingDown
    /\ UNCHANGED << srvVars, executing, cancelled, once, rwc, client, dtVars, jobVars, tracked, cl >>

\* ... and test under mudt whether the connection is idle.
SdCheck ==
    /\ sd = "check"
    /\ IF dt = Empty /\ ~executing
         THEN sd' = "close" /\ mu' = mu
         ELSE sd' = "tick"  /\ mu' = "free"
    /\ UNCHANGED << srvVars, ctlVars, dtVars, jobVars, tracked, cl >>

SdClose ==
    /\ SdGoto("close", "tick")
    /\ rwc' = "closed"
    /\ mu' = "free"
    /\ UNCHANGED << srvVars, executing, shuttingDown, cancelled, once, client, dtVars, jobVars, tracked, cl >>

\* No connection is left: Shutdown returns nil.
SdEnd ==
    /\ SdGoto("tick", "end")
    /\ mu = "free" /\ ~tracked
    /\ UNCHANGED << srvVars, ctlVars, dtVars, jobVars, mu, tracked, cl >>

-----------------------------------------------------------------------------
(* Server.Close: closes every tracked connection while it holds Server.mu *)

KillStart ==
    /\ "Close" \in Calls
    /\ ClGoto("server", "off", IF tracked THEN "enter" ELSE "end")
    /\ mu = "free"
    /\ mu' = IF tracked THEN "Close" ELSE "free"
    /\ cancelled' = (cancelled \/ tracked)
    /\ UNCHANGED << srvVars, executing, shuttingDown, once, rwc, client, dtVars, jobVars, tracked, sd >>

KillEnd ==
    /\ ClGoto("server", "back", "end")
    /\ mu' = "free"
    /\ tracked' = FALSE
    /\ UNCHANGED << srvVars, ctlVars, dtVars, jobVars, sd >>

-----------------------------------------------------------------------------
(* The client *)

Hangup ==
    /\ client = "here"
    /\ client' = "gone"
    /\ UNCHANGED << srvVars, executing, shuttingDown, cancelled, once, rwc, dtVars, jobVars, outVars >>
-----------------------------------------------------------------------------
Exec == \/ ExecOther \/ ExecQuit \/ ExecAbor
        \/ \E d \in Dts : ExecPasv(d) \/ ExecPort(d)
        \/ \E j \in Jobs, k \in Foreground \union Background : ExecTransfer(j, k)

Serve == \/ LoopTest \/ ScanLine \/ ScanEnd \/ SetExecuting \/ CheckShutdown \/ Exec
         \/ AborSet \/ AborClose \/ DialOk \/ DialFails \/ Install
         \/ WaitOver \/ WaitTimeout \/ Done \/ Exit \/ Untrack

Close(p) == CloseEnter(p) \/ CloseDt(p) \/ CloseRwc(p)

ListenLoop(d) == Accept(d) \/ AcceptFails(d) \/ Withdraw(d) \/ ListenEnd(d) \/ ReleasePort(d)

Job(j) == \/ OpenOk(j) \/ OpenFails(j) \/ CallConn(j) \/ Receive(j) \/ ReceiveFails(j)
          \/ StoreConn(j) \/ Finish(j) \/ JobCloseDt(j) \/ JobCloseRwc(j)

Shutdown == SdLock \/ SdSet \/ SdCheck \/ SdClose \/ SdEnd
Kill     == KillStart \/ KillEnd

\* Everything that can end has ended.
Terminated ==
    /\ srv = "gone" /\ sd \in {"off", "end"} /\ cl["server"] \in {"off", "end"}
    /\ \A j \in Jobs : job[j] \in {"none", "end"}
    /\ UNCHANGED vars

Next == \/ Serve
        \/ \E p \in {"serve", "server"} : Close(p)
        \/ \E d \in Dts : ListenLoop(d)
        \/ \E j \in Jobs : Job(j)
        \/ Shutdown \/ Kill \/ Hangup \/ Terminated

Spec == Init /\ [][Next]_vars

\* serve and the job j write a reply (or wait for c.mu, which another reply or
\* the handshake of AUTH TLS holds).  A connection that is still writing its
\* greeting is as idle as one that waits for a line, and is taken for one.
ServeReplies  == srv = "done" \/ (srv = "check" /\ shuttingDown)
JobReplies(j) == job[j] \in {"conn", "reply"}

\* What each goroutine does by itself.  The client's part is left out: to send
\* commands, to take replies and shake hands, to connect, and to end a copy over
\* an open data connection.
ServeAlone  == Serve /\ ~ScanLine /\ (ServeReplies => Taken)
ListenAlone(d) == (over[d] /\ AcceptFails(d)) \/ Withdraw(d) \/ ListenEnd(d) \/ ReleasePort(d)
JobAlone(j) ==
    /\ Job(j)
    /\ job[j] = "run" => sock[jdt[j]] = "closed"
    /\ JobReplies(j) => Taken

\* Goroutines run, contexts expire, and a mutex is handed to those who wait for
\* it (sync.Mutex starves nobody), which makes the fairness strong.
Fairness ==
    /\ SF_vars(ServeAlone)
    /\ \A p \in {"serve", "server"} : SF_vars(Close(p))
    /\ \A d \in Dts : SF_vars(ListenAlone(d))
    /\ \A j \in Jobs : SF_vars(JobAlone(j))
    /\ WF_vars(sd # "off" /\ Shutdown) /\ WF_vars(KillEnd)

FairSpec == Spec /\ Fairness

-----------------------------------------------------------------------------
(* Properties *)

\* The current transfer was never closed, so that the next setDataTransfer
\* does not close its channel twice (which would panic), and each passive
\* transfer that is not closed yet is the current one, or serve is about to
\* install it: no goroutine can lose a listener that it should close.
Unclosed(d) == kind[d] = "passive" /\ ~over[d]

OneOpenTransfer ==
    /\ dt # Empty => ~over[dt]
    /\ \A d \in Dts : Unclosed(d) => dt = d \/ (srv = "setdt" /\ cmd = d)

\* "executing" and "shuttingDown" are each written before the other is read
\* (serve and Server.Shutdown): Shutdown never closes the control connection
\* of a command that passed its test.
Executing == srv \in {"exec", "dial", "setdt", "abor", "abor2", "wait", "done"}

ShutdownSparesCommands == sd = "close" => ~Executing

\* Each transfer command gets one final reply, unless the minute of RETR ends
\* while its goroutine still goes on; then it can get two.
OneFinalReply ==
    \A j \in Jobs :
        /\ job[j] = "end" => replies[j] >= 1
        /\ replies[j] > 1 => jkind[j] = "RETR" /\ jstop[j]

\* A control connection that ended without Server.Close left no transfer
\* behind: every passive one is closed.
NothingLeft ==
    srv = "gone" /\ cl["server"] = "off" => dt = Empty /\ \A d \in Dts : ~Unclosed(d)

\* Between a command that passed its test and the next line, or while there is
\* a data transfer, the connection is busy; it ends as soon as it is closed, or
\* is told to and is not busy.
Busy == Executing \/ dt # Empty

Phase ==
    IF srv = "gone" THEN "gone"
    ELSE IF once # "no" \/ rwc = "closed" \/ (shuttingDown /\ ~Busy) THEN "ending"
    ELSE IF Busy THEN "busy"
    ELSE "idle"

\* The connection keeps what Server expects of it: no command begins after
\* "shuttingDown" was set, whoever set it, and a connection that is to end
\* comes to rest no more.
Outside == INSTANCE Connection WITH phase <- Phase, told <- shuttingDown

ImplementsConnection == Outside!Spec

\* Whatever its listen goroutine is doing, a passive transfer that was closed
\* gives its port back.
PortsReturned == \A d \in Dts : over[d] ~> lis[d] = "released"


\* What a client can keep the connection busy with: a data transfer that it never
\* uses or never ends; a reply that it does not take; and, without any time limit
\* (conn.go:209), the handshake of AUTH TLS that it does not go on with.
WaitsForClient ==
    \/ dt # Empty
    \/ ~Taken /\ (ServeReplies \/ (srv = "wait" /\ JobReplies(cmd)))


\* "gracefully shuts down the server without interrupting any active data
\* transfers" (server.go:377): as long as the client stays and sends no command
\* that ends its transfer, the server closes no data connection that a job
\* copies over, neither at the next command nor without one.
ShutdownSparesTransfers ==
    sd # "off" /\ client = "here" /\ cl["server"] = "off"
      => \A j \in Jobs : job[j] = "run" /\ ~jstop[j] => sock[jdt[j]] = "open"

\* "Close closes all connections including the data transfer connection"
\* (conn.go:231): the passive listener that waits for it, and the connection
\* that a job copies over.
CloseEndsTransfers ==
    srv = "gone" =>
        /\ \A d \in Dts : ~Unclosed(d)
        /\ \A j \in Jobs : job[j] = "run" => sock[jdt[j]] # "open"
=============================================================================
