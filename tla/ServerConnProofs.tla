-------------------------- MODULE ServerConnProofs --------------------------
(***************************************************************************)
(* Proofs about ServerConn for any number of data transfers and of jobs,   *)
(* any commands of the client and any calls from outside.                  *)
(***************************************************************************)
EXTENDS ServerConn, TLAPS

\* The current transfer and the one serve is about to install.
TransferInv ==
    /\ dt # Empty => ~over[dt] /\ kind[dt] # "unused"
    /\ \A d \in Dts : Unclosed(d) => dt = d \/ (srv = "setdt" /\ cmd = d)
    /\ srv = "setdt" => /\ cmd \in Dts /\ cmd # dt
                        /\ ~over[cmd] /\ kind[cmd] # "unused"
    /\ srv = "dial" => cmd \in Dts /\ kind[cmd] = "unused"
    /\ \A d \in Dts : over[d] => kind[d] = "passive"

\* Shutdown tests a flag that serve has set, and the other way round.
ShutdownInv ==
    /\ sd \in {"check", "close"} => shuttingDown
    /\ srv = "check" \/ Executing => executing
    /\ sd = "close" => ~Executing

\* How many final replies a job has had so far.
Underway(j) == job[j] \in {"none", "open", "conn", "recv", "got", "run"}
Answered(j) == job[j] \in {"reply", "close", "end"}

JobInv(j) ==
    /\ Underway(j) => replies[j] = IF jkind[j] = "RETR" /\ jstop[j] THEN 1 ELSE 0
    /\ job[j] = "failed" => replies[j] = 0 /\ jkind[j] = "RETR" /\ ~jstop[j]
    /\ Answered(j) => /\ replies[j] >= 1
                      /\ replies[j] > 1 => jkind[j] = "RETR" /\ jstop[j]
    /\ job[j] = "none" => ~jstop[j]
    /\ job[j] \in {"recv", "got"} => jdt[j] \in Dts
    /\ srv = "wait" /\ cmd = j => ~jstop[j] /\ job[j] # "none"

ReplyInv ==
    /\ srv = "wait" => cmd \in Jobs
    /\ \A j \in Jobs : JobInv(j)

\* Without Server.Close, serve's own c.Close is the one that closes.
ClosingInv ==
    /\ srv \notin {"closing", "gone"} => cl["serve"] = "off"
    /\ srv = "closing" => cl["serve"] \in {"enter", "dt", "rwc", "back"}
    /\ srv = "gone" => cl["serve"] = "end"
    /\ cl["server"] = "off" =>
          /\ cl["serve"] \in {"off", "enter"} => once = "no"
          /\ cl["serve"] \in {"rwc", "back", "end"} => dt = Empty

\* Whoever has closed the connection, or is about to, has set shuttingDown.
EndingInv ==
    /\ once # "no" => shuttingDown
    /\ rwc = "closed" => shuttingDown
    /\ \A p \in {"serve", "server"} : cl[p] \in {"dt", "rwc", "back"} => once # "no"
    /\ srv = "gone" => once # "no"

IInv == TypeOK /\ TransferInv /\ ShutdownInv /\ ReplyInv /\ ClosingInv /\ EndingInv

-----------------------------------------------------------------------------
(* What the helpers of the steps do *)

\* setDataTransfer (transfer.go:250) keeps the types of what it writes, and
\* writes nothing else of the transfers.
LEMMA InstallType ==
    ASSUME TypeOK, NEW new \in Dts \union {Empty}, setDataTransfer(new)
    PROVE  /\ dt' \in Dts \union {Empty}
           /\ over' \in [Dts -> BOOLEAN]
           /\ sock' \in [Dts -> {"none", "open", "closed"}]
           /\ UNCHANGED << kind, lis, tconn >>
  BY DEF TypeOK, setDataTransfer, CloseTransfer

\* A job that fails before its copy has a reply left to give, so that the count
\* stays within its type (the error paths of command.go:660-721).
LEMMA FailType ==
    ASSUME TypeOK, ReplyInv, NEW j \in Jobs, NEW from \in {"open", "conn", "recv"},
           Fail(j, from)
    PROVE  /\ job' \in [Jobs -> JobStates]
           /\ replies' \in [Jobs -> 0 .. 2]
           /\ UNCHANGED << jkind, jstop >>
  BY DEF TypeOK, Fail, Reply, JobStates, ReplyInv, JobInv, Underway

\* setDataTransfer closes the transfer it replaces, if that one is passive,
\* and no other (transfer.go:250-256).
LEMMA Installed ==
    ASSUME TypeOK, NEW new \in Dts \union {Empty}, setDataTransfer(new)
    PROVE  /\ dt' = new /\ kind' = kind
           /\ \A d \in Dts : over'[d] = IF d = dt THEN kind[d] = "passive" ELSE over[d]
<1>1. dt' = new /\ kind' = kind
  BY DEF setDataTransfer
<1>2. CASE dt = Empty
  BY <1>1, <1>2, ServerConnAssumption DEF setDataTransfer, CloseTransfer
<1>3. CASE dt # Empty
  <2>1. over' = [over EXCEPT ![dt] = kind[dt] = "passive"]
    BY <1>3 DEF setDataTransfer, CloseTransfer
  <2>2. over \in [Dts -> BOOLEAN]
    BY DEF TypeOK
  <2> QED BY <1>1, <2>1, <2>2
<1> QED BY <1>2, <1>3

-----------------------------------------------------------------------------
(* Each step preserves each part of the invariant *)

\* Types.  A final reply is counted within 0 .. 2 because a job that can
\* still get one had none, or only the 553 of the minute that ran out.
LEMMA TypeStep ==
    ASSUME TypeOK, TransferInv, ReplyInv, [Next]_vars
    PROVE  TypeOK'
<1> USE ServerConnAssumption DEF TypeOK, SrvStates, LisStates, JobStates,
   ShutdownStates, CloseStates, vars, srvVars, ctlVars, dtVars, jobVars,
   outVars
<1>1. CASE Serve
  <2>1. CASE LoopTest
    BY <2>1 DEF LoopTest
  <2>2. CASE ScanLine
    BY <2>2 DEF ScanLine, SrvGoto
  <2>3. CASE ScanEnd
    BY <2>3 DEF ScanEnd, SrvGoto
  <2>4. CASE SetExecuting
    BY <2>4 DEF SetExecuting, SrvGoto
  <2>5. CASE CheckShutdown
    BY <2>5 DEF CheckShutdown
  <2>6. CASE ExecOther
    BY <2>6 DEF ExecOther, SrvGoto
  <2>7. CASE ExecQuit
    BY <2>7 DEF ExecQuit, SrvGoto
  <2>8. CASE ExecAbor
    BY <2>8 DEF ExecAbor, SrvGoto
  <2>9. ASSUME NEW d \in Dts, ExecPasv(d) PROVE TypeOK'
    BY <2>9 DEF ExecPasv, SrvGoto
  <2>10. ASSUME NEW d \in Dts, ExecPort(d) PROVE TypeOK'
    BY <2>10 DEF ExecPort, SrvGoto
  <2>11. ASSUME NEW j \in Jobs, NEW k \in Foreground \union Background,
                ExecTransfer(j, k)
         PROVE  TypeOK'
    BY <2>11 DEF ExecTransfer, SrvGoto
  <2>12. CASE AborSet
    <3>1. /\ dt' \in Dts \union {Empty}
          /\ over' \in [Dts -> BOOLEAN]
          /\ sock' \in [Dts -> {"none", "open", "closed"}]
          /\ UNCHANGED << kind, lis, tconn >>
      BY <2>12, InstallType DEF AborSet
    <3> QED BY <2>12, <3>1 DEF AborSet, SrvGoto
  <2>13. CASE AborClose
    BY <2>13 DEF AborClose, SrvGoto, CloseIfShuttingDown
  <2>14. CASE DialOk
    BY <2>14 DEF DialOk, SrvGoto, TransferInv
  <2>15. CASE DialFails
    BY <2>15 DEF DialFails, SrvGoto
  <2>16. CASE Install
    <3>1. srv' \in SrvStates /\ cmd' = NoCmd /\ cmd \in Dts
      BY <2>16 DEF Install, SrvGoto, TransferInv
    <3>2. /\ dt' \in Dts \union {Empty}
          /\ over' \in [Dts -> BOOLEAN]
          /\ sock' \in [Dts -> {"none", "open", "closed"}]
          /\ UNCHANGED << kind, lis, tconn >>
      BY <2>16, <3>1, InstallType DEF Install
    <3> QED BY <2>16, <3>1, <3>2 DEF Install
  <2>17. CASE WaitOver
    <3>1. srv' \in SrvStates /\ cmd' = NoCmd /\ cmd \in Jobs
      BY <2>17 DEF WaitOver, SrvGoto, ReplyInv
    <3>2. replies' \in [Jobs -> 0 .. 2]
      BY <2>17, <3>1 DEF WaitOver, Reply, ReplyInv, JobInv
    <3>3. job' \in [Jobs -> JobStates]
      BY <2>17 DEF WaitOver
    <3> QED BY <2>17, <3>1, <3>2, <3>3 DEF WaitOver
  <2>18. CASE WaitTimeout
    <3>1. srv' \in SrvStates /\ cmd' = NoCmd /\ cmd \in Jobs
      BY <2>18 DEF WaitTimeout, SrvGoto, ReplyInv
    <3>2. replies' \in [Jobs -> 0 .. 2]
      BY <2>18, <3>1 DEF WaitTimeout, SrvGoto, Reply, ReplyInv, JobInv,
         Underway, Answered
    <3>3. job' \in [Jobs -> JobStates]
      BY <2>18 DEF WaitTimeout
    <3>4. jstop' \in [Jobs -> BOOLEAN]
      BY <2>18 DEF WaitTimeout
    <3> QED BY <2>18, <3>1, <3>2, <3>3, <3>4 DEF WaitTimeout
  <2>19. CASE Done
    <3>1. executing' \in BOOLEAN
      BY <2>19, Zenon DEF Done
    <3> QED BY <2>19, <3>1 DEF Done, SrvGoto
  <2>20. CASE Exit
    BY <2>20 DEF Exit, SrvGoto
  <2>21. CASE Untrack
    <3>1. tracked' \in BOOLEAN
      BY <2>21, Zenon DEF Untrack
    <3>2. cl' \in [{"serve", "server"} -> CloseStates]
      BY <2>21 DEF Untrack
    <3> QED BY <2>21, <3>1, <3>2 DEF Untrack, SrvGoto
  <2> QED BY <1>1, <2>1, <2>2, <2>3, <2>4, <2>5, <2>6, <2>7, <2>8, <2>9,
     <2>10, <2>11, <2>12, <2>13, <2>14, <2>15, <2>16, <2>17, <2>18, <2>19,
     <2>20, <2>21 DEF Serve, Exec
<1>2. ASSUME NEW p \in {"serve", "server"}, Close(p) PROVE TypeOK'
  <2>1. CASE CloseEnter(p)
    <3>1. shuttingDown' \in BOOLEAN
      BY <2>1, Zenon DEF CloseEnter
    <3>2. once' \in {"no", "run", "done"}
      BY <2>1 DEF CloseEnter
    <3>3. cl' \in [{"serve", "server"} -> CloseStates]
      BY <2>1 DEF CloseEnter, ClGoto
    <3> QED BY <2>1, <3>1, <3>2, <3>3 DEF CloseEnter
  <2>2. CASE CloseDt(p)
    <3>1. /\ dt' \in Dts \union {Empty}
          /\ over' \in [Dts -> BOOLEAN]
          /\ sock' \in [Dts -> {"none", "open", "closed"}]
          /\ UNCHANGED << kind, lis, tconn >>
      BY <2>2, InstallType DEF CloseDt
    <3>2. cl' \in [{"serve", "server"} -> CloseStates]
      BY <2>2 DEF CloseDt, ClGoto
    <3> QED BY <2>2, <3>1, <3>2 DEF CloseDt
  <2>3. CASE CloseRwc(p)
    BY <2>3 DEF CloseRwc, ClGoto
  <2> QED BY <1>2, <2>1, <2>2, <2>3 DEF Close
<1>3. ASSUME NEW d \in Dts, ListenLoop(d) PROVE TypeOK'
  <2>1. CASE Accept(d)
    BY <2>1 DEF Accept, LisGoto
  <2>2. CASE AcceptFails(d)
    BY <2>2 DEF AcceptFails, LisGoto
  <2>3. CASE Withdraw(d)
    BY <2>3 DEF Withdraw, LisGoto
  <2>4. CASE ListenEnd(d)
    BY <2>4 DEF ListenEnd, LisGoto
  <2>5. CASE ReleasePort(d)
    BY <2>5 DEF ReleasePort, LisGoto
  <2> QED BY <1>3, <2>1, <2>2, <2>3, <2>4, <2>5 DEF ListenLoop
<1>4. ASSUME NEW j \in Jobs, Job(j) PROVE TypeOK'
  <2>1. CASE OpenOk(j)
    BY <2>1 DEF OpenOk, JobGoto
  <2>2. CASE OpenFails(j)
    <3>1. job' \in [Jobs -> JobStates] /\ replies' \in [Jobs -> 0 .. 2]
          /\ UNCHANGED << jkind, jstop >>
      BY <2>2, FailType DEF OpenFails
    <3> QED BY <2>2, <3>1 DEF OpenFails
  <2>3. CASE CallConn(j)
    <3>1. job' \in [Jobs -> JobStates] /\ replies' \in [Jobs -> 0 .. 2]
          /\ UNCHANGED << jkind, jstop >>
      BY <2>3, FailType DEF CallConn, JobGoto
    <3>2. jdt' \in [Jobs -> Dts \union {Empty}]
      BY <2>3 DEF CallConn
    <3> QED BY <2>3, <3>1, <3>2 DEF CallConn
  <2>4. CASE Receive(j)
    <3>1. lis' \in [Dts -> LisStates]
      BY <2>4 DEF Receive, LisGoto
    <3>2. job' \in [Jobs -> JobStates]
      BY <2>4 DEF Receive, JobGoto
    <3> QED BY <2>4, <3>1, <3>2 DEF Receive
  <2>5. CASE ReceiveFails(j)
    <3>1. job' \in [Jobs -> JobStates] /\ replies' \in [Jobs -> 0 .. 2]
          /\ UNCHANGED << jkind, jstop >>
      BY <2>5, FailType DEF ReceiveFails
    <3>2. lis' \in [Dts -> LisStates]
      BY <2>5 DEF ReceiveFails, LisGoto
    <3> QED BY <2>5, <3>1, <3>2 DEF ReceiveFails
  <2>6. CASE StoreConn(j)
    <3>1. tconn' \in [Dts -> BOOLEAN]
      BY <2>6 DEF StoreConn
    <3>2. job' \in [Jobs -> JobStates]
      BY <2>6 DEF StoreConn, JobGoto
    <3> QED BY <2>6, <3>1, <3>2 DEF StoreConn
  <2>7. CASE Finish(j)
    <3>1. replies' \in [Jobs -> 0 .. 2]
      BY <2>7 DEF Finish, JobGoto, ReplyInv, JobInv, Underway, Reply
    <3>2. job' \in [Jobs -> JobStates]
      BY <2>7 DEF Finish, JobGoto
    <3> QED BY <2>7, <3>1, <3>2 DEF Finish
  <2>8. CASE JobCloseDt(j)
    <3>1. /\ dt' \in Dts \union {Empty}
          /\ over' \in [Dts -> BOOLEAN]
          /\ sock' \in [Dts -> {"none", "open", "closed"}]
          /\ UNCHANGED << kind, lis, tconn >>
      BY <2>8, InstallType DEF JobCloseDt
    <3>2. job' \in [Jobs -> JobStates]
      BY <2>8 DEF JobCloseDt, JobGoto
    <3> QED BY <2>8, <3>1, <3>2 DEF JobCloseDt
  <2>9. CASE JobCloseRwc(j)
    BY <2>9 DEF JobCloseRwc, CloseIfShuttingDown, JobGoto
  <2> QED BY <1>4, <2>1, <2>2, <2>3, <2>4, <2>5, <2>6, <2>7, <2>8, <2>9 DEF
     Job
<1>5. CASE Shutdown
  <2>1. CASE SdLock
    BY <2>1 DEF SdLock, SdGoto
  <2>2. CASE SdSet
    <3>1. sd' \in ShutdownStates /\ mu' \in {"free", "Shutdown", "Close"}
      BY <2>2 DEF SdSet
    <3>2. shuttingDown' \in BOOLEAN
      BY <2>2, Zenon DEF SdSet
    <3> QED BY <2>2, <3>1, <3>2 DEF SdSet
  <2>3. CASE SdCheck
    BY <2>3 DEF SdCheck
  <2>4. CASE SdClose
    BY <2>4 DEF SdClose, SdGoto
  <2>5. CASE SdEnd
    BY <2>5 DEF SdEnd, SdGoto
  <2> QED BY <1>5, <2>1, <2>2, <2>3, <2>4, <2>5 DEF Shutdown
<1>6. CASE Kill
  <2>1. CASE KillStart
    BY <2>1 DEF KillStart, ClGoto
  <2>2. CASE KillEnd
    <3>1. tracked' \in BOOLEAN
      BY <2>2, Zenon DEF KillEnd
    <3>2. cl' \in [{"serve", "server"} -> CloseStates]
      BY <2>2 DEF KillEnd, ClGoto
    <3> QED BY <2>2, <3>1, <3>2 DEF KillEnd
  <2> QED BY <1>6, <2>1, <2>2 DEF Kill
<1>7. CASE Hangup
  BY <1>7 DEF Hangup
<1>8. CASE Terminated \/ UNCHANGED vars
  BY <1>8 DEF Terminated
<1> QED BY <1>1, <1>2, <1>3, <1>4, <1>5, <1>6, <1>7, <1>8 DEF Next

\* The current transfer.  Only setDataTransfer, the constructors and the
\* steps of serve around them disturb it.
LEMMA TransferStep ==
    ASSUME TypeOK, TransferInv, [Next]_vars
    PROVE  TransferInv'
<1> USE ServerConnAssumption DEF TransferInv, Unclosed, vars, srvVars,
   ctlVars, dtVars, jobVars, outVars
<1>1. CASE Serve
  <2>1. CASE LoopTest
    BY <2>1 DEF LoopTest
  <2>2. CASE ScanLine
    BY <2>2 DEF ScanLine, SrvGoto
  <2>3. CASE ScanEnd
    BY <2>3 DEF ScanEnd, SrvGoto
  <2>4. CASE SetExecuting
    BY <2>4 DEF SetExecuting, SrvGoto
  <2>5. CASE CheckShutdown
    BY <2>5 DEF CheckShutdown
  <2>6. CASE ExecOther
    BY <2>6 DEF ExecOther, SrvGoto
  <2>7. CASE ExecQuit
    BY <2>7 DEF ExecQuit, SrvGoto
  <2>8. CASE ExecAbor
    BY <2>8 DEF ExecAbor, SrvGoto
  <2>9. ASSUME NEW d \in Dts, ExecPasv(d) PROVE TransferInv'
    BY <2>9 DEF ExecPasv, SrvGoto, TypeOK
  <2>10. ASSUME NEW d \in Dts, ExecPort(d) PROVE TransferInv'
    BY <2>10 DEF ExecPort, SrvGoto, TypeOK
  <2>11. ASSUME NEW j \in Jobs, NEW k \in Foreground \union Background,
                ExecTransfer(j, k)
         PROVE  TransferInv'
    BY <2>11 DEF ExecTransfer, SrvGoto
  <2>12. CASE AborSet
    <3>1. /\ dt' = Empty /\ kind' = kind
          /\ \A d \in Dts : over'[d] = IF d = dt THEN kind[d] = "passive" ELSE over[d]
      BY <2>12, Installed DEF AborSet
    <3> QED BY <2>12, <3>1 DEF AborSet, SrvGoto
  <2>13. CASE AborClose
    BY <2>13 DEF AborClose, SrvGoto, CloseIfShuttingDown
  <2>14. CASE DialOk
    BY <2>14 DEF DialOk, SrvGoto, TypeOK
  <2>15. CASE DialFails
    BY <2>15 DEF DialFails, SrvGoto
  <2>16. CASE Install
    <3>1. cmd \in Dts /\ cmd # dt /\ ~over[cmd] /\ kind[cmd] # "unused"
      BY <2>16 DEF Install, SrvGoto
    <3>2. /\ dt' = cmd /\ kind' = kind
          /\ \A d \in Dts : over'[d] = IF d = dt THEN kind[d] = "passive" ELSE over[d]
      BY <2>16, <3>1, Installed DEF Install
    <3>3. srv' = "done"
      BY <2>16 DEF Install, SrvGoto
    <3> QED BY <3>1, <3>2, <3>3, <2>16 DEF Install, SrvGoto
  <2>17. CASE WaitOver
    BY <2>17 DEF WaitOver, SrvGoto, Reply
  <2>18. CASE WaitTimeout
    BY <2>18 DEF WaitTimeout, SrvGoto, Reply
  <2>19. CASE Done
    BY <2>19 DEF Done, SrvGoto
  <2>20. CASE Exit
    BY <2>20 DEF Exit, SrvGoto
  <2>21. CASE Untrack
    BY <2>21 DEF Untrack, SrvGoto
  <2> QED BY <1>1, <2>1, <2>2, <2>3, <2>4, <2>5, <2>6, <2>7, <2>8, <2>9,
     <2>10, <2>11, <2>12, <2>13, <2>14, <2>15, <2>16, <2>17, <2>18, <2>19,
     <2>20, <2>21 DEF Serve, Exec
<1>2. ASSUME NEW p \in {"serve", "server"}, Close(p) PROVE TransferInv'
  <2>1. CASE CloseEnter(p)
    BY <2>1 DEF CloseEnter, ClGoto
  <2>2. CASE CloseDt(p)
    <3>1. /\ dt' = Empty /\ kind' = kind
          /\ \A d \in Dts : over'[d] = IF d = dt THEN kind[d] = "passive" ELSE over[d]
      BY <2>2, Installed DEF CloseDt
    <3> QED BY <2>2, <3>1 DEF CloseDt
  <2>3. CASE CloseRwc(p)
    BY <2>3 DEF CloseRwc, ClGoto
  <2> QED BY <1>2, <2>1, <2>2, <2>3 DEF Close
<1>3. ASSUME NEW d \in Dts, ListenLoop(d) PROVE TransferInv'
  <2>1. CASE Accept(d)
    BY <2>1 DEF Accept, LisGoto
  <2>2. CASE AcceptFails(d)
    BY <2>2 DEF AcceptFails, LisGoto
  <2>3. CASE Withdraw(d)
    BY <2>3 DEF Withdraw, LisGoto
  <2>4. CASE ListenEnd(d)
    BY <2>4 DEF ListenEnd, LisGoto
  <2>5. CASE ReleasePort(d)
    BY <2>5 DEF ReleasePort, LisGoto
  <2> QED BY <1>3, <2>1, <2>2, <2>3, <2>4, <2>5 DEF ListenLoop
<1>4. ASSUME NEW j \in Jobs, Job(j) PROVE TransferInv'
  <2>1. CASE OpenOk(j)
    BY <2>1 DEF OpenOk, JobGoto
  <2>2. CASE OpenFails(j)
    BY <2>2 DEF OpenFails, Fail, Reply
  <2>3. CASE CallConn(j)
    BY <2>3 DEF CallConn, Fail, JobGoto, Reply
  <2>4. CASE Receive(j)
    BY <2>4 DEF Receive, JobGoto, LisGoto
  <2>5. CASE ReceiveFails(j)
    BY <2>5 DEF ReceiveFails, Fail, LisGoto, Reply
  <2>6. CASE StoreConn(j)
    BY <2>6 DEF StoreConn, JobGoto
  <2>7. CASE Finish(j)
    BY <2>7 DEF Finish, JobGoto, Reply
  <2>8. CASE JobCloseDt(j)
    <3>1. /\ dt' = Empty /\ kind' = kind
          /\ \A d \in Dts : over'[d] = IF d = dt THEN kind[d] = "passive" ELSE over[d]
      BY <2>8, Installed DEF JobCloseDt
    <3> QED BY <2>8, <3>1 DEF JobCloseDt
  <2>9. CASE JobCloseRwc(j)
    BY <2>9 DEF JobCloseRwc, CloseIfShuttingDown, JobGoto
  <2> QED BY <1>4, <2>1, <2>2, <2>3, <2>4, <2>5, <2>6, <2>7, <2>8, <2>9 DEF
     Job
<1>5. CASE Shutdown
  <2>1. CASE SdLock
    BY <2>1 DEF SdLock, SdGoto
  <2>2. CASE SdSet
    BY <2>2 DEF SdSet
  <2>3. CASE SdCheck
    BY <2>3 DEF SdCheck
  <2>4. CASE SdClose
    BY <2>4 DEF SdClose, SdGoto
  <2>5. CASE SdEnd
    BY <2>5 DEF SdEnd, SdGoto
  <2> QED BY <1>5, <2>1, <2>2, <2>3, <2>4, <2>5 DEF Shutdown
<1>6. CASE Kill
  <2>1. CASE KillStart
    BY <2>1 DEF KillStart, ClGoto
  <2>2. CASE KillEnd
    BY <2>2 DEF KillEnd, ClGoto
  <2> QED BY <1>6, <2>1, <2>2 DEF Kill
<1>7. CASE Hangup
  BY <1>7 DEF Hangup
<1>8. CASE Terminated \/ UNCHANGED vars
  BY <1>8 DEF Terminated
<1> QED BY <1>1, <1>2, <1>3, <1>4, <1>5, <1>6, <1>7, <1>8 DEF Next

\* The two flags: serve sets one before it reads the other (conn.go:98-106),
\* and Shutdown does the same the other way round (conn.go:248-275).
LEMMA ShutdownStep ==
    ASSUME ShutdownInv, [Next]_vars
    PROVE  ShutdownInv'
<1> USE DEF ShutdownInv, Executing, vars, srvVars, ctlVars, dtVars, jobVars,
   outVars
<1>1. CASE Serve
  <2>1. CASE LoopTest
    BY <2>1 DEF LoopTest
  <2>2. CASE ScanLine
    BY <2>2 DEF ScanLine, SrvGoto
  <2>3. CASE ScanEnd
    BY <2>3 DEF ScanEnd, SrvGoto
  <2>4. CASE SetExecuting
    BY <2>4 DEF SetExecuting, SrvGoto
  <2>5. CASE CheckShutdown
    BY <2>5 DEF CheckShutdown
  <2>6. CASE ExecOther
    BY <2>6 DEF ExecOther, SrvGoto
  <2>7. CASE ExecQuit
    BY <2>7 DEF ExecQuit, SrvGoto
  <2>8. CASE ExecAbor
    BY <2>8 DEF ExecAbor, SrvGoto
  <2>9. ASSUME NEW d \in Dts, ExecPasv(d) PROVE ShutdownInv'
    BY <2>9 DEF ExecPasv, SrvGoto
  <2>10. ASSUME NEW d \in Dts, ExecPort(d) PROVE ShutdownInv'
    BY <2>10 DEF ExecPort, SrvGoto
  <2>11. ASSUME NEW j \in Jobs, NEW k \in Foreground \union Background,
                ExecTransfer(j, k)
         PROVE  ShutdownInv'
    BY <2>11 DEF ExecTransfer, SrvGoto
  <2>12. CASE AborSet
    BY <2>12 DEF AborSet, SrvGoto, setDataTransfer, CloseTransfer
  <2>13. CASE AborClose
    BY <2>13 DEF AborClose, SrvGoto, CloseIfShuttingDown
  <2>14. CASE DialOk
    BY <2>14 DEF DialOk, SrvGoto
  <2>15. CASE DialFails
    BY <2>15 DEF DialFails, SrvGoto
  <2>16. CASE Install
    BY <2>16 DEF Install, SrvGoto, setDataTransfer, CloseTransfer
  <2>17. CASE WaitOver
    BY <2>17 DEF WaitOver, SrvGoto, Reply
  <2>18. CASE WaitTimeout
    BY <2>18 DEF WaitTimeout, SrvGoto, Reply
  <2>19. CASE Done
    BY <2>19 DEF Done, SrvGoto
  <2>20. CASE Exit
    BY <2>20 DEF Exit, SrvGoto
  <2>21. CASE Untrack
    BY <2>21 DEF Untrack, SrvGoto
  <2> QED BY <1>1, <2>1, <2>2, <2>3, <2>4, <2>5, <2>6, <2>7, <2>8, <2>9,
     <2>10, <2>11, <2>12, <2>13, <2>14, <2>15, <2>16, <2>17, <2>18, <2>19,
     <2>20, <2>21 DEF Serve, Exec
<1>2. ASSUME NEW p \in {"serve", "server"}, Close(p) PROVE ShutdownInv'
  <2>1. CASE CloseEnter(p)
    BY <2>1 DEF CloseEnter, ClGoto
  <2>2. CASE CloseDt(p)
    BY <2>2 DEF CloseDt, ClGoto, setDataTransfer, CloseTransfer
  <2>3. CASE CloseRwc(p)
    BY <2>3 DEF CloseRwc, ClGoto
  <2> QED BY <1>2, <2>1, <2>2, <2>3 DEF Close
<1>3. ASSUME NEW d \in Dts, ListenLoop(d) PROVE ShutdownInv'
  <2>1. CASE Accept(d)
    BY <2>1 DEF Accept, LisGoto
  <2>2. CASE AcceptFails(d)
    BY <2>2 DEF AcceptFails, LisGoto
  <2>3. CASE Withdraw(d)
    BY <2>3 DEF Withdraw, LisGoto
  <2>4. CASE ListenEnd(d)
    BY <2>4 DEF ListenEnd, LisGoto
  <2>5. CASE ReleasePort(d)
    BY <2>5 DEF ReleasePort, LisGoto
  <2> QED BY <1>3, <2>1, <2>2, <2>3, <2>4, <2>5 DEF ListenLoop
<1>4. ASSUME NEW j \in Jobs, Job(j) PROVE ShutdownInv'
  <2>1. CASE OpenOk(j)
    BY <2>1 DEF OpenOk, JobGoto
  <2>2. CASE OpenFails(j)
    BY <2>2 DEF OpenFails, Fail, Reply
  <2>3. CASE CallConn(j)
    BY <2>3 DEF CallConn, Fail, JobGoto, Reply
  <2>4. CASE Receive(j)
    BY <2>4 DEF Receive, JobGoto, LisGoto
  <2>5. CASE ReceiveFails(j)
    BY <2>5 DEF ReceiveFails, Fail, LisGoto, Reply
  <2>6. CASE StoreConn(j)
    BY <2>6 DEF StoreConn, JobGoto
  <2>7. CASE Finish(j)
    BY <2>7 DEF Finish, JobGoto, Reply
  <2>8. CASE JobCloseDt(j)
    BY <2>8 DEF JobCloseDt, setDataTransfer, CloseTransfer, JobGoto
  <2>9. CASE JobCloseRwc(j)
    BY <2>9 DEF JobCloseRwc, CloseIfShuttingDown, JobGoto
  <2> QED BY <1>4, <2>1, <2>2, <2>3, <2>4, <2>5, <2>6, <2>7, <2>8, <2>9 DEF
     Job
<1>5. CASE Shutdown
  <2>1. CASE SdLock
    BY <2>1 DEF SdLock, SdGoto
  <2>2. CASE SdSet
    BY <2>2 DEF SdSet
  <2>3. CASE SdCheck
    BY <2>3 DEF SdCheck
  <2>4. CASE SdClose
    BY <2>4 DEF SdClose, SdGoto
  <2>5. CASE SdEnd
    BY <2>5 DEF SdEnd, SdGoto
  <2> QED BY <1>5, <2>1, <2>2, <2>3, <2>4, <2>5 DEF Shutdown
<1>6. CASE Kill
  <2>1. CASE KillStart
    BY <2>1 DEF KillStart, ClGoto
  <2>2. CASE KillEnd
    BY <2>2 DEF KillEnd, ClGoto
  <2> QED BY <1>6, <2>1, <2>2 DEF Kill
<1>7. CASE Hangup
  BY <1>7 DEF Hangup
<1>8. CASE Terminated \/ UNCHANGED vars
  BY <1>8 DEF Terminated
<1> QED BY <1>1, <1>2, <1>3, <1>4, <1>5, <1>6, <1>7, <1>8 DEF Next

\* Final replies: who replies to a transfer command, the goroutine or serve,
\* is settled by jstop and by the state of the job (command.go:660-721).
LEMMA ReplyStep ==
    ASSUME TypeOK, TransferInv, ReplyInv, [Next]_vars
    PROVE  ReplyInv'
<1> USE ServerConnAssumption DEF TypeOK, ReplyInv, JobInv, Underway, Answered,
   vars, srvVars, ctlVars, dtVars, jobVars, outVars
<1>1. CASE Serve
  <2>1. CASE LoopTest
    BY <2>1 DEF LoopTest
  <2>2. CASE ScanLine
    BY <2>2 DEF ScanLine, SrvGoto
  <2>3. CASE ScanEnd
    BY <2>3 DEF ScanEnd, SrvGoto
  <2>4. CASE SetExecuting
    BY <2>4 DEF SetExecuting, SrvGoto
  <2>5. CASE CheckShutdown
    BY <2>5 DEF CheckShutdown
  <2>6. CASE ExecOther
    BY <2>6 DEF ExecOther, SrvGoto
  <2>7. CASE ExecQuit
    BY <2>7 DEF ExecQuit, SrvGoto
  <2>8. CASE ExecAbor
    BY <2>8 DEF ExecAbor, SrvGoto
  <2>9. ASSUME NEW d \in Dts, ExecPasv(d) PROVE ReplyInv'
    BY <2>9 DEF ExecPasv, SrvGoto
  <2>10. ASSUME NEW d \in Dts, ExecPort(d) PROVE ReplyInv'
    BY <2>10 DEF ExecPort, SrvGoto
  <2>11. ASSUME NEW j \in Jobs, NEW k \in Foreground \union Background,
                ExecTransfer(j, k)
         PROVE  ReplyInv'
    BY <2>11 DEF ExecTransfer, SrvGoto
  <2>12. CASE AborSet
    BY <2>12 DEF AborSet, SrvGoto, setDataTransfer, CloseTransfer
  <2>13. CASE AborClose
    BY <2>13 DEF AborClose, SrvGoto, CloseIfShuttingDown
  <2>14. CASE DialOk
    BY <2>14 DEF DialOk, SrvGoto
  <2>15. CASE DialFails
    BY <2>15 DEF DialFails, SrvGoto
  <2>16. CASE Install
    BY <2>16 DEF Install, SrvGoto, setDataTransfer, CloseTransfer
  <2>17. CASE WaitOver
    BY <2>17 DEF WaitOver, SrvGoto, Reply
  <2>18. CASE WaitTimeout
    BY <2>18 DEF WaitTimeout, SrvGoto, Reply
  <2>19. CASE Done
    BY <2>19 DEF Done, SrvGoto
  <2>20. CASE Exit
    BY <2>20 DEF Exit, SrvGoto
  <2>21. CASE Untrack
    BY <2>21 DEF Untrack, SrvGoto
  <2> QED BY <1>1, <2>1, <2>2, <2>3, <2>4, <2>5, <2>6, <2>7, <2>8, <2>9,
     <2>10, <2>11, <2>12, <2>13, <2>14, <2>15, <2>16, <2>17, <2>18, <2>19,
     <2>20, <2>21 DEF Serve, Exec
<1>2. ASSUME NEW p \in {"serve", "server"}, Close(p) PROVE ReplyInv'
  <2>1. CASE CloseEnter(p)
    BY <2>1 DEF CloseEnter, ClGoto
  <2>2. CASE CloseDt(p)
    BY <2>2 DEF CloseDt, ClGoto, setDataTransfer, CloseTransfer
  <2>3. CASE CloseRwc(p)
    BY <2>3 DEF CloseRwc, ClGoto
  <2> QED BY <1>2, <2>1, <2>2, <2>3 DEF Close
<1>3. ASSUME NEW d \in Dts, ListenLoop(d) PROVE ReplyInv'
  <2>1. CASE Accept(d)
    BY <2>1 DEF Accept, LisGoto
  <2>2. CASE AcceptFails(d)
    BY <2>2 DEF AcceptFails, LisGoto
  <2>3. CASE Withdraw(d)
    BY <2>3 DEF Withdraw, LisGoto
  <2>4. CASE ListenEnd(d)
    BY <2>4 DEF ListenEnd, LisGoto
  <2>5. CASE ReleasePort(d)
    BY <2>5 DEF ReleasePort, LisGoto
  <2> QED BY <1>3, <2>1, <2>2, <2>3, <2>4, <2>5 DEF ListenLoop
<1>4. ASSUME NEW j \in Jobs, Job(j) PROVE ReplyInv'
  <2>1. CASE OpenOk(j)
    BY <2>1 DEF OpenOk, JobGoto
  <2>2. CASE OpenFails(j)
    BY <2>2 DEF OpenFails, Fail, Reply
  <2>3. CASE CallConn(j)
    BY <2>3 DEF CallConn, Fail, JobGoto, Reply
  <2>4. CASE Receive(j)
    BY <2>4 DEF Receive, JobGoto, LisGoto
  <2>5. CASE ReceiveFails(j)
    BY <2>5 DEF ReceiveFails, Fail, LisGoto, Reply
  <2>6. CASE StoreConn(j)
    BY <2>6 DEF StoreConn, JobGoto
  <2>7. CASE Finish(j)
    BY <2>7 DEF Finish, JobGoto, Reply
  <2>8. CASE JobCloseDt(j)
    BY <2>8 DEF JobCloseDt, setDataTransfer, CloseTransfer, JobGoto
  <2>9. CASE JobCloseRwc(j)
    BY <2>9 DEF JobCloseRwc, CloseIfShuttingDown, JobGoto
  <2> QED BY <1>4, <2>1, <2>2, <2>3, <2>4, <2>5, <2>6, <2>7, <2>8, <2>9 DEF
     Job
<1>5. CASE Shutdown
  <2>1. CASE SdLock
    BY <2>1 DEF SdLock, SdGoto
  <2>2. CASE SdSet
    BY <2>2 DEF SdSet
  <2>3. CASE SdCheck
    BY <2>3 DEF SdCheck
  <2>4. CASE SdClose
    BY <2>4 DEF SdClose, SdGoto
  <2>5. CASE SdEnd
    BY <2>5 DEF SdEnd, SdGoto
  <2> QED BY <1>5, <2>1, <2>2, <2>3, <2>4, <2>5 DEF Shutdown
<1>6. CASE Kill
  <2>1. CASE KillStart
    BY <2>1 DEF KillStart, ClGoto
  <2>2. CASE KillEnd
    BY <2>2 DEF KillEnd, ClGoto
  <2> QED BY <1>6, <2>1, <2>2 DEF Kill
<1>7. CASE Hangup
  BY <1>7 DEF Hangup
<1>8. CASE Terminated \/ UNCHANGED vars
  BY <1>8 DEF Terminated
<1> QED BY <1>1, <1>2, <1>3, <1>4, <1>5, <1>6, <1>7, <1>8 DEF Next

\* Closing: as long as Server.Close stays away, serve's own call is the one
\* that closeOnce runs, and no transfer is installed after it (conn.go:231-246).
LEMMA ClosingStep ==
    ASSUME TypeOK, TransferInv, ClosingInv, [Next]_vars
    PROVE  ClosingInv'
<1> USE ServerConnAssumption DEF TypeOK, ClosingInv, vars, srvVars, ctlVars,
   dtVars, jobVars, outVars
<1>1. CASE Serve
  <2>1. CASE LoopTest
    BY <2>1 DEF LoopTest
  <2>2. CASE ScanLine
    BY <2>2 DEF ScanLine, SrvGoto
  <2>3. CASE ScanEnd
    BY <2>3 DEF ScanEnd, SrvGoto
  <2>4. CASE SetExecuting
    BY <2>4 DEF SetExecuting, SrvGoto
  <2>5. CASE CheckShutdown
    BY <2>5 DEF CheckShutdown
  <2>6. CASE ExecOther
    BY <2>6 DEF ExecOther, SrvGoto
  <2>7. CASE ExecQuit
    BY <2>7 DEF ExecQuit, SrvGoto
  <2>8. CASE ExecAbor
    BY <2>8 DEF ExecAbor, SrvGoto
  <2>9. ASSUME NEW d \in Dts, ExecPasv(d) PROVE ClosingInv'
    BY <2>9 DEF ExecPasv, SrvGoto
  <2>10. ASSUME NEW d \in Dts, ExecPort(d) PROVE ClosingInv'
    BY <2>10 DEF ExecPort, SrvGoto
  <2>11. ASSUME NEW j \in Jobs, NEW k \in Foreground \union Background,
                ExecTransfer(j, k)
         PROVE  ClosingInv'
    BY <2>11 DEF ExecTransfer, SrvGoto
  <2>12. CASE AborSet
    BY <2>12 DEF AborSet, SrvGoto, setDataTransfer, CloseTransfer
  <2>13. CASE AborClose
    BY <2>13 DEF AborClose, SrvGoto, CloseIfShuttingDown
  <2>14. CASE DialOk
    BY <2>14 DEF DialOk, SrvGoto
  <2>15. CASE DialFails
    BY <2>15 DEF DialFails, SrvGoto
  <2>16. CASE Install
    BY <2>16 DEF Install, SrvGoto, setDataTransfer, CloseTransfer
  <2>17. CASE WaitOver
    BY <2>17 DEF WaitOver, SrvGoto, Reply
  <2>18. CASE WaitTimeout
    BY <2>18 DEF WaitTimeout, SrvGoto, Reply
  <2>19. CASE Done
    BY <2>19 DEF Done, SrvGoto
  <2>20. CASE Exit
    BY <2>20 DEF Exit, SrvGoto
  <2>21. CASE Untrack
    BY <2>21 DEF Untrack, SrvGoto
  <2> QED BY <1>1, <2>1, <2>2, <2>3, <2>4, <2>5, <2>6, <2>7, <2>8, <2>9,
     <2>10, <2>11, <2>12, <2>13, <2>14, <2>15, <2>16, <2>17, <2>18, <2>19,
     <2>20, <2>21 DEF Serve, Exec
<1>2. ASSUME NEW p \in {"serve", "server"}, Close(p) PROVE ClosingInv'
  <2>1. CASE CloseEnter(p)
    BY <2>1 DEF CloseEnter, ClGoto
  <2>2. CASE CloseDt(p)
    BY <2>2 DEF CloseDt, ClGoto, setDataTransfer, CloseTransfer
  <2>3. CASE CloseRwc(p)
    BY <2>3 DEF CloseRwc, ClGoto
  <2> QED BY <1>2, <2>1, <2>2, <2>3 DEF Close
<1>3. ASSUME NEW d \in Dts, ListenLoop(d) PROVE ClosingInv'
  <2>1. CASE Accept(d)
    BY <2>1 DEF Accept, LisGoto
  <2>2. CASE AcceptFails(d)
    BY <2>2 DEF AcceptFails, LisGoto
  <2>3. CASE Withdraw(d)
    BY <2>3 DEF Withdraw, LisGoto
  <2>4. CASE ListenEnd(d)
    BY <2>4 DEF ListenEnd, LisGoto
  <2>5. CASE ReleasePort(d)
    BY <2>5 DEF ReleasePort, LisGoto
  <2> QED BY <1>3, <2>1, <2>2, <2>3, <2>4, <2>5 DEF ListenLoop
<1>4. ASSUME NEW j \in Jobs, Job(j) PROVE ClosingInv'
  <2>1. CASE OpenOk(j)
    BY <2>1 DEF OpenOk, JobGoto
  <2>2. CASE OpenFails(j)
    BY <2>2 DEF OpenFails, Fail, Reply
  <2>3. CASE CallConn(j)
    BY <2>3 DEF CallConn, Fail, JobGoto, Reply
  <2>4. CASE Receive(j)
    BY <2>4 DEF Receive, JobGoto, LisGoto
  <2>5. CASE ReceiveFails(j)
    BY <2>5 DEF ReceiveFails, Fail, LisGoto, Reply
  <2>6. CASE StoreConn(j)
    BY <2>6 DEF StoreConn, JobGoto
  <2>7. CASE Finish(j)
    BY <2>7 DEF Finish, JobGoto, Reply
  <2>8. CASE JobCloseDt(j)
    BY <2>8 DEF JobCloseDt, setDataTransfer, CloseTransfer, JobGoto
  <2>9. CASE JobCloseRwc(j)
    BY <2>9 DEF JobCloseRwc, CloseIfShuttingDown, JobGoto
  <2> QED BY <1>4, <2>1, <2>2, <2>3, <2>4, <2>5, <2>6, <2>7, <2>8, <2>9 DEF
     Job
<1>5. CASE Shutdown
  <2>1. CASE SdLock
    BY <2>1 DEF SdLock, SdGoto
  <2>2. CASE SdSet
    BY <2>2 DEF SdSet
  <2>3. CASE SdCheck
    BY <2>3 DEF SdCheck
  <2>4. CASE SdClose
    BY <2>4 DEF SdClose, SdGoto
  <2>5. CASE SdEnd
    BY <2>5 DEF SdEnd, SdGoto
  <2> QED BY <1>5, <2>1, <2>2, <2>3, <2>4, <2>5 DEF Shutdown
<1>6. CASE Kill
  <2>1. CASE KillStart
    BY <2>1 DEF KillStart, ClGoto
  <2>2. CASE KillEnd
    BY <2>2 DEF KillEnd, ClGoto
  <2> QED BY <1>6, <2>1, <2>2 DEF Kill
<1>7. CASE Hangup
  BY <1>7 DEF Hangup
<1>8. CASE Terminated \/ UNCHANGED vars
  BY <1>8 DEF Terminated
<1> QED BY <1>1, <1>2, <1>3, <1>4, <1>5, <1>6, <1>7, <1>8 DEF Next

\* The flag: every path to rwc.Close has set or tested it (transfer.go:257,
\* conn.go:231, conn.go:267).
LEMMA EndingStep ==
    ASSUME TypeOK, ShutdownInv, EndingInv, [Next]_vars
    PROVE  EndingInv'
<1> USE DEF TypeOK, ShutdownInv, EndingInv, vars, srvVars, ctlVars,
   dtVars, jobVars, outVars
<1>1. CASE Serve
  <2>1. CASE LoopTest
    BY <2>1 DEF LoopTest
  <2>2. CASE ScanLine
    BY <2>2 DEF ScanLine, SrvGoto
  <2>3. CASE ScanEnd
    BY <2>3 DEF ScanEnd, SrvGoto
  <2>4. CASE SetExecuting
    BY <2>4 DEF SetExecuting, SrvGoto
  <2>5. CASE CheckShutdown
    BY <2>5 DEF CheckShutdown
  <2>6. CASE ExecOther
    BY <2>6 DEF ExecOther, SrvGoto
  <2>7. CASE ExecQuit
    BY <2>7 DEF ExecQuit, SrvGoto
  <2>8. CASE ExecAbor
    BY <2>8 DEF ExecAbor, SrvGoto
  <2>9. ASSUME NEW d \in Dts, ExecPasv(d) PROVE EndingInv'
    BY <2>9 DEF ExecPasv, SrvGoto
  <2>10. ASSUME NEW d \in Dts, ExecPort(d) PROVE EndingInv'
    BY <2>10 DEF ExecPort, SrvGoto
  <2>11. ASSUME NEW j \in Jobs, NEW k \in Foreground \union Background,
                ExecTransfer(j, k)
         PROVE  EndingInv'
    BY <2>11 DEF ExecTransfer, SrvGoto
  <2>12. CASE AborSet
    BY <2>12 DEF AborSet, SrvGoto, setDataTransfer, CloseTransfer
  <2>13. CASE AborClose
    BY <2>13 DEF AborClose, SrvGoto, CloseIfShuttingDown
  <2>14. CASE DialOk
    BY <2>14 DEF DialOk, SrvGoto
  <2>15. CASE DialFails
    BY <2>15 DEF DialFails, SrvGoto
  <2>16. CASE Install
    BY <2>16 DEF Install, SrvGoto, setDataTransfer, CloseTransfer
  <2>17. CASE WaitOver
    BY <2>17 DEF WaitOver, SrvGoto, Reply
  <2>18. CASE WaitTimeout
    BY <2>18 DEF WaitTimeout, SrvGoto, Reply
  <2>19. CASE Done
    BY <2>19 DEF Done, SrvGoto
  <2>20. CASE Exit
    BY <2>20 DEF Exit, SrvGoto
  <2>21. CASE Untrack
    BY <2>21 DEF Untrack, SrvGoto
  <2> QED BY <1>1, <2>1, <2>2, <2>3, <2>4, <2>5, <2>6, <2>7, <2>8, <2>9,
     <2>10, <2>11, <2>12, <2>13, <2>14, <2>15, <2>16, <2>17, <2>18, <2>19,
     <2>20, <2>21 DEF Serve, Exec
<1>2. ASSUME NEW p \in {"serve", "server"}, Close(p) PROVE EndingInv'
  <2>1. CASE CloseEnter(p)
    BY <2>1 DEF CloseEnter, ClGoto
  <2>2. CASE CloseDt(p)
    BY <2>2 DEF CloseDt, ClGoto, setDataTransfer, CloseTransfer
  <2>3. CASE CloseRwc(p)
    BY <2>3 DEF CloseRwc, ClGoto
  <2> QED BY <1>2, <2>1, <2>2, <2>3 DEF Close
<1>3. ASSUME NEW d \in Dts, ListenLoop(d) PROVE EndingInv'
  <2>1. CASE Accept(d)
    BY <2>1 DEF Accept, LisGoto
  <2>2. CASE AcceptFails(d)
    BY <2>2 DEF AcceptFails, LisGoto
  <2>3. CASE Withdraw(d)
    BY <2>3 DEF Withdraw, LisGoto
  <2>4. CASE ListenEnd(d)
    BY <2>4 DEF ListenEnd, LisGoto
  <2>5. CASE ReleasePort(d)
    BY <2>5 DEF ReleasePort, LisGoto
  <2> QED BY <1>3, <2>1, <2>2, <2>3, <2>4, <2>5 DEF ListenLoop
<1>4. ASSUME NEW j \in Jobs, Job(j) PROVE EndingInv'
  <2>1. CASE OpenOk(j)
    BY <2>1 DEF OpenOk, JobGoto
  <2>2. CASE OpenFails(j)
    BY <2>2 DEF OpenFails, Fail, Reply
  <2>3. CASE CallConn(j)
    BY <2>3 DEF CallConn, Fail, JobGoto, Reply
  <2>4. CASE Receive(j)
    BY <2>4 DEF Receive, JobGoto, LisGoto
  <2>5. CASE ReceiveFails(j)
    BY <2>5 DEF ReceiveFails, Fail, LisGoto, Reply
  <2>6. CASE StoreConn(j)
    BY <2>6 DEF StoreConn, JobGoto
  <2>7. CASE Finish(j)
    BY <2>7 DEF Finish, JobGoto, Reply
  <2>8. CASE JobCloseDt(j)
    BY <2>8 DEF JobCloseDt, setDataTransfer, CloseTransfer, JobGoto
  <2>9. CASE JobCloseRwc(j)
    BY <2>9 DEF JobCloseRwc, CloseIfShuttingDown, JobGoto
  <2> QED BY <1>4, <2>1, <2>2, <2>3, <2>4, <2>5, <2>6, <2>7, <2>8, <2>9 DEF
     Job
<1>5. CASE Shutdown
  <2>1. CASE SdLock
    BY <2>1 DEF SdLock, SdGoto
  <2>2. CASE SdSet
    BY <2>2 DEF SdSet
  <2>3. CASE SdCheck
    BY <2>3 DEF SdCheck
  <2>4. CASE SdClose
    BY <2>4 DEF SdClose, SdGoto
  <2>5. CASE SdEnd
    BY <2>5 DEF SdEnd, SdGoto
  <2> QED BY <1>5, <2>1, <2>2, <2>3, <2>4, <2>5 DEF Shutdown
<1>6. CASE Kill
  <2>1. CASE KillStart
    BY <2>1 DEF KillStart, ClGoto
  <2>2. CASE KillEnd
    BY <2>2 DEF KillEnd, ClGoto
  <2> QED BY <1>6, <2>1, <2>2 DEF Kill
<1>7. CASE Hangup
  BY <1>7 DEF Hangup
<1>8. CASE Terminated \/ UNCHANGED vars
  BY <1>8 DEF Terminated
<1> QED BY <1>1, <1>2, <1>3, <1>4, <1>5, <1>6, <1>7, <1>8 DEF Next

\* The initial state satisfies the invariant ...
LEMMA Initial == Init => IInv
<1> SUFFICES ASSUME Init PROVE IInv
  OBVIOUS
<1>1. TypeOK
  <2>1. executing \in BOOLEAN /\ shuttingDown \in BOOLEAN /\ cancelled \in BOOLEAN
    BY Zenon DEF Init
  <2>2. /\ srv \in SrvStates /\ cmd \in Dts \union Jobs \union {NoCmd}
        /\ once \in {"no", "run", "done"}
        /\ rwc \in {"open", "closed"} /\ client \in {"here", "gone"}
        /\ dt \in Dts \union {Empty}
        /\ mu \in {"free", "Shutdown", "Close"} /\ tracked \in BOOLEAN
        /\ sd \in ShutdownStates
        /\ cl \in [{"serve", "server"} -> CloseStates]
    BY DEF Init, SrvStates, ShutdownStates, CloseStates
  <2>3. /\ kind \in [Dts -> {"unused", "passive", "active"}]
        /\ lis \in [Dts -> LisStates]
        /\ over \in [Dts -> BOOLEAN] /\ tconn \in [Dts -> BOOLEAN]
        /\ sock \in [Dts -> {"none", "open", "closed"}]
    BY DEF Init, LisStates
  <2>4. /\ job \in [Jobs -> JobStates]
        /\ jkind \in [Jobs -> Commands \union {"none"}]
        /\ jdt \in [Jobs -> Dts \union {Empty}]
        /\ jstop \in [Jobs -> BOOLEAN]
        /\ replies \in [Jobs -> 0 .. 2]
    BY DEF Init, JobStates
  <2> QED BY <2>1, <2>2, <2>3, <2>4 DEF TypeOK
<1>2. TransferInv
  BY DEF Init, TransferInv, Unclosed
<1>3. ShutdownInv
  BY DEF Init, ShutdownInv, Executing
<1>4. ReplyInv
  BY DEF Init, ReplyInv, JobInv, Underway, Answered
<1>5. ClosingInv /\ EndingInv
  BY DEF Init, ClosingInv, EndingInv
<1> QED BY <1>1, <1>2, <1>3, <1>4, <1>5 DEF IInv

\* ... and every step preserves it.
LEMMA Inductive == IInv /\ [Next]_vars => IInv'
<1> SUFFICES ASSUME IInv, [Next]_vars PROVE IInv'
  OBVIOUS
<1>1. TypeOK /\ TransferInv /\ ShutdownInv /\ ReplyInv /\ ClosingInv /\ EndingInv
  BY DEF IInv
<1>2. TypeOK'
  BY <1>1, TypeStep
<1>3. TransferInv'
  BY <1>1, TransferStep
<1>4. ShutdownInv'
  BY <1>1, ShutdownStep
<1>5. ReplyInv'
  BY <1>1, ReplyStep
<1>6. ClosingInv'
  BY <1>1, ClosingStep
<1>7. EndingInv'
  BY <1>1, EndingStep
<1> QED BY <1>2, <1>3, <1>4, <1>5, <1>6, <1>7 DEF IInv

\* Every reachable state satisfies the invariant.
LEMMA Invariance == Spec => []IInv
  BY Initial, Inductive, PTL DEF Spec

-----------------------------------------------------------------------------
(* Results *)

\* Every variable has its type, whatever the goroutines, the client and the
\* calls from outside do; in particular a transfer command of the client
\* (conn.go:121, command.go) gets two final replies at the most.
THEOREM TypeCorrect == Spec => []TypeOK
<1>1. IInv => TypeOK
  BY DEF IInv
<1> QED BY <1>1, Invariance, PTL

\* The data transfer the connection holds was never closed before, so that no
\* step closes a channel twice (transfer.go:228), and a passive one that is
\* not closed is the one the connection holds or is about to hold: none gets
\* lost among setDataTransfer, closeDataTransfer and close (transfer.go:250,
\* conn.go:236), however many transfers and jobs there are.
THEOREM TransfersOwned == Spec => []OneOpenTransfer
<1>1. IInv => OneOpenTransfer
  BY DEF IInv, TransferInv, OneOpenTransfer
<1> QED BY <1>1, Invariance, PTL

\* Server.Shutdown closes no control connection while a command that passed
\* its test of the flag is executed (conn.go:121, conn.go:267).
THEOREM CommandsSpared == Spec => []ShutdownSparesCommands
<1>1. IInv => ShutdownSparesCommands
  BY DEF IInv, ShutdownInv, ShutdownSparesCommands
<1> QED BY <1>1, Invariance, PTL

\* A job that has ended was answered, and once only unless it is a RETR whose
\* minute ran out (command.go:660).
THEOREM RepliesOnce == Spec => []OneFinalReply
<1>1. IInv => OneFinalReply
  <2>1. ASSUME IInv, NEW j \in Jobs
        PROVE  /\ job[j] = "end" => replies[j] >= 1
               /\ replies[j] > 1 => jkind[j] = "RETR" /\ jstop[j]
    BY <2>1 DEF IInv, TypeOK, ReplyInv, JobInv, Underway, Answered, JobStates
  <2> QED BY <2>1 DEF OneFinalReply
<1> QED BY <1>1, Invariance, PTL

\* A connection that ended without Server.Close holds no data transfer, and
\* every passive one was closed (conn.go:236).
THEOREM ClosedBehind == Spec => []NothingLeft
<1>1. IInv => NothingLeft
  BY ServerConnAssumption DEF IInv, TransferInv, ClosingInv, NothingLeft
<1> QED BY <1>1, Invariance, PTL

-----------------------------------------------------------------------------
(* ServerConn implements Connection *)

\* What Phase depends on.
Kept ==
    /\ UNCHANGED << once, rwc, shuttingDown, dt >>
    /\ Executing' = Executing
    /\ srv' = "gone" <=> srv = "gone"

Mapped == [Outside!Next]_<< Phase, shuttingDown >>

\* Steps that leave it alone are none of Connection.
LEMMA KeptMaps == Kept => Mapped
  BY DEF Kept, Mapped, Phase, Busy

\* A step that closes the connection ends it, if nothing has ended it before.
LEMMA ClosedMaps ==
    ASSUME TypeOK, TypeOK', EndingInv, EndingInv', srv' = srv, once' # "no" \/ rwc' = "closed"
    PROVE  Mapped
<1>1. shuttingDown' = TRUE
  BY DEF TypeOK, EndingInv
<1>2. CASE srv = "gone"
  <2>1. Phase' = Phase
    BY <1>2 DEF Phase
  <2>2. shuttingDown = TRUE
    BY <1>2 DEF TypeOK, EndingInv
  <2> QED BY <1>1, <2>1, <2>2 DEF Mapped
<1>3. CASE srv # "gone"
  <2>1. Phase' = "ending" /\ Phase \in {"ending", "busy", "idle"}
    BY <1>3 DEF Phase
  <2>2. Phase = "ending" => shuttingDown = TRUE
    BY <1>3 DEF Phase, TypeOK, EndingInv
  <2>3. Outside!End \/ UNCHANGED << Phase, shuttingDown >>
    BY <1>1, <2>1, <2>2 DEF Outside!End
  <2> QED BY <2>3 DEF Mapped, Outside!Next
<1> QED BY <1>2, <1>3

\* Whatever serve does: commands begin in CheckShutdown only.
LEMMA ServeMaps ==
    ASSUME TypeOK, EndingInv, Serve
    PROVE  Mapped
<1> USE DEF vars, srvVars, ctlVars, dtVars, jobVars, outVars
<1>1. CASE LoopTest \/ ScanLine \/ ScanEnd \/ SetExecuting \/ Exit
  <2>1. Kept
    BY <1>1 DEF Kept, LoopTest, ScanLine, ScanEnd, SetExecuting, Exit, SrvGoto, Executing
  <2> QED BY <2>1, KeptMaps
<1>2. CASE CheckShutdown
  <2>1. CASE shuttingDown
    <3>1. Kept
      BY <1>2, <2>1 DEF Kept, CheckShutdown, Executing
    <3> QED BY <3>1, KeptMaps
  <2>2. CASE ~shuttingDown
    <3>1. once = "no" /\ rwc # "closed" /\ UNCHANGED << once, rwc, shuttingDown, dt >>
      BY <1>2, <2>2 DEF CheckShutdown, EndingInv
    <3>2. srv = "check" /\ srv' = "exec" /\ ~Executing /\ Executing'
      BY <1>2, <2>2 DEF CheckShutdown, Executing
    <3>3. Phase = (IF dt = Empty THEN "idle" ELSE "busy") /\ Phase' = "busy"
      BY <2>2, <3>1, <3>2 DEF Phase, Busy
    <3>4. Outside!Begin \/ UNCHANGED << Phase, shuttingDown >>
      BY <2>2, <3>1, <3>3 DEF Outside!Begin
    <3> QED BY <3>4 DEF Mapped, Outside!Next
  <2> QED BY <2>1, <2>2
<1>3. CASE ExecQuit
  <2>1. Executing /\ Executing' /\ shuttingDown' /\ srv # "gone" /\ srv' # "gone"
        /\ UNCHANGED << once, rwc >>
    BY <1>3 DEF ExecQuit, SrvGoto, Executing
  <2>2. Phase' = Phase /\ Phase # "idle"
    BY <2>1 DEF Phase, Busy
  <2>3. shuttingDown' = TRUE
    BY <1>3 DEF ExecQuit
  <2>4. Outside!Tell
    BY <2>2, <2>3 DEF Outside!Tell
  <2> QED BY <2>4 DEF Mapped, Outside!Next
<1>4. CASE ExecOther \/ ExecAbor \/ DialOk \/ DialFails \/ WaitOver \/ WaitTimeout
  <2>1. Kept
    BY <1>4 DEF Kept, ExecOther, ExecAbor, DialOk, DialFails, WaitOver, WaitTimeout, SrvGoto,
       Executing
  <2> QED BY <2>1, KeptMaps
<1>5. ASSUME NEW d \in Dts, ExecPasv(d) \/ ExecPort(d) PROVE Mapped
  <2>1. Kept
    BY <1>5 DEF Kept, ExecPasv, ExecPort, SrvGoto, Executing
  <2> QED BY <2>1, KeptMaps
<1>6. ASSUME NEW j \in Jobs, NEW k \in Foreground \union Background, ExecTransfer(j, k)
      PROVE  Mapped
  <2>1. Kept
    BY <1>6 DEF Kept, ExecTransfer, SrvGoto, Executing
  <2> QED BY <2>1, KeptMaps
<1>7. CASE AborSet \/ Install
  <2>1. Executing /\ Executing' /\ srv # "gone" /\ srv' # "gone"
        /\ UNCHANGED << once, rwc, shuttingDown >>
    BY <1>7 DEF AborSet, Install, SrvGoto, Executing
  <2>2. Phase' = Phase
    BY <2>1 DEF Phase, Busy
  <2> QED BY <2>1, <2>2 DEF Mapped
<1>8. CASE AborClose
  <2>1. Executing /\ Executing' /\ srv # "gone" /\ srv' # "gone"
        /\ UNCHANGED << once, shuttingDown >>
    BY <1>8 DEF AborClose, SrvGoto, Executing
  <2>2. rwc' = IF shuttingDown THEN "closed" ELSE rwc
    BY <1>8 DEF AborClose, CloseIfShuttingDown
  <2>3. CASE ~shuttingDown
    BY <2>1, <2>2, <2>3 DEF Mapped, Phase, Busy
  <2>4. CASE shuttingDown
    <3>1. Phase \in {"busy", "ending"} /\ Phase' = "ending" /\ shuttingDown' = shuttingDown
      BY <2>1, <2>2, <2>4 DEF Phase, Busy
    <3>2. shuttingDown = TRUE
      BY <2>4 DEF TypeOK
    <3>3. Outside!End \/ UNCHANGED << Phase, shuttingDown >>
      BY <3>1, <3>2 DEF Outside!End
    <3> QED BY <3>3 DEF Mapped, Outside!Next
  <2> QED BY <2>3, <2>4
<1>9. CASE Done
  <2>1. Executing /\ ~Executing' /\ srv # "gone" /\ srv' # "gone"
        /\ UNCHANGED << once, rwc, shuttingDown, dt >>
    BY <1>9 DEF Done, SrvGoto, Executing
  <2>2. CASE once # "no" \/ rwc = "closed" \/ dt # Empty
    BY <2>1, <2>2 DEF Mapped, Phase, Busy
  <2>3. CASE once = "no" /\ rwc # "closed" /\ dt = Empty
    <3>1. Phase = "busy" /\ Phase' = IF shuttingDown THEN "ending" ELSE "idle"
      BY <2>1, <2>3 DEF Phase, Busy
    <3>2. Outside!Rest \/ Outside!End
      BY <2>1, <3>1 DEF Outside!Rest, Outside!End, TypeOK
    <3> QED BY <3>2 DEF Mapped, Outside!Next
  <2> QED BY <2>2, <2>3
<1>10. CASE Untrack
  <2>1. once # "no" /\ srv # "gone" /\ srv' = "gone" /\ shuttingDown' = shuttingDown
    BY <1>10 DEF Untrack, SrvGoto, EndingInv
  <2>2. Phase = "ending" /\ Phase' = "gone"
    BY <2>1 DEF Phase
  <2>3. Outside!Leave
    BY <2>1, <2>2 DEF Outside!Leave
  <2> QED BY <2>3 DEF Mapped, Outside!Next
<1> QED BY <1>1, <1>2, <1>3, <1>4, <1>5, <1>6, <1>7, <1>8, <1>9, <1>10 DEF Serve, Exec

\* Whatever a job does: its last step may end a connection that was told to.
LEMMA JobMaps ==
    ASSUME TypeOK, TypeOK', EndingInv, EndingInv', NEW j \in Jobs, Job(j)
    PROVE  Mapped
<1> USE DEF vars, srvVars, ctlVars, dtVars, jobVars, outVars
<1>1. CASE OpenOk(j) \/ OpenFails(j) \/ CallConn(j) \/ Receive(j) \/ ReceiveFails(j)
           \/ StoreConn(j) \/ Finish(j)
  <2>1. Kept
    BY <1>1 DEF Kept, OpenOk, OpenFails, CallConn, Receive, ReceiveFails, StoreConn, Finish,
       Executing
  <2> QED BY <2>1, KeptMaps
<1>2. CASE JobCloseDt(j)
  <2>1. /\ UNCHANGED << srv, once, rwc, shuttingDown >> /\ dt' = Empty
        /\ Executing' = Executing
    BY <1>2 DEF JobCloseDt, setDataTransfer, Executing
  <2>2. CASE once # "no" \/ rwc = "closed"
    BY <2>1, <2>2, ClosedMaps
  <2>3. CASE once = "no" /\ rwc # "closed" /\ (Executing \/ dt = Empty)
    BY <2>1, <2>3 DEF Mapped, Phase, Busy
  <2>4. CASE once = "no" /\ rwc # "closed" /\ ~Executing /\ dt # Empty
    <3>1. srv # "gone"
      BY <2>4 DEF EndingInv
    <3>2. Phase = "busy" /\ Phase' = IF shuttingDown THEN "ending" ELSE "idle"
      BY <2>1, <2>4, <3>1 DEF Phase, Busy
    <3>3. Outside!Rest \/ Outside!End
      BY <2>1, <3>2 DEF Outside!Rest, Outside!End, TypeOK
    <3> QED BY <3>3 DEF Mapped, Outside!Next
  <2> QED BY <2>2, <2>3, <2>4
<1>3. CASE JobCloseRwc(j)
  <2>1. srv' = srv /\ rwc' = IF shuttingDown THEN "closed" ELSE rwc
    BY <1>3 DEF JobCloseRwc, CloseIfShuttingDown
  <2>2. CASE shuttingDown
    BY <2>1, <2>2, ClosedMaps
  <2>3. CASE ~shuttingDown
    <3>1. Kept
      BY <1>3, <2>1, <2>3 DEF Kept, JobCloseRwc, Executing
    <3> QED BY <3>1, KeptMaps
  <2> QED BY <2>2, <2>3
<1> QED BY <1>1, <1>2, <1>3 DEF Job

\* What comes from outside: Shutdown tells the connection to end before it
\* looks whether it is idle (conn.go:267).
LEMMA OutsideMaps ==
    ASSUME TypeOK, TypeOK', EndingInv, EndingInv', Shutdown \/ Kill \/ Hangup
    PROVE  Mapped
<1> USE DEF vars, srvVars, ctlVars, dtVars, jobVars, outVars
<1>1. CASE SdLock \/ SdCheck \/ SdEnd \/ Kill \/ Hangup
  <2>1. Kept
    BY <1>1 DEF Kept, SdLock, SdCheck, SdEnd, Kill, KillStart, KillEnd, Hangup, Executing
  <2> QED BY <2>1, KeptMaps
<1>2. CASE SdSet
  <2>1. CASE ~tracked
    <3>1. Kept
      BY <1>2, <2>1 DEF Kept, SdSet, Executing
    <3> QED BY <3>1, KeptMaps
  <2>2. CASE tracked
    <3>1. UNCHANGED << srv, once, rwc, dt >> /\ Executing' = Executing /\ shuttingDown' = TRUE
      BY <1>2, <2>2 DEF SdSet, Executing
    <3>2. Phase' = IF Phase = "idle" THEN "ending" ELSE Phase
      BY <3>1 DEF Phase, Busy
    <3>3. Outside!Tell
      BY <3>1, <3>2 DEF Outside!Tell
    <3> QED BY <3>3 DEF Mapped, Outside!Next
  <2> QED BY <2>1, <2>2
<1>3. CASE SdClose
  <2>1. srv' = srv /\ rwc' = "closed"
    BY <1>3 DEF SdClose
  <2> QED BY <2>1, ClosedMaps
<1> QED BY <1>1, <1>2, <1>3 DEF Shutdown

\* Every step of the connection and of all that runs on its behalf.
LEMMA StepMaps ==
    ASSUME TypeOK, TypeOK', EndingInv, EndingInv', [Next]_vars
    PROVE  Mapped
<1> USE DEF vars, srvVars, ctlVars, dtVars, jobVars, outVars
<1>1. ASSUME NEW p \in {"serve", "server"}, Close(p) PROVE Mapped
  <2>1. srv' = srv /\ once' # "no"
    BY <1>1 DEF Close, CloseEnter, CloseDt, CloseRwc, ClGoto, EndingInv
  <2> QED BY <2>1, ClosedMaps
<1>2. ASSUME NEW d \in Dts, ListenLoop(d) PROVE Mapped
  <2>1. Kept
    BY <1>2 DEF Kept, ListenLoop, Accept, AcceptFails, Withdraw, ListenEnd, ReleasePort,
       Executing
  <2> QED BY <2>1, KeptMaps
<1>3. CASE Terminated \/ UNCHANGED vars
  <2>1. Kept
    BY <1>3 DEF Kept, Terminated, Executing
  <2> QED BY <2>1, KeptMaps
<1> QED BY <1>1, <1>2, <1>3, ServeMaps, JobMaps, OutsideMaps DEF Next

\* To the server the connection is as Connection promises: it begins no command
\* once "shuttingDown" is set, whoever sets it, and it comes to rest no more
\* (serve, conn.go:96, against Close, shutdown and closeDataTransfer).
THEOREM Refinement == Spec => ImplementsConnection
<1>1. Init => Outside!Init
  BY DEF Init, Outside!Init, Phase, Busy, Executing
<1>2. IInv /\ IInv' /\ [Next]_vars => [Outside!Next]_<< Phase, shuttingDown >>
  BY StepMaps DEF IInv, Mapped
<1> QED BY <1>1, <1>2, Invariance, PTL DEF Spec, ImplementsConnection, Outside!Spec
=============================================================================
