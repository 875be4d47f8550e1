------------------------------ MODULE Session ------------------------------
(***************************************************************************)
(* Sessions of clients that log in and work on files (ftp/command.go).     *)
(* Most commands run until they have their result; STOR, APPE and RNTO     *)
(* leave a goroutine behind, which goes on while the session takes other   *)
(* commands, and also after the session has ended.  Several sessions share *)
(* the bucket.                                                             *)
(*                                                                         *)
(* A job is what one command does to the file system; each of its steps is *)
(* one request to S3, which may fail, or be done without an answer.  The   *)
(* program may end at any moment, and waits for no goroutine.              *)
(***************************************************************************)
EXTENDS S3FS, FiniteSets

CONSTANTS
    Sessions,
    Jobs,           \* bound: commands that change files
    Held,           \* the files that are there at first ...
    Old,            \* ... and what they hold
    NoPath, NoBody, NoJob

\* What a file holds: what it held at first, and what each job has sent.
Bodies == Seq(Jobs \union {Old})

ASSUME SessionAssumption ==
    /\ NoPath \notin Paths /\ NoJob \notin Jobs /\ Old \notin Jobs
    /\ Sessions \intersect Jobs = {}
    /\ Held \subseteq Paths
    /\ {Absent, NoBody} \intersect Bodies = {}
    /\ IsFiniteSet(Sessions) /\ IsFiniteSet(Jobs)

VARIABLES
    conn,           \* "open", "closing" (c.shuttingDown) or "gone"
    auth,           \* c.auth is set
    rmfr,           \* c.rmfr
    rmfrReader,     \* c.rmfrReader: what will be read from it
    cur,            \* the job the session waits for
    step, op, path, from, body, reply,      \* jobs, see TypeOK
    readers,        \* open bodies of RNFR's GetObject
    disturbed       \* auxiliary: whose files others have changed, see Touch

sVars   == << conn, auth, rmfr, rmfrReader, cur >>
jobVars == << step, op, path, from, body, reply >>
vars    == << bucket, sVars, jobVars, readers, disturbed >>

-----------------------------------------------------------------------------
\* DELE stands for RMD, too, which does the same.
Ops   == {"STOR", "APPE", "RNTO", "MKD", "DELE"}
Steps == {"none", "open", "stat", "upload", "put", "lstat", "list", "delete", "end", "cut"}

TypeOK ==
    /\ objects \in [Paths -> Bodies \union {Absent}] /\ markers \subseteq Paths
    /\ conn \in [Sessions -> {"open", "closing", "gone"}]
    /\ auth \in [Sessions -> BOOLEAN]
    /\ rmfr \in [Sessions -> Paths \union {NoPath}]
    /\ rmfrReader \in [Sessions -> Bodies \union {NoBody}]
    /\ cur \in [Sessions -> Jobs \union {NoJob}]
    /\ step \in [Jobs -> Steps]
    /\ op \in [Jobs -> Ops \union {"none"}]
    /\ path \in [Jobs -> Paths \union {NoPath}]     \* the file it works on
    /\ from \in [Jobs -> Paths \union {NoPath}]     \* the file RNTO renames
    /\ body \in [Jobs -> Bodies \union {NoBody}]    \* what it uploads
    /\ reply \in [Jobs -> {"none", "ok", "exists", "failed"}]
    /\ readers \in Nat
    /\ disturbed \subseteq Sessions \union Jobs

Init ==
    /\ objects = [p \in Paths |-> IF p \in Held THEN << Old >> ELSE Absent] /\ markers = {}
    /\ conn    = [s \in Sessions |-> "open"]
    /\ auth    = [s \in Sessions |-> FALSE]
    /\ rmfr    = [s \in Sessions |-> NoPath]
    /\ rmfrReader = [s \in Sessions |-> NoBody]
    /\ cur     = [s \in Sessions |-> NoJob]
    /\ step  = [j \in Jobs |-> "none"]
    /\ op    = [j \in Jobs |-> "none"]
    /\ path  = [j \in Jobs |-> NoPath]
    /\ from  = [j \in Jobs |-> NoPath]
    /\ body  = [j \in Jobs |-> NoBody]
    /\ reply = [j \in Jobs |-> "none"]
    /\ readers = 0 /\ disturbed = {}

-----------------------------------------------------------------------------
(* Commands of the session s *)

Idle(s)     == conn[s] = "open" /\ cur[s] = NoJob
LoggedIn(s) == Idle(s) /\ auth[s]

\* PASS with the right password; a wrong one changes nothing here, see Control.
PassOk(s) ==
    /\ Idle(s)
    /\ auth' = [auth EXCEPT ![s] = TRUE]
    /\ UNCHANGED << bucket, conn, rmfr, rmfrReader, cur, jobVars, readers, disturbed >>

Quit(s) ==
    /\ Idle(s)
    /\ conn' = [conn EXCEPT ![s] = "closing"]
    /\ UNCHANGED << bucket, auth, rmfr, rmfrReader, cur, jobVars, readers, disturbed >>

\* The loop of serve ends, also when the client hangs up; the deferred
\* rmfrReader.Close.  Nobody looks at the other fields of c any more.
End(s) ==
    /\ conn[s] # "gone" /\ cur[s] = NoJob
    /\ conn' = [conn EXCEPT ![s] = "gone"]
    /\ readers' = IF rmfrReader[s] = NoBody THEN readers ELSE readers - 1
    /\ auth' = [auth EXCEPT ![s] = FALSE]
    /\ rmfr' = [rmfr EXCEPT ![s] = NoPath] /\ rmfrReader' = [rmfrReader EXCEPT ![s] = NoBody]
    /\ disturbed' = disturbed \ {s}
    /\ UNCHANGED << bucket, cur, jobVars >>

\* RNFR opens the file at once; a second RNFR is refused until RNTO was sent.
Rnfr(s, p) ==
    /\ LoggedIn(s)
    /\ rmfr[s] = NoPath /\ rmfrReader[s] = NoBody
    /\ objects[p] # Absent
    /\ rmfr' = [rmfr EXCEPT ![s] = p]
    /\ rmfrReader' = [rmfrReader EXCEPT ![s] = objects[p]]
    /\ readers' = readers + 1
    /\ disturbed' = disturbed \ {s}
    /\ UNCHANGED << bucket, conn, auth, cur, jobVars >>

StartJob(j, o, p, first) ==
    /\ step[j] = "none"
    /\ step' = [step EXCEPT ![j] = first]
    /\ op'   = [op EXCEPT ![j] = o]
    /\ path' = [path EXCEPT ![j] = p]

\* Faulty variant: what RNFR has set is kept.
RntoKeeps(s, j, p) ==
    /\ LoggedIn(s)
    /\ rmfr[s] # NoPath /\ rmfrReader[s] # NoBody
    /\ StartJob(j, "RNTO", p, "stat")
    /\ from' = [from EXCEPT ![j] = rmfr[s]]
    /\ body' = [body EXCEPT ![j] = rmfrReader[s]]
    /\ UNCHANGED << bucket, conn, auth, rmfr, rmfrReader, cur, reply, readers, disturbed >>

\* RNTO hands path and reader over to its goroutine.
Rnto(s, j, p) ==
    /\ LoggedIn(s)
    /\ rmfr[s] # NoPath /\ rmfrReader[s] # NoBody
    /\ StartJob(j, "RNTO", p, "stat")
    /\ from' = [from EXCEPT ![j] = rmfr[s]]
    /\ body' = [body EXCEPT ![j] = rmfrReader[s]]
    /\ rmfr' = [rmfr EXCEPT ![s] = NoPath]
    /\ rmfrReader' = [rmfrReader EXCEPT ![s] = NoBody]
    /\ disturbed' = (disturbed \ {s}) \union {k \in {j} : s \in disturbed}
    /\ UNCHANGED << bucket, conn, auth, cur, reply, readers >>

\* STOR goes on in its goroutine as soon as it has a data connection.
Stor(s, j, p) ==
    /\ LoggedIn(s)
    /\ StartJob(j, "STOR", p, "stat")
    /\ body' = [body EXCEPT ![j] = << j >>]
    /\ UNCHANGED << bucket, sVars, from, reply, readers, disturbed >>

\* The session waits for MKD, for DELE and RMD, and for the beginning of APPE.
Await(s, j, o, p, first) ==
    /\ LoggedIn(s)
    /\ StartJob(j, o, p, first)
    /\ cur' = [cur EXCEPT ![s] = j]
    /\ UNCHANGED << bucket, conn, auth, rmfr, rmfrReader, from, body, reply, readers,
                    disturbed >>

Appe(s, j, p) == Await(s, j, "APPE", p, "open")
Mkd(s, j, p)  == Await(s, j, "MKD", p, "stat")
Dele(s, j, p) == Await(s, j, "DELE", p, "lstat")

-----------------------------------------------------------------------------
(* Steps of the job j *)

Active(j) == step[j] \notin {"none", "end", "cut"}

\* Whoever waits for j does so no more.
Release(j) == cur' = [s \in Sessions |-> IF cur[s] = j THEN NoJob ELSE cur[s]]

Goto(j, s) ==
    /\ step' = [step EXCEPT ![j] = s]
    /\ UNCHANGED << op, path, from, body, cur, reply, readers >>

\* The reply, and the deferred r.Close of RNTO; its variables are gone.
Finish(j, r) ==
    /\ step'  = [step EXCEPT ![j] = "end"]
    /\ reply' = [reply EXCEPT ![j] = r]
    /\ op'    = [op EXCEPT ![j] = "none"]
    /\ path'  = [path EXCEPT ![j] = NoPath]
    /\ from'  = [from EXCEPT ![j] = NoPath]
    /\ body'  = [body EXCEPT ![j] = NoBody]
    /\ Release(j)
    /\ readers' = IF op[j] = "RNTO" THEN readers - 1 ELSE readers

Rest == << conn, auth, rmfr, rmfrReader >>

\* j changes the object of p: whoever else works on p, or has it opened in
\* order to rename it, is disturbed.
Touch(p, j) ==
    disturbed' = disturbed
        \union {k \in Jobs \ {j} : p \in {path[k], from[k]}}
        \union {s \in Sessions : rmfr[s] = p}

\* What there is to read of p, nothing if it is not there.
Content(p) == IF objects[p] = Absent THEN << >> ELSE objects[p]

\* Faulty variant: any error is taken for a file that is not there.
OpenAny(j) ==
    /\ step[j] = "open"
    /\ \E read \in {<< >>} \union ({objects[path[j]]} \ {Absent}) :
          body' = [body EXCEPT ![j] = Append(read, j)]
    /\ Release(j)
    /\ step' = [step EXCEPT ![j] = "stat"]
    /\ disturbed' = disturbed \ {j}
    /\ UNCHANGED << bucket, Rest, op, path, from, reply, readers >>

\* APPE reads the file, if it is there, in front of what the client sends.
Open(j) ==
    /\ step[j] = "open"
    /\ body' = [body EXCEPT ![j] = Append(Content(path[j]), j)]
    /\ Release(j)
    /\ step' = [step EXCEPT ![j] = "stat"]
    /\ disturbed' = disturbed \ {j}
    /\ UNCHANGED << bucket, Rest, op, path, from, reply, readers >>

\* Create and Mkdir begin with Lstat.
Stat(j) ==
    /\ step[j] = "stat"
    /\ \/ op[j] # "MKD" /\ Lstat(path[j]) # "dir" /\ Goto(j, "upload")
       \/ op[j] # "MKD" /\ Lstat(path[j]) = "dir" /\ Finish(j, "failed")
       \/ op[j] = "MKD" /\ Lstat(path[j]) = "none" /\ Goto(j, "put")
       \/ op[j] = "MKD" /\ Lstat(path[j]) # "none" /\ Finish(j, "exists")
    /\ UNCHANGED << bucket, Rest, disturbed >>

Store(j) ==
    /\ step[j] = "upload"
    /\ Upload(path[j], body[j])
    /\ Touch(path[j], j)
    /\ IF op[j] = "RNTO" THEN Goto(j, "lstat") ELSE Finish(j, "ok")
    /\ UNCHANGED Rest

Put(j) ==
    /\ step[j] = "put"
    /\ PutMarker(path[j])
    /\ Finish(j, "ok")
    /\ UNCHANGED << Rest, disturbed >>

\* What is removed: by RNTO the file it has copied.
Target(j) == IF op[j] = "RNTO" THEN from[j] ELSE path[j]

\* RNTO ignores the error of Remove.
RemoveError(j) == Finish(j, IF op[j] = "RNTO" THEN "ok" ELSE "failed")

RemoveStat(j) ==
    /\ step[j] = "lstat"
    /\ \/ Lstat(Target(j)) = "none" /\ RemoveError(j)
       \/ Lstat(Target(j)) = "dir"  /\ Goto(j, "list")
       \/ Lstat(Target(j)) = "file" /\ Goto(j, "delete")
    /\ UNCHANGED << bucket, Rest, disturbed >>

\* Is the directory empty?  It is not as long as its own key is there.
RemoveList(j) ==
    /\ step[j] = "list"
    /\ IF KeyUnder(Target(j)) THEN RemoveError(j) ELSE Goto(j, "delete")
    /\ UNCHANGED << bucket, Rest, disturbed >>

Delete(j) ==
    /\ step[j] = "delete"
    /\ DeleteObject(Target(j))
    /\ Touch(Target(j), j)
    /\ Finish(j, "ok")
    /\ UNCHANGED Rest

\* Faulty variant: RNTO goes on after an error of Create.
RequestFailsIgnored(j) ==
    /\ Active(j)
    /\ \/ op[j] = "RNTO" /\ step[j] \in {"stat", "upload"} /\ Goto(j, "lstat")
       \/ step[j] \in {"lstat", "list", "delete"} /\ RemoveError(j)
    /\ UNCHANGED << bucket, Rest, disturbed >>

\* S3 refuses a request, or the data connection breaks during an upload.
RequestFails(j) ==
    /\ Active(j)
    /\ IF step[j] \in {"lstat", "list", "delete"} THEN RemoveError(j) ELSE Finish(j, "failed")
    /\ UNCHANGED << bucket, Rest, disturbed >>

\* S3 does what is asked, but the answer is lost: the SDK asks once more, or
\* gives up (RequestFails).
AnswerLost(j) ==
    /\ \/ step[j] = "upload" /\ Upload(path[j], body[j]) /\ Touch(path[j], j)
       \/ step[j] = "put"    /\ PutMarker(path[j]) /\ UNCHANGED disturbed
       \/ step[j] = "delete" /\ DeleteObject(Target(j)) /\ Touch(Target(j), j)
    /\ UNCHANGED << sVars, jobVars, readers >>

-----------------------------------------------------------------------------
Over == /\ \A s \in Sessions : conn[s] = "gone"
        /\ \A j \in Jobs : ~Active(j)

\* os.Exit, or a crash: sessions and goroutines end where they are.
Exit ==
    /\ ~Over
    /\ conn' = [s \in Sessions |-> "gone"]
    /\ auth' = [s \in Sessions |-> FALSE]
    /\ rmfr' = [s \in Sessions |-> NoPath] /\ rmfrReader' = [s \in Sessions |-> NoBody]
    /\ cur'  = [s \in Sessions |-> NoJob]
    /\ step' = [j \in Jobs |-> IF Active(j) THEN "cut" ELSE step[j]]
    /\ readers' = 0
    /\ disturbed' = disturbed \ Sessions
    /\ UNCHANGED << bucket, op, path, from, body, reply >>

Command(s) ==
    \/ PassOk(s) \/ Quit(s) \/ End(s)
    \/ \E p \in Paths :
          \/ Rnfr(s, p)
          \/ \E j \in Jobs : Rnto(s, j, p) \/ Stor(s, j, p) \/ Appe(s, j, p)
                             \/ Mkd(s, j, p) \/ Dele(s, j, p)

Job(j) == \/ Open(j) \/ Stat(j) \/ Store(j) \/ Put(j)
          \/ RemoveStat(j) \/ RemoveList(j) \/ Delete(j) \/ RequestFails(j) \/ AnswerLost(j)

Next == \/ \E s \in Sessions : Command(s)
        \/ \E j \in Jobs : Job(j)
        \/ Exit
        \/ Over /\ UNCHANGED vars

Spec == Init /\ [][Next]_vars

-----------------------------------------------------------------------------
(* Properties *)

\* Whatever session and goroutine do and when they end, each body that RNFR
\* has opened is closed once.
NoReaderLeft == Over => readers = 0

\* RNTO, which copies and deletes, never has its file in neither place: at
\* every moment, and also when the program ends in its middle, the content is
\* at the old path or at the new one, unless another command changes one of
\* the two files, or they are the same.
RenameSafe ==
    \A j \in Jobs : op[j] = "RNTO" /\ j \notin disturbed /\ path[j] # from[j]
        => body[j] \in {objects[from[j]], objects[path[j]]}

Ends(j, o) == op[j] = o /\ reply[j] = "none" /\ reply'[j] = "ok"

\* APPE keeps what the file holds, unless another command changes the file
\* after APPE has opened it.
AppendExtends ==
    [][\A j \in Jobs : Ends(j, "APPE") /\ j \notin disturbed
          => /\ objects'[path[j]] = body[j]
             /\ Content(path[j]) \in {body[j], SubSeq(body[j], 1, Len(body[j]) - 1)}]_vars

\* RNTO, which copies and deletes, moves a file, unless another command
\* changes one of the two files, or they are the same: its new path has what
\* the old one had, and nothing is deleted that was not copied.
RenameMoves ==
    [][\A j \in Jobs : Ends(j, "RNTO") /\ j \notin disturbed /\ path[j] # from[j]
          => /\ objects'[path[j]] = body[j]
             /\ objects[from[j]] \in {body[j], Absent}]_vars

\* "This command specifies the new pathname of the file specified in the
\* immediately preceding "rename from" command" (command.go:775): after RNTO
\* there is a file at the new path.
RenameKeepsFile ==
    [][\A j \in Jobs : Ends(j, "RNTO") /\ j \notin disturbed
          => objects'[path[j]] # Absent]_vars
=============================================================================
