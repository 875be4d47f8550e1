------------------------------ MODULE Control ------------------------------
(***************************************************************************)
(* Who a session is, and which file system it works on: USER and PASS, the *)
(* working directory, the rights that the Authorizer gives, and the        *)
(* commands that use them (ftp/command.go, ftp/authorizer.go,              *)
(* vfs/readonly.go, vfs/null.go).  What becomes of the files is in Session *)
(* and MapFS.                                                              *)
(*                                                                         *)
(* Commands run one after another, but transfers and RNTO leave a          *)
(* goroutine behind.  Those of transfers look at c.auth when they run: the *)
(* session may have logged in again.                                       *)
(***************************************************************************)
EXTENDS Names

CONSTANTS
    Users,
    FileSystems,    \* those that have files
    ServerFS,       \* Server.FileSystem
    Grants,         \* what the Authorizer gives to each user, or Refused
    Jobs,           \* bound: goroutines at a time
    MaxFailures,    \* how often PASS may fail in a row: 5
    Null,           \* vfs.Null
    Nil,            \* no file system: the server's
    Refused, None

Rights == [fs : FileSystems \union {Null, Nil}, readOnly : BOOLEAN]

ASSUME ControlAssumption ==
    /\ Grants \in [Users -> Rights \union {Refused}]
    /\ ServerFS \in FileSystems \union {Null}
    /\ Nil \notin FileSystems \union {Null} /\ Null \notin FileSystems
    /\ {Refused, None} \intersect Rights = {}
    /\ None \notin Users
    /\ None \notin [by : Jobs \union {"serve"}, fs : FileSystems]
    /\ "serve" \notin Jobs
    /\ MaxFailures \in Nat

VARIABLES
    conn,       \* "open", or "closing" (c.shuttingDown)
    program,    \* "up", or "panic", which ends it
    config,     \* what the server was given, see Settings
    user,       \* c.user
    auth,       \* c.auth
    failCnt,    \* c.failCnt
    pwd,        \* c.pwd, without "" before the first login
    found,      \* auxiliary: the rights under which CWD has found pwd
    epsvAll,    \* c.epsvAll
    dt,         \* c.dt is not empty
    rmfr,       \* c.rmfr is set
    job,        \* what each goroutine does
    right,      \* the file system that RNTO hands over to its goroutine
    held,       \* auxiliary: the rights since the command of each goroutine
    last        \* auxiliary: the file system that the last step has changed

loginVars == << user, auth, failCnt, pwd, found >>
jobVars   == << job, right, held >>
vars      == << conn, program, config, loginVars, epsvAll, dt, rmfr, jobVars, last >>

-----------------------------------------------------------------------------
\* An address that publicIPv4 finds, Server.TLSConfig, the region of s3fs.
Settings == {"ipv4", "tls", "region"}

Ops == {"none", "write", "read", "create", "remove"}

\* As long as the session is open it has a try left.
TypeOK ==
    /\ conn \in {"open", "closing"} /\ program \in {"up", "panic"} /\ config \subseteq Settings
    /\ user \in Users \union {None} /\ auth \in Rights \union {None}
    /\ failCnt \in 0 .. MaxFailures + 1
    /\ conn = "open" => failCnt <= MaxFailures
    /\ pwd \in Paths \union {<< >>} /\ found \in Rights \union {None}
    /\ epsvAll \in BOOLEAN /\ dt \in BOOLEAN /\ rmfr \in BOOLEAN
    /\ job \in [Jobs -> Ops]
    /\ right \in [Jobs -> Rights \union {None}]
    /\ held \in [Jobs -> SUBSET Rights]
    /\ last \in [by : Jobs \union {"serve"}, fs : FileSystems] \union {None}

Init ==
    /\ conn = "open" /\ program = "up" /\ config \in SUBSET Settings
    /\ user = None /\ auth = None /\ failCnt = 0
    /\ pwd = << >> /\ found = None
    /\ epsvAll = FALSE /\ dt = FALSE /\ rmfr = FALSE
    /\ job   = [j \in Jobs |-> "none"]
    /\ right = [j \in Jobs |-> None]
    /\ held  = [j \in Jobs |-> {}]
    /\ last = None

-----------------------------------------------------------------------------
(* Rights *)

\* c.fileSystem().
FileSystem(r) == IF r.fs = Nil THEN ServerFS ELSE r.fs

\* Faulty variant: a read-only file system passes calls on.
WritableAlways(r) == TRUE

\* readonly refuses Create, Mkdir and Remove, everything else passes.
Writable(r) == ~r.readOnly

\* A call that gets to s3fs, whose first one makes its client: it looks for the
\* region that is not configured with a client that is nil.
Reach(r) ==
    program' = IF FileSystem(r) # Null /\ "region" \notin config THEN "panic" ELSE program

\* Create, Mkdir or Remove; Null does nothing, and says that it did it.
Change(by, r) ==
    /\ IF Writable(r) THEN Reach(r) ELSE UNCHANGED program
    /\ \/ last' = None
       \/ /\ Writable(r) /\ FileSystem(r) # Null /\ program' = "up"
          /\ last' = [by |-> by, fs |-> FileSystem(r)]

-----------------------------------------------------------------------------
(* Commands *)

Ready    == program = "up" /\ conn = "open"
LoggedIn == Ready /\ auth # None

\* Faulty variant: the new user has to log in first.
UserForgets(u) ==
    /\ Ready
    /\ user' = u /\ auth' = None /\ last' = None
    /\ UNCHANGED << conn, program, config, failCnt, pwd, found, epsvAll, dt, rmfr, jobVars >>

\* USER takes the name down; the session stays who it was.
User(u) ==
    /\ Ready
    /\ user' = u /\ last' = None
    /\ UNCHANGED << conn, program, config, auth, failCnt, pwd, found, epsvAll, dt, rmfr, jobVars >>

\* Faulty variant: the working directory is kept.
EnterNowhere == UNCHANGED << pwd, found >>

\* The directory in which a login begins.
EnterRoot == pwd' = << >> /\ found' = None

\* PASS with the password of c.user: the rights change, for goroutines too.
PassOk ==
    /\ Ready
    /\ user # None /\ Grants[user] # Refused
    /\ auth' = Grants[user] /\ failCnt' = 0 /\ EnterRoot
    /\ held' = [j \in Jobs |-> IF job[j] = "none" THEN {} ELSE held[j] \union {auth'}]
    /\ last' = None
    /\ UNCHANGED << conn, program, config, user, epsvAll, dt, rmfr, job, right >>

\* Faulty variant: the session may try once more.
TooMany(n) == n > MaxFailures + 1

TooOften(n) == n > MaxFailures

\* Any other PASS; the session ends if there were too many, or if it is closed
\* while it waits for five seconds.
PassFails ==
    /\ Ready
    /\ failCnt' = failCnt + 1
    /\ conn' \in {"closing"} \union {c \in {"open"} : ~TooOften(failCnt')}
    /\ last' = None
    /\ UNCHANGED << program, config, user, auth, pwd, found, epsvAll, dt, rmfr, jobVars >>

\* QUIT; the methods of HTTP.
Quit ==
    /\ Ready
    /\ conn' = "closing" /\ last' = None
    /\ UNCHANGED << program, config, loginVars, epsvAll, dt, rmfr, jobVars >>

Enter(p) ==
    /\ pwd' = p /\ found' = IF p = << >> THEN None ELSE auth
    /\ last' = None
    /\ UNCHANGED << conn, config, user, auth, failCnt, epsvAll, dt, rmfr, jobVars >>

\* buildPath makes the argument absolute, and Stat finds a directory there, in
\* the file system of the login, which may be Null only at no path at all.
Cwd(p) ==
    /\ LoggedIn /\ FileSystem(auth) # Null
    /\ IF p = << >> THEN UNCHANGED program ELSE Reach(auth)
    /\ Enter(p)

Cdup == LoggedIn /\ pwd # << >> /\ Enter(Parent(pwd)) /\ UNCHANGED program

\* DELE, RMD, MKD.
Modify ==
    /\ LoggedIn
    /\ Change("serve", auth)
    /\ UNCHANGED << conn, config, loginVars, epsvAll, dt, rmfr, jobVars >>

EpsvAll ==
    /\ LoggedIn
    /\ epsvAll' = TRUE /\ last' = None
    /\ UNCHANGED << conn, program, config, loginVars, dt, rmfr, jobVars >>

\* EPSV; PORT and EPRT, unless EPSV ALL was sent; PASV, too, but without an
\* IPv4 address it says that it is disabled, and then indexes what it has not.
Channel(name) ==
    /\ LoggedIn
    /\ name # "EPSV" => ~epsvAll
    /\ dt' = TRUE /\ last' = None
    /\ program' = IF name = "PASV" /\ "ipv4" \notin config THEN "panic" ELSE program
    /\ UNCHANGED << conn, config, loginVars, epsvAll, rmfr, jobVars >>

Rnfr ==
    /\ LoggedIn /\ FileSystem(auth) # Null
    /\ ~rmfr /\ rmfr' = TRUE
    /\ Reach(auth) /\ last' = None
    /\ UNCHANGED << conn, config, loginVars, epsvAll, dt, jobVars >>

\* AUTH TLS; without a configuration the handshake fails, or uses what is nil.
\* What it changes is in Telnet.
AuthTls ==
    /\ Ready
    /\ program' \in {"up"} \union {x \in {"panic"} : "tls" \notin config}
    /\ last' = None
    /\ UNCHANGED << conn, config, loginVars, epsvAll, dt, rmfr, jobVars >>

Start(j, op, r) ==
    /\ LoggedIn
    /\ job[j] = "none"
    /\ job'   = [job EXCEPT ![j] = op]
    /\ right' = [right EXCEPT ![j] = r]
    /\ held'  = [held EXCEPT ![j] = {auth}]
    /\ last' = None
    /\ UNCHANGED << conn, program, config, loginVars, epsvAll, dt >>

\* RNTO asks for the file system at once.
Rnto(j) == rmfr /\ rmfr' = FALSE /\ Start(j, "create", auth)

\* STOR, STOU and the second half of APPE; RETR and LIST.
Transfer(j, op) == dt /\ Start(j, op, None) /\ UNCHANGED rmfr

-----------------------------------------------------------------------------
(* Goroutines *)

Goto(j, op) ==
    /\ job'   = [job EXCEPT ![j] = op]
    /\ right' = [right EXCEPT ![j] = IF op = "none" THEN None ELSE @]
    /\ held'  = [held EXCEPT ![j] = IF op = "none" THEN {} ELSE @]
    /\ UNCHANGED << conn, config, loginVars, epsvAll, rmfr >>

\* c.fileSystem().Create in the goroutine of a transfer, or c.fileSystem().Open
\* and c.auth.User; nobody has logged in yet if c.auth is nil.
RunTransfer(j) ==
    /\ program = "up"
    /\ job[j] \in {"write", "read"}
    /\ \/ auth = None /\ program' = "panic" /\ last' = None
       \/ auth # None /\ job[j] = "write" /\ Change(j, auth)
       \/ auth # None /\ job[j] = "read" /\ Reach(auth) /\ last' = None
    /\ dt' = FALSE
    /\ Goto(j, "none")

\* The copy of RNTO; the removal follows unless there was an error.
RunCreate(j) ==
    /\ program = "up" /\ job[j] = "create"
    /\ Change(j, right[j])
    /\ Goto(j, "none") \/ (Writable(right[j]) /\ Goto(j, "remove"))
    /\ UNCHANGED dt

RunRemove(j) ==
    /\ program = "up" /\ job[j] = "remove"
    /\ Change(j, right[j])
    /\ Goto(j, "none")
    /\ UNCHANGED dt

-----------------------------------------------------------------------------
Command ==
    \/ \E u \in Users : User(u)
    \/ PassOk \/ PassFails \/ Quit
    \/ \E p \in Paths \union {<< >>} : Cwd(p)
    \/ Cdup \/ Modify \/ EpsvAll \/ Rnfr \/ AuthTls
    \/ \E name \in {"EPSV", "PASV", "PORT"} : Channel(name)
    \/ \E j \in Jobs : Rnto(j) \/ \E op \in {"write", "read"} : Transfer(j, op)

Run(j) == RunTransfer(j) \/ RunCreate(j) \/ RunRemove(j)

\* The program has ended, or nothing is left to do.
Over ==
    /\ program = "panic" \/ (conn = "closing" /\ \A j \in Jobs : job[j] = "none")
    /\ UNCHANGED vars

Next == Command \/ (\E j \in Jobs : Run(j)) \/ Over

Spec == Init /\ [][Next]_vars

-----------------------------------------------------------------------------
(* Properties *)

\* A goroutine that looks at c.auth never finds nil, whatever the session does
\* meanwhile: of what the model knows to end the program, only what the server
\* was not given can end it.
NoNilAuth == program = "panic" => config # Settings

\* Whoever changes a file system had the right to at some moment since its
\* command, and not only by a login that was given up before it.
Entitled ==
    [][\A f \in FileSystems, j \in Jobs \union {"serve"} :
          last' = [by |-> j, fs |-> f]
          => \E r \in (IF j = "serve" THEN {auth} ELSE held[j]) :
                r # None /\ FileSystem(r) = f /\ ~r.readOnly]_vars

\* The working directory was found with the rights that the session has: no
\* login inherits a directory from another.
PwdOfLogin == pwd # << >> => found = auth
=============================================================================
