--------------------------- MODULE ControlProofs ---------------------------
(***************************************************************************)
(* Theorems about Control, for all users, rights, file systems and paths,  *)
(* and any number of goroutines.                                           *)
(***************************************************************************)
EXTENDS Control, NamesProofs

-----------------------------------------------------------------------------
(* Type correctness *)

LEMMA TypeInit == Init => TypeOK
  <1> SUFFICES ASSUME Init
               PROVE  TypeOK
    OBVIOUS
  <1>1. failCnt \in 0 .. MaxFailures + 1 /\ failCnt <= MaxFailures
    BY ControlAssumption DEF Init
  <1>2. held \in [Jobs -> SUBSET Rights] /\ right \in [Jobs -> Rights \union {None}]
    BY DEF Init
  <1>3. QED
    BY <1>1, <1>2 DEF Init, TypeOK, Ops

LEMMA RightsLemma ==
    ASSUME NEW r \in Rights
    PROVE  /\ r # None /\ r.readOnly \in BOOLEAN
           /\ FileSystem(r) \in FileSystems \union {Null}
  BY ControlAssumption DEF Rights, FileSystem

\* What a goroutine or the session leaves in "last", and of the program.
LEMMA ChangeType ==
    ASSUME NEW by \in Jobs \union {"serve"}, NEW r \in Rights, Change(by, r),
           program \in {"up", "panic"}
    PROVE  /\ last' \in [by : Jobs \union {"serve"}, fs : FileSystems] \union {None}
           /\ program' \in {"up", "panic"}
  BY RightsLemma DEF Change, Reach

\* What ends the program in a call of a file system is the missing region.
LEMMA ReachLemma ==
    ASSUME NEW by, NEW r, Reach(r) \/ Change(by, r), program' = "panic"
    PROVE  program = "panic" \/ config # Settings
  BY DEF Change, Reach, Settings

\* CDUP goes to a path, or to the root.
LEMMA CdupPath ==
    ASSUME TypeOK, Cdup
    PROVE  Parent(pwd) \in Paths \union {<< >>}
  BY ParentLemma DEF TypeOK, Cdup

\* Where there is a goroutine there was a login, and the rights that the
\* session has now are among those it had since the goroutine's command; RNTO
\* got its own from there, too.
Handed ==
    \A j \in Jobs :
        /\ job[j] # "none" => auth # None /\ auth \in held[j]
        /\ job[j] \in {"create", "remove"} => right[j] \in held[j]

LEMMA TypeStep == TypeOK /\ Handed /\ [Next]_vars => TypeOK'
  <1> SUFFICES ASSUME TypeOK, Handed, [Next]_vars
               PROVE  TypeOK'
    OBVIOUS
  <1> USE DEF TypeOK, Ready, LoggedIn, loginVars, jobVars
  <1>1. ASSUME NEW u \in Users, User(u)
        PROVE  TypeOK'
    BY <1>1 DEF User
  <1>2. CASE PassOk
    <2>1. auth' \in Rights
      BY <1>2, ControlAssumption DEF PassOk
    <2>2. held' \in [Jobs -> SUBSET Rights]
      BY <1>2, <2>1 DEF PassOk
    <2>3. QED
      BY <1>2, <2>1, <2>2, ControlAssumption DEF PassOk, EnterRoot
  <1>3. CASE PassFails
    <2>1. failCnt' \in 0 .. MaxFailures + 1 /\ (conn' = "open" => failCnt' <= MaxFailures)
      BY <1>3, ControlAssumption DEF PassFails, TooOften
    <2>2. conn' \in {"open", "closing"}
      BY <1>3 DEF PassFails
    <2>3. QED
      BY <1>3, <2>1, <2>2 DEF PassFails
  <1>4. CASE Quit
    BY <1>4 DEF Quit
  <1>5. ASSUME NEW p \in Paths \union {<< >>}, LoggedIn, Enter(p), program' \in {"up", "panic"}
        PROVE  TypeOK'
    BY <1>5 DEF Enter
  <1>6. CASE Modify
    <2>1. /\ last' \in [by : Jobs \union {"serve"}, fs : FileSystems] \union {None}
          /\ program' \in {"up", "panic"}
      BY <1>6, ChangeType DEF Modify
    <2>2. QED
      BY <1>6, <2>1 DEF Modify
  <1>7. CASE EpsvAll
    BY <1>7 DEF EpsvAll
  <1>8. CASE Rnfr
    BY <1>8 DEF Rnfr, Reach
  <1>9. ASSUME NEW name \in {"EPSV", "PASV", "PORT"}, Channel(name)
        PROVE  TypeOK'
    BY <1>9 DEF Channel
  <1>10. ASSUME NEW j \in Jobs, NEW op \in Ops, NEW r \in Rights \union {None}, Start(j, op, r),
                rmfr' \in BOOLEAN
         PROVE  TypeOK'
    <2>1. auth \in Rights
      BY <1>10 DEF Start
    <2>2. QED
      BY <1>10, <2>1 DEF Start
  <1>11. ASSUME NEW j \in Jobs, Rnto(j)
         PROVE  TypeOK'
    BY <1>10, <1>11 DEF Rnto, Start, Ops
  <1>12. ASSUME NEW j \in Jobs, NEW op \in {"write", "read"}, Transfer(j, op)
         PROVE  TypeOK'
    BY <1>10, <1>12 DEF Transfer, Ops
  <1>13. ASSUME NEW j \in Jobs, NEW op \in {"none", "remove"}, Goto(j, op),
                last' \in [by : Jobs \union {"serve"}, fs : FileSystems] \union {None},
                program' \in {"up", "panic"}, dt' \in BOOLEAN
         PROVE  TypeOK'
    BY <1>13 DEF Goto, Ops
  <1>14. ASSUME NEW j \in Jobs, RunTransfer(j)
         PROVE  TypeOK'
    <2>1. /\ last' \in [by : Jobs \union {"serve"}, fs : FileSystems] \union {None}
          /\ program' \in {"up", "panic"}
      BY <1>14, ChangeType DEF RunTransfer, Reach
    <2>2. QED
      BY <1>13, <1>14, <2>1 DEF RunTransfer
  <1>15. ASSUME NEW j \in Jobs, RunCreate(j) \/ RunRemove(j)
         PROVE  TypeOK'
    <2>1. right[j] \in Rights
      BY <1>15 DEF RunCreate, RunRemove, Handed
    <2>2. /\ last' \in [by : Jobs \union {"serve"}, fs : FileSystems] \union {None}
          /\ program' \in {"up", "panic"}
      BY <1>15, <2>1, ChangeType DEF RunCreate, RunRemove
    <2>3. QED
      BY <1>13, <1>15, <2>2 DEF RunCreate, RunRemove
  <1>16. CASE UNCHANGED vars
    BY <1>16 DEF vars
  <1>17. CASE Command
    <2>1. ASSUME NEW p \in Paths \union {<< >>}, Cwd(p)
          PROVE  TypeOK'
      BY <1>5, <2>1 DEF Cwd, Reach
    <2>2. CASE Cdup
      BY <1>5, <2>2, CdupPath DEF Cdup
    <2>3. CASE AuthTls
      BY <2>3 DEF AuthTls
    <2>4. QED
      BY <1>1, <1>2, <1>3, <1>4, <1>6, <1>7, <1>8, <1>9, <1>11, <1>12, <1>17, <2>1, <2>2, <2>3
      DEF Command
  <1>18. QED
    BY <1>14, <1>15, <1>16, <1>17 DEF Next, Run, Over

-----------------------------------------------------------------------------
(* Rights of goroutines *)

LEMMA HandedInit == Init => Handed
  BY DEF Init, Handed

\* Only a login changes the rights, and it adds the new ones to those of each
\* goroutine that is under way.
LEMMA HandedStep == TypeOK /\ Handed /\ [Next]_vars => Handed'
  <1> SUFFICES ASSUME TypeOK, Handed, [Next]_vars
               PROVE  Handed'
    OBVIOUS
  <1> USE DEF Handed, Ready, LoggedIn, loginVars, jobVars
  <1>1. ASSUME UNCHANGED << auth, job, right, held >>
        PROVE  Handed'
    BY <1>1
  <1>2. CASE PassOk
    <2>1. auth' # None
      BY <1>2, ControlAssumption DEF PassOk, TypeOK
    <2>2. \A j \in Jobs : job[j] # "none" => held'[j] = held[j] \union {auth'}
      BY <1>2 DEF PassOk
    <2>3. job' = job /\ right' = right
      BY <1>2 DEF PassOk
    <2>4. QED
      BY <2>1, <2>2, <2>3
  <1>3. ASSUME NEW j \in Jobs, NEW op \in Ops, NEW r \in {None, auth}, Start(j, op, r),
               op \in {"create", "remove"} => r = auth
        PROVE  Handed'
    BY <1>3 DEF Start, TypeOK
  <1>4. ASSUME NEW j \in Jobs, NEW op \in {"none", "remove"}, Goto(j, op),
               op = "remove" => job[j] = "create"
        PROVE  Handed'
    BY <1>4 DEF Goto, TypeOK
  <1>5. CASE Command
    <2>1. ASSUME NEW u \in Users, User(u)
          PROVE  Handed'
      BY <1>1, <2>1 DEF User
    <2>2. ASSUME NEW p \in Paths \union {<< >>}, Cwd(p)
          PROVE  Handed'
      BY <1>1, <2>2 DEF Cwd, Enter
    <2>3. ASSUME NEW name \in {"EPSV", "PASV", "PORT"}, Channel(name)
          PROVE  Handed'
      BY <1>1, <2>3 DEF Channel
    <2>4. ASSUME NEW j \in Jobs, Rnto(j)
          PROVE  Handed'
      BY <1>3, <2>4 DEF Rnto, Ops
    <2>5. ASSUME NEW j \in Jobs, NEW op \in {"write", "read"}, Transfer(j, op)
          PROVE  Handed'
      BY <1>3, <2>5 DEF Transfer, Ops
    <2>6. CASE PassFails \/ Quit \/ Cdup \/ Modify \/ EpsvAll \/ Rnfr \/ AuthTls
      BY <1>1, <2>6 DEF PassFails, Quit, Cdup, Enter, Modify, EpsvAll, Rnfr, AuthTls
    <2>7. QED
      BY <1>2, <1>5, <2>1, <2>2, <2>3, <2>4, <2>5, <2>6 DEF Command
  <1>6. ASSUME NEW j \in Jobs, Run(j)
        PROVE  Handed'
    BY <1>4, <1>6 DEF Run, RunTransfer, RunCreate, RunRemove
  <1>7. CASE UNCHANGED vars
    BY <1>1, <1>7 DEF vars
  <1>8. QED
    BY <1>5, <1>6, <1>7 DEF Next, Over

LEMMA Invariance == Spec => [](TypeOK /\ Handed)
  <1>1. Init => TypeOK /\ Handed
    BY TypeInit, HandedInit
  <1>2. TypeOK /\ Handed /\ [Next]_vars => (TypeOK /\ Handed)'
    BY TypeStep, HandedStep
  <1>3. QED
    BY <1>1, <1>2, PTL DEF Spec

\* Every variable of a session stays in its range, and a session that goes on
\* has a try left.
THEOREM TypeCorrect == Spec => []TypeOK
  BY Invariance, PTL

-----------------------------------------------------------------------------
(* Properties *)

\* For any number of goroutines and logins: none finds c.auth nil.
THEOREM AuthAtHand == Spec => []NoNilAuth
  <1>1. Init => NoNilAuth
    BY DEF Init, NoNilAuth
  <1>2. NoNilAuth /\ TypeOK /\ Handed /\ [Next]_vars => NoNilAuth'
    <2> SUFFICES ASSUME NoNilAuth, TypeOK, Handed, [Next]_vars
                 PROVE  NoNilAuth'
      OBVIOUS
    <2> USE DEF NoNilAuth, Ready, LoggedIn
    <2>1. ASSUME program' = "panic" => program = "panic" \/ config # Settings, config' = config
          PROVE  NoNilAuth'
      BY <2>1
    <2>2. CASE Command
      <3>1. ASSUME NEW name \in {"EPSV", "PASV", "PORT"}, Channel(name)
            PROVE  NoNilAuth'
        BY <2>1, <3>1 DEF Channel, Settings
      <3>2. ASSUME NEW p \in Paths \union {<< >>}, Cwd(p) \/ Cdup
            PROVE  NoNilAuth'
        BY <2>1, <3>2, ReachLemma DEF Cwd, Cdup, Enter
      <3>3. ASSUME NEW j \in Jobs, NEW op \in {"write", "read"}, Rnto(j) \/ Transfer(j, op)
            PROVE  NoNilAuth'
        BY <2>1, <3>3 DEF Rnto, Transfer, Start
      <3>4. ASSUME NEW u \in Users, User(u)
            PROVE  NoNilAuth'
        BY <2>1, <3>4 DEF User
      <3>5. CASE PassOk \/ PassFails \/ Quit \/ EpsvAll
        BY <2>1, <3>5 DEF PassOk, PassFails, Quit, EpsvAll
      <3>6. CASE Modify \/ Rnfr
        BY <2>1, <3>6, ReachLemma DEF Modify, Rnfr
      <3>7. CASE AuthTls
        BY <2>1, <3>7 DEF AuthTls, Settings
      <3>8. QED
        BY <2>2, <3>1, <3>2, <3>3, <3>4, <3>5, <3>6, <3>7 DEF Command
    <2>3. ASSUME NEW j \in Jobs, RunTransfer(j)
          PROVE  NoNilAuth'
      <3>1. auth # None
        BY <2>3 DEF RunTransfer, Handed
      <3>2. QED
        BY <2>1, <2>3, <3>1, ReachLemma DEF RunTransfer, Goto
    <2>4. ASSUME NEW j \in Jobs, RunCreate(j) \/ RunRemove(j)
          PROVE  NoNilAuth'
      BY <2>1, <2>4, ReachLemma DEF RunCreate, RunRemove, Goto
    <2>5. CASE UNCHANGED vars
      BY <2>1, <2>5 DEF vars
    <2>6. QED
      BY <2>2, <2>3, <2>4, <2>5 DEF Next, Run, Over
  <1>3. QED
    BY <1>1, <1>2, Invariance, PTL DEF Spec

\* For all users: the working directory is one that was found with the rights
\* the session has.
THEOREM PwdFound == Spec => []PwdOfLogin
  <1>1. Init => PwdOfLogin
    BY DEF Init, PwdOfLogin
  <1>2. PwdOfLogin /\ [Next]_vars => PwdOfLogin'
    <2> SUFFICES ASSUME PwdOfLogin, [Next]_vars
                 PROVE  PwdOfLogin'
      OBVIOUS
    <2> USE DEF PwdOfLogin, loginVars
    <2>1. ASSUME UNCHANGED << pwd, found, auth >>
          PROVE  PwdOfLogin'
      BY <2>1
    <2>2. CASE PassOk
      BY <2>2 DEF PassOk, EnterRoot
    <2>3. ASSUME NEW p, Enter(p)
          PROVE  PwdOfLogin'
      BY <2>3 DEF Enter
    <2>4. CASE Command
      <3>1. ASSUME NEW p \in Paths \union {<< >>}, Cwd(p) \/ Cdup
            PROVE  PwdOfLogin'
        BY <2>3, <3>1 DEF Cwd, Cdup
      <3>2. ASSUME NEW name \in {"EPSV", "PASV", "PORT"}, Channel(name)
            PROVE  PwdOfLogin'
        BY <2>1, <3>2 DEF Channel
      <3>3. ASSUME NEW j \in Jobs, NEW op \in {"write", "read"}, Rnto(j) \/ Transfer(j, op)
            PROVE  PwdOfLogin'
        BY <2>1, <3>3 DEF Rnto, Transfer, Start
      <3>4. ASSUME NEW u \in Users, User(u)
            PROVE  PwdOfLogin'
        BY <2>1, <3>4 DEF User
      <3>5. CASE PassFails \/ Quit \/ Modify \/ EpsvAll \/ Rnfr \/ AuthTls
        BY <2>1, <3>5 DEF PassFails, Quit, Modify, EpsvAll, Rnfr, AuthTls
      <3>6. QED
        BY <2>2, <2>4, <3>1, <3>2, <3>3, <3>4, <3>5 DEF Command
    <2>5. ASSUME NEW j \in Jobs, Run(j)
          PROVE  PwdOfLogin'
      BY <2>1, <2>5 DEF Run, RunTransfer, RunCreate, RunRemove, Goto
    <2>6. QED
      BY <2>1, <2>4, <2>5 DEF Next, Over, vars
  <1>3. QED
    BY <1>1, <1>2, PTL DEF Spec

\* What "last" tells of a change: its file system, and that it may be written.
LEMMA ChangeLemma ==
    ASSUME NEW by \in Jobs \union {"serve"}, NEW r \in Rights, Change(by, r),
           NEW k \in Jobs \union {"serve"}, NEW f \in FileSystems, last' = [by |-> k, fs |-> f]
    PROVE  k = by /\ FileSystem(r) = f /\ ~r.readOnly
  <1>1. [by |-> k, fs |-> f] # None
    BY ControlAssumption
  <1>2. last' = [by |-> by, fs |-> FileSystem(r)] /\ Writable(r)
    BY <1>1 DEF Change
  <1>3. [by |-> k, fs |-> f].by = [by |-> by, fs |-> FileSystem(r)].by
        /\ [by |-> k, fs |-> f].fs = [by |-> by, fs |-> FileSystem(r)].fs
    BY <1>2
  <1>4. QED
    BY <1>2, <1>3 DEF Writable

\* Whoever changes f in the step has the right to.
Allowed ==
    \A f \in FileSystems, j \in Jobs \union {"serve"} :
        last' = [by |-> j, fs |-> f]
        => \E r \in (IF j = "serve" THEN {auth} ELSE held[j]) :
              r # None /\ FileSystem(r) = f /\ ~r.readOnly

LEMMA ServeAllowed ==
    ASSUME TypeOK, auth # None, Change("serve", auth)
    PROVE  Allowed
  <1>1. auth \in Rights
    BY DEF TypeOK
  <1> SUFFICES ASSUME NEW f \in FileSystems, NEW k \in Jobs \union {"serve"},
                      last' = [by |-> k, fs |-> f]
               PROVE  \E r \in (IF k = "serve" THEN {auth} ELSE held[k]) :
                          r # None /\ FileSystem(r) = f /\ ~r.readOnly
    BY DEF Allowed
  <1>2. k = "serve" /\ FileSystem(auth) = f /\ ~auth.readOnly
    BY <1>1, ChangeLemma
  <1>3. QED
    BY <1>2

LEMMA JobAllowed ==
    ASSUME TypeOK, NEW j \in Jobs, NEW r \in held[j], Change(j, r)
    PROVE  Allowed
  <1>1. r \in Rights /\ r # None
    BY RightsLemma DEF TypeOK
  <1> SUFFICES ASSUME NEW f \in FileSystems, NEW k \in Jobs \union {"serve"},
                      last' = [by |-> k, fs |-> f]
               PROVE  \E s \in (IF k = "serve" THEN {auth} ELSE held[k]) :
                          s # None /\ FileSystem(s) = f /\ ~s.readOnly
    BY DEF Allowed
  <1>2. k = j /\ FileSystem(r) = f /\ ~r.readOnly
    BY <1>1, ChangeLemma
  <1>3. j # "serve"
    BY ControlAssumption
  <1>4. QED
    BY <1>1, <1>2, <1>3

\* For all users, rights and file systems, any number of goroutines and
\* logins: only those change a file system who had the right to.
THEOREM AllEntitled == Spec => Entitled
  <1>1. TypeOK /\ Handed /\ [Next]_vars => [Allowed]_vars
    <2> SUFFICES ASSUME TypeOK, Handed, Next
                 PROVE  Allowed \/ UNCHANGED vars
      OBVIOUS
    <2> USE DEF Ready, LoggedIn
    <2>1. ASSUME last' = None
          PROVE  Allowed
      BY <2>1, ControlAssumption DEF Allowed
    <2>2. CASE Modify
      BY <2>2, ServeAllowed DEF Modify
    <2>3. CASE Command
      <3>1. ASSUME NEW p \in Paths \union {<< >>}, Cwd(p) \/ Cdup
            PROVE  Allowed
        BY <2>1, <3>1 DEF Cwd, Cdup, Enter
      <3>2. ASSUME NEW name \in {"EPSV", "PASV", "PORT"}, Channel(name)
            PROVE  Allowed
        BY <2>1, <3>2 DEF Channel
      <3>3. ASSUME NEW j \in Jobs, NEW op \in {"write", "read"}, Rnto(j) \/ Transfer(j, op)
            PROVE  Allowed
        BY <2>1, <3>3 DEF Rnto, Transfer, Start
      <3>4. ASSUME NEW u \in Users, User(u)
            PROVE  Allowed
        BY <2>1, <3>4 DEF User
      <3>5. CASE PassOk \/ PassFails \/ Quit \/ EpsvAll \/ Rnfr \/ AuthTls
        BY <2>1, <3>5 DEF PassOk, PassFails, Quit, EpsvAll, Rnfr, AuthTls
      <3>6. QED
        BY <2>2, <2>3, <3>1, <3>2, <3>3, <3>4, <3>5 DEF Command
    <2>4. ASSUME NEW j \in Jobs, RunTransfer(j)
          PROVE  Allowed
      <3>1. auth \in held[j]
        BY <2>4 DEF RunTransfer, Handed
      <3>2. QED
        BY <2>1, <2>4, <3>1, JobAllowed DEF RunTransfer
    <2>5. ASSUME NEW j \in Jobs, RunCreate(j) \/ RunRemove(j)
          PROVE  Allowed
      <3>1. right[j] \in held[j] /\ Change(j, right[j])
        BY <2>5 DEF RunCreate, RunRemove, Handed
      <3>2. QED
        BY <3>1, JobAllowed
    <2>6. QED
      BY <2>3, <2>4, <2>5 DEF Next, Run, Over
  <1>2. [Allowed]_vars <=>
            [\A f \in FileSystems, j \in Jobs \union {"serve"} :
                last' = [by |-> j, fs |-> f]
                => \E r \in (IF j = "serve" THEN {auth} ELSE held[j]) :
                      r # None /\ FileSystem(r) = f /\ ~r.readOnly]_vars
    BY DEF Allowed
  <1>3. QED
    BY <1>1, <1>2, Invariance, PTL DEF Spec, Entitled
=============================================================================
