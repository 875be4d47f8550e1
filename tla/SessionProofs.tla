--------------------------- MODULE SessionProofs ---------------------------
(***************************************************************************)
(* Theorems about Session, for all sets of paths and all finite sets of    *)
(* sessions and jobs.                                                      *)
(*                                                                         *)
(* Shape says at which steps the jobs and the sessions can be, Count what  *)
(* the open bodies belong to, and Contents what is in the bucket as long   *)
(* as nobody disturbs a job.                                               *)
(***************************************************************************)
EXTENDS Session, SequenceTheorems, FiniteSetTheorems, TLAPS

-----------------------------------------------------------------------------
(* The invariant *)

\* The steps that each command goes through.
StepsOf ==
    [none |-> {"none", "end"},
     STOR |-> {"stat", "upload", "cut"},
     APPE |-> {"open", "stat", "upload", "cut"},
     RNTO |-> {"stat", "upload", "lstat", "list", "delete", "cut"},
     MKD  |-> {"stat", "put", "cut"},
     DELE |-> {"lstat", "list", "delete", "cut"}]

JobShape(j) ==
    /\ step[j] \in StepsOf[op[j]]
    /\ op[j] # "none" => path[j] \in Paths
    /\ op[j] = "RNTO" => from[j] \in Paths /\ body[j] \in Bodies
    /\ op[j] \in {"STOR", "APPE"} /\ step[j] \in {"stat", "upload"} => body[j] \in Bodies

SessionShape(s) ==
    /\ rmfr[s] = NoPath <=> rmfrReader[s] = NoBody
    /\ conn[s] = "gone" => rmfrReader[s] = NoBody

Shape ==
    /\ \A j \in Jobs : JobShape(j)
    /\ \A s \in Sessions : SessionShape(s)

-----------------------------------------------------------------------------
(* Type correctness and Shape *)

LEMMA ShapeInit == Init => TypeOK /\ Shape
  <1> SUFFICES ASSUME Init
               PROVE  TypeOK /\ Shape
    OBVIOUS
  <1>1. << Old >> \in Bodies
    BY DEF Bodies
  <1>2. objects \in [Paths -> Bodies \union {Absent}]
    BY <1>1 DEF Init
  <1>3. TypeOK
    BY <1>2 DEF Init, TypeOK, Steps, Ops
  <1>4. Shape
    BY DEF Init, Shape, JobShape, SessionShape, StepsOf
  <1>5. QED
    BY <1>3, <1>4

\* What a job is to do as long as it is none, or has ended.
LEMMA Unused ==
    ASSUME TypeOK, Shape, NEW j \in Jobs, step[j] \in {"none", "end"}
    PROVE  op[j] = "none"
  BY DEF TypeOK, Shape, JobShape, StepsOf, Ops

LEMMA StartShape ==
    ASSUME TypeOK, Shape, NEW j \in Jobs, NEW p \in Paths,
           NEW o \in Ops, NEW first \in StepsOf[o], first # "cut",
           StartJob(j, o, p, first),
           body' \in [Jobs -> Bodies \union {NoBody}], from' \in [Jobs -> Paths \union {NoPath}],
           \A k \in Jobs \ {j} : body'[k] = body[k] /\ from'[k] = from[k],
           o = "RNTO" => from'[j] \in Paths,
           o \in {"RNTO", "STOR"} => body'[j] \in Bodies,
           o = "APPE" => first = "open"
    PROVE  /\ step' \in [Jobs -> Steps] /\ op' \in [Jobs -> Ops \union {"none"}]
           /\ path' \in [Jobs -> Paths \union {NoPath}]
           /\ \A k \in Jobs : JobShape(k)'
  <1>1. first \in Steps
    BY DEF StepsOf, Steps, Ops
  <1>2. /\ step' \in [Jobs -> Steps] /\ op' \in [Jobs -> Ops \union {"none"}]
        /\ path' \in [Jobs -> Paths \union {NoPath}]
    BY <1>1 DEF StartJob, TypeOK
  <1>3. ASSUME NEW k \in Jobs \ {j}
        PROVE  JobShape(k)'
    <2>1. JobShape(k) /\ step'[k] = step[k] /\ op'[k] = op[k] /\ path'[k] = path[k]
      BY DEF StartJob, TypeOK, Shape
    <2>2. QED
      BY <2>1 DEF JobShape
  <1>4. JobShape(j)'
    <2>1. step'[j] = first /\ op'[j] = o /\ path'[j] = p
      BY DEF StartJob, TypeOK
    <2>2. QED
      BY <2>1 DEF JobShape, Ops
  <1>5. QED
    BY <1>2, <1>3, <1>4

LEMMA GotoShape ==
    ASSUME TypeOK, Shape, NEW j \in Jobs, NEW s \in StepsOf[op[j]], Active(j), s # "open",
           op[j] \in {"STOR", "APPE"} => step[j] = "stat",
           Goto(j, s)
    PROVE  step' \in [Jobs -> Steps] /\ \A k \in Jobs : JobShape(k)'
  <1>1. s \in Steps
    BY DEF TypeOK, StepsOf, Steps, Ops
  <1>2. step' \in [Jobs -> Steps]
    BY <1>1 DEF Goto, TypeOK
  <1>3. ASSUME NEW k \in Jobs
        PROVE  JobShape(k)'
    <2>1. JobShape(k) /\ JobShape(j)
      BY DEF Shape
    <2>2. CASE k = j
      BY <2>1, <2>2 DEF Goto, JobShape, TypeOK
    <2>3. CASE k # j
      BY <2>1, <2>3 DEF Goto, JobShape, TypeOK
    <2>4. QED
      BY <2>2, <2>3
  <1>4. QED
    BY <1>2, <1>3

LEMMA FinishShape ==
    ASSUME TypeOK, Shape, NEW j \in Jobs,
           NEW r \in {"ok", "exists", "failed"}, Finish(j, r)
    PROVE  /\ step' \in [Jobs -> Steps] /\ op' \in [Jobs -> Ops \union {"none"}]
           /\ path' \in [Jobs -> Paths \union {NoPath}] /\ from' \in [Jobs -> Paths \union {NoPath}]
           /\ body' \in [Jobs -> Bodies \union {NoBody}]
           /\ reply' \in [Jobs -> {"none", "ok", "exists", "failed"}]
           /\ cur' \in [Sessions -> Jobs \union {NoJob}]
           /\ \A k \in Jobs : JobShape(k)'
  <1>1. /\ step' \in [Jobs -> Steps] /\ op' \in [Jobs -> Ops \union {"none"}]
        /\ path' \in [Jobs -> Paths \union {NoPath}] /\ from' \in [Jobs -> Paths \union {NoPath}]
        /\ body' \in [Jobs -> Bodies \union {NoBody}]
        /\ reply' \in [Jobs -> {"none", "ok", "exists", "failed"}]
    BY DEF Finish, TypeOK, Steps
  <1>2. cur' \in [Sessions -> Jobs \union {NoJob}]
    BY DEF Finish, Release, TypeOK
  <1>3. ASSUME NEW k \in Jobs
        PROVE  JobShape(k)'
    <2>1. CASE k = j
      BY <2>1 DEF Finish, JobShape, TypeOK, StepsOf
    <2>2. CASE k # j
      BY <2>2 DEF Finish, JobShape, TypeOK, Shape
    <2>3. QED
      BY <2>1, <2>2
  <1>4. QED
    BY <1>1, <1>2, <1>3

\* What stays as it is as long as a job runs.
LEMMA RestShape ==
    ASSUME TypeOK, Shape, UNCHANGED Rest
    PROVE  /\ \A s \in Sessions : SessionShape(s)'
           /\ conn' \in [Sessions -> {"open", "closing", "gone"}]
           /\ auth' \in [Sessions -> BOOLEAN]
           /\ rmfr' \in [Sessions -> Paths \union {NoPath}]
           /\ rmfrReader' \in [Sessions -> Bodies \union {NoBody}]
  BY DEF TypeOK, Shape, SessionShape, Rest

LEMMA ContentType ==
    ASSUME TypeOK, NEW p \in Paths
    PROVE  Content(p) \in Bodies
  <1>1. << >> \in Bodies
    BY DEF Bodies
  <1>2. QED
    BY <1>1 DEF Content, TypeOK

LEMMA CommandShape ==
    ASSUME TypeOK, Shape, NEW s \in Sessions, Command(s), readers' \in Nat
    PROVE  TypeOK' /\ Shape'
  <1> USE DEF Idle, LoggedIn, bucket, sVars, jobVars
  <1>1. ASSUME PassOk(s) \/ Quit(s)
        PROVE  TypeOK' /\ Shape'
    <2>1. /\ conn' \in [Sessions -> {"open", "closing", "gone"}] /\ auth' \in [Sessions -> BOOLEAN]
          /\ \A t \in Sessions : conn'[t] = "gone" => conn[t] = "gone"
      BY <1>1 DEF PassOk, Quit, TypeOK
    <2>2. TypeOK'
      BY <1>1, <2>1 DEF PassOk, Quit, TypeOK
    <2>3. Shape'
      BY <1>1, <2>1 DEF PassOk, Quit, Shape, JobShape, SessionShape
    <2>4. QED
      BY <2>2, <2>3
  <1>2. ASSUME End(s)
        PROVE  TypeOK' /\ Shape'
    <2>1. TypeOK'
      BY <1>2 DEF End, TypeOK
    <2>2. \A t \in Sessions : SessionShape(t)'
      BY <1>2 DEF End, TypeOK, Shape, SessionShape
    <2>3. \A k \in Jobs : JobShape(k)'
      BY <1>2 DEF End, Shape, JobShape
    <2>4. QED
      BY <2>1, <2>2, <2>3 DEF Shape
  <1>3. ASSUME NEW p \in Paths, Rnfr(s, p)
        PROVE  TypeOK' /\ Shape'
    <2>1. objects[p] \in Bodies /\ objects[p] # NoBody
      BY <1>3, SessionAssumption DEF Rnfr, TypeOK
    <2>2. TypeOK'
      BY <1>3, <2>1 DEF Rnfr, TypeOK
    <2>3. \A t \in Sessions : SessionShape(t)'
      BY <1>3, <2>1, SessionAssumption DEF Rnfr, TypeOK, Shape, SessionShape
    <2>4. \A k \in Jobs : JobShape(k)'
      BY <1>3 DEF Rnfr, Shape, JobShape
    <2>5. QED
      BY <2>2, <2>3, <2>4 DEF Shape
  <1>4. ASSUME NEW j \in Jobs, NEW p \in Paths, Rnto(s, j, p)
        PROVE  TypeOK' /\ Shape'
    <2>1. rmfr[s] \in Paths /\ rmfrReader[s] \in Bodies
      BY <1>4 DEF Rnto, TypeOK
    <2>2. /\ from' \in [Jobs -> Paths \union {NoPath}] /\ body' \in [Jobs -> Bodies \union {NoBody}]
          /\ from'[j] = rmfr[s] /\ body'[j] = rmfrReader[s]
          /\ \A k \in Jobs \ {j} : body'[k] = body[k] /\ from'[k] = from[k]
      BY <1>4, <2>1 DEF Rnto, TypeOK
    <2>3. "RNTO" \in Ops /\ "stat" \in StepsOf["RNTO"]
      BY DEF Ops, StepsOf
    <2>4. /\ step' \in [Jobs -> Steps] /\ op' \in [Jobs -> Ops \union {"none"}]
          /\ path' \in [Jobs -> Paths \union {NoPath}] /\ \A k \in Jobs : JobShape(k)'
      BY <1>4, <2>1, <2>2, <2>3, StartShape DEF Rnto
    <2>5. TypeOK'
      BY <1>4, <2>2, <2>4 DEF Rnto, TypeOK
    <2>6. \A t \in Sessions : SessionShape(t)'
      BY <1>4 DEF Rnto, TypeOK, Shape, SessionShape
    <2>7. QED
      BY <2>4, <2>5, <2>6 DEF Shape
  <1>5. ASSUME NEW j \in Jobs, NEW p \in Paths, Stor(s, j, p)
        PROVE  TypeOK' /\ Shape'
    <2>1. << j >> \in Bodies
      BY DEF Bodies
    <2>2. /\ from' \in [Jobs -> Paths \union {NoPath}] /\ body' \in [Jobs -> Bodies \union {NoBody}]
          /\ body'[j] = << j >>
          /\ \A k \in Jobs \ {j} : body'[k] = body[k] /\ from'[k] = from[k]
      BY <1>5, <2>1 DEF Stor, TypeOK
    <2>3. "STOR" \in Ops /\ "stat" \in StepsOf["STOR"]
      BY DEF Ops, StepsOf
    <2>4. /\ step' \in [Jobs -> Steps] /\ op' \in [Jobs -> Ops \union {"none"}]
          /\ path' \in [Jobs -> Paths \union {NoPath}] /\ \A k \in Jobs : JobShape(k)'
      BY <1>5, <2>1, <2>2, <2>3, StartShape DEF Stor
    <2>5. QED
      BY <1>5, <2>2, <2>4 DEF Stor, TypeOK, Shape, SessionShape
  <1>6. ASSUME NEW j \in Jobs, NEW o \in {"APPE", "MKD", "DELE"}, NEW p \in Paths,
               NEW first \in StepsOf[o], first # "cut", o = "APPE" => first = "open",
               Await(s, j, o, p, first)
        PROVE  TypeOK' /\ Shape'
    <2>1. /\ from' \in [Jobs -> Paths \union {NoPath}] /\ body' \in [Jobs -> Bodies \union {NoBody}]
          /\ \A k \in Jobs \ {j} : body'[k] = body[k] /\ from'[k] = from[k]
      BY <1>6 DEF Await, TypeOK
    <2>2. o \in Ops
      BY DEF Ops
    <2>3. /\ step' \in [Jobs -> Steps] /\ op' \in [Jobs -> Ops \union {"none"}]
          /\ path' \in [Jobs -> Paths \union {NoPath}] /\ \A k \in Jobs : JobShape(k)'
      BY <1>6, <2>1, <2>2, StartShape DEF Await
    <2>4. QED
      BY <1>6, <2>1, <2>3 DEF Await, TypeOK, Shape, SessionShape
  <1>7. ASSUME NEW j \in Jobs, NEW p \in Paths, Appe(s, j, p) \/ Mkd(s, j, p) \/ Dele(s, j, p)
        PROVE  TypeOK' /\ Shape'
    BY <1>6, <1>7 DEF Appe, Mkd, Dele, StepsOf
  <1>8. QED
    BY <1>1, <1>2, <1>3, <1>4, <1>5, <1>7 DEF Command

\* What a job may do next, at each of its steps.
LEMMA StepLemma ==
    ASSUME TypeOK, Shape, NEW j \in Jobs
    PROVE  /\ Active(j) => op[j] \in Ops /\ path[j] \in Paths
           /\ step[j] = "open" => op[j] = "APPE"
           /\ step[j] \in {"open", "stat", "upload", "put", "lstat", "list", "delete"} => Active(j)
           /\ step[j] = "stat" /\ op[j] # "MKD" => "upload" \in StepsOf[op[j]]
           /\ step[j] = "stat" /\ op[j] = "MKD" => "put" \in StepsOf[op[j]]
           /\ step[j] = "upload" => op[j] \in {"STOR", "APPE", "RNTO"} /\ body[j] \in Bodies
           /\ step[j] = "put" => op[j] = "MKD"
           /\ step[j] \in {"lstat", "list", "delete"} =>
                 /\ op[j] \in {"RNTO", "DELE"} /\ Target(j) \in Paths
                 /\ {"lstat", "list", "delete"} \subseteq StepsOf[op[j]]
  BY DEF TypeOK, Shape, JobShape, StepsOf, Ops, Active, Target

LEMMA BucketType ==
    ASSUME TypeOK, NEW p \in Paths, NEW b \in Bodies,
           Upload(p, b) \/ PutMarker(p) \/ DeleteObject(p) \/ UNCHANGED bucket
    PROVE  objects' \in [Paths -> Bodies \union {Absent}] /\ markers' \subseteq Paths
  BY DEF TypeOK, Upload, PutMarker, DeleteObject, bucket

LEMMA JobStepShape ==
    ASSUME TypeOK, Shape, NEW j \in Jobs, Job(j), readers' \in Nat
    PROVE  TypeOK' /\ Shape'
  <1>1. /\ \A s \in Sessions : SessionShape(s)'
        /\ conn' \in [Sessions -> {"open", "closing", "gone"}]
        /\ auth' \in [Sessions -> BOOLEAN]
        /\ rmfr' \in [Sessions -> Paths \union {NoPath}]
        /\ rmfrReader' \in [Sessions -> Bodies \union {NoBody}]
    <2>1. UNCHANGED Rest
      BY DEF Job, Open, Stat, Store, Put, RemoveStat, RemoveList, Delete, RequestFails,
             AnswerLost, Rest, sVars
    <2>2. QED
      BY <2>1, RestShape
  <1>2. disturbed' \subseteq Sessions \union Jobs
    BY DEF Job, Open, Stat, Store, Put, RemoveStat, RemoveList, Delete, RequestFails,
           AnswerLost, Touch, TypeOK
  <1>3. ASSUME NEW r \in {"ok", "exists", "failed"}, Finish(j, r),
               objects' \in [Paths -> Bodies \union {Absent}], markers' \subseteq Paths
        PROVE  TypeOK' /\ Shape'
    BY <1>1, <1>2, <1>3, FinishShape DEF TypeOK, Shape
  <1>4. ASSUME NEW s \in StepsOf[op[j]], Active(j), s # "open",
               op[j] \in {"STOR", "APPE"} => step[j] = "stat", Goto(j, s),
               objects' \in [Paths -> Bodies \union {Absent}], markers' \subseteq Paths
        PROVE  TypeOK' /\ Shape'
    <2>1. step' \in [Jobs -> Steps] /\ \A k \in Jobs : JobShape(k)'
      BY <1>4, GotoShape
    <2>2. QED
      BY <1>1, <1>2, <1>4, <2>1 DEF TypeOK, Shape, Goto
  <1>5. CASE Open(j)
    <2>1. step[j] = "open" /\ op[j] = "APPE" /\ path[j] \in Paths
      BY <1>5, StepLemma DEF Open
    <2>2. Append(Content(path[j]), j) \in Bodies
      BY <2>1, ContentType, AppendProperties DEF Bodies
    <2>3. /\ body' \in [Jobs -> Bodies \union {NoBody}] /\ body'[j] \in Bodies
          /\ step' \in [Jobs -> Steps] /\ step'[j] = "stat"
          /\ \A k \in Jobs \ {j} : body'[k] = body[k] /\ step'[k] = step[k]
      BY <1>5, <2>2 DEF Open, TypeOK, Steps
    <2>4. cur' \in [Sessions -> Jobs \union {NoJob}]
      BY <1>5 DEF Open, Release, TypeOK
    <2>5. \A k \in Jobs : JobShape(k)'
      BY <1>5, <2>1, <2>3 DEF Open, Shape, JobShape, StepsOf
    <2>6. QED
      BY <1>1, <1>2, <1>5, <2>3, <2>4, <2>5 DEF Open, TypeOK, Shape, bucket
  <1>6. CASE Stat(j)
    <2>1. objects' \in [Paths -> Bodies \union {Absent}] /\ markers' \subseteq Paths
      BY <1>6 DEF Stat, TypeOK, bucket
    <2>2. QED
      BY <1>3, <1>4, <1>6, <2>1, StepLemma DEF Stat
  <1>7. CASE Store(j)
    <2>1. objects' \in [Paths -> Bodies \union {Absent}] /\ markers' \subseteq Paths
      BY <1>7, StepLemma, BucketType DEF Store
    <2>2. "lstat" \in StepsOf["RNTO"]
      BY DEF StepsOf
    <2>3. QED
      BY <1>3, <1>4, <1>7, <2>1, <2>2, StepLemma DEF Store
  <1>8. CASE Put(j)
    <2>1. << >> \in Bodies
      BY DEF Bodies
    <2>2. objects' \in [Paths -> Bodies \union {Absent}] /\ markers' \subseteq Paths
      BY <1>8, <2>1, StepLemma, BucketType DEF Put
    <2>3. QED
      BY <1>3, <1>8, <2>2 DEF Put
  <1>9. CASE RemoveStat(j) \/ RemoveList(j)
    <2>1. objects' \in [Paths -> Bodies \union {Absent}] /\ markers' \subseteq Paths
      BY <1>9 DEF RemoveStat, RemoveList, TypeOK, bucket
    <2>2. QED
      BY <1>3, <1>4, <1>9, <2>1, StepLemma DEF RemoveStat, RemoveList, RemoveError
  <1>10. CASE Delete(j)
    <2>1. << >> \in Bodies
      BY DEF Bodies
    <2>2. objects' \in [Paths -> Bodies \union {Absent}] /\ markers' \subseteq Paths
      BY <1>10, <2>1, StepLemma, BucketType DEF Delete
    <2>3. QED
      BY <1>3, <1>10, <2>2 DEF Delete
  <1>11. CASE RequestFails(j)
    <2>1. objects' \in [Paths -> Bodies \union {Absent}] /\ markers' \subseteq Paths
      BY <1>11 DEF RequestFails, TypeOK, bucket
    <2>2. QED
      BY <1>3, <1>11, <2>1 DEF RequestFails, RemoveError
  <1>12. CASE AnswerLost(j)
    <2>1. << >> \in Bodies
      BY DEF Bodies
    <2>2. objects' \in [Paths -> Bodies \union {Absent}] /\ markers' \subseteq Paths
      BY <1>12, <2>1, StepLemma, BucketType DEF AnswerLost
    <2>3. \A k \in Jobs : JobShape(k)'
      BY <1>12 DEF AnswerLost, jobVars, Shape, JobShape
    <2>4. QED
      BY <1>1, <1>2, <1>12, <2>2, <2>3 DEF AnswerLost, jobVars, sVars, TypeOK, Shape
  <1>13. QED
    BY <1>5, <1>6, <1>7, <1>8, <1>9, <1>10, <1>11, <1>12 DEF Job

LEMMA ExitShape ==
    ASSUME TypeOK, Shape, Exit
    PROVE  TypeOK' /\ Shape'
  <1>1. step' \in [Jobs -> Steps]
    BY DEF Exit, TypeOK, Steps
  <1>2. \A j \in Jobs : JobShape(j)'
    BY DEF Exit, Active, TypeOK, Shape, JobShape, StepsOf, Ops
  <1>3. \A s \in Sessions : SessionShape(s)'
    BY DEF Exit, SessionShape
  <1>4. QED
    BY <1>1, <1>2, <1>3 DEF Exit, TypeOK, Shape, bucket

LEMMA ShapeStep ==
    ASSUME TypeOK, Shape, [Next]_vars, readers' \in Nat
    PROVE  TypeOK' /\ Shape'
  <1>1. CASE UNCHANGED vars
    BY <1>1 DEF vars, bucket, sVars, jobVars, TypeOK, Shape, JobShape, SessionShape
  <1>2. QED
    BY <1>1, CommandShape, JobStepShape, ExitShape DEF Next

-----------------------------------------------------------------------------
(* Open bodies *)

Opened   == {s \in Sessions : rmfrReader[s] # NoBody}
Renaming == {j \in Jobs : op[j] = "RNTO" /\ Active(j)}

\* Each open body belongs to a session that has sent RNFR, or to a job that
\* renames.
Count == readers = Cardinality(Opened) + Cardinality(Renaming)

LEMMA Finiteness ==
    /\ IsFiniteSet(Opened) /\ Cardinality(Opened) \in Nat
    /\ IsFiniteSet(Renaming) /\ Cardinality(Renaming) \in Nat
  BY SessionAssumption, FS_Subset, FS_CardinalityType DEF Opened, Renaming

\* The case of a session that gets or loses a body.
LEMMA OpenedAdd ==
    ASSUME NEW s \in Sessions, s \notin Opened, Opened' = Opened \union {s}
    PROVE  Cardinality(Opened)' = Cardinality(Opened) + 1
  BY Finiteness, FS_AddElement

LEMMA OpenedRemove ==
    ASSUME NEW s \in Sessions, s \in Opened, Opened' = Opened \ {s}
    PROVE  Cardinality(Opened)' = Cardinality(Opened) - 1
  BY Finiteness, FS_RemoveElement

LEMMA CountInit == Init => Count
  <1> SUFFICES ASSUME Init
               PROVE  Count
    OBVIOUS
  <1>1. Opened = {} /\ Renaming = {}
    BY DEF Init, Opened, Renaming
  <1>2. QED
    BY <1>1, FS_EmptySet DEF Init, Count

LEMMA CommandCount ==
    ASSUME TypeOK, Shape, Count, NEW s \in Sessions, Command(s)
    PROVE  Count'
  <1> USE DEF Idle, LoggedIn, bucket, sVars, jobVars
  <1>1. ASSUME UNCHANGED << rmfrReader, step, op, readers >>
        PROVE  Count'
    <2>1. Opened' = Opened /\ Renaming' = Renaming
      BY <1>1 DEF Opened, Renaming, Active
    <2>2. QED
      BY <1>1, <2>1 DEF Count
  <1>2. CASE PassOk(s) \/ Quit(s)
    BY <1>1, <1>2 DEF PassOk, Quit
  <1>3. CASE End(s)
    <2>1. Renaming' = Renaming
      BY <1>3 DEF End, Renaming, Active
    <2>2. Opened' = Opened \ {s}
      BY <1>3 DEF End, Opened, TypeOK
    <2>3. CASE rmfrReader[s] = NoBody
      <3>1. Opened' = Opened
        BY <2>2, <2>3 DEF Opened
      <3>2. QED
        BY <1>3, <2>1, <2>3, <3>1 DEF End, Count
    <2>4. CASE rmfrReader[s] # NoBody
      <3>1. s \in Opened
        BY <2>4 DEF Opened
      <3>2. Cardinality(Opened)' = Cardinality(Opened) - 1
        BY <2>2, <3>1, OpenedRemove
      <3>3. readers' = readers - 1
        BY <1>3, <2>4 DEF End
      <3>4. QED
        BY <2>1, <3>2, <3>3, Finiteness DEF Count
    <2>5. QED
      BY <2>3, <2>4
  <1>4. ASSUME NEW p \in Paths, Rnfr(s, p)
        PROVE  Count'
    <2>1. Renaming' = Renaming
      BY <1>4 DEF Rnfr, Renaming, Active
    <2>2. objects[p] # NoBody
      BY <1>4, SessionAssumption DEF Rnfr, TypeOK
    <2>3. s \notin Opened /\ Opened' = Opened \union {s}
      BY <1>4, <2>2 DEF Rnfr, Opened, TypeOK
    <2>4. readers' = readers + 1
      BY <1>4 DEF Rnfr
    <2>5. Cardinality(Opened)' = Cardinality(Opened) + 1
      BY <2>3, OpenedAdd
    <2>6. QED
      BY <2>1, <2>4, <2>5, Finiteness DEF Count
  <1>5. ASSUME NEW j \in Jobs, NEW p \in Paths, Rnto(s, j, p)
        PROVE  Count'
    <2>1. j \notin Renaming
      BY <1>5 DEF Rnto, StartJob, Renaming, Active
    <2>2. Renaming' = Renaming \union {j}
      <3>1. step'[j] = "stat" /\ op'[j] = "RNTO"
        BY <1>5 DEF Rnto, StartJob, TypeOK
      <3>2. \A k \in Jobs \ {j} : step'[k] = step[k] /\ op'[k] = op[k]
        BY <1>5 DEF Rnto, StartJob, TypeOK
      <3>3. QED
        BY <3>1, <3>2 DEF Renaming, Active
    <2>3. s \in Opened /\ Opened' = Opened \ {s}
      BY <1>5 DEF Rnto, Opened, TypeOK
    <2>4. Cardinality(Renaming)' = Cardinality(Renaming) + 1
      BY <2>1, <2>2, Finiteness, FS_AddElement
    <2>5. readers' = readers
      BY <1>5 DEF Rnto
    <2>6. Cardinality(Opened)' = Cardinality(Opened) - 1
      BY <2>3, OpenedRemove
    <2>7. QED
      BY <2>4, <2>5, <2>6, Finiteness DEF Count
  <1>6. ASSUME NEW j \in Jobs, NEW o, NEW p \in Paths, NEW first, o # "RNTO",
               StartJob(j, o, p, first), UNCHANGED << rmfrReader, readers >>
        PROVE  Count'
    <2>1. op[j] = "none"
      BY <1>6, Unused DEF StartJob
    <2>2. Renaming' = Renaming
      <3>1. op'[j] = o
        BY <1>6 DEF StartJob, TypeOK
      <3>2. \A k \in Jobs \ {j} : step'[k] = step[k] /\ op'[k] = op[k]
        BY <1>6 DEF StartJob, TypeOK
      <3>3. QED
        BY <1>6, <2>1, <3>1, <3>2 DEF Renaming, Active
    <2>3. Opened' = Opened
      BY <1>6 DEF Opened
    <2>4. QED
      BY <1>6, <2>2, <2>3 DEF Count
  <1>7. ASSUME NEW j \in Jobs, NEW p \in Paths,
               Stor(s, j, p) \/ Appe(s, j, p) \/ Mkd(s, j, p) \/ Dele(s, j, p)
        PROVE  Count'
    BY <1>6, <1>7 DEF Stor, Appe, Mkd, Dele, Await
  <1>8. QED
    BY <1>2, <1>3, <1>4, <1>5, <1>7 DEF Command

LEMMA JobCount ==
    ASSUME TypeOK, Shape, Count, NEW j \in Jobs, Job(j)
    PROVE  Count'
  <1>1. Opened' = Opened
    BY DEF Job, Open, Stat, Store, Put, RemoveStat, RemoveList, Delete, RequestFails,
           AnswerLost, Rest, sVars, Opened
  <1>2. ASSUME NEW s \in StepsOf[op[j]] \ {"none", "end", "cut"}, Active(j), Goto(j, s)
        PROVE  Count'
    <2>1. \A k \in Jobs : (op[k] = "RNTO" /\ Active(k)) <=> (op'[k] = "RNTO" /\ Active(k)')
      BY <1>2 DEF Goto, TypeOK, Active
    <2>2. Renaming' = Renaming
      BY <2>1 DEF Renaming
    <2>3. QED
      BY <1>1, <1>2, <2>2 DEF Goto, Count
  <1>3. ASSUME NEW r, Active(j), Finish(j, r)
        PROVE  Count'
    <2>1. op'[j] = "none" /\ \A k \in Jobs \ {j} : op'[k] = op[k] /\ step'[k] = step[k]
      BY <1>3 DEF Finish, TypeOK
    <2>2. Renaming' = Renaming \ {j}
      BY <2>1 DEF Renaming, Active
    <2>3. CASE op[j] = "RNTO"
      <3>1. j \in Renaming /\ readers' = readers - 1
        BY <1>3, <2>3 DEF Renaming, Finish
      <3>2. Cardinality(Renaming)' = Cardinality(Renaming) - 1
        BY <2>2, <3>1, Finiteness, FS_RemoveElement
      <3>3. QED
        BY <1>1, <3>1, <3>2, Finiteness DEF Count
    <2>4. CASE op[j] # "RNTO"
      <3>1. Renaming' = Renaming /\ readers' = readers
        BY <1>3, <2>2, <2>4 DEF Renaming, Finish
      <3>2. QED
        BY <1>1, <3>1 DEF Count
    <2>5. QED
      BY <2>3, <2>4
  <1>4. CASE Open(j)
    <2>1. op[j] = "APPE" /\ op' = op /\ readers' = readers
          /\ \A k \in Jobs \ {j} : step'[k] = step[k]
      BY <1>4, StepLemma DEF Open, TypeOK
    <2>2. Renaming' = Renaming
      BY <2>1 DEF Renaming, Active
    <2>3. QED
      BY <1>1, <2>1, <2>2 DEF Count
  <1>5. CASE AnswerLost(j)
    <2>1. Renaming' = Renaming /\ readers' = readers
      BY <1>5 DEF AnswerLost, jobVars, Renaming, Active
    <2>2. QED
      BY <1>1, <2>1 DEF Count
  <1>6. CASE Stat(j)
    BY <1>2, <1>3, <1>6, StepLemma DEF Stat
  <1>7. CASE Store(j)
    <2>1. "lstat" \in StepsOf["RNTO"]
      BY DEF StepsOf
    <2>2. QED
      BY <1>2, <1>3, <1>7, <2>1, StepLemma DEF Store
  <1>8. CASE Put(j) \/ Delete(j) \/ RequestFails(j)
    BY <1>3, <1>8, StepLemma DEF Put, Delete, RequestFails, RemoveError
  <1>9. CASE RemoveStat(j) \/ RemoveList(j)
    BY <1>2, <1>3, <1>9, StepLemma DEF RemoveStat, RemoveList, RemoveError
  <1>10. QED
    BY <1>4, <1>5, <1>6, <1>7, <1>8, <1>9 DEF Job

LEMMA CountStep ==
    ASSUME TypeOK, Shape, Count, [Next]_vars
    PROVE  Count'
  <1>1. CASE UNCHANGED vars
    BY <1>1 DEF vars, sVars, jobVars, Count, Opened, Renaming, Active
  <1>2. CASE Exit
    <2>1. Opened' = {} /\ Renaming' = {}
      BY <1>2 DEF Exit, Opened, Renaming, Active, TypeOK
    <2>2. QED
      BY <1>2, <2>1, FS_EmptySet DEF Exit, Count
  <1>3. QED
    BY <1>1, <1>2, CommandCount, JobCount DEF Next

LEMMA CountNat == Count => readers \in Nat
  BY Finiteness DEF Count

LEMMA Invariance == Spec => [](TypeOK /\ Shape /\ Count)
  <1>1. Init => TypeOK /\ Shape /\ Count
    BY ShapeInit, CountInit
  <1>2. TypeOK /\ Shape /\ Count /\ [Next]_vars => Count'
    BY CountStep
  <1>3. Count => readers \in Nat
    BY CountNat
  <1>4. TypeOK /\ Shape /\ [Next]_vars /\ (readers \in Nat)' => TypeOK' /\ Shape'
    BY ShapeStep
  <1>5. QED
    BY <1>1, <1>2, <1>3, <1>4, PTL DEF Spec

\* Every variable stays in its range; in particular no body is closed twice.
THEOREM TypeCorrect == Spec => []TypeOK
  BY Invariance, PTL

\* For any number of sessions and jobs: each body that RNFR opens is closed,
\* whoever ends first.
THEOREM ReadersClosed == Spec => []NoReaderLeft
  <1>1. TypeOK /\ Shape /\ Count => NoReaderLeft
    <2> SUFFICES ASSUME TypeOK, Shape, Count, Over
                 PROVE  readers = 0
      BY DEF NoReaderLeft
    <2>1. Opened = {} /\ Renaming = {}
      BY DEF Over, Opened, Renaming, Shape, SessionShape
    <2>2. QED
      BY <2>1, FS_EmptySet DEF Count
  <1>2. QED
    BY <1>1, Invariance, PTL

-----------------------------------------------------------------------------
(* What the bucket holds *)

\* RNTO: the old file is there until the new one is; APPE: the file is what
\* was read, until it is what was written.  Neither if somebody disturbs it.
Intact(j) ==
    /\ op[j] = "RNTO" /\ j \notin disturbed /\ path[j] # from[j] =>
          /\ step[j] \in {"stat", "upload"} => objects[from[j]] = body[j]
          /\ step[j] \in {"lstat", "list", "delete"} =>
                objects[path[j]] = body[j] /\ objects[from[j]] \in {body[j], Absent}
          /\ step[j] = "cut" => body[j] \in {objects[from[j]], objects[path[j]]}
    /\ op[j] = "APPE" /\ j \notin disturbed /\ step[j] \in {"stat", "upload"} =>
          Content(path[j]) \in {body[j], SubSeq(body[j], 1, Len(body[j]) - 1)}

\* What RNFR has opened is what the file holds.
Remembers(s) == s \notin disturbed /\ rmfr[s] # NoPath => objects[rmfr[s]] = rmfrReader[s]

Contents ==
    /\ \A j \in Jobs : Intact(j)
    /\ \A s \in Sessions : Remembers(s)

\* The step is nothing to the job j, and nothing to the session s.
SameJob(j) ==
    /\ step'[j] = step[j] /\ op'[j] = op[j] /\ path'[j] = path[j]
    /\ from'[j] = from[j] /\ body'[j] = body[j]
SameSession(s) == rmfr'[s] = rmfr[s] /\ rmfrReader'[s] = rmfrReader[s]

LEMMA QuietJob ==
    ASSUME Contents, NEW k \in Jobs, SameJob(k), objects' = objects,
           k \notin disturbed' => k \notin disturbed
    PROVE  Intact(k)'
  BY DEF Contents, Intact, SameJob, Content

LEMMA QuietSession ==
    ASSUME Contents, NEW s \in Sessions, SameSession(s), objects' = objects,
           s \notin disturbed' => s \notin disturbed
    PROVE  Remembers(s)'
  BY DEF Contents, Remembers, SameSession

\* Whoever is not disturbed by a change does not care for the file.
LEMMA TouchedJob ==
    ASSUME TypeOK, Shape, Contents, NEW j \in Jobs, NEW p \in Paths, NEW b,
           objects' = [objects EXCEPT ![p] = b], Touch(p, j),
           NEW k \in Jobs, k # j, SameJob(k)
    PROVE  Intact(k)'
  <1>1. CASE k \in disturbed'
    BY <1>1 DEF Intact
  <1>2. CASE k \notin disturbed'
    <2>1. k \notin disturbed /\ path[k] # p /\ from[k] # p
      BY <1>2 DEF Touch
    <2>2. op[k] \in {"RNTO", "APPE"} => path[k] \in Paths
      BY DEF Shape, JobShape
    <2>3. op[k] = "RNTO" => from[k] \in Paths
      BY DEF Shape, JobShape
    <2>4. \A q \in Paths : q # p => objects'[q] = objects[q]
      BY DEF TypeOK
    <2>5. Intact(k)
      BY DEF Contents
    <2>6. QED
      BY <2>1, <2>2, <2>3, <2>4, <2>5 DEF Intact, SameJob, Content
  <1>3. QED
    BY <1>1, <1>2

LEMMA TouchedSession ==
    ASSUME TypeOK, Contents, NEW j \in Jobs, NEW p \in Paths, NEW b,
           objects' = [objects EXCEPT ![p] = b], Touch(p, j),
           NEW s \in Sessions, SameSession(s)
    PROVE  Remembers(s)'
  <1>1. CASE s \in disturbed'
    BY <1>1 DEF Remembers
  <1>2. CASE s \notin disturbed'
    <2>1. s \notin disturbed /\ rmfr[s] # p
      BY <1>2 DEF Touch
    <2>2. rmfr[s] # NoPath => objects'[rmfr[s]] = objects[rmfr[s]]
      BY <2>1 DEF TypeOK
    <2>3. QED
      BY <2>1, <2>2 DEF Contents, Remembers, SameSession
  <1>3. QED
    BY <1>1, <1>2

LEMMA ContentsInit == Init => Contents
  BY DEF Init, Contents, Intact, Remembers

LEMMA CommandContents ==
    ASSUME TypeOK, Shape, Contents, NEW s \in Sessions, Command(s)
    PROVE  Contents'
  <1> USE DEF Idle, LoggedIn, bucket, sVars, jobVars
  <1>1. \A k \in Jobs : k # s
    BY SessionAssumption
  <1>2. ASSUME NEW j \in Jobs, NEW o \in Ops, NEW p \in Paths, NEW first,
               StartJob(j, o, p, first), o = "APPE" => first = "open", o # "RNTO",
               \A k \in Jobs \ {j} : body'[k] = body[k] /\ from'[k] = from[k],
               UNCHANGED << objects, rmfr, rmfrReader, disturbed >>
        PROVE  Contents'
    <2>1. ASSUME NEW k \in Jobs \ {j}
          PROVE  Intact(k)'
      <3>1. SameJob(k)
        BY <1>2 DEF StartJob, SameJob, TypeOK
      <3>2. QED
        BY <1>2, <3>1, QuietJob
    <2>2. Intact(j)'
      <3>1. op'[j] = o /\ step'[j] = first
        BY <1>2 DEF StartJob, TypeOK
      <3>2. QED
        BY <1>2, <3>1 DEF Intact
    <2>3. \A t \in Sessions : Remembers(t)'
      BY <1>2, QuietSession DEF SameSession
    <2>4. QED
      BY <2>1, <2>2, <2>3 DEF Contents
  <1>3. CASE PassOk(s) \/ Quit(s)
    BY <1>3 DEF PassOk, Quit, Contents, Intact, Remembers, Content
  <1>4. ASSUME UNCHANGED << objects, jobVars >>, disturbed' = disturbed \ {s},
               \A t \in Sessions \ {s} : SameSession(t), Remembers(s)'
        PROVE  Contents'
    <2>1. ASSUME NEW k \in Jobs
          PROVE  Intact(k)'
      BY <1>1, <1>4, QuietJob DEF SameJob
    <2>2. ASSUME NEW t \in Sessions \ {s}
          PROVE  Remembers(t)'
      BY <1>4, QuietSession
    <2>3. QED
      BY <1>4, <2>1, <2>2 DEF Contents
  <1>5. CASE End(s)
    <2>1. rmfr'[s] = NoPath /\ \A t \in Sessions \ {s} : SameSession(t)
      BY <1>5 DEF End, TypeOK, SameSession
    <2>2. QED
      BY <1>4, <1>5, <2>1 DEF End, Remembers
  <1>6. ASSUME NEW p \in Paths, Rnfr(s, p)
        PROVE  Contents'
    <2>1. rmfr'[s] = p /\ rmfrReader'[s] = objects[p] /\ objects' = objects
          /\ \A t \in Sessions \ {s} : SameSession(t)
      BY <1>6 DEF Rnfr, TypeOK, SameSession
    <2>2. QED
      BY <1>4, <1>6, <2>1 DEF Rnfr, Remembers
  <1>7. ASSUME NEW j \in Jobs, NEW p \in Paths, Rnto(s, j, p)
        PROVE  Contents'
    <2>1. ASSUME NEW k \in Jobs \ {j}
          PROVE  Intact(k)'
      <3>1. SameJob(k)
        BY <1>7 DEF Rnto, StartJob, SameJob, TypeOK
      <3>2. k \notin disturbed' => k \notin disturbed
        BY <1>1, <1>7 DEF Rnto
      <3>3. QED
        BY <1>7, <3>1, <3>2, QuietJob DEF Rnto
    <2>2. Intact(j)'
      <3>1. op'[j] = "RNTO" /\ step'[j] = "stat" /\ from'[j] = rmfr[s] /\ body'[j] = rmfrReader[s]
        BY <1>7 DEF Rnto, StartJob, TypeOK
      <3>2. j \notin disturbed' => s \notin disturbed
        BY <1>7 DEF Rnto
      <3>3. j \notin disturbed' => objects[rmfr[s]] = rmfrReader[s]
        BY <1>7, <3>2 DEF Rnto, Contents, Remembers
      <3>4. objects' = objects
        BY <1>7 DEF Rnto
      <3>5. QED
        BY <3>1, <3>3, <3>4 DEF Intact
    <2>3. ASSUME NEW t \in Sessions
          PROVE  Remembers(t)'
      <3>1. CASE t = s
        <4>1. rmfr'[s] = NoPath
          BY <1>7 DEF Rnto, TypeOK
        <4>2. QED
          BY <3>1, <4>1 DEF Remembers
      <3>2. CASE t # s
        <4>1. SameSession(t) /\ (t \notin disturbed' => t \notin disturbed)
          BY <1>7, <3>2 DEF Rnto, TypeOK, SameSession
        <4>2. QED
          BY <1>7, <4>1, QuietSession DEF Rnto
      <3>3. QED
        BY <3>1, <3>2
    <2>4. QED
      BY <2>1, <2>2, <2>3 DEF Contents
  <1>8. ASSUME NEW j \in Jobs, NEW p \in Paths, Stor(s, j, p)
        PROVE  Contents'
    <2>1. \A k \in Jobs \ {j} : body'[k] = body[k] /\ from'[k] = from[k]
      BY <1>8 DEF Stor, TypeOK
    <2>2. QED
      BY <1>2, <1>8, <2>1 DEF Stor, Ops
  <1>9. ASSUME NEW j \in Jobs, NEW p \in Paths, Appe(s, j, p) \/ Mkd(s, j, p) \/ Dele(s, j, p)
        PROVE  Contents'
    BY <1>2, <1>9 DEF Appe, Mkd, Dele, Await, Ops
  <1>10. QED
    BY <1>3, <1>5, <1>6, <1>7, <1>8, <1>9 DEF Command

\* All but the last of what APPE uploads is what it has read.
LEMMA FrontOfAppend ==
    ASSUME NEW c \in Bodies, NEW j \in Jobs
    PROVE  SubSeq(Append(c, j), 1, Len(Append(c, j)) - 1) = c
  <1> DEFINE a == Append(c, j)
             f == SubSeq(a, 1, Len(a) - 1)
  <1>1. /\ a \in Bodies /\ Len(a) = Len(c) + 1 /\ Len(c) \in Nat
        /\ \A i \in 1 .. Len(c) : a[i] = c[i]
    BY AppendProperties, LenProperties DEF Bodies
  <1> HIDE DEF a
  <1>2. Len(a) - 1 = Len(c)
    BY <1>1
  <1>3. \A i \in 1 .. Len(c) : a[i] \in Jobs \union {Old}
    BY <1>1, ElementOfSeq DEF Bodies
  <1>4. /\ f \in Seq(Jobs \union {Old}) /\ Len(f) = Len(c)
        /\ \A i \in 1 .. Len(c) : f[i] = a[i]
    BY <1>1, <1>2, <1>3, SubSeqProperties
  <1> HIDE DEF f
  <1>5. f = c
    BY <1>1, <1>4, SeqEqual DEF Bodies
  <1>6. QED
    BY <1>5 DEF f, a

\* The job that takes a step is all that the step needs to be looked at for.
LEMMA OthersContents ==
    ASSUME TypeOK, Shape, Contents, NEW j \in Jobs, Job(j)
    PROVE  /\ \A k \in Jobs \ {j} : Intact(k)'
           /\ \A s \in Sessions : Remembers(s)'
  <1>1. \A k \in Jobs \ {j} : SameJob(k)
    BY DEF Job, Open, Stat, Store, Put, RemoveStat, RemoveList, Delete, RequestFails,
           AnswerLost, RemoveError, Goto, Finish, jobVars, SameJob, TypeOK
  <1>2. \A s \in Sessions : SameSession(s)
    BY DEF Job, Open, Stat, Store, Put, RemoveStat, RemoveList, Delete, RequestFails,
           AnswerLost, Rest, sVars, SameSession
  <1>3. ASSUME objects' = objects, \A x \in Jobs \union Sessions : x # j /\ x \notin disturbed' => x \notin disturbed
        PROVE  /\ \A k \in Jobs \ {j} : Intact(k)'
               /\ \A s \in Sessions : Remembers(s)'
    <2>1. \A s \in Sessions : s # j
      BY SessionAssumption
    <2>2. QED
      BY <1>1, <1>2, <1>3, <2>1, QuietJob, QuietSession
  <1>4. ASSUME NEW p \in Paths, NEW b, objects' = [objects EXCEPT ![p] = b], Touch(p, j)
        PROVE  /\ \A k \in Jobs \ {j} : Intact(k)'
               /\ \A s \in Sessions : Remembers(s)'
    BY <1>1, <1>2, <1>4, TouchedJob, TouchedSession
  <1>5. CASE Open(j) \/ Stat(j) \/ Put(j) \/ RemoveStat(j) \/ RemoveList(j) \/ RequestFails(j)
    BY <1>3, <1>5 DEF Open, Stat, Put, PutMarker, RemoveStat, RemoveList, RequestFails, bucket
  <1>6. CASE Store(j)
    BY <1>4, <1>6, StepLemma DEF Store, Upload
  <1>7. CASE Delete(j)
    BY <1>4, <1>7, StepLemma DEF Delete, DeleteObject
  <1>8. CASE AnswerLost(j)
    BY <1>3, <1>4, <1>8, StepLemma DEF AnswerLost, Upload, PutMarker, DeleteObject
  <1>9. QED
    BY <1>5, <1>6, <1>7, <1>8 DEF Job

LEMMA OwnContents ==
    ASSUME TypeOK, Shape, Contents, NEW j \in Jobs, Job(j)
    PROVE  Intact(j)'
  <1>1. Intact(j) /\ JobShape(j)
    BY DEF Contents, Shape
  <1>2. ASSUME NEW r, Finish(j, r)
        PROVE  Intact(j)'
    BY <1>2 DEF Finish, Intact, TypeOK
  <1>3. ASSUME NEW s, Goto(j, s), objects' = objects, disturbed' = disturbed,
               \/ step[j] = "stat" /\ s \in {"upload", "put"}
               \/ step[j] \in {"lstat", "list", "delete"} /\ s \in {"list", "delete"}
        PROVE  Intact(j)'
    <2>1. step'[j] = s /\ op' = op /\ path' = path /\ from' = from /\ body' = body
      BY <1>3 DEF Goto, TypeOK
    <2>2. op[j] = "APPE" => step[j] \notin {"lstat", "list", "delete"}
      BY <1>1 DEF JobShape, StepsOf
    <2>3. QED
      BY <1>1, <1>3, <2>1, <2>2 DEF Intact, Content
  <1>4. CASE Open(j)
    <2>1. op[j] = "APPE" /\ path[j] \in Paths
      BY <1>4, StepLemma DEF Open
    <2>2. /\ body'[j] = Append(Content(path[j]), j) /\ step'[j] = "stat" /\ op' = op
          /\ Content(path[j])' = Content(path[j])
      BY <1>4 DEF Open, TypeOK, Content, bucket
    <2>3. SubSeq(body'[j], 1, Len(body'[j]) - 1) = Content(path[j])
      BY <2>1, <2>2, ContentType, FrontOfAppend
    <2>4. QED
      BY <2>1, <2>2, <2>3 DEF Intact
  <1>5. CASE Stat(j)
    BY <1>2, <1>3, <1>5 DEF Stat, bucket
  <1>6. CASE Store(j)
    <2>1. ASSUME op[j] = "RNTO", Goto(j, "lstat")
          PROVE  Intact(j)'
      <3>1. path[j] \in Paths /\ from[j] \in Paths /\ step[j] = "upload"
        BY <1>1, <1>6, <2>1 DEF JobShape, Store
      <3>2. objects'[path[j]] = body[j] /\ (path[j] # from[j] => objects'[from[j]] = objects[from[j]])
        BY <1>6, <3>1 DEF Store, Upload, TypeOK
      <3>3. j \notin disturbed' => j \notin disturbed
        BY <1>6 DEF Store, Touch
      <3>4. step'[j] = "lstat" /\ op' = op /\ path' = path /\ from' = from /\ body' = body
        BY <2>1 DEF Goto, TypeOK
      <3>5. QED
        BY <1>1, <2>1, <3>1, <3>2, <3>3, <3>4 DEF Intact
    <2>2. QED
      BY <1>2, <1>6, <2>1 DEF Store
  <1>7. CASE Put(j) \/ Delete(j)
    BY <1>2, <1>7 DEF Put, Delete
  <1>8. CASE RemoveStat(j) \/ RemoveList(j)
    BY <1>2, <1>3, <1>8 DEF RemoveStat, RemoveList, RemoveError, bucket
  <1>9. CASE RequestFails(j)
    BY <1>2, <1>9 DEF RequestFails, RemoveError
  <1>10. CASE AnswerLost(j)
    <2>1. UNCHANGED << step, op, path, from, body >> /\ (j \notin disturbed' => j \notin disturbed)
      BY <1>10 DEF AnswerLost, jobVars, Touch
    <2>2. CASE step[j] = "upload" /\ Upload(path[j], body[j])
      <3>1. path[j] \in Paths /\ body[j] \in Bodies /\ body[j] # Absent
        BY <2>2, StepLemma, SessionAssumption
      <3>2. objects'[path[j]] = body[j] /\ \A q \in Paths \ {path[j]} : objects'[q] = objects[q]
        BY <2>2, <3>1 DEF Upload, TypeOK
      <3>3. op[j] = "RNTO" => from[j] \in Paths
        BY <1>1 DEF JobShape
      <3>4. QED
        BY <1>1, <2>1, <2>2, <3>1, <3>2, <3>3 DEF Intact, Content
    <2>3. CASE step[j] = "put" /\ PutMarker(path[j])
      BY <1>1, <2>1, <2>3 DEF PutMarker, Intact, Content
    <2>4. CASE step[j] = "delete" /\ DeleteObject(Target(j))
      <3>1. op[j] = "RNTO" => Target(j) = from[j] /\ from[j] \in Paths /\ path[j] \in Paths
        BY <1>1 DEF JobShape, Target
      <3>2. Target(j) \in Paths
        BY <2>4, StepLemma
      <3>3. objects'[Target(j)] = Absent /\ \A q \in Paths \ {Target(j)} : objects'[q] = objects[q]
        BY <2>4, <3>2 DEF DeleteObject, TypeOK
      <3>4. QED
        BY <1>1, <2>1, <2>4, <3>1, <3>3 DEF Intact
    <2>5. QED
      BY <1>10, <2>2, <2>3, <2>4 DEF AnswerLost
  <1>11. QED
    BY <1>4, <1>5, <1>6, <1>7, <1>8, <1>9, <1>10 DEF Job

LEMMA ContentsStep ==
    ASSUME TypeOK, Shape, Contents, [Next]_vars
    PROVE  Contents'
  <1>1. CASE UNCHANGED vars
    BY <1>1 DEF vars, bucket, sVars, jobVars, Contents, Intact, Remembers, Content
  <1>2. CASE Exit
    <2>1. ASSUME NEW j \in Jobs
          PROVE  Intact(j)'
      <3>1. Intact(j) /\ JobShape(j)
        BY DEF Contents, Shape
      <3>2. UNCHANGED << objects, op, path, from, body >> /\ (j \notin disturbed' => j \notin disturbed)
        BY <1>2, SessionAssumption DEF Exit, bucket
      <3>3. step'[j] = IF Active(j) THEN "cut" ELSE step[j]
        BY <1>2 DEF Exit
      <3>4. QED
        BY <3>1, <3>2, <3>3 DEF Intact, JobShape, StepsOf, Active, Content
    <2>2. \A s \in Sessions : Remembers(s)'
      BY <1>2 DEF Exit, Remembers
    <2>3. QED
      BY <2>1, <2>2 DEF Contents
  <1>3. ASSUME NEW j \in Jobs, Job(j)
        PROVE  Contents'
    BY <1>3, OthersContents, OwnContents DEF Contents
  <1>4. QED
    BY <1>1, <1>2, <1>3, CommandContents DEF Next

LEMMA ContentsInvariance == Spec => []Contents
  <1>1. TypeOK /\ Shape /\ Contents /\ [Next]_vars => Contents'
    BY ContentsStep
  <1>2. QED
    BY <1>1, ContentsInit, Invariance, PTL DEF Spec

-----------------------------------------------------------------------------
(* Properties *)

\* For all paths and any number of sessions and jobs, whatever fails, gets
\* lost or ends: a rename that nobody disturbs never loses its file.
THEOREM RenamesSafe == Spec => []RenameSafe
  <1>1. TypeOK /\ Shape /\ Contents => RenameSafe
    <2> SUFFICES ASSUME TypeOK, Shape, Contents, NEW j \in Jobs,
                        op[j] = "RNTO", j \notin disturbed, path[j] # from[j]
                 PROVE  body[j] \in {objects[from[j]], objects[path[j]]}
      BY DEF RenameSafe
    <2>1. step[j] \in {"stat", "upload", "lstat", "list", "delete", "cut"}
      BY DEF Shape, JobShape, StepsOf
    <2>2. QED
      BY <2>1 DEF Contents, Intact
  <1>2. QED
    BY <1>1, Invariance, ContentsInvariance, PTL

\* Only a step of its own gives a job its reply, and it is its last one.
LEMMA ReplyLemma ==
    ASSUME TypeOK, Shape, [Next]_vars, NEW j \in Jobs, reply'[j] # reply[j]
    PROVE  Job(j) /\ ~AnswerLost(j) /\ Finish(j, reply'[j])
  <1>1. CASE UNCHANGED vars \/ Exit
    BY <1>1 DEF vars, jobVars, Exit
  <1>2. ASSUME NEW s \in Sessions, Command(s)
        PROVE  reply' = reply
    BY <1>2 DEF Command, PassOk, Quit, End, Rnfr, Rnto, Stor, Appe, Mkd, Dele, Await, jobVars
  <1>3. ASSUME NEW k \in Jobs, Job(k), k # j
        PROVE  reply'[j] = reply[j]
    BY <1>3 DEF Job, Open, Stat, Store, Put, RemoveStat, RemoveList, Delete, RequestFails,
                AnswerLost, RemoveError, Goto, Finish, jobVars, TypeOK
  <1>4. Job(j)
    BY <1>1, <1>2, <1>3 DEF Next
  <1>5. ASSUME NEW r, Finish(j, r)
        PROVE  Finish(j, reply'[j])
    BY <1>5 DEF Finish, TypeOK
  <1>6. ~AnswerLost(j) /\ Finish(j, reply'[j])
    BY <1>4, <1>5 DEF Job, Open, Stat, Store, Put, RemoveStat, RemoveList, Delete, RequestFails,
                      AnswerLost, RemoveError, Goto, jobVars
  <1>7. QED
    BY <1>4, <1>6

\* For all paths, any number of sessions and jobs, and requests that fail or
\* are done more than once: RNTO moves its file.
THEOREM RenamesMove == Spec => RenameMoves
  <1> DEFINE Moved(j) == /\ objects'[path[j]] = body[j]
                         /\ objects[from[j]] \in {body[j], Absent}
  <1>1. TypeOK /\ Shape /\ Contents /\ [Next]_vars =>
            \A j \in Jobs : Ends(j, "RNTO") /\ j \notin disturbed /\ path[j] # from[j] => Moved(j)
    <2> SUFFICES ASSUME TypeOK, Shape, Contents, [Next]_vars, NEW j \in Jobs,
                        Ends(j, "RNTO"), j \notin disturbed, path[j] # from[j]
                 PROVE  Moved(j)
      OBVIOUS
    <2>1. Job(j) /\ ~AnswerLost(j) /\ Finish(j, "ok")
      BY ReplyLemma DEF Ends
    <2>2. op[j] = "RNTO" /\ path[j] \in Paths /\ from[j] \in Paths
      BY DEF Ends, Shape, JobShape
    <2>3. step[j] \in {"lstat", "list", "delete"}
          /\ (UNCHANGED objects \/ DeleteObject(from[j]))
      <3>1. ~Open(j) /\ ~Put(j)
        BY <2>2, StepLemma DEF Open, Put
      <3>2. ~Stat(j) /\ ~Store(j)
        BY <2>1, <2>2 DEF Stat, Store, Finish, Goto, TypeOK
      <3>3. CASE RemoveStat(j) \/ RemoveList(j) \/ Delete(j)
        BY <2>2, <3>3 DEF RemoveStat, RemoveList, Delete, Target, bucket
      <3>4. CASE RequestFails(j)
        BY <2>1, <3>4 DEF RequestFails, Finish, TypeOK, bucket
      <3>5. QED
        BY <2>1, <3>1, <3>2, <3>3, <3>4 DEF Job
    <2>4. objects[path[j]] = body[j] /\ objects[from[j]] \in {body[j], Absent}
      BY <2>2, <2>3 DEF Contents, Intact
    <2>5. objects'[path[j]] = objects[path[j]]
      BY <2>2, <2>3 DEF DeleteObject, TypeOK
    <2>6. QED
      BY <2>4, <2>5
  <1>2. QED
    BY <1>1, Invariance, ContentsInvariance, PTL DEF Spec, RenameMoves

\* For all paths and any number of sessions and jobs: APPE keeps what the file
\* held.
THEOREM AppendsExtend == Spec => AppendExtends
  <1> DEFINE Extended(j) ==
        /\ objects'[path[j]] = body[j]
        /\ Content(path[j]) \in {body[j], SubSeq(body[j], 1, Len(body[j]) - 1)}
  <1>1. TypeOK /\ Shape /\ Contents /\ [Next]_vars =>
            \A j \in Jobs : Ends(j, "APPE") /\ j \notin disturbed => Extended(j)
    <2> SUFFICES ASSUME TypeOK, Shape, Contents, [Next]_vars, NEW j \in Jobs,
                        Ends(j, "APPE"), j \notin disturbed
                 PROVE  Extended(j)
      OBVIOUS
    <2>1. Job(j) /\ ~AnswerLost(j) /\ Finish(j, "ok")
      BY ReplyLemma DEF Ends
    <2>2. op[j] = "APPE" /\ path[j] \in Paths
          /\ step[j] \notin {"put", "lstat", "list", "delete"}
      BY DEF Ends, Shape, JobShape, StepsOf
    <2>3. Store(j)
      <3>1. ~Open(j) /\ ~Stat(j) /\ ~RequestFails(j)
        BY <2>1, <2>2 DEF Open, Stat, RequestFails, Finish, Goto, TypeOK
      <3>2. QED
        BY <2>1, <2>2, <3>1 DEF Job, Put, RemoveStat, RemoveList, Delete
    <2>4. objects'[path[j]] = body[j]
      BY <2>2, <2>3 DEF Store, Upload, TypeOK
    <2>5. Content(path[j]) \in {body[j], SubSeq(body[j], 1, Len(body[j]) - 1)}
      BY <2>2, <2>3 DEF Store, Contents, Intact
    <2>6. QED
      BY <2>4, <2>5
  <1>2. QED
    BY <1>1, Invariance, ContentsInvariance, PTL DEF Spec, AppendExtends

=============================================================================
