------------------------- MODULE UploadQueueProofs -------------------------
(***************************************************************************)
(* Theorems about UploadQueue, for every set of uploads, projects and      *)
(* workers, every number of attempts and every combination of faults; and  *)
(* about the import a worker runs (ProgrammeImport), for every file, every  *)
(* table of keywords and phrases and whatever the provider answers.         *)
(***************************************************************************)
EXTENDS UploadQueue, ProgrammeImport, FoldTheorems, SequenceTheorems

-----------------------------------------------------------------------------
(* Rows and worker states the actions build.                               *)

(* RetryWait turns a job row into a job row.                               *)
LEMMA RetryWaitType ==
  ASSUME NEW row \in JobRow
  PROVE  /\ RetryWait(row) \in JobRow
         /\ RetryWait(row).status = "retry_wait"
BY DEF RetryWait, JobRow, JobStatus

(* The row a claim writes is a job row, running and owned by the claimant.  *)
LEMMA ClaimedRowType ==
  ASSUME NEW w \in Workers, NEW row \in JobRow
  PROVE  /\ ClaimedRow(w, row) \in JobRow
         /\ ClaimedRow(w, row).status = "running"
         /\ ClaimedRow(w, row).owner = w
         /\ ClaimedRow(w, row).attempt = row.attempt + 1
BY DEF ClaimedRow, JobRow, JobStatus

(* Giving up or changing the status of a row leaves a row.                  *)
LEMMA JobStatusType ==
  ASSUME NEW row \in JobRow, NEW s \in JobStatus
  PROVE  [row EXCEPT !.status = s] \in JobRow
BY DEF JobRow

LEMMA JobExpiryType ==
  ASSUME NEW row \in JobRow, NEW b \in BOOLEAN
  PROVE  /\ [row EXCEPT !.due = b] \in JobRow
         /\ [row EXCEPT !.expired = b] \in JobRow
BY DEF JobRow

LEMMA UploadStatusType ==
  ASSUME NEW row \in UploadRow, NEW s \in UploadStatus
  PROVE  [row EXCEPT !.status = s] \in UploadRow
BY DEF UploadRow

LEMMA ImportsType ==
  ASSUME NEW row \in UploadRow, NEW n \in Nat
  PROVE  [row EXCEPT !.imports = n] \in UploadRow
BY DEF UploadRow

(* An idle worker, and one that only moves its program counter, is a state. *)
LEMMA IdleType == Idle \in WorkerState
BY DEF Idle, WorkerState, PollPc

LEMMA GotoType ==
  ASSUME TypeOK, NEW w \in Workers,
         NEW pc \in PollPc \cup PipelinePc \cup SettlePc, Goto(w, pc)
  PROVE  worker' \in [Workers -> WorkerState]
BY DEF TypeOK, Goto, WorkerState

(* The columns of a typed row.                                             *)
LEMMA RowColumns ==
  ASSUME TypeOK, NEW u \in Uploads
  PROVE  /\ upload[u] \in UploadRow
         /\ job[u] \in JobRow
         /\ upload[u].status \in UploadStatus
         /\ upload[u].imports \in Nat
         /\ job[u].status \in JobStatus
         /\ job[u].attempt \in Nat
BY DEF TypeOK, UploadRow, JobRow

(* Updating one row to another row keeps a table typed, also when the row   *)
(* named is not in the table, in which case nothing is written.             *)
LEMMA UpdateJob ==
  ASSUME TypeOK, NEW x, NEW row, x \in Uploads => row \in JobRow
  PROVE  [job EXCEPT ![x] = row] \in [Uploads -> JobRow]
BY DEF TypeOK

LEMMA UpdateUpload ==
  ASSUME TypeOK, NEW x, NEW row, x \in Uploads => row \in UploadRow
  PROVE  [upload EXCEPT ![x] = row] \in [Uploads -> UploadRow]
BY DEF TypeOK

LEMMA UpdateWorker ==
  ASSUME TypeOK, NEW x, NEW row, x \in Workers => row \in WorkerState
  PROVE  [worker EXCEPT ![x] = row] \in [Workers -> WorkerState]
BY DEF TypeOK

LEMMA UpdateRequest ==
  ASSUME TypeOK, NEW x, NEW row, x \in Uploads => row \in Request
  PROVE  [request EXCEPT ![x] = row] \in [Uploads -> Request]
BY DEF TypeOK

(* storage.delete leaves the blob or not.                                   *)
LEMMA CleanupType == BlobAfterCleanup \subseteq BOOLEAN
BY DEF BlobAfterCleanup

(* Every upload a worker read stands in one of the rows it read.            *)
LEMMA ReadOfIs ==
  ASSUME NEW w, NEW u \in RowsOf(w)
  PROVE  ReadOf(w, u) \in seen[w] /\ ReadOf(w, u).upload = u
<1>1. \E r \in seen[w] : r.upload = u
  BY DEF RowsOf
<1> QED BY <1>1 DEF ReadOf

(* What giving up the claims that were read writes to each row.             *)
LEMMA GiveUpRow ==
  ASSUME TypeOK, NEW w \in Workers, GiveUp(w), NEW u \in Uploads
  PROVE  /\ job'[u] \in JobRow /\ upload'[u] \in UploadRow
         /\ job'[u].attempt = job[u].attempt /\ upload'[u].imports = upload[u].imports
         /\ u \in Exhausted(w) =>
              /\ job'[u].status = "dead"
              /\ upload'[u].status = IF ReadOf(w, u).found = "processing" THEN "failed"
                                     ELSE upload[u].status
         /\ u \in RowsOf(w) \ Exhausted(w) =>
              /\ job'[u].status = "retry_wait"
              /\ upload'[u].status = IF ReadOf(w, u).found = "failed" THEN "processing"
                                     ELSE upload[u].status
         /\ u \notin RowsOf(w) => job'[u] = job[u] /\ upload'[u] = upload[u]
         /\ u \in RowsOf(w) => job[u].status # "none"
<1>1. job[u] \in JobRow /\ upload[u] \in UploadRow
  BY RowColumns
<1>2. Exhausted(w) \subseteq RowsOf(w)
  BY DEF Exhausted
<1>3. /\ u \in Exhausted(w) => job'[u] = [job[u] EXCEPT !.status = "dead"]
      /\ u \in RowsOf(w) \ Exhausted(w) => job'[u] = RetryWait(job[u])
      /\ u \notin RowsOf(w) => job'[u] = job[u]
  BY <1>2 DEF GiveUp
<1>4. /\ u \in Exhausted(w) => upload'[u] = IF ReadOf(w, u).found = "processing"
                                               THEN [upload[u] EXCEPT !.status = "failed"]
                                             ELSE upload[u]
      /\ u \in RowsOf(w) \ Exhausted(w) => upload'[u] = IF ReadOf(w, u).found = "failed"
                                               THEN [upload[u] EXCEPT !.status = "processing"]
                                             ELSE upload[u]
      /\ u \notin RowsOf(w) => upload'[u] = upload[u]
  BY <1>2 DEF GiveUp
<1>5. u \in RowsOf(w) => job[u].status # "none"
  BY DEF GiveUp, RowsStillThere
<1>6. /\ job'[u] \in JobRow /\ job'[u].attempt = job[u].attempt
      /\ u \in Exhausted(w) => job'[u].status = "dead"
      /\ u \in RowsOf(w) \ Exhausted(w) => job'[u].status = "retry_wait"
  BY <1>1, <1>2, <1>3 DEF JobRow, JobStatus, RetryWait
<1>7. /\ upload'[u] \in UploadRow /\ upload'[u].imports = upload[u].imports
      /\ u \in Exhausted(w) =>
           upload'[u].status = IF ReadOf(w, u).found = "processing" THEN "failed"
                               ELSE upload[u].status
      /\ u \in RowsOf(w) \ Exhausted(w) =>
           upload'[u].status = IF ReadOf(w, u).found = "failed" THEN "processing"
                               ELSE upload[u].status
  BY <1>1, <1>2, <1>4 DEF UploadRow, UploadStatus
<1> QED BY <1>3, <1>4, <1>5, <1>6, <1>7

LEMMA GiveUpType ==
  ASSUME TypeOK, NEW w \in Workers, GiveUp(w)
  PROVE  TypeOK'
<1>1. job' \in [Uploads -> JobRow] /\ upload' \in [Uploads -> UploadRow]
  <2>1. /\ DOMAIN job' = Uploads /\ job' = [u \in Uploads |-> job'[u]]
        /\ DOMAIN upload' = Uploads /\ upload' = [u \in Uploads |-> upload'[u]]
    BY DEF GiveUp
  <2>2. \A u \in Uploads : job'[u] \in JobRow /\ upload'[u] \in UploadRow
    BY GiveUpRow
  <2> QED BY <2>1, <2>2
<1>2. worker' \in [Workers -> WorkerState]
  BY IdleType, UpdateWorker DEF GiveUp
<1>3. seen' \in [Workers -> SUBSET JobRead] /\ request' = request
  BY DEF GiveUp, TypeOK
<1> QED BY <1>1, <1>2, <1>3 DEF TypeOK

(* A worker that is busy names an upload.                                   *)
Named == \A w \in Workers : worker[w].pc \notin PollPc => worker[w].at \in Uploads

LEMMA NamedStep ==
  ASSUME TypeOK, Named, [Next]_vars
  PROVE  Named'
<1> SUFFICES ASSUME NEW w \in Workers, worker'[w].pc \notin PollPc
             PROVE  worker'[w].at \in Uploads
  BY DEF Named
<1>1. CASE worker'[w] = worker[w]
  BY <1>1 DEF Named
<1>2. CASE worker'[w] # worker[w]
  <2>1. Poll(w) \/ Run(w)
    <3>1. \A u \in Uploads : ~Serve(u) /\ ~Time(u)
      BY <1>2 DEF Serve, Time, StoreBlob, LockProject, RejectUnderLock, InsertUpload, InsertFails,
         RequestDies, BeginDelete, DeleteRows, DeleteFails, BackoffElapses, HeartbeatExpires
    <3>2. \A v \in Workers \ {w} : ~Poll(v)
      BY <1>2 DEF TypeOK, Poll, ReadExpired, ReadUpload, WriteExpired, GiveUp, ReadDue, WriteDue,
         WriteBackFails, ClaimJob, ClaimForgotten, NothingToClaim
    <3>3. \A v \in Workers \ {w} : ~Run(v)
      BY <1>2 DEF TypeOK, Run, Heartbeat, HeartbeatFails, Crash, ResetPartialState, ResetFails,
         EnterPipeline, RefuseConflict, ParseFails, InsertActivities, CommitUpload,
         UploadDisappeared, PipelineRaises, CheckOutcome, CheckOutcomeFails, MarkCompleted,
         ReadClaim, WriteFailure, GiveUp, SettleFails, Goto, AfterError
    <3> QED BY <1>2, <3>1, <3>2, <3>3 DEF Next, vars
  <2>2. CASE ClaimJob(w)
    <3>1. PICK u \in Uploads : worker'[w].at = u
      BY <2>2 DEF ClaimJob, Claimable, TypeOK
    <3> QED BY <3>1
  <2>3. CASE Poll(w) /\ ~ClaimJob(w)
    BY <1>2, <2>3 DEF TypeOK, WorkerState, Idle, PollPc, Poll, ReadExpired, ReadUpload, WriteExpired,
       GiveUp, ReadDue, WriteDue, WriteBackFails, ClaimForgotten, NothingToClaim
  <2>4. CASE Run(w)
    <3>1. CASE Heartbeat(w) \/ HeartbeatFails(w)
      <4>1. worker'[w] = [worker[w] EXCEPT !.lost = TRUE]
        BY <1>2, <3>1 DEF Heartbeat, HeartbeatFails, TypeOK
      <4> QED BY <4>1 DEF Named, TypeOK, WorkerState
    <3>2. CASE worker'[w] = Idle
      BY <3>2 DEF Idle, PollPc
    <3>3. CASE worker[w].pc \notin PollPc /\ \E pc : worker'[w] = [worker[w] EXCEPT !.pc = pc]
      BY <3>3 DEF Named, TypeOK, WorkerState
    <3>4. ~(Heartbeat(w) \/ HeartbeatFails(w)) =>
             \/ worker'[w] = Idle
             \/ /\ worker[w].pc \in PipelinePc \cup SettlePc
                /\ \E pc : worker'[w] = [worker[w] EXCEPT !.pc = pc]
      BY <2>4 DEF TypeOK, Run, Crash, ResetPartialState, ResetFails,
         EnterPipeline, RefuseConflict, ParseFails, InsertActivities, CommitUpload,
         UploadDisappeared, PipelineRaises, CheckOutcome, CheckOutcomeFails, MarkCompleted,
         ReadClaim, WriteFailure, GiveUp, SettleFails, Goto, AfterError, PipelinePc, SettlePc
    <3>5. \A pc \in PipelinePc \cup SettlePc : pc \notin PollPc
      BY DEF PipelinePc, SettlePc, PollPc
    <3> QED BY <3>1, <3>2, <3>3, <3>4, <3>5
  <2> QED BY <2>1, <2>2, <2>3, <2>4
<1> QED BY <1>1, <1>2

-----------------------------------------------------------------------------
(* Every row, worker state and request keeps its type: in particular the    *)
(* statuses stay within the tables' check constraints.                      *)
THEOREM TypeCorrect == Spec => []TypeOK
<1>1. Init => TypeOK
  BY QueueAssumption, IdleType
     DEF Init, TypeOK, UploadRow, UploadStatus, JobRow, JobStatus, NoJob,
         JobRead, Request, RequestPhase
<1>2. TypeOK /\ Named /\ [Next]_vars => TypeOK'
  <2> SUFFICES ASSUME TypeOK, Named, [Next]_vars PROVE TypeOK'
    OBVIOUS
  <2>1. ASSUME NEW u \in Uploads, Serve(u) PROVE TypeOK'
    <3> USE DEF Request, RequestPhase, UploadRow, UploadStatus, JobRow, JobStatus, NoJob, TypeOK
    <3>1. CASE StoreBlob(u) BY <3>1 DEF StoreBlob
    <3>2. CASE LockProject(u) BY <3>2 DEF LockProject
    <3>3. CASE RejectUnderLock(u) \/ InsertFails(u)
      <4>1. PICK kept \in BOOLEAN :
              request' = [request EXCEPT ![u] = [phase |-> "error", blob |-> kept]]
        BY <3>3, CleanupType DEF RejectUnderLock, InsertFails
      <4>2. [phase |-> "error", blob |-> kept] \in Request
        BY Zenon DEF Request, RequestPhase
      <4>3. request' \in [Uploads -> Request]
        BY <4>1, <4>2, Zenon
      <4>4. UNCHANGED <<upload, job, worker, seen>>
        BY <3>3 DEF RejectUnderLock, InsertFails
      <4>5. QED BY <4>3, <4>4
    <3>4. CASE InsertUpload(u) BY <3>4 DEF InsertUpload
    <3>5. CASE RequestDies(u)
      <4>1. PICK reached \in RequestPhase :
              request' = [request EXCEPT ![u] = [request[u] EXCEPT !.phase = reached]]
        BY <3>5 DEF RequestDies
      <4>2. [request[u] EXCEPT !.phase = reached] \in Request
        BY DEF TypeOK, Request
      <4>3. request' \in [Uploads -> Request]
        BY <4>1, <4>2, UpdateRequest
      <4>4. QED BY <3>5, <4>3 DEF RequestDies
    <3>6. CASE BeginDelete(u) BY <3>6 DEF BeginDelete
    <3>7. CASE DeleteRows(u)
      <4>1. /\ [status |-> "deleted", imports |-> 0] \in UploadRow
            /\ NoJob \in JobRow
        OBVIOUS
      <4>2. upload' \in [Uploads -> UploadRow] /\ job' \in [Uploads -> JobRow]
        BY <3>7, <4>1, UpdateUpload, UpdateJob DEF DeleteRows
      <4>3. request' \in [Uploads -> Request]
        BY <3>7 DEF DeleteRows
      <4>4. QED BY <3>7, <4>2, <4>3 DEF DeleteRows
    <3>8. CASE DeleteFails(u) BY <3>8 DEF DeleteFails
    <3>9. QED BY <2>1, <3>1, <3>2, <3>3, <3>4, <3>5, <3>6, <3>7, <3>8 DEF Serve
  <2>2. ASSUME NEW u \in Uploads, Time(u) PROVE TypeOK'
    <3>1. CASE BackoffElapses(u)
      <4>1. job' \in [Uploads -> JobRow]
        BY <3>1, RowColumns, JobExpiryType, UpdateJob DEF BackoffElapses
      <4>2. QED BY <3>1, <4>1 DEF BackoffElapses, TypeOK
    <3>2. CASE HeartbeatExpires(u)
      <4>1. job' \in [Uploads -> JobRow]
        BY <3>2, RowColumns, JobExpiryType, UpdateJob DEF HeartbeatExpires
      <4>2. QED BY <3>2, <4>1 DEF HeartbeatExpires, TypeOK
    <3>3. QED BY <2>2, <3>1, <3>2 DEF Time
  <2>3. ASSUME NEW w \in Workers, Poll(w) PROVE TypeOK'
    <3>1. CASE ReadExpired(w) \/ ReadDue(w)
      <4>1. PICK S \in SUBSET Uploads, pc \in PollPc :
              /\ seen' = [seen EXCEPT ![w] = JobsRead(S)]
              /\ worker' = [worker EXCEPT ![w].pc = pc]
        BY <3>1, SMTT(30) DEF ReadExpired, ReadDue, PollPc
      <4>2. JobsRead(S) \in SUBSET JobRead
        BY DEF JobsRead, JobRead, TypeOK, JobRow
      <4>3. worker' \in [Workers -> WorkerState]
        BY <4>1 DEF TypeOK, WorkerState
      <4>4. UNCHANGED <<upload, job, request>>
        BY <3>1 DEF ReadExpired, ReadDue
      <4>5. QED BY <4>1, <4>2, <4>3, <4>4 DEF TypeOK
    <3>2. CASE WriteExpired(w)
      BY <3>2, GiveUpType DEF WriteExpired
    <3>3. CASE WriteDue(w)
      <4>1. job' \in [Uploads -> JobRow]
        BY <3>3, JobStatusType DEF WriteDue, TypeOK, JobStatus
      <4>2. worker' \in [Workers -> WorkerState]
        BY <3>3 DEF WriteDue, TypeOK, WorkerState, PollPc
      <4>3. QED BY <3>3, <4>1, <4>2 DEF WriteDue, TypeOK
    <3>4. CASE WriteBackFails(w) \/ NothingToClaim(w)
      BY <3>4, IdleType DEF WriteBackFails, NothingToClaim, TypeOK
    <3>5. CASE ClaimJob(w)
      <4>1. PICK u \in Uploads :
              /\ job' = [job EXCEPT ![u] = ClaimedRow(w, job[u])]
              /\ worker' = [worker EXCEPT ![w] =
                    [pc |-> IF job[u].attempt + 1 > 1 THEN "reset" ELSE "guard",
                     at |-> u, attempt |-> job[u].attempt + 1, lost |-> FALSE]]
        BY <3>5 DEF ClaimJob, Claimable
      <4>2. job' \in [Uploads -> JobRow]
        BY <4>1, ClaimedRowType DEF TypeOK
      <4>3. worker' \in [Workers -> WorkerState]
        BY <4>1 DEF TypeOK, WorkerState, PipelinePc, JobRow
      <4>4. QED BY <3>5, <4>2, <4>3 DEF ClaimJob, TypeOK
    <3>6. CASE ClaimForgotten(w)
      BY <3>6, ClaimedRowType, IdleType DEF ClaimForgotten, Claimable, TypeOK
    <3>7. CASE ReadUpload(w)
      <4>1. PICK r \in seen[w] :
              /\ seen' = [seen EXCEPT ![w] =
                           (seen[w] \ {r}) \cup {[r EXCEPT !.found = upload[r.upload].status]}]
              /\ UNCHANGED <<upload, job, worker, request>>
        BY <3>7 DEF ReadUpload
      <4>2. r \in JobRead
        BY DEF TypeOK
      <4>3. upload[r.upload].status \in UploadStatus
        BY <4>2, RowColumns DEF JobRead
      <4>4. [r EXCEPT !.found = upload[r.upload].status] \in JobRead
        BY <4>2, <4>3 DEF JobRead
      <4>5. seen' \in [Workers -> SUBSET JobRead]
        BY <4>1, <4>4 DEF TypeOK
      <4> QED BY <4>1, <4>5 DEF TypeOK
    <3>8. QED BY <2>3, <3>1, <3>2, <3>3, <3>4, <3>5, <3>6, <3>7 DEF Poll
  <2>4. ASSUME NEW w \in Workers, Run(w) PROVE TypeOK'
    <3> DEFINE u == worker[w].at
    <3>1. CASE Heartbeat(w) \/ HeartbeatFails(w)
      <4>1. /\ UNCHANGED <<upload, seen, request>>
            /\ job' = job \/ job' = [job EXCEPT ![u] = [job[u] EXCEPT !.expired = FALSE]]
            /\ worker' = worker \/ worker' = [worker EXCEPT ![w] = [worker[w] EXCEPT !.lost = TRUE]]
        BY <3>1 DEF Heartbeat, HeartbeatFails
      <4> DEFINE beaten == [job[u] EXCEPT !.expired = FALSE]
      <4>2. u \in Uploads => beaten \in JobRow
        BY RowColumns, JobExpiryType
      <4>3. job' \in [Uploads -> JobRow]
        BY <4>1, <4>2, UpdateJob DEF TypeOK
      <4>4. [worker[w] EXCEPT !.lost = TRUE] \in WorkerState
        BY DEF TypeOK, WorkerState
      <4>5. worker' \in [Workers -> WorkerState]
        BY <4>1, <4>4, UpdateWorker DEF TypeOK
      <4>6. QED BY <4>1, <4>3, <4>5 DEF TypeOK
    <3>2. CASE Crash(w) BY <3>2, IdleType DEF Crash, TypeOK
    <3>3. CASE ResetPartialState(w)
      BY <3>3, GotoType DEF ResetPartialState, TypeOK, PipelinePc, UploadRow
    <3>4. CASE ResetFails(w) \/ CheckOutcomeFails(w)
      BY <3>4, IdleType DEF ResetFails, CheckOutcomeFails, AfterError, TypeOK, WorkerState, SettlePc
    <3>5. CASE EnterPipeline(w) \/ UploadDisappeared(w)
      BY <3>5, GotoType DEF EnterPipeline, UploadDisappeared, TypeOK, PipelinePc
    <3>6. CASE RefuseConflict(w) \/ ParseFails(w)
      BY <3>6, GotoType DEF RefuseConflict, ParseFails, SetUpload, TypeOK, PipelinePc,
         UploadRow, UploadStatus
    <3>7. CASE InsertActivities(w)
      <4>1. worker' \in [Workers -> WorkerState]
        BY <3>7, GotoType DEF InsertActivities, PipelinePc
      <4>2. upload' = [upload EXCEPT ![u] = [upload[u] EXCEPT !.imports = upload[u].imports + 1]]
        BY <3>7 DEF InsertActivities
      <4>3. upload' \in [Uploads -> UploadRow]
        <5>1. u \in Uploads => [upload[u] EXCEPT !.imports = upload[u].imports + 1] \in UploadRow
          <6>1. u \in Uploads => upload[u].imports + 1 \in Nat
            BY RowColumns
          <6>2. QED BY <6>1, RowColumns, ImportsType
        <5>2. QED BY <4>2, <5>1, UpdateUpload
      <4>4. QED BY <3>7, <4>1, <4>3 DEF InsertActivities, TypeOK
    <3>8. CASE CommitUpload(w)
      <4>1. worker' \in [Workers -> WorkerState]
        BY <3>8, GotoType DEF CommitUpload, PipelinePc
      <4>2. PICK status \in Readable : SetUpload(u, status)
        BY <3>8 DEF CommitUpload
      <4>3. upload' \in [Uploads -> UploadRow]
        <5> DEFINE s == IF Exists(u) THEN status ELSE upload[u].status
        <5>1. u \in Uploads => [upload[u] EXCEPT !.status = s] \in UploadRow
          BY RowColumns, UploadStatusType DEF Readable, UploadStatus
        <5>2. upload' = [upload EXCEPT ![u] = [upload[u] EXCEPT !.status = s]]
          BY <4>2 DEF SetUpload
        <5>3. QED BY <5>1, <5>2, UpdateUpload
      <4>4. QED BY <3>8, <4>1, <4>3 DEF CommitUpload, TypeOK
    <3>9. CASE PipelineRaises(w)
      BY <3>9, GotoType DEF PipelineRaises, SetUpload, TypeOK, PipelinePc,
         UploadRow, UploadStatus
    <3>10. CASE CheckOutcome(w)
      BY <3>10, IdleType, GotoType DEF CheckOutcome, TypeOK, SettlePc
    <3>11. CASE MarkCompleted(w)
      <4>1. PICK status : /\ u \in Uploads => status \in JobStatus
                          /\ job' = [job EXCEPT ![u] = [job[u] EXCEPT !.status = status]]
        BY <3>11, RowColumns DEF MarkCompleted, JobStatus
      <4>2. job' \in [Uploads -> JobRow]
        <5>1. u \in Uploads => [job[u] EXCEPT !.status = status] \in JobRow
          BY <4>1, RowColumns, JobStatusType
        <5>2. QED BY <4>1, <5>1, UpdateJob
      <4>3. QED BY <3>11, <4>2, IdleType DEF MarkCompleted, TypeOK
    <3>12. CASE ReadClaim(w)
      <4>1. CASE Owns(w, u)
        <5>1. PICK r : /\ r = [upload |-> u, attempt |-> worker[w].attempt, found |-> Unread]
                       /\ seen' = [seen EXCEPT ![w] = {r}]
                       /\ Goto(w, "settle") /\ UNCHANGED <<upload, job, request>>
          BY <3>12, <4>1 DEF ReadClaim
        <5>2. u \in Uploads
          BY <3>12 DEF ReadClaim, Named, PollPc
        <5>3. r \in JobRead
          BY <5>1, <5>2 DEF JobRead, TypeOK, WorkerState
        <5> QED BY <5>1, <5>3, GotoType DEF TypeOK, SettlePc
      <4>2. CASE ~Owns(w, u)
        BY <3>12, <4>2, IdleType, UpdateWorker DEF ReadClaim, TypeOK
      <4> QED BY <4>1, <4>2
    <3>13. CASE SettleFails(w) BY <3>13, IdleType DEF SettleFails, TypeOK
    <3>14. CASE WriteFailure(w)
      BY <3>14, GiveUpType DEF WriteFailure
    <3>15. QED
      BY <2>4, <3>1, <3>2, <3>3, <3>4, <3>5, <3>6, <3>7, <3>8, <3>9, <3>10, <3>11,
         <3>12, <3>13, <3>14 DEF Run
  <2>5. CASE UNCHANGED vars BY <2>5 DEF vars, TypeOK
  <2>6. QED BY <2>1, <2>2, <2>3, <2>4, <2>5 DEF Next
<1>3. Init => Named
  BY DEF Init, Named, Idle, PollPc
<1>4. QED BY <1>1, <1>2, <1>3, NamedStep, PTL DEF Spec

-----------------------------------------------------------------------------
(* What any number of workers may rely on: the upload of a claim, and of a  *)
(* row that was read to be written later, is inserted, and its first        *)
(* attempt has begun unless it is deleted.  A claim that is still a         *)
(* worker's own is the attempt the worker remembers, and what was read of   *)
(* a job, however long ago, never counts more attempts than the job has.    *)

Tried(u) == Inserted(u) /\ (Exists(u) => job[u].attempt # 0)

RowOK(u) ==
  /\ Exists(u) => Inserted(u)
  /\ Exists(u) <=> job[u].status # "none"
  /\ Exists(u) /\ job[u].attempt = 0 =>
       upload[u].status = "processing" /\ job[u].status \notin {"running", "retry_wait"}

BlobOK(u) ==
  /\ request[u].phase \in {"stored", "locked"} => request[u].blob
  /\ request[u].blob => \/ request[u].phase \in {"stored", "locked"}
                        \/ request[u].phase = "accepted" /\ Exists(u)
  /\ Exists(u) /\ job[u].attempt = 0 => request[u].blob

ClaimOK(w) ==
  LET u == worker[w].at IN
  /\ worker[w].pc \in PollPc <=> u = NoUpload
  /\ u # NoUpload => Tried(u)
  /\ u # NoUpload /\ Owns(w, u) => job[u].attempt = worker[w].attempt

(* What was read of a job counts no more attempts than the job has by now.  *)
Overtaken(r) == job[r.upload].status = "none" \/ r.attempt <= job[r.upload].attempt

ReadsOK(w) ==
  \A r \in seen[w] : Tried(r.upload) /\ Overtaken(r)

UploadOK(u) ==
  /\ RowOK(u)
  /\ "web" \notin Faults => BlobOK(u)

WorkersInv ==
  /\ \A u \in Uploads : UploadOK(u)
  /\ \A w \in Workers : ClaimOK(w) /\ ReadsOK(w)

(* What a step may do to upload u without worker v.                         *)
Advances(u) ==
  Tried(u) =>
    /\ Tried(u)'
    /\ \/ job'[u].status = "none"
       \/ job[u].status # "none" /\ job[u].attempt <= job'[u].attempt

Onward(u, v) ==
  /\ Advances(u)
  /\ Owns(v, u)' => Owns(v, u) /\ job'[u].attempt = job[u].attempt

(* A read stays good when its upload advances.                              *)
LEMMA ReadsStay ==
  ASSUME TypeOK, TypeOK', WorkersInv, NEW w \in Workers, seen'[w] \subseteq seen[w],
         \A u \in Uploads : Advances(u)
  PROVE  ReadsOK(w)'
<1> SUFFICES ASSUME NEW r \in seen[w] PROVE Tried(r.upload)' /\ Overtaken(r)'
  BY DEF ReadsOK
<1>1. PICK u \in Uploads : u = r.upload
  BY DEF TypeOK, JobRead
<1>2. r.attempt \in Nat /\ job[u].attempt \in Nat
  BY RowColumns DEF TypeOK, JobRead
<1>3. Tried(u) /\ (job[u].status = "none" \/ r.attempt <= job[u].attempt)
  BY <1>1 DEF WorkersInv, ReadsOK, Overtaken
<1>4. Tried(u)' /\ (job'[u].status = "none" \/ (job[u].status # "none" /\ job[u].attempt <= job'[u].attempt))
  BY <1>3 DEF Advances
<1>5. job'[u].attempt \in Nat
  BY DEF TypeOK, JobRow
<1> QED BY <1>1, <1>2, <1>3, <1>4, <1>5 DEF Overtaken

(* A step of the workers in A.                                              *)
LEMMA OthersStay ==
  ASSUME TypeOK, TypeOK', WorkersInv, NEW A \in SUBSET Workers,
         \A u \in Uploads : UploadOK(u)' /\ Advances(u) /\ \A v \in Workers \ A : Onward(u, v),
         \A v \in Workers \ A : worker'[v] = worker[v] /\ seen'[v] = seen[v],
         \A w \in A : ClaimOK(w)' /\ ReadsOK(w)'
  PROVE  WorkersInv'
<1>1. ASSUME NEW v \in Workers \ A
      PROVE  ClaimOK(v)' /\ ReadsOK(v)'
  <2>1. ClaimOK(v) /\ worker'[v] = worker[v] /\ seen'[v] = seen[v]
    BY DEF WorkersInv
  <2>2. \A u \in Uploads : Onward(u, v)
    OBVIOUS
  <2>3. worker[v].at # NoUpload => worker[v].at \in Uploads
    BY DEF TypeOK, WorkerState
  <2>4. ClaimOK(v)'
    BY <2>1, <2>2, <2>3 DEF ClaimOK, Onward, Advances
  <2>5. ReadsOK(v)'
    BY <2>1, ReadsStay
  <2> QED BY <2>4, <2>5
<1> QED BY <1>1 DEF WorkersInv

LEMMA OneWorkerSteps ==
  ASSUME TypeOK, TypeOK', WorkersInv, NEW w \in Workers,
         \A u \in Uploads : UploadOK(u)' /\ Advances(u) /\ \A v \in Workers \ {w} : Onward(u, v),
         \A v \in Workers \ {w} : worker'[v] = worker[v] /\ seen'[v] = seen[v],
         ClaimOK(w)' /\ ReadsOK(w)'
  PROVE  WorkersInv'
<1> DEFINE A == {w}
<1>1. A \in SUBSET Workers /\ \A x \in A : ClaimOK(x)' /\ ReadsOK(x)'
  OBVIOUS
<1>2. /\ \A u \in Uploads : UploadOK(u)' /\ Advances(u) /\ \A v \in Workers \ A : Onward(u, v)
      /\ \A v \in Workers \ A : worker'[v] = worker[v] /\ seen'[v] = seen[v]
  OBVIOUS
<1> HIDE DEF A
<1> QED BY <1>1, <1>2, OthersStay

LEMMA OtherUploads ==
  ASSUME TypeOK, WorkersInv, NEW u \in Uploads,
         upload'[u] = upload[u] /\ job'[u] = job[u] /\ request'[u] = request[u]
  PROVE  UploadOK(u)' /\ Advances(u) /\ \A v \in Workers : Onward(u, v)
<1>1. job[u].attempt \in Nat
  BY RowColumns
<1>2. Advances(u)
  BY <1>1 DEF WorkersInv, Advances, Tried, Exists, Inserted
<1> QED BY <1>2 DEF WorkersInv, UploadOK, RowOK, BlobOK, Onward, Tried, Owns, Exists, Inserted

LEMMA ServeKeeps ==
  ASSUME TypeOK, TypeOK', WorkersInv, NEW u \in Uploads, Serve(u) \/ Time(u)
  PROVE  WorkersInv'
<1>1. UNCHANGED <<worker, seen>>
  BY DEF Serve, Time, StoreBlob, LockProject, RejectUnderLock, InsertUpload, InsertFails,
         RequestDies, BeginDelete, DeleteRows, DeleteFails, BackoffElapses, HeartbeatExpires
<1>2. \A x \in Uploads \ {u} :
        upload'[x] = upload[x] /\ job'[x] = job[x] /\ request'[x] = request[x]
  BY DEF Serve, Time, StoreBlob, LockProject, RejectUnderLock, InsertUpload, InsertFails,
         RequestDies, BeginDelete, DeleteRows, DeleteFails, BackoffElapses, HeartbeatExpires, TypeOK
<1>3. UploadOK(u)
  BY DEF WorkersInv
<1>4. UploadOK(u)' /\ Advances(u) /\ \A v \in Workers : Onward(u, v)
  <2> job[u].attempt \in Nat
    BY RowColumns
  <2> USE <1>3 DEF UploadOK, RowOK, BlobOK, Onward, Advances, Tried, Owns, Exists, Inserted, TypeOK
  <2>1. CASE StoreBlob(u)
    BY <2>1 DEF StoreBlob, Request
  <2>2. CASE LockProject(u)
    BY <2>2 DEF LockProject, Request
  <2>3. CASE RejectUnderLock(u) \/ InsertFails(u)
    <3>1. PICK kept \in BlobAfterCleanup :
            /\ request' = [request EXCEPT ![u] = [phase |-> "error", blob |-> kept]]
            /\ request[u].phase \in {"stored", "locked"} /\ UNCHANGED <<upload, job>>
      BY <2>3 DEF RejectUnderLock, InsertFails
    <3>2. "web" \notin Faults => kept = FALSE
      BY DEF BlobAfterCleanup
    <3>3. request'[u].phase = "error" /\ request'[u].blob = kept
      BY <3>1
    <3> QED BY <3>1, <3>2, <3>3
  <2>4. CASE InsertUpload(u)
    BY <2>4 DEF InsertUpload, Request, NoJob
  <2>5. CASE RequestDies(u)
    BY <2>5 DEF RequestDies, Request
  <2>6. CASE BeginDelete(u)
    BY <2>6 DEF BeginDelete, Request
  <2>7. CASE DeleteRows(u)
    BY <2>7 DEF DeleteRows, Request, NoJob
  <2>8. CASE DeleteFails(u)
    BY <2>8 DEF DeleteFails, Request
  <2>9. CASE Time(u)
    <3>1. /\ job'[u].status = job[u].status /\ job'[u].attempt = job[u].attempt
          /\ job'[u].owner = job[u].owner /\ UNCHANGED <<upload, request>>
      BY <2>9 DEF Time, BackoffElapses, HeartbeatExpires, JobRow
    <3> QED BY <3>1
  <2> QED BY <2>1, <2>2, <2>3, <2>4, <2>5, <2>6, <2>7, <2>8, <2>9 DEF Serve
<1>5. \A x \in Uploads : UploadOK(x)' /\ Advances(x) /\ \A v \in Workers : Onward(x, v)
  BY <1>2, <1>4, OtherUploads
<1> DEFINE A == {}
<1>6. /\ A \in SUBSET Workers /\ \A w \in A : ClaimOK(w)' /\ ReadsOK(w)'
      /\ \A v \in Workers \ A : worker'[v] = worker[v] /\ seen'[v] = seen[v]
  BY <1>1
<1> HIDE DEF A
<1> QED BY <1>5, <1>6, OthersStay

(* A worker that ends, and one that goes on with its claim.                 *)
LEMMA Rests ==
  ASSUME TypeOK, TypeOK', WorkersInv, NEW w \in Workers, worker'[w] = Idle,
         seen'[w] \in {seen[w], {}}, \A u \in Uploads : Advances(u)
  PROVE  ClaimOK(w)' /\ ReadsOK(w)'
BY ReadsStay DEF Idle, ClaimOK, PollPc

LEMMA GoesOn ==
  ASSUME TypeOK, TypeOK', WorkersInv, NEW w \in Workers, worker[w].pc \notin PollPc,
         NEW pc \in PipelinePc \cup SettlePc, Goto(w, pc), UNCHANGED <<job, seen, request>>,
         \A u \in Uploads : Advances(u)
  PROVE  ClaimOK(w)' /\ ReadsOK(w)'
<1>1. /\ worker'[w].pc = pc /\ worker'[w].at = worker[w].at
      /\ worker'[w].attempt = worker[w].attempt
  BY DEF Goto, TypeOK, WorkerState
<1>2. pc \notin PollPc
  BY DEF PipelinePc, SettlePc, PollPc
<1>3. ClaimOK(w) /\ worker[w].at \in Uploads
  BY DEF WorkersInv, ClaimOK, TypeOK, WorkerState
<1>4. ClaimOK(w)'
  BY <1>1, <1>2, <1>3 DEF ClaimOK, Owns, Advances
<1> QED BY <1>4, ReadsStay

(* What a claim names, and that a poll names nothing.                       *)
LEMMA ClaimNames ==
  ASSUME TypeOK, WorkersInv, NEW w \in Workers, worker[w].pc \notin PollPc \/ worker[w].at # NoUpload
  PROVE  worker[w].at \in Uploads /\ Tried(worker[w].at) /\ worker[w].pc \notin PollPc
BY DEF WorkersInv, ClaimOK, TypeOK, WorkerState

(* A step of one worker that changes no row.                                *)
LEMMA RowsStay ==
  ASSUME TypeOK, TypeOK', WorkersInv, UNCHANGED <<upload, job, request>>, NEW w \in Workers,
         \A v \in Workers \ {w} : worker'[v] = worker[v] /\ seen'[v] = seen[v],
         ClaimOK(w)' /\ ReadsOK(w)'
  PROVE  WorkersInv'
<1>1. \A u \in Uploads : UploadOK(u)' /\ Advances(u) /\ \A v \in Workers : Onward(u, v)
  BY OtherUploads
<1> QED BY <1>1, OneWorkerSteps

(* The upload row of a claim to be given up is read.                        *)
LEMMA ReadUploadKeeps ==
  ASSUME TypeOK, TypeOK', WorkersInv, NEW w \in Workers, ReadUpload(w)
  PROVE  WorkersInv'
<1>1. PICK r \in seen[w] :
        /\ seen' = [seen EXCEPT ![w] =
                     (seen[w] \ {r}) \cup {[r EXCEPT !.found = upload[r.upload].status]}]
        /\ UNCHANGED <<upload, job, worker, request>>
  BY DEF ReadUpload
<1>2. ReadsOK(w)'
  <2> SUFFICES ASSUME NEW s \in seen'[w] PROVE Tried(s.upload) /\ Overtaken(s)
    BY <1>1 DEF ReadsOK, Tried, Overtaken, Exists, Inserted
  <2>1. PICK q \in seen[w] : s.upload = q.upload /\ s.attempt = q.attempt
    <3>1. s \in seen[w] \/ s = [r EXCEPT !.found = upload[r.upload].status]
      BY <1>1 DEF TypeOK
    <3> QED BY <3>1 DEF TypeOK, JobRead
  <2> QED BY <2>1 DEF WorkersInv, ReadsOK, Overtaken
<1>3. ClaimOK(w)'
  BY <1>1 DEF WorkersInv, ClaimOK, Tried, Owns, Exists, Inserted
<1>4. \A v \in Workers \ {w} : worker'[v] = worker[v] /\ seen'[v] = seen[v]
  BY <1>1 DEF TypeOK
<1> QED BY <1>1, <1>2, <1>3, <1>4, RowsStay

(* The claims that were read are given up, by their worker or by a sweep.   *)
LEMMA GiveUpKeeps ==
  ASSUME TypeOK, TypeOK', WorkersInv, NEW w \in Workers, GiveUp(w)
  PROVE  WorkersInv'
<1>1. ASSUME NEW u \in Uploads
      PROVE  UploadOK(u)' /\ Advances(u) /\ \A v \in Workers : Onward(u, v)
  <2>1. CASE u \in RowsOf(w)
    <3>1. Tried(u) /\ job[u].status # "none" /\ UploadOK(u)
      BY <2>1, ReadOfIs, GiveUpRow DEF WorkersInv, ReadsOK
    <3>2. Exists(u) /\ job[u].attempt # 0
      BY <3>1 DEF UploadOK, RowOK, Tried
    <3>3. /\ job'[u].status \in {"dead", "retry_wait"} /\ job'[u].attempt = job[u].attempt
          /\ upload'[u].status \in {upload[u].status, "processing", "failed"}
          /\ request' = request /\ job[u].attempt \in Nat
      <4>1. u \in Exhausted(w) \/ u \in RowsOf(w) \ Exhausted(w)
        BY <2>1
      <4>2. request' = request /\ job[u].attempt \in Nat
        BY RowColumns DEF GiveUp
      <4> QED BY <4>1, <4>2, GiveUpRow
    <3>4. Exists(u)'
      BY <3>2, <3>3 DEF Exists
    <3>5. UploadOK(u)'
      BY <3>1, <3>2, <3>3, <3>4 DEF UploadOK, RowOK, BlobOK, Inserted
    <3>6. Advances(u)
      BY <3>1, <3>2, <3>3, <3>4 DEF Advances, Tried, Inserted
    <3>7. \A v \in Workers : Onward(u, v)
      BY <3>3, <3>6 DEF Onward, Owns
    <3> QED BY <3>5, <3>6, <3>7
  <2>2. CASE u \notin RowsOf(w)
    BY <2>2, GiveUpRow, OtherUploads DEF GiveUp
  <2> QED BY <2>1, <2>2
<1>2. /\ worker'[w] = Idle /\ seen'[w] = {}
      /\ \A v \in Workers \ {w} : worker'[v] = worker[v] /\ seen'[v] = seen[v]
  BY DEF GiveUp, TypeOK
<1>3. ClaimOK(w)' /\ ReadsOK(w)'
  BY <1>1, <1>2, Rests
<1> QED BY <1>1, <1>2, <1>3, OneWorkerSteps

LEMMA PollKeeps ==
  ASSUME TypeOK, TypeOK', WorkersInv, NEW w \in Workers, Poll(w)
  PROVE  WorkersInv'
<1>1. \A v \in Workers \ {w} : worker'[v] = worker[v] /\ seen'[v] = seen[v]
  BY DEF Poll, ReadExpired, ReadUpload, WriteExpired, GiveUp, ReadDue, WriteDue, WriteBackFails,
         ClaimJob, ClaimForgotten, NothingToClaim, TypeOK
<1>2. CASE ReadExpired(w) \/ ReadDue(w)
  <2>1. PICK S \in SUBSET Uploads, pc \in {"requeue", "promote"} :
          /\ worker[w].pc = "idle"
          /\ seen' = [seen EXCEPT ![w] = JobsRead(S)]
          /\ worker' = [worker EXCEPT ![w].pc = pc]
          /\ \A u \in S : job[u].status \in {"running", "retry_wait"}
    <3>1. CASE ReadExpired(w)
      <4> DEFINE S == {u \in Uploads : job[u].status = "running" /\ job[u].expired}
      <4>1. S \in SUBSET Uploads /\ \A u \in S : job[u].status \in {"running", "retry_wait"}
        OBVIOUS
      <4> QED BY <3>1, <4>1 DEF ReadExpired
    <3>2. CASE ReadDue(w)
      <4> DEFINE S == {u \in Uploads : job[u].status = "retry_wait" /\ job[u].due}
      <4>1. S \in SUBSET Uploads /\ \A u \in S : job[u].status \in {"running", "retry_wait"}
        OBVIOUS
      <4> QED BY <3>2, <4>1 DEF ReadDue
    <3> QED BY <1>2, <3>1, <3>2
  <2>2. UNCHANGED <<upload, job, request>>
    BY <1>2 DEF ReadExpired, ReadDue
  <2>3. \A u \in S : Tried(u)
    BY <2>1 DEF WorkersInv, UploadOK, RowOK, Tried
  <2>4. \A r \in seen'[w] : r.upload \in S /\ r.attempt = job[r.upload].attempt
    BY <2>1 DEF JobsRead, TypeOK
  <2>5. ReadsOK(w)'
    BY <2>2, <2>3, <2>4, RowColumns DEF ReadsOK, Overtaken, Tried, Exists, Inserted
  <2>6. worker'[w].pc = pc /\ worker'[w].at = worker[w].at
    BY <2>1 DEF TypeOK, WorkerState
  <2>7. ClaimOK(w)'
    BY <2>1, <2>6 DEF WorkersInv, ClaimOK, PollPc
  <2> QED BY <1>1, <2>2, <2>5, <2>7, RowsStay
<1>3. CASE WriteBackFails(w) \/ NothingToClaim(w)
  <2>1. worker'[w] = Idle /\ seen'[w] \in {seen[w], {}} /\ UNCHANGED <<upload, job, request>>
    BY <1>3 DEF WriteBackFails, NothingToClaim, TypeOK
  <2>2. \A u \in Uploads : Advances(u)
    BY <2>1, OtherUploads
  <2> QED BY <1>1, <2>1, <2>2, Rests, RowsStay
<1>4. CASE WriteExpired(w) \/ ReadUpload(w)
  BY <1>4, GiveUpKeeps, ReadUploadKeeps DEF WriteExpired
<1>5. CASE WriteDue(w)
  <2>1. \A u \in RowsOf(w) : Tried(u) /\ job[u].status # "none"
    BY <1>5 DEF RowsOf, WorkersInv, ReadsOK, WriteDue, RowsStillThere
  <2>2. ASSUME NEW u \in Uploads
        PROVE  UploadOK(u)' /\ Advances(u) /\ \A v \in Workers : Onward(u, v)
    <3>1. CASE u \in RowsOf(w)
      <4>1. /\ job'[u].status = "queued" /\ job'[u].attempt = job[u].attempt
            /\ UNCHANGED <<upload, request>>
        BY <1>5, <3>1, RowColumns DEF WriteDue, JobRow
      <4>2. Tried(u) /\ job[u].status # "none"
        BY <2>1, <3>1
      <4> QED
        BY <4>1, <4>2, RowColumns
        DEF WorkersInv, UploadOK, RowOK, BlobOK, Onward, Advances, Tried, Owns, Exists, Inserted
    <3>2. CASE u \notin RowsOf(w)
      BY <1>5, <3>2, OtherUploads DEF WriteDue
    <3> QED BY <3>1, <3>2
  <2>3. worker'[w].pc = "claim" /\ worker'[w].at = worker[w].at /\ seen'[w] = {}
    BY <1>5 DEF WriteDue, TypeOK, WorkerState
  <2>4. ClaimOK(w)' /\ ReadsOK(w)'
    BY <1>5, <2>3 DEF WriteDue, WorkersInv, ClaimOK, ReadsOK, PollPc
  <2> QED BY <1>1, <2>2, <2>4, OneWorkerSteps
<1>6. CASE ClaimJob(w) \/ ClaimForgotten(w)
  <2>1. PICK u \in Uploads :
          /\ job[u].status = "queued"
          /\ job' = [job EXCEPT ![u] = ClaimedRow(w, job[u])]
          /\ \/ worker' = [worker EXCEPT ![w] = Idle]
             \/ worker' = [worker EXCEPT ![w] =
                             [pc |-> IF job[u].attempt + 1 > 1 THEN "reset" ELSE "guard",
                              at |-> u, attempt |-> job[u].attempt + 1, lost |-> FALSE]]
          /\ UNCHANGED <<upload, seen, request>>
    BY <1>6 DEF ClaimJob, ClaimForgotten, Claimable
  <2>2. /\ job'[u].status = "running" /\ job'[u].owner = w
        /\ job'[u].attempt = job[u].attempt + 1 /\ job[u].attempt \in Nat
        /\ \A x \in Uploads \ {u} : job'[x] = job[x]
    BY <2>1, ClaimedRowType, RowColumns DEF TypeOK
  <2>3. UploadOK(u)
    BY DEF WorkersInv
  <2>4. UploadOK(u)' /\ Tried(u)' /\ Advances(u) /\ \A v \in Workers \ {w} : Onward(u, v)
    BY <2>1, <2>2, <2>3 DEF UploadOK, RowOK, BlobOK, Onward, Advances, Tried, Owns, Exists, Inserted
  <2>5. \A x \in Uploads \ {u} : UploadOK(x)' /\ Advances(x) /\ \A v \in Workers : Onward(x, v)
    BY <2>1, <2>2, OtherUploads
  <2>6. \A x \in Uploads : Advances(x)
    BY <2>4, <2>5
  <2>7. ClaimOK(w)' /\ ReadsOK(w)'
    <3>1. CASE worker' = [worker EXCEPT ![w] = Idle]
      BY <2>1, <2>6, <3>1, Rests DEF TypeOK
    <3>2. CASE worker' = [worker EXCEPT ![w] =
                             [pc |-> IF job[u].attempt + 1 > 1 THEN "reset" ELSE "guard",
                              at |-> u, attempt |-> job[u].attempt + 1, lost |-> FALSE]]
      <4>1. /\ worker'[w].pc \in {"reset", "guard"} /\ worker'[w].at = u
            /\ worker'[w].attempt = job'[u].attempt
        BY <2>2, <3>2 DEF TypeOK
      <4>2. ClaimOK(w)'
        BY <2>4, <4>1, QueueAssumption DEF ClaimOK, PollPc
      <4> QED BY <2>1, <2>6, <4>2, ReadsStay
    <3> QED BY <2>1, <3>1, <3>2
  <2> QED BY <1>1, <2>4, <2>5, <2>7, OneWorkerSteps
<1> QED BY <1>2, <1>3, <1>4, <1>5, <1>6 DEF Poll

(* A step of a claim that may give its upload another status, but never     *)
(* "processing", and goes on.                                                *)
LEMMA StatusGoesOn ==
  ASSUME TypeOK, TypeOK', WorkersInv, NEW w \in Workers, worker[w].pc \notin PollPc,
         NEW pc \in PipelinePc \cup SettlePc, Goto(w, pc), UNCHANGED <<job, seen, request>>,
         \A x \in Uploads \ {worker[w].at} : upload'[x] = upload[x],
         \/ upload'[worker[w].at].status = upload[worker[w].at].status
         \/ /\ upload'[worker[w].at].status \in Readable \cup {"failed"}
            /\ Exists(worker[w].at)
  PROVE  WorkersInv'
<1>1. PICK u \in Uploads : u = worker[w].at /\ Tried(u)
  BY ClaimNames
<1>2. Exists(u)' <=> Exists(u)
  BY <1>1 DEF Exists, Readable
<1>3. UploadOK(u) /\ job[u].attempt \in Nat
  BY <1>1, RowColumns DEF WorkersInv
<1>4. UploadOK(u)' /\ Advances(u) /\ \A v \in Workers : Onward(u, v)
  <2>1. Advances(u)
    BY <1>1, <1>2, <1>3 DEF Advances, Tried, Inserted, UploadOK, RowOK
  <2>2. RowOK(u)'
    BY <1>1, <1>2, <1>3 DEF UploadOK, RowOK, Tried, Inserted
  <2>3. "web" \notin Faults => BlobOK(u)'
    BY <1>2, <1>3 DEF UploadOK, BlobOK
  <2>4. \A v \in Workers : Onward(u, v)
    BY <2>1 DEF Onward, Owns
  <2> QED BY <2>1, <2>2, <2>3, <2>4 DEF UploadOK
<1>5. \A x \in Uploads \ {u} : UploadOK(x)' /\ Advances(x) /\ \A v \in Workers : Onward(x, v)
  BY <1>1, OtherUploads
<1>6. \A v \in Workers \ {w} : worker'[v] = worker[v] /\ seen'[v] = seen[v]
  BY DEF Goto, TypeOK
<1>7. ClaimOK(w)' /\ ReadsOK(w)'
  BY <1>4, <1>5, GoesOn
<1> QED BY <1>4, <1>5, <1>6, <1>7, OneWorkerSteps

(* A claim ends, and its job may be completed.                              *)
LEMMA CompletesKeeps ==
  ASSUME TypeOK, TypeOK', WorkersInv, NEW w \in Workers, MarkCompleted(w)
  PROVE  WorkersInv'
<1>1. PICK u \in Uploads : u = worker[w].at /\ Tried(u)
  BY ClaimNames DEF MarkCompleted, PollPc
<1>2. /\ worker'[w] = Idle /\ UNCHANGED <<upload, seen, request>>
      /\ \A v \in Workers \ {w} : worker'[v] = worker[v] /\ seen'[v] = seen[v]
  BY DEF MarkCompleted, TypeOK
<1>3. \A x \in Uploads \ {u} : job'[x] = job[x]
  BY <1>1 DEF MarkCompleted, TypeOK
<1>4. /\ job'[u].attempt = job[u].attempt /\ job[u].attempt \in Nat
      /\ \/ job'[u] = job[u]
         \/ job[u].status = "running" /\ job'[u].status = "completed"
  BY <1>1, RowColumns DEF MarkCompleted, TypeOK, JobRow, Owns
<1>5. UploadOK(u)
  BY <1>1 DEF WorkersInv
<1>6. UploadOK(u)' /\ Advances(u)
  BY <1>1, <1>2, <1>4, <1>5 DEF UploadOK, RowOK, BlobOK, Advances, Tried, Inserted, Exists
<1>7. \A v \in Workers : Onward(u, v)
  BY <1>4, <1>6 DEF Onward, Owns
<1>8. \A x \in Uploads \ {u} : UploadOK(x)' /\ Advances(x) /\ \A v \in Workers : Onward(x, v)
  BY <1>2, <1>3, OtherUploads
<1>9. ClaimOK(w)' /\ ReadsOK(w)'
  BY <1>2, <1>6, <1>8, Rests
<1> QED BY <1>2, <1>6, <1>7, <1>8, <1>9, OneWorkerSteps

(* A failed claim is read again.                                            *)
LEMMA ReadClaimKeeps ==
  ASSUME TypeOK, TypeOK', WorkersInv, NEW w \in Workers, ReadClaim(w)
  PROVE  WorkersInv'
<1>1. PICK u \in Uploads : u = worker[w].at /\ Tried(u)
  BY ClaimNames DEF ReadClaim, PollPc
<1>2. /\ UNCHANGED <<upload, job, request>>
      /\ \A v \in Workers \ {w} : worker'[v] = worker[v] /\ seen'[v] = seen[v]
  BY DEF ReadClaim, Goto, TypeOK
<1>3. \A x \in Uploads : Advances(x)
  BY <1>2, OtherUploads
<1>4. CASE ~Owns(w, u)
  <2>1. worker'[w] = Idle /\ seen'[w] = seen[w]
    BY <1>1, <1>4 DEF ReadClaim, TypeOK
  <2> QED BY <1>2, <1>3, <2>1, Rests, RowsStay
<1>5. CASE Owns(w, u)
  <2>1. /\ seen'[w] = {[upload |-> u, attempt |-> worker[w].attempt, found |-> Unread]}
        /\ worker'[w].pc = "settle" /\ worker'[w].at = u
        /\ worker'[w].attempt = worker[w].attempt
    BY <1>1, <1>5 DEF ReadClaim, Goto, TypeOK, WorkerState
  <2>2. job[u].attempt = worker[w].attempt /\ job[u].attempt \in Nat /\ u # NoUpload
    BY <1>1, <1>5, QueueAssumption, RowColumns DEF WorkersInv, ClaimOK
  <2>3. ClaimOK(w)'
    BY <1>1, <1>2, <2>1, <2>2 DEF ClaimOK, PollPc, Tried, Owns, Exists, Inserted
  <2>4. ReadsOK(w)'
    BY <1>1, <1>2, <2>1, <2>2 DEF ReadsOK, Overtaken, Tried, Exists, Inserted
  <2> QED BY <1>2, <2>3, <2>4, RowsStay
<1> QED BY <1>4, <1>5

LEMMA RunKeeps ==
  ASSUME TypeOK, TypeOK', WorkersInv, NEW w \in Workers, Run(w)
  PROVE  WorkersInv'
<1> DEFINE u == worker[w].at
<1>1. \A v \in Workers \ {w} : worker'[v] = worker[v] /\ seen'[v] = seen[v]
  BY DEF Run, Heartbeat, HeartbeatFails, Crash, ResetPartialState, ResetFails, EnterPipeline,
         RefuseConflict, ParseFails, InsertActivities, CommitUpload, UploadDisappeared,
         PipelineRaises, CheckOutcome, CheckOutcomeFails, MarkCompleted, ReadClaim,
         WriteFailure, GiveUp, SettleFails, Goto, AfterError, TypeOK
<1>2. u \in Uploads /\ Tried(u) /\ worker[w].pc \notin PollPc
  <2>1. worker[w].at # NoUpload \/ worker[w].pc \notin PollPc
    BY DEF Run, Heartbeat, HeartbeatFails, Crash, ResetPartialState, ResetFails, EnterPipeline,
         RefuseConflict, ParseFails, InsertActivities, CommitUpload, UploadDisappeared,
         PipelineRaises, CheckOutcome, CheckOutcomeFails, MarkCompleted, ReadClaim,
         WriteFailure, SettleFails, PollPc, SettlePc
  <2> QED BY <2>1, ClaimNames
<1>3. ClaimOK(w) /\ ReadsOK(w)
  BY DEF WorkersInv
(* The heartbeat thread. *)
<1>4. CASE Heartbeat(w) /\ Owns(w, u)
  <2>1. job' = [job EXCEPT ![u].expired = FALSE] /\ UNCHANGED <<upload, worker, seen, request>>
    BY <1>4 DEF Heartbeat
  <2>2. \A x \in Uploads : /\ job'[x].status = job[x].status /\ job'[x].attempt = job[x].attempt
                           /\ job'[x].owner = job[x].owner
    BY <2>1, RowColumns DEF TypeOK, JobRow
  <2>3. \A x \in Uploads : UploadOK(x)' /\ Advances(x) /\ \A v \in Workers : Onward(x, v)
    BY <2>1, <2>2, RowColumns
    DEF WorkersInv, UploadOK, RowOK, BlobOK, Onward, Advances, Tried, Owns, Exists, Inserted
  <2> DEFINE A == {}
  <2>4. /\ A \in SUBSET Workers /\ \A v \in A : ClaimOK(v)' /\ ReadsOK(v)'
        /\ \A v \in Workers \ A : worker'[v] = worker[v] /\ seen'[v] = seen[v]
    BY <2>1
  <2> HIDE DEF A
  <2> QED BY <2>3, <2>4, OthersStay
<1>5. CASE HeartbeatFails(w) \/ (Heartbeat(w) /\ ~Owns(w, u))
  <2>1. worker' = [worker EXCEPT ![w].lost = TRUE] /\ UNCHANGED <<upload, job, seen, request>>
    BY <1>5 DEF HeartbeatFails, Heartbeat
  <2>2. /\ worker'[w].pc = worker[w].pc /\ worker'[w].at = worker[w].at
        /\ worker'[w].attempt = worker[w].attempt
    BY <2>1 DEF TypeOK, WorkerState
  <2>3. ClaimOK(w)' /\ ReadsOK(w)'
    BY <1>3, <2>1, <2>2 DEF ClaimOK, ReadsOK, Overtaken, Tried, Owns, Exists, Inserted
  <2> QED BY <1>1, <2>1, <2>3, RowsStay
(* Steps that leave the rows alone. *)
<1>6. CASE /\ UNCHANGED <<upload, job, request>> /\ seen'[w] \in {seen[w], {}}
           /\ \/ worker'[w] = Idle
              \/ seen' = seen /\ \E pc \in PipelinePc \cup SettlePc : Goto(w, pc)
  <2>1. \A x \in Uploads : Advances(x)
    BY <1>6, OtherUploads
  <2>2. ClaimOK(w)' /\ ReadsOK(w)'
    BY <1>2, <1>6, <2>1, Rests, GoesOn
  <2> QED BY <1>1, <1>6, <2>2, RowsStay
<1>7. CASE Crash(w) \/ SettleFails(w)
  BY <1>6, <1>7 DEF Crash, SettleFails, TypeOK
<1>8. CASE ResetFails(w) \/ CheckOutcomeFails(w)
  <2>1. worker'[w] = Idle \/ Goto(w, "failure")
    BY <1>8 DEF ResetFails, CheckOutcomeFails, AfterError, Goto, TypeOK
  <2> QED BY <1>6, <1>8, <2>1 DEF ResetFails, CheckOutcomeFails, SettlePc
<1>9. CASE EnterPipeline(w) \/ UploadDisappeared(w)
  BY <1>6, <1>9 DEF EnterPipeline, UploadDisappeared, PipelinePc
<1>10. CASE CheckOutcome(w)
  <2>1. worker'[w] = Idle \/ Goto(w, "failure") \/ Goto(w, "complete")
    BY <1>10 DEF CheckOutcome, TypeOK
  <2> QED BY <1>6, <1>10, <2>1 DEF CheckOutcome, SettlePc
(* Steps that write the upload of the claim. *)
<1>12. CASE ResetPartialState(w) \/ InsertActivities(w)
  <2>1. PICK n : upload' = [upload EXCEPT ![u] = [upload[u] EXCEPT !.imports = n]]
    BY <1>12 DEF ResetPartialState, InsertActivities
  <2>2. upload'[u].status = upload[u].status /\ \A x \in Uploads \ {u} : upload'[x] = upload[x]
    BY <1>2, <2>1, RowColumns DEF TypeOK, UploadRow
  <2>3. PICK pc \in {"guard", "classify"} : Goto(w, pc)
    BY <1>12 DEF ResetPartialState, InsertActivities
  <2>4. pc \in PipelinePc \cup SettlePc
    BY DEF PipelinePc
  <2> QED BY <1>2, <1>12, <2>2, <2>3, <2>4, StatusGoesOn DEF ResetPartialState, InsertActivities
<1>13. ASSUME NEW s \in Readable \cup {"failed", upload[u].status}, SetUpload(u, s),
              Goto(w, "outcome"), UNCHANGED <<job, seen, request>>
       PROVE  WorkersInv'
  <2>1. /\ upload'[u].status = IF Exists(u) THEN s ELSE upload[u].status
        /\ \A x \in Uploads \ {u} : upload'[x] = upload[x]
    BY <1>2, <1>13, RowColumns DEF SetUpload, TypeOK, UploadRow
  <2>2. "outcome" \in PipelinePc \cup SettlePc
    BY DEF PipelinePc
  <2> QED BY <1>2, <1>13, <2>1, <2>2, StatusGoesOn
<1>14. CASE RefuseConflict(w) \/ ParseFails(w)
  BY <1>13, <1>14 DEF RefuseConflict, ParseFails
<1>15. CASE CommitUpload(w)
  BY <1>13, <1>15 DEF CommitUpload
<1>16. CASE PipelineRaises(w)
  <2>1. CASE SetUpload(u, IF upload[u].status = "processing" THEN "failed" ELSE upload[u].status)
    <3> DEFINE s == IF upload[u].status = "processing" THEN "failed" ELSE upload[u].status
    <3>1. s \in Readable \cup {"failed", upload[u].status}
      OBVIOUS
    <3> HIDE DEF s
    <3>2. SetUpload(u, s)
      BY <2>1 DEF s
    <3> QED BY <1>13, <1>16, <3>1, <3>2 DEF PipelineRaises
  <2>2. CASE "db" \in Faults /\ UNCHANGED upload
    BY <1>6, <1>16, <2>2 DEF PipelineRaises, PipelinePc
  <2> QED BY <1>16, <2>1, <2>2 DEF PipelineRaises
<1> QED
  BY <1>4, <1>5, <1>7, <1>8, <1>9, <1>10, <1>12, <1>14, <1>15, <1>16, CompletesKeeps,
     ReadClaimKeeps, GiveUpKeeps
  DEF Run, WriteFailure

(* In every state, with any number of workers, whatever a worker works on   *)
(* or has read, however long ago, is inserted and has begun its first       *)
(* attempt, no read counts more attempts than the job has by now, and the   *)
(* rows of an upload agree.                                                  *)
THEOREM WorkersConsistent == Spec => []WorkersInv
<1>1. Init => WorkersInv
  BY DEF Init, WorkersInv, UploadOK, RowOK, BlobOK, ClaimOK, ReadsOK, Idle, NoJob, Exists, PollPc
<1>2. TypeOK /\ TypeOK' /\ WorkersInv /\ [Next]_vars => WorkersInv'
  <2> SUFFICES ASSUME TypeOK, TypeOK', WorkersInv, [Next]_vars PROVE WorkersInv'
    OBVIOUS
  <2>1. CASE UNCHANGED vars
    <3>1. UNCHANGED <<upload, job, worker, seen, request>>
      BY <2>1 DEF vars
    <3> QED
      BY <3>1 DEF WorkersInv, UploadOK, RowOK, BlobOK, ClaimOK, ReadsOK, Overtaken, Exists,
                  Tried, Owns, Inserted
  <2>2. QED BY <2>1, ServeKeeps, PollKeeps, RunKeeps DEF Next
<1>3. QED BY <1>1, <1>2, TypeCorrect, PTL DEF Spec

(* While no web process dies, every stored blob belongs to an upload or to  *)
(* a request in flight, and no upload meets its first attempt without one.  *)
THEOREM NoBlobIsOrphaned ==
  ASSUME "web" \notin Faults PROVE Spec => []NoOrphanBlobs
<1>1. WorkersInv => NoOrphanBlobs
  BY DEF WorkersInv, UploadOK, BlobOK, NoOrphanBlobs
<1>2. QED BY <1>1, WorkersConsistent, PTL

(* With any number of workers a job is completed only by the worker that    *)
(* holds its claim, in the attempt it was claimed for, and none is          *)
(* dead-lettered with attempts left, not even by a commit that follows a    *)
(* read of an earlier attempt: attempts only grow.                           *)
THEOREM OwnersSettle == Spec => OnlyOwnerSettles
<1> DEFINE Fair == \A u \in Uploads :
       /\ job[u].status # "completed" /\ job'[u].status = "completed" =>
            \E w \in Workers : /\ Owns(w, u) /\ worker[w].at = u
                              /\ worker[w].attempt = job[u].attempt
                              /\ worker'[w] = Idle
       /\ job[u].status # "dead" /\ job'[u].status = "dead" =>
            job[u].attempt >= MaxAttempts
<1>1. TypeOK /\ WorkersInv /\ [Next]_vars => [Fair]_vars
  <2> SUFFICES ASSUME TypeOK, WorkersInv, Next, NEW u \in Uploads, job'[u].status # job[u].status,
                      job'[u].status \in {"completed", "dead"}
               PROVE  /\ job'[u].status = "completed" =>
                            \E w \in Workers : /\ Owns(w, u) /\ worker[w].at = u
                                              /\ worker[w].attempt = job[u].attempt
                                              /\ worker'[w] = Idle
                      /\ job'[u].status = "dead" => job[u].attempt >= MaxAttempts
    OBVIOUS
  <2>1. ASSUME NEW x \in Uploads, Serve(x)
        PROVE  FALSE
    <3>1. CASE InsertUpload(x) \/ DeleteRows(x)
      <4>1. /\ NoJob.status = "none"
            /\ [NoJob EXCEPT !.status = "queued", !.due = TRUE].status = "queued"
        BY DEF NoJob
      <4>2. /\ job'[x].status \in {"none", "queued"}
            /\ \A y \in Uploads \ {x} : job'[y] = job[y]
        BY <3>1, <4>1 DEF InsertUpload, DeleteRows, TypeOK
      <4> QED BY <4>2
    <3>2. CASE UNCHANGED job
      BY <3>2
    <3> QED
      BY <2>1, <3>1, <3>2 DEF Serve, StoreBlob, LockProject, RejectUnderLock, InsertFails,
         RequestDies, BeginDelete, DeleteFails
  <2>2. ASSUME NEW x \in Uploads, Time(x)
        PROVE  FALSE
    BY <2>2, RowColumns DEF Time, BackoffElapses, HeartbeatExpires, TypeOK, JobRow
  <2>3. ASSUME NEW w \in Workers, GiveUp(w)
        PROVE  job'[u].status = "dead" /\ job[u].attempt >= MaxAttempts
    <3>1. u \in Exhausted(w) /\ job'[u].status = "dead" /\ job[u].status # "none"
      BY <2>3, GiveUpRow DEF Exhausted
    <3>2. ReadOf(w, u) \in seen[w] /\ ReadOf(w, u).upload = u /\ ReadOf(w, u).attempt >= MaxAttempts
      BY <3>1, ReadOfIs DEF Exhausted
    <3>3. ReadOf(w, u).attempt <= job[u].attempt
      BY <3>1, <3>2 DEF WorkersInv, ReadsOK, Overtaken
    <3>4. ReadOf(w, u).attempt \in Nat /\ job[u].attempt \in Nat /\ MaxAttempts \in Nat
      BY <3>2, RowColumns, QueueAssumption DEF TypeOK, JobRead
    <3> QED BY <3>1, <3>2, <3>3, <3>4
  <2>4. ASSUME NEW w \in Workers, WriteDue(w) \/ ClaimJob(w) \/ ClaimForgotten(w)
        PROVE  FALSE
    <3>1. CASE WriteDue(w)
      BY <3>1, RowColumns DEF WriteDue, JobRow
    <3>2. CASE ClaimJob(w) \/ ClaimForgotten(w)
      <4>1. PICK x \in Uploads : job' = [job EXCEPT ![x] = ClaimedRow(w, job[x])]
        BY <3>2 DEF ClaimJob, ClaimForgotten, Claimable
      <4> QED BY <4>1, ClaimedRowType, RowColumns DEF TypeOK
    <3> QED BY <2>4, <3>1, <3>2
  <2>5. ASSUME NEW w \in Workers, MarkCompleted(w)
        PROVE  /\ job'[u].status = "completed" /\ Owns(w, u) /\ worker[w].at = u
               /\ worker[w].attempt = job[u].attempt /\ worker'[w] = Idle
    <3>1. job' = [job EXCEPT ![worker[w].at].status =
                    IF Owns(w, worker[w].at) THEN "completed" ELSE @]
      BY <2>5 DEF MarkCompleted
    <3>2. worker[w].at = u /\ Owns(w, u) /\ job'[u].status = "completed"
      BY <3>1, RowColumns DEF TypeOK, JobRow
    <3>3. worker[w].attempt = job[u].attempt
      BY <3>2, QueueAssumption DEF WorkersInv, ClaimOK
    <3> QED BY <2>5, <3>2, <3>3 DEF MarkCompleted, TypeOK
  <2>6. ASSUME NEW w \in Workers, Heartbeat(w)
        PROVE  FALSE
    BY <2>6, RowColumns DEF Heartbeat, TypeOK, JobRow
  <2>7. job' # job
    OBVIOUS
  <2>8. \A w \in Workers : Poll(w) \/ Run(w) =>
          \/ GiveUp(w) \/ WriteDue(w) \/ ClaimJob(w) \/ ClaimForgotten(w)
          \/ MarkCompleted(w) \/ Heartbeat(w)
    BY <2>7
    DEF Poll, Run, ReadExpired, ReadUpload, WriteExpired, ReadDue, WriteBackFails, NothingToClaim,
        HeartbeatFails, Crash, ResetPartialState, ResetFails, EnterPipeline, RefuseConflict,
        ParseFails, InsertActivities, CommitUpload, UploadDisappeared, PipelineRaises, CheckOutcome,
        CheckOutcomeFails, ReadClaim, WriteFailure, SettleFails
  <2>9. PICK w \in Workers :
          \/ GiveUp(w) \/ WriteDue(w) \/ ClaimJob(w) \/ ClaimForgotten(w)
          \/ MarkCompleted(w) \/ Heartbeat(w)
    BY <2>1, <2>2, <2>8 DEF Next
  <2> QED BY <2>3, <2>4, <2>5, <2>6, <2>9
<1> QED BY <1>1, TypeCorrect, WorkersConsistent, PTL DEF Spec, OnlyOwnerSettles

-----------------------------------------------------------------------------
(***************************************************************************)
(* What holds when a single upload-worker process runs, the deployment the *)
(* repository describes: for every set of uploads, every number of         *)
(* attempts and every combination of faults.                               *)
(***************************************************************************)
SoleWorker == \A v, w \in Workers : v = w

-----------------------------------------------------------------------------
(* The pieces of the inductive invariant.                                  *)

(* A worker that is busy with a claim names an upload.                      *)
LEMMA BusyAt ==
  ASSUME TypeOK, NEW w \in Workers, ClaimIsCurrent(w), worker[w].pc \notin PollPc
  PROVE  worker[w].at \in Uploads
BY DEF TypeOK, WorkerState, ClaimIsCurrent

(* An idle worker that has written back what it read satisfies its part of  *)
(* the invariant.                                                           *)
LEMMA IdleWorker ==
  ASSUME NEW w \in Workers, worker'[w] = Idle, seen'[w] = {}
  PROVE  ClaimIsCurrent(w)' /\ ReadsAreCurrent(w)' /\ RunIsConsistent(w)'
BY DEF Idle, ClaimIsCurrent, ReadsAreCurrent, RunIsConsistent, PollPc

(* A worker that polls without having read anything has nothing to write.   *)
LEMMA NothingSeen ==
  ASSUME NEW w \in Workers, ReadsAreCurrent(w), worker[w].pc \notin {"requeue", "promote", "settle"},
         TypeOK
  PROVE  seen[w] = {}
BY DEF ReadsAreCurrent

LEMMA InitInv == Init => OneWorkerInv
BY QueueAssumption
   DEF Init, OneWorkerInv, ClaimIsCurrent, ReadsAreCurrent, RunIsConsistent,
       RowIsConsistent, Idle, NoJob, PollPc, Exists, Inserted

(* Accepting and deleting uploads.                                          *)
LEMMA ServeInv ==
  ASSUME TypeOK, OneWorkerInv, NEW u \in Uploads, Serve(u)
  PROVE  OneWorkerInv'
<1> USE DEF OneWorkerInv
<1>1. CASE InsertUpload(u)
  <2>1. ~Inserted(u)
    BY <1>1 DEF InsertUpload, Inserted
  <2>2. /\ upload'[u] = [status |-> "processing", imports |-> 0]
        /\ job'[u] = [NoJob EXCEPT !.status = "queued", !.due = TRUE]
        /\ Inserted(u)'
        /\ \A v \in Uploads \ {u} : /\ upload'[v] = upload[v] /\ job'[v] = job[v]
                                    /\ request'[v] = request[v]
        /\ worker' = worker /\ seen' = seen
    BY <1>1 DEF InsertUpload, Inserted, TypeOK, Request
  <2>3. \A v \in Uploads : RowIsConsistent(v)'
    <3>1. /\ job'[u].status = "queued" /\ job'[u].attempt = 0 /\ 0 < MaxAttempts
          /\ upload'[u].status = "processing" /\ upload'[u].imports = 0
      BY <2>2, QueueAssumption DEF NoJob
    <3>2. RowIsConsistent(u)'
      BY <2>2, <3>1, QueueAssumption DEF RowIsConsistent, Exists, ActiveJob
    <3>3. \A v \in Uploads \ {u} : RowIsConsistent(v)'
      BY <2>2 DEF RowIsConsistent, Exists, Inserted
    <3>4. QED BY <3>2, <3>3
  <2>4. ASSUME NEW w \in Workers
        PROVE  ClaimIsCurrent(w)' /\ ReadsAreCurrent(w)' /\ RunIsConsistent(w)'
    <3>1. worker[w].at # u /\ \A r \in seen[w] : r.upload # u
      BY <2>1, QueueAssumption DEF ClaimIsCurrent, ReadsAreCurrent
    <3>2. ClaimIsCurrent(w)'
      BY <2>2, <3>1 DEF ClaimIsCurrent, Inserted, Owns, TypeOK, WorkerState
    <3>3. ReadsAreCurrent(w)'
      BY <2>2, <3>1 DEF ReadsAreCurrent, Inserted, TypeOK, JobRead
    <3>4. RunIsConsistent(w)'
      BY <2>2, <3>1, BusyAt DEF RunIsConsistent, PollPc
    <3>5. QED BY <3>2, <3>3, <3>4
  <2>5. QED BY <2>3, <2>4
<1>2. CASE DeleteRows(u)
  <2>1. /\ upload'[u] = [status |-> "deleted", imports |-> 0]
        /\ job'[u] = NoJob
        /\ Inserted(u) /\ Inserted(u)'
        /\ \A v \in Uploads \ {u} : /\ upload'[v] = upload[v] /\ job'[v] = job[v]
                                    /\ request'[v] = request[v]
        /\ worker' = worker /\ seen' = seen
    BY <1>2 DEF DeleteRows, Inserted, TypeOK, Request
  <2>2. \A v \in Uploads : RowIsConsistent(v)'
    BY <2>1, QueueAssumption DEF RowIsConsistent, NoJob, Exists, Inserted
  <2>3. ASSUME NEW w \in Workers
        PROVE  ClaimIsCurrent(w)' /\ ReadsAreCurrent(w)' /\ RunIsConsistent(w)'
    <3>1. ClaimIsCurrent(w)'
      BY <2>1 DEF ClaimIsCurrent, Inserted, Owns, TypeOK, WorkerState, NoJob
    <3>2. ReadsAreCurrent(w)'
      BY <2>1 DEF ReadsAreCurrent, Inserted, TypeOK, JobRead, NoJob
    <3>3. RunIsConsistent(w)'
      BY <2>1, BusyAt DEF RunIsConsistent, PollPc
    <3>4. QED BY <3>1, <3>2, <3>3
  <2>4. QED BY <2>2, <2>3
<1>3. CASE ~InsertUpload(u) /\ ~DeleteRows(u)
  <2>1. /\ UNCHANGED <<upload, job, worker, seen>>
        /\ \A v \in Uploads : Inserted(v)' = Inserted(v)
    BY <1>3
       DEF Serve, StoreBlob, LockProject, RejectUnderLock, InsertFails, RequestDies,
           BeginDelete, DeleteFails, Inserted, TypeOK, Request
  <2>2. \A v \in Uploads : RowIsConsistent(v)'
    BY <2>1 DEF RowIsConsistent, Exists
  <2>3. ASSUME NEW w \in Workers
        PROVE  ClaimIsCurrent(w)' /\ ReadsAreCurrent(w)' /\ RunIsConsistent(w)'
    BY <2>1 DEF ClaimIsCurrent, ReadsAreCurrent, RunIsConsistent, Owns, TypeOK,
                WorkerState, JobRead
  <2>4. QED BY <2>2, <2>3
<1>4. QED BY <1>1, <1>2, <1>3

(* Waiting and expiring change nothing the invariant looks at.              *)
LEMMA TimeInv ==
  ASSUME TypeOK, OneWorkerInv, NEW u \in Uploads, Time(u)
  PROVE  OneWorkerInv'
<1> USE DEF OneWorkerInv
<1>1. /\ UNCHANGED <<upload, worker, seen, request>>
      /\ \A v \in Uploads : /\ job'[v].status = job[v].status
                            /\ job'[v].attempt = job[v].attempt
                            /\ job'[v].owner = job[v].owner
  BY RowColumns DEF Time, BackoffElapses, HeartbeatExpires, TypeOK, JobRow
<1>2. \A v \in Uploads : RowIsConsistent(v)'
  BY <1>1 DEF RowIsConsistent, Exists, Inserted
<1>3. ASSUME NEW w \in Workers
      PROVE  ClaimIsCurrent(w)' /\ ReadsAreCurrent(w)' /\ RunIsConsistent(w)'
  BY <1>1 DEF ClaimIsCurrent, ReadsAreCurrent, RunIsConsistent, Inserted, Owns, TypeOK,
              WorkerState, JobRead
<1>4. QED BY <1>2, <1>3

(* What the only worker read of the claims it is about to give up is what   *)
(* their rows still hold.                                                    *)
LEMMA ReadIsCurrent ==
  ASSUME TypeOK, OneWorkerInv, NEW w \in Workers, worker[w].pc \in {"requeue", "settle"},
         GiveUp(w), NEW u \in RowsOf(w)
  PROVE  /\ u \in Uploads /\ job[u].status = "running"
         /\ ReadOf(w, u).attempt = job[u].attempt
         /\ ReadOf(w, u).found = upload[u].status
<1>1. PICK r \in seen[w] : r = ReadOf(w, u) /\ r.upload = u
  BY ReadOfIs
<1>2. u \in Uploads /\ job[u].status # "none" /\ r.found # Unread
  BY <1>1 DEF TypeOK, JobRead, GiveUp, RowsStillThere
<1> QED BY <1>1, <1>2 DEF OneWorkerInv, ReadsAreCurrent

(* Giving them up leaves every row consistent.                              *)
LEMMA GiveUpInv ==
  ASSUME TypeOK, OneWorkerInv, NEW w \in Workers, worker[w].pc \in {"requeue", "settle"},
         GiveUp(w)
  PROVE  /\ \A v \in Uploads : RowIsConsistent(v)'
         /\ ClaimIsCurrent(w)' /\ ReadsAreCurrent(w)' /\ RunIsConsistent(w)'
<1>1. worker'[w] = Idle /\ seen'[w] = {} /\ request' = request
  BY DEF GiveUp, TypeOK
<1>2. ASSUME NEW v \in Uploads
      PROVE  RowIsConsistent(v)'
  <2>1. RowIsConsistent(v) /\ job[v].attempt \in Nat /\ MaxAttempts \in Nat
    BY RowColumns, QueueAssumption DEF OneWorkerInv
  <2>2. CASE v \in Exhausted(w)
    <3>1. v \in RowsOf(w)
      BY <2>2 DEF Exhausted
    <3>2. /\ job[v].status = "running" /\ ReadOf(w, v).found = upload[v].status
          /\ job'[v].status = "dead" /\ job'[v].attempt = job[v].attempt
          /\ upload'[v].imports = upload[v].imports
          /\ upload'[v].status = IF upload[v].status = "processing" THEN "failed"
                                 ELSE upload[v].status
      BY <2>2, <3>1, ReadIsCurrent, GiveUpRow
    <3> QED BY <1>1, <2>1, <3>2 DEF RowIsConsistent, Inserted, Exists
  <2>3. CASE v \in RowsOf(w) \ Exhausted(w)
    <3>1. /\ job[v].status = "running" /\ ReadOf(w, v).found = upload[v].status
          /\ ReadOf(w, v).attempt = job[v].attempt
          /\ job'[v].status = "retry_wait" /\ job'[v].attempt = job[v].attempt
          /\ upload'[v].imports = upload[v].imports
          /\ upload'[v].status = IF upload[v].status = "failed" THEN "processing"
                                 ELSE upload[v].status
      BY <2>3, ReadIsCurrent, GiveUpRow
    <3>2. job[v].attempt < MaxAttempts
      BY <2>1, <2>3, <3>1 DEF Exhausted
    <3> QED BY <1>1, <2>1, <3>1, <3>2 DEF RowIsConsistent, Inserted, Exists, ActiveJob
  <2>4. CASE v \notin RowsOf(w)
    <3>1. job'[v] = job[v] /\ upload'[v] = upload[v]
      BY <2>4, GiveUpRow
    <3> QED BY <1>1, <2>1, <3>1 DEF RowIsConsistent, Exists, Inserted
  <2> QED BY <2>2, <2>3, <2>4
<1> QED BY <1>1, <1>2, IdleWorker

(* Reading an upload row.                                                    *)
LEMMA ReadUploadInv ==
  ASSUME TypeOK, OneWorkerInv, NEW w \in Workers, ReadUpload(w)
  PROVE  /\ \A v \in Uploads : RowIsConsistent(v)'
         /\ ClaimIsCurrent(w)' /\ ReadsAreCurrent(w)' /\ RunIsConsistent(w)'
<1>1. PICK r \in seen[w] :
        /\ worker[w].pc \in {"requeue", "settle"}
        /\ seen' = [seen EXCEPT ![w] =
                     (seen[w] \ {r}) \cup {[r EXCEPT !.found = upload[r.upload].status]}]
        /\ UNCHANGED <<upload, job, worker, request>>
  BY DEF ReadUpload
<1>2. ASSUME NEW s \in seen'[w]
      PROVE  \E q \in seen[w] : /\ s.upload = q.upload /\ s.attempt = q.attempt
                                /\ s.found \in {q.found, upload[q.upload].status}
  <2>1. s \in seen[w] \/ s = [r EXCEPT !.found = upload[r.upload].status]
    BY <1>1 DEF TypeOK
  <2>2. r \in JobRead
    BY DEF TypeOK
  <2> QED BY <2>1, <2>2 DEF JobRead
<1>3. ReadsAreCurrent(w)'
  BY <1>1, <1>2 DEF OneWorkerInv, ReadsAreCurrent, Inserted
<1>4. \A v \in Uploads : RowIsConsistent(v)'
  BY <1>1 DEF OneWorkerInv, RowIsConsistent, Exists, Inserted
<1>5. ClaimIsCurrent(w)' /\ RunIsConsistent(w)'
  BY <1>1 DEF OneWorkerInv, ClaimIsCurrent, RunIsConsistent, Inserted, Owns
<1> QED BY <1>3, <1>4, <1>5

(* The claim loop of the only worker.                                       *)
LEMMA PollInv ==
  ASSUME SoleWorker, TypeOK, OneWorkerInv, NEW w \in Workers, Poll(w)
  PROVE  OneWorkerInv'
<1> USE DEF OneWorkerInv
<1> SUFFICES /\ \A v \in Uploads : RowIsConsistent(v)'
             /\ ClaimIsCurrent(w)' /\ ReadsAreCurrent(w)' /\ RunIsConsistent(w)'
  BY DEF SoleWorker
<1>1. CASE ReadExpired(w) \/ ReadDue(w)
  <2>1. PICK pc \in {"requeue", "promote"} :
          /\ worker[w].pc = "idle"
          /\ worker' = [worker EXCEPT ![w].pc = pc]
          /\ \E S \in SUBSET Uploads :
               /\ seen' = [seen EXCEPT ![w] = JobsRead(S)]
               /\ \A v \in S : job[v].status = IF pc = "requeue" THEN "running" ELSE "retry_wait"
    <3>1. CASE ReadExpired(w)
      <4> DEFINE S == {v \in Uploads : job[v].status = "running" /\ job[v].expired}
      <4>1. seen' = [seen EXCEPT ![w] = JobsRead(S)] /\ \A v \in S : job[v].status = "running"
        BY <3>1 DEF ReadExpired
      <4>2. QED BY <3>1, <4>1 DEF ReadExpired
    <3>2. CASE ReadDue(w)
      <4> DEFINE S == {v \in Uploads : job[v].status = "retry_wait" /\ job[v].due}
      <4>1. seen' = [seen EXCEPT ![w] = JobsRead(S)] /\ \A v \in S : job[v].status = "retry_wait"
        BY <3>2 DEF ReadDue
      <4>2. QED BY <3>2, <4>1 DEF ReadDue
    <3>3. QED BY <1>1, <3>1, <3>2
  <2>2. UNCHANGED <<upload, job, request>>
    BY <1>1 DEF ReadExpired, ReadDue
  <2>3. \A v \in Uploads : RowIsConsistent(v)'
    BY <2>2 DEF RowIsConsistent, Exists, Inserted
  <2>4. worker'[w].pc = pc /\ worker'[w].at = worker[w].at
    BY <2>1 DEF TypeOK, WorkerState
  <2>5. ClaimIsCurrent(w)' /\ RunIsConsistent(w)'
    BY <2>1, <2>4 DEF ClaimIsCurrent, RunIsConsistent, PollPc
  <2>6. ReadsAreCurrent(w)'
    <3>1. PICK S \in SUBSET Uploads :
            /\ seen' = [seen EXCEPT ![w] = JobsRead(S)]
            /\ \A v \in S : job[v].status = IF pc = "requeue" THEN "running" ELSE "retry_wait"
      BY <2>1
    <3>2. ASSUME NEW r \in seen'[w]
          PROVE  r.upload \in S /\ r.attempt = job[r.upload].attempt /\ r.found = Unread
      BY <3>1, <3>2 DEF TypeOK, JobsRead
    <3>3. \A v \in S : Inserted(v)
      BY <3>1 DEF RowIsConsistent
    <3>4. pc = "promote" <=> pc # "requeue"
      OBVIOUS
    <3>5. QED BY <2>2, <2>4, <3>1, <3>2, <3>3, <3>4 DEF ReadsAreCurrent, Inserted
  <2>7. QED BY <2>3, <2>5, <2>6
<1>2. CASE WriteExpired(w) \/ ReadUpload(w)
  BY <1>2, GiveUpInv, ReadUploadInv DEF WriteExpired
<1>3. CASE WriteDue(w)
  <2>1. /\ worker'[w].pc = "claim" /\ worker'[w].at = worker[w].at
        /\ seen'[w] = {} /\ UNCHANGED <<upload, request>>
    BY <1>3 DEF WriteDue, TypeOK, WorkerState
  <2>2. ASSUME NEW v \in Uploads
        PROVE  RowIsConsistent(v)'
    <3>1. CASE v \in RowsOf(w)
      <4>1. job[v].status = "retry_wait"
        BY <1>3, <3>1 DEF WriteDue, RowsOf, RowsStillThere, ReadsAreCurrent
      <4>2. job'[v].status = "queued" /\ job'[v].attempt = job[v].attempt
        BY <1>3, <3>1, RowColumns DEF WriteDue, JobRow
      <4>3. QED BY <2>1, <4>1, <4>2 DEF RowIsConsistent, Inserted, ActiveJob
    <3>2. CASE v \notin RowsOf(w)
      <4>1. job'[v] = job[v]
        BY <1>3, <3>2 DEF WriteDue
      <4>2. QED BY <2>1, <4>1 DEF RowIsConsistent, Exists, Inserted
    <3>3. QED BY <3>1, <3>2
  <2>3. ClaimIsCurrent(w)' /\ ReadsAreCurrent(w)' /\ RunIsConsistent(w)'
    BY <1>3, <2>1 DEF WriteDue, ClaimIsCurrent, ReadsAreCurrent, RunIsConsistent, PollPc
  <2>4. QED BY <2>2, <2>3
<1>4. CASE WriteBackFails(w) \/ NothingToClaim(w)
  <2>1. worker'[w] = Idle /\ seen'[w] = {} /\ UNCHANGED <<upload, job, request>>
    BY <1>4, NothingSeen DEF WriteBackFails, NothingToClaim, ReadyToClaim, TypeOK
  <2>2. \A v \in Uploads : RowIsConsistent(v)'
    BY <2>1 DEF RowIsConsistent, Exists, Inserted
  <2>3. QED BY <2>1, <2>2, IdleWorker
<1>5. CASE ClaimJob(w) \/ ClaimForgotten(w)
  <2>1. PICK u \in Uploads :
          /\ job[u].status = "queued"
          /\ job' = [job EXCEPT ![u] = ClaimedRow(w, job[u])]
          /\ worker[w].pc \in {"claim", "idle"}
          /\ \/ worker' = [worker EXCEPT ![w] =
                    [pc |-> IF job[u].attempt + 1 > 1 THEN "reset" ELSE "guard",
                     at |-> u, attempt |-> job[u].attempt + 1, lost |-> FALSE]]
             \/ worker' = [worker EXCEPT ![w] = Idle]
          /\ UNCHANGED <<upload, seen, request>>
    BY <1>5 DEF ClaimJob, ClaimForgotten, Claimable, ReadyToClaim
  <2>2. seen'[w] = {}
    BY <2>1, NothingSeen
  <2>3. /\ job'[u].status = "running" /\ job'[u].owner = w
        /\ job'[u].attempt = job[u].attempt + 1
        /\ \A v \in Uploads \ {u} : job'[v] = job[v]
    BY <2>1, ClaimedRowType, RowColumns DEF TypeOK
  <2>4. \A v \in Uploads : RowIsConsistent(v)'
    <3>1. job[u].attempt < MaxAttempts /\ job[u].attempt \in Nat /\ Inserted(u)
      BY <2>1, RowColumns DEF RowIsConsistent
    <3>2. RowIsConsistent(u)'
      BY <2>1, <2>3, <3>1, QueueAssumption DEF RowIsConsistent, Inserted, ActiveJob
    <3>3. \A v \in Uploads \ {u} : RowIsConsistent(v)'
      BY <2>1, <2>3 DEF RowIsConsistent, Exists, Inserted
    <3>4. QED BY <3>2, <3>3
  <2>5. CASE worker'[w] = Idle
    BY <2>2, <2>4, <2>5, IdleWorker
  <2>6. CASE worker'[w] = [pc |-> IF job[u].attempt + 1 > 1 THEN "reset" ELSE "guard",
                           at |-> u, attempt |-> job[u].attempt + 1, lost |-> FALSE]
    <3>1. ClaimIsCurrent(w)'
      BY <2>1, <2>3, <2>6, QueueAssumption
         DEF ClaimIsCurrent, RowIsConsistent, Inserted, Owns, PollPc
    <3>2. ReadsAreCurrent(w)'
      BY <2>2 DEF ReadsAreCurrent
    <3>3. worker'[w].pc \in {"guard", "parse"} => job[u].attempt = 0
      BY <2>6, RowColumns
    <3>4. RunIsConsistent(w)'
      BY <2>1, <2>6, <3>3 DEF RunIsConsistent, RowIsConsistent
    <3>5. QED BY <2>4, <3>1, <3>2, <3>4
  <2>7. QED BY <2>1, <2>5, <2>6 DEF TypeOK
<1>6. QED BY <1>1, <1>2, <1>3, <1>4, <1>5 DEF Poll

-----------------------------------------------------------------------------
(* The run of a claim by the only worker.                                   *)

(* A row that is not written, or written consistently, and the rows beside  *)
(* it.                                                                      *)
LEMMA SameRows ==
  ASSUME \A v \in Uploads : RowIsConsistent(v), UNCHANGED <<upload, job, request>>
  PROVE  \A v \in Uploads : RowIsConsistent(v)'
BY DEF RowIsConsistent, Exists, Inserted

LEMMA OtherRows ==
  ASSUME \A v \in Uploads : RowIsConsistent(v), NEW u \in Uploads, request' = request,
         \A v \in Uploads \ {u} : upload'[v] = upload[v] /\ job'[v] = job[v],
         RowIsConsistent(u)'
  PROVE  \A v \in Uploads : RowIsConsistent(v)'
BY DEF RowIsConsistent, Exists, Inserted

(* A busy worker that moves on with its claim.                              *)
LEMMA StillBusy ==
  ASSUME TypeOK, NEW w \in Workers, ClaimIsCurrent(w), ReadsAreCurrent(w),
         worker[w].pc \notin PollPc \cup {"settle"},
         NEW pc \in PipelinePc \cup SettlePc, Goto(w, pc), UNCHANGED <<job, seen, request>>
  PROVE  /\ ClaimIsCurrent(w)' /\ ReadsAreCurrent(w)'
         /\ worker'[w].pc = pc /\ worker'[w].at = worker[w].at
<1>1. /\ worker'[w].pc = pc /\ worker'[w].at = worker[w].at
      /\ worker'[w].attempt = worker[w].attempt
  BY DEF Goto, TypeOK, WorkerState
<1>2. pc \notin PollPc
  BY DEF PipelinePc, SettlePc, PollPc
<1>3. seen'[w] = {}
  BY NothingSeen DEF PollPc
<1>4. ReadsAreCurrent(w)'
  BY <1>3 DEF ReadsAreCurrent
<1>5. ClaimIsCurrent(w)'
  BY <1>1, <1>2 DEF ClaimIsCurrent, Inserted, Owns
<1>6. QED BY <1>1, <1>4, <1>5

LEMMA RunInv ==
  ASSUME SoleWorker, TypeOK, OneWorkerInv, NEW w \in Workers, Run(w)
  PROVE  OneWorkerInv'
<1> USE DEF OneWorkerInv
<1> SUFFICES /\ \A v \in Uploads : RowIsConsistent(v)'
             /\ ClaimIsCurrent(w)' /\ ReadsAreCurrent(w)' /\ RunIsConsistent(w)'
  BY DEF SoleWorker
<1>1. worker[w].pc \notin PollPc
  <2>1. CASE Crash(w) \/ Heartbeat(w) \/ HeartbeatFails(w)
    BY <2>1 DEF Crash, Heartbeat, HeartbeatFails, ClaimIsCurrent
  <2>2. CASE ~(Crash(w) \/ Heartbeat(w) \/ HeartbeatFails(w))
    <3>1. worker[w].pc \in PipelinePc \cup SettlePc
      BY <2>2 DEF Run, ResetPartialState, ResetFails,
         EnterPipeline, RefuseConflict, ParseFails, InsertActivities, CommitUpload,
         UploadDisappeared, PipelineRaises, CheckOutcome, CheckOutcomeFails,
         MarkCompleted, ReadClaim, WriteFailure, SettleFails, PipelinePc, SettlePc
    <3>2. QED BY <3>1 DEF PollPc, PipelinePc, SettlePc
  <2>3. QED BY <2>1, <2>2
<1>2. PICK u \in Uploads : /\ worker[w].at = u /\ Inserted(u)
                           /\ worker[w].pc # "settle" => seen[w] = {}
  BY <1>1, BusyAt, NothingSeen, QueueAssumption DEF PollPc, ClaimIsCurrent
<1>3. job[u].status = "none" \/ (Owns(w, u) /\ job[u].attempt = worker[w].attempt)
  BY <1>2, QueueAssumption DEF ClaimIsCurrent
<1>4. ASSUME worker' = [worker EXCEPT ![w] = Idle], UNCHANGED <<upload, job, request>>,
             seen'[w] = {}
      PROVE  OneWorkerInv'
  <2>1. worker'[w] = Idle /\ seen'[w] = {}
    BY <1>4 DEF TypeOK
  <2>2. QED BY <1>4, <2>1, IdleWorker, SameRows DEF SoleWorker
<1>5. CASE Crash(w) \/ SettleFails(w)
  BY <1>2, <1>4, <1>5 DEF Crash, SettleFails, TypeOK
<1>6. CASE Heartbeat(w) \/ HeartbeatFails(w)
  <2>1. /\ UNCHANGED <<upload, seen, request>>
        /\ job' = job \/ job' = [job EXCEPT ![u] = [job[u] EXCEPT !.expired = FALSE]]
        /\ worker' = worker \/ worker' = [worker EXCEPT ![w] = [worker[w] EXCEPT !.lost = TRUE]]
    BY <1>2, <1>6 DEF Heartbeat, HeartbeatFails
  <2>2. /\ job'[u].status = job[u].status /\ job'[u].attempt = job[u].attempt
        /\ job'[u].owner = job[u].owner
    BY <1>2, <2>1, RowColumns DEF TypeOK, JobRow
  <2>3. worker'[w].pc = worker[w].pc /\ worker'[w].at = u /\ worker'[w].attempt = worker[w].attempt
    BY <1>2, <2>1 DEF TypeOK, WorkerState
  <2>4. RowIsConsistent(u)'
    BY <1>2, <2>1, <2>2 DEF RowIsConsistent, Exists, Inserted
  <2>5. \A v \in Uploads : RowIsConsistent(v)'
    BY <1>2, <2>1, <2>4, OtherRows DEF TypeOK
  <2>6. ClaimIsCurrent(w)' /\ ReadsAreCurrent(w)' /\ RunIsConsistent(w)'
    <3>1. \A v \in Uploads : job'[v].status = job[v].status /\ job'[v].attempt = job[v].attempt
      BY <1>2, <2>1, <2>2 DEF TypeOK
    <3>2. ReadsAreCurrent(w)'
      BY <2>1, <2>3, <3>1 DEF ReadsAreCurrent, Inserted, TypeOK, JobRead
    <3>3. ClaimIsCurrent(w)' /\ RunIsConsistent(w)'
      BY <1>2, <2>1, <2>2, <2>3 DEF ClaimIsCurrent, RunIsConsistent, Inserted, Owns
    <3> QED BY <3>2, <3>3
  <2>7. QED BY <2>5, <2>6
<1>7. CASE ResetFails(w) \/ CheckOutcomeFails(w)
  <2>1. AfterError(w) /\ UNCHANGED <<upload, job, seen, request>> /\ worker[w].pc # "settle"
    BY <1>7 DEF ResetFails, CheckOutcomeFails
  <2>2. CASE worker[w].lost
    BY <1>2, <1>4, <2>1, <2>2 DEF AfterError
  <2>3. CASE ~worker[w].lost
    <3>1. Goto(w, "failure")
      BY <2>1, <2>3 DEF AfterError, Goto
    <3>2. QED BY <1>1, <2>1, <3>1, StillBusy, SameRows DEF SettlePc, RunIsConsistent
  <2>4. QED BY <2>2, <2>3
<1>8. CASE CheckOutcome(w)
  <2>1. CASE worker[w].lost
    BY <1>2, <1>4, <1>8, <2>1 DEF CheckOutcome
  <2>2. CASE ~worker[w].lost
    <3>1. PICK pc \in SettlePc \ {"settle"} :
            Goto(w, pc) /\ (pc = "complete" => upload[u].status # "failed")
      BY <1>2, <1>8, <2>2 DEF CheckOutcome, SettlePc
    <3>2. UNCHANGED <<upload, job, seen, request>> /\ worker[w].pc = "outcome"
      BY <1>8 DEF CheckOutcome
    <3>3. RunIsConsistent(w)'
      <4>1. worker'[w].pc = pc /\ worker'[w].at = u
        BY <1>1, <1>2, <3>1, <3>2, StillBusy
      <4>2. "db" \notin Faults => upload[u].status # "processing"
        BY <1>2, <3>2 DEF RunIsConsistent
      <4> QED BY <3>1, <3>2, <4>1, <4>2 DEF SettlePc, RunIsConsistent
    <3>4. QED BY <1>1, <3>1, <3>2, <3>3, StillBusy, SameRows
  <2>3. QED BY <2>1, <2>2
<1>9. CASE EnterPipeline(w) \/ UploadDisappeared(w)
  <2>1. PICK pc \in {"parse", "outcome"} : Goto(w, pc) /\ (pc = "parse" => worker[w].pc = "guard")
    BY <1>9 DEF EnterPipeline, UploadDisappeared
  <2>2. /\ UNCHANGED <<upload, job, seen, request>> /\ worker[w].pc # "settle"
        /\ EnterPipeline(w) \/ upload[u].status # "processing"
    BY <1>2, <1>9 DEF EnterPipeline, UploadDisappeared, Exists
  <2>3. RunIsConsistent(w)'
    <3>1. worker'[w].pc = pc /\ worker'[w].at = u
      BY <1>1, <1>2, <2>1, <2>2, StillBusy DEF PipelinePc
    <3>2. pc = "outcome" => upload[u].status # "processing"
      BY <2>1, <2>2, <3>1 DEF EnterPipeline, Goto, TypeOK, WorkerState
    <3> QED BY <1>2, <2>1, <2>2, <3>1, <3>2 DEF RunIsConsistent
  <2>4. QED BY <1>1, <2>1, <2>2, <2>3, StillBusy, SameRows DEF PipelinePc
<1>10. CASE ResetPartialState(w) \/ InsertActivities(w)
  <2>1. PICK pc \in {"guard", "classify"}, n \in Nat :
          /\ Goto(w, pc)
          /\ upload' = [upload EXCEPT ![u] = [upload[u] EXCEPT !.imports = n]]
          /\ n <= 1
          /\ pc = "guard" => n = 0
          /\ n = 0 \/ Exists(u)
    BY <1>2, <1>10, RowColumns DEF ResetPartialState, InsertActivities, RunIsConsistent
  <2>2. UNCHANGED <<job, seen, request>> /\ worker[w].pc # "settle"
    BY <1>10 DEF ResetPartialState, InsertActivities
  <2>3. /\ upload'[u].status = upload[u].status /\ upload'[u].imports = n
        /\ \A v \in Uploads \ {u} : upload'[v] = upload[v]
    BY <1>2, <2>1, RowColumns DEF TypeOK, UploadRow
  <2>4. n = 0 \/ job[u].status = "running"
    BY <1>2, <1>3, <2>1 DEF RowIsConsistent, Owns
  <2>5. RowIsConsistent(u)'
    BY <1>2, <2>1, <2>2, <2>3, <2>4 DEF RowIsConsistent, Exists, Inserted
  <2>6. RunIsConsistent(w)'
    BY <1>1, <1>2, <2>1, <2>2, <2>3, StillBusy DEF PipelinePc, RunIsConsistent
  <2>7. QED BY <1>1, <1>2, <2>1, <2>2, <2>3, <2>5, <2>6, StillBusy, OtherRows DEF PipelinePc
<1>11. CASE RefuseConflict(w) \/ ParseFails(w) \/ CommitUpload(w) \/ PipelineRaises(w)
  <2>1. Goto(w, "outcome") /\ UNCHANGED <<job, seen, request>> /\ worker[w].pc # "settle"
    BY <1>11 DEF RefuseConflict, ParseFails, CommitUpload, PipelineRaises
  <2>2. /\ Exists(u) \/ upload'[u] = upload[u]
        /\ Exists(u)' = Exists(u)
        /\ upload'[u].imports = upload[u].imports
        /\ \A v \in Uploads \ {u} : upload'[v] = upload[v]
        /\ upload'[u].status \in {upload[u].status, "failed"} \cup Readable
        /\ "db" \notin Faults => upload'[u].status # "processing"
    <3>1. PICK s \in UploadStatus :
            /\ upload' = [upload EXCEPT ![u] = [upload[u] EXCEPT !.status = s]]
            /\ s = upload[u].status \/ (Exists(u) /\ s \notin {"absent", "deleted"})
            /\ s \in {upload[u].status, "failed"} \cup Readable
            /\ "db" \notin Faults => s # "processing"
      BY <1>2, <1>11, RowColumns
         DEF RefuseConflict, ParseFails, CommitUpload, PipelineRaises, SetUpload, Exists,
             UploadStatus, Readable, UploadRow, TypeOK
    <3>2. QED BY <1>2, <3>1, RowColumns DEF TypeOK, UploadRow, Exists
  <2>3. job[u].status \in {"none", "running"}
    BY <1>3 DEF Owns
  <2>4. RowIsConsistent(u)'
    <3>1. upload'[u].status = "processing" => upload[u].status = "processing"
      BY <2>2 DEF Readable
    <3> QED BY <1>2, <2>1, <2>2, <2>3, <3>1 DEF RowIsConsistent, Exists, Inserted
  <2>5. RunIsConsistent(w)'
    <3>1. worker'[w].pc = "outcome" /\ worker'[w].at = u
      BY <1>1, <1>2, <2>1, StillBusy DEF PipelinePc
    <3> QED BY <2>2, <3>1 DEF RunIsConsistent
  <2>6. QED BY <1>1, <1>2, <2>1, <2>2, <2>4, <2>5, StillBusy, OtherRows DEF PipelinePc
<1>12. CASE MarkCompleted(w)
  <2>1. worker'[w] = Idle /\ seen'[w] = {} /\ UNCHANGED <<upload, request>>
    BY <1>2, <1>12 DEF MarkCompleted, TypeOK
  <2>2. /\ job'[u].attempt = job[u].attempt
        /\ job'[u].status = IF Owns(w, u) THEN "completed" ELSE job[u].status
        /\ \A v \in Uploads \ {u} : job'[v] = job[v]
    BY <1>2, <1>12, RowColumns DEF MarkCompleted, TypeOK, JobRow
  <2>3. /\ upload[u].status # "failed"
        /\ "db" \notin Faults => upload[u].status # "processing"
    BY <1>2, <1>12 DEF MarkCompleted, RunIsConsistent
  <2>4. RowIsConsistent(u)'
    BY <1>2, <1>3, <2>1, <2>2, <2>3 DEF RowIsConsistent, Inserted, Exists, Owns, ActiveJob
  <2>5. QED BY <1>2, <2>1, <2>2, <2>4, IdleWorker, OtherRows
<1>13. CASE ReadClaim(w) /\ ~Owns(w, u)
  BY <1>2, <1>4, <1>13 DEF ReadClaim
<1>14. CASE ReadClaim(w) /\ Owns(w, u)
  <2>1. /\ Goto(w, "settle") /\ UNCHANGED <<upload, job, request>>
        /\ seen'[w] = {[upload |-> u, attempt |-> worker[w].attempt, found |-> Unread]}
    BY <1>2, <1>14 DEF ReadClaim, TypeOK
  <2>2. /\ worker'[w].pc = "settle" /\ worker'[w].at = u
        /\ worker'[w].attempt = worker[w].attempt
    BY <1>2, <2>1 DEF Goto, TypeOK, WorkerState
  <2>3. job[u].status = "running" /\ job[u].attempt = worker[w].attempt
    BY <1>3, <1>14 DEF Owns
  <2>4. ReadsAreCurrent(w)'
    BY <1>2, <2>1, <2>2, <2>3 DEF ReadsAreCurrent, Inserted
  <2>5. ClaimIsCurrent(w)'
    BY <1>2, <1>14, <2>1, <2>2, <2>3, QueueAssumption DEF ClaimIsCurrent, Inserted, Owns, PollPc
  <2>6. RunIsConsistent(w)'
    BY <2>2 DEF RunIsConsistent
  <2> QED BY <2>1, <2>4, <2>5, <2>6, SameRows
<1>15. CASE WriteFailure(w)
  BY <1>15, GiveUpInv DEF WriteFailure
<1>16. QED
  BY <1>5, <1>6, <1>7, <1>8, <1>9, <1>10, <1>11, <1>12, <1>13, <1>14, <1>15 DEF Run, SoleWorker

-----------------------------------------------------------------------------
(* With one worker process nothing a worker read goes stale: the invariant  *)
(* on which the theorems below rest.                                        *)
THEOREM ReadsNeverGoStale ==
  ASSUME SoleWorker PROVE Spec => []OneWorkerInv
<1>1. TypeOK /\ OneWorkerInv /\ [Next]_vars => OneWorkerInv'
  <2> SUFFICES ASSUME TypeOK, OneWorkerInv, [Next]_vars PROVE OneWorkerInv'
    OBVIOUS
  <2>1. CASE UNCHANGED vars
    BY <2>1 DEF vars, OneWorkerInv, ClaimIsCurrent, ReadsAreCurrent, RunIsConsistent,
                RowIsConsistent, Exists, Inserted, Owns
  <2>2. QED BY <2>1, ServeInv, TimeInv, PollInv, RunInv DEF Next
<1>2. QED BY <1>1, InitInv, TypeCorrect, PTL DEF Spec

(* With one worker process no job is attempted more than max_attempts times,*)
(* whatever crashes, heartbeats and database calls do.                      *)
THEOREM AttemptsAreBounded ==
  ASSUME SoleWorker PROVE Spec => []AttemptsBounded
<1>1. OneWorkerInv => AttemptsBounded
  BY DEF OneWorkerInv, RowIsConsistent, AttemptsBounded
<1>2. QED BY <1>1, ReadsNeverGoStale, PTL

(* With one worker process the statuses of a job and of its upload agree: a *)
(* job that waits or has completed never belongs to a failed upload.        *)
THEOREM StatusesAgree ==
  ASSUME SoleWorker PROVE Spec => [](WaitingNotFailed /\ CompletedNotFailed)
<1>1. OneWorkerInv => WaitingNotFailed /\ CompletedNotFailed
  BY DEF OneWorkerInv, RowIsConsistent, WaitingNotFailed, CompletedNotFailed
<1>2. QED BY <1>1, ReadsNeverGoStale, PTL

(* With one worker process no activity is imported twice.                   *)
THEOREM ImportsAreSingle ==
  ASSUME SoleWorker PROVE Spec => []NeverDirty
<1>1. OneWorkerInv => NeverDirty
  BY DEF OneWorkerInv, RowIsConsistent, RunIsConsistent, NeverDirty
<1>2. QED BY <1>1, ReadsNeverGoStale, PTL

(* With one worker process an upload in "processing" has a live job behind  *)
(* it, whatever crashes and expires: no project is blocked by an upload     *)
(* nobody works on.  Only where the database fails is there an exception, a *)
(* job completed after its pipeline could not record its own failure.        *)
THEOREM ProcessingIsWorkedOn ==
  ASSUME SoleWorker PROVE Spec => []ProcessingHasJob
<1>1. OneWorkerInv => ProcessingHasJob
  BY DEF OneWorkerInv, RowIsConsistent, ProcessingHasJob
<1>2. QED BY <1>1, ReadsNeverGoStale, PTL

-----------------------------------------------------------------------------
(* What one step may do to one job: the moves of a durable queue.           *)

Keeps(u) ==
  /\ job'[u].status = job[u].status /\ job'[u].attempt = job[u].attempt
  /\ Settled(u) => upload'[u] = upload[u]
  /\ job[u].status = "none" => upload'[u].status = upload[u].status

Moves(u, from, to, n) ==
  /\ job[u].status \in from /\ job'[u].status = to /\ job'[u].attempt = n

JobMoves(u) ==
  \/ Keeps(u)
  \/ Moves(u, {"none"}, "queued", 0) /\ upload[u].status = "absent"
  \/ Moves(u, {"queued"}, "running", job[u].attempt + 1) /\ job[u].attempt < MaxAttempts
  \/ Moves(u, {"running"}, "retry_wait", job[u].attempt) /\ job[u].attempt < MaxAttempts
  \/ Moves(u, {"running"}, "dead", job[u].attempt) /\ job[u].attempt = MaxAttempts
  \/ Moves(u, {"running"}, "completed", job[u].attempt)
  \/ Moves(u, {"retry_wait"}, "queued", job[u].attempt)
  \/ /\ Moves(u, JobStatus, "none", 0)
     /\ upload'[u].status = "deleted" /\ upload[u].status # "absent"

(* Giving a claim up is putting it back, or burying it.                     *)
LEMMA GiveUpMoves ==
  ASSUME TypeOK, OneWorkerInv, NEW w \in Workers, worker[w].pc \in {"requeue", "settle"},
         GiveUp(w), NEW u \in Uploads
  PROVE  JobMoves(u)
<1>1. RowIsConsistent(u) /\ job[u].attempt \in Nat /\ MaxAttempts \in Nat
  BY RowColumns, QueueAssumption DEF OneWorkerInv
<1>2. CASE u \in Exhausted(w)
  <2>1. u \in RowsOf(w) /\ ReadOf(w, u).attempt >= MaxAttempts
    BY <1>2 DEF Exhausted
  <2>2. /\ job[u].status = "running" /\ ReadOf(w, u).attempt = job[u].attempt
        /\ job'[u].status = "dead" /\ job'[u].attempt = job[u].attempt
    BY <1>2, <2>1, ReadIsCurrent, GiveUpRow
  <2>3. job[u].attempt = MaxAttempts
    BY <1>1, <2>1, <2>2 DEF RowIsConsistent
  <2> QED BY <2>2, <2>3 DEF JobMoves, Moves
<1>3. CASE u \in RowsOf(w) \ Exhausted(w)
  <2>1. /\ job[u].status = "running" /\ ReadOf(w, u).attempt = job[u].attempt
        /\ job'[u].status = "retry_wait" /\ job'[u].attempt = job[u].attempt
    BY <1>3, ReadIsCurrent, GiveUpRow
  <2>2. job[u].attempt < MaxAttempts
    BY <1>1, <1>3, <2>1 DEF Exhausted
  <2> QED BY <2>1, <2>2 DEF JobMoves, Moves
<1>4. CASE u \notin RowsOf(w)
  BY <1>4, GiveUpRow DEF JobMoves, Keeps
<1> QED BY <1>2, <1>3, <1>4

LEMMA StepMoves ==
  ASSUME SoleWorker, TypeOK, OneWorkerInv, [Next]_vars, NEW u \in Uploads
  PROVE  JobMoves(u)
<1> USE DEF OneWorkerInv
<1>1. CASE upload'[u] = upload[u] /\ job'[u].status = job[u].status /\ job'[u].attempt = job[u].attempt
  BY <1>1 DEF JobMoves, Keeps
<1>2. ASSUME NEW v \in Uploads, Serve(v) PROVE JobMoves(u)
  <2>1. CASE v = u /\ InsertUpload(u)
    <3>1. /\ job[u].status = "none" /\ upload[u].status = "absent"
      BY <2>1 DEF InsertUpload, RowIsConsistent, Inserted
    <3>2. job'[u].status = "queued" /\ job'[u].attempt = 0
      BY <2>1 DEF InsertUpload, TypeOK, NoJob
    <3>3. QED BY <3>1, <3>2 DEF JobMoves, Moves
  <2>2. CASE v = u /\ DeleteRows(u)
    <3>1. upload[u].status # "absent" /\ job[u].status \in JobStatus
      BY <2>2, RowColumns DEF DeleteRows, RowIsConsistent, Inserted
    <3>2. job'[u].status = "none" /\ job'[u].attempt = 0 /\ upload'[u].status = "deleted"
      BY <2>2 DEF DeleteRows, TypeOK, NoJob
    <3>3. QED BY <3>1, <3>2 DEF JobMoves, Moves
  <2>3. CASE v # u \/ (~InsertUpload(v) /\ ~DeleteRows(v))
    <3>1. upload'[u] = upload[u] /\ job'[u] = job[u]
      BY <1>2, <2>3
         DEF Serve, StoreBlob, LockProject, RejectUnderLock, InsertFails, RequestDies,
             BeginDelete, DeleteFails, InsertUpload, DeleteRows, TypeOK
    <3>2. QED BY <1>1, <3>1
  <2>4. QED BY <1>2, <2>1, <2>2, <2>3 DEF Serve
<1>3. ASSUME NEW v \in Uploads, Time(v) PROVE JobMoves(u)
  <2>1. /\ upload' = upload /\ job'[u].status = job[u].status
        /\ job'[u].attempt = job[u].attempt
    BY <1>3, RowColumns DEF Time, BackoffElapses, HeartbeatExpires, TypeOK, JobRow
  <2>2. QED BY <1>1, <2>1
<1>4. ASSUME NEW w \in Workers, Poll(w) PROVE JobMoves(u)
  <2>1. CASE WriteExpired(w)
    BY <2>1, GiveUpMoves DEF WriteExpired
  <2>2. CASE WriteDue(w) /\ u \in RowsOf(w)
    <3>1. job[u].status = "retry_wait"
      BY <2>2 DEF WriteDue, RowsOf, RowsStillThere, ReadsAreCurrent
    <3>2. job'[u].status = "queued" /\ job'[u].attempt = job[u].attempt
      BY <2>2, RowColumns DEF WriteDue, JobRow
    <3>3. QED BY <3>1, <3>2 DEF JobMoves, Moves
  <2>3. CASE ClaimJob(w) \/ ClaimForgotten(w)
    <3>1. PICK v \in Uploads : /\ job[v].status = "queued" /\ upload' = upload
                               /\ job' = [job EXCEPT ![v] = ClaimedRow(w, job[v])]
      BY <2>3 DEF ClaimJob, ClaimForgotten, Claimable
    <3>2. CASE v = u
      <4>1. job'[u].status = "running" /\ job'[u].attempt = job[u].attempt + 1
        BY <3>1, <3>2, ClaimedRowType, RowColumns DEF TypeOK
      <4>2. job[u].attempt < MaxAttempts
        BY <3>1, <3>2 DEF RowIsConsistent
      <4>3. QED BY <3>1, <3>2, <4>1, <4>2 DEF JobMoves, Moves
    <3>3. CASE v # u
      BY <1>1, <3>1, <3>3 DEF TypeOK
    <3>4. QED BY <3>2, <3>3
  <2>4. CASE /\ ~ClaimJob(w) /\ ~ClaimForgotten(w)
             /\ ~WriteExpired(w) /\ (u \notin RowsOf(w) \/ ~WriteDue(w))
    <3>1. upload'[u] = upload[u] /\ job'[u] = job[u]
      BY <1>4, <2>4 DEF Poll, ReadExpired, ReadUpload, ReadDue, WriteDue, WriteBackFails,
                        NothingToClaim
    <3>2. QED BY <1>1, <3>1
  <2>5. QED BY <2>1, <2>2, <2>3, <2>4
<1>5. ASSUME NEW w \in Workers, Run(w) PROVE JobMoves(u)
  <2>1. CASE worker[w].at = u /\ MarkCompleted(w)
    <3>1. worker[w].pc \notin PollPc
      BY <2>1 DEF MarkCompleted, PollPc
    <3>2. job[u].status = "none" \/ (Owns(w, u) /\ job[u].attempt = worker[w].attempt)
      BY <2>1, <3>1, QueueAssumption DEF ClaimIsCurrent
    <3>3. CASE ~Owns(w, u)
      <4>1. job'[u].status = job[u].status /\ job'[u].attempt = job[u].attempt
        BY <2>1, <3>3, RowColumns DEF MarkCompleted, TypeOK, JobRow
      <4>2. upload'[u] = upload[u]
        BY <2>1 DEF MarkCompleted
      <4>3. QED BY <1>1, <4>1, <4>2
    <3>4. CASE Owns(w, u)
      <4>1. job'[u].status = "completed" /\ job'[u].attempt = job[u].attempt
        BY <2>1, <3>4, RowColumns DEF MarkCompleted, TypeOK, JobRow
      <4>2. QED BY <3>4, <4>1 DEF JobMoves, Moves, Owns
    <3>5. QED BY <3>3, <3>4
  <2>2. CASE worker[w].at = u /\ ~MarkCompleted(w) /\ ~WriteFailure(w)
    <3>1. job'[u].status = job[u].status /\ job'[u].attempt = job[u].attempt
      BY <1>5, <2>2, RowColumns
         DEF Run, Heartbeat, HeartbeatFails, Crash, ResetPartialState, ResetFails,
             EnterPipeline, RefuseConflict, ParseFails, InsertActivities, CommitUpload,
             UploadDisappeared, PipelineRaises, CheckOutcome, CheckOutcomeFails,
             ReadClaim, SettleFails, TypeOK, JobRow
    <3>2. job[u].status \in {"none", "running"}
      BY <2>2, QueueAssumption DEF ClaimIsCurrent, Owns
    <3>3. job[u].status = "none" => upload'[u].status = upload[u].status
      <4> SUFFICES ASSUME ~Exists(u) PROVE upload'[u].status = upload[u].status
        BY DEF RowIsConsistent
      <4>1. QED
        BY <1>5, <2>2, RowColumns
           DEF Run, Heartbeat, HeartbeatFails, Crash, ResetPartialState, ResetFails,
               EnterPipeline, RefuseConflict, ParseFails, InsertActivities, CommitUpload,
               UploadDisappeared, PipelineRaises, CheckOutcome, CheckOutcomeFails,
               ReadClaim, SettleFails, SetUpload, TypeOK, UploadRow
    <3>4. QED BY <3>1, <3>2, <3>3 DEF JobMoves, Keeps, Settled
  <2>3. CASE worker[w].at # u /\ ~WriteFailure(w)
    <3>1. upload'[u] = upload[u] /\ job'[u] = job[u]
      BY <1>5, <2>3
         DEF Run, Heartbeat, HeartbeatFails, Crash, ResetPartialState, ResetFails,
             EnterPipeline, RefuseConflict, ParseFails, InsertActivities, CommitUpload,
             UploadDisappeared, PipelineRaises, CheckOutcome, CheckOutcomeFails,
             MarkCompleted, ReadClaim, SettleFails, SetUpload, TypeOK
    <3>2. QED BY <1>1, <3>1
  <2>4. CASE WriteFailure(w)
    BY <2>4, GiveUpMoves DEF WriteFailure
  <2>5. QED BY <2>1, <2>2, <2>3, <2>4
<1>6. CASE UNCHANGED vars BY <1>1, <1>6 DEF vars
<1>7. QED BY <1>2, <1>3, <1>4, <1>5, <1>6 DEF Next

(* With one worker process a settled job stays settled and the programme it *)
(* committed keeps its status and activities until it is deleted.           *)
THEOREM SettledStaysSettled ==
  ASSUME SoleWorker PROVE Spec => SettledIsFinal
<1>1. TypeOK /\ OneWorkerInv /\ [Next]_vars =>
        \A u \in Uploads :
          Settled(u) /\ job[u]'.status # "none"
            => /\ job[u]'.status = job[u].status
               /\ upload[u].status \in Readable => upload[u]' = upload[u]
  <2> SUFFICES ASSUME TypeOK, OneWorkerInv, [Next]_vars, NEW u \in Uploads,
                      Settled(u), job'[u].status # "none"
               PROVE  Keeps(u)
    BY DEF Keeps
  <2>1. JobMoves(u)
    BY StepMoves
  <2>2. QED BY <2>1 DEF JobMoves, Moves, Settled
<1>2. QED BY <1>1, ReadsNeverGoStale, TypeCorrect, PTL DEF Spec, SettledIsFinal

(* One worker process implements the durable queue with bounded retries.    *)
THEOREM ImplementsDurableQueue ==
  ASSUME SoleWorker PROVE Spec => QueueSpec
<1>1. Init => Queue!Init
  BY DEF Init, Queue!Init, PhaseOf, NoJob
<1>2. TypeOK /\ OneWorkerInv /\ [Next]_vars => Queue!Next
  <2> SUFFICES ASSUME TypeOK, OneWorkerInv, [Next]_vars, NEW u \in Uploads
               PROVE  \/ Queue!Enqueue(u) \/ Queue!Take(u) \/ Queue!PutBack(u)
                      \/ Queue!Bury(u) \/ Queue!Finish(u) \/ Queue!Withdraw(u)
                      \/ Queue!Stay(u)
    BY DEF Queue!Next
  <2>1. JobMoves(u)
    BY StepMoves
  <2>2. CASE Keeps(u)
    <3>1. PhaseOf(u)' = PhaseOf(u)
      BY <2>2, RowColumns DEF Keeps, PhaseOf, JobStatus
    <3>2. QED BY <2>2, <3>1 DEF Keeps, Queue!Stay, Queue!Becomes
  <2>3. CASE Moves(u, {"none"}, "queued", 0) /\ upload[u].status = "absent"
    BY <2>3 DEF Moves, PhaseOf, Queue!Enqueue, Queue!Becomes
  <2>4. CASE Moves(u, {"queued"}, "running", job[u].attempt + 1) /\ job[u].attempt < MaxAttempts
    BY <2>4 DEF Moves, PhaseOf, Queue!Take, Queue!Becomes
  <2>5. CASE Moves(u, {"running"}, "retry_wait", job[u].attempt) /\ job[u].attempt < MaxAttempts
    BY <2>5 DEF Moves, PhaseOf, Queue!PutBack, Queue!Becomes
  <2>6. CASE Moves(u, {"running"}, "dead", job[u].attempt) /\ job[u].attempt = MaxAttempts
    BY <2>6 DEF Moves, PhaseOf, Queue!Bury, Queue!Becomes
  <2>7. CASE Moves(u, {"running"}, "completed", job[u].attempt)
    BY <2>7 DEF Moves, PhaseOf, Queue!Finish, Queue!Becomes
  <2>8. CASE Moves(u, {"retry_wait"}, "queued", job[u].attempt)
    BY <2>8 DEF Moves, PhaseOf, Queue!Stay, Queue!Becomes
  <2>9. CASE /\ Moves(u, JobStatus, "none", 0)
              /\ upload'[u].status = "deleted" /\ upload[u].status # "absent"
    <3>1. PhaseOf(u)' = "gone" /\ job'[u].attempt = 0
      BY <2>9 DEF Moves, PhaseOf
    <3>2. CASE job[u].status # "none"
      BY <2>9, <3>1, <3>2 DEF Moves, JobStatus, PhaseOf, Queue!Withdraw, Queue!Becomes, Queue!Phase
    <3>3. CASE job[u].status = "none"
      <4>1. upload[u].status = "deleted" /\ job[u].attempt = 0
        BY <2>9, <3>3 DEF OneWorkerInv, RowIsConsistent, Exists
      <4>2. PhaseOf(u) = "gone"
        BY <3>3, <4>1 DEF PhaseOf
      <4>3. QED BY <3>1, <4>1, <4>2 DEF Queue!Stay, Queue!Becomes
    <3>4. QED BY <3>2, <3>3
  <2>10. QED
    BY <2>1, <2>2, <2>3, <2>4, <2>5, <2>6, <2>7, <2>8, <2>9 DEF JobMoves
<1>3. QED
  BY <1>1, <1>2, ReadsNeverGoStale, TypeCorrect, PTL DEF Spec, QueueSpec, Queue!Spec
-----------------------------------------------------------------------------
(* The import that an upload's job runs (ProgrammeImport): how the claims    *)
(* about an activity come together, for any phrases, keywords and answers.   *)
(* What is found of the claims of a set.                                    *)
Best(had, S) ==
    /\ had \subseteq Claim /\ IsFiniteSet(had)
    /\ \A x, y \in had : x.type = y.type => x = y
    /\ \A y \in S : \E x \in had : x.type = y.type
    /\ \A x \in had : \E y \in S : y.type = x.type /\ y.score = x.score
    /\ \A x \in had, y \in S : x.type = y.type => x.score >= y.score
    /\ \A x \in had : x.hours = Blank <=> \A y \in S : y.type = x.type => y.hours = Blank

(* One claim more, and what is found of its type changes with it.           *)
LEMMA BestChanged ==
    ASSUME NEW S \in SUBSET Claim, NEW had, Best(had, S), NEW x \in Claim, NEW z \in Claim,
           z.type = x.type, z.score >= x.score,
           \A y \in had : y.type = x.type => z.score >= y.score,
           z.score = x.score \/ \E y \in had : y.type = x.type /\ y.score = z.score,
           z.hours = Blank <=> x.hours = Blank /\ \A y \in had : y.type = x.type => y.hours = Blank
    PROVE  Best({y \in had : y.type # x.type} \cup {z}, S \cup {x})
<1> DEFINE new == {y \in had : y.type # x.type} \cup {z}
           T == S \cup {x}
<1>1. new \subseteq Claim /\ IsFiniteSet(new)
  <2>1. IsFiniteSet({y \in had : y.type # x.type})
    BY FS_Subset DEF Best
  <2>2. IsFiniteSet({z})
    BY FS_Singleton
  <2> QED
    BY <2>1, <2>2, FS_Union DEF Best
<1>2. \A a, b \in new : a.type = b.type => a = b
  BY DEF Best
<1>3. \A y \in T : \E a \in new : a.type = y.type
  BY DEF Best
<1>4. \A a \in new : \E y \in T : y.type = a.type /\ y.score = a.score
  <2> SUFFICES ASSUME NEW a \in new PROVE \E y \in T : y.type = a.type /\ y.score = a.score
    OBVIOUS
  <2>1. CASE a = z
    <3>1. CASE z.score = x.score
      BY <2>1, <3>1
    <3>2. CASE \E y \in had : y.type = x.type /\ y.score = z.score
      BY <2>1, <3>2 DEF Best
    <3> QED
      BY <3>1, <3>2
  <2>2. CASE a # z
    BY <2>2 DEF Best
  <2> QED
    BY <2>1, <2>2
<1>5. \A a \in new, y \in T : a.type = y.type => a.score >= y.score
  <2> SUFFICES ASSUME NEW a \in new, NEW y \in T, a.type = y.type PROVE a.score >= y.score
    OBVIOUS
  <2>1. CASE a = z /\ y \in S
    <3>1. PICK b \in had : b.type = y.type
      BY <2>1 DEF Best
    <3>2. b.score >= y.score /\ z.score >= b.score
      BY <2>1, <3>1 DEF Best
    <3>3. b.score \in Int /\ y.score \in Int /\ z.score \in Int
      BY <2>1 DEF Best, Claim
    <3> QED
      BY <2>1, <3>2, <3>3
  <2>2. CASE a = z /\ y = x
    BY <2>2
  <2>3. CASE a # z
    BY <2>3 DEF Best
  <2> QED
    BY <2>1, <2>2, <2>3
<1>6. \A a \in new : a.hours = Blank <=> \A y \in T : y.type = a.type => y.hours = Blank
  <2> SUFFICES ASSUME NEW a \in new
               PROVE  a.hours = Blank <=> \A y \in T : y.type = a.type => y.hours = Blank
    OBVIOUS
  <2>1. CASE a = z
    <3>1. (\A y \in had : y.type = x.type => y.hours = Blank) <=>
          (\A y \in S : y.type = x.type => y.hours = Blank)
      <4>1. ASSUME \A y \in had : y.type = x.type => y.hours = Blank, NEW y \in S, y.type = x.type
            PROVE  y.hours = Blank
        <5>1. PICK b \in had : b.type = y.type
          BY DEF Best
        <5>2. b.hours = Blank
          BY <4>1, <5>1
        <5> QED
          BY <5>1, <5>2 DEF Best
      <4>2. ASSUME \A y \in S : y.type = x.type => y.hours = Blank, NEW b \in had, b.type = x.type
            PROVE  b.hours = Blank
        BY <4>2 DEF Best
      <4> QED
        BY <4>1, <4>2
    <3> QED
      BY <2>1, <3>1
  <2>2. CASE a # z
    <3>1. a \in had /\ a.type # x.type
      BY <2>2
    <3> QED
      BY <3>1 DEF Best
  <2> QED
    BY <2>1, <2>2
<1> HIDE DEF new, T
<1>7. Best(new, T)
  BY <1>1, <1>2, <1>3, <1>4, <1>5, <1>6 DEF Best
<1> QED
  BY <1>7 DEF new, T

LEMMA BetterKeeps ==
    ASSUME NEW S \in SUBSET Claim, NEW had, Best(had, S), \A y \in had : y.hours = Blank,
           NEW x \in Claim, x.hours = Blank, NEW types
    PROVE  /\ Best(Better(had, x, types), S \cup {y \in {x} : y.type \in types})
           /\ \A y \in Better(had, x, types) : y.hours = Blank
<1>1. CASE x.type \notin types
  <2>1. S \cup {y \in {x} : y.type \in types} = S
    BY <1>1
  <2>2. Better(had, x, types) = had
    BY <1>1 DEF Better
  <2> QED
    BY <2>1, <2>2
<1>2. CASE x.type \in types
  <2>1. S \cup {y \in {x} : y.type \in types} = S \cup {x}
    BY <1>2
  <2>2. CASE \E y \in had : y.type = x.type /\ y.score >= x.score
    <3>1. PICK y \in had : y.type = x.type /\ y.score >= x.score
      BY <2>2
    <3>2. Better(had, x, types) = had
      BY <2>2 DEF Better
    <3>3. \A b \in had : b.type = x.type => b = y
      BY <3>1 DEF Best
    <3>4. had = {b \in had : b.type # x.type} \cup {y}
      BY <3>1, <3>3
    <3>5. y \in Claim /\ y.score \in Int /\ y.score >= y.score
      BY DEF Best, Claim
    <3>6. Best({b \in had : b.type # x.type} \cup {y}, S \cup {x})
      BY <3>1, <3>3, <3>5, BestChanged
    <3> QED
      BY <2>1, <3>2, <3>4, <3>6
  <2>3. CASE ~ \E y \in had : y.type = x.type /\ y.score >= x.score
    <3>1. Better(had, x, types) = {y \in had : y.type # x.type} \cup {x}
      BY <1>2, <2>3 DEF Better
    <3>2. x.score \in Int /\ \A y \in had : y.score \in Int
      BY DEF Best, Claim
    <3>3. x.score >= x.score /\ \A y \in had : y.type = x.type => x.score >= y.score
      BY <2>3, <3>2
    <3>4. Best({y \in had : y.type # x.type} \cup {x}, S \cup {x})
      BY <3>3, BestChanged
    <3> QED
      BY <2>1, <3>1, <3>4
  <2> QED
    BY <2>2, <2>3
<1> QED
  BY <1>1, <1>2

LEMMA JoinedKeeps ==
    ASSUME NEW S \in SUBSET Claim, NEW had, Best(had, S), NEW x \in Claim, NEW types
    PROVE  Best(Joined(had, x, types), S \cup {y \in {x} : y.type \in types})
<1>1. CASE x.type \notin types
  <2>1. S \cup {y \in {x} : y.type \in types} = S
    BY <1>1
  <2>2. Joined(had, x, types) = had
    BY <1>1 DEF Joined
  <2> QED
    BY <2>1, <2>2
<1>2. CASE x.type \in types
  <2> DEFINE old == {y \in had : y.type = x.type}
             Inheriting(y, z) == [y EXCEPT !.hours = IF @ = Blank THEN z.hours ELSE @]
             kept(y) == IF x.score >= y.score THEN Inheriting(x, y) ELSE Inheriting(y, x)
  <2>1. S \cup {y \in {x} : y.type \in types} = S \cup {x}
    BY <1>2
  <2>2. Joined(had, x, types) =
          {y \in had : y.type # x.type} \cup (IF old = {} THEN {x} ELSE {kept(y) : y \in old})
    BY <1>2 DEF Joined
  <2>3. CASE old = {}
    <3>1. x.score >= x.score
      BY DEF Claim
    <3>2. \A y \in had : y.type # x.type
      BY <2>3
    <3>3. Best({y \in had : y.type # x.type} \cup {x}, S \cup {x})
      BY <3>1, <3>2, BestChanged
    <3> QED
      BY <2>1, <2>2, <2>3, <3>3
  <2>4. CASE old # {}
    <3>1. PICK y \in had : y.type = x.type
      BY <2>4
    <3>2. \A b \in had : b.type = x.type => b = y
      BY <3>1 DEF Best
    <3>3. y \in Claim
      BY DEF Best
    <3>4. PICK h : h = IF x.hours = Blank THEN y.hours ELSE x.hours
      OBVIOUS
    <3>5. PICK g : g = IF y.hours = Blank THEN x.hours ELSE y.hours
      OBVIOUS
    <3>6. Inheriting(x, y) = [type |-> x.type, score |-> x.score, hours |-> h]
      BY <3>4 DEF Claim
    <3>7. Inheriting(y, x) = [type |-> y.type, score |-> y.score, hours |-> g]
      BY <3>3, <3>5 DEF Claim
    <3>8. PICK z : z = kept(y)
      OBVIOUS
    <3>9. {kept(b) : b \in old} = {z}
      <4> HIDE DEF kept
      <4> QED
        BY <3>1, <3>2, <3>8
    <3>10. z.type = x.type /\ z.score = (IF x.score >= y.score THEN x.score ELSE y.score)
           /\ z.hours = (IF x.score >= y.score THEN h ELSE g) /\ z \in Claim
      <4> HIDE DEF Inheriting
      <4> QED
        BY <3>1, <3>3, <3>4, <3>5, <3>6, <3>7, <3>8 DEF Claim
    <3> HIDE DEF kept, Inheriting
    <3>11. x.score \in Int /\ y.score \in Int
      BY <3>3 DEF Claim
    <3>12. /\ z.score >= x.score /\ \A b \in had : b.type = x.type => z.score >= b.score
           /\ z.score = x.score \/ \E b \in had : b.type = x.type /\ b.score = z.score
      BY <3>1, <3>2, <3>10, <3>11
    <3>13. z.hours = Blank <=> x.hours = Blank /\ \A b \in had : b.type = x.type => b.hours = Blank
      BY <3>1, <3>2, <3>4, <3>5, <3>10
    <3>14. Best({b \in had : b.type # x.type} \cup {z}, S \cup {x})
      BY <3>10, <3>12, <3>13, BestChanged
    <3> QED
      BY <2>1, <2>2, <2>4, <3>9, <3>14
  <2> QED
    BY <2>3, <2>4
<1> QED
  BY <1>1, <1>2

-----------------------------------------------------------------------------
(* What the name of an activity says.                                       *)

Unknown == {x \in Claim : x.hours = Blank}

Known(text, assets) ==
    ByKeyword(text, assets) \cup {x \in ToSet(Entry(Phrases, text)) : x.type \in Allowed(assets)}

LEMMA EntryTypes ==
    ASSUME NEW text
    PROVE  Entry(Phrases, text) \in Seq(Unknown) /\ Entry(Keywords, text) \in Seq(STRING)
<1>1. <<>> \in Seq(Unknown) /\ <<>> \in Seq(STRING)
  BY EmptySeq
<1> QED
  BY <1>1, AiAssumption DEF Entry, Unknown

LEMMA ByKeywordBest ==
    ASSUME NEW text, NEW assets
    PROVE  /\ Best(ByKeyword(text, assets), ByKeyword(text, assets))
           /\ ByKeyword(text, assets) \subseteq Unknown
<1> DEFINE hits == Entry(Keywords, text)
           valid == {n \in DOMAIN hits : hits[n] \in Allowed(assets)}
           first == {m \in valid : \A l \in valid : m <= l}
           claim(n) == [type |-> hits[n], score |-> 78, hours |-> Blank]
           K == {claim(n) : n \in first}
<1>1. ByKeyword(text, assets) = K
  BY DEF ByKeyword
<1>2. hits \in Seq(STRING)
  BY EntryTypes
<1> HIDE DEF hits
<1>3. DOMAIN hits \subseteq Nat /\ \A n \in DOMAIN hits : hits[n] \in STRING
  BY <1>2, ElementOfSeq, LenProperties
<1>4. \A n, m \in first : n = m
  BY <1>3
<1>5. \A n \in first : claim(n) \in Unknown
  BY <1>3 DEF Claim, Unknown
<1> HIDE DEF first
<1>6. K \subseteq Unknown /\ \A x, y \in K : x = y
  BY <1>4, <1>5
<1>7. IsFiniteSet(K)
  <2>1. CASE K = {}
    BY <2>1, FS_EmptySet
  <2>2. CASE K # {}
    <3>1. PICK x \in K : K = {x}
      <4> HIDE DEF K
      <4> QED
        BY <1>6, <2>2
    <3> QED
      BY <3>1, FS_Singleton
  <2> QED
    BY <2>1, <2>2
<1> HIDE DEF K
<1>8. \A x, y \in K : x.score >= y.score
  BY <1>6 DEF Unknown, Claim
<1>9. Best(K, K)
  BY <1>6, <1>7, <1>8 DEF Best, Unknown
<1> QED
  BY <1>1, <1>6, <1>9

LEMMA DeterministicBest ==
    ASSUME NEW text, NEW assets
    PROVE  Best(Deterministic(text, assets), Known(text, assets))
<1> DEFINE said == Entry(Phrases, text)
           types == Allowed(assets)
           K == ByKeyword(text, assets)
           L == Len(said)
           V == SUBSET Claim
           F == [x \in V \X (1..L) |-> Better(x[1], said[x[2]], types)]
           Solves(h) == h = [n \in 0..L |-> IF n = 0 THEN K ELSE Better(h[n - 1], said[n], types)]
           h == CHOOSE h : Solves(h)
           Upto(n) == K \cup {x \in {said[m] : m \in 1..n} : x.type \in types}
<1>1. said \in Seq(Unknown)
  BY EntryTypes
<1>2. L \in Nat /\ DOMAIN said = 1..L /\ \A n \in 1..L : said[n] \in Unknown
  BY <1>1, ElementOfSeq, LenProperties
<1>3. Deterministic(text, assets) = h[L]
  BY DEF Deterministic
<1>4. Known(text, assets) = Upto(L)
  BY <1>2 DEF Known, ToSet
<1>5. Best(K, K) /\ K \subseteq Unknown /\ K \in V
  BY ByKeywordBest DEF Best
<1> HIDE DEF said, types, K, L
<1>6. ASSUME NEW f \in V, NEW n \in 1..L
      PROVE  Better(f, said[n], types) \in V
  BY <1>2 DEF Better, Unknown
<1>7. F \in [V \X (1..L) -> V] /\ \A f \in V, n \in 1..L : F[<<f, n>>] = Better(f, said[n], types)
  BY <1>6
<1> HIDE DEF F, V
<1>8. PICK g : g \in [0..L -> V] /\ \A n \in 0..L : g[n] = IF n = 0 THEN K ELSE F[<<g[n - 1], n>>]
  <2>1. PICK g : Steps(g, L, V, K, F)
    BY <1>2, <1>5, <1>7, StepsExist
  <2> QED
    BY <2>1 DEF Steps
<1>9. ASSUME NEW n \in 0..L
      PROVE  g[n] = IF n = 0 THEN K ELSE Better(g[n - 1], said[n], types)
  <2>1. n # 0 => n \in 1..L /\ n - 1 \in 0..L
    BY <1>2
  <2>2. n # 0 => g[n - 1] \in V
    BY <1>8, <2>1
  <2> QED
    BY <1>7, <1>8, <2>1, <2>2
<1>10. Solves(g)
  BY <1>8, <1>9
<1> HIDE DEF Solves
<1>11. Solves(h)
  BY <1>10
<1> HIDE DEF h
<1>12. \A n \in 0..L : h[n] = IF n = 0 THEN K ELSE Better(h[n - 1], said[n], types)
  BY <1>11 DEF Solves
<1> DEFINE S == {n \in Nat : n <= L => Best(h[n], Upto(n)) /\ Upto(n) \subseteq Claim
                                       /\ \A y \in h[n] : y.hours = Blank}
<1>13. 0 \in S
  <2>1. Upto(0) = K
    OBVIOUS
  <2>2. h[0] = K
    BY <1>2, <1>12
  <2> QED
    BY <1>5, <2>1, <2>2 DEF Unknown
<1>14. ASSUME NEW n \in Nat, n \in S
       PROVE  n + 1 \in S
  <2> SUFFICES ASSUME n + 1 <= L
               PROVE  Best(h[n + 1], Upto(n + 1)) /\ Upto(n + 1) \subseteq Claim
                      /\ \A y \in h[n + 1] : y.hours = Blank
    OBVIOUS
  <2>1. n + 1 \in 0..L /\ n + 1 \in 1..L /\ n + 1 # 0 /\ (n + 1) - 1 = n /\ n <= L
    BY <1>2
  <2>2. Best(h[n], Upto(n)) /\ Upto(n) \subseteq Claim /\ \A y \in h[n] : y.hours = Blank
    BY <1>14, <2>1
  <2>3. h[n + 1] = Better(h[n], said[n + 1], types)
    BY <1>12, <2>1
  <2>4. Upto(n + 1) = Upto(n) \cup {y \in {said[n + 1]} : y.type \in types}
    <3>1. 1..(n + 1) = (1..n) \cup {n + 1}
      OBVIOUS
    <3> QED
      BY <3>1
  <2>5. said[n + 1] \in Claim /\ said[n + 1].hours = Blank
    BY <1>2, <2>1 DEF Unknown
  <2> HIDE DEF Upto
  <2>6. /\ Best(Better(h[n], said[n + 1], types), Upto(n) \cup {y \in {said[n + 1]} : y.type \in types})
        /\ \A y \in Better(h[n], said[n + 1], types) : y.hours = Blank
    BY <2>2, <2>5, BetterKeeps
  <2> QED
    BY <2>2, <2>3, <2>4, <2>5, <2>6
<1> HIDE DEF S
<1>15. Nat \subseteq S
  BY <1>13, <1>14, Induction
<1> HIDE DEF Upto
<1>16. Best(h[L], Upto(L))
  BY <1>2, <1>15 DEF S
<1> QED
  BY <1>3, <1>4, <1>16

(* What the answers add.                                                    *)
LEMMA JoinedType ==
    ASSUME NEW had \in SUBSET Claim, NEW x \in Claim, NEW types
    PROVE  Joined(had, x, types) \in SUBSET Claim
<1> DEFINE old == {y \in had : y.type = x.type}
           Inheriting(y, z) == [y EXCEPT !.hours = IF @ = Blank THEN z.hours ELSE @]
           kept(y) == IF x.score >= y.score THEN Inheriting(x, y) ELSE Inheriting(y, x)
<1>1. Joined(had, x, types) = IF x.type \notin types THEN had ELSE
        {y \in had : y.type # x.type} \cup (IF old = {} THEN {x} ELSE {kept(y) : y \in old})
  BY DEF Joined
<1>2. ASSUME NEW y \in Claim, NEW z \in Claim
      PROVE  Inheriting(y, z) \in Claim
  <2>1. PICK h : h = IF y.hours = Blank THEN z.hours ELSE y.hours
    OBVIOUS
  <2>2. Inheriting(y, z) = [type |-> y.type, score |-> y.score, hours |-> h]
    BY <2>1 DEF Claim
  <2> HIDE DEF Inheriting
  <2> QED
    BY <2>1, <2>2 DEF Claim
<1>3. \A y \in old : kept(y) \in Claim
  <2> HIDE DEF Inheriting
  <2> QED
    BY <1>2
<1> HIDE DEF kept, old
<1>4. {kept(y) : y \in old} \subseteq Claim
  BY <1>3
<1> QED
  BY <1>1, <1>4

AllJoined(base, said, types) ==
    LET upto[n \in 0..Len(said)] == IF n = 0 THEN base ELSE Joined(upto[n - 1], said[n], types)
    IN  upto[Len(said)]

LEMMA JoinedBest ==
    ASSUME NEW said \in Seq(Claim), NEW base, NEW B \in SUBSET Claim, Best(base, B), NEW types
    PROVE  Best(AllJoined(base, said, types), B \cup {x \in ToSet(said) : x.type \in types})
<1> DEFINE L == Len(said)
           V == SUBSET Claim
           F == [x \in V \X (1..L) |-> Joined(x[1], said[x[2]], types)]
           Solves(h) == h = [n \in 0..L |-> IF n = 0 THEN base ELSE Joined(h[n - 1], said[n], types)]
           h == CHOOSE h : Solves(h)
           Upto(n) == B \cup {x \in {said[m] : m \in 1..n} : x.type \in types}
<1>1. AllJoined(base, said, types) = h[L]
  BY DEF AllJoined
<1>2. L \in Nat /\ DOMAIN said = 1..L /\ \A n \in 1..L : said[n] \in Claim
  BY ElementOfSeq, LenProperties
<1>3. B \cup {x \in ToSet(said) : x.type \in types} = Upto(L)
  BY <1>2 DEF ToSet
<1>4. base \in V
  BY DEF Best
<1> HIDE DEF L
<1>5. ASSUME NEW f \in V, NEW n \in 1..L
      PROVE  Joined(f, said[n], types) \in V
  BY <1>2, JoinedType
<1>6. F \in [V \X (1..L) -> V] /\ \A f \in V, n \in 1..L : F[<<f, n>>] = Joined(f, said[n], types)
  BY <1>5
<1> HIDE DEF F, V
<1>7. PICK g : g \in [0..L -> V] /\ \A n \in 0..L : g[n] = IF n = 0 THEN base ELSE F[<<g[n - 1], n>>]
  <2>1. PICK g : Steps(g, L, V, base, F)
    BY <1>2, <1>4, <1>6, StepsExist
  <2> QED
    BY <2>1 DEF Steps
<1>8. ASSUME NEW n \in 0..L
      PROVE  g[n] = IF n = 0 THEN base ELSE Joined(g[n - 1], said[n], types)
  <2>1. n # 0 => n \in 1..L /\ n - 1 \in 0..L
    BY <1>2
  <2>2. n # 0 => g[n - 1] \in V
    BY <1>7, <2>1
  <2> QED
    BY <1>6, <1>7, <2>1, <2>2
<1>9. Solves(g)
  BY <1>7, <1>8
<1> HIDE DEF Solves
<1>10. Solves(h)
  BY <1>9
<1> HIDE DEF h
<1>11. \A n \in 0..L : h[n] = IF n = 0 THEN base ELSE Joined(h[n - 1], said[n], types)
  BY <1>10 DEF Solves
<1> DEFINE S == {n \in Nat : n <= L => Best(h[n], Upto(n)) /\ Upto(n) \subseteq Claim}
<1>12. 0 \in S
  <2>1. Upto(0) = B
    OBVIOUS
  <2>2. h[0] = base
    BY <1>2, <1>11
  <2> QED
    BY <2>1, <2>2
<1>13. ASSUME NEW n \in Nat, n \in S
       PROVE  n + 1 \in S
  <2> SUFFICES ASSUME n + 1 <= L
               PROVE  Best(h[n + 1], Upto(n + 1)) /\ Upto(n + 1) \subseteq Claim
    OBVIOUS
  <2>1. n + 1 \in 0..L /\ n + 1 \in 1..L /\ n + 1 # 0 /\ (n + 1) - 1 = n /\ n <= L
    BY <1>2
  <2>2. Best(h[n], Upto(n)) /\ Upto(n) \subseteq Claim
    BY <1>13, <2>1
  <2>3. h[n + 1] = Joined(h[n], said[n + 1], types)
    BY <1>11, <2>1
  <2>4. Upto(n + 1) = Upto(n) \cup {y \in {said[n + 1]} : y.type \in types}
    <3>1. 1..(n + 1) = (1..n) \cup {n + 1}
      OBVIOUS
    <3> QED
      BY <3>1
  <2>5. said[n + 1] \in Claim
    BY <1>2, <2>1
  <2> HIDE DEF Upto
  <2>6. Best(Joined(h[n], said[n + 1], types), Upto(n) \cup {y \in {said[n + 1]} : y.type \in types})
    BY <2>2, <2>5, JoinedKeeps
  <2> QED
    BY <2>2, <2>3, <2>4, <2>5, <2>6
<1> HIDE DEF S
<1>14. Nat \subseteq S
  BY <1>12, <1>13, Induction
<1> HIDE DEF Upto
<1>15. Best(h[L], Upto(L))
  BY <1>2, <1>14 DEF S
<1> QED
  BY <1>1, <1>3, <1>15

-----------------------------------------------------------------------------
(* One batch asks about a text, so there is one answer about it.            *)

AnswersFit(tasks) ==
    \A c \in Answered(tasks) :
        /\ c \in DOMAIN got
        /\ \E S \in SUBSET Batch(tasks, c[2]) : got[c] \in [S -> Replies]

Said(tasks, i) ==
    LET asked == {j \in DOMAIN tasks : tasks[j] = tasks[i]}
    IN  UNION {{got[c][j] : c \in {c \in Answered(tasks) : j \in DOMAIN got[c]}} : j \in asked}

LEMMA OneReply ==
    ASSUME NEW tasks, DOMAIN tasks \subseteq Nat, AnswersFit(tasks), NEW i \in DOMAIN tasks
    PROVE  /\ RepliesFor(tasks, i) \in Seq(Claim)
           /\ \/ Said(tasks, i) = {} /\ RepliesFor(tasks, i) = <<>>
              \/ Said(tasks, i) = {RepliesFor(tasks, i)}
<1> DEFINE same == {j \in DOMAIN tasks : tasks[j] = tasks[i]}
           id == Representative(tasks, i)
           batches == {c \in Answered(tasks) : id \in DOMAIN got[c]}
<1>1. id \in Asked(tasks) /\ tasks[id] = tasks[i]
  <2>1. PICK j \in same : \A k \in same : j <= k
    <3>1. same \in SUBSET Nat /\ same # {}
      OBVIOUS
    <3> HIDE DEF same
    <3> QED
      BY <3>1, SmallestNumber
  <2>2. j \in Asked(tasks) /\ tasks[j] = tasks[i]
    BY <2>1 DEF Asked
  <2> QED
    BY <2>2 DEF Representative
<1>2. \A j \in Asked(tasks) : tasks[j] = tasks[i] => j = id
  BY <1>1 DEF Asked
<1>3. \A c \in Answered(tasks) : \E k \in Int : c = <<"batch", k>>
  BY DEF Answered, Batches
<1>4. ASSUME NEW c \in Answered(tasks), NEW j \in DOMAIN got[c]
      PROVE  /\ j \in Asked(tasks) /\ got[c][j] \in Seq(Claim)
             /\ Cardinality({l \in Asked(tasks) : l < j}) \div BatchSize = c[2] - 1
  <2>1. PICK S \in SUBSET Batch(tasks, c[2]) : got[c] \in [S -> Replies]
    BY DEF AnswersFit
  <2> QED
    BY <2>1, AiAssumption DEF Batch
<1>5. ASSUME NEW c \in batches, NEW d \in batches
      PROVE  c = d
  <2>1. c[2] - 1 = d[2] - 1
    BY <1>4
  <2>2. PICK k \in Int, l \in Int : c = <<"batch", k>> /\ d = <<"batch", l>>
    BY <1>3
  <2> QED
    BY <2>1, <2>2
<1>6. Said(tasks, i) = {got[c][id] : c \in batches}
  <2>1. \A c \in Answered(tasks) : \A j \in DOMAIN got[c] : tasks[j] = tasks[i] => j = id
    BY <1>2, <1>4
  <2>2. id \in same
    BY <1>1 DEF Asked
  <2> HIDE DEF id
  <2> QED
    BY <1>1, <2>1, <2>2 DEF Said
<1>7. RepliesFor(tasks, i) = IF batches = {} THEN <<>> ELSE got[CHOOSE c \in batches : TRUE][id]
  BY DEF RepliesFor
<1> HIDE DEF id
<1>8. CASE batches = {}
  BY <1>6, <1>7, <1>8, EmptySeq
<1>9. CASE batches # {}
  <2>1. PICK c : c = CHOOSE d \in batches : TRUE
    OBVIOUS
  <2>2. c \in batches
    BY <1>9, <2>1
  <2>3. batches = {c}
    <3> HIDE DEF batches
    <3> QED
      BY <1>5, <2>2
  <2>4. RepliesFor(tasks, i) = got[c][id]
    BY <1>7, <1>9, <2>1
  <2>5. got[c][id] \in Seq(Claim)
    BY <1>4, <2>2
  <2>6. Said(tasks, i) = {got[c][id]}
    BY <1>6, <2>3
  <2> QED
    BY <2>4, <2>5, <2>6
<1> QED
  BY <1>8, <1>9

(* What an activity is classified by.                                       *)
Spoken(tasks, assets, i) ==
    ByKeyword(tasks[i], assets)
    \cup {x \in ToSet(Entry(Phrases, tasks[i])) \cup UNION {ToSet(r) : r \in Said(tasks, i)} :
            x.type \in Allowed(assets)}

LEMMA ClassifiedBest ==
    ASSUME NEW tasks, DOMAIN tasks \subseteq Nat, AnswersFit(tasks), NEW assets, NEW i \in DOMAIN tasks
    PROVE  Best(Classified(tasks, assets)[i], Spoken(tasks, assets, i))
<1> DEFINE said == RepliesFor(tasks, i)
           base == Deterministic(tasks[i], assets)
           B == Known(tasks[i], assets)
           types == Allowed(assets)
<1>1. said \in Seq(Claim)
  BY OneReply
<1>2. Best(base, B)
  BY DeterministicBest
<1>3. B \subseteq Claim
  <2>1. Entry(Phrases, tasks[i]) \in Seq(Unknown)
    BY EntryTypes
  <2>2. ToSet(Entry(Phrases, tasks[i])) \subseteq Unknown
    BY <2>1, ElementOfSeq, LenProperties DEF ToSet
  <2> QED
    BY <2>2, ByKeywordBest DEF Known, Unknown
<1>4. Classified(tasks, assets)[i] = AllJoined(base, said, types)
  BY DEF Classified, AllJoined
<1>5. Spoken(tasks, assets, i) = B \cup {x \in ToSet(said) : x.type \in types}
  <2>1. UNION {ToSet(r) : r \in Said(tasks, i)} = ToSet(said)
    <3>1. CASE Said(tasks, i) = {} /\ said = <<>>
      <4>1. ToSet(<<>>) = {}
        BY DEF ToSet
      <4> HIDE DEF said
      <4> QED
        BY <3>1, <4>1
    <3>2. CASE Said(tasks, i) = {said}
      BY <3>2
    <3> QED
      BY <3>1, <3>2, OneReply
  <2> HIDE DEF said, types
  <2> QED
    BY <2>1 DEF Spoken, Known, types
<1> HIDE DEF said, base, B, types
<1> QED
  BY <1>1, <1>2, <1>3, <1>4, <1>5, JoinedBest

(* What is promised of the claims that are found.                           *)
SaysTheBest(had, S) ==
    /\ {x.type : x \in had} = {x.type : x \in S}
    /\ Cardinality(had) = Cardinality({x.type : x \in had})
    /\ \A x \in had : LET same == {y \in S : y.type = x.type} IN
          /\ \A y \in same : x.score >= y.score
          /\ x.score \in {y.score : y \in same}
          /\ x.hours = Blank <=> \A y \in same : y.hours = Blank

LEMMA BestIsEnough ==
    ASSUME NEW S \in SUBSET Claim, NEW had, Best(had, S)
    PROVE  SaysTheBest(had, S)
<1>1. {x.type : x \in had} = {x.type : x \in S}
  BY DEF Best
<1>2. Cardinality(had) = Cardinality({x.type : x \in had})
  <2> DEFINE T == {x.type : x \in had}
             f == [x \in had |-> x.type]
  <2>1. f \in Bijection(had, T)
    BY DEF Best, Bijection, Injection, Surjection, IsInjective
  <2>2. ExistsBijection(had, T)
    BY <2>1 DEF ExistsBijection
  <2> HIDE DEF T
  <2>3. IsFiniteSet(had)
    BY DEF Best
  <2>4. Cardinality(T) = Cardinality(had)
    BY <2>2, <2>3, FS_Bijection
  <2> QED
    BY <2>4 DEF T
<1>3. ASSUME NEW x \in had
      PROVE  LET same == {y \in S : y.type = x.type} IN
                 /\ \A y \in same : x.score >= y.score
                 /\ x.score \in {y.score : y \in same}
                 /\ x.hours = Blank <=> \A y \in same : y.hours = Blank
  BY DEF Best
<1> QED
  BY <1>1, <1>2, <1>3 DEF SaysTheBest

-----------------------------------------------------------------------------
(* The invariant: before the batches no call asks about a batch, an answer  *)
(* is about the activities of its batch, and while the classification is     *)
(* written it is the one that the answers give, which no call still changes. *)

Fits(tasks, assets) ==
    /\ AnswersFit(tasks)
    /\ phase = "write" => Batches(tasks) \cap Running = {} /\ found = Classified(tasks, assets)

ImportInv ==
    /\ DOMAIN activities \subseteq Nat
    /\ phase \in {"structure", "classify"} => \A c \in Calls : c[1] # "batch"
    /\ \A tasks \in {Tasks}, assets \in {site} : Fits(tasks, assets)

(* What is found follows from the answers and from nothing else.            *)
LEMMA ClassifiedStays ==
    ASSUME NEW tasks, NEW assets, Answered(tasks)' = Answered(tasks),
           \A c \in Answered(tasks) : got'[c] = got[c]
    PROVE  Classified(tasks, assets)' = Classified(tasks, assets)
<1>1. ASSUME NEW i
      PROVE  RepliesFor(tasks, i)' = RepliesFor(tasks, i)
  <2>1. PICK id : id = Representative(tasks, i)
    OBVIOUS
  <2>2. PICK B : B = {c \in Answered(tasks) : id \in DOMAIN got[c]}
    OBVIOUS
  <2>3. B = {c \in Answered(tasks)' : id \in DOMAIN got'[c]}
    BY <2>2
  <2>4. RepliesFor(tasks, i) = IF B = {} THEN <<>> ELSE got[CHOOSE c \in B : TRUE][id]
    BY <2>1, <2>2 DEF RepliesFor
  <2>5. RepliesFor(tasks, i)' = IF B = {} THEN <<>> ELSE got'[CHOOSE c \in B : TRUE][id]
    BY <2>1, <2>3 DEF RepliesFor, Representative, Asked
  <2>6. B # {} => (CHOOSE c \in B : TRUE) \in Answered(tasks)
    BY <2>2
  <2> QED
    BY <2>4, <2>5, <2>6
<1>2. Classified(tasks, assets) =
        [i \in DOMAIN tasks |->
            AllJoined(Deterministic(tasks[i], assets), RepliesFor(tasks, i), Allowed(assets))]
  BY DEF Classified, AllJoined
<1>3. Classified(tasks, assets)' =
        [i \in DOMAIN tasks |->
            AllJoined(Deterministic(tasks[i], assets), RepliesFor(tasks, i)', Allowed(assets))]
  BY DEF Classified, AllJoined
<1> QED
  BY <1>1, <1>2, <1>3

(* Without answers the keywords and the phrases are all there is.           *)
LEMMA NothingAnswered ==
    ASSUME NEW tasks, NEW assets, Answered(tasks) = {}
    PROVE  Classified(tasks, assets) = ByKeywords(tasks, assets)
<1>1. \A i : RepliesFor(tasks, i) = <<>>
  BY DEF RepliesFor
<1>2. ASSUME NEW base, NEW types
      PROVE  AllJoined(base, <<>>, types) = base
  <2> DEFINE h == CHOOSE h : h = [n \in 0..0 |-> IF n = 0 THEN base ELSE Joined(h[n - 1], <<>>[n], types)]
  <2>1. Len(<<>>) = 0
    BY EmptySeq
  <2>2. AllJoined(base, <<>>, types) = h[0]
    BY <2>1 DEF AllJoined
  <2>3. PICK g : g = [n \in 0..0 |-> base]
    OBVIOUS
  <2>4. g = [n \in 0..0 |-> IF n = 0 THEN base ELSE Joined(g[n - 1], <<>>[n], types)]
    BY <2>3
  <2>5. h = [n \in 0..0 |-> IF n = 0 THEN base ELSE Joined(h[n - 1], <<>>[n], types)]
    BY <2>4
  <2> HIDE DEF h
  <2>6. h[0] = base
    BY <2>5
  <2> QED
    BY <2>2, <2>6
<1>3. Classified(tasks, assets) =
        [i \in DOMAIN tasks |->
            AllJoined(Deterministic(tasks[i], assets), RepliesFor(tasks, i), Allowed(assets))]
  BY DEF Classified, AllJoined
<1> QED
  BY <1>1, <1>2, <1>3 DEF ByKeywords

LEMMA NoBatchYet ==
    ASSUME NEW tasks, \A c \in Calls : c[1] # "batch"
    PROVE  Answered(tasks) = {} /\ Batches(tasks) \cap Running = {}
BY DEF Answered, Batches, Running

(* A step that leaves the answers about batches alone.                      *)
LEMMA FitsStill ==
    ASSUME NEW tasks, NEW assets, Fits(tasks, assets), Answered(tasks)' = Answered(tasks),
           \A c \in Answered(tasks) : c \in DOMAIN got => c \in DOMAIN got' /\ got'[c] = got[c],
           phase' = "write" =>
             phase = "write" /\ found' = found /\ Batches(tasks) \cap Running' \subseteq Running
    PROVE  Fits(tasks, assets)'
<1>1. \A c \in Answered(tasks) : c \in DOMAIN got' /\ got'[c] = got[c]
  BY DEF Fits, AnswersFit
<1>2. Classified(tasks, assets)' = Classified(tasks, assets)
  BY <1>1, ClassifiedStays
<1>3. AnswersFit(tasks)'
  BY <1>1 DEF Fits, AnswersFit, Batch, Asked
<1>4. Batches(tasks)' = Batches(tasks)
  BY DEF Batches, BatchCount, Asked
<1> QED
  BY <1>2, <1>3, <1>4 DEF Fits

LEMMA ImportInitInv == ImportInit => ImportInv
<1> SUFFICES ASSUME ImportInit PROVE ImportInv
  OBVIOUS
<1>1. Calls = {} /\ DOMAIN activities = {} /\ phase = "structure"
  BY DEF ImportInit, AiInit, Calls
<1>2. \A tasks : Answered(tasks) = {}
  BY <1>1 DEF Answered
<1> QED
  BY <1>1, <1>2 DEF ImportInv, Fits, AnswersFit

LEMMA ImportInvStep == ImportInv /\ [ImportNext]_<<ai, import>> => ImportInv'
<1> SUFFICES ASSUME ImportInv, [ImportNext]_<<ai, import>>
             PROVE  ImportInv'
  OBVIOUS
<1>1. PICK T : T = Tasks
  OBVIOUS
<1>2. PICK s : s = site
  OBVIOUS
<1>3. Fits(T, s) /\ DOMAIN activities \subseteq Nat
  BY <1>1, <1>2 DEF ImportInv
(* What is to be shown of a step that leaves the activities alone.          *)
<1>4. ASSUME UNCHANGED <<activities, site>>, Fits(T, s)',
             phase' \in {"structure", "classify"} => \A c \in Calls' : c[1] # "batch"
      PROVE  ImportInv'
  <2>1. Tasks' = T /\ site' = s
    BY <1>1, <1>2, <1>4 DEF Tasks
  <2> QED
    BY <1>3, <1>4, <2>1 DEF ImportInv
(* What a step of the provider does to the answers, one call being in hand. *)
<1>5. ASSUME UNCHANGED import, NEW c \in Calls, c \in Running, Calls' = Calls,
             \A d \in Calls \ {c} : at'[d] = at[d],
             \/ at'[c] # "answered" /\ got' = got
             \/ \E a \in Answers(c, Asking(c)) : got' = Extended(got, c, a)
      PROVE  ImportInv'
  <2>1. UNCHANGED <<activities, site, phase, found>>
    BY <1>5 DEF import
  <2>2. phase' \in {"structure", "classify"} => \A d \in Calls' : d[1] # "batch"
    BY <1>5, <2>1 DEF ImportInv
  <2>3. Batches(T)' = Batches(T)
    BY DEF Batches, BatchCount, Asked
  <2>4. \A d \in Answered(T) : d # c
    BY <1>5 DEF Answered, Running
  <2>5. \A d \in Calls \ {c} : (d \in Running' <=> d \in Running)
    BY <1>5 DEF Running
  <2>6. Running' \subseteq Running
    BY <1>5, <2>5 DEF Running
  <2>7. \A d \in Answered(T) : d \in DOMAIN got => d \in DOMAIN got' /\ got'[d] = got[d]
    BY <1>5, <2>4 DEF Extended
  <2>8. CASE c \in Batches(T) /\ at'[c] = "answered"
    <3>1. phase # "write"
      BY <1>3, <1>5, <2>8 DEF Fits
    <3>2. Answered(T)' = Answered(T) \cup {c}
      BY <1>5, <2>3, <2>8 DEF Answered
    <3>3. PICK a \in Answers(c, Asking(c)) : got' = Extended(got, c, a)
      BY <1>5, <2>8
    <3>4. c[1] = "batch"
      BY <2>8 DEF Batches
    <3>5. \E S \in SUBSET Batch(T, c[2]) : a \in [S -> Replies]
      BY <1>1, <3>3, <3>4 DEF Answers, Asking
    <3>6. c \in DOMAIN got' /\ got'[c] = a
      BY <3>3 DEF Extended
    <3>7. \A d \in Answered(T) : d \in DOMAIN got' /\ got'[d] = got[d]
      BY <1>3, <2>7 DEF Fits, AnswersFit
    <3>8. AnswersFit(T)'
      BY <1>3, <3>2, <3>5, <3>6, <3>7 DEF Fits, AnswersFit, Batch, Asked
    <3> QED
      BY <1>4, <2>1, <2>2, <3>1, <3>8 DEF Fits
  <2>9. CASE c \notin Batches(T) \/ at'[c] # "answered"
    <3>1. Answered(T)' = Answered(T)
      BY <1>5, <2>3, <2>4, <2>9 DEF Answered
    <3>2. Fits(T, s)'
      BY <1>3, <2>1, <2>6, <2>7, <3>1, FitsStill
    <3> QED
      BY <1>4, <2>1, <2>2, <3>2
  <2> QED
    BY <2>8, <2>9
(* What is to be shown of a step after the classification.                  *)
<1>6. ASSUME UNCHANGED <<ai, activities, site>>, phase' \notin {"structure", "classify", "write"}
      PROVE  ImportInv'
  <2>1. Answered(T)' = Answered(T) /\ got' = got
    BY <1>6 DEF ai, Answered, Batches, BatchCount, Asked, Calls
  <2>2. Fits(T, s)'
    BY <1>3, <1>6, <2>1, FitsStill
  <2> QED
    BY <1>4, <1>6, <2>2
(* A call that is not about a batch is asked for.                           *)
<1>7. ASSUME UNCHANGED <<got, import>>, NEW c, c[1] # "batch", Ask(c)
      PROVE  ImportInv'
  <2>1. Calls' = Calls \cup {c} /\ \A d \in Calls \ {c} : at'[d] = at[d]
    BY <1>7 DEF Ask, Extended, Calls
  <2>a. Batches(T)' = Batches(T)
    BY DEF Batches, BatchCount, Asked
  <2>b. \A d \in Batches(T) : d[1] = "batch"
    BY DEF Batches
  <2>2. Batches(T)' = Batches(T) /\ c \notin Batches(T)
    BY <1>7, <2>a, <2>b
  <2>3. Answered(T)' = Answered(T) /\ Batches(T) \cap Running' \subseteq Running
    BY <2>1, <2>2 DEF Answered, Running
  <2>4. UNCHANGED <<activities, site, phase, found>>
    BY <1>7 DEF import
  <2>5. Fits(T, s)'
    BY <1>3, <1>7, <2>3, <2>4, FitsStill
  <2> QED
    BY <1>4, <1>7, <2>1, <2>4, <2>5 DEF ImportInv
<1>8. CASE Detect
  <2>1. phase = "structure" /\ \A c \in Calls : c[1] # "batch"
    BY <1>8 DEF Detect, ImportInv
  <2>2. CASE <<"structure">> \notin Calls /\ Ask(<<"structure">>) /\ UNCHANGED <<got, import>>
    BY <1>7, <2>2
  <2>3. ASSUME NEW cols, NEW items, NEW kept, Import(cols, items, kept), UNCHANGED ai
        PROVE  ImportInv'
    <3>1. phase' = "classify" /\ activities' = Linked(items)
      BY <2>3 DEF Import
    <3>2. Calls' = Calls
      BY <2>3 DEF ai, Calls
    <3>3. DOMAIN activities' \subseteq Nat
      <4>1. DOMAIN Linked(items) = 1..Len(items)
        BY DEF Linked
      <4>2. \A n : 1..n \subseteq Nat
        OBVIOUS
      <4> QED
        BY <3>1, <4>1, <4>2
    <3>4. \A c \in Calls' : c[1] # "batch"
      BY <2>1, <3>2
    <3>5. \A tasks : Answered(tasks)' = {}
      BY <3>4 DEF Answered, Batches
    <3> QED
      BY <3>1, <3>3, <3>4, <3>5 DEF ImportInv, Fits, AnswersFit
  <2> QED
    BY <1>8, <2>2, <2>3 DEF Detect
<1>9. CASE BeginClassify
  <2>1. phase = "classify" /\ UNCHANGED <<ai, activities, site>>
    BY <1>9 DEF BeginClassify
  <2>2. CASE phase' = "batches"
    BY <1>6, <2>1, <2>2
  <2>3. CASE phase' = "write" /\ found' = ByKeywords(Tasks, site)
    <3>1. \A c \in Calls : c[1] # "batch"
      BY <2>1 DEF ImportInv
    <3>2. Answered(T) = {} /\ Batches(T) \cap Running = {}
      BY <3>1, NoBatchYet
    <3>3. Answered(T)' = {} /\ Batches(T)' \cap Running' = {}
      BY <2>1, <3>2 DEF ai, Answered, Running, Calls, Batches, BatchCount, Asked
    <3>4. Classified(T, s) = ByKeywords(T, s)
      BY <3>2, NothingAnswered
    <3>5. Classified(T, s)' = Classified(T, s)
      BY <3>2, <3>3, ClassifiedStays
    <3>6. found' = Classified(T, s)'
      BY <1>1, <1>2, <2>3, <3>4, <3>5
    <3>7. Fits(T, s)'
      BY <3>3, <3>6 DEF Fits, AnswersFit
    <3> QED
      BY <1>4, <2>1, <2>3, <3>7
  <2> QED
    BY <1>9, <2>2, <2>3 DEF BeginClassify
<1>10. CASE Classify
  <2>1. phase = "batches"
    BY <1>10 DEF Classify
  <2>2. CASE AskBatch(Tasks) /\ UNCHANGED import
    <3>1. PICK c : Ask(c) /\ c \notin Calls /\ got' = got
      BY <2>2 DEF AskBatch
    <3>2. Calls' = Calls \cup {c} /\ (\A d \in Calls : at'[d] = at[d]) /\ at'[c] # "answered"
      BY <3>1 DEF Ask, Extended, Calls
    <3>3. Batches(T)' = Batches(T)
      BY DEF Batches, BatchCount, Asked
    <3>4. Answered(T)' = Answered(T)
      BY <3>1, <3>2, <3>3 DEF Answered
    <3>5. UNCHANGED <<activities, site, phase, found>>
      BY <2>2 DEF import
    <3>6. Fits(T, s)'
      BY <1>3, <2>1, <3>1, <3>4, <3>5, FitsStill
    <3> QED
      BY <1>4, <2>1, <3>5, <3>6
  <2>3. CASE /\ Ended(Batches(Tasks)) /\ phase' = "write" /\ found' = Classified(Tasks, site)
             /\ UNCHANGED <<ai, activities, site>>
    <3>1. Answered(T)' = Answered(T) /\ got' = got /\ Batches(T)' = Batches(T) /\ Running' = Running
      BY <2>3 DEF ai, Answered, Running, Calls, Batches, BatchCount, Asked
    <3>2. Classified(T, s)' = Classified(T, s)
      BY <3>1, ClassifiedStays
    <3>3. Batches(T) \cap Running = {}
      BY <1>1, <2>3 DEF Ended
    <3>4. found' = Classified(T, s)'
      BY <1>1, <1>2, <2>3, <3>2
    <3>5. AnswersFit(T)'
      BY <1>3, <3>1 DEF Fits, AnswersFit, Batch, Asked
    <3>6. Fits(T, s)'
      BY <3>1, <3>3, <3>4, <3>5 DEF Fits
    <3> QED
      BY <1>4, <2>3, <3>6
  <2> QED
    BY <1>10, <2>2, <2>3 DEF Classify
<1>11. CASE Write
  BY <1>6, <1>11 DEF Write
<1>12. CASE Suggest
  BY <1>6, <1>12 DEF Suggest
<1>13. CASE AskProfile
  <2>1. PICK g, k : Ask(<<"profile", g, k>>) /\ UNCHANGED <<got, import>>
    BY <1>13 DEF AskProfile
  <2>2. PICK c : c = <<"profile", g, k>>
    OBVIOUS
  <2> QED
    BY <1>7, <2>1, <2>2
<1>14. CASE ResolveProfiles
  BY <1>6, <1>14 DEF ResolveProfiles
<1>15. CASE Finish
  BY <1>6, <1>15 DEF Finish
<1>16. CASE RollBack
  BY <1>6, <1>16 DEF RollBack
<1>17. CASE AcquireSlot
  <2>1. PICK c \in Calls : Acquire(c) /\ UNCHANGED import
    BY <1>17 DEF AcquireSlot
  <2> QED
    BY <1>5, <2>1 DEF Acquire, Calls, Running
<1>18. CASE EnterProvider
  <2>1. PICK c \in Calls : Enter(c) /\ UNCHANGED import
    BY <1>18 DEF EnterProvider
  <2> QED
    BY <1>5, <2>1 DEF Enter, Calls, Running
<1>19. CASE ProviderAnswers
  <2>1. PICK c \in Calls : Answer(c, Asking(c)) /\ UNCHANGED import
    BY <1>19 DEF ProviderAnswers
  <2>2. \E a \in Answers(c, Asking(c)) : got' = Extended(got, c, a)
    BY <2>1 DEF Answer
  <2>3. Calls' = Calls /\ c \in Running /\ \A d \in Calls \ {c} : at'[d] = at[d]
    BY <2>1 DEF Answer, Calls, Running
  <2> QED
    BY <1>5, <2>1, <2>2, <2>3
<1>20. CASE ProviderFails
  <2>1. PICK c \in Calls : Fail(c) /\ UNCHANGED import
    BY <1>20 DEF ProviderFails
  <2> QED
    BY <1>5, <2>1 DEF Fail, Calls, Running
<1>21. CASE UNCHANGED <<ai, import>>
  <2>1. Answered(T)' = Answered(T) /\ UNCHANGED <<got, activities, site, phase, found>>
        /\ Calls' = Calls /\ Running' = Running
    BY <1>21 DEF ai, import, Answered, Batches, BatchCount, Asked, Calls, Running
  <2>2. Fits(T, s)'
    BY <1>3, <2>1, FitsStill
  <2> QED
    BY <1>4, <2>1, <2>2 DEF ImportInv
<1> QED
  BY <1>8, <1>9, <1>10, <1>11, <1>12, <1>13, <1>14, <1>15, <1>16, <1>17, <1>18, <1>19, <1>20,
     <1>21 DEF ImportNext

(* What the import knows of its calls is always so.                         *)
THEOREM ImportConsistent == ImportSpec => []ImportInv
BY ImportInitInv, ImportInvStep, PTL DEF ImportSpec

(* Whatever batches fail or are cut short, a task needs exactly the types   *)
(* that its name or the answers about its text call for, as surely as the   *)
(* surest of them says (_classify_assets_real).                              *)
THEOREM ImportKeepsTheBest == ImportSpec => []BestAnswersWin
<1>1. ImportInv => BestAnswersWin
  <2> SUFFICES ASSUME ImportInv, phase = "write" PROVE BestAnswersWin
    BY DEF BestAnswersWin
  <2>1. PICK T : T = Tasks
    OBVIOUS
  <2>2. PICK s : s = site
    OBVIOUS
  <2>3. AnswersFit(T) /\ found = Classified(T, s)
    BY <2>1, <2>2 DEF ImportInv, Fits
  <2>4. DOMAIN T \subseteq Nat
    BY <2>1 DEF ImportInv, Tasks
  <2>5. ASSUME NEW i \in DOMAIN T
        PROVE  Best(found[i], Sources(i)) /\ Sources(i) \subseteq Claim
    <3>1. Sources(i) = Spoken(T, s, i)
      BY <2>1, <2>2 DEF Sources, Spoken, Said
    <3>2. Spoken(T, s, i) \subseteq Claim
      <4>1. ByKeyword(T[i], s) \subseteq Claim
        BY ByKeywordBest DEF Unknown
      <4>2. ToSet(Entry(Phrases, T[i])) \subseteq Claim
        <5>1. Entry(Phrases, T[i]) \in Seq(Unknown)
          BY EntryTypes
        <5> QED
          BY <5>1, ElementOfSeq, LenProperties DEF ToSet, Unknown
      <4>3. \A r \in Said(T, i) : ToSet(r) \subseteq Claim
        <5>1. \A r \in Said(T, i) : r \in Seq(Claim)
          BY <2>3, <2>4, OneReply
        <5> QED
          BY <5>1, ElementOfSeq, LenProperties DEF ToSet
      <4> QED
        BY <4>1, <4>2, <4>3 DEF Spoken
    <3> QED
      BY <2>3, <2>4, <3>1, <3>2, ClassifiedBest
  <2>6. ASSUME NEW i \in DOMAIN T
        PROVE  SaysTheBest(found[i], Sources(i))
    BY <2>5, BestIsEnough
  <2> QED
    BY <2>1, <2>6 DEF BestAnswersWin, SaysTheBest
<1> QED
  BY <1>1, ImportConsistent, PTL

(* After the quota is used up no call of the upload is sent, the ones that  *)
(* waited for a permit included (_call_api).                                 *)
THEOREM QuotaStopsCalls == ImportSpec => QuotaStops
<1>1. [ImportNext]_<<ai, import>> =>
        [\A c \in DOMAIN at' : at'[c] = "asking" /\ (c \in Calls => at[c] # "asking") => ~suppressed]_<<ai, import>>
  <2> SUFFICES ASSUME ImportNext, NEW c \in DOMAIN at', at'[c] = "asking",
                      c \in Calls => at[c] # "asking"
               PROVE  ~suppressed
    OBVIOUS
  <2>1. at' # at
    BY DEF Calls
  <2>2. ASSUME NEW d, Ask(d) PROVE FALSE
    BY <2>2 DEF Ask, Extended, Calls
  <2>3. CASE EnterProvider
    BY <2>3 DEF EnterProvider, Enter, Calls, Stopped
  <2>4. CASE AcquireSlot \/ ProviderAnswers \/ ProviderFails
    BY <2>4 DEF AcquireSlot, ProviderAnswers, ProviderFails, Acquire, Answer, Fail, Calls
  <2>5. CASE Detect \/ Classify \/ AskProfile
    BY <2>1, <2>2, <2>5 DEF Detect, Classify, AskBatch, AskProfile, ai
  <2>6. CASE BeginClassify \/ Write \/ Suggest \/ ResolveProfiles \/ Finish \/ RollBack
    BY <2>1, <2>6 DEF BeginClassify, Write, Suggest, ResolveProfiles, Finish, RollBack, ai
  <2> QED
    BY <2>3, <2>4, <2>5, <2>6 DEF ImportNext
<1> QED
  BY <1>1, PTL DEF ImportSpec, QuotaStops
=============================================================================
