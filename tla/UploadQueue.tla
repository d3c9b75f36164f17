----------------------------- MODULE UploadQueue -----------------------------
(***************************************************************************)
(* The durable programme-upload pipeline: the HTTP handlers that accept    *)
(* and delete uploads (app/api/v1/programmes.py), the job rows they leave  *)
(* in programme_upload_jobs, the polling workers that claim those rows     *)
(* (app/worker/upload_worker.py) and the pipeline each claim runs          *)
(* (app/services/process_programme.py).                                    *)
(*                                                                         *)
(* A step of the model is one committed transaction (or one read whose     *)
(* result is used by a later transaction): PostgreSQL runs READ COMMITTED  *)
(* and the code opens a new session for almost every query.                *)
(***************************************************************************)
EXTENDS Integers, FiniteSets

CONSTANTS
  Uploads,      \* upload requests; the id of the row each may create
  Projects,     \* site projects
  ProjectOf,    \* the project an upload request names
  Workers,      \* upload-worker processes
  MaxAttempts,  \* settings.UPLOAD_WORKER_MAX_ATTEMPTS, copied into each job row
  MaxClaims,    \* BOUND of the model: no job is claimed more often than this
  Faults,       \* which faults may happen, see FaultKinds
  NoWorker,     \* NULL in programme_upload_jobs.worker_id
  NoUpload      \* a worker that holds no claim

\* crash: a worker process dies while it holds a claim.   beat: a heartbeat
\* UPDATE raises.   stall: a live heartbeat thread is late by more than the TTL.
\* db: a database call raises and its transaction is rolled back.   web: an
\* HTTP handler dies half way, or storage.delete fails.
FaultKinds == {"crash", "beat", "stall", "db", "web"}

ASSUME QueueAssumption ==
  /\ ProjectOf \in [Uploads -> Projects]
  /\ MaxAttempts \in Nat \ {0}
  /\ MaxClaims \in Nat
  /\ Faults \subseteq FaultKinds
  /\ NoWorker \notin Workers
  /\ NoUpload \notin Uploads

VARIABLES
  upload,   \* programme_uploads rows, with their programme_activities
  job,      \* programme_upload_jobs rows
  worker,   \* the local state of each worker process
  seen,     \* the rows a worker read and has not written back yet
  request   \* the HTTP requests that create and delete an upload, and its blob

vars == <<upload, job, worker, seen, request>>

-----------------------------------------------------------------------------
(* Types.                                                                  *)

UploadStatus == {"absent", "processing", "committed",
                 "completed_with_warnings", "failed", "deleted"}
Readable == {"committed", "completed_with_warnings"}

JobStatus == {"none", "queued", "running", "retry_wait", "completed", "dead"}
ActiveJob == {"queued", "running", "retry_wait"}

\* imports counts the complete sets of programme_activities the row owns.
UploadRow == [status: UploadStatus, imports: Nat]

\* due: available_at <= now.   expired: heartbeat_at < now - claim TTL.
JobRow == [status: JobStatus, attempt: Nat, owner: Workers \cup {NoWorker},
           due: BOOLEAN, expired: BOOLEAN]

PollPc     == {"idle", "requeue", "promote", "claim"}
PipelinePc == {"reset", "guard", "parse", "classify", "outcome"}
SettlePc   == {"complete", "failure", "settle"}

\* attempt: the copy _poll_once keeps of attempt_count.   lost: heartbeat_failed.
WorkerState == [pc: PollPc \cup PipelinePc \cup SettlePc,
                at: Uploads \cup {NoUpload}, attempt: Nat, lost: BOOLEAN]

\* found: the status of the upload row, once it has been read too.
Unread  == "unread"
JobRead == [upload: Uploads, attempt: Nat, found: UploadStatus \cup {Unread}]

RequestPhase == {"new", "stored", "locked", "accepted", "error", "deleting"}
Request == [phase: RequestPhase, blob: BOOLEAN]

TypeOK ==
  /\ upload \in [Uploads -> UploadRow]
  /\ job \in [Uploads -> JobRow]
  /\ worker \in [Workers -> WorkerState]
  /\ seen \in [Workers -> SUBSET JobRead]
  /\ request \in [Uploads -> Request]

NoJob == [status |-> "none", attempt |-> 0, owner |-> NoWorker,
          due |-> FALSE, expired |-> FALSE]
Idle == [pc |-> "idle", at |-> NoUpload, attempt |-> 0, lost |-> FALSE]

Init ==
  /\ upload = [u \in Uploads |-> [status |-> "absent", imports |-> 0]]
  /\ job = [u \in Uploads |-> NoJob]
  /\ worker = [w \in Workers |-> Idle]
  /\ seen = [w \in Workers |-> {}]
  /\ request = [u \in Uploads |-> [phase |-> "new", blob |-> FALSE]]

Exists(u) == upload[u].status \notin {"absent", "deleted"}

(* Uploads the "already processing" check of upload_programme looks for: it *)
(* joins the upload with its job, so a stuck upload does not block here.    *)
Blocking(p) ==
  {u \in Uploads : /\ ProjectOf[u] = p
                   /\ upload[u].status = "processing"
                   /\ job[u].status \in ActiveJob}

(* What a best-effort storage.delete leaves behind: nothing, or the blob    *)
(* when the delete itself fails (the failure is logged and ignored).        *)
BlobAfterCleanup == IF "web" \in Faults THEN BOOLEAN ELSE {FALSE}

(* SELECT ... FOR UPDATE on the project row: one holder per project.        *)
ProjectUnlocked(p) ==
  \A v \in Uploads : ProjectOf[v] = p => request[v].phase # "locked"

-----------------------------------------------------------------------------
(* POST /api/programmes/upload and DELETE /api/programmes/{upload_id}.      *)

(* The early, unserialised check, then storage.save.  A request the check   *)
(* rejects has changed nothing and may simply be sent again.                *)
StoreBlob(u) ==
  /\ request[u].phase = "new"
  /\ Blocking(ProjectOf[u]) = {}
  /\ request' = [request EXCEPT ![u] = [phase |-> "stored", blob |-> TRUE]]
  /\ UNCHANGED <<upload, job, worker, seen>>

(* The project row is locked and the check repeated under the lock.         *)
LockProject(u) ==
  /\ request[u].phase = "stored"
  /\ ProjectUnlocked(ProjectOf[u])
  /\ Blocking(ProjectOf[u]) = {}
  /\ request' = [request EXCEPT ![u].phase = "locked"]
  /\ UNCHANGED <<upload, job, worker, seen>>

(* Faulty variant: the rejection forgets the blob it stored.                *)
RejectUnderLockKeepsBlob(u) ==
  /\ request[u].phase = "stored"
  /\ ProjectUnlocked(ProjectOf[u])
  /\ Blocking(ProjectOf[u]) # {}
  /\ request' = [request EXCEPT ![u].phase = "error"]
  /\ UNCHANGED <<upload, job, worker, seen>>

(* The repeated check finds an upload in progress: rollback, blob deleted.  *)
(* The 409 it raises is caught by the handler's own `except Exception`, so  *)
(* the client is answered 500, as for the failures below.                   *)
RejectUnderLock(u) ==
  /\ request[u].phase = "stored"
  /\ ProjectUnlocked(ProjectOf[u])
  /\ Blocking(ProjectOf[u]) # {}
  /\ \E kept \in BlobAfterCleanup :
       request' = [request EXCEPT ![u] = [phase |-> "error", blob |-> kept]]
  /\ UNCHANGED <<upload, job, worker, seen>>

(* The upload row, its job row and the stored-file row commit together.     *)
InsertUpload(u) ==
  /\ request[u].phase = "locked"
  /\ upload' = [upload EXCEPT ![u] = [status |-> "processing", imports |-> 0]]
  /\ job' = [job EXCEPT ![u] = [NoJob EXCEPT !.status = "queued", !.due = TRUE]]
  /\ request' = [request EXCEPT ![u].phase = "accepted"]
  /\ UNCHANGED <<worker, seen>>

(* The metadata transaction raises: rollback, best-effort blob deletion.    *)
InsertFails(u) ==
  /\ "db" \in Faults
  /\ request[u].phase \in {"stored", "locked"}
  /\ \E kept \in BlobAfterCleanup :
       request' = [request EXCEPT ![u] = [phase |-> "error", blob |-> kept]]
  /\ UNCHANGED <<upload, job, worker, seen>>

(* The web process dies with a request half way; locks go with it.          *)
RequestDies(u) ==
  /\ "web" \in Faults
  /\ \/ /\ request[u].phase \in {"stored", "locked"}
        /\ request' = [request EXCEPT ![u].phase = "error"]
     \/ /\ request[u].phase = "deleting"
        /\ request' = [request EXCEPT ![u].phase = "accepted"]
  /\ UNCHANGED <<upload, job, worker, seen>>

(* The status is read without a lock, then the blob is deleted.             *)
BeginDelete(u) ==
  /\ request[u].phase = "accepted"
  /\ Exists(u)
  /\ upload[u].status # "processing"
  /\ request' = [request EXCEPT ![u] = [phase |-> "deleting", blob |-> FALSE]]
  /\ UNCHANGED <<upload, job, worker, seen>>

(* The row goes, whatever its status is by now; activities and job cascade. *)
DeleteRows(u) ==
  /\ request[u].phase = "deleting"
  /\ upload' = [upload EXCEPT ![u] = [status |-> "deleted", imports |-> 0]]
  /\ job' = [job EXCEPT ![u] = NoJob]
  /\ request' = [request EXCEPT ![u].phase = "accepted"]
  /\ UNCHANGED <<worker, seen>>

DeleteFails(u) ==
  /\ "db" \in Faults
  /\ request[u].phase = "deleting"
  /\ request' = [request EXCEPT ![u].phase = "accepted"]
  /\ UNCHANGED <<upload, job, worker, seen>>

-----------------------------------------------------------------------------
(* Time.                                                                    *)

(* available_at of a waiting job is reached.                                *)
BackoffElapses(u) ==
  /\ job[u].status \in {"queued", "retry_wait"}
  /\ ~job[u].due
  /\ job' = [job EXCEPT ![u].due = TRUE]
  /\ UNCHANGED <<upload, worker, seen, request>>

(* Worker w has a live heartbeat thread for the claim it holds on u.        *)
Beating(w, u) ==
  /\ worker[w].at = u
  /\ ~worker[w].lost
  /\ job[u].owner = w

(* The claim TTL passes without a heartbeat.  A live thread beats every 15  *)
(* seconds against a TTL of 90, so this takes a fault.                      *)
HeartbeatExpires(u) ==
  /\ job[u].status = "running"
  /\ ~job[u].expired
  /\ "stall" \in Faults \/ \A w \in Workers : ~Beating(w, u)
  /\ job' = [job EXCEPT ![u].expired = TRUE]
  /\ UNCHANGED <<upload, worker, seen, request>>

-----------------------------------------------------------------------------
(* The heartbeat thread of a claim.                                         *)

(* Faulty variant: the conditional updates forget the worker_id condition.  *)
OwnsAnyones(w, u) == job[u].status = "running"

Owns(w, u) == job[u].status = "running" /\ job[u].owner = w

(* One beat: a conditional UPDATE; no row matched means the claim is lost.  *)
Heartbeat(w) ==
  LET u == worker[w].at IN
  /\ worker[w].at # NoUpload
  /\ ~worker[w].lost
  /\ \/ /\ Owns(w, u)
        /\ job[u].expired
        /\ job' = [job EXCEPT ![u].expired = FALSE]
        /\ UNCHANGED worker
     \/ /\ ~Owns(w, u)
        /\ worker' = [worker EXCEPT ![w].lost = TRUE]
        /\ UNCHANGED job
  /\ UNCHANGED <<upload, seen, request>>

(* The UPDATE raises: the thread gives up although the claim may be held.   *)
HeartbeatFails(w) ==
  /\ "beat" \in Faults
  /\ worker[w].at # NoUpload
  /\ ~worker[w].lost
  /\ worker' = [worker EXCEPT ![w].lost = TRUE]
  /\ UNCHANGED <<upload, job, seen, request>>

-----------------------------------------------------------------------------
(* Rows that are read without a lock and written back by primary key in a   *)
(* later statement: _requeue_expired_claims, the first half of _poll_once   *)
(* and _handle_job_failure.                                                 *)

JobsRead(S) == {[upload |-> u, attempt |-> job[u].attempt, found |-> Unread] : u \in S}
RowsOf(w) == {r.upload : r \in seen[w]}
ReadOf(w, u) == CHOOSE r \in seen[w] : r.upload = u

(* An UPDATE by primary key that matches no row raises StaleDataError.      *)
RowsStillThere(w) == \A u \in RowsOf(w) : job[u].status # "none"

(* The row a job keeps while it waits for its next attempt.                 *)
RetryWait(row) ==
  [row EXCEPT !.status = "retry_wait", !.owner = NoWorker,
              !.due = FALSE, !.expired = FALSE]

(* Faulty variant: a sweep that skips the claims of a last attempt.         *)
ReadExpiredWithRetriesLeft(w) ==
  LET expired == {u \in Uploads : job[u].status = "running" /\ job[u].expired
                                  /\ job[u].attempt < MaxAttempts} IN
  /\ worker[w].pc = "idle"
  /\ expired # {}
  /\ seen' = [seen EXCEPT ![w] = JobsRead(expired)]
  /\ worker' = [worker EXCEPT ![w].pc = "requeue"]
  /\ UNCHANGED <<upload, job, request>>

ReadExpired(w) ==
  LET expired == {u \in Uploads : job[u].status = "running" /\ job[u].expired} IN
  /\ worker[w].pc = "idle"
  /\ expired # {}
  /\ seen' = [seen EXCEPT ![w] = JobsRead(expired)]
  /\ worker' = [worker EXCEPT ![w].pc = "requeue"]
  /\ UNCHANGED <<upload, job, request>>

(* Each job to be given up has its upload row read, in a query of its own.  *)
ReadUpload(w) ==
  \E r \in seen[w] :
    /\ worker[w].pc \in {"requeue", "settle"}
    /\ r.found = Unread
    /\ seen' = [seen EXCEPT ![w] =
                  (@ \ {r}) \cup {[r EXCEPT !.found = upload[r.upload].status]}]
    /\ UNCHANGED <<upload, job, worker, request>>

Exhausted(w) == {u \in RowsOf(w) : ReadOf(w, u).attempt >= MaxAttempts}

(* Faulty variant: a claim given up leaves its upload in "processing".      *)
GiveUpLeavesUpload(w) ==
  /\ RowsStillThere(w)
  /\ \A r \in seen[w] : r.found # Unread
  /\ job' = [u \in Uploads |->
               IF u \in Exhausted(w) THEN [job[u] EXCEPT !.status = "dead"]
               ELSE IF u \in RowsOf(w) THEN RetryWait(job[u])
               ELSE job[u]]
  /\ worker' = [worker EXCEPT ![w] = Idle]
  /\ seen' = [seen EXCEPT ![w] = {}]
  /\ UNCHANGED <<upload, request>>

(* The claims that were read are given up.  Out of attempts: dead, and an   *)
(* upload found in "processing" fails.  Otherwise retry_wait, and an upload *)
(* found "failed" goes back to "processing" so that it keeps blocking       *)
(* others.  The UPDATEs name the primary keys and the columns that changed, *)
(* so they overwrite whatever the rows hold by now.                         *)
GiveUp(w) ==
  /\ RowsStillThere(w)
  /\ \A r \in seen[w] : r.found # Unread
  /\ job' = [u \in Uploads |->
               IF u \in Exhausted(w) THEN [job[u] EXCEPT !.status = "dead"]
               ELSE IF u \in RowsOf(w) THEN RetryWait(job[u])
               ELSE job[u]]
  /\ upload' = [u \in Uploads |->
                  IF u \in Exhausted(w) /\ ReadOf(w, u).found = "processing"
                    THEN [upload[u] EXCEPT !.status = "failed"]
                  ELSE IF u \in RowsOf(w) \ Exhausted(w) /\ ReadOf(w, u).found = "failed"
                    THEN [upload[u] EXCEPT !.status = "processing"]
                  ELSE upload[u]]
  /\ worker' = [worker EXCEPT ![w] = Idle]
  /\ seen' = [seen EXCEPT ![w] = {}]
  /\ UNCHANGED request

WriteExpired(w) == worker[w].pc = "requeue" /\ GiveUp(w)

(* Faulty variant: the promotion looks at available_at only.                *)
ReadDueAnyStatus(w) ==
  LET due == {u \in Uploads : job[u].status \in {"retry_wait", "completed", "dead"}
                              /\ job[u].due} IN
  /\ worker[w].pc = "idle"
  /\ due # {}
  /\ seen' = [seen EXCEPT ![w] = JobsRead(due)]
  /\ worker' = [worker EXCEPT ![w].pc = "promote"]
  /\ UNCHANGED <<upload, job, request>>

(* A poll starts: if backed-off jobs are due they are read first.           *)
ReadDue(w) ==
  LET due == {u \in Uploads : job[u].status = "retry_wait" /\ job[u].due} IN
  /\ worker[w].pc = "idle"
  /\ due # {}
  /\ seen' = [seen EXCEPT ![w] = JobsRead(due)]
  /\ worker' = [worker EXCEPT ![w].pc = "promote"]
  /\ UNCHANGED <<upload, job, request>>

WriteDue(w) ==
  /\ worker[w].pc = "promote"
  /\ RowsStillThere(w)
  /\ job' = [u \in Uploads |->
               IF u \in RowsOf(w) THEN [job[u] EXCEPT !.status = "queued"]
               ELSE job[u]]
  /\ worker' = [worker EXCEPT ![w].pc = "claim"]
  /\ seen' = [seen EXCEPT ![w] = {}]
  /\ UNCHANGED <<upload, request>>

(* The write-back raises: a row is gone, or the database fails.             *)
WriteBackFails(w) ==
  /\ worker[w].pc \in {"requeue", "promote", "settle"}
  /\ ~RowsStillThere(w) \/ "db" \in Faults
  /\ worker' = [worker EXCEPT ![w] = Idle]
  /\ seen' = [seen EXCEPT ![w] = {}]
  /\ UNCHANGED <<upload, job, request>>

-----------------------------------------------------------------------------
(* The claim: FOR UPDATE SKIP LOCKED, one transaction.                      *)

Claimable ==
  {u \in Uploads : job[u].status = "queued" /\ job[u].due /\ job[u].attempt < MaxClaims}

(* The poll has nothing (more) to promote, see ReadDue.                     *)
ReadyToClaim(w) ==
  \/ worker[w].pc = "claim"
  \/ /\ worker[w].pc = "idle"
     /\ \A u \in Uploads : ~(job[u].status = "retry_wait" /\ job[u].due)

ClaimedRow(w, row) ==
  [status |-> "running", attempt |-> row.attempt + 1, owner |-> w,
   due |-> row.due, expired |-> FALSE]

(* Faulty variant: a retry runs without the reset.                          *)
ClaimJobWithoutReset(w) ==
  \E u \in Claimable :
    /\ ReadyToClaim(w)
    /\ job' = [job EXCEPT ![u] = ClaimedRow(w, job[u])]
    /\ worker' = [worker EXCEPT ![w] = [pc |-> "guard", at |-> u,
                    attempt |-> job[u].attempt + 1, lost |-> FALSE]]
    /\ UNCHANGED <<upload, seen, request>>

(* The first attempt goes straight to process_programme; a later one resets *)
(* the partial state first.                                                 *)
ClaimJob(w) ==
  \E u \in Claimable :
    /\ ReadyToClaim(w)
    /\ job' = [job EXCEPT ![u] = ClaimedRow(w, job[u])]
    /\ worker' = [worker EXCEPT ![w] =
                    [pc |-> IF job[u].attempt + 1 > 1 THEN "reset" ELSE "guard",
                     at |-> u, attempt |-> job[u].attempt + 1, lost |-> FALSE]]
    /\ UNCHANGED <<upload, seen, request>>

(* The claim commits, but reading the row back for the log line raises:     *)
(* _poll_once returns False and the job is left running without a thread.   *)
ClaimForgotten(w) ==
  \E u \in Claimable :
    /\ "db" \in Faults
    /\ ReadyToClaim(w)
    /\ job' = [job EXCEPT ![u] = ClaimedRow(w, job[u])]
    /\ worker' = [worker EXCEPT ![w] = Idle]
    /\ UNCHANGED <<upload, seen, request>>

(* Nothing to claim: the worker sleeps and polls again.                     *)
NothingToClaim(w) ==
  /\ ReadyToClaim(w)
  /\ Claimable = {}
  /\ worker' = [worker EXCEPT ![w] = Idle]
  /\ UNCHANGED <<upload, job, seen, request>>

-----------------------------------------------------------------------------
(* The claim's run: reset, process_programme, and the outcome.              *)

SetUpload(u, status) ==
  upload' = [upload EXCEPT ![u].status = IF Exists(u) THEN status ELSE @]

Goto(w, pc) == worker' = [worker EXCEPT ![w].pc = pc]

(* _poll_once's except clause: failure handling, unless the claim is lost.  *)
AfterError(w) ==
  worker' = [worker EXCEPT ![w] =
               IF worker[w].lost THEN Idle ELSE [@ EXCEPT !.pc = "failure"]]

ResetPartialState(w) ==
  LET u == worker[w].at IN
  /\ worker[w].pc = "reset"
  /\ upload' = [upload EXCEPT ![u].imports = 0]
  /\ Goto(w, "guard")
  /\ UNCHANGED <<job, seen, request>>

ResetFails(w) ==
  /\ "db" \in Faults
  /\ worker[w].pc = "reset"
  /\ AfterError(w)
  /\ UNCHANGED <<upload, job, seen, request>>

(* The processing guard: any other upload of the project in "processing",   *)
(* whether or not a job is still behind it.  The advisory lock's result is  *)
(* never looked at, so it does not appear here.                             *)
Conflicts(u) ==
  {v \in Uploads \ {u} : ProjectOf[v] = ProjectOf[u] /\ upload[v].status = "processing"}

EnterPipeline(w) ==
  LET u == worker[w].at IN
  /\ worker[w].pc = "guard"
  /\ Exists(u)
  /\ Conflicts(u) = {}
  /\ Goto(w, "parse")
  /\ UNCHANGED <<upload, job, seen, request>>

(* _commit_failed with project_processing_conflict.                         *)
RefuseConflict(w) ==
  LET u == worker[w].at IN
  /\ worker[w].pc = "guard"
  /\ Exists(u)
  /\ Conflicts(u) # {}
  /\ SetUpload(u, "failed")
  /\ Goto(w, "outcome")
  /\ UNCHANGED <<job, seen, request>>

(* The file cannot be read (as when its blob is gone) or parsed:            *)
(* _commit_failed, whatever the status was.                                 *)
ParseFails(w) ==
  /\ worker[w].pc = "parse"
  /\ SetUpload(worker[w].at, "failed")
  /\ Goto(w, "outcome")
  /\ UNCHANGED <<job, seen, request>>

(* Activities are inserted and committed before the AI classification.      *)
InsertActivities(w) ==
  LET u == worker[w].at IN
  /\ worker[w].pc = "parse"
  /\ Exists(u)
  /\ request[u].blob
  /\ upload' = [upload EXCEPT ![u].imports = @ + 1]
  /\ Goto(w, "classify")
  /\ UNCHANGED <<job, seen, request>>

(* The second transaction.  A row read as completed_with_warnings keeps     *)
(* that status; any other becomes committed, or completed_with_warnings     *)
(* when the work profiles could not be materialised.                        *)
CommitUpload(w) ==
  LET u == worker[w].at IN
  /\ worker[w].pc = "classify"
  /\ Exists(u)
  /\ \E status \in Readable :
       /\ upload[u].status = "completed_with_warnings" => status = upload[u].status
       /\ SetUpload(u, status)
  /\ Goto(w, "outcome")
  /\ UNCHANGED <<job, seen, request>>

(* Each re-read of the upload row may find it deleted: _run returns.        *)
UploadDisappeared(w) ==
  /\ worker[w].pc \in {"guard", "parse", "classify"}
  /\ ~Exists(worker[w].at)
  /\ Goto(w, "outcome")
  /\ UNCHANGED <<upload, job, seen, request>>

(* An exception, or a lost connection: _mark_failed_upload, which touches   *)
(* only an upload in "processing" and swallows its own failure.             *)
PipelineRaises(w) ==
  LET u == worker[w].at IN
  /\ worker[w].pc \in {"parse", "classify"} \/ (worker[w].pc = "guard" /\ "db" \in Faults)
  /\ \/ SetUpload(u, IF upload[u].status = "processing" THEN "failed" ELSE upload[u].status)
     \/ "db" \in Faults /\ UNCHANGED upload
  /\ Goto(w, "outcome")
  /\ UNCHANGED <<job, seen, request>>

(* Faulty variant: success is assumed when process_programme returns.       *)
CheckOutcomeAssumesSuccess(w) ==
  /\ worker[w].pc = "outcome"
  /\ IF worker[w].lost THEN worker' = [worker EXCEPT ![w] = Idle] ELSE Goto(w, "complete")
  /\ UNCHANGED <<upload, job, seen, request>>

(* After process_programme: abandon a lost claim, else read the status back.*)
CheckOutcome(w) ==
  LET u == worker[w].at IN
  /\ worker[w].pc = "outcome"
  /\ IF worker[w].lost THEN worker' = [worker EXCEPT ![w] = Idle]
     ELSE Goto(w, IF upload[u].status = "failed" THEN "failure" ELSE "complete")
  /\ UNCHANGED <<upload, job, seen, request>>

(* _get_upload_status raises.                                               *)
CheckOutcomeFails(w) ==
  /\ "db" \in Faults
  /\ worker[w].pc = "outcome"
  /\ ~worker[w].lost
  /\ AfterError(w)
  /\ UNCHANGED <<upload, job, seen, request>>

MarkCompleted(w) ==
  LET u == worker[w].at IN
  /\ worker[w].pc = "complete"
  /\ job' = [job EXCEPT ![u].status = IF Owns(w, u) THEN "completed" ELSE @]
  /\ worker' = [worker EXCEPT ![w] = Idle]
  /\ UNCHANGED <<upload, seen, request>>

(* Faulty variant: the attempts are counted one short.                      *)
ReadClaimOneShort(w) ==
  LET u == worker[w].at IN
  /\ worker[w].pc = "failure"
  /\ IF Owns(w, u)
       THEN /\ seen' = [seen EXCEPT ![w] =
                 {[upload |-> u, attempt |-> worker[w].attempt + 1, found |-> Unread]}]
            /\ Goto(w, "settle")
       ELSE UNCHANGED seen /\ worker' = [worker EXCEPT ![w] = Idle]
  /\ UNCHANGED <<upload, job, request>>

(* _handle_job_failure reads the job, and does nothing when the claim is no *)
(* longer this worker's.  What it decides on is the attempt it remembers.   *)
ReadClaim(w) ==
  LET u == worker[w].at IN
  /\ worker[w].pc = "failure"
  /\ IF Owns(w, u)
       THEN /\ seen' = [seen EXCEPT ![w] =
                 {[upload |-> u, attempt |-> worker[w].attempt, found |-> Unread]}]
            /\ Goto(w, "settle")
       ELSE UNCHANGED seen /\ worker' = [worker EXCEPT ![w] = Idle]
  /\ UNCHANGED <<upload, job, request>>

(* Its commit asks no more whose claim it is.                               *)
WriteFailure(w) == worker[w].pc = "settle" /\ GiveUp(w)

(* The last write raises; the exception is logged and the job stays running.*)
SettleFails(w) ==
  /\ "db" \in Faults
  /\ worker[w].pc \in {"complete", "failure"}
  /\ worker' = [worker EXCEPT ![w] = Idle]
  /\ UNCHANGED <<upload, job, seen, request>>

(* The process dies with its claim; its uncommitted work is rolled back.  A *)
(* crash between claims leaves nothing behind, and the process that is      *)
(* started next uses a fresh id: no thread of the old one is left, so the   *)
(* model gives both the same name.                                          *)
Crash(w) ==
  /\ "crash" \in Faults
  /\ worker[w].at # NoUpload
  /\ worker' = [worker EXCEPT ![w] = Idle]
  /\ seen' = [seen EXCEPT ![w] = {}]
  /\ UNCHANGED <<upload, job, request>>

-----------------------------------------------------------------------------
Serve(u) ==
  \/ StoreBlob(u)   \/ LockProject(u) \/ RejectUnderLock(u) \/ InsertUpload(u)
  \/ InsertFails(u) \/ RequestDies(u) \/ BeginDelete(u)     \/ DeleteRows(u)
  \/ DeleteFails(u)

Time(u) == BackoffElapses(u) \/ HeartbeatExpires(u)

Poll(w) ==
  \/ ReadExpired(w) \/ ReadUpload(w) \/ WriteExpired(w) \/ ReadDue(w) \/ WriteDue(w)
  \/ WriteBackFails(w) \/ ClaimJob(w) \/ ClaimForgotten(w) \/ NothingToClaim(w)

Run(w) ==
  \/ Heartbeat(w) \/ HeartbeatFails(w) \/ Crash(w)
  \/ ResetPartialState(w) \/ ResetFails(w)
  \/ EnterPipeline(w) \/ RefuseConflict(w)
  \/ ParseFails(w) \/ InsertActivities(w) \/ CommitUpload(w)
  \/ UploadDisappeared(w) \/ PipelineRaises(w)
  \/ CheckOutcome(w) \/ CheckOutcomeFails(w)
  \/ MarkCompleted(w) \/ ReadClaim(w) \/ WriteFailure(w) \/ SettleFails(w)

Next ==
  \/ \E u \in Uploads : Serve(u) \/ Time(u)
  \/ \E w \in Workers : Poll(w) \/ Run(w)

Spec == Init /\ [][Next]_vars

(***************************************************************************)
(* Fairness.  A worker process polls and works for as long as it lives, and *)
(* Railway restarts it when it dies (which the model's Crash includes);     *)
(* time passes; nothing is assumed of clients.  ReadExpired is disabled     *)
(* while the worker polls and runs, but _polls_since_requeue forces it      *)
(* every claim_ttl // poll polls: strong fairness.                          *)
(***************************************************************************)
WorkerStep(w) ==
  \/ ReadUpload(w) \/ WriteExpired(w) \/ ReadDue(w) \/ WriteDue(w) \/ WriteBackFails(w)
  \/ ClaimJob(w) \/ NothingToClaim(w)
  \/ ResetPartialState(w) \/ EnterPipeline(w) \/ RefuseConflict(w)
  \/ ParseFails(w) \/ InsertActivities(w) \/ CommitUpload(w)
  \/ UploadDisappeared(w) \/ PipelineRaises(w)
  \/ CheckOutcome(w) \/ MarkCompleted(w) \/ ReadClaim(w) \/ WriteFailure(w)

Fairness ==
  /\ \A u \in Uploads : WF_vars(Time(u))
  /\ \A w \in Workers : WF_vars(WorkerStep(w)) /\ SF_vars(ReadExpired(w))

FairSpec == Spec /\ Fairness

-----------------------------------------------------------------------------
(***************************************************************************)
(* Properties.                                                             *)
(***************************************************************************)

(* While a job still waits for an attempt its upload is not "failed": the   *)
(* status polls would report a failure, and the overlap checks would let a  *)
(* second upload in, for work that is going to be retried.                  *)
WaitingNotFailed ==
  \A u \in Uploads :
    job[u].status \in {"queued", "retry_wait"} => upload[u].status # "failed"

(* A job is marked completed only for an upload that did not fail.          *)
CompletedNotFailed ==
  \A u \in Uploads : job[u].status = "completed" => upload[u].status # "failed"

(* The attempts a job is given never exceed max_attempts, however workers   *)
(* crash, lose heartbeats or fail to record an outcome.                     *)
AttemptsBounded ==
  \A u \in Uploads : job[u].attempt <= MaxAttempts

(* process_programme never starts on an upload that still has activities of *)
(* an earlier attempt, so no activity is ever imported twice.               *)
NeverDirty ==
  /\ \A w \in Workers : worker[w].pc \in {"guard", "parse"} => upload[worker[w].at].imports = 0
  /\ \A u \in Uploads : upload[u].imports <= 1

(* While no web process dies, no blob is left behind: every stored blob     *)
(* belongs to an upload row or to a request in flight, also when the        *)
(* re-check under the project lock or the insert fails.  And no upload      *)
(* meets its first attempt without its file.                                *)
NoOrphanBlobs ==
  \A u \in Uploads :
    /\ request[u].blob => \/ request[u].phase \in {"stored", "locked"}
                          \/ Exists(u) /\ request[u].phase # "deleting"
    /\ Exists(u) /\ job[u].attempt = 0 => request[u].blob

(* Once a job is settled it stays settled, and a programme it committed     *)
(* stays readable with the activities it had: only deletion takes it away.  *)
Settled(u) == job[u].status \in {"completed", "dead"}
SettledIsFinal ==
  [][\A u \in Uploads :
       Settled(u) /\ job[u]'.status # "none"
         => /\ job[u]'.status = job[u].status
            /\ upload[u].status \in Readable => upload[u]' = upload[u]]_vars

(* Seen as jobs only, one worker process is a durable queue.                *)
PhaseOf(u) ==
  CASE job[u].status \in {"queued", "retry_wait"} -> "open"
    [] job[u].status = "running"   -> "held"
    [] job[u].status = "completed" -> "done"
    [] job[u].status = "dead"      -> "buried"
    [] OTHER -> IF upload[u].status = "deleted" THEN "gone" ELSE "none"

Queue == INSTANCE DurableQueue WITH
  Jobs  <- Uploads,
  Limit <- MaxAttempts,
  tries <- [u \in Uploads |-> job[u].attempt],
  phase <- [u \in Uploads |-> PhaseOf(u)]

(* With one worker, jobs are taken at most max_attempts times, dead-lettered*)
(* only when every attempt is used up, and never reopened once settled.     *)
QueueSpec == Queue!Spec

(* Every job that is queued is eventually completed or dead-lettered, or    *)
(* its upload is deleted.                                                   *)
EveryJobSettles ==
  \A u \in Uploads : job[u].status = "queued" ~> job[u].status \notin ActiveJob

(***************************************************************************)
(* Why one worker process is safe: its reads cannot go stale.  What it      *)
(* holds a claim on is running under its id with the attempt it remembers,  *)
(* what its sweep read as running is still running, what it read as due is  *)
(* still waiting, and an upload row is still what it was found to be,       *)
(* unless the upload was deleted in between.                                *)
(***************************************************************************)
Inserted(u) == request[u].phase \in {"accepted", "deleting"}

ClaimIsCurrent(w) ==
  LET u == worker[w].at IN
  /\ worker[w].pc \in PollPc <=> u = NoUpload
  /\ u # NoUpload =>
       /\ Inserted(u)
       /\ \/ job[u].status = "none"
          \/ Owns(w, u) /\ job[u].attempt = worker[w].attempt

ReadsAreCurrent(w) ==
  \A r \in seen[w] :
    /\ Inserted(r.upload)
    /\ worker[w].pc \in {"requeue", "promote", "settle"}
    /\ \/ job[r.upload].status = "none"
       \/ /\ job[r.upload].attempt = r.attempt
          /\ job[r.upload].status =
               IF worker[w].pc = "promote" THEN "retry_wait" ELSE "running"
          /\ r.found \in {Unread, upload[r.upload].status}

RowIsConsistent(u) ==
  /\ job[u].attempt <= MaxAttempts
  /\ job[u].status \in {"queued", "retry_wait"} =>
       job[u].attempt < MaxAttempts /\ upload[u].status # "failed"
  /\ job[u].status = "completed" => upload[u].status # "failed"
  /\ job[u].status = "none" => job[u].attempt = 0 /\ ~Exists(u)
  /\ job[u].attempt = 0 =>
       job[u].status \in {"none", "queued"} /\ upload[u].imports = 0
  /\ upload[u].imports <= 1
  /\ upload[u].status = "processing" =>
       job[u].status \in ActiveJob \/ ("db" \in Faults /\ job[u].status = "completed")
  /\ Inserted(u) <=> upload[u].status # "absent"
  /\ ~Inserted(u) => job[u].status = "none"

RunIsConsistent(w) ==
  LET u == worker[w].at IN
  /\ worker[w].pc \in {"guard", "parse"} => upload[u].imports = 0
  /\ worker[w].pc = "complete" => upload[u].status # "failed"
  /\ "db" \notin Faults /\ worker[w].pc \in {"outcome", "complete"} =>
       upload[u].status # "processing"

OneWorkerInv ==
  /\ \A w \in Workers : ClaimIsCurrent(w) /\ ReadsAreCurrent(w) /\ RunIsConsistent(w)
  /\ \A u \in Uploads : RowIsConsistent(u)

(* However many workers race and stall, a job is completed only by the      *)
(* worker that holds its claim, in the attempt it was claimed for, and no   *)
(* job is dead-lettered, by its worker or by a sweep, on a read however     *)
(* old, while it has attempts left.                                         *)
OnlyOwnerSettles ==
  [][\A u \in Uploads :
       /\ job[u].status # "completed" /\ job'[u].status = "completed" =>
            \E w \in Workers : /\ Owns(w, u) /\ worker[w].at = u
                              /\ worker[w].attempt = job[u].attempt
                              /\ worker'[w] = Idle
       /\ job[u].status # "dead" /\ job'[u].status = "dead" =>
            job[u].attempt >= MaxAttempts]_vars

(* README, "Programmes": stale processing uploads never keep a project      *)
(* blocked forever.  No recovery sweep runs, so that needs a live job       *)
(* behind every upload in "processing": with one worker, whatever crashes,  *)
(* expires or is dead-lettered, the one way to lose it is a database that   *)
(* fails _mark_failed_upload, after which the job is completed.             *)
ProcessingHasJob ==
  \A u \in Uploads : upload[u].status = "processing" =>
    job[u].status \in ActiveJob \/ ("db" \in Faults /\ job[u].status = "completed")

=============================================================================
