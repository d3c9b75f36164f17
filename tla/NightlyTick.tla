---------------------------- MODULE NightlyTick ----------------------------
(***************************************************************************)
(* The nightly tick (app/worker/nightly_tick.py).  Cron starts a process   *)
(* every five minutes; once the evening's hour has come the process that   *)
(* gets a session-level advisory lock runs the lookahead of the day, then  *)
(* feature learning, and records both in the table scheduled_job_runs.     *)
(*                                                                         *)
(* The lock belongs to a database connection, and every commit gives the   *)
(* connection back to a pool that replaces it when it is five minutes old  *)
(* or found dead (core/database.py): a process can lose the lock and not   *)
(* know.                                                                   *)
(***************************************************************************)
EXTENDS Naturals

CONSTANTS
  Ticks,      \* the processes that can be alive together
  Days,       \* the days are 1 .. Days
  Faults,     \* "crash", "db": a statement fails, "recycle": a lock is lost
  MaxFaults   \* bounds the faults of a behaviour

NoTick == "no tick"

ASSUME TickAssumption ==
  /\ NoTick \notin Ticks
  /\ Days \in Nat \ {0}
  /\ Faults \subseteq {"crash", "db", "recycle"}
  /\ MaxFaults \in Nat

VARIABLES
  clock,      \* the local date, and whether the configured hour has passed
  lookahead,  \* scheduled_job_runs of nightly_lookahead: day -> status
  learning,   \* scheduled_job_runs of nightly_feature_learning
  tick,       \* the processes
  lock,       \* the process whose connection holds the advisory lock
  contested,  \* days on which a process lost its lock (history)
  faults      \* faults so far

vars == <<clock, lookahead, learning, tick, lock, contested, faults>>

(* "none": there is no row, by the unique constraint there is at most one.  *)
RunStatus == {"none", "running", "succeeded", "failed"}

(* Before the first commit of a process its connection is never replaced.   *)
Deciding == {"check", "reopen", "insert", "stale"}
Committed == {"reset", "run", "succeed", "partial", "raised", "spoiled"}
Learning == {"learn", "learn again", "learn first", "learning", "learned", "not learned"}
Running == {"run", "learning"}
Holding == Deciding \cup Committed \cup Learning \cup {"unlock"}

Idle == [pc |-> "idle", day |-> 0]

TypeOK ==
  /\ clock \in [day : 1 .. Days, due : BOOLEAN]
  /\ lookahead \in [1 .. Days -> RunStatus]
  /\ learning \in [1 .. Days -> RunStatus]
  /\ tick \in [Ticks -> [pc : {"idle", "lock"} \cup Holding, day : 0 .. Days]]
  /\ lock \in Ticks \cup {NoTick}
  /\ contested \subseteq 1 .. Days
  /\ faults \in 0 .. MaxFaults

Init ==
  /\ clock = [day |-> 1, due |-> FALSE]
  /\ lookahead = [d \in 1 .. Days |-> "none"]
  /\ learning = [d \in 1 .. Days |-> "none"]
  /\ tick = [t \in Ticks |-> Idle]
  /\ lock = NoTick
  /\ contested = {}
  /\ faults = 0

-----------------------------------------------------------------------------
(* Time and cron.                                                           *)

Evening ==
  /\ ~clock.due
  /\ clock' = [clock EXCEPT !.due = TRUE]
  /\ UNCHANGED <<lookahead, learning, tick, lock, contested, faults>>

Midnight ==
  /\ clock.due
  /\ clock.day < Days
  /\ clock' = [day |-> clock.day + 1, due |-> FALSE]
  /\ UNCHANGED <<lookahead, learning, tick, lock, contested, faults>>

(* A process that finds the run not yet due exits at once.  The date is     *)
(* read once, for the whole run.                                            *)
Start(t) ==
  /\ tick[t] = Idle
  /\ clock.due
  /\ tick' = [tick EXCEPT ![t] = [pc |-> "lock", day |-> clock.day]]
  /\ UNCHANGED <<clock, lookahead, learning, lock, contested, faults>>

-----------------------------------------------------------------------------
(* The run of the lookahead.                                                *)

Goto(t, pc) == tick' = [tick EXCEPT ![t].pc = pc]

(* A step of t from one program counter to another that writes no row.      *)
Move(t, from, to) ==
  /\ tick[t].pc = from
  /\ Goto(t, to)
  /\ UNCHANGED <<clock, lookahead, learning, lock, contested, faults>>

(* A transaction of t that writes its row of the lookahead.                 *)
Record(t, from, status, to) ==
  /\ tick[t].pc = from
  /\ lookahead' = [lookahead EXCEPT ![tick[t].day] = status]
  /\ Goto(t, to)
  /\ UNCHANGED <<clock, learning, lock, contested, faults>>

RecordLearning(t, from, status, to) ==
  /\ tick[t].pc = from
  /\ learning' = [learning EXCEPT ![tick[t].day] = status]
  /\ Goto(t, to)
  /\ UNCHANGED <<clock, lookahead, lock, contested, faults>>

(* Faulty variant: the answer of pg_try_advisory_lock is not looked at.     *)
TryLockUnread(t) ==
  /\ tick[t].pc = "lock"
  /\ lock' = IF lock = NoTick THEN t ELSE lock
  /\ Goto(t, "check")
  /\ UNCHANGED <<clock, lookahead, learning, contested, faults>>

TryLock(t) ==
  /\ tick[t].pc = "lock"
  /\ \/ lock = NoTick /\ lock' = t /\ Goto(t, "check")
     \/ lock # NoTick /\ lock' = lock /\ tick' = [tick EXCEPT ![t] = Idle]
  /\ UNCHANGED <<clock, lookahead, learning, contested, faults>>

(* Faulty variant: a run of the day that failed is not repeated.            *)
AfterCheckOnce(status) ==
  CASE status = "succeeded" -> "unlock"
    [] status = "failed"    -> "unlock"
    [] status = "running"   -> "stale"
    [] status = "none"      -> "insert"

(* Faulty variant: a row that is still running is left alone.               *)
AfterCheckPatient(status) ==
  CASE status \in {"succeeded", "running"} -> "unlock"
    [] status = "failed"    -> "reopen"
    [] status = "none"      -> "insert"

(* Faulty variant: a run of the day that succeeded is repeated.             *)
AfterCheckAlways(status) ==
  CASE status \in {"succeeded", "failed"} -> "reopen"
    [] status = "running"   -> "stale"
    [] status = "none"      -> "insert"

AfterCheck(status) ==
  CASE status = "succeeded" -> "unlock"
    [] status = "failed"    -> "reopen"
    [] status = "running"   -> "stale"
    [] status = "none"      -> "insert"

Check(t) ==
  /\ tick[t].pc = "check"
  /\ Move(t, "check", AfterCheck(lookahead[tick[t].day]))

Reopen(t) == Record(t, "reopen", "running", "run")
InsertRun(t) == Record(t, "insert", "running", "run")

(* A row that is still running is recorded as failed, then reset.           *)
MarkStale(t) == Record(t, "stale", "failed", "reset")
ResetRun(t) == Record(t, "reset", "running", "run")

(* nightly_lookahead_job: all projects, all but some, or an exception.      *)
RunLookahead(t) == \E outcome \in {"succeed", "partial", "raised"} : Move(t, "run", outcome)

RecordSuccess(t) == Record(t, "succeed", "succeeded", "learn")
RecordPartial(t) == Record(t, "partial", "failed", "unlock")
RecordException(t) == \E from \in {"raised", "spoiled"} : Record(t, from, "failed", "unlock")

-----------------------------------------------------------------------------
(* Feature learning, called by a run that has recorded its success.         *)

LearningCheck(t) ==
  /\ tick[t].pc = "learn"
  /\ LET status == learning[tick[t].day] IN
     \/ status = "succeeded" /\ Move(t, "learn", "unlock")
     \/ status \in {"running", "failed"} /\ Move(t, "learn", "learn again")
     \/ status = "none" /\ Move(t, "learn", "learn first")

LearnAgain(t) == RecordLearning(t, "learn again", "running", "learning")

(* A row inserted meanwhile violates the unique constraint: the call        *)
(* returns.                                                                 *)
LearnFirst(t) ==
  /\ tick[t].pc = "learn first"
  /\ \/ learning[tick[t].day] = "none" /\ RecordLearning(t, "learn first", "running", "learning")
     \/ learning[tick[t].day] # "none" /\ Move(t, "learn first", "unlock")

RunLearning(t) == \E outcome \in {"learned", "not learned"} : Move(t, "learning", outcome)

RecordLearned(t) == RecordLearning(t, "learned", "succeeded", "unlock")
RecordNotLearned(t) == RecordLearning(t, "not learned", "failed", "unlock")

-----------------------------------------------------------------------------
(* The end of a process, and faults.                                        *)

(* Whatever pg_advisory_unlock returns, the process ends and PostgreSQL     *)
(* closes its connections.                                                  *)
Exit(t) ==
  /\ tick' = [tick EXCEPT ![t] = Idle]
  /\ lock' = IF lock = t THEN NoTick ELSE lock

Unlock(t) ==
  /\ tick[t].pc = "unlock"
  /\ Exit(t)
  /\ UNCHANGED <<clock, lookahead, learning, contested, faults>>

Fault(kind) ==
  /\ kind \in Faults
  /\ faults < MaxFaults
  /\ faults' = faults + 1

Crash(t) ==
  /\ Fault("crash")
  /\ tick[t] # Idle
  /\ Exit(t)
  /\ UNCHANGED <<clock, lookahead, learning, contested>>

(* Where a failing statement leads.  Of feature learning, only the insert   *)
(* and what follows it is inside a try of its own.                          *)
AfterError(pc) ==
  CASE pc \in Deciding \cup {"lock", "reset", "raised", "spoiled"} -> "unlock"
    [] pc \in {"succeed", "partial"} -> "raised"
    [] pc \in {"learn", "learn again"} -> "spoiled"
    [] pc = "learned" -> "not learned"
    [] pc \in {"learn first", "not learned"} -> "unlock"

DatabaseFails(t) ==
  /\ Fault("db")
  /\ tick[t].pc \notin {"idle", "unlock"} \cup Running
  /\ Goto(t, AfterError(tick[t].pc))
  /\ UNCHANGED <<clock, lookahead, learning, lock, contested>>

(* The pool replaces the connection that took the lock.                     *)
LoseLock(t) ==
  /\ Fault("recycle")
  /\ lock = t
  /\ tick[t].pc \in Committed \cup Learning
  /\ lock' = NoTick
  /\ contested' = contested \cup {tick[t].day}
  /\ UNCHANGED <<clock, lookahead, learning, tick>>

-----------------------------------------------------------------------------
Proceed(t) ==
  \/ TryLock(t)
  \/ Check(t)
  \/ Reopen(t)
  \/ InsertRun(t)
  \/ MarkStale(t)
  \/ ResetRun(t)
  \/ RunLookahead(t)
  \/ RecordSuccess(t)
  \/ RecordPartial(t)
  \/ RecordException(t)
  \/ LearningCheck(t)
  \/ LearnAgain(t)
  \/ LearnFirst(t)
  \/ RunLearning(t)
  \/ RecordLearned(t)
  \/ RecordNotLearned(t)
  \/ Unlock(t)

Break(t) == Crash(t) \/ DatabaseFails(t) \/ LoseLock(t)

Next ==
  \/ Evening
  \/ Midnight
  \/ \E t \in Ticks : Start(t) \/ Proceed(t) \/ Break(t)

Spec == Init /\ [][Next]_vars

(* Cron starts processes, and a process runs to its end.                    *)
Fairness == \A t \in Ticks : WF_vars(Start(t)) /\ WF_vars(Proceed(t))

FairSpec == Spec /\ Fairness

-----------------------------------------------------------------------------
(* Properties.                                                              *)

(* The advisory lock keeps two processes from computing at the same time,   *)
(* unless one of them lost it without knowing.                              *)
RunsExclusive ==
  \A t, u \in Ticks :
    t # u /\ tick[t].pc \in Running /\ tick[u].pc \in Running
      => {tick[t].day, tick[u].day} \cap contested # {}

(* What a process saw of its day's row is still true when it acts on it: an *)
(* inductive invariant of the days on which no lock was lost.               *)
HoldsLock(t) ==
  tick[t].pc \in Holding \ {"unlock"} => lock = t \/ tick[t].day \in contested

RowFits(pc, row) ==
  CASE pc = "stale" -> row = "running"
    [] pc \in {"reopen", "reset"} -> row = "failed"
    [] pc = "insert" -> row = "none"
    [] pc \in {"run", "succeed", "partial", "raised"} -> row = "running"
    [] pc \in Learning \cup {"spoiled"} -> row = "succeeded"
    [] OTHER -> TRUE

LedgerInv ==
  \A t \in Ticks :
    /\ HoldsLock(t)
    /\ lock = t => tick[t].pc \in Holding
    /\ tick[t].pc # "idle" => tick[t].day \in 1 .. clock.day
    /\ tick[t].day \in 1 .. Days \ contested => RowFits(tick[t].pc, lookahead[tick[t].day])

(* A day whose lookahead succeeded is not run again, except that an error   *)
(* in the bookkeeping of feature learning turns the success into a failure. *)
SuccessIsFinal ==
  [][\A d \in 1 .. Days :
       lookahead[d] = "succeeded" /\ lookahead'[d] # "succeeded" =>
         \/ d \in contested
         \/ \E t \in Ticks : tick[t] = [pc |-> "spoiled", day |-> d]]_vars

(* While its day lasts, a run that is recorded as running does not stay so  *)
(* for ever, whatever became of the process.                                *)
RunsAreSettled ==
  \A d \in 1 .. Days :
    clock.day = d /\ lookahead[d] = "running" ~> lookahead[d] # "running" \/ clock.day # d

(* While its day lasts, a failed run is repeated.                           *)
FailuresAreRetried ==
  \A d \in 1 .. Days :
    clock.day = d /\ lookahead[d] = "failed" ~> lookahead[d] # "failed" \/ clock.day # d

(* nightly_tick.py 175-176: "We hold the advisory lock, so a running row    *)
(* means the previous instance crashed": no run is declared stale while its *)
(* process is at work.                                                      *)
StaleRunsHaveCrashed ==
  [][\A t, u \in Ticks :
       tick[t].pc = "stale" /\ tick'[t].pc = "reset" /\ u # t
         => ~(tick[u].pc = "run" /\ tick[u].day = tick[t].day)]_vars

=============================================================================
