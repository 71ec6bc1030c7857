--------------------------- MODULE BatchExecution ---------------------------
(***************************************************************************)
(* runBatchJob (src/server/batch/run-batch-job.ts): the wrapper every      *)
(* scheduled script runs in.  An invocation takes a Postgres session       *)
(* advisory lock on its lock key, enters a RUNNING row under a unique      *)
(* execution key, runs the job body while a heartbeat loop refreshes the   *)
(* row, then writes SUCCEEDED or FAILED and releases the lock.  A process  *)
(* may die at any point; batch:recover-stale closes rows whose heartbeat   *)
(* is too old.                                                             *)
(*                                                                         *)
(* The unit of time is BATCH_HEARTBEAT_INTERVAL_MS.  Timestamps are        *)
(* modelled by their age in those units, so no clock grows without bound.  *)
(* Named timing assumption (StatementInFlight): a database statement ends  *)
(* or fails within one unit.  A heartbeat tick may fail or be late any     *)
(* number of times.                                                        *)
(***************************************************************************)
EXTENDS Integers

CONSTANTS Invocations,   \* one element per call of runBatchJob
          Jobs,          \* job names
          Windowed,      \* the jobs of cadence "hourly" or "daily"
          StaleUnits,    \* STALE_BATCH_HEARTBEAT_MINUTES, in heartbeat intervals
          MaxWindow,     \* bound: calendar windows that are distinguished
          NoKey          \* no lock held, or no row

ASSUME WindowedAssumption == Windowed \subseteq Jobs
(* batch-heartbeat-timing.ts refuses to load when the interval is more     *)
(* than a third of the stale threshold.                                    *)
ASSUME StaleAssumption == StaleUnits \in Nat /\ StaleUnits >= 3
ASSUME WindowAssumption == MaxWindow \in Nat

VARIABLES window,        \* the current calendar window
          request,       \* request[i]: job, force flag and the window of `now`
          pc,            \* pc[i]: where invocation i is in runBatchJob
          held,          \* held[i]: the advisory lock key i's session holds
          status,        \* status[i]: the BatchExecution row entered by i
          heartbeatAge,  \* heartbeatAge[i]: time since heartbeatAt of a RUNNING
                         \* row, saturating; 0 for any other row
          beat,          \* beat[i]: state of i's heartbeat loop
          missed,        \* missed[i]: consecutive ticks without a write (history)
          result         \* result[i]: what the job body returned

vars == <<window, request, pc, held, status, heartbeatAge, beat, missed, result>>

Request == [job : Jobs, force : BOOLEAN, window : 0..MaxWindow]

(* Mutant: the key is that of the next window.                             *)
NextLockKey(r) ==
    IF r.job \in Windowed THEN <<r.job, r.window + 1>> ELSE <<r.job>>

(* buildLockKey: "instant" jobs lock on the name, the others on name and   *)
(* window.                                                                 *)
LockKey(r) ==
    IF r.job \in Windowed THEN <<r.job, r.window>> ELSE <<r.job>>

LockKeys == (Jobs \X (0..MaxWindow)) \cup {<<j>> : j \in Jobs}

(* buildExecutionKey, with the ":forced:<uuid>" suffix of runBatchJob: the *)
(* timestamp of an instant job and the uuid of a forced one are the        *)
(* invocation itself.                                                      *)
ExecutionKey(i) ==
    LET r == request[i] IN
    IF r.job \in Windowed /\ ~r.force
    THEN <<r.job, "window", r.window>>
    ELSE <<r.job, "unique", i>>

ExecutionKeys == (Jobs \X {"window"} \X (0..MaxWindow))
                   \cup (Jobs \X {"unique"} \X Invocations)

ASSUME NoKeyAssumption == NoKey \notin LockKeys \cup ExecutionKeys

Locking   == {"creating", "running", "stopping", "finishing", "releasing"}
Executing == {"running", "stopping", "finishing"}
Terminal  == {"SUCCEEDED", "FAILED"}

TypeOK ==
    /\ window \in 0..MaxWindow
    /\ request \in [Invocations -> Request]
    /\ pc \in [Invocations -> {"idle", "locking", "done", "crashed"} \cup Locking]
    /\ status \in [Invocations -> {"none", "RUNNING"} \cup Terminal]
    /\ heartbeatAge \in [Invocations -> 0..(StaleUnits + 1)]
    /\ beat \in [Invocations -> {"off", "armed", "due", "writing"}]
    /\ missed \in [Invocations -> 0..StaleUnits]
    /\ result \in [Invocations -> {"none", "ok", "error"}]
    /\ held \in [Invocations -> LockKeys \cup {NoKey}]

Init ==
    /\ window = 0
    /\ request \in [Invocations -> {r \in [job : Jobs, force : BOOLEAN, window : {0}] :
                                      r.force => r.job \in Windowed}]
    /\ pc = [i \in Invocations |-> "idle"]
    /\ held = [i \in Invocations |-> NoKey]
    /\ status = [i \in Invocations |-> "none"]
    /\ heartbeatAge = [i \in Invocations |-> 0]
    /\ beat = [i \in Invocations |-> "off"]
    /\ missed = [i \in Invocations |-> 0]
    /\ result = [i \in Invocations |-> "none"]

------------------------------------------------------------------------------
(* The invocation's own steps.                                             *)

(* `now` is read, and both keys derived from it, before anything else.     *)
Invoke(i) ==
    /\ pc[i] = "idle"
    /\ pc' = [pc EXCEPT ![i] = "locking"]
    /\ request' = [request EXCEPT ![i].window = window]
    /\ UNCHANGED <<window, held, status, heartbeatAge, beat, missed, result>>

(* Mutant: the result of pg_try_advisory_lock is not looked at.            *)
AcquireLockUnchecked(i) ==
    /\ pc[i] = "locking"
    /\ held' = [held EXCEPT ![i] = LockKey(request[i])]
    /\ pc' = [pc EXCEPT ![i] = "creating"]
    /\ UNCHANGED <<window, request, status, heartbeatAge, beat, missed, result>>

(* pg_try_advisory_lock on a session of its own: never waits.              *)
AcquireLock(i) ==
    /\ pc[i] = "locking"
    /\ \A j \in Invocations : held[j] # LockKey(request[i])
    /\ held' = [held EXCEPT ![i] = LockKey(request[i])]
    /\ pc' = [pc EXCEPT ![i] = "creating"]
    /\ UNCHANGED <<window, request, status, heartbeatAge, beat, missed, result>>

(* Another session holds the key, or the connection failed.                *)
SkipLocked(i) ==
    /\ pc[i] = "locking"
    /\ pc' = [pc EXCEPT ![i] = "done"]
    /\ UNCHANGED <<window, request, held, status, heartbeatAge, beat, missed, result>>

KeyTaken(i) ==
    \E j \in Invocations : status[j] # "none" /\ ExecutionKey(j) = ExecutionKey(i)

(* createRunningBatchExecution with heartbeatAt = startedAt = now, then    *)
(* startBatchHeartbeatLoop arms the first tick.  `now` was read before the *)
(* lock and the insert, both within the current unit of time: age 0.       *)
CreateRow(i) ==
    /\ pc[i] = "creating"
    /\ ~KeyTaken(i)
    /\ status' = [status EXCEPT ![i] = "RUNNING"]
    /\ heartbeatAge' = [heartbeatAge EXCEPT ![i] = 0]
    /\ beat' = [beat EXCEPT ![i] = "armed"]
    /\ pc' = [pc EXCEPT ![i] = "running"]
    /\ UNCHANGED <<window, request, held, missed, result>>

(* The unique constraint on executionKey fires (skipped), or the insert    *)
(* fails (the error is rethrown): either way only the lock is released.    *)
CreateRejected(i) ==
    /\ pc[i] = "creating"
    /\ pc' = [pc EXCEPT ![i] = "releasing"]
    /\ UNCHANGED <<window, request, held, status, heartbeatAge, beat, missed, result>>

(* The job body returns or throws; `finally` begins heartbeatLoop.stop(),  *)
(* which clears the timer but not a write already in flight.               *)
BodySettles(i) ==
    /\ pc[i] = "running"
    /\ pc' = [pc EXCEPT ![i] = "stopping"]
    /\ \E r \in {"ok", "error"} : result' = [result EXCEPT ![i] = r]
    /\ beat' = [beat EXCEPT ![i] = IF @ = "writing" THEN @ ELSE "off"]
    /\ UNCHANGED <<window, request, held, status, heartbeatAge, missed>>

(* Mutant: stop() does not await the write in flight.                      *)
StopLoopWithoutAwait(i) ==
    /\ pc[i] = "stopping"
    /\ pc' = [pc EXCEPT ![i] = "finishing"]
    /\ UNCHANGED <<window, request, held, status, heartbeatAge, beat, missed, result>>

(* `await inFlight`: stop() resolves once no heartbeat write is pending.   *)
StopLoop(i) ==
    /\ pc[i] = "stopping"
    /\ beat[i] = "off"
    /\ pc' = [pc EXCEPT ![i] = "finishing"]
    /\ UNCHANGED <<window, request, held, status, heartbeatAge, beat, missed, result>>

(* Rows of S, all RUNNING, take a terminal status.                         *)
CloseRows(S, outcome) ==
    /\ status' = [i \in Invocations |-> IF i \in S THEN outcome ELSE status[i]]
    /\ heartbeatAge' = [i \in Invocations |-> IF i \in S THEN 0 ELSE heartbeatAge[i]]

(* Mutant: update by id, without `status: RUNNING` in the WHERE clause.     *)
UnguardedMark(i, outcome) == CloseRows({i}, outcome)

(* markBatchExecutionSucceeded / Failed: updateMany guarded by RUNNING.    *)
GuardedMark(i, outcome) ==
    CloseRows({j \in {i} : status[j] = "RUNNING"}, outcome)

(* What a finished call leaves behind: the row, and nothing in memory.     *)
Forget(i) == /\ missed' = [missed EXCEPT ![i] = 0]
             /\ result' = [result EXCEPT ![i] = "none"]

MarkSucceeded(i) ==
    /\ pc[i] = "finishing" /\ result[i] = "ok"
    /\ GuardedMark(i, "SUCCEEDED")
    /\ pc' = [pc EXCEPT ![i] = "releasing"]
    /\ UNCHANGED <<window, request, held, beat, missed, result>>

(* The SUCCEEDED write throws, before or after it took effect; the catch   *)
(* block then records the run as failed.                                   *)
MarkSucceededThrows(i) ==
    /\ pc[i] = "finishing" /\ result[i] = "ok"
    /\ GuardedMark(i, "SUCCEEDED") \/ UNCHANGED <<status, heartbeatAge>>
    /\ result' = [result EXCEPT ![i] = "error"]
    /\ UNCHANGED <<window, request, pc, held, beat, missed>>

(* markBatchExecutionFailed; when it throws too, the row may stay RUNNING. *)
MarkFailed(i) ==
    /\ pc[i] = "finishing" /\ result[i] = "error"
    /\ GuardedMark(i, "FAILED") \/ UNCHANGED <<status, heartbeatAge>>
    /\ pc' = [pc EXCEPT ![i] = "releasing"]
    /\ UNCHANGED <<window, request, held, beat, missed, result>>

(* `finally { await lock.release() }`: the session is closed either way.   *)
ReleaseLock(i) ==
    /\ pc[i] = "releasing"
    /\ held' = [held EXCEPT ![i] = NoKey]
    /\ pc' = [pc EXCEPT ![i] = "done"]
    /\ Forget(i)
    /\ UNCHANGED <<window, request, status, heartbeatAge, beat>>

(* The process dies: Postgres frees the session's lock, the row stays.     *)
Crash(i) ==
    /\ pc[i] \in Locking \cup {"locking"}
    /\ pc' = [pc EXCEPT ![i] = "crashed"]
    /\ held' = [held EXCEPT ![i] = NoKey]
    /\ beat' = [beat EXCEPT ![i] = "off"]
    /\ Forget(i)
    /\ UNCHANGED <<window, request, status, heartbeatAge>>

------------------------------------------------------------------------------
(* The heartbeat loop.                                                     *)

TickStarts(i) ==
    /\ beat[i] = "due"
    /\ beat' = [beat EXCEPT ![i] = "writing"]
    /\ UNCHANGED <<window, request, pc, held, status, heartbeatAge, missed, result>>

(* What follows a settled write: the next tick unless stop() was called.   *)
Rearm(i) == IF pc[i] = "running" THEN "armed" ELSE "off"

(* touchBatchExecutionHeartbeat: guarded by RUNNING; a write that finds    *)
(* the row terminal stops the loop.                                        *)
TickWrites(i) ==
    /\ beat[i] = "writing"
    /\ IF status[i] = "RUNNING"
       THEN /\ heartbeatAge' = [heartbeatAge EXCEPT ![i] = 0]
            /\ missed' = [missed EXCEPT ![i] = 0]
            /\ beat' = [beat EXCEPT ![i] = Rearm(i)]
       ELSE /\ beat' = [beat EXCEPT ![i] = "off"]
            /\ UNCHANGED <<heartbeatAge, missed>>
    /\ UNCHANGED <<window, request, pc, held, status, result>>

(* Mutant: a rejected heartbeat write ends the loop.                       *)
TickMissedEndsLoop(i) ==
    /\ beat[i] \in {"due", "writing"}
    /\ missed' = [missed EXCEPT ![i] = IF @ < StaleUnits THEN @ + 1 ELSE @]
    /\ beat' = [beat EXCEPT ![i] = "off"]
    /\ UNCHANGED <<window, request, pc, held, status, heartbeatAge, result>>

(* The write fails and is swallowed, or the process was too busy to tick:  *)
(* the loop goes on.                                                       *)
TickMissed(i) ==
    /\ beat[i] \in {"due", "writing"}
    /\ missed' = [missed EXCEPT ![i] = IF @ < StaleUnits THEN @ + 1 ELSE @]
    /\ beat' = [beat EXCEPT ![i] = Rearm(i)]
    /\ UNCHANGED <<window, request, pc, held, status, heartbeatAge, result>>

------------------------------------------------------------------------------
(* Recovery and time.                                                      *)

(* Mutant: recovery only looks at rows whose invocation still holds a lock. *)
StaleAndLocked(i) ==
    status[i] = "RUNNING" /\ heartbeatAge[i] > StaleUnits /\ held[i] # NoKey

(* WHERE status = 'RUNNING' AND heartbeatAt < staleBefore, the same in     *)
(* checkBatch and in the recovery.                                         *)
Stale(i) == status[i] = "RUNNING" /\ heartbeatAge[i] > StaleUnits

(* recoverStaleBatchExecutions: one UPDATE over all stale RUNNING rows.    *)
RecoverStale ==
    /\ CloseRows({i \in Invocations : Stale(i)}, "FAILED")
    /\ UNCHANGED <<window, request, pc, held, beat, missed, result>>

StatementInFlight(i) ==
    \/ pc[i] \in {"locking", "creating", "stopping", "finishing", "releasing"}
    \/ beat[i] \in {"due", "writing"}

TimePasses ==
    /\ \A i \in Invocations : ~StatementInFlight(i)
    /\ heartbeatAge' = [i \in Invocations |->
                          IF status[i] = "RUNNING" /\ heartbeatAge[i] <= StaleUnits
                          THEN heartbeatAge[i] + 1 ELSE heartbeatAge[i]]
    /\ beat' = [i \in Invocations |-> IF beat[i] = "armed" THEN "due" ELSE beat[i]]
    /\ UNCHANGED <<window, request, pc, held, status, missed, result>>

WindowTurns ==
    /\ window < MaxWindow
    /\ window' = window + 1
    /\ UNCHANGED <<request, pc, held, status, heartbeatAge, beat, missed, result>>

OwnStep(i) ==
    \/ AcquireLock(i) \/ SkipLocked(i) \/ CreateRow(i) \/ CreateRejected(i)
    \/ StopLoop(i) \/ MarkSucceeded(i) \/ MarkSucceededThrows(i) \/ MarkFailed(i)
    \/ ReleaseLock(i)

Beat(i) == TickStarts(i) \/ TickWrites(i) \/ TickMissed(i)

Next ==
    \/ \E i \in Invocations : \/ Invoke(i) \/ OwnStep(i) \/ BodySettles(i)
                             \/ Beat(i) \/ Crash(i)
    \/ RecoverStale \/ TimePasses \/ WindowTurns

Spec == Init /\ [][Next]_vars

(* Statements and timer callbacks of a live process end; time passes; the  *)
(* worker scheduler runs batch:recover-stale every 30 seconds.  Nothing is *)
(* assumed of the job body, which may run for ever.                        *)
Fairness ==
    /\ \A i \in Invocations : WF_vars(OwnStep(i)) /\ WF_vars(Beat(i))
    /\ WF_vars(TimePasses)
    /\ WF_vars(RecoverStale)

FairSpec == Spec /\ Fairness
==============================================================================
