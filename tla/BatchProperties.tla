--------------------------- MODULE BatchProperties ---------------------------
(***************************************************************************)
(* What runBatchJob and batch:recover-stale guarantee together.            *)
(***************************************************************************)
EXTENDS BatchExecution

(* Two invocations never execute under the same lock key, through crashes, *)
(* forced runs and recovery: the advisory lock of advisory-lock.ts is held *)
(* from before the row exists until after the terminal write.              *)
MutualExclusion ==
    \A i, j \in Invocations :
        i # j /\ pc[i] \in Executing /\ pc[j] \in Executing
            => LockKey(request[i]) # LockKey(request[j])

(* A row closed while its job body still runs means that the heartbeat     *)
(* loop went without a successful write for at least StaleUnits ticks in a *)
(* row: one or two missed ticks never orphan a healthy run (the relation   *)
(* batch-heartbeat-timing.ts enforces at import time).                     *)
OrphanedOnlyAfterMissedTicks ==
    \A i \in Invocations :
        pc[i] = "running" /\ status[i] \in Terminal => missed[i] >= StaleUnits

(* heartbeatLoop.stop() "guarantees no further heartbeat write can start": *)
(* none is pending when the terminal write is issued or afterwards.        *)
NoHeartbeatAfterStop ==
    \A i \in Invocations : pc[i] \notin {"running", "stopping"} => beat[i] = "off"

(* batch_executions as a ledger: one row per execution key for ever, and   *)
(* no row leaves SUCCEEDED or FAILED, whichever of heartbeat, completion   *)
(* and recovery comes last (the guards of batch-execution-repository.ts).  *)
Ledger == INSTANCE BatchLedger
            WITH Keys <- ExecutionKeys,
                 key <- [i \in Invocations |->
                           IF status[i] = "none" THEN NoKey ELSE ExecutionKey(i)]

LedgerSpec == Ledger!Spec

(* A row left RUNNING by a process that died, or that could not write its  *)
(* outcome, is closed in the end, so /api/health/ready is not poisoned.    *)
AbandonedRowsRecovered ==
    \A i \in Invocations :
        (status[i] = "RUNNING" /\ pc[i] \in {"done", "crashed"})
            ~> (status[i] # "RUNNING")
==============================================================================
