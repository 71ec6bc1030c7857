----------------------------- MODULE BatchProofs -----------------------------
(***************************************************************************)
(* Proofs about BatchExecution, for any number of invocations, jobs and    *)
(* windows and any admissible stale threshold.                             *)
(***************************************************************************)
EXTENDS BatchProperties, TLAPS

(* Where the lock is: exactly from acquisition to release, and the keys of *)
(* two holders differ.                                                     *)
LockInv ==
    /\ \A i \in Invocations :
         held[i] = IF pc[i] \in Locking THEN LockKey(request[i]) ELSE NoKey
    /\ \A i, j \in Invocations :
         i # j /\ pc[i] \in Locking /\ pc[j] \in Locking
            => LockKey(request[i]) # LockKey(request[j])

(* A row exists once the body runs, none before the insert, and no two     *)
(* rows share an execution key.                                            *)
RowInv ==
    /\ \A i \in Invocations :
         /\ pc[i] \in {"idle", "locking", "creating"} => status[i] = "none"
         /\ pc[i] \in Executing => status[i] # "none"
    /\ \A i, j \in Invocations :
         i # j /\ status[i] # "none" /\ status[j] # "none"
            => ExecutionKey(i) # ExecutionKey(j)

(* How far the heartbeat may lag: the row is as old as the ticks missed    *)
(* since the last write, plus the one that is due.                         *)
BeatInv ==
    \A i \in Invocations :
        /\ pc[i] \notin {"running", "stopping"} => beat[i] = "off"
        /\ pc[i] = "stopping" => beat[i] \in {"off", "writing"}
        /\ pc[i] = "running" =>
             /\ status[i] \in Terminal => missed[i] >= StaleUnits
             /\ status[i] = "RUNNING" =>
                  /\ beat[i] # "off"
                  /\ \/ missed[i] = StaleUnits
                     \/ heartbeatAge[i] <= missed[i] + (IF beat[i] = "armed" THEN 0 ELSE 1)

Inv == TypeOK /\ LockInv /\ RowInv /\ BeatInv

USE WindowedAssumption, StaleAssumption, WindowAssumption, NoKeyAssumption

LEMMA LockKeyType ==
    ASSUME NEW r \in Request PROVE LockKey(r) \in LockKeys
<1>1. CASE r.job \in Windowed
  BY <1>1 DEF LockKey, LockKeys, Request
<1>2. CASE r.job \notin Windowed
  BY <1>2 DEF LockKey, LockKeys, Request
<1> QED BY <1>1, <1>2

(* Each kind of step preserves the type invariant.                         *)
LEMMA TypeStep == TypeOK /\ [Next]_vars => TypeOK'
<1> SUFFICES ASSUME TypeOK, [Next]_vars PROVE TypeOK'
  OBVIOUS
<1> USE DEF TypeOK, Locking, Terminal, Request
<1>1. ASSUME NEW i \in Invocations, Invoke(i) PROVE TypeOK'
  BY <1>1 DEF Invoke
<1>2. ASSUME NEW i \in Invocations, OwnStep(i) PROVE TypeOK'
  <2>1. CASE AcquireLock(i)
    BY <2>1, LockKeyType DEF AcquireLock
  <2>2. CASE SkipLocked(i) BY <2>2 DEF SkipLocked
  <2>3. CASE CreateRow(i) BY <2>3 DEF CreateRow
  <2>4. CASE CreateRejected(i) BY <2>4 DEF CreateRejected
  <2>5. CASE StopLoop(i) BY <2>5 DEF StopLoop
  <2>6. CASE MarkSucceeded(i) BY <2>6 DEF MarkSucceeded, GuardedMark, CloseRows
  <2>7. CASE MarkSucceededThrows(i)
    BY <2>7 DEF MarkSucceededThrows, GuardedMark, CloseRows
  <2>8. CASE MarkFailed(i)
    <3>1. CASE GuardedMark(i, "FAILED")
      BY <2>8, <3>1 DEF MarkFailed, GuardedMark, CloseRows
    <3>2. CASE UNCHANGED <<status, heartbeatAge>>
      BY <2>8, <3>2 DEF MarkFailed
    <3> QED BY <2>8, <3>1, <3>2 DEF MarkFailed
  <2>9. CASE ReleaseLock(i) BY <2>9 DEF ReleaseLock, Forget
  <2> QED BY <1>2, <2>1, <2>2, <2>3, <2>4, <2>5, <2>6, <2>7, <2>8, <2>9 DEF OwnStep
<1>3. ASSUME NEW i \in Invocations, BodySettles(i) PROVE TypeOK'
  BY <1>3 DEF BodySettles
<1>4. ASSUME NEW i \in Invocations, Beat(i) PROVE TypeOK'
  <2>1. Rearm(i) \in {"off", "armed"} BY DEF Rearm
  <2>2. CASE TickStarts(i) BY <2>2 DEF TickStarts
  <2>3. CASE TickWrites(i) BY <2>1, <2>3 DEF TickWrites
  <2>4. CASE TickMissed(i) BY <2>1, <2>4 DEF TickMissed
  <2> QED BY <1>4, <2>2, <2>3, <2>4 DEF Beat
<1>5. ASSUME NEW i \in Invocations, Crash(i) PROVE TypeOK'
  BY <1>5 DEF Crash, Forget
<1>6. CASE RecoverStale BY <1>6 DEF RecoverStale, CloseRows
<1>7. CASE TimePasses BY <1>7 DEF TimePasses
<1>8. CASE WindowTurns BY <1>8 DEF WindowTurns
<1>9. CASE UNCHANGED vars BY <1>9 DEF vars
<1> QED BY <1>1, <1>2, <1>3, <1>4, <1>5, <1>6, <1>7, <1>8, <1>9 DEF Next

LEMMA TypeInit == Init => TypeOK
BY DEF Init, TypeOK, Request

(* Every variable keeps its type, heartbeat ages and tick counts stay      *)
(* within the stale threshold.                                             *)
THEOREM TypeCorrect == Spec => []TypeOK
BY TypeInit, TypeStep, PTL DEF Spec

(* The lock is taken only when no session holds it.                        *)
LEMMA LockStep == TypeOK /\ LockInv /\ [Next]_vars => LockInv'
<1> SUFFICES ASSUME TypeOK, LockInv, [Next]_vars PROVE LockInv'
  OBVIOUS
<1> USE DEF TypeOK, LockInv, Locking, Request
<1>1. ASSUME NEW i \in Invocations, Invoke(i) PROVE LockInv'
  BY <1>1 DEF Invoke, LockKey
<1>2. ASSUME NEW i \in Invocations, OwnStep(i) PROVE LockInv'
  <2>1. CASE AcquireLock(i)
    <3>1. \A j \in Invocations : LockKey(request[j])' = LockKey(request[j])
      BY <2>1 DEF AcquireLock
    <3>2. \A j \in Invocations \ {i} :
            pc[j] \in Locking => LockKey(request[j]) # LockKey(request[i])
      BY <2>1 DEF AcquireLock
    <3>3. /\ pc' = [pc EXCEPT ![i] = "creating"]
          /\ held' = [held EXCEPT ![i] = LockKey(request[i])]
          /\ pc[i] = "locking"
      BY <2>1 DEF AcquireLock
    <3>4. \A j \in Invocations :
            held'[j] = IF pc'[j] \in Locking THEN LockKey(request'[j]) ELSE NoKey
      BY <3>1, <3>3
    <3>5. ASSUME NEW j \in Invocations, NEW k \in Invocations,
                 j # k, pc'[j] \in Locking, pc'[k] \in Locking
          PROVE  LockKey(request'[j]) # LockKey(request'[k])
      BY <3>1, <3>2, <3>3, <3>5
    <3> QED BY <3>4, <3>5
  <2>2. CASE SkipLocked(i)
    BY <2>2 DEF SkipLocked
  <2>3. CASE CreateRow(i)
    BY <2>3 DEF CreateRow
  <2>4. CASE CreateRejected(i)
    BY <2>4 DEF CreateRejected
  <2>5. CASE StopLoop(i)
    BY <2>5 DEF StopLoop
  <2>6. CASE MarkSucceeded(i)
    BY <2>6 DEF MarkSucceeded, GuardedMark, CloseRows
  <2>7. CASE MarkSucceededThrows(i)
    BY <2>7 DEF MarkSucceededThrows, GuardedMark, CloseRows
  <2>8. CASE MarkFailed(i)
    BY <2>8 DEF MarkFailed, GuardedMark, CloseRows
  <2>9. CASE ReleaseLock(i)
    BY <2>9 DEF ReleaseLock, Forget
  <2> QED BY <1>2, <2>1, <2>2, <2>3, <2>4, <2>5, <2>6, <2>7, <2>8, <2>9 DEF OwnStep
<1>3. ASSUME NEW i \in Invocations, BodySettles(i) PROVE LockInv'
  BY <1>3 DEF BodySettles
<1>4. ASSUME NEW i \in Invocations, Beat(i) PROVE LockInv'
  <2>1. CASE TickStarts(i) BY <2>1 DEF TickStarts
  <2>2. CASE TickWrites(i) BY <2>2 DEF TickWrites, Rearm
  <2>3. CASE TickMissed(i) BY <2>3 DEF TickMissed, Rearm
  <2> QED BY <1>4, <2>1, <2>2, <2>3 DEF Beat
<1>5. ASSUME NEW i \in Invocations, Crash(i) PROVE LockInv'
  BY <1>5 DEF Crash, Forget
<1>6. CASE RecoverStale BY <1>6 DEF RecoverStale, CloseRows, Stale
<1>7. CASE TimePasses BY <1>7 DEF TimePasses, StatementInFlight
<1>8. CASE WindowTurns BY <1>8 DEF WindowTurns
<1>9. CASE UNCHANGED vars BY <1>9 DEF vars
<1> QED BY <1>1, <1>2, <1>3, <1>4, <1>5, <1>6, <1>7, <1>8, <1>9 DEF Next

(* The unique constraint keeps execution keys apart.                       *)
LEMMA RowStep == TypeOK /\ RowInv /\ [Next]_vars => RowInv'
<1> SUFFICES ASSUME TypeOK, RowInv, [Next]_vars PROVE RowInv'
  OBVIOUS
<1> USE DEF TypeOK, RowInv, Executing, Locking, Terminal, ExecutionKey, KeyTaken
<1>1. ASSUME NEW i \in Invocations, Invoke(i) PROVE RowInv'
  BY <1>1 DEF Invoke
<1>2. ASSUME NEW i \in Invocations, OwnStep(i) PROVE RowInv'
  <2>1. CASE AcquireLock(i)
    BY <2>1 DEF AcquireLock
  <2>2. CASE SkipLocked(i)
    BY <2>2 DEF SkipLocked
  <2>3. CASE CreateRow(i)
    <3>1. \A j \in Invocations : ExecutionKey(j)' = ExecutionKey(j)
      BY <2>3 DEF CreateRow
    <3>2. \A j \in Invocations : status[j] # "none" => ExecutionKey(j) # ExecutionKey(i)
      BY <2>3 DEF CreateRow
    <3>3. /\ pc' = [pc EXCEPT ![i] = "running"]
          /\ status' = [status EXCEPT ![i] = "RUNNING"]
      BY <2>3 DEF CreateRow
    <3> HIDE DEF ExecutionKey
    <3> QED BY <3>1, <3>2, <3>3
  <2>4. CASE CreateRejected(i)
    BY <2>4 DEF CreateRejected
  <2>5. CASE StopLoop(i)
    BY <2>5 DEF StopLoop
  <2>6. CASE MarkSucceeded(i)
    BY <2>6 DEF MarkSucceeded, GuardedMark, CloseRows
  <2>7. CASE MarkSucceededThrows(i)
    BY <2>7 DEF MarkSucceededThrows, GuardedMark, CloseRows
  <2>8. CASE MarkFailed(i)
    BY <2>8 DEF MarkFailed, GuardedMark, CloseRows
  <2>9. CASE ReleaseLock(i)
    BY <2>9 DEF ReleaseLock, Forget
  <2> QED BY <1>2, <2>1, <2>2, <2>3, <2>4, <2>5, <2>6, <2>7, <2>8, <2>9 DEF OwnStep
<1>3. ASSUME NEW i \in Invocations, BodySettles(i) PROVE RowInv'
  BY <1>3 DEF BodySettles
<1>4. ASSUME NEW i \in Invocations, Beat(i) PROVE RowInv'
  <2>1. CASE TickStarts(i) BY <2>1 DEF TickStarts
  <2>2. CASE TickWrites(i) BY <2>2 DEF TickWrites, Rearm
  <2>3. CASE TickMissed(i) BY <2>3 DEF TickMissed, Rearm
  <2> QED BY <1>4, <2>1, <2>2, <2>3 DEF Beat
<1>5. ASSUME NEW i \in Invocations, Crash(i) PROVE RowInv'
  BY <1>5 DEF Crash, Forget
<1>6. CASE RecoverStale BY <1>6 DEF RecoverStale, CloseRows, Stale
<1>7. CASE TimePasses BY <1>7 DEF TimePasses, StatementInFlight
<1>8. CASE WindowTurns BY <1>8 DEF WindowTurns
<1>9. CASE UNCHANGED vars BY <1>9 DEF vars
<1> QED BY <1>1, <1>2, <1>3, <1>4, <1>5, <1>6, <1>7, <1>8, <1>9 DEF Next

(* Age and missed ticks advance together.                                  *)
LEMMA BeatStep == TypeOK /\ RowInv /\ BeatInv /\ [Next]_vars => BeatInv'
<1> SUFFICES ASSUME TypeOK, RowInv, BeatInv, [Next]_vars PROVE BeatInv'
  OBVIOUS
<1> USE DEF TypeOK, RowInv, Executing, BeatInv, Locking, Terminal
<1>1. ASSUME NEW i \in Invocations, Invoke(i) PROVE BeatInv'
  BY <1>1 DEF Invoke
<1>2. ASSUME NEW i \in Invocations, OwnStep(i) PROVE BeatInv'
  <2>1. CASE AcquireLock(i)
    BY <2>1 DEF AcquireLock
  <2>2. CASE SkipLocked(i)
    BY <2>2 DEF SkipLocked
  <2>3. CASE CreateRow(i)
    BY <2>3 DEF CreateRow
  <2>4. CASE CreateRejected(i)
    BY <2>4 DEF CreateRejected
  <2>5. CASE StopLoop(i)
    BY <2>5 DEF StopLoop
  <2>6. CASE MarkSucceeded(i)
    BY <2>6 DEF MarkSucceeded, GuardedMark, CloseRows
  <2>7. CASE MarkSucceededThrows(i)
    BY <2>7 DEF MarkSucceededThrows, GuardedMark, CloseRows
  <2>8. CASE MarkFailed(i)
    BY <2>8 DEF MarkFailed, GuardedMark, CloseRows
  <2>9. CASE ReleaseLock(i)
    BY <2>9 DEF ReleaseLock, Forget
  <2> QED BY <1>2, <2>1, <2>2, <2>3, <2>4, <2>5, <2>6, <2>7, <2>8, <2>9 DEF OwnStep
<1>3. ASSUME NEW i \in Invocations, BodySettles(i) PROVE BeatInv'
  BY <1>3 DEF BodySettles
<1>4. ASSUME NEW i \in Invocations, Beat(i) PROVE BeatInv'
  <2>1. CASE TickStarts(i) BY <2>1 DEF TickStarts
  <2>2. CASE TickWrites(i) BY <2>2 DEF TickWrites, Rearm
  <2>3. CASE TickMissed(i) BY <2>3 DEF TickMissed, Rearm
  <2> QED BY <1>4, <2>1, <2>2, <2>3 DEF Beat
<1>5. ASSUME NEW i \in Invocations, Crash(i) PROVE BeatInv'
  BY <1>5 DEF Crash, Forget
<1>6. CASE RecoverStale BY <1>6 DEF RecoverStale, CloseRows, Stale
<1>7. CASE TimePasses BY <1>7 DEF TimePasses, StatementInFlight
<1>8. CASE WindowTurns BY <1>8 DEF WindowTurns
<1>9. CASE UNCHANGED vars BY <1>9 DEF vars
<1> QED BY <1>1, <1>2, <1>3, <1>4, <1>5, <1>6, <1>7, <1>8, <1>9 DEF Next

LEMMA InvInit == Init => Inv
BY TypeInit DEF Init, Inv, LockInv, RowInv, BeatInv, Locking, Executing, Terminal

LEMMA InvStep == Inv /\ [Next]_vars => Inv'
BY TypeStep, LockStep, RowStep, BeatStep DEF Inv

THEOREM InvCorrect == Spec => []Inv
BY InvInit, InvStep, PTL DEF Spec

(* The advisory lock keeps two executions of one lock key apart, whatever  *)
(* crashes, recoveries and forced runs do.                                 *)
THEOREM MutualExclusionHolds == Spec => []MutualExclusion
<1>1. Inv => MutualExclusion
  BY DEF Inv, LockInv, MutualExclusion, Locking, Executing
<1> QED BY <1>1, InvCorrect, PTL

(* What the jobs themselves are written for (extraction:process,           *)
(* clauses:process, mail:process): two runs of one job never execute at    *)
(* once. It holds of the jobs of cadence "instant", forced or recovered or *)
(* not; of an hourly or daily job two runs execute together only when they *)
(* were requested in different windows, because buildLockKey puts the      *)
(* window into the key.                                                    *)
THEOREM SameJobOverlapsOnlyAcrossWindows ==
    Spec => [](\A i, j \in Invocations :
                  i # j /\ pc[i] \in Executing /\ pc[j] \in Executing
                        /\ request[i].job = request[j].job
                      => request[i].job \in Windowed
                           /\ request[i].window # request[j].window)
<1> DEFINE Together(i, j) ==
             i # j /\ pc[i] \in Executing /\ pc[j] \in Executing
                   /\ request[i].job = request[j].job
           Apart(i, j) == request[i].job \in Windowed /\ request[i].window # request[j].window
<1>1. ASSUME MutualExclusion, NEW i \in Invocations, NEW j \in Invocations, Together(i, j)
      PROVE  Apart(i, j)
  <2>1. LockKey(request[i]) # LockKey(request[j])
    BY <1>1 DEF MutualExclusion
  <2> QED BY <1>1, <2>1 DEF LockKey
<1>2. MutualExclusion => \A i, j \in Invocations : Together(i, j) => Apart(i, j)
  BY <1>1
<1> QED BY <1>2, MutualExclusionHolds, PTL

(* A run recovered under its own feet has missed StaleUnits ticks in a row.*)
THEOREM OrphanedOnlyAfterMissedTicksHolds == Spec => []OrphanedOnlyAfterMissedTicks
<1>1. Inv => OrphanedOnlyAfterMissedTicks
  BY DEF Inv, BeatInv, OrphanedOnlyAfterMissedTicks
<1> QED BY <1>1, InvCorrect, PTL

(* stop() leaves no heartbeat write behind.                                *)
THEOREM NoHeartbeatAfterStopHolds == Spec => []NoHeartbeatAfterStop
<1>1. Inv => NoHeartbeatAfterStop
  BY DEF Inv, BeatInv, NoHeartbeatAfterStop
<1> QED BY <1>1, InvCorrect, PTL

------------------------------------------------------------------------------
(* Refinement of the ledger.                                               *)

LedgerKey == [i \in Invocations |-> IF status[i] = "none" THEN NoKey ELSE ExecutionKey(i)]

(* Closing RUNNING rows is a step of the ledger.                           *)
LEMMA CloseRefines ==
    ASSUME TypeOK, NEW S \in SUBSET {i \in Invocations : status[i] = "RUNNING"},
           NEW outcome \in Terminal, CloseRows(S, outcome), UNCHANGED request
    PROVE  Ledger!Close
<1>1. status' = [i \in Invocations |-> IF i \in S THEN outcome ELSE status[i]]
  BY DEF CloseRows
<1>2. \A i \in Invocations : (status'[i] = "none") <=> (status[i] = "none")
  BY <1>1 DEF Terminal
<1>3. \A i \in Invocations : ExecutionKey(i)' = ExecutionKey(i)
  BY DEF ExecutionKey
<1>4. LedgerKey' = LedgerKey
  BY <1>2, <1>3 DEF LedgerKey
<1> QED BY <1>1, <1>4 DEF Ledger!Close, Ledger!Terminal, Terminal, LedgerKey

(* A step that writes no row leaves the ledger alone.                      *)
LEMMA SilentRefines ==
    ASSUME UNCHANGED status,
           \A i \in Invocations : status[i] # "none" => request'[i] = request[i]
    PROVE  UNCHANGED <<status, LedgerKey>>
<1>1. \A i \in Invocations : status[i] # "none" => ExecutionKey(i)' = ExecutionKey(i)
  BY DEF ExecutionKey
<1> QED BY <1>1 DEF LedgerKey

(* The insert of CreateRow enters a key no other row has.                  *)
LEMMA CreateRefines ==
    ASSUME TypeOK, RowInv, NEW i \in Invocations, CreateRow(i)
    PROVE  Ledger!Enter(i)
<1>1. status[i] = "none" /\ status' = [status EXCEPT ![i] = "RUNNING"]
  BY DEF CreateRow, RowInv
<1>2. \A j \in Invocations : ExecutionKey(j)' = ExecutionKey(j)
  BY DEF CreateRow, ExecutionKey
<1>3. ExecutionKey(i) \in ExecutionKeys
  BY DEF ExecutionKey, ExecutionKeys, TypeOK, Request
<1>4. \A j \in Invocations : LedgerKey[j] # ExecutionKey(i)
  BY <1>3 DEF CreateRow, KeyTaken, LedgerKey
<1>5. LedgerKey' = [LedgerKey EXCEPT ![i] = ExecutionKey(i)]
  BY <1>1, <1>2 DEF LedgerKey, TypeOK
<1> QED BY <1>1, <1>3, <1>4, <1>5 DEF Ledger!Enter, LedgerKey

LEMMA StepRefines == Inv /\ [Next]_vars => [Ledger!Next]_<<status, LedgerKey>>
<1> SUFFICES ASSUME Inv, [Next]_vars PROVE [Ledger!Next]_<<status, LedgerKey>>
  OBVIOUS
<1> DEFINE Running == {j \in Invocations : status[j] = "RUNNING"}
<1>0. TypeOK /\ RowInv
  BY DEF Inv
<1>1. ASSUME NEW i \in Invocations, Invoke(i) PROVE UNCHANGED <<status, LedgerKey>>
  BY <1>0, <1>1, SilentRefines DEF Invoke, RowInv, TypeOK
<1>2. ASSUME NEW i \in Invocations, OwnStep(i)
      PROVE  Ledger!Next \/ UNCHANGED <<status, LedgerKey>>
  <2>1. CASE CreateRow(i)
    BY <2>1, <1>0, CreateRefines DEF Ledger!Next
  <2>2. ASSUME NEW outcome \in Terminal, GuardedMark(i, outcome), UNCHANGED request
        PROVE  Ledger!Next
    BY <2>2, <1>0, CloseRefines DEF GuardedMark, Ledger!Next
  <2>3. CASE MarkSucceeded(i)
    BY <2>3, <2>2 DEF MarkSucceeded, Terminal
  <2>4. CASE MarkSucceededThrows(i)
    BY <2>4, <2>2, SilentRefines DEF MarkSucceededThrows, Terminal
  <2>5. CASE MarkFailed(i)
    BY <2>5, <2>2, SilentRefines DEF MarkFailed, Terminal
  <2>6. CASE AcquireLock(i) \/ SkipLocked(i) \/ CreateRejected(i) \/ StopLoop(i)
             \/ ReleaseLock(i)
    BY <2>6, SilentRefines DEF AcquireLock, SkipLocked, CreateRejected, StopLoop, ReleaseLock
  <2> QED BY <1>2, <2>1, <2>3, <2>4, <2>5, <2>6 DEF OwnStep
<1>3. ASSUME NEW i \in Invocations, BodySettles(i) \/ Beat(i) \/ Crash(i)
      PROVE  UNCHANGED <<status, LedgerKey>>
  BY <1>3, SilentRefines
     DEF BodySettles, Beat, TickStarts, TickWrites, TickMissed, Crash
<1>4. CASE RecoverStale
  <2>1. {j \in Invocations : Stale(j)} \in SUBSET Running
    BY DEF Stale
  <2> QED BY <2>1, <1>4, <1>0, CloseRefines DEF RecoverStale, Terminal, Ledger!Next
<1>5. CASE TimePasses \/ WindowTurns
  BY <1>5, SilentRefines DEF TimePasses, WindowTurns
<1>6. CASE UNCHANGED vars
  BY <1>6, SilentRefines DEF vars
<1> QED BY <1>1, <1>2, <1>3, <1>4, <1>5, <1>6 DEF Next

(* batch_executions is the ledger: one row per execution key, and terminal *)
(* rows never change again.                                                *)
THEOREM RefinesLedger == Spec => LedgerSpec
<1>1. Init => Ledger!Init
  BY DEF Init, Ledger!Init
<1>2. Inv /\ [Next]_vars => [Ledger!Next]_<<status, LedgerKey>>
  BY StepRefines
<1> QED BY <1>1, <1>2, InvCorrect, PTL DEF Spec, LedgerSpec, Ledger!Spec, LedgerKey
==============================================================================
