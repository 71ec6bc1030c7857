--------------------------- MODULE CircuitBreaker ---------------------------
(***************************************************************************)
(* The circuit breaker of one AI provider and the calls that go through it *)
(* (executeWithResilience, RedisCircuitBreaker).  Callers in any number of *)
(* processes share one Redis hash; each script on it is one step.          *)
(*                                                                         *)
(* Times are ages, counted in ticks; the clocks of the callers agree.      *)
(* RoundTime bounds the time from a caller's admission, or from its last   *)
(* report, to its next report: backoff, attempt (its timeout aborts it)    *)
(* and the Redis commands.  It may be longer than the other times: the     *)
(* language model's attempts may take 60 s, the two periods are 30 s.      *)
(***************************************************************************)
EXTENDS Integers

CONSTANTS Callers, FailureThreshold, FailureWindow, OpenDuration, ProbeTimeout,
          Grace,      \* what a key outlives an open circuit by
          RoundTime, MaxRetries

ASSUME TimesAssumption ==
    /\ FailureThreshold \in Nat \ {0} /\ FailureWindow \in Nat \ {0} /\ Grace \in Nat \ {0}
    /\ OpenDuration \in Nat /\ ProbeTimeout \in Nat /\ RoundTime \in Nat /\ MaxRetries \in Nat

VARIABLES breaker,  \* the hash, and what it has left to live
          call      \* call[w]: the executeWithResilience call of w

vars == <<breaker, call>>

Breaker == [failures : 0..FailureThreshold,
            open : BOOLEAN, openFor : 0..OpenDuration,        \* openedAt
            probed : BOOLEAN, probedFor : 0..ProbeTimeout,    \* halfOpenProbeAt
            ttl : Nat]
Call    == [phase : {"idle", "admitted", "calling", "answered", "failed", "waiting"},
            retries : 0..MaxRetries, age : 0..RoundTime,
            probe : BOOLEAN]  \* the state in its token is HALF_OPEN

Clean == [failures |-> 0, open |-> FALSE, openFor |-> 0, probed |-> FALSE, probedFor |-> 0,
          ttl |-> 0]
Idle  == [phase |-> "idle", retries |-> 0, age |-> 0, probe |-> FALSE]

TypeOK == breaker \in Breaker /\ call \in [Callers -> Call]

Init == breaker = Clean /\ call = [w \in Callers |-> Idle]

InFlight == {w \in Callers : call[w].phase # "idle"}

PhaseBecomes(w, phase) == call' = [call EXCEPT ![w].phase = phase]
Ends(w) == call' = [call EXCEPT ![w] = Idle]

------------------------------------------------------------------------------
(* CIRCUIT_BEFORE_CALL_SCRIPT: a refused call changes nothing.             *)

Admit(w, probe) ==
    /\ call[w] = Idle
    /\ call' = [call EXCEPT ![w] = [phase |-> "admitted", retries |-> 0, age |-> 0, probe |-> probe]]

AdmitClosed(w) ==
    /\ ~breaker.open
    /\ Admit(w, FALSE)
    /\ UNCHANGED breaker

AdmitProbe(w) ==
    /\ breaker.open /\ breaker.openFor = OpenDuration
    /\ breaker.probed => breaker.probedFor = ProbeTimeout
    /\ Admit(w, TRUE)
    /\ breaker' = [breaker EXCEPT !.probed = TRUE, !.probedFor = 0,
                                  !.ttl = OpenDuration + ProbeTimeout + Grace]

------------------------------------------------------------------------------
(* The attempts.  The breaker is not asked again before a retry.           *)

StartAttempt(w) ==
    /\ call[w].phase \in {"admitted", "waiting"}
    /\ PhaseBecomes(w, "calling")
    /\ UNCHANGED breaker

(* The caller's abortSignal, looked at before each attempt: nothing is     *)
(* reported, and a probe keeps its slot.                                   *)
Abort(w) ==
    /\ call[w].phase \in {"admitted", "waiting"}
    /\ Ends(w)
    /\ UNCHANGED breaker

Answered(w) ==
    /\ call[w].phase = "calling"
    /\ PhaseBecomes(w, "answered")
    /\ UNCHANGED breaker

AttemptFails(w) ==
    /\ call[w].phase = "calling"
    /\ PhaseBecomes(w, "failed")
    /\ UNCHANGED breaker

------------------------------------------------------------------------------
(* The reports.                                                            *)

(* Mutant: only the failures are forgotten.                                *)
FailuresForgotten(b) == [b EXCEPT !.failures = 0]

(* CIRCUIT_ON_SUCCESS_SCRIPT                                               *)
AfterSuccess(b) == Clean

(* Mutant: the expiry of the failure count stays.                          *)
OpenedKeepingExpiry(b) == [b EXCEPT !.open = TRUE, !.openFor = 0]

Opened(b) ==
    [b EXCEPT !.open = TRUE, !.openFor = 0, !.ttl = OpenDuration + Grace]

Reopened(b) == [Opened(b) EXCEPT !.probed = FALSE, !.probedFor = 0]

Counted(b) ==
    LET n == b.failures + 1
        c == [b EXCEPT !.failures = n, !.ttl = IF n = 1 THEN FailureWindow ELSE @]
    IN IF n >= FailureThreshold THEN Opened(c) ELSE c

(* Mutant: failures are counted on while the circuit is open.              *)
AlwaysCounted(b) == Counted(b)

(* Mutant: a failure while open does not extend the cooldown.              *)
CooldownKept(b) ==
    IF b.open THEN [b EXCEPT !.probed = FALSE, !.probedFor = 0, !.ttl = OpenDuration + Grace]
              ELSE Counted(b)

(* CIRCUIT_ON_FAILURE_SCRIPT                                               *)
AfterFailure(b) == IF b.open THEN Reopened(b) ELSE Counted(b)

ReportSuccess(w) ==
    /\ call[w].phase = "answered"
    /\ breaker' = AfterSuccess(breaker)
    /\ Ends(w)

(* onSuccess throws, done or not: inside the try, so a failure.            *)
SuccessReportThrows(w) ==
    /\ call[w].phase = "answered"
    /\ breaker' \in {breaker, AfterSuccess(breaker)}
    /\ PhaseBecomes(w, "failed")

(* The error is not retryable, or the retries are used up ...              *)
FailForGood(w) ==
    /\ call[w].phase = "failed"
    /\ breaker' = AfterFailure(breaker)
    /\ Ends(w)

(* ... or the call waits for its next attempt.                             *)
Retry(w) ==
    /\ call[w].phase = "failed" /\ call[w].retries < MaxRetries
    /\ breaker' = AfterFailure(breaker)
    /\ call' = [call EXCEPT ![w] = [phase |-> "waiting", retries |-> @.retries + 1, age |-> 0,
                                    probe |-> @.probe]]

FailureReportThrows(w) ==
    /\ call[w].phase = "failed"
    /\ Ends(w)
    /\ UNCHANGED breaker

CallerDies(w) ==
    /\ call[w].phase # "idle"
    /\ Ends(w)
    /\ UNCHANGED breaker

------------------------------------------------------------------------------
(* Time passes, and a key whose time is over is gone.                      *)

Later(n, bound) == IF n < bound THEN n + 1 ELSE n

Aged(b) ==
    IF b.ttl <= 1 THEN Clean
    ELSE [b EXCEPT !.ttl = @ - 1,
                   !.openFor = IF b.open THEN Later(@, OpenDuration) ELSE @,
                   !.probedFor = IF b.probed THEN Later(@, ProbeTimeout) ELSE @]

Tick ==
    /\ \A w \in InFlight : call[w].age < RoundTime
    /\ breaker' = Aged(breaker)
    /\ call' = [w \in Callers |-> IF w \in InFlight THEN [call[w] EXCEPT !.age = @ + 1]
                                                    ELSE call[w]]

------------------------------------------------------------------------------
CallStep(w) ==
    \/ StartAttempt(w) \/ Abort(w) \/ Answered(w) \/ AttemptFails(w) \/ ReportSuccess(w)
    \/ SuccessReportThrows(w) \/ FailForGood(w) \/ Retry(w) \/ FailureReportThrows(w)
    \/ CallerDies(w)

Next ==
    \/ \E w \in Callers : AdmitClosed(w) \/ AdmitProbe(w) \/ CallStep(w)
    \/ Tick

Spec == Init /\ [][Next]_vars

(* Calls keep coming and come to an end, and the provider is not down for  *)
(* ever: a caller that tries for ever is answered, and its answer reported.*)
Fairness ==
    /\ WF_vars(Tick)
    /\ \A w \in Callers :
         /\ WF_vars(AdmitClosed(w) \/ AdmitProbe(w))
         /\ WF_vars(CallStep(w))
         /\ SF_vars(StartAttempt(w)) /\ SF_vars(Answered(w)) /\ SF_vars(ReportSuccess(w))

FairSpec == Spec /\ Fairness
==============================================================================
