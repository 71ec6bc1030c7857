---------------------------- MODULE BreakerProofs ----------------------------
(***************************************************************************)
(* What is in flight beside the probe of a half-open circuit, and when an  *)
(* open one is forgotten, for any callers and times.                       *)
(*                                                                         *)
(* Heard says when the calls in flight were admitted or last reported:     *)
(* before the circuit was last opened, or long before its probe went out,  *)
(* all but one.                                                            *)
(***************************************************************************)
EXTENDS BreakerProperties, TLAPS

OpenedSince == \A w \in InFlight : breaker.openFor <= call[w].age

ProbedSince == /\ \A w \in InFlight : breaker.probedFor <= call[w].age
               /\ \A v, w \in InFlight : v = w \/ Latecomer(v) \/ Latecomer(w)

Heard == breaker.open => IF breaker.probed THEN ProbedSince ELSE OpenedSince

(* What a hash holds together: the threshold opens it, and only an open    *)
(* one has a probe.                                                        *)
Marked(b) == /\ b.open \/ b.failures < FailureThreshold
             /\ b.probed => b.open

IInv == TypeOK /\ Marked(breaker) /\ Heard

------------------------------------------------------------------------------
(* What the scripts make of a hash.                                        *)

LEMMA CleanHash == Clean \in Breaker /\ Marked(Clean) /\ ~Clean.open /\ Idle \in Call
BY TimesAssumption DEF Clean, Breaker, Marked, Idle, Call

LEMMA OpenedHash ==
    ASSUME NEW b \in Breaker
    PROVE  /\ Opened(b) \in Breaker
           /\ Opened(b).open /\ Opened(b).openFor = 0 /\ Opened(b).probed = b.probed
<1>1. OpenDuration + Grace \in Nat /\ 0 \in 0..OpenDuration
  BY TimesAssumption
<1>. DEFINE t == OpenDuration + Grace
<1>2. Opened(b) = [b EXCEPT !.open = TRUE, !.openFor = 0, !.ttl = t]
  BY DEF Opened
<1>3. t \in Nat
  BY <1>1
<1>. HIDE DEF t
<1>4. Opened(b) \in Breaker
  BY <1>1, <1>2, <1>3 DEF Breaker
<1>5. Opened(b).open = TRUE /\ Opened(b).openFor = 0 /\ Opened(b).probed = b.probed
  BY <1>2 DEF Breaker
<1>. QED
  BY <1>4, <1>5

LEMMA ReopenedHash ==
    ASSUME NEW b \in Breaker
    PROVE  /\ Reopened(b) \in Breaker
           /\ Reopened(b).open /\ Reopened(b).openFor = 0 /\ ~Reopened(b).probed
<1>. DEFINE o == Opened(b)
<1>1. o \in Breaker /\ o.open /\ o.openFor = 0
  BY OpenedHash
<1>2. Reopened(b) = [o EXCEPT !.probed = FALSE, !.probedFor = 0]
  BY DEF Reopened
<1>. HIDE DEF o
<1>3. 0 \in 0..ProbeTimeout
  BY TimesAssumption
<1>4. Reopened(b) \in Breaker
  BY <1>1, <1>2, <1>3 DEF Breaker
<1>5. /\ Reopened(b).open = o.open /\ Reopened(b).openFor = o.openFor
      /\ Reopened(b).probed = FALSE
  BY <1>1, <1>2 DEF Breaker
<1>. QED
  BY <1>1, <1>4, <1>5

LEMMA CountedHash ==
    ASSUME NEW b \in Breaker, Marked(b), ~b.open
    PROVE  /\ Counted(b) \in Breaker /\ Marked(Counted(b))
           /\ ~Counted(b).probed
           /\ Counted(b).open => Counted(b).openFor = 0
<1>. DEFINE n == b.failures + 1
            c == [b EXCEPT !.failures = n, !.ttl = IF n = 1 THEN FailureWindow ELSE @]
<1>. DEFINE t == IF n = 1 THEN FailureWindow ELSE b.ttl
<1>1. n \in 0..FailureThreshold /\ t \in Nat
  BY TimesAssumption DEF Breaker, Marked
<1>2. Counted(b) = IF n >= FailureThreshold THEN Opened(c) ELSE c
  BY DEF Counted
<1>3. c = [b EXCEPT !.failures = n, !.ttl = t]
  OBVIOUS
<1>. HIDE DEF n, c, t
<1>4. c \in Breaker /\ c.failures = n /\ c.open = b.open /\ c.probed = b.probed
  BY <1>1, <1>3 DEF Breaker
<1>5. ~c.open /\ ~c.probed
  BY <1>4 DEF Marked
<1>6. Opened(c) \in Breaker /\ Opened(c).open /\ Opened(c).openFor = 0 /\ ~Opened(c).probed
  BY <1>4, <1>5, OpenedHash
<1>. QED
  BY <1>1, <1>2, <1>4, <1>5, <1>6, TimesAssumption DEF Marked

LEMMA FailureHash ==
    ASSUME NEW b \in Breaker, Marked(b)
    PROVE  /\ AfterFailure(b) \in Breaker /\ Marked(AfterFailure(b))
           /\ ~AfterFailure(b).probed
           /\ AfterFailure(b).open => AfterFailure(b).openFor = 0
<1>1. CASE b.open
  BY <1>1, ReopenedHash DEF AfterFailure, Marked
<1>2. CASE ~b.open
  BY <1>2, CountedHash DEF AfterFailure
<1>. QED
  BY <1>1, <1>2

LEMMA AgedHash ==
    ASSUME NEW b \in Breaker, Marked(b)
    PROVE  /\ Aged(b) \in Breaker /\ Marked(Aged(b))
           /\ Aged(b).open => /\ b.open /\ Aged(b).probed = b.probed
                              /\ Aged(b).openFor <= b.openFor + 1
                              /\ Aged(b).probedFor <= b.probedFor + 1
<1>1. CASE b.ttl <= 1
  BY <1>1, CleanHash DEF Aged
<1>2. CASE ~(b.ttl <= 1)
  <2>. DEFINE o == IF b.open THEN Later(b.openFor, OpenDuration) ELSE b.openFor
              p == IF b.probed THEN Later(b.probedFor, ProbeTimeout) ELSE b.probedFor
  <2>1. /\ o \in 0..OpenDuration /\ o <= b.openFor + 1
        /\ p \in 0..ProbeTimeout /\ p <= b.probedFor + 1
        /\ b.ttl - 1 \in Nat
    BY <1>2, TimesAssumption DEF Breaker, Later
  <2>2. Aged(b) = [b EXCEPT !.ttl = b.ttl - 1, !.openFor = o, !.probedFor = p]
    BY <1>2 DEF Aged
  <2>. HIDE DEF o, p
  <2>. QED
    BY <2>1, <2>2 DEF Breaker, Marked
<1>. QED
  BY <1>1, <1>2

------------------------------------------------------------------------------
(* Steps of a call.                                                        *)

(* One that leaves the hash alone, and the call no younger.                *)
LEMMA QuietStep ==
    ASSUME IInv, NEW w \in Callers, NEW q \in Call, UNCHANGED breaker,
           call' = [call EXCEPT ![w] = q],
           q.phase = "idle" \/ (w \in InFlight /\ q.age = call[w].age) \/ ~breaker.open
    PROVE  IInv'
<1>1. TypeOK' /\ Marked(breaker)'
  BY DEF IInv, TypeOK
<1>2. \A v \in Callers : call'[v] = IF v = w THEN q ELSE call[v]
  BY DEF IInv, TypeOK
<1>3. breaker.open => \A v \in InFlight' : v \in InFlight /\ call'[v].age = call[v].age
  BY <1>2 DEF InFlight
<1>4. Heard'
  BY <1>3 DEF IInv, Heard, OpenedSince, ProbedSince, Latecomer
<1>. QED
  BY <1>1, <1>4 DEF IInv

(* One after which the circuit is closed, or open since this moment.       *)
LEMMA ReportStep ==
    ASSUME IInv, NEW w \in Callers, NEW q \in Call, NEW b \in Breaker, Marked(b),
           breaker' = b, call' = [call EXCEPT ![w] = q],
           b.open => b.openFor = 0 /\ ~b.probed
    PROVE  IInv'
<1>1. TypeOK' /\ Marked(breaker)'
  BY DEF IInv, TypeOK
<1>2. \A v \in InFlight' : call'[v].age >= 0
  BY <1>1 DEF InFlight, TypeOK, Call
<1>3. Heard'
  BY <1>2 DEF Heard, OpenedSince
<1>. QED
  BY <1>1, <1>3 DEF IInv

LEMMA PhaseRow ==
    ASSUME TypeOK, NEW w \in Callers,
           NEW phase \in {"admitted", "calling", "answered", "failed", "waiting"},
           PhaseBecomes(w, phase)
    PROVE  \E q \in Call : /\ call' = [call EXCEPT ![w] = q]
                           /\ q.phase = phase /\ q.age = call[w].age
<1>. DEFINE q == [call[w] EXCEPT !.phase = phase]
<1>1. q \in Call /\ q.phase = phase /\ q.age = call[w].age
  BY DEF TypeOK, Call
<1>2. call' = [call EXCEPT ![w] = q]
  BY DEF PhaseBecomes
<1>. HIDE DEF q
<1>. QED
  BY <1>1, <1>2

(* When a cooldown is over, or the timeout of a probe, nothing has been    *)
(* heard of any call in flight since it began.                             *)
LEMMA Silence ==
    ASSUME IInv, breaker.open,
           IF breaker.probed THEN breaker.probedFor >= ProbeTimeout
                             ELSE breaker.openFor >= OpenDuration,
           NEW w \in InFlight
    PROVE  call[w].age >= IF breaker.probed THEN ProbeTimeout ELSE OpenDuration
<1>1. call[w].age \in Nat /\ breaker \in Breaker
  BY TimesAssumption DEF IInv, TypeOK, Call, InFlight
<1>. QED
  BY <1>1, TimesAssumption DEF IInv, Heard, OpenedSince, ProbedSince, Breaker

LEMMA AdmitProbeStep ==
    ASSUME IInv, NEW w \in Callers, AdmitProbe(w)
    PROVE  IInv'
<1>. DEFINE q == [phase |-> "admitted", retries |-> 0, age |-> 0, probe |-> TRUE]
<1>1. call' = [call EXCEPT ![w] = q]
  BY DEF AdmitProbe, Admit
<1>2. q \in Call /\ q.age = 0
  BY TimesAssumption DEF Call
<1>. HIDE DEF q
<1>. DEFINE t == OpenDuration + ProbeTimeout + Grace
<1>3. t \in Nat /\ 0 \in 0..ProbeTimeout /\ breaker \in Breaker /\ breaker.open
  BY TimesAssumption DEF AdmitProbe, IInv, TypeOK
<1>4. breaker' = [breaker EXCEPT !.probed = TRUE, !.probedFor = 0, !.ttl = t]
  BY DEF AdmitProbe
<1>. HIDE DEF t
<1>5. /\ breaker' \in Breaker /\ breaker'.open = breaker.open /\ breaker'.probed = TRUE
      /\ breaker'.probedFor = 0
  BY <1>3, <1>4 DEF Breaker
<1>6. /\ breaker' \in Breaker /\ breaker'.open /\ breaker'.probed /\ breaker'.probedFor = 0
      /\ Marked(breaker)'
  BY <1>3, <1>5 DEF Marked
<1>7. \A v \in InFlight : call[v].age >= OpenDuration \/ call[v].age >= ProbeTimeout
  <2>1. /\ breaker.open /\ breaker.openFor >= OpenDuration
        /\ breaker.probed => breaker.probedFor >= ProbeTimeout
    BY TimesAssumption DEF AdmitProbe
  <2>. QED
    BY <2>1, Silence
<1>8. \A v \in Callers : call'[v] = IF v = w THEN q ELSE call[v]
  BY <1>1 DEF IInv, TypeOK
<1>9. TypeOK'
  BY <1>1, <1>2, <1>6 DEF IInv, TypeOK
<1>10. \A v \in InFlight' : call'[v].age \in Nat
  BY <1>9, TimesAssumption DEF TypeOK, Call, InFlight
<1>11. ASSUME NEW v \in InFlight', v # w
       PROVE  Latecomer(v)'
  <2>1. v \in InFlight /\ call'[v] = call[v]
    BY <1>8, <1>11 DEF InFlight
  <2>. QED
    BY <1>6, <1>7, <2>1, TimesAssumption DEF Latecomer
<1>12. Heard'
  BY <1>6, <1>10, <1>11 DEF Heard, ProbedSince
<1>. QED
  BY <1>6, <1>9, <1>12 DEF IInv

LEMMA AdmitClosedStep ==
    ASSUME IInv, NEW w \in Callers, AdmitClosed(w)
    PROVE  IInv'
<1>. DEFINE q == [phase |-> "admitted", retries |-> 0, age |-> 0, probe |-> FALSE]
<1>1. call' = [call EXCEPT ![w] = q] /\ UNCHANGED breaker /\ ~breaker.open
  BY DEF AdmitClosed, Admit
<1>2. q \in Call
  BY TimesAssumption DEF Call
<1>. HIDE DEF q
<1>. QED
  BY <1>1, <1>2, QuietStep

(* The attempts, and everything that ends without a report.                *)
LEMMA AttemptStep ==
    ASSUME IInv, NEW w \in Callers,
           \/ StartAttempt(w) \/ Abort(w) \/ Answered(w) \/ AttemptFails(w)
           \/ FailureReportThrows(w) \/ CallerDies(w)
    PROVE  IInv'
<1>1. UNCHANGED breaker /\ w \in InFlight
  BY DEF StartAttempt, Abort, Answered, AttemptFails, FailureReportThrows, CallerDies, InFlight
<1>2. CASE Ends(w)
  BY <1>1, <1>2, CleanHash, QuietStep DEF Ends, Idle
<1>3. ASSUME NEW phase \in {"calling", "answered", "failed"}, PhaseBecomes(w, phase)
      PROVE  IInv'
  <2>1. PICK q \in Call : call' = [call EXCEPT ![w] = q] /\ q.age = call[w].age
    BY <1>3, PhaseRow DEF IInv
  <2>. QED
    BY <1>1, <2>1, QuietStep
<1>. QED
  BY <1>2, <1>3 DEF StartAttempt, Abort, Answered, AttemptFails, FailureReportThrows, CallerDies

LEMMA SuccessStep ==
    ASSUME IInv, NEW w \in Callers, ReportSuccess(w) \/ SuccessReportThrows(w)
    PROVE  IInv'
<1>1. CASE ReportSuccess(w)
  BY <1>1, CleanHash, ReportStep DEF ReportSuccess, AfterSuccess, Ends
<1>2. CASE SuccessReportThrows(w)
  <2>1. PICK q \in Call : call' = [call EXCEPT ![w] = q] /\ q.age = call[w].age
    BY <1>2, PhaseRow DEF SuccessReportThrows, IInv
  <2>2. CASE breaker' = breaker
    BY <1>2, <2>1, <2>2, QuietStep DEF SuccessReportThrows, InFlight
  <2>3. CASE breaker' = Clean
    BY <2>1, <2>3, CleanHash, ReportStep
  <2>. QED
    BY <1>2, <2>2, <2>3 DEF SuccessReportThrows, AfterSuccess
<1>. QED
  BY <1>1, <1>2

LEMMA FailureStep ==
    ASSUME IInv, NEW w \in Callers, FailForGood(w) \/ Retry(w)
    PROVE  IInv'
<1>. DEFINE b == AfterFailure(breaker)
<1>1. b \in Breaker /\ Marked(b) /\ ~b.probed /\ (b.open => b.openFor = 0)
  BY FailureHash DEF IInv, TypeOK
<1>2. breaker' = b
  BY DEF FailForGood, Retry
<1>3. \E q \in Call : call' = [call EXCEPT ![w] = q]
  <2>1. CASE FailForGood(w)
    BY <2>1, CleanHash DEF FailForGood, Ends
  <2>2. CASE Retry(w)
    <3>. DEFINE q == [phase |-> "waiting", retries |-> call[w].retries + 1, age |-> 0, probe |-> call[w].probe]
    <3>1. q \in Call
      BY <2>2, TimesAssumption DEF Retry, IInv, TypeOK, Call
    <3>2. call' = [call EXCEPT ![w] = q]
      BY <2>2 DEF Retry
    <3>. QED
      BY <3>1, <3>2
  <2>. QED
    BY <2>1, <2>2
<1>. HIDE DEF b
<1>. QED
  BY <1>1, <1>2, <1>3, ReportStep

------------------------------------------------------------------------------
(* Time passes for the hash and for every call at once.                    *)
LEMMA TickStep ==
    ASSUME IInv, Tick
    PROVE  IInv'
<1>. DEFINE b == Aged(breaker)
<1>1. /\ b \in Breaker /\ Marked(b)
      /\ b.open => /\ breaker.open /\ b.probed = breaker.probed
                   /\ b.openFor <= breaker.openFor + 1
                   /\ b.probedFor <= breaker.probedFor + 1
  BY AgedHash DEF IInv, TypeOK
<1>2. breaker' = b
  BY DEF Tick
<1>. HIDE DEF b
<1>3. ASSUME NEW w \in Callers
      PROVE  /\ call'[w] \in Call
             /\ w \in InFlight' <=> w \in InFlight
             /\ w \in InFlight => call'[w].age = call[w].age + 1
  <2>1. call[w] \in Call
    BY DEF IInv, TypeOK
  <2>2. CASE w \notin InFlight
    BY <2>1, <2>2 DEF Tick, InFlight
  <2>3. CASE w \in InFlight
    <3>1. call'[w] = [call[w] EXCEPT !.age = @ + 1] /\ call[w].age < RoundTime
      BY <2>3 DEF Tick
    <3>. QED
      BY <2>1, <2>3, <3>1, TimesAssumption DEF Call, InFlight
  <2>. QED
    BY <2>2, <2>3
<1>4. TypeOK'
  <2>1. call' \in [Callers -> Call]
    BY <1>3 DEF Tick
  <2>. QED
    BY <1>1, <1>2, <2>1 DEF TypeOK
<1>5. InFlight' = InFlight
  BY <1>3 DEF InFlight
<1>6. Heard'
  <2>. SUFFICES ASSUME b.open
                PROVE  IF b.probed THEN ProbedSince' ELSE OpenedSince'
    BY <1>2 DEF Heard
  <2>1. \A w \in InFlight : call'[w].age = call[w].age + 1 /\ call[w].age \in Nat
    BY <1>3, TimesAssumption DEF InFlight, IInv, TypeOK, Call
  <2>2. /\ b.openFor \in Nat /\ b.probedFor \in Nat
        /\ breaker.openFor \in Nat /\ breaker.probedFor \in Nat
    BY <1>1, TimesAssumption DEF IInv, TypeOK, Breaker
  <2>3. CASE b.probed
    <3>1. ProbedSince
      BY <1>1, <2>3 DEF IInv, Heard
    <3>2. \A w \in InFlight : b.probedFor <= call'[w].age
      BY <1>1, <2>1, <2>2, <2>3, <3>1 DEF ProbedSince
    <3>3. ASSUME NEW w \in InFlight, Latecomer(w)
          PROVE  Latecomer(w)'
      BY <1>1, <1>2, <2>1, <2>2, <2>3, <3>3, TimesAssumption DEF Latecomer
    <3>. QED
      BY <1>2, <1>5, <2>3, <3>1, <3>2, <3>3 DEF ProbedSince
  <2>4. CASE ~b.probed
    <3>1. OpenedSince
      BY <1>1, <2>4 DEF IInv, Heard
    <3>. QED
      BY <1>1, <1>2, <1>5, <2>1, <2>2, <2>4, <3>1 DEF OpenedSince
  <2>. QED
    BY <2>3, <2>4
<1>7. Marked(breaker)'
  BY <1>1, <1>2 DEF Marked
<1>. QED
  BY <1>4, <1>6, <1>7 DEF IInv

------------------------------------------------------------------------------
LEMMA InitInv == Init => IInv
BY CleanHash DEF Init, IInv, TypeOK, Heard

LEMMA StepInv == IInv /\ [Next]_vars => IInv'
<1>. SUFFICES ASSUME IInv, [Next]_vars
              PROVE  IInv'
  OBVIOUS
<1>1. ASSUME NEW w \in Callers, AdmitClosed(w) \/ AdmitProbe(w) \/ CallStep(w)
      PROVE  IInv'
  BY <1>1, AdmitClosedStep, AdmitProbeStep, AttemptStep, SuccessStep, FailureStep DEF CallStep
<1>2. CASE Tick
  BY <1>2, TickStep
<1>3. CASE UNCHANGED vars
  BY <1>3 DEF vars, IInv, TypeOK, Marked, Heard, OpenedSince, ProbedSince, Latecomer, InFlight
<1>. QED
  BY <1>1, <1>2, <1>3 DEF Next

(* The inductive invariant: an open circuit was opened again, or probed    *)
(* long after, any call in flight was heard of, except its probe           *)
(* (executeWithResilience).                                                *)
THEOREM InvCorrect == Spec => []IInv
BY InitInv, StepInv, PTL DEF Spec

(* The failures never pass the threshold, no age its bound.                *)
THEOREM TypeCorrect == Spec => []TypeOK
<1>1. IInv => TypeOK
  BY DEF IInv
<1>. QED
  BY <1>1, InvCorrect, PTL

(* However long an attempt may take, no retry, abort, dead caller, lost    *)
(* report or expired key brings a second call beside a probe, other than   *)
(* one not heard of for a whole period before it                           *)
(* (CIRCUIT_BEFORE_CALL_SCRIPT).                                           *)
THEOREM OnlyLatecomersBesideProbeHolds == Spec => []OnlyLatecomersBesideProbe
<1>1. IInv => OnlyLatecomersBesideProbe
  BY DEF IInv, Heard, ProbedSince, OnlyLatecomersBesideProbe
<1>. QED
  BY <1>1, InvCorrect, PTL

------------------------------------------------------------------------------
(* The expiry of a hash and the cooldown it holds.                         *)

(* The key of an open circuit outlives its cooldown, and the timeout of    *)
(* its probe.                                                              *)
KeyLasts(b) ==
    b.open => IF b.probed
              THEN b.probedFor < ProbeTimeout => b.ttl + b.probedFor >= ProbeTimeout + Grace
              ELSE b.openFor < OpenDuration => b.ttl + b.openFor >= OpenDuration + Grace

LEMMA OpenedLasts ==
    ASSUME NEW b \in Breaker, ~b.probed
    PROVE  KeyLasts(Opened(b))
<1>. DEFINE t == OpenDuration + Grace
<1>1. Opened(b) = [b EXCEPT !.open = TRUE, !.openFor = 0, !.ttl = t]
  BY DEF Opened
<1>2. t \in Nat /\ t + 0 >= t
  BY TimesAssumption
<1>. HIDE DEF t
<1>3. Opened(b).openFor = 0 /\ Opened(b).ttl = t /\ ~Opened(b).probed
  BY <1>1 DEF Breaker
<1>. QED
  BY <1>2, <1>3 DEF KeyLasts, t

LEMMA FailureLasts ==
    ASSUME NEW b \in Breaker, Marked(b)
    PROVE  KeyLasts(AfterFailure(b))
<1>1. CASE b.open
  <2>. DEFINE o == Opened(b)
              t == OpenDuration + Grace
  <2>1. o = [b EXCEPT !.open = TRUE, !.openFor = 0, !.ttl = t]
    BY DEF Opened
  <2>2. t \in Nat /\ t + 0 >= t
    BY TimesAssumption
  <2>3. AfterFailure(b) = [o EXCEPT !.probed = FALSE, !.probedFor = 0]
    BY <1>1 DEF AfterFailure, Reopened
  <2>. HIDE DEF t
  <2>4. o \in Breaker /\ o.openFor = 0 /\ o.ttl = t
    BY <2>1, OpenedHash DEF Breaker
  <2>. HIDE DEF o
  <2>5. /\ AfterFailure(b).openFor = 0 /\ AfterFailure(b).ttl = t
        /\ AfterFailure(b).probed = FALSE
    BY <2>3, <2>4 DEF Breaker
  <2>. QED
    BY <2>2, <2>5 DEF KeyLasts, t
<1>2. CASE ~b.open
  <2>. DEFINE n == b.failures + 1
              t == IF n = 1 THEN FailureWindow ELSE b.ttl
              c == [b EXCEPT !.failures = n, !.ttl = t]
  <2>1. n \in 0..FailureThreshold /\ t \in Nat
    BY <1>2, TimesAssumption DEF Breaker, Marked
  <2>2. AfterFailure(b) = IF n >= FailureThreshold THEN Opened(c) ELSE c
    BY <1>2 DEF AfterFailure, Counted
  <2>. HIDE DEF n, t
  <2>3. c \in Breaker /\ ~c.open /\ ~c.probed
    BY <1>2, <2>1 DEF Breaker, Marked
  <2>. HIDE DEF c
  <2>. QED
    BY <2>2, <2>3, OpenedLasts DEF KeyLasts
<1>. QED
  BY <1>1, <1>2

LEMMA ProbeLasts ==
    ASSUME NEW b \in Breaker
    PROVE  KeyLasts([b EXCEPT !.probed = TRUE, !.probedFor = 0,
                              !.ttl = OpenDuration + ProbeTimeout + Grace])
<1>. DEFINE t == OpenDuration + ProbeTimeout + Grace
            p == [b EXCEPT !.probed = TRUE, !.probedFor = 0, !.ttl = t]
<1>1. t \in Nat /\ t + 0 >= ProbeTimeout + Grace
  BY TimesAssumption
<1>. HIDE DEF t
<1>2. p.probed = TRUE /\ p.probedFor = 0 /\ p.ttl = t
  BY DEF Breaker
<1>3. KeyLasts(p)
  BY <1>1, <1>2 DEF KeyLasts
<1>. QED
  BY <1>3 DEF t

LEMMA AgedLasts ==
    ASSUME NEW b \in Breaker, Marked(b), KeyLasts(b)
    PROVE  KeyLasts(Aged(b))
<1>1. CASE b.ttl <= 1
  BY <1>1, CleanHash DEF Aged, KeyLasts
<1>2. CASE ~(b.ttl <= 1)
  <2>. DEFINE o == IF b.open THEN Later(b.openFor, OpenDuration) ELSE b.openFor
              p == IF b.probed THEN Later(b.probedFor, ProbeTimeout) ELSE b.probedFor
              t == b.ttl - 1
  <2>1. /\ o \in Nat /\ p \in Nat /\ t \in Nat
        /\ b.open => (o < OpenDuration => o = b.openFor + 1)
        /\ b.probed => (p < ProbeTimeout => p = b.probedFor + 1)
        /\ b.open => b.openFor <= o
        /\ b.probed => b.probedFor <= p
        /\ t + 1 = b.ttl
    BY <1>2, TimesAssumption DEF Breaker, Later
  <2>2. Aged(b) = [b EXCEPT !.ttl = t, !.openFor = o, !.probedFor = p]
    BY <1>2 DEF Aged
  <2>. HIDE DEF o, p, t
  <2>3. /\ Aged(b).open = b.open /\ Aged(b).probed = b.probed
        /\ Aged(b).openFor = o /\ Aged(b).probedFor = p /\ Aged(b).ttl = t
    BY <2>2 DEF Breaker
  <2>4. b.openFor \in Nat /\ b.probedFor \in Nat /\ b.ttl \in Nat
    BY TimesAssumption DEF Breaker
  <2>5. CASE b.probed
    BY <2>1, <2>3, <2>4, <2>5, TimesAssumption DEF KeyLasts
  <2>6. CASE ~b.probed
    BY <2>1, <2>3, <2>4, <2>6, TimesAssumption DEF KeyLasts
  <2>. QED
    BY <2>5, <2>6
<1>. QED
  BY <1>1, <1>2

LEMMA LastsStep == IInv /\ KeyLasts(breaker) /\ [Next]_vars => KeyLasts(breaker)'
<1>. SUFFICES ASSUME IInv, KeyLasts(breaker), [Next]_vars
              PROVE  KeyLasts(breaker')
  BY DEF KeyLasts
<1>. USE DEF IInv, TypeOK
<1>1. CASE UNCHANGED breaker
  BY <1>1
<1>2. CASE breaker' = Clean
  BY <1>2, CleanHash DEF KeyLasts
<1>3. CASE breaker' = AfterFailure(breaker)
  BY <1>3, FailureLasts
<1>4. ASSUME NEW w \in Callers, AdmitClosed(w) \/ AdmitProbe(w) \/ CallStep(w)
      PROVE  KeyLasts(breaker')
  <2>1. CASE AdmitProbe(w)
    BY <2>1, ProbeLasts DEF AdmitProbe
  <2>2. CASE AdmitClosed(w) \/ StartAttempt(w) \/ Abort(w) \/ Answered(w) \/ AttemptFails(w)
             \/ FailureReportThrows(w) \/ CallerDies(w)
    BY <2>2, <1>1 DEF AdmitClosed, StartAttempt, Abort, Answered, AttemptFails,
                      FailureReportThrows, CallerDies
  <2>3. CASE ReportSuccess(w) \/ SuccessReportThrows(w)
    BY <2>3, <1>1, <1>2 DEF ReportSuccess, SuccessReportThrows, AfterSuccess
  <2>4. CASE FailForGood(w) \/ Retry(w)
    BY <2>4, <1>3 DEF FailForGood, Retry
  <2>. QED
    BY <1>4, <2>1, <2>2, <2>3, <2>4 DEF CallStep
<1>5. CASE Tick
  BY <1>5, AgedLasts DEF Tick
<1>6. CASE UNCHANGED vars
  BY <1>6, <1>1 DEF vars
<1>. QED
  BY <1>4, <1>5, <1>6 DEF Next

------------------------------------------------------------------------------
(* Forgetting.                                                             *)

Forgotten ==
    breaker.open /\ ~breaker'.open =>
        \/ AnswerReported
        \/ \A w \in InFlight :
              call[w].age >= IF breaker.probed THEN ProbeTimeout ELSE OpenDuration

(* A call closes the circuit only by reporting an answer.                  *)
LEMMA CallForgets ==
    ASSUME IInv, NEW w \in Callers, AdmitClosed(w) \/ AdmitProbe(w) \/ CallStep(w),
           breaker.open, ~breaker'.open
    PROVE  AnswerReported
<1>1. breaker' # breaker
  OBVIOUS
<1>2. ~AdmitClosed(w) /\ ~AdmitProbe(w)
  BY <1>1 DEF AdmitClosed, AdmitProbe, IInv, TypeOK, Breaker
<1>3. ~(FailForGood(w) \/ Retry(w))
  BY ReopenedHash DEF FailForGood, Retry, AfterFailure, IInv, TypeOK
<1>4. ReportSuccess(w) \/ SuccessReportThrows(w)
  BY <1>1, <1>2, <1>3 DEF CallStep, StartAttempt, Abort, Answered, AttemptFails,
                          FailureReportThrows, CallerDies
<1>5. call[w].phase = "answered" /\ call[w] \in Call
  BY <1>4 DEF ReportSuccess, SuccessReportThrows, IInv, TypeOK
<1>6. call'[w].phase # "answered"
  <2>1. CASE ReportSuccess(w)
    BY <2>1 DEF ReportSuccess, Ends, Idle, IInv, TypeOK
  <2>2. CASE SuccessReportThrows(w)
    <3>1. call'[w] = [call[w] EXCEPT !.phase = "failed"]
      BY <2>2 DEF SuccessReportThrows, PhaseBecomes, IInv, TypeOK
    <3>. QED
      BY <1>5, <3>1 DEF Call
  <2>. QED
    BY <1>4, <2>1, <2>2
<1>. QED
  BY <1>5, <1>6 DEF AnswerReported, InFlight

(* Time closes it only by an expiry, which comes after its last wait.      *)
LEMMA TickForgets ==
    ASSUME IInv, KeyLasts(breaker), Tick, breaker.open, ~breaker'.open, NEW w \in InFlight
    PROVE  call[w].age >= IF breaker.probed THEN ProbeTimeout ELSE OpenDuration
<1>1. breaker \in Breaker /\ breaker' = Aged(breaker)
  BY DEF Tick, IInv, TypeOK
<1>2. breaker.ttl <= 1
  BY <1>1 DEF Aged, Breaker
<1>3. IF breaker.probed THEN breaker.probedFor >= ProbeTimeout ELSE breaker.openFor >= OpenDuration
  BY <1>1, <1>2, TimesAssumption DEF KeyLasts, Breaker
<1>. QED
  BY <1>3, Silence

LEMMA ForgottenStep == IInv /\ KeyLasts(breaker) /\ [Next]_vars => Forgotten
<1>. SUFFICES ASSUME IInv, KeyLasts(breaker), [Next]_vars, breaker.open, ~breaker'.open
              PROVE  Forgotten
  BY DEF Forgotten
<1>1. Next
  BY DEF vars
<1>2. ASSUME NEW w \in Callers, AdmitClosed(w) \/ AdmitProbe(w) \/ CallStep(w)
      PROVE  Forgotten
  BY <1>2, CallForgets DEF Forgotten
<1>3. CASE Tick
  BY <1>3, TickForgets DEF Forgotten
<1>. QED
  BY <1>1, <1>2, <1>3 DEF Next

(* However long attempts, callers and keys last, an open circuit that no   *)
(* answer closes is forgotten only when its calls have been silent for the *)
(* whole of its open period, or of the timeout of its probe (the EXPIREs   *)
(* of the scripts).                                                        *)
THEOREM ForgottenInSilenceHolds == Spec => ForgottenInSilence
<1>1. Init => KeyLasts(breaker)
  BY CleanHash DEF Init, KeyLasts
<1>2. IInv /\ KeyLasts(breaker) /\ [Next]_vars => [Forgotten]_vars
  BY ForgottenStep
<1>. QED
  BY <1>1, <1>2, LastsStep, InvCorrect, PTL DEF Spec, ForgottenInSilence, Forgotten
==============================================================================
