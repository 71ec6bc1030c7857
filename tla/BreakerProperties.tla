------------------------- MODULE BreakerProperties -------------------------
(***************************************************************************)
(* What the callers of a provider that failed may rely on.                 *)
(***************************************************************************)
EXTENDS CircuitBreaker

Probing == {w \in InFlight : call[w].probe /\ call[w].phase = "calling"}

(* CircuitBreaker.beforeCall: "In HALF_OPEN, allows exactly one probe call *)
(* at a time".                                                             *)
OneProbeAtATime == \A v, w \in Probing : v = w

(* When the probe was admitted, w had not been heard of for a whole open   *)
(* period, or for the timeout of a probe.                                  *)
Latecomer(w) ==
    \/ call[w].age >= breaker.probedFor + OpenDuration
    \/ call[w].age >= breaker.probedFor + ProbeTimeout

(* Beside a probe only latecomers are in flight: no retry, which does not  *)
(* ask the breaker again, no lost report, dead caller or expired key lets  *)
(* two calls out that have both been heard of recently                     *)
(* (CIRCUIT_BEFORE_CALL_SCRIPT, CIRCUIT_ON_FAILURE_SCRIPT).                *)
OnlyLatecomersBesideProbe ==
    breaker.open /\ breaker.probed =>
        \A v, w \in InFlight : v = w \/ Latecomer(v) \/ Latecomer(w)

AnswerReported == \E w \in InFlight : call[w].phase = "answered" /\ call'[w].phase # "answered"

(* An open circuit closes by an answer of the provider, or else by the     *)
(* expiry of its key, and then nothing has been heard of any call in       *)
(* flight for as long as the circuit had to wait: no failure is forgotten  *)
(* while it is fresh (the EXPIREs of the scripts).                         *)
ForgottenInSilence ==
    [][breaker.open /\ ~breaker'.open =>
         \/ AnswerReported
         \/ \A w \in InFlight :
               call[w].age >= IF breaker.probed THEN ProbeTimeout ELSE OpenDuration]_vars

(* The circuit does not stay open for ever, though probes are aborted,     *)
(* die or are never reported (circuit-breaker.ts: without the timeout of   *)
(* a probe "the breaker could wedge itself open forever").                 *)
CircuitCloses == []<>~breaker.open
==============================================================================
