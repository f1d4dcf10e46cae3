------------------------------ MODULE Circuit ------------------------------
(***************************************************************************)
(* The circuit of one provider (daemon/circuit.rs): what each call of      *)
(* CircuitRegistry makes of its entry.  The clock is one bit: cooled says  *)
(* that policy.timeout has passed since opened_at.  The error rate is the  *)
(* fraction RateNum / RateDen; the counters stay far from saturation.      *)
(***************************************************************************)
EXTENDS Integers

CONSTANTS
    FailureThreshold,   \* CircuitPolicy.failure_threshold
    SuccessThreshold,   \* CircuitPolicy.success_threshold
    MinRequests,        \* CircuitPolicy.min_requests
    RateNum, RateDen    \* CircuitPolicy.error_rate_threshold

\* validate_config: the thresholds are positive and the rate is in 0..1.
ASSUME CircuitPolicy ==
    /\ FailureThreshold \in Nat \ {0} /\ SuccessThreshold \in Nat \ {0}
    /\ MinRequests \in Nat \ {0}
    /\ RateDen \in Nat \ {0} /\ RateNum \in 0..RateDen

CircuitEntry == [status: {"closed", "open", "halfOpen"}, consecutive: Nat, successes: Nat,
                 requests: Nat, failures: Nat, cooled: BOOLEAN, probing: BOOLEAN]

\* reset_closed, and the entry that acquire creates.
Closed == [status |-> "closed", consecutive |-> 0, successes |-> 0, requests |-> 0,
           failures |-> 0, cooled |-> FALSE, probing |-> FALSE]

Permits == {"none", "plain", "probe"}

\* acquire: the first call after the cool-down half-opens the circuit.
HalfOpens(e) == e.status = "open" /\ e.cooled
Admits(e) == e.status = "closed" \/ HalfOpens(e) \/ (e.status = "halfOpen" /\ ~e.probing)
PermitOf(e) == IF e.status = "closed" THEN "plain" ELSE "probe"

\* Mutant: half-opening forgets to mark its own probe.
AcquiredUnmarked(e) ==
    IF HalfOpens(e) THEN [e EXCEPT !.status = "halfOpen", !.successes = 0, !.probing = FALSE]
    ELSE e

Acquired(e) ==
    CASE e.status = "closed" -> e
      [] e.status = "halfOpen" -> [e EXCEPT !.probing = TRUE]
      [] e.status = "open" ->
            [e EXCEPT !.status = "halfOpen", !.successes = 0, !.probing = TRUE]

\* Mutant: a success takes one failure back instead of all of them.
SucceededDecays(e, permit) ==
    CASE permit = "probe" /\ e.successes + 1 >= SuccessThreshold -> Closed
      [] permit = "probe" /\ e.successes + 1 < SuccessThreshold ->
            [e EXCEPT !.probing = FALSE, !.successes = @ + 1]
      [] permit = "plain" /\ e.status = "closed" ->
            [e EXCEPT !.consecutive = @ - 1, !.requests = @ + 1]
      [] OTHER -> e

\* record_success.  A permit carries no generation: an old one still counts.
Succeeded(e, permit) ==
    CASE permit = "probe" /\ e.successes + 1 >= SuccessThreshold -> Closed
      [] permit = "probe" /\ e.successes + 1 < SuccessThreshold ->
            [e EXCEPT !.probing = FALSE, !.successes = @ + 1]
      [] permit = "plain" /\ e.status = "closed" ->
            [e EXCEPT !.consecutive = 0, !.requests = @ + 1]
      [] OTHER -> e

\* Mutant: the rate is taken whatever the number of requests.
TripsEarly(e, threshold) ==
    e.consecutive >= threshold \/ e.failures * RateDen >= e.requests * RateNum

\* record_failure, under a policy whose failure threshold is given.
Trips(e, threshold) ==
    \/ e.consecutive >= threshold
    \/ e.requests >= MinRequests /\ e.failures * RateDen >= e.requests * RateNum

Failed(e, permit, threshold) ==
    CASE permit = "probe" ->
            [e EXCEPT !.probing = FALSE, !.status = "open", !.cooled = FALSE,
                      !.successes = 0, !.consecutive = threshold]
      [] permit = "plain" /\ e.status = "closed" ->
            LET counted == [e EXCEPT !.requests = @ + 1, !.failures = @ + 1,
                                     !.consecutive = @ + 1]
            IN  IF Trips(counted, threshold)
                THEN [counted EXCEPT !.status = "open", !.cooled = FALSE] ELSE counted
      [] OTHER -> e

\* release: a neutral end.
Released(e, permit) == IF permit = "probe" THEN [e EXCEPT !.probing = FALSE] ELSE e
=============================================================================
