-------------------------- MODULE RouteForwarding --------------------------
(***************************************************************************)
(* Requests of one CLI application passing through the daemon's local      *)
(* route with automatic failover on (forward_request and timed_body_stream *)
(* in route_http): every request walks the queue of providers under one    *)
(* send budget, takes a circuit permit per provider, changes keys inside a *)
(* provider, and settles the permit with what the provider answered.       *)
(*                                                                         *)
(* What the upstream answers is arbitrary.  The round-robin cursor of a    *)
(* key pool is left out: any eligible key may be next.  The rectifier's    *)
(* rules are one rule, used once per request.  The configuration and the   *)
(* queue stay as they are.                                                 *)
(***************************************************************************)
EXTENDS Circuit, FiniteSets

CONSTANTS
    Requests,       \* tasks that may run at a time, one request each
    Streaming,      \* the tasks whose requests ask for a stream
    Providers,      \* the number of queued providers: 1..Providers in order
    Keys,           \* the keys of a provider's pool
    MaxAttempts,    \* max_attempts(max_retries)
    MaxRequests,    \* bound: requests begun
    MaxCancels,     \* bound: requests whose client leaves before the response
    MaxResets       \* bound: circuit resets

ASSUME ForwardingConstants ==
    /\ Streaming \subseteq Requests
    /\ Providers \in Nat \ {0} /\ MaxAttempts \in Nat \ {0}
    /\ MaxRequests \in Nat /\ MaxCancels \in Nat /\ MaxResets \in Nat

VARIABLES
    circuit,   \* CircuitRegistry.entries of the application
    cooling,   \* KeyPool.cooldowns of each provider
    req,       \* the locals of forward_request and the TimedBodyState of each task
    blame,     \* history: failures recorded since the circuit was last closed
    begun, cancels, resets   \* bounds

vars == <<circuit, cooling, req, blame, begun, cancels, resets>>

Queue == 1..Providers

\* stage: where the task is suspended; a settled stream still relays chunks.
\* at: provider_index; sends: actual_provider_attempts; used: used_keys; key: the
\* selected key, or the one to be selected next, or none; success: the upstream's
\* status class.
Task == [stage: {"idle", "candidate", "selecting", "waiting", "refused", "body", "relaying"},
         at: Nat \ {0}, sends: Nat, permit: Permits, used: SUBSET Keys, key: SUBSET Keys,
         rectified: BOOLEAN, success: BOOLEAN]
Idle == [stage |-> "idle", at |-> 1, sends |-> 0, permit |-> "none", used |-> {}, key |-> {},
         rectified |-> FALSE, success |-> FALSE]

TypeOK ==
    /\ circuit \in [Queue -> CircuitEntry]
    /\ cooling \in [Queue -> SUBSET Keys]
    /\ req \in [Requests -> Task]
    /\ blame \in [Queue -> Nat]
    /\ begun \in Nat /\ cancels \in Nat /\ resets \in Nat

Init ==
    /\ circuit = [p \in Queue |-> Closed]
    /\ cooling = [p \in Queue |-> {}]
    /\ req = [r \in Requests |-> Idle]
    /\ blame = [p \in Queue |-> 0]
    /\ begun = 0 /\ cancels = 0 /\ resets = 0

-----------------------------------------------------------------------------
(* Settling the permit of a request: record_success, record_failure, release *)

End(r) == req' = [req EXCEPT ![r] = Idle]
NextCandidate(r) ==
    req' = [req EXCEPT ![r].stage = "candidate", ![r].at = @ + 1, ![r].permit = "none",
                       ![r].used = {}, ![r].key = {}]

RecordSuccess(r) ==
    LET p == req[r].at
    IN  /\ circuit' = [circuit EXCEPT ![p] = Succeeded(@, req[r].permit)]
        /\ blame' = IF circuit'[p] = Closed THEN [blame EXCEPT ![p] = 0] ELSE blame

\* The failure of a stream is worth a whole threshold.
RecordFailure(r, threshold) ==
    LET p == req[r].at
        counts == req[r].permit = "probe" \/ circuit[p].status = "closed"
    IN  /\ circuit' = [circuit EXCEPT ![p] = Failed(@, req[r].permit, threshold)]
        /\ blame' = IF counts THEN [blame EXCEPT ![p] = @ + 1 + FailureThreshold - threshold]
                    ELSE blame

\* Mutant: a skipped candidate is a failed one.
ReleaseAsFailure(r) == RecordFailure(r, FailureThreshold)

Release(r) ==
    /\ circuit' = [circuit EXCEPT ![req[r].at] = Released(@, req[r].permit)]
    /\ UNCHANGED blame

-----------------------------------------------------------------------------
(* Walking the queue *)

Begin(r) ==
    /\ req[r].stage = "idle" /\ begun < MaxRequests
    /\ begun' = begun + 1
    /\ req' = [req EXCEPT ![r].stage = "candidate"]
    /\ UNCHANGED <<circuit, cooling, blame, cancels, resets>>

Exhausted(r) == req[r].at > Providers \/ req[r].sends >= MaxAttempts

\* Mutant: a skipped candidate stays the candidate.
AcquireStuck(r) ==
    /\ req[r].stage = "candidate" /\ ~Exhausted(r)
    /\ LET p == req[r].at
       IN  /\ Admits(circuit[p])
           /\ req' = [req EXCEPT ![r].stage = "selecting", ![r].permit = PermitOf(circuit[p])]
           /\ circuit' = [circuit EXCEPT ![p] = Acquired(@)]
    /\ UNCHANGED <<cooling, blame, begun, cancels, resets>>

\* The circuit admits the request or the candidate is skipped.
Acquire(r) ==
    /\ req[r].stage = "candidate" /\ ~Exhausted(r)
    /\ LET p == req[r].at
       IN  \/ /\ Admits(circuit[p])
              /\ req' = [req EXCEPT ![r].stage = "selecting",
                                    ![r].permit = PermitOf(circuit[p])]
              /\ circuit' = [circuit EXCEPT ![p] = Acquired(@)]
           \/ ~Admits(circuit[p]) /\ NextCandidate(r) /\ UNCHANGED circuit
    /\ UNCHANGED <<cooling, blame, begun, cancels, resets>>

\* The failover is exhausted: the client is told so.
GiveUp(r) ==
    /\ req[r].stage = "candidate" /\ Exhausted(r)
    /\ End(r)
    /\ UNCHANGED <<circuit, cooling, blame, begun, cancels, resets>>

Eligible(p, used) == Keys \ (used \cup cooling[p])

Sending(r, key) ==
    req' = [req EXCEPT ![r].stage = "waiting", ![r].sends = @ + 1,
                       ![r].key = {key}, ![r].used = @ \cup {key}]

\* select_key_status and the first send to the provider.
SelectKey(r) ==
    /\ req[r].stage = "selecting"
    /\ \E key \in Eligible(req[r].at, {}) : Sending(r, key)
    /\ UNCHANGED <<circuit, cooling, blame, begun, cancels, resets>>

\* The provider's endpoint is invalid or its keys are all cooling down.
SkipUnsent(r) ==
    /\ req[r].stage = "selecting"
    /\ Release(r)
    /\ NextCandidate(r)
    /\ UNCHANGED <<cooling, begun, cancels, resets>>

-----------------------------------------------------------------------------
(* What the upstream answers *)

\* A timeout, a request error, or a 4xx or 5xx status that is not about the key.
ProviderFails(r) ==
    /\ req[r].stage = "waiting"
    /\ RecordFailure(r, FailureThreshold)
    /\ NextCandidate(r)
    /\ UNCHANGED <<cooling, begun, cancels, resets>>

\* A client error that the rectifier can repair: the same key tries again.
Rectify(r) ==
    /\ req[r].stage = "waiting" /\ r \notin Streaming /\ ~req[r].rectified
    /\ req[r].sends < MaxAttempts
    /\ req' = [req EXCEPT ![r].rectified = TRUE, ![r].sends = @ + 1]
    /\ UNCHANGED <<circuit, cooling, blame, begun, cancels, resets>>

\* Mutant: a refused key is the provider's failure.
KeyRefusedBlames(r) ==
    /\ req[r].stage = "waiting"
    /\ cooling' = [cooling EXCEPT ![req[r].at] = @ \cup req[r].key]
    /\ RecordFailure(r, FailureThreshold)
    /\ NextCandidate(r)
    /\ UNCHANGED <<begun, cancels, resets>>

Refused(r, next) == req' = [req EXCEPT ![r].stage = "refused", ![r].key = next]

\* 401, 403 or 429: the key cools down and the next one is chosen, if there is one
\* and the budget allows; then the answer is read for the records.
KeyRefused(r) ==
    /\ req[r].stage = "waiting"
    /\ LET p == req[r].at
           left == IF req[r].sends < MaxAttempts
                   THEN Eligible(p, req[r].used \cup req[r].key) ELSE {}
       IN  /\ cooling' = [cooling EXCEPT ![p] = @ \cup req[r].key]
           /\ \/ left = {} /\ Refused(r, {})
              \/ \E key \in left : Refused(r, {key})
    /\ UNCHANGED <<circuit, blame, begun, cancels, resets>>

KeyAgain(r) ==
    /\ req[r].stage = "refused"
    /\ \E key \in req[r].key : Sending(r, key)
    /\ UNCHANGED <<circuit, cooling, blame, begun, cancels, resets>>

\* No key or no send was left: the provider has failed.
KeyExhausted(r) ==
    /\ req[r].stage = "refused" /\ req[r].key = {}
    /\ RecordFailure(r, FailureThreshold)
    /\ NextCandidate(r)
    /\ UNCHANGED <<cooling, begun, cancels, resets>>

\* Any other status: a success, or a 1xx or 3xx that is nobody's failure.
Accepted(r) ==
    /\ req[r].stage = "waiting"
    /\ \E success \in BOOLEAN :
          req' = [req EXCEPT ![r].stage = "body", ![r].success = success]
    /\ UNCHANGED <<circuit, cooling, blame, begun, cancels, resets>>

\* The body of a request that asked for no stream.
ReadBody(r) ==
    /\ req[r].stage = "body" /\ r \notin Streaming
    /\ \/ RecordFailure(r, FailureThreshold)           \* too large, broken or late
       \/ req[r].success /\ RecordSuccess(r)
       \/ ~req[r].success /\ Release(r)
    /\ End(r)
    /\ UNCHANGED <<cooling, begun, cancels, resets>>

\* timed_body_stream: the first decisive event settles the permit.
StreamSettles(r) ==
    /\ req[r].stage = "body" /\ r \in Streaming
    /\ RecordSuccess(r) \/ RecordFailure(r, 1)
    /\ req' = [req EXCEPT ![r].stage = "relaying", ![r].permit = "none"]
    /\ UNCHANGED <<cooling, begun, cancels, resets>>

\* finish_stream_circuit: a stream that ends undecided is a failed one.
StreamBreaksOff(r) ==
    /\ req[r].stage = "body" /\ r \in Streaming
    /\ RecordFailure(r, 1)
    /\ End(r)
    /\ UNCHANGED <<cooling, begun, cancels, resets>>

StreamEnds(r) ==
    /\ req[r].stage = "relaying"
    /\ End(r)
    /\ UNCHANGED <<circuit, cooling, blame, begun, cancels, resets>>

\* Drop of TimedBodyState: the client leaves while the stream is undecided.
StreamDropped(r) ==
    /\ req[r].stage = "body" /\ r \in Streaming
    /\ Release(r)
    /\ End(r)
    /\ UNCHANGED <<cooling, begun, cancels, resets>>

\* The client leaves, or the listener stops, before the response has begun: the
\* task is dropped where it waits, and its permit with it.
Cancel(r) ==
    /\ req[r].stage \in {"waiting", "refused"} \/ (req[r].stage = "body" /\ r \notin Streaming)
    /\ cancels < MaxCancels
    /\ cancels' = cancels + 1
    /\ End(r)
    /\ UNCHANGED <<circuit, cooling, blame, begun, resets>>

-----------------------------------------------------------------------------
(* Time and the user *)

\* policy.timeout has passed since the circuit opened.
CoolDown(p) ==
    /\ circuit[p].status = "open" /\ ~circuit[p].cooled
    /\ circuit' = [circuit EXCEPT ![p].cooled = TRUE]
    /\ UNCHANGED <<cooling, req, blame, begun, cancels, resets>>

KeyCools(p) ==
    /\ \E key \in cooling[p] : cooling' = [cooling EXCEPT ![p] = @ \ {key}]
    /\ UNCHANGED <<circuit, req, blame, begun, cancels, resets>>

\* reset: one provider, or the whole application when failover is toggled.
Reset ==
    /\ resets < MaxResets
    /\ resets' = resets + 1
    /\ \E S \in {{p} : p \in Queue} \cup {Queue} :
          /\ circuit' = [p \in Queue |-> IF p \in S THEN Closed ELSE circuit[p]]
          /\ blame' = [p \in Queue |-> IF p \in S THEN 0 ELSE blame[p]]
    /\ UNCHANGED <<cooling, req, begun, cancels>>

-----------------------------------------------------------------------------
\* What has a time limit in the code: the walk, and the body of a plain request.
Walk(r) ==
    \/ Acquire(r) \/ GiveUp(r) \/ SelectKey(r) \/ SkipUnsent(r)
    \/ ProviderFails(r) \/ Rectify(r) \/ KeyRefused(r) \/ KeyAgain(r) \/ KeyExhausted(r)
    \/ Accepted(r) \/ ReadBody(r)

Step(r) == Walk(r) \/ StreamSettles(r) \/ StreamBreaksOff(r) \/ StreamEnds(r)

Next ==
    \/ \E r \in Requests : Begin(r) \/ Step(r) \/ StreamDropped(r) \/ Cancel(r)
    \/ \E p \in Queue : CoolDown(p) \/ KeyCools(p)
    \/ Reset

Spec == Init /\ [][Next]_vars

\* A task that runs reaches its next await, and every await of the walk has a time
\* limit.  A stream has none: only the gaps between its chunks have.
FairSpec == Spec /\ \A r \in Requests : WF_vars(Walk(r))

-----------------------------------------------------------------------------
(* Properties *)

Probing(r, p) == req[r].at = p /\ req[r].permit = "probe"

\* A half-open provider carries one probe at a time, as long as nobody resets it.
SingleProbe ==
    resets = 0 =>
        \A p \in Queue : \A r, s \in Requests : Probing(r, p) /\ Probing(s, p) => r = s

\* A circuit is open or half-open only after a threshold of failures, a failure
\* rate or a failed stream since it was last closed.
Earned(p) ==
    circuit[p].status # "closed" =>
        \/ blame[p] >= FailureThreshold
        \/ circuit[p].requests >= MinRequests
           /\ circuit[p].failures * RateDen >= circuit[p].requests * RateNum
OpenEarned == resets = 0 => \A p \in Queue : Earned(p)

\* The same, resets included: a reset circuit starts over.
ResetStartsOver == \A p \in Queue : Earned(p)

\* The probe that blocks all others belongs to a request that is still running.
ProbeOwned == \A p \in Queue : circuit[p].probing => \E r \in Requests : Probing(r, p)

\* Only an answer, or its absence after a send, is blamed on a provider: no
\* skipped candidate and no key that is cooling down.
SkipsUnblamed ==
    [][\A p \in Queue : blame'[p] > blame[p] =>
          \E r \in Requests : /\ req[r].at = p
                              /\ req[r].stage \in {"waiting", "refused", "body"}
                              /\ req'[r] # req[r]]_vars

\* A refused key is blamed on its provider only when, at the refusal, no other key
\* was left to this request or its sends were used up; whatever other requests do to
\* the pool until the failure is recorded.
KeysFirst ==
    [][\A r \in Requests :
          LET p == req[r].at
              moves == p \in Queue /\ req'[r] # req[r]
              spent == req[r].sends = MaxAttempts \/ Keys \subseteq req[r].used \cup cooling'[p]
          IN  /\ moves /\ cooling'[p] # cooling[p] =>
                    blame' = blame /\ (req'[r].key = {} => spent)
              /\ moves /\ req[r].stage = "refused" /\ blame'[p] > blame[p] =>
                    req[r].key = {}]_vars

\* Every request is decided, whatever the circuits and the key pools look like: it ends,
\* or the stream it asked for is under way.
RequestsDecided ==
    \A r \in Requests :
        req[r].stage # "idle" ~> \/ req[r].stage = "idle"
                                 \/ r \in Streaming /\ req[r].stage \in {"body", "relaying"}
=============================================================================
